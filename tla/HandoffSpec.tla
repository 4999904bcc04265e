---------------------------- MODULE HandoffSpec ----------------------------
(***************************************************************************)
(* What a handoff promises, without daemons, messages or files: work moves *)
(* from the source session to one continuation, in four irreversible       *)
(* steps.  An operator authorizes the launch; one session is told to carry *)
(* on; it confirms that it loaded the context; and only then may the       *)
(* handoff close the source session.  Handoff.tla implements this          *)
(* specification.                                                          *)
(***************************************************************************)

CONSTANT Sessions    \* sessions that can become the continuation

VARIABLES
    granted,    \* an operator authorized the launch
    running,    \* sessions sent the prompt to continue the work
    loaded,     \* the continuation confirmed that it has the context
    released    \* the handoff closed the source session

specVars == <<granted, running, loaded, released>>

SpecInit ==
    /\ granted = FALSE
    /\ running = {}
    /\ loaded = FALSE
    /\ released = FALSE

Authorize ==
    /\ ~granted
    /\ granted' = TRUE
    /\ UNCHANGED <<running, loaded, released>>

Continue(s) ==
    /\ granted
    /\ running = {}
    /\ running' = {s}
    /\ UNCHANGED <<granted, loaded, released>>

Load ==
    /\ running # {}
    /\ ~loaded
    /\ loaded' = TRUE
    /\ UNCHANGED <<granted, running, released>>

Release ==
    /\ loaded
    /\ ~released
    /\ released' = TRUE
    /\ UNCHANGED <<granted, running, loaded>>

SpecNext ==
    \/ Authorize
    \/ \E s \in Sessions : Continue(s)
    \/ Load
    \/ Release

AbstractSpec == SpecInit /\ [][SpecNext]_specVars
=============================================================================
