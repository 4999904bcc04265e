--------------------------- MODULE HandoffChannel ---------------------------
(***************************************************************************)
(* The mesh RPC path between the two daemons of one handoff                *)
(* (internal/mesh/rpc.go), as the handoff code sees it.  A call is matched *)
(* to its response by a request id that is never reused, so a response     *)
(* whose caller is gone has no effect.  What survives its caller is the    *)
(* request: it may be lost, or run later as an orphan.  Orphans of one     *)
(* method are indistinguishable, so they are one member of the set reqs.   *)
(***************************************************************************)
EXTENDS HandoffRecord

Methods == {"prepare", "launch", "verify"}

Request == [method : Methods, live : BOOLEAN]

\* "status" and "verification" are results; the others are error codes.
\* "unrecognized" is the code invalid_request too, answered not because of
\* the record's state but because the target cannot read the record or does
\* not take itself for the device it names.
ReplyKinds == {"none", "status", "verification", "permission_denied",
               "invalid_request", "unrecognized", "internal"}

Reply == [kind : ReplyKinds, state : TargetState \cup {Absent},
          locator : Sessions \cup {NoSession}, loaded : Acks \cup {NoAck}]

NoReply == [kind |-> "none", state |-> Absent, locator |-> NoSession, loaded |-> NoAck]
ErrorReply(code) == [NoReply EXCEPT !.kind = code]

VARIABLES
    reqs,      \* requests on their way or queued behind the per-ID lock
    serving,   \* the handler holding the lock answers the outstanding call
    reply      \* the response on its way to the outstanding call

channelVars == <<reqs, serving, reply>>

ChannelTypeOK ==
    /\ reqs \subseteq Request
    /\ serving \in BOOLEAN
    /\ reply \in Reply

ChannelInit ==
    /\ reqs = {}
    /\ serving = FALSE
    /\ reply = NoReply

-----------------------------------------------------------------------------
\* Manager.Call registers a fresh id and enqueues the request.
Call(m) ==
    /\ reqs' = reqs \cup {[method |-> m, live |-> TRUE]}
    /\ reply' = NoReply
    /\ UNCHANGED serving

\* The caller stops waiting (timeout, disconnect, restart): its request is
\* lost with the connection or runs on without it.  An orphaned verify only
\* reads, so it is dropped.
Abandon ==
    /\ \E kept \in BOOLEAN :
          reqs' = {r \in reqs : ~r.live} \cup
                  {[r EXCEPT !.live = FALSE] :
                      r \in {q \in reqs : kept /\ q.live /\ q.method # "verify"}}
    /\ serving' = FALSE
    /\ reply' = NoReply

\* A handler starts on request r; other orphans like r may remain.
Take(r) ==
    /\ r \in reqs
    /\ \E gone \in BOOLEAN :
          /\ r.live => gone
          /\ reqs' = IF gone THEN reqs \ {r} ELSE reqs

\* runHandler sends the result if its caller still waits.
Answer(x) ==
    /\ reply' = IF serving THEN x ELSE reply
    /\ serving' = FALSE

\* A request dies with its connection before any handler ran.
RequestLost(r) ==
    /\ Take(r)
    /\ UNCHANGED <<serving, reply>>
=============================================================================
