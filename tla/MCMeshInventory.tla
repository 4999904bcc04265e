-------------------------- MODULE MCMeshInventory --------------------------
(* MeshInventory for TLC.                                                  *)
EXTENDS MeshInventory, TLC

\* One item, and two listings of more than one page that differ in every
\* value: what a mixture of listings needs to show.
MCCatalogs ==
    LET i1 == CHOOSE i \in Items : TRUE
        v1 == CHOOSE v \in Values : TRUE
    IN {[Nothing EXCEPT ![i1] = v1]} \cup {[i \in Items |-> v] : v \in Values}

Symmetric == Permutations(Calls)
=============================================================================
