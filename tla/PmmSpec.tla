------------------------------- MODULE PmmSpec -------------------------------
(***************************************************************************)
(* What pmm.h promises: a pool of physical pages, once boot has filled it. *)
(* An allocation hands out the lowest free page; a page that is freed goes *)
(* back to the pool once.                                                  *)
(***************************************************************************)
EXTENDS Integers

CONSTANT PageNumbers

VARIABLES ready, pool  \* has boot filled the pool; the free pages

poolVars == <<ready, pool>>

PoolInit == ready = FALSE /\ pool = {}

Fill ==
    /\ ~ready
    /\ ready' = TRUE
    /\ pool' \in SUBSET PageNumbers

Take(p) ==
    /\ ready
    /\ p \in pool
    /\ \A q \in pool : p <= q
    /\ pool' = pool \ {p}
    /\ UNCHANGED ready

Return(p) ==
    /\ ready
    /\ p \notin pool
    /\ pool' = pool \cup {p}
    /\ UNCHANGED ready

PoolNext == Fill \/ \E p \in PageNumbers : Take(p) \/ Return(p)

PoolSpec == PoolInit /\ [][PoolNext]_poolVars
=============================================================================
