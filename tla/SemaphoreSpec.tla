---------------------------- MODULE SemaphoreSpec ----------------------------
(***************************************************************************)
(* What semaphore.h promises: a counting semaphore whose wait and signal   *)
(* are indivisible.                                                        *)
(***************************************************************************)
EXTENDS Integers

CONSTANTS Procs, Value    \* the users; the count it starts with

VARIABLES avail, holders  \* free units; the processes that hold one

specVars == <<avail, holders>>

SpecInit == avail = Value /\ holders = {}

P(p) ==
    /\ p \notin holders
    /\ avail > 0
    /\ avail' = avail - 1
    /\ holders' = holders \cup {p}

V(p) ==
    /\ p \in holders
    /\ avail' = avail + 1
    /\ holders' = holders \ {p}

SpecNext == \E p \in Procs : P(p) \/ V(p)

AtomicSpec == SpecInit /\ [][SpecNext]_specVars
=============================================================================
