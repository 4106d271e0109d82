---------------------------- MODULE KeyboardSpec -----------------------------
(***************************************************************************)
(* What standard input promises: the keys it accepts are read in the order *)
(* in which they were pressed, each once, and at most Capacity of them     *)
(* wait.  A read of at most n keys ends at a newline and never waits.      *)
(***************************************************************************)
EXTENDS Integers, Sequences

CONSTANTS Keys, Newline, Capacity, Counts

VARIABLES queue, result   \* keys that wait; what the last read returned

queueVars == <<queue, result>>

QueueInit == queue = <<>> /\ result = <<>>

Press(c) ==
    /\ Len(queue) < Capacity
    /\ queue' = Append(queue, c)
    /\ UNCHANGED result

(* The read of n keys takes k: all it may, or up to the first newline. *)
Read(n, k) ==
    /\ k = n \/ k = Len(queue) \/ (k > 0 /\ queue[k] = Newline)
    /\ \A i \in 1..k-1 : queue[i] # Newline
    /\ result' = SubSeq(queue, 1, k)
    /\ queue' = SubSeq(queue, k + 1, Len(queue))

QueueNext ==
    \/ \E c \in Keys : Press(c)
    \/ \E n \in Counts : \E k \in 0..n : k <= Len(queue) /\ Read(n, k)

QueueSpec == QueueInit /\ [][QueueNext]_queueVars
=============================================================================
