------------------------------ MODULE Semaphore ------------------------------
(***************************************************************************)
(* The semaphore of src/kernel/semaphore.c over the spinlock of            *)
(* src/kernel/spinlock.c, used by processes that wait, hold one unit and   *)
(* signal, again and again.                                                *)
(*                                                                         *)
(* The callers run with interrupts enabled: IRQ0 may switch process        *)
(* between any two memory accesses, so every access to the lock or the     *)
(* count is a step of its own, and count-- and count++ are a read and a    *)
(* write.  There is one CPU, which scheduler_yield_impl hands round in     *)
(* table order; the semaphore never blocks a process, so all that live are *)
(* READY.  A process may end, or be killed by another one, wherever it is; *)
(* nothing it holds is given back.                                         *)
(***************************************************************************)
EXTENDS Integers, FiniteSets

CONSTANTS
    N,        \* processes that share the semaphore
    Value     \* the value given to sem_init

ASSUME SemaphoreAssumption == N \in Nat \ {0} /\ Value \in Nat

Procs == 0..N-1

VARIABLES
    cpu,      \* current_process
    count,    \* sem->count
    locked,   \* sem->lock.locked
    pc,       \* where a process is
    reg,      \* the count a process has read
    dead      \* the processes that are TERMINATED

vars == <<cpu, count, locked, pc, reg, dead>>

(* In sem_wait, in sem_signal, or outside: "out" without and "held" with a unit. *)
WaitSteps == {"wait_lock", "wait_test", "wait_take", "wait_unlock", "retry_unlock",
              "yield"}
SignalSteps == {"signal_lock", "signal_read", "signal_write", "signal_unlock"}
Labels == {"out", "held"} \cup WaitSteps \cup SignalSteps

TypeOK ==
    /\ cpu \in Procs
    /\ count \in Nat
    /\ locked \in {0, 1}
    /\ pc \in [Procs -> Labels]
    /\ reg \in [Procs -> Int]
    /\ dead \in SUBSET Procs

(* sem_init, with spinlock_init. *)
Init ==
    /\ cpu = 0
    /\ count = Value
    /\ locked = 0
    /\ pc = [p \in Procs |-> "out"]
    /\ reg = [p \in Procs |-> 0]
    /\ dead = {}

(* The process on the CPU moves on; it keeps the CPU unless it yields. *)
Move(p, from, to) ==
    /\ cpu = p /\ pc[p] = from
    /\ pc' = [pc EXCEPT ![p] = to]
    /\ UNCHANGED dead
Goto(p, from, to) == Move(p, from, to) /\ UNCHANGED cpu

(* scheduler_yield_impl: the next live process in the table, round and round. *)
SwitchCpu ==
    \E k \in 1..N :
        /\ (cpu + k) % N \notin dead'
        /\ \A j \in 1..k-1 : (cpu + j) % N \in dead'
        /\ cpu' = (cpu + k) % N

(* IRQ0 at the end of a time slice. *)
Preempt == UNCHANGED <<count, locked, pc, reg, dead>> /\ SwitchCpu

(* process_exit, and process_kill of any process, by one that is in no call of the
   semaphore.  Once all have ended, KernelMain is alone. *)
MayCall == cpu \notin dead /\ pc[cpu] \in {"out", "held"}
process_kill(p) ==
    /\ MayCall /\ p \notin dead
    /\ dead \cup {p} # Procs
    /\ dead' = dead \cup {p}
    /\ IF p = cpu THEN SwitchCpu ELSE UNCHANGED cpu
    /\ UNCHANGED <<count, locked, pc, reg>>

(* spinlock_lock: one xchg; a process that reads 1 stays in the loop. *)
MutTestThenSet(p, from, to) ==
    /\ Goto(p, from, to)
    /\ locked' = 1
    /\ UNCHANGED <<count, reg>>
spinlock_lock(p, from, to) ==
    /\ Goto(p, from, to)
    /\ locked = 0
    /\ locked' = 1
    /\ UNCHANGED <<count, reg>>

spinlock_unlock(p, from, to) ==
    /\ Goto(p, from, to)
    /\ locked' = 0
    /\ UNCHANGED <<count, reg>>

(* The caller decides to wait for a unit, or to give its unit back. *)
Enter(p) ==
    /\ Goto(p, "out", "wait_lock") \/ Goto(p, "held", "signal_lock")
    /\ UNCHANGED <<count, locked, reg>>

MutTakeAtZero(p) == reg'[p] >= 0
HasUnit(p) == reg'[p] > 0

(* The scheduler_yield() between two attempts. *)
MutNoYield(p) == Goto(p, "yield", "wait_lock") /\ UNCHANGED <<count, locked, reg>>
yield(p) == Move(p, "yield", "wait_lock") /\ SwitchCpu /\ UNCHANGED <<count, locked, reg>>

sem_wait(p) ==
    \/ spinlock_lock(p, "wait_lock", "wait_test")
    \/ /\ reg' = [reg EXCEPT ![p] = count]
       /\ \/ HasUnit(p) /\ Goto(p, "wait_test", "wait_take")
          \/ ~HasUnit(p) /\ Goto(p, "wait_test", "retry_unlock")
       /\ UNCHANGED <<count, locked>>
    \/ /\ Goto(p, "wait_take", "wait_unlock")
       /\ count' = reg[p] - 1
       /\ UNCHANGED <<locked, reg>>
    \/ spinlock_unlock(p, "wait_unlock", "held")
    \/ spinlock_unlock(p, "retry_unlock", "yield")
    \/ yield(p)

sem_signal(p) ==
    \/ spinlock_lock(p, "signal_lock", "signal_read")
    \/ /\ Goto(p, "signal_read", "signal_write")
       /\ reg' = [reg EXCEPT ![p] = count]
       /\ UNCHANGED <<count, locked>>
    \/ /\ Goto(p, "signal_write", "signal_unlock")
       /\ count' = reg[p] + 1
       /\ UNCHANGED <<locked, reg>>
    \/ spinlock_unlock(p, "signal_unlock", "out")

Step(p) == sem_wait(p) \/ sem_signal(p)

Next == Preempt \/ \E p \in Procs : Enter(p) \/ Step(p) \/ process_kill(p)

Spec == Init /\ [][Next]_vars

(* IRQ0 keeps coming; a process that is given the CPU over and over when it can
   move is not interrupted before its first instruction every time; whoever holds
   a unit gives it back.  A process on a held lock spins its slice away. *)
Giving(p) == pc[p] = "held" /\ Enter(p)
FairSpec ==
    /\ Spec
    /\ WF_vars(Preempt)
    /\ \A p \in Procs : SF_vars(Step(p)) /\ SF_vars(Giving(p))
-----------------------------------------------------------------------------
(* The processes between the decrement of count and the matching increment. *)
Holders == {p \in Procs : pc[p] \in {"wait_unlock", "held", "signal_lock",
                                     "signal_read", "signal_write"}}

(* spinlock_lock admits one process at a time to count. *)
InLock(p) == pc[p] \in {"wait_test", "wait_take", "wait_unlock", "retry_unlock",
                        "signal_read", "signal_write", "signal_unlock"}
MutualExclusion == \A p, q \in Procs : InLock(p) /\ InLock(q) => p = q

(* No unit is lost or made up, whichever accesses are interleaved: the free
   units and the held ones are the ones sem_init created. *)
UnitsConserved == count + Cardinality(Holders) = Value

(* sem_wait and sem_signal look indivisible: each takes effect at its write. *)
Atomic == INSTANCE SemaphoreSpec WITH avail <- count, holders <- Holders
LooksAtomic == Atomic!AtomicSpec

(* The semaphore never gets stuck, whoever ends or is killed: while some live process
   waits, some live process (not necessarily that one) gets a unit.  The exceptions are a
   process that died inside the lock, and every unit held by a process that died. *)
Waiting == \E p \in Procs \ dead : pc[p] \in WaitSteps
Lost == (\E p \in dead : InLock(p)) \/ Cardinality(Holders \cap dead) = Value
WaitsAreServed ==
    Waiting ~> (~Waiting \/ Lost \/ \E p \in Procs \ dead : pc[p] = "held")
-----------------------------------------------------------------------------
(* What makes MutualExclusion and LooksAtomic inductive: the lock is taken when a
   process is inside, and the count a process has read there is still the count. *)
LockTaken == \A p \in Procs : InLock(p) => locked = 1
ReadIsCurrent ==
    \A p \in Procs :
        /\ pc[p] \in {"wait_take", "signal_write"} => reg[p] = count
        /\ pc[p] = "wait_take" => count > 0
IInv == TypeOK /\ MutualExclusion /\ LockTaken /\ ReadIsCurrent
=============================================================================
