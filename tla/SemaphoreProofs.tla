--------------------------- MODULE SemaphoreProofs ----------------------------
(***************************************************************************)
(* The spinlock excludes, the semaphore loses no unit, and it implements   *)
(* the indivisible one of SemaphoreSpec, for every number of processes and *)
(* every initial value, whoever ends or is killed wherever it is.          *)
(***************************************************************************)
EXTENDS Semaphore, FiniteSetTheorems, TLAPS

(* What a step of a process does, case by case. *)
Acquire(p) ==
    \/ spinlock_lock(p, "wait_lock", "wait_test")
    \/ spinlock_lock(p, "signal_lock", "signal_read")
ReadCount(p) ==
    /\ reg' = [reg EXCEPT ![p] = count]
    /\ UNCHANGED <<count, locked>>
    /\ \/ HasUnit(p) /\ Goto(p, "wait_test", "wait_take")
       \/ ~HasUnit(p) /\ Goto(p, "wait_test", "retry_unlock")
       \/ Goto(p, "signal_read", "signal_write")
Take(p) ==
    /\ Goto(p, "wait_take", "wait_unlock")
    /\ count' = reg[p] - 1
    /\ UNCHANGED <<locked, reg>>
Give(p) ==
    /\ Goto(p, "signal_write", "signal_unlock")
    /\ count' = reg[p] + 1
    /\ UNCHANGED <<locked, reg>>
Unlock(p) ==
    \/ spinlock_unlock(p, "wait_unlock", "held")
    \/ spinlock_unlock(p, "retry_unlock", "yield")
    \/ spinlock_unlock(p, "signal_unlock", "out")

(* A step is one of these, or it leaves the count, the lock and the registers alone
   and moves no process into or out of the lock or across a write of the count. *)
Quiet ==
    /\ UNCHANGED <<count, locked, reg>>
    /\ \A p \in Procs :
          \/ pc'[p] = pc[p]
          \/ pc[p] = "out" /\ pc'[p] = "wait_lock"
          \/ pc[p] = "held" /\ pc'[p] = "signal_lock"
          \/ pc[p] = "yield" /\ pc'[p] = "wait_lock"

(* The scheduler switches to a process of the table. *)
LEMMA SwitchTyped ==
    ASSUME cpu \in Procs, SwitchCpu
    PROVE  cpu' \in Procs
<1>1. PICK k \in 1..N : cpu' = (cpu + k) % N
  BY DEF SwitchCpu
<1>2. ASSUME NEW a \in Nat
      PROVE  a % N \in 0..N-1
  BY <1>2, SemaphoreAssumption
<1> QED
  BY <1>1, <1>2, SemaphoreAssumption DEF Procs

(* Every step of the code is one of the cases, and keeps the types of the process
   table. *)
LEMMA StepCases ==
    ASSUME TypeOK, Next
    PROVE  /\ cpu' \in Procs /\ dead' \in SUBSET Procs /\ pc' \in [Procs -> Labels]
           /\ \/ Quiet
              \/ \E p \in Procs :
                    Acquire(p) \/ ReadCount(p) \/ Take(p) \/ Give(p) \/ Unlock(p)
<1> USE DEF TypeOK
<1>1. CASE Preempt
  BY <1>1, SwitchTyped DEF Preempt, Quiet
<1>2. ASSUME NEW p \in Procs, process_kill(p)
      PROVE  cpu' \in Procs /\ dead' \in SUBSET Procs /\ pc' \in [Procs -> Labels] /\ Quiet
  BY <1>2, SwitchTyped DEF process_kill, Quiet
<1>3. ASSUME NEW p \in Procs, Enter(p)
      PROVE  cpu' \in Procs /\ dead' \in SUBSET Procs /\ pc' \in [Procs -> Labels] /\ Quiet
  BY <1>3 DEF Enter, Goto, Move, Quiet, Labels, WaitSteps, SignalSteps
<1>4. ASSUME NEW p \in Procs, yield(p)
      PROVE  cpu' \in Procs /\ dead' \in SUBSET Procs /\ pc' \in [Procs -> Labels] /\ Quiet
  BY <1>4, SwitchTyped DEF yield, Move, Quiet, Labels, WaitSteps, SignalSteps
<1>5. ASSUME NEW p \in Procs, Step(p), ~yield(p)
      PROVE  /\ cpu' \in Procs /\ dead' \in SUBSET Procs /\ pc' \in [Procs -> Labels]
             /\ Acquire(p) \/ ReadCount(p) \/ Take(p) \/ Give(p) \/ Unlock(p)
  <2>1. Acquire(p) \/ ReadCount(p) \/ Take(p) \/ Give(p) \/ Unlock(p)
    BY <1>5 DEF Step, sem_wait, sem_signal, Acquire, ReadCount, Take, Give, Unlock
  <2>2. \E from, to \in Labels : Goto(p, from, to)
    BY <2>1 DEF Acquire, ReadCount, Take, Give, Unlock, spinlock_lock, spinlock_unlock,
        Labels, WaitSteps, SignalSteps
  <2> QED
    BY <2>1, <2>2 DEF Goto, Move
<1> QED
  BY <1>1, <1>2, <1>3, <1>4, <1>5 DEF Next

(* The strengthened invariant is inductive: whoever is inside the lock is there alone,
   so what it has read of the count stays true until it writes. *)
LEMMA Inductive ==
    ASSUME IInv, [Next]_vars
    PROVE  IInv'
<1> USE DEF IInv
<1>1. CASE UNCHANGED vars
  BY <1>1 DEF vars, TypeOK, MutualExclusion, LockTaken, ReadIsCurrent, InLock
<1>2. CASE Next
  <2>1. /\ cpu' \in Procs /\ dead' \in SUBSET Procs /\ pc' \in [Procs -> Labels]
        /\ \/ Quiet
           \/ \E p \in Procs :
                 Acquire(p) \/ ReadCount(p) \/ Take(p) \/ Give(p) \/ Unlock(p)
    BY <1>2, StepCases
  <2>2. CASE Quiet
    <3>1. \A p \in Procs : InLock(p)' => InLock(p)
      BY <2>2 DEF Quiet, InLock
    <3>2. TypeOK'
      BY <2>1, <2>2 DEF Quiet, TypeOK
    <3>3. MutualExclusion' /\ LockTaken'
      BY <2>2, <3>1 DEF Quiet, MutualExclusion, LockTaken
    <3>4. ReadIsCurrent'
      BY <2>2 DEF Quiet, ReadIsCurrent
    <3> QED
      BY <3>2, <3>3, <3>4
  <2>3. ASSUME NEW p \in Procs, Acquire(p)
        PROVE  IInv'
    <3>1. locked = 0 /\ locked' = 1 /\ UNCHANGED <<count, reg>>
      BY <2>3 DEF Acquire, spinlock_lock
    <3>2. \A q \in Procs : q # p => pc'[q] = pc[q]
      BY <2>3 DEF Acquire, spinlock_lock, Goto, Move, TypeOK
    <3>3. pc'[p] \in {"wait_test", "signal_read"}
      BY <2>3 DEF Acquire, spinlock_lock, Goto, Move, TypeOK
    <3>4. \A q \in Procs : ~InLock(q)
      BY <3>1 DEF LockTaken
    <3>5. TypeOK'
      BY <2>1, <3>1 DEF TypeOK
    <3>6. MutualExclusion' /\ LockTaken'
      BY <3>1, <3>2, <3>4 DEF MutualExclusion, LockTaken, InLock
    <3>7. ReadIsCurrent'
      BY <3>1, <3>2, <3>3 DEF ReadIsCurrent
    <3> QED
      BY <3>5, <3>6, <3>7
  <2>4. ASSUME NEW p \in Procs, ReadCount(p)
        PROVE  IInv'
    <3>1. reg' = [reg EXCEPT ![p] = count] /\ UNCHANGED <<count, locked>>
      BY <2>4 DEF ReadCount
    <3>2. /\ InLock(p) /\ \A q \in Procs : q # p => pc'[q] = pc[q]
          /\ pc'[p] \in {"wait_take", "retry_unlock", "signal_write"}
          /\ pc'[p] = "wait_take" => HasUnit(p)
      BY <2>4 DEF ReadCount, Goto, Move, TypeOK, InLock
    <3>3. TypeOK'
      BY <2>1, <3>1 DEF TypeOK
    <3>4. \A q \in Procs : q # p => ~InLock(q)
      BY <3>2 DEF MutualExclusion
    <3>5. MutualExclusion' /\ LockTaken'
      BY <3>1, <3>2, <3>4 DEF MutualExclusion, LockTaken, InLock
    <3>6. ReadIsCurrent'
      BY <3>1, <3>2 DEF ReadIsCurrent, HasUnit, TypeOK
    <3> QED
      BY <3>3, <3>5, <3>6
  <2>5. ASSUME NEW p \in Procs, Take(p) \/ Give(p)
        PROVE  IInv'
    <3>1. /\ InLock(p) /\ pc'[p] \in {"wait_unlock", "signal_unlock"}
          /\ \A q \in Procs : q # p => pc'[q] = pc[q]
          /\ UNCHANGED <<locked, reg>>
      BY <2>5 DEF Take, Give, Goto, Move, TypeOK, InLock
    <3>2. count' \in Nat
      BY <2>5 DEF Take, Give, Goto, Move, TypeOK, ReadIsCurrent
    <3>3. TypeOK'
      BY <2>1, <3>1, <3>2 DEF TypeOK
    <3>4. \A q \in Procs : q # p => ~InLock(q)
      BY <3>1 DEF MutualExclusion
    <3>5. MutualExclusion' /\ LockTaken'
      BY <3>1, <3>4 DEF MutualExclusion, LockTaken, InLock
    <3>6. ReadIsCurrent'
      BY <3>1, <3>4 DEF ReadIsCurrent, InLock
    <3> QED
      BY <3>3, <3>5, <3>6
  <2>6. ASSUME NEW p \in Procs, Unlock(p)
        PROVE  IInv'
    <3>1. /\ InLock(p) /\ pc'[p] \in {"held", "yield", "out"}
          /\ \A q \in Procs : q # p => pc'[q] = pc[q]
          /\ locked' = 0 /\ UNCHANGED <<count, reg>>
      BY <2>6 DEF Unlock, spinlock_unlock, Goto, Move, TypeOK, InLock
    <3>2. \A q \in Procs : ~InLock(q)'
      BY <3>1 DEF MutualExclusion, InLock
    <3>3. TypeOK'
      BY <2>1, <3>1 DEF TypeOK
    <3>4. MutualExclusion' /\ LockTaken' /\ ReadIsCurrent'
      BY <3>2 DEF MutualExclusion, LockTaken, ReadIsCurrent, InLock
    <3> QED
      BY <3>3, <3>4
  <2> QED
    BY <2>1, <2>2, <2>3, <2>4, <2>5, <2>6
<1> QED
  BY <1>1, <1>2

(* The invariant holds after sem_init and ever after. *)
THEOREM Invariance == Spec => []IInv
<1>1. Init => IInv
  BY SemaphoreAssumption DEF Init, IInv, TypeOK, MutualExclusion, LockTaken, ReadIsCurrent,
      InLock, Procs, Labels, WaitSteps, SignalSteps
<1> QED
  BY <1>1, Inductive, PTL DEF Spec

(* The types: the count never becomes negative and the lock is 0 or 1. *)
THEOREM TypeCorrect == Spec => []TypeOK
  BY Invariance, PTL DEF IInv

(* spinlock_lock admits one process at a time to the count. *)
THEOREM MutualExclusionHolds == Spec => []MutualExclusion
  BY Invariance, PTL DEF IInv
(* Only the two writes of the count change who holds a unit. *)
LEMMA HoldersChange ==
    ASSUME IInv, Next
    PROVE  \/ count' = count /\ Holders' = Holders
           \/ \E p \in Procs : Take(p) /\ count > 0 /\ count' = count - 1
                             /\ p \notin Holders /\ Holders' = Holders \cup {p}
           \/ \E p \in Procs : Give(p) /\ count' = count + 1
                             /\ p \in Holders /\ Holders' = Holders \ {p}
<1> USE DEF IInv
<1>1. \/ Quiet
      \/ \E p \in Procs : Acquire(p) \/ ReadCount(p) \/ Take(p) \/ Give(p) \/ Unlock(p)
  BY StepCases
<1>2. CASE Quiet
  BY <1>2 DEF Quiet, Holders
<1>3. ASSUME NEW p \in Procs, Acquire(p) \/ ReadCount(p) \/ Unlock(p)
      PROVE  count' = count /\ Holders' = Holders
  <2>1. CASE Acquire(p)
    BY <2>1 DEF Acquire, spinlock_lock, Goto, Move, TypeOK, Holders
  <2>2. CASE ReadCount(p)
    BY <2>2 DEF ReadCount, Goto, Move, TypeOK, Holders
  <2>3. CASE Unlock(p)
    BY <2>3 DEF Unlock, spinlock_unlock, Goto, Move, TypeOK, Holders
  <2> QED
    BY <1>3, <2>1, <2>2, <2>3
<1>4. ASSUME NEW p \in Procs, Take(p)
      PROVE  /\ count > 0 /\ count' = count - 1
             /\ p \notin Holders /\ Holders' = Holders \cup {p}
  BY <1>4 DEF Take, Goto, Move, TypeOK, ReadIsCurrent, Holders
<1>5. ASSUME NEW p \in Procs, Give(p)
      PROVE  /\ count' = count + 1
             /\ p \in Holders /\ Holders' = Holders \ {p}
  BY <1>5 DEF Give, Goto, Move, TypeOK, ReadIsCurrent, Holders
<1> QED
  BY <1>1, <1>2, <1>3, <1>4, <1>5

(* The units are conserved: the free ones and the held ones add up to those sem_init
   created, at every step of every process. *)
THEOREM UnitsConservedHolds == Spec => []UnitsConserved
<1>1. Init => UnitsConserved
  <2> SUFFICES ASSUME Init PROVE UnitsConserved
    OBVIOUS
  <2>1. Holders = {}
    BY DEF Init, Holders
  <2> QED
    BY <2>1, FS_EmptySet, SemaphoreAssumption DEF Init, UnitsConserved
<1>2. IInv /\ UnitsConserved /\ [Next]_vars => UnitsConserved'
  <2> SUFFICES ASSUME IInv, UnitsConserved, [Next]_vars
               PROVE  UnitsConserved'
    OBVIOUS
  <2>1. IsFiniteSet(Holders) /\ Cardinality(Holders) \in Nat
    <3>1. IsFiniteSet(Procs)
      BY FS_Interval, SemaphoreAssumption DEF Procs
    <3> QED
      BY <3>1, FS_Subset, FS_CardinalityType DEF Holders
  <2>2. count \in Nat
    BY DEF IInv, TypeOK
  <2>3. CASE UNCHANGED vars
    BY <2>3 DEF vars, UnitsConserved, Holders
  <2>4. CASE Next /\ count' = count /\ Holders' = Holders
    BY <2>4 DEF UnitsConserved
  <2>5. ASSUME NEW p \in Procs, count' = count - 1, p \notin Holders,
               Holders' = Holders \cup {p}
        PROVE  UnitsConserved'
    <3>1. Cardinality(Holders') = Cardinality(Holders) + 1
      BY <2>1, <2>5, FS_AddElement
    <3> QED
      BY <2>1, <2>2, <2>5, <3>1, SemaphoreAssumption DEF UnitsConserved
  <2>6. ASSUME NEW p \in Procs, count' = count + 1, p \in Holders,
               Holders' = Holders \ {p}
        PROVE  UnitsConserved'
    <3>1. Cardinality(Holders') = Cardinality(Holders) - 1
      BY <2>1, <2>6, FS_RemoveElement
    <3> QED
      BY <2>1, <2>2, <2>6, <3>1, SemaphoreAssumption DEF UnitsConserved
  <2> QED
    BY <2>3, <2>4, <2>5, <2>6, HoldersChange
<1> QED
  BY <1>1, <1>2, Invariance, PTL DEF Spec

(* sem_wait and sem_signal, interrupted between any two accesses, implement the
   indivisible operations of SemaphoreSpec. *)
THEOREM Refinement == Spec => LooksAtomic
<1>1. Init => Atomic!SpecInit
  BY DEF Init, Atomic!SpecInit, Holders
<1>2. IInv /\ [Next]_vars => [Atomic!SpecNext]_(Atomic!specVars)
  <2> SUFFICES ASSUME IInv, [Next]_vars
               PROVE  [Atomic!SpecNext]_(Atomic!specVars)
    OBVIOUS
  <2>1. CASE UNCHANGED vars
    BY <2>1 DEF vars, Atomic!specVars, Holders
  <2>2. CASE Next /\ count' = count /\ Holders' = Holders
    BY <2>2 DEF Atomic!specVars
  <2>3. ASSUME NEW p \in Procs, count > 0, count' = count - 1, p \notin Holders,
               Holders' = Holders \cup {p}
        PROVE  Atomic!SpecNext
    BY <2>3 DEF Atomic!SpecNext, Atomic!P
  <2>4. ASSUME NEW p \in Procs, count' = count + 1, p \in Holders,
               Holders' = Holders \ {p}
        PROVE  Atomic!SpecNext
    BY <2>4 DEF Atomic!SpecNext, Atomic!V
  <2> QED
    BY <2>1, <2>2, <2>3, <2>4, HoldersChange
<1> QED
  BY <1>1, <1>2, Invariance, PTL DEF Spec, LooksAtomic, Atomic!AtomicSpec
=============================================================================
