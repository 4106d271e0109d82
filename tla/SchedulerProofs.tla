--------------------------- MODULE SchedulerProofs ---------------------------
(***************************************************************************)
(* Proofs that the properties of Scheduler hold for every number of slots, *)
(* every quantum and every set of exit codes.                              *)
(***************************************************************************)
EXTENDS SchedulerPreempt, TLAPS

(* What a caller has established of the states st it hands to
   scheduler_yield: the invariant, with st in the place of state. *)
YieldPre(st) ==
    /\ st \in [Slots -> States]
    /\ st[current_process] # "READY"
    /\ st[0] # "BLOCKED"
    /\ current_process = 0 => st[0] \in {"RUNNING", "TERMINATED"}
    /\ \A i \in Used \ {current_process} :
          /\ st[i] # "RUNNING"
          /\ st[i] # "TERMINATED" => esp[i] = i
          /\ st[i] = "BLOCKED" => bypass[i] = 0
          /\ st[i] = "READY" => bypass[i] + ScanDistance(i) < process_count

(* What scheduler_yield then guarantees, beside the table it does not touch. *)
YieldPost ==
    /\ current_process' \in Used
    /\ state' \in [Slots -> States]
    /\ esp' \in [Slots -> Slots \cup {NoEsp, Stale}]
    /\ tss' \in Slots \cup {NoEsp}
    /\ cpu' \in Slots
    /\ bypass' \in [Slots -> Nat]
    /\ OneRunning' /\ ContextIntact' /\ TssFollowsCurrent'
    /\ ExecutingNotReady' /\ ExitDoesNotReturn' /\ BypassPaid'

(* A yield blocks nobody, wakes nobody and terminates nobody. *)
SameFate(st) ==
    \A i \in Slots : /\ state'[i] = "BLOCKED" <=> st[i] = "BLOCKED"
                     /\ state'[i] = "TERMINATED" <=> st[i] = "TERMINATED"

(* What the types say of the slots in use. *)
LEMMA SlotFacts ==
    ASSUME TypeOK
    PROVE  /\ process_count \in Nat \ {0}
           /\ current_process \in 0 .. process_count - 1
           /\ current_process \in Used /\ 0 \in Used /\ process_count \notin Used
           /\ Used \subseteq Slots
<1>1. process_count \in 1 .. MAX_PROCESSES /\ current_process \in Used
  BY DEF TypeOK
<1>. QED  BY <1>1, SchedulerAssumption DEF Used, Slots

(* The scan index (c + d) % n is the slot d places
   further round the table. *)
LEMMA ScanIndex ==
    ASSUME NEW n \in Nat \ {0}, NEW c \in 0 .. n - 1, NEW d \in 1 .. n - 1
    PROVE  (c + d) % n = IF c + d < n THEN c + d ELSE c + d - n
<1>1. CASE c + d < n
  BY <1>1
<1>2. CASE c + d >= n
  BY <1>2
<1>. QED  BY <1>1, <1>2

(* ReadyDistances holds exactly the scan distances of the READY slots other
   than the current one. *)
LEMMA ReadyDistancesAre ==
    ASSUME TypeOK, NEW st
    PROVE  /\ \A d \in ReadyDistances(st) :
                LET i == ScanSlot(d)
                IN  /\ i \in Used \ {current_process}
                    /\ st[i] = "READY"
                    /\ ScanDistance(i) = d
           /\ \A i \in Used \ {current_process} :
                st[i] = "READY" => ScanDistance(i) \in ReadyDistances(st)
<1>. /\ process_count \in Nat \ {0}
     /\ current_process \in 0 .. process_count - 1
  BY SlotFacts
<1>1. ASSUME NEW d \in ReadyDistances(st)
      PROVE  LET i == ScanSlot(d)
             IN  /\ i \in Used \ {current_process}
                 /\ st[i] = "READY"
                 /\ ScanDistance(i) = d
  <2>. DEFINE i == ScanSlot(d)
  <2>1. d \in 1 .. process_count - 1 /\ st[i] = "READY"
    BY DEF ReadyDistances
  <2>2. i = IF current_process + d < process_count
            THEN current_process + d ELSE current_process + d - process_count
    BY <2>1, ScanIndex, Zenon DEF ScanSlot
  <2>. HIDE DEF i
  <2>3. i \in Used \ {current_process} /\ ScanDistance(i) = d
    BY <2>1, <2>2 DEF Used, ScanDistance
  <2>. QED  BY <2>1, <2>3 DEF i
<1>2. ASSUME NEW i \in Used \ {current_process}, st[i] = "READY"
      PROVE  ScanDistance(i) \in ReadyDistances(st)
  <2>1. ScanDistance(i) \in 1 .. process_count - 1
    BY DEF ScanDistance, Used
  <2>2. ScanSlot(ScanDistance(i)) = i
    BY <2>1, ScanIndex DEF ScanDistance, Used, ScanSlot
  <2>. QED  BY <1>2, <2>1, <2>2 DEF ReadyDistances
<1>. QED  BY <1>1, <1>2

(* The same process goes on executing, with the states replaced by st. *)
LEMMA StatesReplaced ==
    ASSUME TypeOK, ContextIntact, TssFollowsCurrent, BypassPaid,
           NEW st, YieldPre(st),
           st[0] = "TERMINATED" \/ st[current_process] = "RUNNING",
           state' = st, UNCHANGED <<current_process, esp, tss, cpu, bypass>>,
           process_count' = process_count
    PROVE  YieldPost /\ SameFate(st)
<1>. USE DEF YieldPre
<1>1. /\ current_process \in Used /\ Used \subseteq Slots /\ 0 \in Slots
      /\ Used' = Used
  BY SlotFacts DEF Used
<1>2. OneRunning' /\ ExecutingNotReady' /\ ExitDoesNotReturn'
  BY <1>1 DEF OneRunning, ExecutingNotReady, ExitDoesNotReturn, IdleAlive, Alive
<1>3. ContextIntact' /\ TssFollowsCurrent'
  BY <1>1 DEF ContextIntact, TssFollowsCurrent, Alive
<1>4. BypassPaid'
  <2>1. \A i \in Used : ScanDistance(i)' = ScanDistance(i)
    BY DEF ScanDistance
  <2>2. ASSUME NEW i \in Used, st[i] \in {"RUNNING", "BLOCKED"}
        PROVE  bypass[i] = 0
    BY <2>2 DEF BypassPaid
  <2>. QED  BY <1>1, <2>1, <2>2 DEF BypassPaid
<1>5. SameFate(st)
  BY DEF SameFate
<1>. QED  BY <1>1, <1>2, <1>3, <1>4, <1>5 DEF YieldPost, TypeOK

(* scheduler_yield preserves what the invariant says of the CPU: it puts a
   READY process on it, the first one the scan meets, or leaves everything as
   it is when there is no other. *)
LEMMA YieldCorrect ==
    ASSUME TypeOK, ContextIntact, TssFollowsCurrent, BypassPaid,
           NEW st, YieldPre(st), scheduler_yield(st),
           process_count' = process_count
    PROVE  YieldPost /\ SameFate(st)
<1>. USE DEF YieldPre
<1>a. /\ process_count \in Nat \ {0}
      /\ current_process \in 0 .. process_count - 1
      /\ Used \subseteq Slots /\ current_process \in Slots /\ 0 \in Slots
      /\ 0 \in Used /\ Used' = Used
  BY SlotFacts DEF Used
<1>1. ASSUME NEW d \in ReadyDistances(st),
             \A e \in ReadyDistances(st) : d <= e,
             SwitchTo(st, ScanSlot(d))
      PROVE  YieldPost /\ SameFate(st)
  <2>. DEFINE n == ScanSlot(d)
  <2>1. n \in Used \ {current_process} /\ st[n] = "READY" /\ ScanDistance(n) = d
    BY ReadyDistancesAre
  <2>2. \A i \in Used \ {current_process, n} :
          st[i] = "READY" => ScanDistance(i) >= d
    BY <1>1, ReadyDistancesAre
  <2>3. SwitchTo(st, n)
    BY <1>1
  <2>. HIDE DEF n
  <2>4. esp[n] = n /\ n # NoEsp /\ cpu = current_process
    BY <2>1, <1>a DEF ContextIntact, Used, NoEsp
  <2>5. /\ state' = [st EXCEPT
                       ![current_process] = IF @ = "RUNNING" THEN "READY" ELSE @,
                       ![n] = "RUNNING"]
        /\ esp' = [esp EXCEPT ![current_process] = current_process, ![n] = Stale]
        /\ current_process' = n /\ tss' = n /\ cpu' = n
        /\ bypass' = [i \in Slots |-> IF i \in Used \ {n} /\ st[i] = "READY"
                                      THEN bypass[i] + 1 ELSE 0]
    BY <2>3, <2>4 DEF SwitchTo, SwitchedStates, SwitchedEsp
  <2>6. /\ current_process' \in Used
        /\ state' \in [Slots -> States]
        /\ esp' \in [Slots -> Slots \cup {NoEsp, Stale}]
        /\ tss' \in Slots \cup {NoEsp} /\ cpu' \in Slots
        /\ bypass' \in [Slots -> Nat]
    BY <1>a, <2>1, <2>5 DEF TypeOK, States
  <2>7. SameFate(st)
    BY <1>a, <2>1, <2>5 DEF SameFate
  <2>8. OneRunning' /\ ExecutingNotReady' /\ ExitDoesNotReturn'
    BY <1>a, <2>1, <2>5 DEF OneRunning, ExecutingNotReady, ExitDoesNotReturn
  <2>9. ContextIntact' /\ TssFollowsCurrent'
    <3>1. ASSUME NEW i \in Used \ {n}, Alive(i)'  PROVE esp'[i] = i
      BY <1>a, <2>5, <3>1 DEF Alive, TypeOK
    <3>. QED  BY <1>a, <2>5, <3>1, Zenon DEF ContextIntact, TssFollowsCurrent
  <2>10. BypassPaid'
    <3>1. \A i \in Slots \ Used : bypass'[i] = 0
      BY <2>5
    <3>2. bypass'[current_process'] = 0
      BY <1>a, <2>1, <2>5
    <3>3. ASSUME NEW i \in Used, state'[i] \in {"RUNNING", "BLOCKED"}
          PROVE  bypass'[i] = 0
      BY <1>a, <2>1, <2>5, <3>3
    <3>4. ASSUME NEW i \in Used \ {n}
          PROVE  bypass'[i] + ScanDistance(i)' < process_count
                 /\ bypass'[i] < process_count
      <4>1. ScanDistance(i)' = IF i > n THEN i - n ELSE i - n + process_count
        BY <2>5 DEF ScanDistance
      <4>2. CASE i = current_process
        BY <1>a, <2>1, <2>5, <4>1, <4>2 DEF Used
      <4>3. CASE i # current_process /\ st[i] # "READY"
        BY <1>a, <2>1, <2>5, <4>1, <4>3 DEF Used
      <4>4. CASE i # current_process /\ st[i] = "READY"
        <5>1. bypass[i] + ScanDistance(i) < process_count /\ ScanDistance(i) >= d
              /\ bypass[i] \in Nat
          BY <1>a, <2>2, <4>4 DEF TypeOK
        <5>2. bypass'[i] = bypass[i] + 1
          BY <1>a, <2>5, <4>4
        <5>3. ScanDistance(i)' = ScanDistance(i) - d /\ d >= 1
          BY <1>a, <2>1, <4>1, <4>4, <5>1 DEF Used, ScanDistance
        <5>4. ScanDistance(i)' >= 1 /\ d \in Nat /\ ScanDistance(i) \in Nat
          BY <1>a, <2>1, <4>1 DEF Used, ScanDistance
        <5>. QED  BY <1>a, <5>1, <5>2, <5>3, <5>4
      <4>. QED  BY <4>2, <4>3, <4>4
    <3>5. bypass'[n] < process_count /\ current_process' = n
      BY <1>a, <2>5, <3>2
    <3>. QED  BY <1>a, <3>1, <3>2, <3>3, <3>4, <3>5 DEF BypassPaid
  <2>. QED  BY <2>6, <2>7, <2>8, <2>9, <2>10 DEF YieldPost
<1>2. CASE /\ ReadyDistances(st) = {}
           /\ state' = st
           /\ UNCHANGED <<current_process, esp, tss, cpu, bypass>>
  <2>1. st[0] = "TERMINATED" \/ st[current_process] = "RUNNING"
    <3>1. CASE current_process = 0
      BY <3>1
    <3>2. CASE current_process # 0
      <4>1. st[0] # "READY"
        BY <1>a, <1>2, <3>2, ReadyDistancesAre
      <4>. QED  BY <1>a, <3>2, <4>1 DEF States
    <3>. QED  BY <3>1, <3>2
  <2>. QED  BY <1>2, <2>1, StatesReplaced
<1>. QED  BY <1>1, <1>2 DEF scheduler_yield
-----------------------------------------------------------------------------
(* The states a call hands over satisfy BlockedOnTarget, for the waiting_for_pid
   and waitTarget it leaves behind. *)
Waits(st, wfp, wt) ==
    \A i \in Used : st[i] = "BLOCKED" =>
        wt[i] \in Used /\ wfp[i] = pid[wt[i]] /\ st[wt[i]] # "TERMINATED"

(* The states as they are can be handed to scheduler_yield. *)
LEMMA PreOfState ==
    ASSUME IInv
    PROVE  /\ YieldPre(state) /\ Waits(state, waiting_for_pid, waitTarget)
           /\ state[0] = "TERMINATED" \/ state[current_process] = "RUNNING"
  BY DEF IInv, TypeOK, YieldPre, Waits, OneRunning, ContextIntact, Alive, States,
         ExecutingNotReady, BypassPaid, BlockedOnTarget, ExitDoesNotReturn,
         IdleAlive

(* So can the states after slot k terminated and its waiters were woken: the
   loop that process_exit and process_kill share leaves nobody waiting for k. *)
LEMMA PreOfTermination ==
    ASSUME IInv, NEW k \in Used, waitTarget[current_process] = None
    PROVE  LET st == [state EXCEPT ![k] = "TERMINATED"]
               woken == WakeWaiters(st, pid[k])
           IN  /\ YieldPre(woken)
               /\ Waits(woken, ClearWaiting(st, pid[k]), waitTarget)
               /\ ClearWaiting(st, pid[k]) \in [Slots -> Nat]
               /\ woken[k] = "TERMINATED"
               /\ k # current_process =>
                    woken[0] = "TERMINATED" \/ woken[current_process] = "RUNNING"
<1>. DEFINE st == [state EXCEPT ![k] = "TERMINATED"]
            woken == WakeWaiters(st, pid[k])
            wfp == ClearWaiting(st, pid[k])
<1>a. /\ TypeOK /\ current_process \in Used /\ 0 \in Used /\ Used \subseteq Slots
      /\ process_count \in Nat /\ state \in [Slots -> States]
      /\ waiting_for_pid \in [Slots -> Nat]
  BY SlotFacts DEF IInv, TypeOK
<1>1. /\ woken \in [Slots -> States] /\ woken[k] = "TERMINATED"
      /\ \A i \in Slots \ {k} :
            woken[i] = IF i \in Waiters(st, pid[k]) THEN "READY" ELSE state[i]
      /\ \A i \in Waiters(st, pid[k]) :
            i \in Used \ {k} /\ state[i] = "BLOCKED" /\ waiting_for_pid[i] = pid[k]
  BY <1>a DEF WakeWaiters, Waiters, States
<1>2. wfp \in [Slots -> Nat]
      /\ \A i \in Slots \ Waiters(st, pid[k]) : wfp[i] = waiting_for_pid[i]
  BY <1>a DEF ClearWaiting
<1>3. state[current_process] # "BLOCKED"
  BY <1>a DEF IInv, BlockedOnTarget, Used, None
<1>4. current_process \notin Waiters(st, pid[k]) /\ 0 \notin Waiters(st, pid[k])
  BY <1>1, <1>3, Zenon DEF IInv, ExecutingNotReady
<1>5. \A i \in Used \ {k} : state[i] = "BLOCKED" /\ waiting_for_pid[i] = pid[k]
        => i \in Waiters(st, pid[k])
  BY <1>a DEF Waiters
<1>. HIDE DEF st, woken, wfp
<1>6. YieldPre(woken)
  <2>1. ASSUME NEW i \in Used \ {current_process}
        PROVE  /\ woken[i] # "RUNNING"
               /\ woken[i] # "TERMINATED" => esp[i] = i
               /\ woken[i] = "BLOCKED" => bypass[i] = 0
               /\ woken[i] = "READY" => bypass[i] + ScanDistance(i) < process_count
    <3>1. /\ state[i] # "RUNNING"
          /\ state[i] # "TERMINATED" => esp[i] = i
          /\ state[i] = "BLOCKED" => bypass[i] = 0
          /\ state[i] = "READY" => bypass[i] + ScanDistance(i) < process_count
      BY DEF IInv, OneRunning, ContextIntact, Alive, BypassPaid
    <3>2. ScanDistance(i) \in Nat /\ ScanDistance(i) < process_count
      BY <1>a DEF ScanDistance, Used
    <3>. QED  BY <1>a, <1>1, <3>1, <3>2
  <2>2. /\ woken[current_process] # "READY" /\ woken[0] # "BLOCKED"
        /\ current_process = 0 => woken[0] \in {"RUNNING", "TERMINATED"}
    BY <1>a, <1>1, <1>3, <1>4 DEF IInv, ExecutingNotReady, States
  <2>. QED  BY <1>1, <2>1, <2>2 DEF YieldPre
<1>7. Waits(woken, wfp, waitTarget)
  <2>1. SUFFICES ASSUME NEW i \in Used, woken[i] = "BLOCKED"
                 PROVE  /\ waitTarget[i] \in Used
                        /\ wfp[i] = pid[waitTarget[i]]
                        /\ woken[waitTarget[i]] # "TERMINATED"
    BY DEF Waits
  <2>2. i # k /\ i \notin Waiters(st, pid[k]) /\ state[i] = "BLOCKED"
    BY <1>a, <1>1, <2>1
  <2>3. /\ waitTarget[i] \in Used /\ waiting_for_pid[i] = pid[waitTarget[i]]
        /\ state[waitTarget[i]] # "TERMINATED"
    BY <2>2 DEF IInv, BlockedOnTarget, Alive
  <2>4. waitTarget[i] # k
    BY <1>5, <2>2, <2>3
  <2>. QED  BY <1>a, <1>1, <1>2, <2>2, <2>3, <2>4
<1>8. k # current_process =>
        woken[0] = "TERMINATED" \/ woken[current_process] = "RUNNING"
  BY <1>a, <1>1, <1>4 DEF IInv, ExitDoesNotReturn, IdleAlive, Alive
<1>. QED  BY <1>1, <1>2, <1>6, <1>7, <1>8, Zenon DEF st, woken, wfp

(* Every call that ends in a yield, or only replaces the states, preserves the
   invariant: it adds nobody and keeps the pids. *)
LEMMA CallPreserves ==
    ASSUME IInv, NEW st, YieldPre(st), Waits(st, waiting_for_pid', waitTarget'),
           \/ scheduler_yield(st)
           \/ /\ st[0] = "TERMINATED" \/ st[current_process] = "RUNNING"
              /\ state' = st
              /\ UNCHANGED <<current_process, esp, tss, cpu, bypass>>,
           UNCHANGED <<process_count, next_pid, pid>>,
           tick_counter' \in 0 .. QUANTUM - 1,
           exit_code' \in [Slots -> Int],
           waiting_for_pid' \in [Slots -> Nat],
           waitTarget' \in [Slots -> Slots \cup {None}],
           halted' \in BOOLEAN
    PROVE  IInv'
<1>1. YieldPost /\ SameFate(st)
  BY YieldCorrect, StatesReplaced DEF IInv
<1>2. TypeOK'
  BY <1>1 DEF IInv, TypeOK, YieldPost, Used
<1>3. PidsInOrder'
  BY DEF IInv, PidsInOrder, Used
<1>4. BlockedOnTarget'
  <2>1. Used' = Used /\ Used \subseteq Slots
    BY SlotFacts DEF IInv, Used
  <2>. QED  BY <1>1, <2>1 DEF SameFate, Waits, BlockedOnTarget, Alive
<1>. QED  BY <1>1, <1>2, <1>3, <1>4 DEF IInv, YieldPost

(* A new process appears behind the others, on its own stack: the switches are none
   the wiser, whatever state the current process is in. *)
LEMMA NewProcessFits ==
    ASSUME TypeOK, OneRunning, ContextIntact, TssFollowsCurrent, BypassPaid, NewProcess
    PROVE  /\ TypeOK'
           /\ OneRunning' /\ ContextIntact' /\ TssFollowsCurrent' /\ BypassPaid'
           /\ process_count \in Slots \ Used /\ Used' = Used \cup {process_count}
           /\ \A i \in Used : /\ state'[i] = state[i] /\ pid'[i] = pid[i]
                              /\ exit_code'[i] = exit_code[i]
                              /\ waiting_for_pid'[i] = waiting_for_pid[i]
           /\ state'[process_count] = "READY" /\ pid'[process_count] = next_pid
           /\ process_count' = process_count + 1 /\ next_pid' = next_pid + 1
           /\ current_process' = current_process /\ waitTarget' = waitTarget
<1>. DEFINE n == process_count
<1>a. /\ n \in Nat \ {0} /\ n \in Slots \ Used /\ Used' = Used \cup {n}
      /\ Used \subseteq Slots /\ current_process \in Used /\ 0 \in Used
      /\ next_pid \in Nat /\ n \notin Used
  <2>1. /\ n \in 1 .. MAX_PROCESSES - 1 /\ process_count' = n + 1
        /\ current_process \in 0 .. n - 1 /\ next_pid \in Nat
    BY SchedulerAssumption DEF TypeOK, NewProcess, Used
  <2>. HIDE DEF n
  <2>2. Used = 0 .. n - 1 /\ Used' = 0 .. n /\ Slots = 0 .. MAX_PROCESSES - 1
    BY <2>1 DEF Used, Slots, n
  <2>. QED  BY <2>1, <2>2, SchedulerAssumption
<1>1. /\ state' = [state EXCEPT ![n] = "READY"]
      /\ esp' = [esp EXCEPT ![n] = n] /\ pid' = [pid EXCEPT ![n] = next_pid]
      /\ waiting_for_pid' = [waiting_for_pid EXCEPT ![n] = 0]
      /\ exit_code' = [exit_code EXCEPT ![n] = 0]
      /\ next_pid' = next_pid + 1 /\ process_count' = n + 1
      /\ UNCHANGED <<current_process, tick_counter, tss, cpu, waitTarget, halted,
                     bypass>>
  BY DEF NewProcess
<1>b. /\ state \in [Slots -> States] /\ esp \in [Slots -> Slots \cup {NoEsp, Stale}]
      /\ pid \in [Slots -> Nat] /\ waiting_for_pid \in [Slots -> Nat]
      /\ exit_code \in [Slots -> Int] /\ bypass \in [Slots -> Nat]
  BY DEF TypeOK
<1>2. TypeOK'
  <2>1. process_count' \in 1 .. MAX_PROCESSES /\ next_pid' \in Nat
    BY <1>a, <1>1, SchedulerAssumption DEF Slots
  <2>2. /\ pid' \in [Slots -> Nat] /\ state' \in [Slots -> States]
        /\ exit_code' \in [Slots -> Int] /\ waiting_for_pid' \in [Slots -> Nat]
        /\ esp' \in [Slots -> Slots \cup {NoEsp, Stale}]
    BY <1>a, <1>1, <1>b DEF States
  <2>3. current_process' \in Used'
    BY <1>a, <1>1
  <2>. QED  BY <1>1, <2>1, <2>2, <2>3 DEF TypeOK
<1>. HIDE DEF n
<1>3. OneRunning' /\ ContextIntact' /\ TssFollowsCurrent'
  BY <1>a, <1>1, <1>b DEF OneRunning, ContextIntact, TssFollowsCurrent, Alive
<1>4. BypassPaid'
  <2>1. ASSUME NEW i \in Used'
        PROVE  /\ bypass'[i] < process_count'
               /\ state'[i] \in {"RUNNING", "BLOCKED"} => bypass'[i] = 0
               /\ i # current_process' /\ state'[i] = "READY"
                    => bypass'[i] + ScanDistance(i)' < process_count'
    <3>1. CASE i = n
      <4>1. bypass[i] = 0
        BY <1>a, <3>1 DEF BypassPaid
      <4>2. ScanDistance(i)' < process_count'
        BY <1>a, <1>1, <3>1 DEF ScanDistance, Used
      <4>3. ScanDistance(i)' \in Nat
        BY <1>a, <1>1, <3>1 DEF ScanDistance, Used
      <4>. QED  BY <1>a, <1>1, <1>b, <3>1, <4>1, <4>2, <4>3
    <3>2. CASE i \in Used
      <4>1. ScanDistance(i)' \in {ScanDistance(i), ScanDistance(i) + 1}
        BY <1>a, <1>1, <3>2 DEF ScanDistance, Used, n
      <4>2. state'[i] = state[i] /\ bypass'[i] = bypass[i] /\ bypass[i] \in Nat
        BY <1>a, <1>1, <1>b, <3>2
      <4>3. ScanDistance(i) \in Nat /\ process_count = n
        BY <1>a, <3>2 DEF ScanDistance, Used, n
      <4>. QED  BY <1>a, <1>1, <3>2, <4>1, <4>2, <4>3 DEF BypassPaid
    <3>. QED  BY <1>a, <3>1, <3>2
  <2>2. \A i \in Slots \ Used' : bypass'[i] = 0
    BY <1>a, <1>1 DEF BypassPaid
  <2>. QED  BY <1>1, <2>1, <2>2 DEF BypassPaid
<1>5. /\ \A i \in Used : /\ state'[i] = state[i] /\ pid'[i] = pid[i]
                         /\ exit_code'[i] = exit_code[i]
                         /\ waiting_for_pid'[i] = waiting_for_pid[i]
      /\ state'[n] = "READY" /\ pid'[n] = next_pid
  BY <1>a, <1>1, <1>b
<1>. QED  BY <1>a, <1>1, <1>2, <1>3, <1>4, <1>5 DEF n

(* A new process preserves the invariant. *)
LEMMA NewProcessPreserves ==
    ASSUME IInv, NewProcess
    PROVE  IInv'
<1>1. /\ TypeOK /\ 0 \in Used /\ current_process \in Used
      /\ process_count \in Nat /\ next_pid = process_count + 1
  BY SlotFacts DEF IInv, PidsInOrder
<1>2. /\ TypeOK'
      /\ OneRunning' /\ ContextIntact' /\ TssFollowsCurrent' /\ BypassPaid'
      /\ process_count \in Slots \ Used /\ Used' = Used \cup {process_count}
      /\ \A i \in Used : /\ state'[i] = state[i] /\ pid'[i] = pid[i]
                         /\ waiting_for_pid'[i] = waiting_for_pid[i]
      /\ state'[process_count] = "READY" /\ pid'[process_count] = next_pid
      /\ process_count' = process_count + 1 /\ next_pid' = next_pid + 1
      /\ current_process' = current_process /\ waitTarget' = waitTarget
  BY NewProcessFits DEF IInv
<1>3. PidsInOrder'
  BY <1>1, <1>2 DEF IInv, PidsInOrder
<1>4. ExecutingNotReady' /\ ExitDoesNotReturn'
  BY <1>1, <1>2 DEF IInv, ExecutingNotReady, ExitDoesNotReturn, IdleAlive, Alive
<1>5. BlockedOnTarget'
  BY <1>1, <1>2 DEF IInv, BlockedOnTarget, Alive
<1>. QED  BY <1>2, <1>3, <1>4, <1>5 DEF IInv
-----------------------------------------------------------------------------
(* scheduler_init and scheduler_convert_current_process establish the invariant. *)
LEMMA InitInvariant == Init => IInv
<1>. SUFFICES ASSUME Init PROVE IInv
  OBVIOUS
<1>1. Used = {0} /\ 0 \in Slots
  BY SchedulerAssumption DEF Init, Used, Slots
<1>2. TypeOK
  <2>1. process_count \in 1 .. MAX_PROCESSES /\ tick_counter \in 0 .. QUANTUM - 1
    BY SchedulerAssumption DEF Init
  <2>2. state \in [Slots -> States]
    BY DEF Init, States, Unused
  <2>3. /\ pid \in [Slots -> Nat] /\ waiting_for_pid \in [Slots -> Nat]
        /\ bypass \in [Slots -> Nat] /\ exit_code \in [Slots -> Int]
    BY DEF Init
  <2>4. esp \in [Slots -> Slots \cup {NoEsp, Stale}]
        /\ waitTarget \in [Slots -> Slots \cup {None}]
    BY DEF Init
  <2>. QED  BY <1>1, <2>1, <2>2, <2>3, <2>4, Zenon DEF Init, TypeOK
<1>3. PidsInOrder /\ OneRunning /\ ContextIntact /\ TssFollowsCurrent
  BY <1>1 DEF Init, PidsInOrder, OneRunning, ContextIntact, TssFollowsCurrent
<1>4. ExecutingNotReady /\ ExitDoesNotReturn /\ BlockedOnTarget
  BY <1>1 DEF Init, ExecutingNotReady, ExitDoesNotReturn, BlockedOnTarget
<1>5. BypassPaid
  BY <1>1 DEF Init, BypassPaid
<1>. QED  BY <1>2, <1>3, <1>4, <1>5 DEF IInv

(* Every handler, whoever is executing, preserves the invariant. *)
LEMMA NextInvariant ==
    ASSUME IInv, [Next]_vars
    PROVE  IInv'
<1>a. /\ TypeOK /\ current_process \in Used /\ Used \subseteq Slots
      /\ 0 \in Used
  BY SlotFacts DEF IInv
<1>. USE DEF table, switch
<1>1. CASE Irq0
  <2>1. tick_counter' \in 0 .. QUANTUM - 1
    BY <1>1, SchedulerAssumption DEF Irq0, TimerTick, SliceOver, IInv, TypeOK
  <2>2. scheduler_yield(state) \/ UNCHANGED switch
    BY <1>1 DEF Irq0, TimerTick
  <2>3. UNCHANGED <<process_count, next_pid, halted, table>>
    BY <1>1 DEF Irq0
  <2>. QED  BY <1>a, <2>1, <2>2, <2>3, PreOfState, CallPreserves DEF TypeOK
<1>2. CASE scheduler_add_process
  BY <1>2, NewProcessPreserves DEF scheduler_add_process
<1>3. CASE scheduler_add_user_process
  BY <1>3, NewProcessPreserves DEF scheduler_add_user_process
<1>4. CASE SysYield
  BY <1>a, <1>4, PreOfState, CallPreserves DEF SysYield, TypeOK
<1>5. ASSUME NEW code \in ExitCodes, process_exit(code)
      PROVE  IInv'
  <2>. DEFINE st == [state EXCEPT ![current_process] = "TERMINATED"]
              woken == WakeWaiters(st, pid[current_process])
              wfp == ClearWaiting(st, pid[current_process])
  <2>1. /\ waitTarget[current_process] = None /\ waiting_for_pid' = wfp
        /\ exit_code' = [exit_code EXCEPT ![current_process] = code]
        /\ scheduler_yield(woken)
        /\ UNCHANGED <<process_count, next_pid, tick_counter, halted, pid,
                       waitTarget>>
    BY <1>5 DEF process_exit, Calling
  <2>2. /\ YieldPre(woken) /\ Waits(woken, wfp, waitTarget)
        /\ wfp \in [Slots -> Nat]
    BY <1>a, <2>1, PreOfTermination, Zenon
  <2>3. exit_code' \in [Slots -> Int]
    BY <1>a, <2>1, SchedulerAssumption DEF TypeOK
  <2>. HIDE DEF st, woken, wfp
  <2>. QED  BY <1>a, <2>1, <2>2, <2>3, CallPreserves DEF TypeOK
<1>6. ASSUME NEW i \in Used, process_kill(i)
      PROVE  IInv'
  <2>. DEFINE st == [state EXCEPT ![i] = "TERMINATED"]
              woken == WakeWaiters(st, pid[i])
              wfp == ClearWaiting(st, pid[i])
  <2>1. /\ waitTarget[current_process] = None /\ waiting_for_pid' = wfp
        /\ exit_code' = [exit_code EXCEPT ![i] = -1]
        /\ \/ scheduler_yield(woken)
           \/ /\ i # current_process
              /\ state' = woken
              /\ UNCHANGED <<current_process, esp, tss, cpu, bypass>>
        /\ UNCHANGED <<process_count, next_pid, tick_counter, halted, pid,
                       waitTarget>>
    BY <1>6 DEF process_kill, Calling
  <2>2. /\ YieldPre(woken) /\ Waits(woken, wfp, waitTarget)
        /\ wfp \in [Slots -> Nat]
        /\ i # current_process =>
              woken[0] = "TERMINATED" \/ woken[current_process] = "RUNNING"
    BY <1>a, <2>1, PreOfTermination, Zenon
  <2>3. exit_code' \in [Slots -> Int]
    BY <1>a, <2>1 DEF TypeOK
  <2>. HIDE DEF st, woken, wfp
  <2>. QED  BY <1>a, <2>1, <2>2, <2>3, CallPreserves DEF TypeOK
<1>7. ASSUME NEW i \in Used, process_wait(i)
      PROVE  IInv'
  <2>. DEFINE st == [state EXCEPT ![current_process] = "BLOCKED"]
  <2>1. /\ Alive(i) /\ current_process # 0
        /\ waiting_for_pid' = [waiting_for_pid EXCEPT ![current_process] = pid[i]]
        /\ waitTarget' = [waitTarget EXCEPT ![current_process] = i]
        /\ scheduler_yield(st)
        /\ UNCHANGED <<process_count, next_pid, tick_counter, halted, pid,
                       exit_code>>
    BY <1>7 DEF process_wait, Calling
  <2>2. YieldPre(st)
    BY <1>a, <2>1, PreOfState DEF YieldPre, States
  <2>3. Waits(st, waiting_for_pid', waitTarget')
    BY <1>a, <2>1, PreOfState DEF Waits, TypeOK, Alive
  <2>4. waiting_for_pid' \in [Slots -> Nat]
        /\ waitTarget' \in [Slots -> Slots \cup {None}]
    BY <1>a, <2>1 DEF TypeOK
  <2>. HIDE DEF st
  <2>. QED  BY <1>a, <2>1, <2>2, <2>3, <2>4, CallPreserves, Zenon DEF TypeOK
<1>8. CASE process_wait_loop
  <2>1. CASE ~Alive(waitTarget[current_process])
    <3>1. /\ waitTarget' = [waitTarget EXCEPT ![current_process] = None]
          /\ UNCHANGED <<process_count, next_pid, tick_counter, halted, pid,
                         exit_code, waiting_for_pid, switch>>
      BY <1>8, <2>1 DEF process_wait_loop
    <3>2. state[current_process] # "BLOCKED"
      BY <1>a, <2>1 DEF IInv, BlockedOnTarget
    <3>3. Waits(state, waiting_for_pid', waitTarget')
      BY <1>a, <3>1, <3>2, PreOfState DEF Waits, TypeOK
    <3>4. waitTarget' \in [Slots -> Slots \cup {None}]
      BY <1>a, <3>1 DEF TypeOK
    <3>. QED  BY <1>a, <3>1, <3>3, <3>4, PreOfState, CallPreserves, Zenon DEF TypeOK
  <2>2. CASE Alive(waitTarget[current_process])
    BY <1>a, <1>8, <2>2, PreOfState, CallPreserves DEF process_wait_loop, TypeOK
  <2>. QED  BY <2>1, <2>2
<1>9. CASE power_off
  <2>. DEFINE st == [i \in Slots |-> IF i \in Used \ {current_process}
                                    THEN "TERMINATED" ELSE state[i]]
  <2>1. /\ current_process # 0 /\ state' = st /\ halted' = TRUE
        /\ waitTarget[current_process] = None
        /\ UNCHANGED <<process_count, next_pid, tick_counter, table,
                       current_process, esp, tss, cpu, bypass>>
    BY <1>9 DEF power_off, scheduler_terminate_all, Calling
  <2>2. YieldPre(st) /\ st[0] = "TERMINATED"
    BY <1>a, <2>1, PreOfState DEF YieldPre, States
  <2>3. state[current_process] # "BLOCKED"
    BY <1>a, <2>1 DEF IInv, BlockedOnTarget, Used, None
  <2>4. Waits(st, waiting_for_pid', waitTarget')
    BY <1>a, <2>1, <2>3 DEF Waits
  <2>. HIDE DEF st
  <2>. QED  BY <1>a, <2>1, <2>2, <2>4, CallPreserves DEF TypeOK
<1>10. CASE Halted \/ UNCHANGED vars
  BY <1>10 DEF Halted, vars, IInv, TypeOK, PidsInOrder, OneRunning, ContextIntact,
      TssFollowsCurrent, ExecutingNotReady, ExitDoesNotReturn, BlockedOnTarget,
      BypassPaid, Used, Alive, IdleAlive, ScanDistance
<1>. QED
  BY <1>1, <1>2, <1>3, <1>4, <1>5, <1>6, <1>7, <1>8, <1>9, <1>10 DEF Next

(* The inductive invariant holds of every reachable state. *)
THEOREM Invariance == Spec => []IInv
<1>1. IInv /\ [Next]_vars => IInv'
  BY NextInvariant
<1>. QED  BY InitInvariant, <1>1, PTL DEF Spec

(* The variables stay in their types. *)
THEOREM TypeCorrect == Spec => []TypeOK
  BY Invariance, PTL DEF IInv

(* At most one process is RUNNING and it is current_process, whatever the
   order of timer interrupts, yields, exits, kills and waits. *)
THEOREM OneRunningHolds == Spec => []OneRunning
  BY Invariance, PTL DEF IInv

(* Every context switch lands on the stack of the process it switches to. *)
THEOREM ContextIntactHolds == Spec => []ContextIntact
  BY Invariance, PTL DEF IInv

(* While a process other than KernelMain executes, TSS.esp0 is its own kernel stack,
   after every switch, exit, kill and wait. *)
THEOREM TssFollowsCurrentHolds == Spec => []TssFollowsCurrent
  BY Invariance, PTL DEF IInv

(* process_exit never returns while KernelMain is alive. *)
THEOREM ExitHolds == Spec => []ExitDoesNotReturn
  BY Invariance, PTL DEF IInv

(* No process stays BLOCKED on a terminated target. *)
THEOREM NoLostWakeupHolds == Spec => []NoLostWakeup
<1>1. IInv => NoLostWakeup
  BY DEF IInv, BlockedOnTarget, NoLostWakeup
<1>. QED  BY <1>1, Invariance, PTL

(* Round robin: a READY process is passed over fewer than process_count times. *)
THEOREM BoundedBypassHolds == Spec => []BoundedBypass
<1>1. IInv => BoundedBypass
  BY DEF IInv, BypassPaid, BoundedBypass
<1>. QED  BY <1>1, Invariance, PTL

(* While KernelMain is alive nothing revives a terminated process or changes
   its exit code. *)
THEOREM TerminatedIsFinalHolds == Spec => TerminatedIsFinal
<1>. DEFINE Final == \A i \in Used : IdleAlive /\ ~Alive(i) =>
                        ~Alive(i)' /\ exit_code'[i] = exit_code[i]
<1>1. ASSUME IInv, [Next]_vars
      PROVE  Final
  <2>a. SUFFICES ASSUME NEW k \in Used, IdleAlive, ~Alive(k)
                 PROVE  ~Alive(k)' /\ exit_code'[k] = exit_code[k]
    OBVIOUS
  <2>b. /\ TypeOK /\ current_process \in Used /\ Used \subseteq Slots
        /\ k # current_process /\ state[k] = "TERMINATED" /\ process_count \notin Used
        /\ state[current_process] = "RUNNING"
    <3>1. state[k] = "TERMINATED" /\ state[current_process] = "RUNNING"
      BY <1>1, <2>a DEF IInv, ExitDoesNotReturn, Alive
    <3>2. /\ TypeOK /\ current_process \in Used /\ Used \subseteq Slots
          /\ process_count \notin Used
      BY <1>1, SlotFacts DEF IInv
    <3>. QED  BY <3>1, <3>2
  <2>c. ASSUME NEW st, YieldPre(st), scheduler_yield(st), st[k] = "TERMINATED",
               process_count' = process_count
        PROVE  ~Alive(k)'
    BY <1>1, <2>b, <2>c, YieldCorrect DEF IInv, SameFate, Alive
  <2>d. state' = state => ~Alive(k)'
    BY <2>b DEF Alive
  <2>. USE DEF table, switch
  <2>1. CASE Irq0
    BY <1>1, <2>1, <2>b, <2>c, <2>d, PreOfState DEF Irq0, TimerTick
  <2>2. CASE NewProcess
    BY <2>2, <2>b DEF NewProcess, Alive, TypeOK
  <2>3. CASE SysYield
    BY <1>1, <2>3, <2>b, <2>c, PreOfState DEF SysYield
  <2>4. ASSUME NEW code \in ExitCodes, process_exit(code)
        PROVE  ~Alive(k)' /\ exit_code'[k] = exit_code[k]
    <3>. DEFINE st == [state EXCEPT ![current_process] = "TERMINATED"]
                woken == WakeWaiters(st, pid[current_process])
    <3>1. /\ waitTarget[current_process] = None /\ scheduler_yield(woken)
          /\ exit_code' = [exit_code EXCEPT ![current_process] = code]
          /\ process_count' = process_count
      BY <2>4 DEF process_exit, Calling
    <3>2. woken[k] = "TERMINATED"
      BY <2>b DEF TypeOK, WakeWaiters, Waiters
    <3>3. YieldPre(woken)
      BY <1>1, <2>b, <3>1, PreOfTermination, Zenon
    <3>. HIDE DEF woken
    <3>. QED  BY <2>b, <2>c, <3>1, <3>2, <3>3 DEF TypeOK
  <2>5. ASSUME NEW i \in Used, process_kill(i)
        PROVE  ~Alive(k)' /\ exit_code'[k] = exit_code[k]
    <3>. DEFINE st == [state EXCEPT ![i] = "TERMINATED"]
                woken == WakeWaiters(st, pid[i])
    <3>1. /\ waitTarget[current_process] = None /\ i # k
          /\ scheduler_yield(woken) \/ state' = woken
          /\ exit_code' = [exit_code EXCEPT ![i] = -1]
          /\ process_count' = process_count
      BY <2>5, <2>b DEF process_kill, Calling, Alive
    <3>2. woken[k] = "TERMINATED"
      BY <2>b DEF TypeOK, WakeWaiters, Waiters
    <3>3. YieldPre(woken)
      BY <1>1, <2>b, <3>1, PreOfTermination, SMTT(30)
    <3>. HIDE DEF woken
    <3>4. ~Alive(k)'
      BY <2>c, <3>1, <3>2, <3>3 DEF Alive
    <3>. QED  BY <2>b, <3>1, <3>4 DEF TypeOK
  <2>6. ASSUME NEW i \in Used, process_wait(i)
        PROVE  ~Alive(k)' /\ exit_code'[k] = exit_code[k]
    <3>. DEFINE st == [state EXCEPT ![current_process] = "BLOCKED"]
    <3>1. /\ scheduler_yield(st) /\ process_count' = process_count
          /\ exit_code' = exit_code /\ current_process # 0
      BY <2>6 DEF process_wait, Calling
    <3>2. YieldPre(st) /\ st[k] = "TERMINATED"
      BY <1>1, <2>b, <3>1, PreOfState DEF YieldPre, States
    <3>. HIDE DEF st
    <3>. QED  BY <2>c, <3>1, <3>2
  <2>7. CASE process_wait_loop
    BY <1>1, <2>7, <2>b, <2>c, <2>d, PreOfState DEF process_wait_loop
  <2>8. CASE power_off
    <3>1. state'[k] = "TERMINATED" /\ exit_code' = exit_code
      BY <2>8, <2>b DEF power_off, scheduler_terminate_all
    <3>. QED  BY <3>1 DEF Alive
  <2>9. CASE Halted \/ UNCHANGED vars
    BY <2>9, <2>d DEF Halted, vars
  <2>. QED
    BY <1>1, <2>1, <2>2, <2>3, <2>4, <2>5, <2>6, <2>7, <2>8, <2>9
    DEF Next, scheduler_add_process, scheduler_add_user_process
<1>2. IInv /\ [Next]_vars => [Final]_vars
  BY <1>1
<1>. HIDE DEF Final
<1>3. Spec => [][Final]_vars
  BY <1>2, Invariance, PTL DEF Spec
<1>. QED  BY <1>3 DEF Final, TerminatedIsFinal
-----------------------------------------------------------------------------
(* With interrupts enabled in process_wait and process_exit (SchedulerPreempt), the
   states as they are can be handed to scheduler_yield at any statement. *)
LEMMA PreemptPre ==
    ASSUME PreemptInv
    PROVE  /\ YieldPre(state)
           /\ TypeOK /\ current_process \in Used /\ 0 \in Used /\ Used \subseteq Slots
<1>1. TypeOK /\ current_process \in Used /\ 0 \in Used /\ Used \subseteq Slots
  BY SlotFacts DEF PreemptInv
<1>2. state \in [Slots -> States]
  BY DEF PreemptInv, TypeOK
<1>3. /\ state[current_process] # "READY" /\ state[0] # "BLOCKED"
      /\ current_process = 0 => state[0] \in {"RUNNING", "TERMINATED"}
  BY DEF PreemptInv, IdleCanRun
<1>4. ASSUME NEW i \in Used \ {current_process}
      PROVE  /\ state[i] # "RUNNING"
             /\ state[i] # "TERMINATED" => esp[i] = i
             /\ state[i] = "BLOCKED" => bypass[i] = 0
             /\ state[i] = "READY" => bypass[i] + ScanDistance(i) < process_count
  BY DEF PreemptInv, OneRunning, ContextIntact, Alive, BypassPaid
<1>. QED  BY <1>1, <1>2, <1>3, <1>4 DEF YieldPre

(* A step that ends in a yield keeps what preemption cannot break. *)
LEMMA PreemptYields ==
    ASSUME PreemptInv, NEW st, YieldPre(st), st[0] # "TERMINATED",
           scheduler_yield(st),
           UNCHANGED <<process_count, next_pid, pid, exit_code, halted>>,
           tick_counter' \in 0 .. QUANTUM - 1,
           waiting_for_pid' \in [Slots -> Nat],
           waitTarget' = waitTarget,
           step' \in {step, [step EXCEPT ![current_process] = "run"]},
           \A i \in Used : state[i] = "TERMINATED" => st[i] = "TERMINATED"
    PROVE  PreemptInv' /\ SameFate(st)
<1>1. YieldPost /\ SameFate(st)
  BY YieldCorrect DEF PreemptInv
<1>2. Used' = Used /\ 0 \in Slots /\ Used \subseteq Slots
  BY PreemptPre DEF Used
<1>3. state'[0] \in {"READY", "RUNNING"}
  <2>1. state'[0] # "BLOCKED" /\ state'[0] # "TERMINATED"
    BY <1>1, <1>2 DEF SameFate, YieldPre
  <2>. QED  BY <1>1, <1>2, <2>1 DEF YieldPost, States
<1>4. state'[current_process'] = "RUNNING"
  BY <1>1, <1>3 DEF YieldPost, ExitDoesNotReturn, IdleAlive, Alive
<1>5. TypeOK'
  BY <1>1 DEF PreemptInv, TypeOK, YieldPost, Used
<1>6. /\ step' \in [Slots -> Steps]
      /\ \A i \in Slots : step'[i] \in {step[i], "run"}
  <2>1. step \in [Slots -> Steps] /\ "run" \in Steps
    BY DEF PreemptInv, Steps
  <2>. QED  BY <2>1
<1>7. IdleCanRun' /\ ExitHalfway' /\ WaitingOnTarget'
  <2>1. IdleCanRun'
    BY <1>3, <1>4 DEF IdleCanRun
  <2>2. ExitHalfway'
    BY <1>1, <1>2, <1>4, <1>6 DEF PreemptInv, ExitHalfway, SameFate
  <2>3. WaitingOnTarget'
    BY <1>2, <1>6 DEF PreemptInv, WaitingOnTarget, Slots
  <2>. QED  BY <2>1, <2>2, <2>3
<1>8. /\ OneRunning' /\ ContextIntact' /\ TssFollowsCurrent' /\ BypassPaid'
      /\ state'[current_process'] # "READY"
  BY <1>1, <1>4 DEF YieldPost
<1>. QED  BY <1>1, <1>5, <1>6, <1>7, <1>8 DEF PreemptInv, Steps

(* So does a statement of process_wait or process_exit that leaves the CPU alone and
   sets at most the state of the process that executes it. *)
LEMMA PreemptStatement ==
    ASSUME PreemptInv, current_process # 0,
           NEW s \in {state[current_process], "BLOCKED", "TERMINATED"},
           state' = [state EXCEPT ![current_process] = s],
           NEW t \in Steps, step' = [step EXCEPT ![current_process] = t],
           s = "TERMINATED" <=> t = "wake",
           UNCHANGED <<process_count, next_pid, tick_counter, halted, pid,
                       current_process, esp, tss, cpu, bypass>>,
           exit_code' \in [Slots -> Int],
           waiting_for_pid' \in [Slots -> Nat],
           NEW w \in Slots \cup {None},
           waitTarget' = [waitTarget EXCEPT ![current_process] = w],
           t \in {"block", "loop"} => w \in Used
    PROVE  PreemptInv'
<1>1. /\ TypeOK /\ current_process \in Used /\ 0 \in Used /\ Used \subseteq Slots
      /\ Used' = Used /\ state \in [Slots -> States] /\ step \in [Slots -> Steps]
      /\ waitTarget \in [Slots -> Slots \cup {None}]
  BY PreemptPre DEF PreemptInv, TypeOK, Used
<1>2. /\ state'[current_process] = s /\ step'[current_process] = t
      /\ \A i \in Slots \ {current_process} :
            state'[i] = state[i] /\ step'[i] = step[i]
      /\ state' \in [Slots -> States] /\ step' \in [Slots -> Steps]
      /\ waitTarget' \in [Slots -> Slots \cup {None}] /\ waitTarget'[current_process] = w
      /\ \A i \in Slots \ {current_process} : waitTarget'[i] = waitTarget[i]
  BY <1>1 DEF States
<1>3. TypeOK'
  BY <1>1, <1>2 DEF TypeOK, Used
<1>4. s # "READY" /\ (s = "RUNNING" => state[current_process] = "RUNNING")
  BY DEF PreemptInv
<1>5. OneRunning' /\ ContextIntact' /\ TssFollowsCurrent'
  BY <1>1, <1>2, <1>4, ZenonT(30) DEF PreemptInv, OneRunning, ContextIntact,
        TssFollowsCurrent, Alive
<1>6. IdleCanRun' /\ ExitHalfway' /\ state'[current_process'] # "READY"
  BY <1>1, <1>2, <1>4, SMTT(30) DEF PreemptInv, IdleCanRun, ExitHalfway
<1>7. WaitingOnTarget'
  BY <1>1, <1>2, ZenonT(30) DEF PreemptInv, WaitingOnTarget, Slots
<1>8. BypassPaid'
  <2>1. \A i \in Used : ScanDistance(i)' = ScanDistance(i)
    BY DEF ScanDistance
  <2>2. bypass[current_process] = 0
    BY DEF PreemptInv, BypassPaid
  <2>. QED  BY <1>1, <1>2, <2>1, <2>2 DEF PreemptInv, BypassPaid
<1>. QED  BY <1>2, <1>3, <1>5, <1>6, <1>7, <1>8, SMTT(30) DEF PreemptInv, Steps

(* The second half of process_exit: the states it hands to scheduler_yield, and the
   waiters it wakes, none of which is the exiting process. *)
LEMMA PreemptWakes ==
    ASSUME PreemptInv, AtStep("wake")
    PROVE  LET woken == WakeWaiters(state, pid[current_process])
           IN  /\ YieldPre(woken) /\ woken[0] # "TERMINATED"
               /\ \A i \in Used : woken[i] = "TERMINATED" <=> state[i] = "TERMINATED"
               /\ ClearWaiting(state, pid[current_process]) \in [Slots -> Nat]
<1>. DEFINE woken == WakeWaiters(state, pid[current_process])
            W == Waiters(state, pid[current_process])
<1>1. /\ YieldPre(state) /\ current_process \in Used /\ 0 \in Used /\ Used \subseteq Slots
      /\ TypeOK /\ state \in [Slots -> States] /\ waiting_for_pid \in [Slots -> Nat]
  BY PreemptPre DEF PreemptInv, TypeOK
<1>2. /\ woken \in [Slots -> States]
      /\ \A i \in Slots : woken[i] = IF i \in W THEN "READY" ELSE state[i]
      /\ \A i \in W : i \in Used /\ state[i] = "BLOCKED"
  BY <1>1 DEF WakeWaiters, Waiters, States
<1>3. state[current_process] = "TERMINATED" /\ state[0] \in {"READY", "RUNNING"}
      /\ current_process # 0
  BY <1>1 DEF PreemptInv, AtStep, ExitHalfway, IdleCanRun
<1>4. ClearWaiting(state, pid[current_process]) \in [Slots -> Nat]
  BY <1>1 DEF ClearWaiting
<1>. HIDE DEF woken, W
<1>5. ASSUME NEW i \in Used \ {current_process}
      PROVE  /\ woken[i] # "RUNNING"
             /\ woken[i] # "TERMINATED" => esp[i] = i
             /\ woken[i] = "BLOCKED" => bypass[i] = 0
             /\ woken[i] = "READY" => bypass[i] + ScanDistance(i) < process_count
  <2>1. /\ state[i] # "RUNNING"
        /\ state[i] # "TERMINATED" => esp[i] = i
        /\ state[i] = "BLOCKED" => bypass[i] = 0
        /\ state[i] = "READY" => bypass[i] + ScanDistance(i) < process_count
    BY <1>1 DEF YieldPre
  <2>2. ScanDistance(i) \in Nat /\ ScanDistance(i) < process_count
    <3>1. process_count \in Nat /\ current_process \in 0 .. process_count - 1
      BY <1>1, SlotFacts
    <3>. QED  BY <3>1 DEF ScanDistance, Used
  <2>. QED  BY <1>1, <1>2, <2>1, <2>2
<1>6. /\ woken[current_process] # "READY" /\ woken[0] # "BLOCKED"
      /\ woken[0] # "TERMINATED"
      /\ \A i \in Used : woken[i] = "TERMINATED" <=> state[i] = "TERMINATED"
  BY <1>1, <1>2, <1>3
<1>7. YieldPre(woken)
  BY <1>2, <1>3, <1>5, <1>6 DEF YieldPre
<1>. QED  BY <1>4, <1>6, <1>7 DEF woken

(* Every statement, and an interrupt between any two, keeps what preemption cannot
   break. *)
LEMMA PreemptInvariant ==
    ASSUME PreemptInv, [PreemptNext]_preemptVars
    PROVE  PreemptInv'
<1>a. /\ YieldPre(state) /\ TypeOK /\ current_process \in Used /\ 0 \in Used
      /\ Used \subseteq Slots /\ state[0] # "TERMINATED"
      /\ step \in [Slots -> Steps]
      /\ \A i \in Used : step[i] = "wake" => state[i] = "TERMINATED"
  BY PreemptPre, SMTT(30) DEF PreemptInv, IdleCanRun, ExitHalfway
<1>b. /\ tick_counter \in 0 .. QUANTUM - 1 /\ state \in [Slots -> States]
      /\ exit_code \in [Slots -> Int] /\ waiting_for_pid \in [Slots -> Nat]
      /\ waitTarget \in [Slots -> Slots \cup {None}] /\ pid \in [Slots -> Nat]
  BY <1>a, SMTT(30) DEF TypeOK
<1>. USE DEF table, switch
<1>c. ASSUME UNCHANGED <<process_count, next_pid, halted, table, switch, step>>,
             tick_counter' \in 0 .. QUANTUM - 1
      PROVE  PreemptInv'
  BY <1>c, SMTT(30) DEF PreemptInv, TypeOK, OneRunning, ContextIntact, TssFollowsCurrent,
        IdleCanRun, ExitHalfway, WaitingOnTarget, BypassPaid, Slots, Used, Alive, ScanDistance, Steps
<1>1. CASE PreemptIrq0
  <2>1. tick_counter' \in 0 .. QUANTUM - 1
    BY <1>1, <1>b, SchedulerAssumption DEF PreemptIrq0, TimerTick, SliceOver
  <2>2. scheduler_yield(state) \/ UNCHANGED switch
    BY <1>1 DEF PreemptIrq0, TimerTick
  <2>3. UNCHANGED <<process_count, next_pid, halted, table, step>>
    BY <1>1 DEF PreemptIrq0
  <2>4. CASE UNCHANGED switch
    BY <1>c, <2>1, <2>3, <2>4
  <2>5. CASE scheduler_yield(state)
    BY <1>a, <1>b, <2>1, <2>3, <2>5, PreemptYields
  <2>. QED  BY <2>2, <2>4, <2>5
<1>2. CASE PreemptAdd
  <2>1. NewProcess /\ step' = step
    BY <1>2 DEF PreemptAdd, scheduler_add_user_process
  <2>2. /\ TypeOK'
        /\ OneRunning' /\ ContextIntact' /\ TssFollowsCurrent' /\ BypassPaid'
        /\ process_count \in Slots \ Used /\ Used' = Used \cup {process_count}
        /\ \A i \in Used : state'[i] = state[i]
        /\ state'[process_count] = "READY" /\ current_process' = current_process
    BY <2>1, NewProcessFits DEF PreemptInv
  <2>3. step[process_count] # "wake"
    BY <2>2, SMTT(30) DEF PreemptInv, WaitingOnTarget
  <2>4. IdleCanRun' /\ ExitHalfway' /\ state'[current_process'] # "READY"
    BY <1>a, <2>1, <2>2, <2>3 DEF PreemptInv, IdleCanRun, ExitHalfway
  <2>5. WaitingOnTarget'
    <3>1. waitTarget' = waitTarget
      BY <2>1 DEF NewProcess
    <3>2. step[process_count] = "run"
      BY <2>2 DEF PreemptInv, WaitingOnTarget
    <3>. QED  BY <2>1, <2>2, <3>1, <3>2 DEF PreemptInv, WaitingOnTarget, Slots
  <2>. QED  BY <1>a, <2>1, <2>2, <2>4, <2>5 DEF PreemptInv, Steps
<1>3. ASSUME NEW i \in Used, wait_check(i)
      PROVE  PreemptInv'
  <2>1. /\ current_process # 0 /\ step[current_process] = "run"
        /\ waitTarget' = [waitTarget EXCEPT ![current_process] = i]
        /\ step' = [step EXCEPT ![current_process] = "block"]
        /\ UNCHANGED <<process_count, next_pid, tick_counter, halted, pid, exit_code,
                       waiting_for_pid, switch>>
    BY <1>3, SMTT(30) DEF wait_check, AtStep, GoTo
  <2>2. state[current_process] # "TERMINATED"
    BY <2>1, ZenonT(30) DEF PreemptInv, ExitHalfway
  <2>3. state' = [state EXCEPT ![current_process] = state[current_process]]
    BY <1>b, <2>1
  <2>4. i \in Slots /\ "block" \in Steps
    BY <1>a DEF Steps
  <2>. QED  BY <1>b, <2>1, <2>2, <2>3, <2>4, PreemptStatement
<1>4. CASE wait_block
  <2>1. /\ current_process # 0
        /\ state' = [state EXCEPT ![current_process] = "BLOCKED"]
        /\ waiting_for_pid' = [waiting_for_pid EXCEPT
                                 ![current_process] = pid[waitTarget[current_process]]]
        /\ step' = [step EXCEPT ![current_process] = "loop"]
        /\ UNCHANGED <<process_count, next_pid, tick_counter, halted, pid, exit_code,
                       waitTarget, current_process, esp, tss, cpu, bypass>>
    BY <1>4 DEF wait_block, AtStep, GoTo
  <2>2. waitTarget[current_process] \in Used
    BY <1>a, <1>4 DEF PreemptInv, WaitingOnTarget, wait_block, AtStep
  <2>3. /\ waiting_for_pid' \in [Slots -> Nat] /\ "loop" \in Steps
        /\ waitTarget' = [waitTarget EXCEPT ![current_process] = waitTarget[current_process]]
    BY <1>a, <1>b, <2>1, <2>2 DEF Steps
  <2>. QED  BY <1>a, <1>b, <2>1, <2>2, <2>3, PreemptStatement, Zenon
<1>5. CASE wait_loop
  <2>1. /\ current_process # 0 /\ step[current_process] = "loop"
        /\ UNCHANGED <<process_count, next_pid, tick_counter, halted, pid, exit_code,
                       waiting_for_pid>>
    BY <1>5 DEF wait_loop, AtStep
  <2>2. CASE /\ waitTarget' = [waitTarget EXCEPT ![current_process] = None]
             /\ step' = [step EXCEPT ![current_process] = "run"]
             /\ UNCHANGED switch
    <3>1. state[current_process] # "TERMINATED"
      BY <2>1 DEF PreemptInv, ExitHalfway
    <3>2. state' = [state EXCEPT ![current_process] = state[current_process]]
      BY <1>b, <2>2
    <3>3. "run" \in Steps
      BY DEF Steps
    <3>. QED  BY <1>b, <2>1, <2>2, <3>1, <3>2, <3>3, PreemptStatement
  <2>3. CASE scheduler_yield(state) /\ UNCHANGED <<waitTarget, step>>
    BY <1>a, <1>b, <2>1, <2>3, PreemptYields
  <2>. QED  BY <1>5, <2>2, <2>3 DEF wait_loop, GoTo
<1>6. ASSUME NEW code \in ExitCodes, exit_mark(code)
      PROVE  PreemptInv'
  <2>1. /\ current_process # 0
        /\ state' = [state EXCEPT ![current_process] = "TERMINATED"]
        /\ exit_code' = [exit_code EXCEPT ![current_process] = code]
        /\ step' = [step EXCEPT ![current_process] = "wake"]
        /\ UNCHANGED <<process_count, next_pid, tick_counter, halted, pid,
                       waiting_for_pid, waitTarget, current_process, esp, tss, cpu,
                       bypass>>
    BY <1>6 DEF exit_mark, AtStep, GoTo
  <2>2. /\ exit_code' \in [Slots -> Int] /\ "wake" \in Steps
        /\ waitTarget' = [waitTarget EXCEPT ![current_process] = waitTarget[current_process]]
        /\ waitTarget[current_process] \in Slots \cup {None}
    BY <1>a, <1>b, <2>1, SchedulerAssumption DEF Steps
  <2>. QED  BY <1>b, <2>1, <2>2, PreemptStatement, Zenon
<1>7. CASE exit_wake
  <2>. DEFINE woken == WakeWaiters(state, pid[current_process])
              wfp == ClearWaiting(state, pid[current_process])
  <2>1. /\ AtStep("wake") /\ waiting_for_pid' = wfp /\ scheduler_yield(woken)
        /\ step' = [step EXCEPT ![current_process] = "run"]
        /\ UNCHANGED <<process_count, next_pid, tick_counter, halted, pid, exit_code,
                       waitTarget>>
    BY <1>7 DEF exit_wake, GoTo
  <2>2. /\ YieldPre(woken) /\ woken[0] # "TERMINATED" /\ wfp \in [Slots -> Nat]
        /\ \A i \in Used : state[i] = "TERMINATED" => woken[i] = "TERMINATED"
    BY <2>1, PreemptWakes
  <2>. HIDE DEF woken, wfp
  <2>. QED  BY <1>b, <2>1, <2>2, PreemptYields
<1>8. CASE UNCHANGED preemptVars
  BY <1>8, <1>b, <1>c DEF preemptVars, vars
<1>. QED
  BY <1>1, <1>2, <1>3, <1>4, <1>5, <1>6, <1>7, <1>8 DEF PreemptNext

(* What preemption cannot break holds of every reachable state. *)
THEOREM PreemptInvariance == PreemptSpec => []PreemptInv
<1>1. PreemptInit => PreemptInv
  <2>. SUFFICES ASSUME PreemptInit PROVE PreemptInv
    OBVIOUS
  <2>1. IInv /\ Init /\ step = [i \in Slots |-> "run"] /\ Used = {0} /\ 0 \in Slots
    BY InitInvariant, SchedulerAssumption DEF PreemptInit, Init, Used, Slots
  <2>2. step \in [Slots -> Steps] /\ WaitingOnTarget /\ ExitHalfway
    BY <2>1 DEF Steps, WaitingOnTarget, ExitHalfway, Init
  <2>3. IdleCanRun
    BY <2>1 DEF Init, IdleCanRun
  <2>. QED  BY <2>1, <2>2, <2>3 DEF IInv, ExecutingNotReady, PreemptInv
<1>2. PreemptInv /\ [PreemptNext]_preemptVars => PreemptInv'
  BY PreemptInvariant
<1>. QED  BY <1>1, <1>2, PTL DEF PreemptSpec

(* Also when IRQ0 preempts process_wait and process_exit between two statements, at
   most one process is RUNNING, every switch lands on the stack of the process it
   switches to, and TSS.esp0 is the stack of the process that executes: what those
   calls can lose is a wake-up, never a context. *)
THEOREM PreemptedSwitchesHold ==
    PreemptSpec => [](OneRunning /\ ContextIntact /\ TssFollowsCurrent)
  BY PreemptInvariance, PTL DEF PreemptInv

(* Preemption inside those calls does not let the scan of scheduler_yield_impl pass a
   READY process over more often. *)
THEOREM PreemptedBypassHolds == PreemptSpec => []BoundedBypass
<1>1. PreemptInv => BoundedBypass
  BY DEF PreemptInv, BypassPaid, BoundedBypass
<1>. QED  BY <1>1, PreemptInvariance, PTL

(* A process preempted between the two halves of process_exit does not come back, and
   nothing changes the exit code it has left. *)
THEOREM PreemptedExitIsFinal == PreemptSpec => TerminatedIsFinal
<1>. DEFINE Final == \A i \in Used : IdleAlive /\ ~Alive(i) =>
                        ~Alive(i)' /\ exit_code'[i] = exit_code[i]
<1>1. ASSUME PreemptInv, [PreemptNext]_preemptVars
      PROVE  [Final]_vars
  <2>a. SUFFICES ASSUME NEW k \in Used, ~Alive(k)
                 PROVE  ~Alive(k)' /\ exit_code'[k] = exit_code[k]
    OBVIOUS
  <2>b. /\ YieldPre(state) /\ TypeOK /\ current_process \in Used /\ Used \subseteq Slots
        /\ state[k] = "TERMINATED" /\ k \in Slots
        /\ state \in [Slots -> States] /\ exit_code \in [Slots -> Int]
    BY <1>1, <2>a, PreemptPre DEF Alive, TypeOK
  <2>c. k = current_process => step[current_process] = "wake"
    BY <1>1, <2>b DEF PreemptInv, ExitHalfway
  <2>d. ASSUME NEW st, YieldPre(st), scheduler_yield(st), st[k] = "TERMINATED",
               process_count' = process_count
        PROVE  ~Alive(k)'
    BY <1>1, <2>b, <2>d, YieldCorrect, SMTT(30) DEF PreemptInv, SameFate, Alive
  <2>. USE DEF table, switch
  <2>1. CASE PreemptIrq0
    BY <2>1, <2>b, <2>d DEF PreemptIrq0, TimerTick, Alive
  <2>2. CASE PreemptAdd
    BY <1>1, <2>2, <2>b, NewProcessFits
    DEF PreemptAdd, scheduler_add_user_process, PreemptInv, Alive
  <2>3. ASSUME NEW i \in Used, wait_check(i)
        PROVE  ~Alive(k)' /\ exit_code'[k] = exit_code[k]
    BY <2>3, <2>b DEF wait_check, Alive
  <2>4. CASE wait_block
    BY <2>4, <2>b, <2>c DEF wait_block, AtStep, Alive
  <2>5. CASE wait_loop
    BY <2>5, <2>b, <2>d DEF wait_loop, Alive
  <2>6. ASSUME NEW code \in ExitCodes, exit_mark(code)
        PROVE  ~Alive(k)' /\ exit_code'[k] = exit_code[k]
    BY <2>6, <2>b, <2>c DEF exit_mark, AtStep, Alive
  <2>7. CASE exit_wake
    <3>. DEFINE woken == WakeWaiters(state, pid[current_process])
    <3>1. /\ AtStep("wake") /\ scheduler_yield(woken) /\ exit_code' = exit_code
          /\ process_count' = process_count
      BY <2>7 DEF exit_wake
    <3>2. YieldPre(woken) /\ woken[k] = "TERMINATED"
      BY <1>1, <2>b, <3>1, PreemptWakes
    <3>. HIDE DEF woken
    <3>. QED  BY <2>d, <3>1, <3>2
  <2>8. CASE UNCHANGED preemptVars
    BY <2>8, <2>b DEF preemptVars, vars, Alive
  <2>. QED
    BY <1>1, <2>1, <2>2, <2>3, <2>4, <2>5, <2>6, <2>7, <2>8, SMTT(30) DEF PreemptNext
<1>. HIDE DEF Final
<1>2. PreemptSpec => [][Final]_vars
  BY <1>1, PreemptInvariance, PTL DEF PreemptSpec
<1>. QED  BY <1>2 DEF Final, TerminatedIsFinal
=============================================================================
