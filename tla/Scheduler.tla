------------------------------ MODULE Scheduler ------------------------------
(***************************************************************************)
(* The process table and the round-robin scheduler of HumanOS              *)
(* (src/kernel/scheduler.c), its timer interrupt (pit.c, interrupts.s),    *)
(* and the system calls and power functions that reach it.                 *)
(*                                                                         *)
(* Every handler is one step up to its context switch: IRQ0 and int 0x80   *)
(* enter through interrupt gates, so the CPU runs them with IF = 0.  The   *)
(* calls that no gate protects are taken under the same discipline here;   *)
(* SchedulerPreempt is about what happens to them with IF = 1.             *)
(*                                                                         *)
(* A process is its slot in processes[].  A stack is named by the slot     *)
(* that owns it: a saved context.esp is the slot whose stack holds the     *)
(* saved frame, NoEsp (the value 0), or Stale once that frame was popped.  *)
(*                                                                         *)
(* Definitions named Mut... are slips the properties are tested against;   *)
(* no action uses them.                                                    *)
(***************************************************************************)
EXTENDS Integers

CONSTANTS
    MAX_PROCESSES,   \* slots of processes[]
    QUANTUM,         \* timer ticks per time slice
    ExitCodes        \* statuses a process may exit with

ASSUME SchedulerAssumption ==
    /\ MAX_PROCESSES \in Nat \ {0}
    /\ QUANTUM \in Nat \ {0}
    /\ ExitCodes \subseteq Int

VARIABLES
    process_count,     \* slots in use: 0 .. process_count - 1
    current_process,   \* slot the scheduler believes is executing
    next_pid,
    tick_counter,      \* ticks since the last slice ended
    pid, state, exit_code, waiting_for_pid,   \* process_t, by slot
    esp,               \* context.esp, by slot
    tss,               \* owner of the stack TSS.esp0 points to
    cpu,               \* owner of the stack the CPU is executing on
    waitTarget,        \* slot a process is looping on in process_wait, or None
    halted,            \* the machine was shut down or rebooted
    bypass             \* switches to others since the slot became READY (history)

table == <<pid, exit_code, waiting_for_pid, waitTarget>>
switch == <<state, current_process, esp, tss, cpu, bypass>>
vars == <<process_count, next_pid, tick_counter, halted, table, switch>>

Slots == 0 .. MAX_PROCESSES - 1
Used == 0 .. process_count - 1
States == {"READY", "RUNNING", "BLOCKED", "TERMINATED"}
Unused == "READY"       \* content of a slot no process was put in
NoEsp == -1
Stale == -2
None == -1
Alive(i) == state[i] # "TERMINATED"

TypeOK ==
    /\ process_count \in 1 .. MAX_PROCESSES
    /\ current_process \in Used
    /\ next_pid \in Nat
    /\ tick_counter \in 0 .. QUANTUM - 1
    /\ pid \in [Slots -> Nat]
    /\ state \in [Slots -> States]
    /\ exit_code \in [Slots -> Int]
    /\ waiting_for_pid \in [Slots -> Nat]
    /\ esp \in [Slots -> Slots \cup {NoEsp, Stale}]
    /\ tss \in Slots \cup {NoEsp}
    /\ cpu \in Slots
    /\ waitTarget \in [Slots -> Slots \cup {None}]
    /\ halted \in BOOLEAN
    /\ bypass \in [Slots -> Nat]
-----------------------------------------------------------------------------
(* scheduler_init, then scheduler_convert_current_process: kernel_main's own
   stack becomes slot 0, and its esp stays 0 until it is first switched out. *)
Init ==
    /\ process_count = 1
    /\ current_process = 0
    /\ next_pid = 2
    /\ tick_counter = 0
    /\ pid = [i \in Slots |-> IF i = 0 THEN 1 ELSE 0]
    /\ state = [i \in Slots |-> IF i = 0 THEN "RUNNING" ELSE Unused]
    /\ exit_code = [i \in Slots |-> 0]
    /\ waiting_for_pid = [i \in Slots |-> 0]
    /\ esp = [i \in Slots |-> NoEsp]
    /\ tss = NoEsp
    /\ cpu = 0
    /\ waitTarget = [i \in Slots |-> None]
    /\ halted = FALSE
    /\ bypass = [i \in Slots |-> 0]

(* The slot the scan of scheduler_yield_impl looks at in its d-th round. *)
MutScanFromZero(d) == d % process_count
ScanSlot(d) == (current_process + d) % process_count

(* The rounds that meet a READY process other than the current one. *)
MutScanNoWrap(st) ==
    {d \in 1 .. process_count - 1 - current_process : st[ScanSlot(d)] = "READY"}
ReadyDistances(st) ==
    {d \in 1 .. process_count - 1 : st[ScanSlot(d)] = "READY"}

(* The switch itself: the second half of scheduler_yield_impl, and the stack
   switch of its assembly callers, which stay on their stack when they get 0. *)
MutNoDemotion(st, next) == [st EXCEPT ![next] = "RUNNING"]
SwitchedStates(st, next) ==
    [st EXCEPT ![current_process] = IF @ = "RUNNING" THEN "READY" ELSE @,
               ![next] = "RUNNING"]

MutSaveRunningOnly(st, next) ==
    [esp EXCEPT ![current_process] = IF st[current_process] = "RUNNING"
                                     THEN cpu ELSE @,
                ![next] = Stale]
SwitchedEsp(st, next) ==
    [esp EXCEPT ![current_process] = cpu, ![next] = Stale]

MutTssKept(st, next) ==
    /\ state' = SwitchedStates(st, next)
    /\ esp' = SwitchedEsp(st, next)
    /\ current_process' = next
    /\ tss' = IF state[current_process] = "RUNNING" THEN next ELSE tss
    /\ cpu' = IF esp[next] = NoEsp THEN cpu ELSE esp[next]
    /\ UNCHANGED bypass
SwitchTo(st, next) ==
    /\ state' = SwitchedStates(st, next)
    /\ esp' = SwitchedEsp(st, next)
    /\ current_process' = next
    /\ tss' = next
    /\ cpu' = IF esp[next] = NoEsp THEN cpu ELSE esp[next]
    /\ bypass' = [i \in Slots |->
                    IF i \in Used \ {next} /\ st[i] = "READY"
                    THEN bypass[i] + 1 ELSE 0]

(* scheduler_yield, when the caller has already brought the states to st. *)
scheduler_yield(st) ==
    \/ \E d \in ReadyDistances(st) :
          /\ \A e \in ReadyDistances(st) : d <= e
          /\ SwitchTo(st, ScanSlot(d))
    \/ /\ ReadyDistances(st) = {}
       /\ state' = st
       /\ UNCHANGED <<current_process, esp, tss, cpu, bypass>>

(* The states once everyone BLOCKED on p is READY, and their waiting_for_pid. *)
MutWakeAnyState(st, p) == {i \in Used : waiting_for_pid[i] = p}
MutWakeShort(st, p) ==
    {i \in 0 .. process_count - 2 : st[i] = "BLOCKED" /\ waiting_for_pid[i] = p}
Waiters(st, p) == {i \in Used : st[i] = "BLOCKED" /\ waiting_for_pid[i] = p}
WakeWaiters(st, p) ==
    [i \in Slots |-> IF i \in Waiters(st, p) THEN "READY" ELSE st[i]]
ClearWaiting(st, p) ==
    [i \in Slots |-> IF i \in Waiters(st, p) THEN 0 ELSE waiting_for_pid[i]]
-----------------------------------------------------------------------------
(* The two conditions of scheduler_tick. *)
MutThreeProcesses == process_count > 2
Multitasking == process_count > 1
MutLongSlice == tick_counter + 1 > QUANTUM
SliceOver == tick_counter + 1 >= QUANTUM

(* irq0_stub: pit_handler, scheduler_tick, and a yield when the slice is over. *)
TimerTick ==
    \/ /\ ~Multitasking
       /\ UNCHANGED <<tick_counter, switch>>
    \/ /\ Multitasking /\ ~SliceOver
       /\ tick_counter' = tick_counter + 1
       /\ UNCHANGED switch
    \/ /\ Multitasking /\ SliceOver
       /\ tick_counter' = 0
       /\ scheduler_yield(state)

(* A process looping in process_wait has interrupts disabled. *)
Irq0 ==
    /\ ~halted
    /\ waitTarget[current_process] = None
    /\ TimerTick
    /\ UNCHANGED <<process_count, next_pid, halted, table>>

(* The current process executes its own code and may make a call.  KernelMain
   adds the shell and then only halts until the next interrupt. *)
Calling ==
    /\ ~halted
    /\ waitTarget[current_process] = None
    /\ current_process # 0

(* A new process: the early returns (table full, kmalloc failed) change
   nothing; its first esp is a hand-built frame on its own stack. *)
NewProcess ==
    /\ process_count < MAX_PROCESSES
    /\ pid' = [pid EXCEPT ![process_count] = next_pid]
    /\ next_pid' = next_pid + 1
    /\ state' = [state EXCEPT ![process_count] = "READY"]
    /\ exit_code' = [exit_code EXCEPT ![process_count] = 0]
    /\ waiting_for_pid' = [waiting_for_pid EXCEPT ![process_count] = 0]
    /\ esp' = [esp EXCEPT ![process_count] = process_count]
    /\ process_count' = process_count + 1
    /\ UNCHANGED <<current_process, tick_counter, tss, cpu, waitTarget, halted,
                   bypass>>

scheduler_add_process == Calling /\ NewProcess

(* kernel_main starts the shell; the shell's run command starts the others. *)
scheduler_add_user_process ==
    /\ ~halted
    /\ Calling \/ process_count = 1
    /\ NewProcess

SysYield ==
    /\ Calling
    /\ scheduler_yield(state)
    /\ UNCHANGED <<process_count, next_pid, tick_counter, halted, table>>

process_exit(code) ==
    LET p  == pid[current_process]
        st == [state EXCEPT ![current_process] = "TERMINATED"]
    IN  /\ Calling
        /\ exit_code' = [exit_code EXCEPT ![current_process] = code]
        /\ waiting_for_pid' = ClearWaiting(st, p)
        /\ scheduler_yield(WakeWaiters(st, p))
        /\ UNCHANGED <<process_count, next_pid, tick_counter, halted, pid,
                       waitTarget>>

(* A pid nobody alive has returns -1 and changes nothing. *)
process_kill(i) ==
    LET st   == [state EXCEPT ![i] = "TERMINATED"]
        woken == WakeWaiters(st, pid[i])
    IN  /\ Calling
        /\ Alive(i)
        /\ exit_code' = [exit_code EXCEPT ![i] = -1]
        /\ waiting_for_pid' = ClearWaiting(st, pid[i])
        /\ \/ i = current_process /\ scheduler_yield(woken)
           \/ /\ i # current_process
              /\ state' = woken
              /\ UNCHANGED <<current_process, esp, tss, cpu, bypass>>
        /\ UNCHANGED <<process_count, next_pid, tick_counter, halted, pid,
                       waitTarget>>

(* process_wait up to the first yield of its loop.  An unknown or terminated
   target returns at once and changes nothing. *)
process_wait(i) ==
    /\ Calling
    /\ Alive(i)
    /\ waiting_for_pid' = [waiting_for_pid EXCEPT ![current_process] = pid[i]]
    /\ waitTarget' = [waitTarget EXCEPT ![current_process] = i]
    /\ scheduler_yield([state EXCEPT ![current_process] = "BLOCKED"])
    /\ UNCHANGED <<process_count, next_pid, tick_counter, halted, pid,
                   exit_code>>

(* The waiter is on the CPU again: one more test of the loop's condition. *)
process_wait_loop ==
    LET i == waitTarget[current_process]
    IN  /\ ~halted
        /\ i # None
        /\ \/ /\ ~Alive(i)
              /\ waitTarget' = [waitTarget EXCEPT ![current_process] = None]
              /\ UNCHANGED switch
           \/ /\ Alive(i)
              /\ scheduler_yield(state)
              /\ UNCHANGED waitTarget
        /\ UNCHANGED <<process_count, next_pid, tick_counter, halted, pid,
                       exit_code, waiting_for_pid>>

(* The states once every process but the caller is TERMINATED. *)
scheduler_terminate_all ==
    [i \in Slots |-> IF i \in Used \ {current_process} THEN "TERMINATED" ELSE state[i]]

(* SYS_SHUTDOWN and SYS_REBOOT: scheduler_terminate_all, then cli and hlt. *)
power_off ==
    /\ Calling
    /\ state' = scheduler_terminate_all
    /\ halted' = TRUE
    /\ UNCHANGED <<process_count, next_pid, tick_counter, table,
                   current_process, esp, tss, cpu, bypass>>

Halted == halted /\ UNCHANGED vars

Next ==
    \/ Irq0
    \/ scheduler_add_process
    \/ scheduler_add_user_process
    \/ SysYield
    \/ \E code \in ExitCodes : process_exit(code)
    \/ \E i \in Used : process_kill(i)
    \/ \E i \in Used : process_wait(i)
    \/ process_wait_loop
    \/ power_off
    \/ Halted

Spec == Init /\ [][Next]_vars

(* The PIT raises IRQ0 for ever, and the CPU executes the loop it is in. *)
FairSpec == Spec /\ WF_vars(Irq0) /\ WF_vars(process_wait_loop)
-----------------------------------------------------------------------------
(* KernelMain (slot 0) never blocks nor exits: while nobody kills it there is
   always a process to switch to. *)
IdleAlive == Alive(0)

(* At most one process is RUNNING, and it is the one current_process names:
   scheduler_yield_impl demotes the old process before it promotes the next. *)
OneRunning ==
    \A i \in Used : state[i] = "RUNNING" => i = current_process

(* The CPU executes on the stack of current_process, and the saved esp of every
   other process that can still run is on its own stack.  In particular
   scheduler_yield_impl never returns 0 ("no switch") after it has moved
   current_process. *)
ContextIntact ==
    /\ cpu = current_process
    /\ \A i \in Used \ {current_process} : Alive(i) => esp[i] = i

(* While a process other than KernelMain executes, TSS.esp0 is its own kernel
   stack: an interrupt in Ring 3 never lands on somebody else's. *)
TssFollowsCurrent == current_process # 0 => tss = current_process

(* While KernelMain is alive, process_exit, a process_kill of oneself and
   process_wait do not return to a caller that is TERMINATED or BLOCKED: the
   executing process is RUNNING. *)
ExitDoesNotReturn == IdleAlive => state[current_process] = "RUNNING"

(* A BLOCKED process waits for a process that can still terminate: no
   termination slips past a process_wait. *)
NoLostWakeup ==
    \A i \in Used : state[i] = "BLOCKED" =>
        \E j \in Used : pid[j] = waiting_for_pid[i] /\ Alive(j)

(* A READY process sees fewer switches to others than there are slots in use
   before scheduler_yield_impl picks it. *)
BoundedBypass == \A i \in Used : bypass[i] < process_count

(* While KernelMain is alive, a terminated process stays so and keeps the exit
   code its waiters are given. *)
TerminatedIsFinal ==
    [][\A i \in Used : IdleAlive /\ ~Alive(i) =>
          ~Alive(i)' /\ exit_code'[i] = exit_code[i]]_vars

(* Every READY process eventually gets the CPU, however the others behave. *)
NoStarvation ==
    \A i \in Slots :
        (i \in Used /\ state[i] = "READY")
            ~> (state[i] \in {"RUNNING", "TERMINATED"} \/ ~IdleAlive)

(* A process_wait whose target has terminated returns, unless the waiter is
   itself killed or the machine stops. *)
WaitReturns ==
    \A i \in Slots :
        (waitTarget[i] # None /\ ~Alive(waitTarget[i]))
            ~> (waitTarget[i] = None \/ ~Alive(i) \/ halted \/ ~IdleAlive)
-----------------------------------------------------------------------------
(* What the properties above rest on: the inductive invariant. *)

(* Slots are filled in the order the pids are given out. *)
PidsInOrder ==
    /\ next_pid = process_count + 1
    /\ \A i \in Used : pid[i] = i + 1

(* The executing process is never READY, and KernelMain never BLOCKED. *)
ExecutingNotReady ==
    /\ state[current_process] # "READY"
    /\ state[0] # "BLOCKED"

(* A BLOCKED process is inside process_wait, and the target whose termination
   it waits for is alive and has the pid that will wake it. *)
BlockedOnTarget ==
    \A i \in Used : state[i] = "BLOCKED" =>
        /\ waitTarget[i] \in Used
        /\ waiting_for_pid[i] = pid[waitTarget[i]]
        /\ Alive(waitTarget[i])

(* How many slots the scan of scheduler_yield_impl is away from slot i. *)
ScanDistance(i) ==
    IF i > current_process THEN i - current_process
                           ELSE i - current_process + process_count

(* A READY process that was passed over is that much closer to the scan. *)
BypassPaid ==
    /\ \A i \in Slots \ Used : bypass[i] = 0
    /\ bypass[current_process] = 0
    /\ \A i \in Used :
          /\ bypass[i] < process_count
          /\ state[i] \in {"RUNNING", "BLOCKED"} => bypass[i] = 0
          /\ i # current_process /\ state[i] = "READY"
                => bypass[i] + ScanDistance(i) < process_count

IInv ==
    /\ TypeOK
    /\ PidsInOrder
    /\ OneRunning
    /\ ContextIntact
    /\ TssFollowsCurrent
    /\ ExecutingNotReady
    /\ ExitDoesNotReturn
    /\ BlockedOnTarget
    /\ BypassPaid
=============================================================================
