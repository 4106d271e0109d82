-------------------------- MODULE SchedulerPreempt --------------------------
(***************************************************************************)
(* process_wait and process_exit called by a Ring 0 process, the way       *)
(* scheduler_add_process starts one (EFLAGS 0x202, so IF = 1): neither     *)
(* disables interrupts, and IRQ0 may preempt them between two statements.  *)
(* Only the yield itself is still one step.                                *)
(***************************************************************************)
EXTENDS Scheduler

VARIABLE step    \* by slot: which statement of a call comes next

preemptVars == <<vars, step>>

(* "block": process_wait has seen a live target, and blocks next;
   "loop": it tests its loop condition next;
   "wake": process_exit is TERMINATED already, and wakes its waiters next. *)
Steps == {"run", "block", "loop", "wake"}

PreemptInit == Init /\ step = [i \in Slots |-> "run"]

GoTo(s) == step' = [step EXCEPT ![current_process] = s]

AtStep(s) == ~halted /\ current_process # 0 /\ step[current_process] = s

PreemptIrq0 ==
    /\ ~halted
    /\ TimerTick
    /\ UNCHANGED <<process_count, next_pid, halted, table, step>>

PreemptAdd ==
    /\ process_count = 1 \/ AtStep("run")
    /\ scheduler_add_user_process
    /\ UNCHANGED step

wait_check(i) ==
    /\ AtStep("run")
    /\ Alive(i)
    /\ waitTarget' = [waitTarget EXCEPT ![current_process] = i]
    /\ GoTo("block")
    /\ UNCHANGED <<process_count, next_pid, tick_counter, halted, pid, exit_code,
                   waiting_for_pid, switch>>

wait_block ==
    /\ AtStep("block")
    /\ state' = [state EXCEPT ![current_process] = "BLOCKED"]
    /\ waiting_for_pid' = [waiting_for_pid EXCEPT
                             ![current_process] = pid[waitTarget[current_process]]]
    /\ GoTo("loop")
    /\ UNCHANGED <<process_count, next_pid, tick_counter, halted, pid, exit_code,
                   waitTarget, current_process, esp, tss, cpu, bypass>>

wait_loop ==
    /\ AtStep("loop")
    /\ \/ /\ ~Alive(waitTarget[current_process])
          /\ waitTarget' = [waitTarget EXCEPT ![current_process] = None]
          /\ GoTo("run")
          /\ UNCHANGED switch
       \/ /\ Alive(waitTarget[current_process])
          /\ scheduler_yield(state)
          /\ UNCHANGED <<waitTarget, step>>
    /\ UNCHANGED <<process_count, next_pid, tick_counter, halted, pid, exit_code,
                   waiting_for_pid>>

exit_mark(code) ==
    /\ AtStep("run")
    /\ state' = [state EXCEPT ![current_process] = "TERMINATED"]
    /\ exit_code' = [exit_code EXCEPT ![current_process] = code]
    /\ GoTo("wake")
    /\ UNCHANGED <<process_count, next_pid, tick_counter, halted, pid,
                   waiting_for_pid, waitTarget, current_process, esp, tss, cpu,
                   bypass>>

exit_wake ==
    /\ AtStep("wake")
    /\ waiting_for_pid' = ClearWaiting(state, pid[current_process])
    /\ scheduler_yield(WakeWaiters(state, pid[current_process]))
    /\ GoTo("run")
    /\ UNCHANGED <<process_count, next_pid, tick_counter, halted, pid, exit_code,
                   waitTarget>>

PreemptNext ==
    \/ PreemptIrq0
    \/ PreemptAdd
    \/ \E i \in Used : wait_check(i)
    \/ wait_block
    \/ wait_loop
    \/ \E code \in ExitCodes : exit_mark(code)
    \/ exit_wake

(* The timer keeps ticking and a process inside a call goes on executing it. *)
PreemptSpec ==
    /\ PreemptInit /\ [][PreemptNext]_preemptVars
    /\ WF_preemptVars(PreemptIrq0)
    /\ WF_preemptVars(wait_block) /\ WF_preemptVars(wait_loop)
    /\ WF_preemptVars(exit_wake)

(* process_wait "blocks current process until another terminates": a process
   BLOCKED on a process that has terminated does not stay BLOCKED. *)
WaiterWakes ==
    \A i, j \in Slots :
        (i # j /\ state[i] = "BLOCKED" /\ waitTarget[i] = j /\ ~Alive(j))
            ~> (state[i] # "BLOCKED")
-----------------------------------------------------------------------------
(* What preemption cannot break, and what makes it inductive: KernelMain makes none
   of these calls and stays READY or RUNNING, so a yield away from a process that is
   BLOCKED or TERMINATED always finds somebody; and a process between the two halves
   of process_exit is TERMINATED, so it is on the CPU for the last time. *)
IdleCanRun ==
    /\ state[0] \in {"READY", "RUNNING"}
    /\ current_process = 0 => state[0] = "RUNNING"

ExitHalfway ==
    /\ \A i \in Used : step[i] = "wake" => state[i] = "TERMINATED"
    /\ state[current_process] = "TERMINATED" => step[current_process] = "wake"

(* A process inside process_wait has a target. *)
WaitingOnTarget ==
    /\ \A i \in Slots \ Used : step[i] = "run"
    /\ \A i \in Used : step[i] \in {"block", "loop"} => waitTarget[i] \in Used

PreemptInv ==
    /\ TypeOK /\ step \in [Slots -> Steps]
    /\ OneRunning /\ ContextIntact /\ TssFollowsCurrent
    /\ state[current_process] # "READY"
    /\ IdleCanRun /\ ExitHalfway /\ WaitingOnTarget
    /\ BypassPaid
=============================================================================
