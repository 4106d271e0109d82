--------------------------------- MODULE Pit ---------------------------------
(***************************************************************************)
(* The clock of src/kernel/pit.c: the 64-bit counter pit_ticks, which IRQ0 *)
(* increments, and pit_sleep, which a process calls with interrupts on.    *)
(*                                                                         *)
(* The processor has 32-bit words: a read of pit_ticks is two loads, in an *)
(* order C leaves open, and IRQ0 can come between them.  The product in    *)
(* pit_sleep has 32 bits.  hlt ends with any interrupt, and an interrupt   *)
(* can come between the comparison and the hlt.                            *)
(***************************************************************************)
EXTENDS Integers

CONSTANTS
    WORD,       \* 2^32
    RATE,       \* ticks a second: 100
    SECOND,     \* milliseconds in a second: 1000
    Delays,     \* arguments of pit_sleep
    MaxTicks    \* bound: the counter stays there, while interrupts go on

ASSUME PitAssumption ==
    /\ WORD \in Nat \ {0} /\ RATE \in Nat \ {0} /\ SECOND \in Nat \ {0}
    /\ Delays \subseteq Nat /\ MaxTicks \in Nat

VARIABLES
    pit_ticks,
    pc,        \* where the sleeper is
    half,      \* the word it has loaded: <<"low" or "high", value>>, or NoHalf
    target,    \* target_ticks
    delay,     \* milliseconds
    elapsed,   \* history: interrupts of the clock since the call
    carried    \* history: during the call the low word of the counter has wrapped

sleeper == <<pc, half, target, delay>>
pitVars == <<pit_ticks, sleeper, elapsed, carried>>

NoHalf == <<"none", 0>>
Low(t) == t % WORD
High(t) == t \div WORD

PitTypeOK ==
    /\ pit_ticks \in 0..MaxTicks
    /\ pc \in {"out", "start", "test", "hlt"}
    /\ half \in {"none", "low", "high"} \X Nat
    /\ target \in Nat
    /\ delay \in Delays \cup {0}
    /\ elapsed \in 0..MaxTicks
    /\ carried \in BOOLEAN

PitInit ==
    /\ pit_ticks = 0
    /\ pc = "out" /\ half = NoHalf /\ target = 0 /\ delay = 0
    /\ elapsed = 0 /\ carried = FALSE

(* The clock's interrupt also ends a hlt. *)
pit_handler ==
    /\ pit_ticks' = IF pit_ticks < MaxTicks THEN pit_ticks + 1 ELSE pit_ticks
    /\ pc' = IF pc = "hlt" THEN "test" ELSE pc
    /\ elapsed' = IF pc = "out" THEN 0 ELSE elapsed + (pit_ticks' - pit_ticks)
    /\ carried' = (pc # "out" /\ (carried \/ High(pit_ticks') # High(pit_ticks)))
    /\ UNCHANGED <<half, target, delay>>

(* So does any other one. *)
OtherIrq ==
    /\ pc = "hlt"
    /\ pc' = "test"
    /\ UNCHANGED <<pit_ticks, half, target, delay, elapsed, carried>>

Enter(ms) ==
    /\ pc = "out"
    /\ pc' = "start" /\ half' = NoHalf /\ delay' = ms /\ target' = 0
    /\ elapsed' = 0 /\ carried' = FALSE
    /\ UNCHANGED pit_ticks

(* The first load of a read of pit_ticks: either word. *)
LoadHalf ==
    /\ pc \in {"start", "test"} /\ half = NoHalf
    /\ half' \in {<<"low", Low(pit_ticks)>>, <<"high", High(pit_ticks)>>}
    /\ UNCHANGED <<pit_ticks, pc, target, delay, elapsed, carried>>

(* What the read has got once the other word is loaded. *)
ReadTicks ==
    IF half[1] = "low" THEN High(pit_ticks) * WORD + half[2]
    ELSE half[2] * WORD + Low(pit_ticks)

MutDivideFirst(ms) == (ms \div SECOND) * RATE
SleepTicks(ms) == ((ms * RATE) % WORD) \div SECOND

SetTarget ==
    /\ pc = "start" /\ half # NoHalf
    /\ target' = ReadTicks + SleepTicks(delay)
    /\ pc' = "test" /\ half' = NoHalf
    /\ UNCHANGED <<pit_ticks, delay, elapsed, carried>>

(* The loop of pit_sleep. *)
MutUntilEqual(t) == t # target
Before(t) == t < target

GoOn ==
    /\ pc = "test" /\ half # NoHalf
    /\ pc' = IF Before(ReadTicks) THEN "hlt" ELSE "out"
    /\ half' = NoHalf
    /\ UNCHANGED <<pit_ticks, target, delay, elapsed, carried>>

Sleeper == LoadHalf \/ SetTarget \/ GoOn

PitNext ==
    \/ pit_handler \/ OtherIrq
    \/ \E ms \in Delays : Enter(ms)
    \/ Sleeper

(* The clock keeps interrupting, and the scheduler gives the sleeper its turns. *)
PitFairness == WF_pitVars(pit_handler) /\ WF_pitVars(Sleeper)

PitSpec == PitInit /\ [][PitNext]_pitVars
-----------------------------------------------------------------------------
(* pit_sleep does not return early: as many clock interrupts as the milliseconds
   stand for have come since the call, whichever interrupts ended its hlts and wherever
   they fell, provided that the product fits its 32 bits and the low word of the
   counter did not wrap between the two loads of a read. *)
SleepLasts ==
    [][pc = "test" /\ pc' = "out" /\ delay * RATE < WORD /\ ~carried
            => elapsed >= (delay * RATE) \div SECOND]_pitVars

(* pit_sleep returns, if the counter gets as far as its target: no interrupt that comes
   between the comparison and the hlt, no read torn by a wrap, and no tick missed while
   other processes run, leaves it halted or looping. *)
SleepEnds == (pc \in {"test", "hlt"} /\ target <= MaxTicks) ~> (pc = "out")
-----------------------------------------------------------------------------
(* What makes SleepLasts inductive: as long as the low word does not wrap, a word that
   was loaded lies between its values at the call and now, and the target is as far from
   the call as it has to be. *)
Start == pit_ticks - elapsed
HalfRight ==
    pc # "out" /\ ~carried =>
        /\ High(Start) = High(pit_ticks)
        /\ half[1] = "low" => Low(Start) <= half[2] /\ half[2] <= Low(pit_ticks)
        /\ half[1] = "high" => half[2] = High(pit_ticks)
TargetRight ==
    pc \in {"test", "hlt"} /\ ~carried => target >= Start + SleepTicks(delay)
PitInv ==
    /\ PitTypeOK /\ HalfRight /\ TargetRight
    /\ elapsed <= pit_ticks
    /\ half[1] = "none" => half = NoHalf
=============================================================================
