------------------------------ MODULE Keyboard -------------------------------
(***************************************************************************)
(* The keyboard driver of src/drivers/keyboard.c and SYS_READ of           *)
(* src/kernel/syscall.c, which share a ring of BUFFER keys.  IRQ1 and      *)
(* int 0x80 both enter through interrupt gates, so each runs to its end    *)
(* before the other starts, in any order.                                  *)
(***************************************************************************)
EXTENDS Integers, Sequences

CONSTANTS
    BUFFER,   \* sizeof(kbd_buffer): 128
    Counts    \* counts given to SYS_READ

ASSUME KeyboardAssumption == BUFFER \in Nat \ {0, 1} /\ Counts \subseteq Nat \ {0}

VARIABLES
    kbd_buffer, kbd_head, kbd_tail,
    is_e0_prefix,
    result,    \* what the last SYS_READ stored
    last       \* history: the last scancode

vars == <<kbd_buffer, kbd_head, kbd_tail, is_e0_prefix, result, last>>

(* The characters that matter; NoKey is the character 0.  The table maps a press
   without a prefix: of the codes that carry the arrows after a prefix, 0x48 and
   0x50, it maps neither; KEY_UP stands at 0x4B. *)
NoKey == "none"
Newline == "newline"
Keys == {"a", Newline, "KEY_UP", "KEY_DOWN"}
scancode_ascii ==
    [A |-> "a", Enter |-> Newline, Shift |-> NoKey,
     x48 |-> NoKey, x50 |-> NoKey, x4B |-> "KEY_UP"]
Presses == DOMAIN scancode_ascii
Scancodes == Presses \cup {"E0", "release"}

TypeOK ==
    /\ kbd_buffer \in [0..BUFFER-1 -> Keys \cup {NoKey}]
    /\ kbd_head \in 0..BUFFER-1
    /\ kbd_tail \in 0..BUFFER-1
    /\ is_e0_prefix \in {0, 1}
    /\ result \in Seq(Keys)
    /\ last \in Scancodes

Init ==
    /\ kbd_buffer = [i \in 0..BUFFER-1 |-> NoKey]
    /\ kbd_head = 0
    /\ kbd_tail = 0
    /\ is_e0_prefix = 0
    /\ result = <<>>
    /\ last = "release"

(* The character of a press. *)
Decoded(scancode) ==
    IF is_e0_prefix = 0 THEN scancode_ascii[scancode]
    ELSE IF scancode = "x48" THEN "KEY_UP"
    ELSE IF scancode = "x50" THEN "KEY_DOWN"
    ELSE NoKey

(* One slot stays empty, or a full ring would look empty. *)
next_head == (kbd_head + 1) % BUFFER
MutRingFull == FALSE
RingFull == next_head = kbd_tail

MutKeepPrefix(scancode) == IF scancode = "E0" THEN 1
                           ELSE IF scancode = "release" THEN is_e0_prefix ELSE 0
PrefixAfter(scancode) == IF scancode = "E0" THEN 1 ELSE 0

keyboard_handler(scancode) ==
    /\ is_e0_prefix' = PrefixAfter(scancode)
    /\ last' = scancode
    /\ IF scancode \in Presses /\ Decoded(scancode) # NoKey /\ ~RingFull
       THEN /\ kbd_buffer' = [kbd_buffer EXCEPT ![kbd_head] = Decoded(scancode)]
            /\ kbd_head' = next_head
       ELSE UNCHANGED <<kbd_buffer, kbd_head>>
    /\ UNCHANGED <<kbd_tail, result>>

(* The ring k keys after the tail: keyboard_getchar reads Key(k) unless Empty(k). *)
Slot(k) == (kbd_tail + k) % BUFFER
Empty(k) == Slot(k) = kbd_head
Key(k) == kbd_buffer[Slot(k)]

(* Where the loop of SYS_READ stops: it has count keys, the last one was a newline,
   or keyboard_getchar has none. *)
Stops(k, count) == k = count \/ Empty(k) \/ (k > 0 /\ Key(k - 1) = Newline)

SYS_READ(count) ==
    \E k \in 0..count :
        /\ Stops(k, count)
        /\ \A j \in 0..k-1 : ~Stops(j, count)
        /\ result' = [i \in 1..k |-> Key(i - 1)]
        /\ kbd_tail' = Slot(k)
        /\ UNCHANGED <<kbd_buffer, kbd_head, is_e0_prefix, last>>

Next ==
    \/ \E scancode \in Scancodes : keyboard_handler(scancode)
    \/ \E count \in Counts : SYS_READ(count)

Spec == Init /\ [][Next]_vars
-----------------------------------------------------------------------------
(* A prefix concerns the very next scancode only, be it a press or a release: no
   key is swallowed or turned into an arrow by an earlier one. *)
PrefixIsShort == is_e0_prefix = 1 <=> last = "E0"

(* The ring implements the queue of KeyboardSpec: no key in it is reordered, read
   twice or overwritten before it is read, however often the indices wrap. *)
Waiting == (kbd_head - kbd_tail) % BUFFER
Queue == INSTANCE KeyboardSpec
            WITH Capacity <- BUFFER - 1,
                 queue <- [i \in 1..Waiting |-> Key(i - 1)]
IsQueue == Queue!QueueSpec
-----------------------------------------------------------------------------
(* What makes TypeOK inductive: the slots between the indices hold keys. *)
SlotsFilled == \A k \in 0..Waiting-1 : Key(k) \in Keys
IInv == TypeOK /\ PrefixIsShort /\ SlotsFilled
=============================================================================
