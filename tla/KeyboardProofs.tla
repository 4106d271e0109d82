---------------------------- MODULE KeyboardProofs -----------------------------
(***************************************************************************)
(* The ring of the keyboard driver is a queue of BUFFER - 1 keys, for      *)
(* every size of the ring and all counts of SYS_READ.                      *)
(***************************************************************************)
EXTENDS Keyboard, TLAPS

(* The remainder of a number that lies at most once round the ring. *)
LEMMA Mod ==
    ASSUME NEW b \in Nat \ {0}, NEW x \in Int
    PROVE  /\ x \in 0..b-1 => x % b = x
           /\ x \in b..2*b-1 => x % b = x - b
           /\ x \in -b..-1 => x % b = x + b
  OBVIOUS

(* Going forward in the ring. *)
LEMMA Forward ==
    ASSUME NEW b \in Nat \ {0}, NEW s \in 0..b-1, NEW j \in 0..b-1
    PROVE  (s + j) % b = IF s + j < b THEN s + j ELSE s + j - b
<1>1. CASE s + j < b
  <2>1. s + j \in Int /\ s + j \in 0..b-1
    BY <1>1
  <2>2. (s + j) % b = s + j
    BY <2>1, Mod, Zenon
  <2> QED
    BY <1>1, <2>2
<1>2. CASE s + j >= b
  <2>1. ~(s + j < b) /\ s + j \in Int /\ s + j \in b..2*b-1
    BY <1>2
  <2>2. (s + j) % b = (s + j) - b
    BY <2>1, Mod, Zenon
  <2> QED
    BY <2>1, <2>2
<1> QED
  BY <1>1, <1>2

(* The way from one slot forward to another. *)
LEMMA Distance ==
    ASSUME NEW b \in Nat \ {0}, NEW h \in 0..b-1, NEW t \in 0..b-1
    PROVE  (h - t) % b = IF h >= t THEN h - t ELSE h - t + b
<1>1. CASE h >= t
  <2>1. h - t \in 0..b-1
    BY <1>1
  <2> QED
    BY <1>1, <2>1, Mod
<1>2. CASE h < t
  <2>1. ~(h >= t) /\ h - t \in Int /\ h - t \in -b..-1
    BY <1>2
  <2>2. (h - t) % b = (h - t) + b
    BY <2>1, Mod, Zenon
  <2> QED
    BY <2>1, <2>2
<1> QED
  BY <1>1, <1>2

(* Where the slots of the ring are, and how many hold a key. *)
LEMMA Ring ==
    ASSUME TypeOK
    PROVE  /\ Waiting \in 0..BUFFER-1
           /\ Waiting = IF kbd_head >= kbd_tail THEN kbd_head - kbd_tail
                        ELSE kbd_head - kbd_tail + BUFFER
           /\ \A k \in 0..BUFFER-1 :
                 /\ Slot(k) \in 0..BUFFER-1
                 /\ Slot(k) = IF kbd_tail + k < BUFFER THEN kbd_tail + k
                              ELSE kbd_tail + k - BUFFER
                 /\ Empty(k) <=> k = Waiting
           /\ next_head \in 0..BUFFER-1
           /\ next_head = IF kbd_head + 1 < BUFFER THEN kbd_head + 1 ELSE 0
           /\ RingFull <=> Waiting = BUFFER - 1
<1> DEFINE h == kbd_head
           t == kbd_tail
<1>0. h \in 0..BUFFER-1 /\ t \in 0..BUFFER-1 /\ BUFFER \in Nat \ {0} /\ BUFFER > 1
  BY KeyboardAssumption DEF TypeOK
<1>1. Waiting = IF h >= t THEN h - t ELSE h - t + BUFFER
  BY <1>0, Distance DEF Waiting
<1>2. ASSUME NEW k \in 0..BUFFER-1
      PROVE  Slot(k) = IF t + k < BUFFER THEN t + k ELSE t + k - BUFFER
  BY <1>0, Mod DEF Slot
<1>3. next_head = IF h + 1 < BUFFER THEN h + 1 ELSE 0
  BY <1>0, Mod DEF next_head
<1>4. ASSUME NEW k \in 0..BUFFER-1
      PROVE  Slot(k) \in 0..BUFFER-1 /\ (Empty(k) <=> k = Waiting)
  <2> HIDE DEF h, t
  <2>1. Empty(k) <=> Slot(k) = h
    BY DEF Empty, h
  <2> QED
    BY <1>0, <1>1, <1>2, <2>1
<1>5. RingFull <=> next_head = t
  BY DEF RingFull
<1> HIDE DEF h, t
<1>6. RingFull <=> Waiting = BUFFER - 1
  BY <1>0, <1>1, <1>3, <1>5
<1>7. Waiting \in 0..BUFFER-1 /\ next_head \in 0..BUFFER-1
  BY <1>0, <1>1, <1>3
<1> QED
  BY <1>1, <1>2, <1>3, <1>4, <1>6, <1>7 DEF h, t

(* A key that is stored comes behind those that wait, and leaves them as they are. *)
LEMMA Stored ==
    ASSUME IInv, ~RingFull, NEW c \in Keys,
           kbd_buffer' = [kbd_buffer EXCEPT ![kbd_head] = c],
           kbd_head' = next_head, kbd_tail' = kbd_tail
    PROVE  /\ kbd_buffer' \in [0..BUFFER-1 -> Keys \cup {NoKey}]
           /\ kbd_head' \in 0..BUFFER-1
           /\ Waiting < BUFFER - 1
           /\ Waiting' = Waiting + 1
           /\ \A k \in 0..Waiting-1 : Key(k)' = Key(k)
           /\ \A k \in 0..Waiting : k = Waiting => Key(k)' = c
<1>1. TypeOK /\ BUFFER \in Nat \ {0} /\ BUFFER > 1
  BY KeyboardAssumption DEF IInv
<1>2. kbd_head \in 0..BUFFER-1 /\ kbd_tail \in 0..BUFFER-1
  BY <1>1 DEF TypeOK
<1>3. Waiting \in 0..BUFFER-2 /\ next_head \in 0..BUFFER-1
  BY <1>1, Ring
<1>4. Waiting' = Waiting + 1
  <2>1. next_head = IF kbd_head + 1 < BUFFER THEN kbd_head + 1 ELSE 0
    BY <1>1, Ring
  <2>2. Waiting = IF kbd_head >= kbd_tail THEN kbd_head - kbd_tail
                  ELSE kbd_head - kbd_tail + BUFFER
    BY <1>1, Ring
  <2>3. Waiting' = (next_head - kbd_tail) % BUFFER
    BY DEF Waiting
  <2>4. (next_head - kbd_tail) % BUFFER = IF next_head >= kbd_tail THEN next_head - kbd_tail
                                          ELSE next_head - kbd_tail + BUFFER
    BY <1>1, <1>2, <1>3, Distance
  <2>5. next_head # kbd_tail
    BY DEF RingFull
  <2> QED
    BY <1>1, <1>2, <1>3, <2>1, <2>2, <2>3, <2>4, <2>5
<1>5. \A k : Slot(k)' = Slot(k)
  BY DEF Slot
<1>6. ASSUME NEW k \in 0..BUFFER-1
      PROVE  Slot(k) \in 0..BUFFER-1 /\ (Slot(k) = kbd_head <=> k = Waiting)
  BY <1>1, Ring DEF Empty
<1>7. \A k : Key(k)' = kbd_buffer'[Slot(k)]
  BY <1>5 DEF Key
<1>8. kbd_buffer \in [0..BUFFER-1 -> Keys \cup {NoKey}]
  BY <1>1 DEF TypeOK
<1>9. ASSUME NEW k \in 0..Waiting-1
      PROVE  Key(k)' = Key(k)
  <2>1. k \in 0..BUFFER-1 /\ k # Waiting
    BY <1>1, <1>3
  <2> QED
    BY <1>6, <1>7, <1>8, <2>1 DEF Key
<1>10. ASSUME NEW k \in 0..Waiting, k = Waiting
       PROVE  Key(k)' = c
  <2>1. k \in 0..BUFFER-1
    BY <1>1, <1>3
  <2>2. Slot(k) = kbd_head
    BY <1>6, <1>10, <2>1
  <2> QED
    BY <1>2, <1>7, <1>8, <2>2
<1>11. kbd_buffer' \in [0..BUFFER-1 -> Keys \cup {NoKey}]
  BY <1>2, <1>8
<1> QED
  BY <1>1, <1>3, <1>4, <1>9, <1>10, <1>11

(* Reading k of the keys that wait leaves the others in their order. *)
LEMMA Taken ==
    ASSUME IInv, NEW k \in 0..Waiting,
           kbd_tail' = Slot(k), UNCHANGED <<kbd_buffer, kbd_head>>
    PROVE  /\ kbd_tail' \in 0..BUFFER-1
           /\ Waiting' = Waiting - k
           /\ \A j \in 0..Waiting-k-1 : Key(j)' = Key(j + k)
<1>1. TypeOK /\ BUFFER \in Nat \ {0} /\ BUFFER > 1
  BY KeyboardAssumption DEF IInv
<1>2. kbd_head \in 0..BUFFER-1 /\ kbd_tail \in 0..BUFFER-1 /\ Waiting \in 0..BUFFER-1
  BY <1>1, Ring, SMTT(30) DEF TypeOK
<1>3. k \in 0..BUFFER-1
  BY <1>1, <1>2
<1>4. /\ Slot(k) \in 0..BUFFER-1
      /\ Slot(k) = IF kbd_tail + k < BUFFER THEN kbd_tail + k ELSE kbd_tail + k - BUFFER
  BY <1>1, <1>3, Ring
<1>5. Waiting' = Waiting - k
  <2>1. Waiting' = (kbd_head - Slot(k)) % BUFFER
    BY DEF Waiting
  <2>2. (kbd_head - Slot(k)) % BUFFER = IF kbd_head >= Slot(k) THEN kbd_head - Slot(k)
                                        ELSE kbd_head - Slot(k) + BUFFER
    BY <1>1, <1>2, <1>4, Distance, Zenon
  <2>3. Waiting = IF kbd_head >= kbd_tail THEN kbd_head - kbd_tail
                  ELSE kbd_head - kbd_tail + BUFFER
    BY <1>1, Ring
  <2>4. k <= Waiting
    BY <1>2
  <2> QED
    BY <1>1, <1>2, <1>3, <1>4, <2>1, <2>2, <2>3, <2>4
<1>6. ASSUME NEW j \in 0..Waiting-k-1
      PROVE  Key(j)' = Key(j + k)
  <2>1. j \in 0..BUFFER-1 /\ j + k \in 0..BUFFER-1
    BY <1>1, <1>2, <1>3
  <2>2. Slot(j)' = (Slot(k) + j) % BUFFER
    BY DEF Slot
  <2>3. Slot(j + k) = IF kbd_tail + (j + k) < BUFFER THEN kbd_tail + (j + k)
                      ELSE kbd_tail + (j + k) - BUFFER
    BY <1>1, <2>1, Ring
  <2>4. (Slot(k) + j) % BUFFER = IF Slot(k) + j < BUFFER THEN Slot(k) + j
                                 ELSE Slot(k) + j - BUFFER
    BY <1>1, <1>4, <2>1, Forward, Zenon
  <2>5. Slot(j)' = Slot(j + k)
    BY <1>1, <1>2, <1>3, <1>4, <2>1, <2>2, <2>3, <2>4
  <2> QED
    BY <2>5 DEF Key
<1> QED
  BY <1>4, <1>5, <1>6

(* SYS_READ takes no more keys than wait, and stops where KeyboardSpec says. *)
LEMMA ReadStops ==
    ASSUME IInv, NEW count \in Counts, NEW k \in 0..count, Stops(k, count),
           \A j \in 0..k-1 : ~Stops(j, count)
    PROVE  /\ k \in 0..Waiting
           /\ k = count \/ k = Waiting \/ (k > 0 /\ Key(k - 1) = Newline)
           /\ \A i \in 1..k-1 : Key(i - 1) # Newline
<1>1. count \in Nat /\ BUFFER \in Nat \ {0} /\ TypeOK
  BY KeyboardAssumption DEF IInv
<1>2. Waiting \in 0..BUFFER-1
  BY <1>1, Ring
<1>3. k \in 0..Waiting
  <2> SUFFICES ASSUME k > Waiting
               PROVE  FALSE
    BY <1>1, <1>2
  <2>1. Waiting \in 0..k-1
    BY <1>1, <1>2
  <2>2. Empty(Waiting)
    BY <1>1, <1>2, Ring
  <2> QED
    BY <2>1, <2>2 DEF Stops
<1>4. Empty(k) => k = Waiting
  BY <1>1, <1>2, <1>3, Ring
<1>5. ASSUME NEW i \in 1..k-1
      PROVE  Key(i - 1) # Newline
  <2>1. i \in 0..k-1 /\ i > 0
    BY <1>1
  <2> QED
    BY <2>1 DEF Stops
<1> QED
  BY <1>3, <1>4, <1>5 DEF Stops

(* The characters the table and the arrows stand for. *)
LEMMA DecodedIsKey ==
    ASSUME NEW scancode \in Presses, Decoded(scancode) # NoKey
    PROVE  Decoded(scancode) \in Keys
  BY DEF Decoded, Presses, scancode_ascii, Keys, NoKey, Newline

(* The invariant is inductive. *)
LEMMA Inductive ==
    ASSUME IInv, [Next]_vars
    PROVE  IInv'
<1>0. TypeOK /\ PrefixIsShort /\ SlotsFilled
  BY DEF IInv
<1>1. ASSUME NEW scancode \in Scancodes, keyboard_handler(scancode)
      PROVE  IInv'
  <2>1. /\ is_e0_prefix' = PrefixAfter(scancode) /\ last' = scancode
        /\ kbd_tail' = kbd_tail /\ result' = result
    BY <1>1 DEF keyboard_handler
  <2>2. is_e0_prefix' \in {0, 1} /\ last' \in Scancodes /\ PrefixIsShort'
    BY <2>1 DEF PrefixAfter, PrefixIsShort
  <2>3. CASE scancode \in Presses /\ Decoded(scancode) # NoKey /\ ~RingFull
    <3> DEFINE c == Decoded(scancode)
    <3>1. /\ c \in Keys /\ kbd_head' = next_head
          /\ kbd_buffer' = [kbd_buffer EXCEPT ![kbd_head] = c]
      BY <1>1, <2>3, DecodedIsKey DEF keyboard_handler
    <3> HIDE DEF c
    <3>2. /\ kbd_buffer' \in [0..BUFFER-1 -> Keys \cup {NoKey}]
          /\ kbd_head' \in 0..BUFFER-1 /\ Waiting' = Waiting + 1
          /\ \A k \in 0..Waiting-1 : Key(k)' = Key(k)
          /\ \A k \in 0..Waiting : k = Waiting => Key(k)' = c
      BY <2>1, <2>3, <3>1, Stored, Zenon
    <3>3. Waiting \in Nat
      BY <1>0, Ring, KeyboardAssumption
    <3>4. \A k \in 0..Waiting : Key(k)' \in Keys
      BY <1>0, <3>1, <3>2, <3>3 DEF SlotsFilled
    <3>5. SlotsFilled'
      BY <3>2, <3>3, <3>4 DEF SlotsFilled
    <3> QED
      BY <1>0, <2>1, <2>2, <3>2, <3>5 DEF IInv, TypeOK
  <2>4. CASE UNCHANGED <<kbd_buffer, kbd_head>>
    BY <1>0, <2>1, <2>2, <2>4 DEF IInv, TypeOK, SlotsFilled, Waiting, Key, Slot
  <2> QED
    BY <1>1, <2>3, <2>4 DEF keyboard_handler
<1>2. ASSUME NEW count \in Counts, SYS_READ(count)
      PROVE  IInv'
  <2>1. PICK k \in 0..count :
            /\ Stops(k, count) /\ \A j \in 0..k-1 : ~Stops(j, count)
            /\ result' = [i \in 1..k |-> Key(i - 1)]
            /\ kbd_tail' = Slot(k)
            /\ UNCHANGED <<kbd_buffer, kbd_head, is_e0_prefix, last>>
    BY <1>2 DEF SYS_READ
  <2>2. k \in 0..Waiting
    BY <2>1, ReadStops
  <2>3. /\ kbd_tail' \in 0..BUFFER-1 /\ Waiting' = Waiting - k
        /\ \A j \in 0..Waiting-k-1 : Key(j)' = Key(j + k)
    BY <2>1, <2>2, Taken
  <2>4. Waiting \in Nat /\ k \in Nat /\ k <= Waiting
    BY <1>0, <2>2, Ring, KeyboardAssumption
  <2>5. result' \in Seq(Keys)
    <3>1. \A i \in 1..k : Key(i - 1) \in Keys
      BY <1>0, <2>4 DEF SlotsFilled
    <3> QED
      BY <2>1, <2>4, <3>1
  <2>6. SlotsFilled'
    <3> SUFFICES ASSUME NEW j \in 0..Waiting'-1
                 PROVE  Key(j)' \in Keys
      BY DEF SlotsFilled
    <3>1. j \in 0..Waiting-k-1 /\ j + k \in 0..Waiting-1
      BY <2>3, <2>4
    <3> QED
      BY <1>0, <2>3, <3>1 DEF SlotsFilled
  <2> QED
    BY <1>0, <2>1, <2>3, <2>5, <2>6 DEF IInv, TypeOK, PrefixIsShort
<1>3. CASE UNCHANGED vars
  BY <1>0, <1>3 DEF vars, IInv, TypeOK, PrefixIsShort, SlotsFilled, Waiting, Key, Slot
<1> QED
  BY <1>1, <1>2, <1>3 DEF Next

(* The invariant holds from the start. *)
THEOREM Invariance == Spec => []IInv
<1>1. Init => IInv
  <2> SUFFICES ASSUME Init
               PROVE  IInv
    OBVIOUS
  <2>1. TypeOK
    BY KeyboardAssumption DEF Init, TypeOK, Scancodes
  <2>2. Waiting = 0
    BY <2>1, Ring, KeyboardAssumption DEF Init
  <2> QED
    BY <2>1, <2>2 DEF Init, IInv, PrefixIsShort, SlotsFilled
<1> QED
  BY <1>1, Inductive, PTL DEF Spec

(* The indices stay in the ring, and reads return keys only. *)
THEOREM TypeCorrect == Spec => []TypeOK
  BY Invariance, PTL DEF IInv

(* A prefix concerns the very next scancode only. *)
THEOREM PrefixIsShortHolds == Spec => []PrefixIsShort
  BY Invariance, PTL DEF IInv

(* Every step on the ring is a step of the queue of KeyboardSpec, or leaves it alone. *)
LEMMA StepIsQueueStep ==
    ASSUME IInv, [Next]_vars
    PROVE  [Queue!QueueNext]_(Queue!queueVars)
<1> DEFINE q == [i \in 1..Waiting |-> Key(i - 1)]
<1>0. TypeOK /\ Waiting \in Nat
  BY Ring, KeyboardAssumption DEF IInv
<1>1. Len(q) = Waiting /\ q \in Seq(Keys)
  <2>1. \A i \in 1..Waiting : Key(i - 1) \in Keys
    BY <1>0 DEF IInv, SlotsFilled
  <2> QED
    BY <1>0, <2>1
<1>2. CASE UNCHANGED <<kbd_buffer, kbd_head, kbd_tail, result>>
  BY <1>2 DEF Queue!queueVars, Waiting, Key, Slot
<1>3. ASSUME NEW scancode \in Scancodes, keyboard_handler(scancode),
             scancode \in Presses, Decoded(scancode) # NoKey, ~RingFull
      PROVE  Queue!QueueNext
  <2> DEFINE c == Decoded(scancode)
  <2>1. /\ c \in Keys /\ kbd_head' = next_head
        /\ kbd_buffer' = [kbd_buffer EXCEPT ![kbd_head] = c]
        /\ kbd_tail' = kbd_tail /\ result' = result
    BY <1>3, DecodedIsKey DEF keyboard_handler
  <2> HIDE DEF c
  <2>2. /\ Waiting < BUFFER - 1 /\ Waiting' = Waiting + 1
        /\ \A k \in 0..Waiting-1 : Key(k)' = Key(k)
        /\ \A k \in 0..Waiting : k = Waiting => Key(k)' = c
    BY <1>3, <2>1, Stored, Zenon
  <2>3. q' = Append(q, c)
    <3>1. q' = [i \in 1..Waiting+1 |-> Key(i - 1)']
      BY <2>2
    <3>2. Append(q, c) = [i \in 1..Waiting+1 |-> IF i = Waiting + 1 THEN c ELSE q[i]]
      BY <1>0, <1>1
    <3>3. ASSUME NEW i \in 1..Waiting+1
          PROVE  Key(i - 1)' = IF i = Waiting + 1 THEN c ELSE q[i]
      BY <1>0, <2>2
    <3> QED
      BY <3>1, <3>2, <3>3, Zenon
  <2>4. Queue!Press(c)
    BY <1>1, <2>1, <2>2, <2>3, Zenon DEF Queue!Press
  <2> QED
    BY <2>1, <2>4 DEF Queue!QueueNext
<1>4. ASSUME NEW count \in Counts, SYS_READ(count)
      PROVE  Queue!QueueNext
  <2>1. PICK k \in 0..count :
            /\ Stops(k, count) /\ \A j \in 0..k-1 : ~Stops(j, count)
            /\ result' = [i \in 1..k |-> Key(i - 1)]
            /\ kbd_tail' = Slot(k)
            /\ UNCHANGED <<kbd_buffer, kbd_head>>
    BY <1>4 DEF SYS_READ
  <2>2. /\ k \in 0..Waiting
        /\ k = count \/ k = Waiting \/ (k > 0 /\ Key(k - 1) = Newline)
        /\ \A i \in 1..k-1 : Key(i - 1) # Newline
    BY <2>1, ReadStops
  <2>3. /\ Waiting' = Waiting - k
        /\ \A j \in 0..Waiting-k-1 : Key(j)' = Key(j + k)
    BY <2>1, <2>2, Taken
  <2>4. k \in Nat /\ k <= Waiting
    BY <1>0, <2>2
  <2>5. result' = SubSeq(q, 1, k)
    <3>1. SubSeq(q, 1, k) = [i \in 1..k |-> q[i]]
      BY <1>0, <1>1, <2>4
    <3> QED
      BY <1>0, <2>1, <2>4, <3>1
  <2>6. q' = SubSeq(q, k + 1, Len(q))
    <3>1. SubSeq(q, k + 1, Len(q)) = [i \in 1..Waiting-k |-> q[i + k]]
      BY <1>0, <1>1, <2>4
    <3>2. q' = [i \in 1..Waiting-k |-> Key(i - 1)']
      BY <2>3
    <3>3. ASSUME NEW i \in 1..Waiting-k
          PROVE  Key(i - 1)' = q[i + k]
      <4>1. i - 1 \in 0..Waiting-k-1 /\ i + k \in 1..Waiting /\ (i - 1) + k = (i + k) - 1
        BY <1>0, <2>4
      <4> QED
        BY <2>3, <4>1
    <3> QED
      BY <3>1, <3>2, <3>3, Zenon
  <2>7. \A i \in 1..k : q[i] = Key(i - 1)
    BY <1>0, <2>4
  <2> HIDE DEF q
  <2>8. /\ k = count \/ k = Len(q) \/ (k > 0 /\ q[k] = Newline)
        /\ \A i \in 1..k-1 : q[i] # Newline
    BY <1>1, <2>2, <2>4, <2>7
  <2>9. k <= Len(q)
    BY <1>1, <2>4
  <2> USE DEF q
  <2>10. Queue!Read(count, k)
    BY <2>5, <2>6, <2>8, Zenon DEF Queue!Read
  <2> QED
    BY <2>9, <2>10, Zenon DEF Queue!QueueNext
<1>5. ASSUME NEW scancode \in Scancodes, keyboard_handler(scancode)
      PROVE  \/ scancode \in Presses /\ Decoded(scancode) # NoKey /\ ~RingFull
             \/ UNCHANGED <<kbd_buffer, kbd_head, kbd_tail, result>>
  BY <1>5 DEF keyboard_handler
<1> QED
  BY <1>2, <1>3, <1>4, <1>5 DEF Next, vars

(* The ring implements the queue. *)
THEOREM Refinement == Spec => IsQueue
<1>1. Init => Queue!QueueInit
  <2> SUFFICES ASSUME Init
               PROVE  Queue!QueueInit
    OBVIOUS
  <2>1. Waiting = 0
    <3>1. TypeOK
      BY KeyboardAssumption DEF Init, TypeOK, Scancodes
    <3> QED
      BY <3>1, Ring, KeyboardAssumption DEF Init
  <2> QED
    BY <2>1 DEF Init, Queue!QueueInit
<1> QED
  BY <1>1, StepIsQueueStep, Invariance, PTL DEF Spec, IsQueue, Queue!QueueSpec
=============================================================================
