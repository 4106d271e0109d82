----------------------------- MODULE DeviceProofs -----------------------------
(***************************************************************************)
(* pit_sleep never returns early, for every word size, rate and delay, as  *)
(* long as neither its product nor the low word of the counter wraps; and  *)
(* the disk driver implements AtaSpec for every set of sectors, contents   *)
(* and connected drives.                                                   *)
(***************************************************************************)
EXTENDS Pit, Ata, TLAPS

(* A counter is its two words. *)
LEMMA Words ==
    ASSUME NEW t \in Nat
    PROVE  /\ High(t) \in Nat /\ Low(t) \in Nat
           /\ High(t) * WORD \in Nat
           /\ t = High(t) * WORD + Low(t)
<1>1. ASSUME NEW n \in Nat, NEW d \in Nat \ {0}
      PROVE  n \div d \in Nat /\ n % d \in Nat /\ n = (n \div d) * d + (n % d)
  BY <1>1
<1>2. ASSUME NEW a \in Nat, NEW d \in Nat
      PROVE  a * d \in Nat
  BY <1>2
<1> QED
  BY <1>1, <1>2, PitAssumption DEF High, Low

(* While the high word stays the same, the low word counts. *)
LEMMA SameHigh ==
    ASSUME NEW s \in Nat, NEW t \in Nat, s <= t, High(s) = High(t)
    PROVE  Low(s) <= Low(t) /\ t - s = Low(t) - Low(s)
<1>1. s = High(t) * WORD + Low(s) /\ t = High(t) * WORD + Low(t)
  BY Words
<1>2. High(t) * WORD \in Nat /\ Low(s) \in Nat /\ Low(t) \in Nat
  BY Words
<1> QED
  BY <1>1, <1>2

(* The ticks a delay stands for. *)
LEMMA SleepTicksNat ==
    ASSUME NEW ms \in Nat
    PROVE  /\ SleepTicks(ms) \in Nat
           /\ ms * RATE < WORD => SleepTicks(ms) = (ms * RATE) \div SECOND
<1>1. ms * RATE \in Nat /\ WORD \in Nat \ {0} /\ SECOND \in Nat \ {0}
  BY PitAssumption
<1>2. ASSUME NEW n \in Nat
      PROVE  /\ (n % WORD) \div SECOND \in Nat
             /\ n < WORD => n % WORD = n
  BY <1>1, <1>2
<1> QED
  BY <1>1, <1>2 DEF SleepTicks

(* Without a wrap a read of pit_ticks returns a value the counter had between the call
   and now. *)
LEMMA ReadBetween ==
    ASSUME PitInv, pc # "out", ~carried, half # NoHalf
    PROVE  ReadTicks \in Nat /\ Start <= ReadTicks /\ ReadTicks <= pit_ticks
<1> USE DEF PitInv, PitTypeOK
<1> DEFINE h == half[2]
           base == High(pit_ticks) * WORD
<1>1. pit_ticks \in Nat /\ Start \in Nat /\ Start <= pit_ticks /\ h \in Nat
  BY PitAssumption DEF Start
<1>2. /\ base \in Nat /\ Low(pit_ticks) \in Nat /\ Low(Start) \in Nat
      /\ pit_ticks = base + Low(pit_ticks)
  BY <1>1, Words, Zenon
<1>3. Start = base + Low(Start)
  BY <1>1, <1>2, Words DEF HalfRight
<1>4. CASE half[1] = "low"
  <2>1. ReadTicks = base + h
    BY <1>4 DEF ReadTicks
  <2>2. Low(Start) <= h /\ h <= Low(pit_ticks)
    BY <1>4 DEF HalfRight
  <2> HIDE DEF base, h
  <2> QED
    BY <1>1, <1>2, <1>3, <2>1, <2>2
<1>5. CASE half[1] = "high"
  <2>1. ReadTicks = base + Low(pit_ticks)
    BY <1>5 DEF ReadTicks, HalfRight
  <2> HIDE DEF base, h
  <2> QED
    BY <1>1, <1>2, <1>3, <2>1
<1> QED
  BY <1>4, <1>5

(* A read is a natural number, torn or not. *)
LEMMA ReadNat ==
    ASSUME PitTypeOK
    PROVE  ReadTicks \in Nat
<1>1. pit_ticks \in Nat /\ half[2] \in Nat /\ WORD \in Nat
  BY PitAssumption DEF PitTypeOK
<1>2. ASSUME NEW a \in Nat, NEW b \in Nat
      PROVE  a * WORD + b \in Nat
  BY <1>1, <1>2
<1> QED
  BY <1>1, <1>2, Words, Zenon DEF ReadTicks
(* Ticks that are counted since the call leave the time of the call where it was. *)
LEMMA Shift ==
    ASSUME NEW e \in Nat, NEW s \in Nat, NEW t \in Nat, NEW max \in Nat,
           e <= s, s <= t, t <= max
    PROVE  /\ e + (t - s) \in 0..max /\ e + (t - s) <= t
           /\ t - (e + (t - s)) = s - e
  OBVIOUS

(* The invariant is inductive. *)
LEMMA PitInductive ==
    ASSUME PitInv, [PitNext]_pitVars
    PROVE  PitInv'
<1> USE DEF PitInv, PitTypeOK
<1>0. /\ pit_ticks \in Nat /\ elapsed \in Nat /\ MaxTicks \in Nat
      /\ Start \in Nat /\ Start <= pit_ticks /\ elapsed <= pit_ticks
  BY PitAssumption DEF Start
<1>1. CASE pit_handler
  <2>1. /\ pit_ticks' \in 0..MaxTicks /\ pit_ticks <= pit_ticks'
        /\ elapsed' = IF pc = "out" THEN 0 ELSE elapsed + (pit_ticks' - pit_ticks)
        /\ pc' = IF pc = "hlt" THEN "test" ELSE pc
        /\ UNCHANGED <<half, target, delay>>
    BY <1>0, <1>1 DEF pit_handler
  <2>2. carried' = (pc # "out" /\ (carried \/ High(pit_ticks') # High(pit_ticks)))
    BY <1>1 DEF pit_handler
  <2>3. carried' \in BOOLEAN
    BY <2>2
  <2>4. elapsed' \in 0..MaxTicks /\ elapsed' <= pit_ticks'
    <3>1. CASE pc = "out"
      BY <1>0, <2>1, <3>1
    <3>2. CASE pc # "out"
      <4>1. elapsed' = elapsed + (pit_ticks' - pit_ticks)
        BY <2>1, <3>2
      <4>2. pit_ticks' \in Nat /\ pit_ticks <= pit_ticks' /\ pit_ticks' <= MaxTicks
        BY <1>0, <2>1
      <4>3. /\ elapsed + (pit_ticks' - pit_ticks) \in 0..MaxTicks
            /\ elapsed + (pit_ticks' - pit_ticks) <= pit_ticks'
        BY <1>0, <4>2, Shift, Zenon
      <4> QED
        BY <4>1, <4>3
    <3> QED
      BY <3>1, <3>2
  <2>5. PitTypeOK'
    BY <2>1, <2>3, <2>4, Zenon
  <2>6. pc # "out" => Start' = Start
    <3> SUFFICES ASSUME pc # "out"
                 PROVE  Start' = Start
      OBVIOUS
    <3>1. /\ elapsed' = elapsed + (pit_ticks' - pit_ticks)
          /\ pit_ticks' \in Nat /\ pit_ticks <= pit_ticks' /\ pit_ticks' <= MaxTicks
      BY <1>0, <2>1
    <3>2. pit_ticks' - elapsed' = pit_ticks - elapsed
      BY <1>0, <3>1, Shift, Zenon
    <3> QED
      BY <3>2 DEF Start
  <2>7. HalfRight'
    <3> SUFFICES ASSUME pc' # "out", ~carried'
                 PROVE  /\ High(Start') = High(pit_ticks')
                        /\ half'[1] = "low" =>
                              Low(Start') <= half'[2] /\ half'[2] <= Low(pit_ticks')
                        /\ half'[1] = "high" => half'[2] = High(pit_ticks')
      BY DEF HalfRight, High, Low
    <3>1. pc # "out" /\ ~carried /\ High(pit_ticks') = High(pit_ticks)
      BY <2>1, <2>2, Zenon
    <3>2. pit_ticks' \in Nat /\ Low(pit_ticks) <= Low(pit_ticks')
      BY <1>0, <2>1, <3>1, SameHigh
    <3>3. Low(pit_ticks) \in Nat /\ Low(pit_ticks') \in Nat /\ half[2] \in Nat
      BY <1>0, <3>2, Words
    <3> QED
      BY <2>1, <2>6, <3>1, <3>2, <3>3 DEF HalfRight
  <2>8. TargetRight'
    BY <2>1, <2>2, <2>6 DEF TargetRight, SleepTicks
  <2> QED
    BY <2>1, <2>4, <2>5, <2>7, <2>8, Zenon DEF NoHalf
<1>2. CASE OtherIrq
  BY <1>2 DEF OtherIrq, HalfRight, TargetRight, Start, SleepTicks, High, Low, NoHalf
<1>3. ASSUME NEW ms \in Delays, Enter(ms)
      PROVE  PitInv'
  <2>1. /\ pc' = "start" /\ half' = NoHalf /\ delay' = ms /\ target' = 0
        /\ elapsed' = 0 /\ carried' = FALSE /\ pit_ticks' = pit_ticks
    BY <1>3 DEF Enter
  <2>2. Start' = pit_ticks'
    BY <1>0, <2>1 DEF Start
  <2>3. HalfRight' /\ TargetRight'
    BY <2>1, <2>2 DEF HalfRight, TargetRight, NoHalf, High, Low
  <2>4. carried' \in BOOLEAN
    BY <2>1, Zenon
  <2>5. PitTypeOK'
    BY <1>0, <2>1, <2>4 DEF NoHalf
  <2> QED
    BY <1>0, <2>1, <2>3, <2>5
<1>4. CASE LoadHalf
  <2>1. /\ pc # "out" /\ half' \in {<<"low", Low(pit_ticks)>>, <<"high", High(pit_ticks)>>}
        /\ UNCHANGED <<pit_ticks, pc, target, delay, elapsed, carried>>
    BY <1>4 DEF LoadHalf
  <2>2. Low(pit_ticks) \in Nat /\ High(pit_ticks) \in Nat
    BY <1>0, Words, Zenon
  <2>3. half'[1] \in {"low", "high"} /\ half' \in {"none", "low", "high"} \X Nat
    BY <2>1, <2>2
  <2>4. Start' = Start
    BY <2>1 DEF Start
  <2>5. HalfRight'
    <3> SUFFICES ASSUME ~carried
                 PROVE  /\ High(Start) = High(pit_ticks)
                        /\ half'[1] = "low" =>
                              Low(Start) <= half'[2] /\ half'[2] <= Low(pit_ticks)
                        /\ half'[1] = "high" => half'[2] = High(pit_ticks)
      BY <2>1, <2>4 DEF HalfRight, High, Low
    <3>1. High(Start) = High(pit_ticks)
      BY <2>1 DEF HalfRight
    <3>2. Low(Start) <= Low(pit_ticks)
      BY <1>0, <3>1, SameHigh
    <3> QED
      BY <2>1, <2>2, <3>1, <3>2
  <2>6. TargetRight'
    BY <2>1, <2>4 DEF TargetRight, SleepTicks
  <2> QED
    BY <2>1, <2>3, <2>5, <2>6
<1>5. CASE SetTarget
  <2>1. /\ pc = "start" /\ half # NoHalf /\ pc' = "test" /\ half' = NoHalf
        /\ target' = ReadTicks + SleepTicks(delay)
        /\ UNCHANGED <<pit_ticks, delay, elapsed, carried>>
    BY <1>5 DEF SetTarget
  <2>2. SleepTicks(delay) \in Nat /\ delay \in Nat
    BY SleepTicksNat, PitAssumption
  <2>3. target' \in Nat
    BY <2>1, <2>2, ReadNat
  <2>4. Start' = Start /\ SleepTicks(delay)' = SleepTicks(delay)
    BY <2>1 DEF Start, SleepTicks
  <2>5. HalfRight'
    BY <2>1, <2>4 DEF HalfRight, NoHalf, High, Low
  <2>6. TargetRight'
    <3>1. ~carried => ReadTicks \in Nat /\ Start <= ReadTicks
      BY <2>1, ReadBetween
    <3>2. ~carried => target' >= Start + SleepTicks(delay)
      BY <1>0, <2>1, <2>2, <3>1
    <3> QED
      BY <2>1, <2>4, <3>2 DEF TargetRight
  <2> QED
    BY <2>1, <2>3, <2>5, <2>6 DEF NoHalf
<1>6. CASE GoOn
  <2>1. /\ pc = "test" /\ pc' \in {"hlt", "out"} /\ half' = NoHalf
        /\ UNCHANGED <<pit_ticks, target, delay, elapsed, carried>>
    BY <1>6 DEF GoOn
  <2> QED
    BY <2>1 DEF HalfRight, TargetRight, Start, SleepTicks, NoHalf, High, Low
<1>7. CASE UNCHANGED pitVars
  BY <1>7 DEF pitVars, sleeper, HalfRight, TargetRight, Start, SleepTicks, NoHalf, High, Low
<1> QED
  BY <1>1, <1>2, <1>3, <1>4, <1>5, <1>6, <1>7 DEF PitNext, Sleeper

(* The invariant holds from the start of the clock. *)
THEOREM PitInvariance == PitSpec => []PitInv
<1>1. PitInit => PitInv
  <2> SUFFICES ASSUME PitInit
               PROVE  PitInv
    OBVIOUS
  <2>1. carried \in BOOLEAN
    BY Zenon DEF PitInit
  <2>2. PitTypeOK
    BY <2>1, PitAssumption DEF PitInit, PitTypeOK, NoHalf
  <2> QED
    BY <2>2 DEF PitInit, PitInv, HalfRight, TargetRight
<1> QED
  BY <1>1, PitInductive, PTL DEF PitSpec

(* The counter and the state of the sleeper keep their types. *)
THEOREM PitTypeCorrect == PitSpec => []PitTypeOK
  BY PitInvariance, PTL DEF PitInv

(* pit_sleep does not return before the ticks its milliseconds stand for have come. *)
THEOREM SleepLastsHolds == PitSpec => SleepLasts
<1> DEFINE Returns == pc = "test" /\ pc' = "out" /\ delay * RATE < WORD /\ ~carried
           Lasts == Returns => elapsed >= (delay * RATE) \div SECOND
<1>1. PitInv /\ [PitNext]_pitVars => [Lasts]_pitVars
  <2> SUFFICES ASSUME PitInv, PitNext, Returns
               PROVE  elapsed >= (delay * RATE) \div SECOND
    OBVIOUS
  <2>1. GoOn
    BY DEF PitNext, pit_handler, OtherIrq, Enter, Sleeper, LoadHalf, SetTarget
  <2>2. ~(ReadTicks < target) /\ half # NoHalf
    BY <2>1 DEF GoOn, Before
  <2>3. ReadTicks \in Nat /\ ReadTicks <= pit_ticks
    BY <2>2, ReadBetween
  <2>4. target >= Start + SleepTicks(delay)
    BY DEF PitInv, TargetRight
  <2>5. delay \in Nat /\ target \in Nat /\ pit_ticks \in Nat /\ elapsed \in Nat
    BY PitAssumption DEF PitInv, PitTypeOK
  <2>6. SleepTicks(delay) \in Nat /\ SleepTicks(delay) = (delay * RATE) \div SECOND
    BY <2>5, SleepTicksNat
  <2> QED
    BY <2>2, <2>3, <2>4, <2>5, <2>6 DEF Start
<1> QED
  BY <1>1, PitInvariance, PTL DEF PitSpec, SleepLasts

-----------------------------------------------------------------------------

(* The scan of ata_identify goes over the four drives. *)
LEMMA Scan ==
    ASSUME probe \in 0..4, probe < 4
    PROVE  /\ probe \div 2 \in {0, 1} /\ probe % 2 \in {0, 1}
           /\ NextProbe(TRUE) = 4 /\ NextProbe(FALSE) \in 0..4
<1>1. probe \in {0, 1, 2, 3}
  OBVIOUS
<1> QED
  BY <1>1 DEF NextProbe

(* The invariant is inductive. *)
LEMMA AtaInductive ==
    ASSUME AtaInv, [AtaNext]_ataVars
    PROVE  AtaInv'
<1> USE AtaAssumption
<1>0. AtaTypeOK /\ ProbeAlone /\ SectorLatched /\ DiskSelected
  BY DEF AtaInv
<1>1. CASE ata_probe_drive
  <2> DEFINE c == probe \div 2
             d == probe % 2
  <2>1. /\ c \in Channels /\ d \in {0, 1} /\ probe < 4
        /\ use_secondary' = c /\ use_slave' = d
        /\ UNCHANGED <<kind, content, call, down, answer>>
    BY <1>0, <1>1, Scan DEF ata_probe_drive, AtaTypeOK, Channels
  <2>2. call = None /\ ~down /\ disk_present = 0
    BY <1>0, <2>1 DEF ProbeAlone
  <2>3. ASSUME NEW st \in {"idle", "busy"}, channel' = Selected(c, d, st)
        PROVE  channel' \in [Channels -> Registers] /\ channel'[c].drive = d
    <3> DEFINE r == [channel[c] EXCEPT !.drive = d, !.state = st, !.op = "identify"]
    <3>1. channel' = [channel EXCEPT ![c] = r]
      BY <2>3 DEF Selected
    <3> HIDE DEF c, d
    <3>2. r \in Registers /\ r.drive = d
      <4>1. channel[c] \in Registers
        BY <1>0, <2>1 DEF AtaTypeOK
      <4>2. ASSUME NEW q \in Registers, NEW e \in {0, 1}
            PROVE  LET t == [q EXCEPT !.drive = e, !.state = st, !.op = "identify"]
                   IN  t \in Registers /\ t.drive = e
        BY <4>2, Zenon DEF Registers
      <4> QED
        BY <2>1, <4>1, <4>2, Zenon
    <3> HIDE DEF r
    <3> QED
      BY <1>0, <2>1, <3>1, <3>2 DEF AtaTypeOK
  <2>4. CASE ProbeFound(c, d) /\ probe' = NextProbe(TRUE)
    <3>1. /\ kind[<<c, d>>] = "disk" /\ disk_present' = 1 /\ probe' = 4
          /\ channel' \in [Channels -> Registers] /\ channel'[c].drive = d
      BY <1>0, <2>1, <2>3, <2>4, Scan, Zenon DEF ProbeFound, AtaTypeOK
    <3> HIDE DEF c, d
    <3> QED
      BY <1>0, <2>1, <2>2, <3>1
      DEF AtaInv, AtaTypeOK, ProbeAlone, SectorLatched, DiskSelected, Port, Channels
  <2>5. CASE ProbeFailed(c, d) /\ probe' = NextProbe(FALSE)
    <3>1. /\ disk_present' = 0 /\ probe' \in 0..4
          /\ channel' \in [Channels -> Registers]
      BY <1>0, <2>1, <2>2, <2>3, <2>5, Scan, Zenon DEF ProbeFailed, AtaTypeOK
    <3> HIDE DEF c, d
    <3> QED
      BY <1>0, <2>1, <2>2, <3>1
      DEF AtaInv, AtaTypeOK, ProbeAlone, SectorLatched, DiskSelected, Channels
  <2> QED
    BY <1>1, <2>4, <2>5, Zenon DEF ata_probe_drive
<1>2. ASSUME NEW r \in Requests, Begin(r) \/ PowerOff(r)
      PROVE  AtaInv'
  <2>0. down' \in BOOLEAN
    BY <1>0, <1>2, Zenon DEF Begin, PowerOff, AtaTypeOK
  <2>1. /\ probe = 4 /\ UNCHANGED <<kind, driver, channel, content>>
        /\ answer' \in Values \cup {"ok", "error"}
        /\ \/ call' = [op |-> r.op, lba |-> r.lba, val |-> r.val, step |-> "command"]
              /\ disk_present = 1
           \/ call' = call /\ call = None
    BY <1>0, <1>2 DEF Begin, PowerOff, Booted, AtaTypeOK
  <2>2. call' \in Calls \cup {None}
        /\ (call' # None => disk_present = 1 /\ call'.step = "command")
    BY <2>1 DEF Requests, Calls
  <2>3. down' => disk_present = 1
    BY <1>0, <1>2, Zenon DEF Begin, PowerOff, ProbeAlone
  <2> QED
    BY <1>0, <2>0, <2>1, <2>2, <2>3
    DEF AtaInv, AtaTypeOK, ProbeAlone, SectorLatched, DiskSelected, driver, Booted, Port
<1>3. CASE ata_flush
  <2>1. AnyLba \in Sectors /\ AnyValue \in Values
    BY DEF AnyLba, AnyValue
  <2>2. /\ down /\ UNCHANGED <<kind, driver, channel, content, down, answer>>
        /\ call' = [op |-> "flush", lba |-> AnyLba, val |-> AnyValue, step |-> "command"]
    BY <1>3 DEF ata_flush
  <2>3. call' \in Calls /\ call'.step = "command"
    BY <2>1, <2>2 DEF Calls
  <2> QED
    BY <1>0, <2>2, <2>3
    DEF AtaInv, AtaTypeOK, ProbeAlone, SectorLatched, DiskSelected, driver, Booted, Port
<1>4. CASE BusyTimeout \/ DataTimeout
  <2>1. /\ call' = None /\ answer' \in {answer, "error"}
        /\ UNCHANGED <<kind, driver, channel, content, down>>
    BY <1>4 DEF BusyTimeout, DataTimeout, Failed
  <2> QED
    BY <1>0, <2>1
    DEF AtaInv, AtaTypeOK, ProbeAlone, SectorLatched, DiskSelected, driver, Booted, Port
<1>5. ASSUME NEW r \in Registers, channel' = [channel EXCEPT ![use_secondary] = r],
             UNCHANGED <<kind, driver, down>>, r.drive = use_slave,
             content' \in [Drives -> [Sectors -> Values]],
             answer' \in Values \cup {"ok", "error"}, call # None,
             \/ call' = None
             \/ call' \in Calls /\ call'.op # "flush" /\ r.lba = call'.lba
      PROVE  AtaInv'
  <2>1. /\ use_secondary \in Channels
        /\ channel' \in [Channels -> Registers] /\ channel'[use_secondary] = r
    BY <1>0, <1>5 DEF AtaTypeOK, Channels
  <2> QED
    BY <1>0, <1>5, <2>1
    DEF AtaInv, AtaTypeOK, ProbeAlone, SectorLatched, DiskSelected, driver, Booted, Port
<1>6. /\ call # None => call \in Calls /\ disk_present = 1 /\ Port.drive = use_slave
      /\ use_secondary \in Channels /\ use_slave \in {0, 1} /\ Port \in Registers
  BY <1>0 DEF AtaTypeOK, Channels, ProbeAlone, DiskSelected, Booted, Port
<1>7. CASE Command
  <2> DEFINE r == [drive |-> HeadDrive, state |-> "busy", op |-> call.op, lba |-> call.lba]
  <2>1. /\ call # None /\ call.op # "flush" /\ UNCHANGED <<kind, driver, content, down, answer>>
        /\ channel' = [channel EXCEPT ![use_secondary] = r]
        /\ call' = [call EXCEPT !.step = "data"]
    BY <1>7 DEF Command
  <2>2. r \in Registers /\ r.drive = use_slave /\ r.lba = call.lba
    BY <1>6, <2>1 DEF Registers, Calls, HeadDrive
  <2>3. call' \in Calls /\ call'.op # "flush" /\ call'.lba = call.lba
    BY <1>6, <2>1 DEF Calls
  <2>4. content' \in [Drives -> [Sectors -> Values]] /\ answer' \in Values \cup {"ok", "error"}
    BY <1>0, <2>1 DEF AtaTypeOK
  <2> HIDE DEF r
  <2> QED
    BY <1>5, <2>1, <2>2, <2>3, <2>4, Zenon
<1>8. CASE FlushCommand
  <2> DEFINE r == [Port EXCEPT !.state = "busy", !.op = "flush"]
  <2>1. /\ call # None /\ UNCHANGED <<kind, driver, content, down, answer>> /\ call' = None
        /\ channel' = [channel EXCEPT ![use_secondary] = r]
    BY <1>0, <1>6, <1>8, Zenon DEF FlushCommand, Port, AtaTypeOK, Registers
  <2>2. r \in Registers /\ r.drive = use_slave
    BY <1>6, <2>1, Zenon DEF Registers
  <2>3. content' \in [Drives -> [Sectors -> Values]] /\ answer' \in Values \cup {"ok", "error"}
    BY <1>0, <2>1 DEF AtaTypeOK
  <2> HIDE DEF r
  <2> QED
    BY <1>5, <2>1, <2>2, <2>3, Zenon
<1>9. CASE ReadData
  <2> DEFINE r == [Port EXCEPT !.state = "idle"]
  <2>1. /\ call # None /\ UNCHANGED <<kind, driver, content, down>> /\ call' = None
        /\ answer' = content[<<use_secondary, Port.drive>>][Port.lba]
        /\ channel' = [channel EXCEPT ![use_secondary] = r]
    BY <1>9 DEF ReadData, Port
  <2>2. r \in Registers /\ r.drive = use_slave
    BY <1>6, <2>1 DEF Registers
  <2>3. content' \in [Drives -> [Sectors -> Values]] /\ answer' \in Values
    BY <1>0, <1>6, <2>1 DEF AtaTypeOK, Drives, Registers
  <2> HIDE DEF r
  <2> QED
    BY <1>5, <2>1, <2>2, <2>3, Zenon
<1>10. CASE WriteData
  <2> DEFINE r == [Port EXCEPT !.state = "busy", !.op = "flush"]
  <2>1. /\ call # None /\ UNCHANGED <<kind, driver, down>> /\ call' = None /\ answer' = "ok"
        /\ content' = [content EXCEPT ![<<use_secondary, Port.drive>>][Port.lba] = call.val]
        /\ channel' = [channel EXCEPT ![use_secondary] = r]
    BY <1>0, <1>6, <1>10, Zenon DEF WriteData, Port, AtaTypeOK, Registers
  <2>2. r \in Registers /\ r.drive = use_slave
    BY <1>6, <2>1, Zenon DEF Registers
  <2>3. content' \in [Drives -> [Sectors -> Values]]
    BY <1>0, <1>6, <2>1 DEF AtaTypeOK, Drives, Registers, Calls
  <2> HIDE DEF r
  <2> QED
    BY <1>5, <2>1, <2>2, <2>3, Zenon
<1>11. ASSUME NEW c \in Channels, DriveStep(c) \/ DriveFails(c)
       PROVE  AtaInv'
  <2>1. PICK st \in {"idle", "drq"} :
           /\ channel' = [channel EXCEPT ![c].state = st]
           /\ UNCHANGED <<kind, driver, content, call, down, answer>>
    BY <1>11 DEF DriveStep, DriveFails
  <2> DEFINE r == [channel[c] EXCEPT !.state = st]
  <2>2. r \in Registers /\ r.drive = channel[c].drive /\ r.lba = channel[c].lba
    BY <1>0 DEF AtaTypeOK, Registers
  <2>3. channel' = [channel EXCEPT ![c] = r]
    BY <2>1
  <2> HIDE DEF r
  <2>4. /\ channel' \in [Channels -> Registers]
        /\ \A k \in Channels : channel'[k].drive = channel[k].drive
                               /\ channel'[k].lba = channel[k].lba
    BY <1>0, <2>2, <2>3 DEF AtaTypeOK
  <2> QED
    BY <1>0, <1>6, <2>1, <2>4
    DEF AtaInv, AtaTypeOK, ProbeAlone, SectorLatched, DiskSelected, driver, Booted, Port
<1>12. CASE UNCHANGED ataVars
  BY <1>0, <1>12 DEF ataVars, driver, AtaInv, AtaTypeOK, ProbeAlone, SectorLatched,
                     DiskSelected, Booted, Port
<1> QED
  BY <1>1, <1>2, <1>3, <1>4, <1>7, <1>8, <1>9, <1>10, <1>11, <1>12 DEF AtaNext
(* The invariant holds from the probe of the drives on. *)
THEOREM AtaInvariance == AtaSpecification => []AtaInv
<1>1. AtaInit => AtaInv
  <2> SUFFICES ASSUME AtaInit
               PROVE  AtaInv
    OBVIOUS
  <2>1. AnyLba \in Sectors /\ AnyValue \in Values
    BY AtaAssumption DEF AnyLba, AnyValue
  <2>2. down \in BOOLEAN /\ ~down
    BY Zenon DEF AtaInit
  <2>3. channel \in [Channels -> Registers]
    BY <2>1 DEF AtaInit, Registers
  <2>4. content \in [Drives -> [Sectors -> Values]]
    BY <2>1 DEF AtaInit
  <2> QED
    BY <2>2, <2>3, <2>4
    DEF AtaInit, AtaInv, AtaTypeOK, ProbeAlone, SectorLatched, DiskSelected, Booted
<1> QED
  BY <1>1, AtaInductive, PTL DEF AtaSpecification

(* The state of the driver and of the channels keeps its type. *)
THEOREM AtaTypeCorrect == AtaSpecification => []AtaTypeOK
  BY AtaInvariance, PTL DEF AtaInv

(* The latch of the channel selects the disk that ata_identify found. *)
THEOREM DiskSelectedHolds == AtaSpecification => []DiskSelected
  BY AtaInvariance, PTL DEF AtaInv

(* Every step of the driver and of the drives is a step of AtaSpec, or changes nothing
   that AtaSpec shows. *)
LEMMA StepIsDiskStep ==
    ASSUME AtaInv, [AtaNext]_ataVars
    PROVE  [Promise!DiskNext]_(Promise!diskVars)
<1> USE AtaAssumption
<1> DEFINE disk == IF disk_present = 1 THEN <<use_secondary, use_slave>> ELSE None
           asked(k) == IF k = None \/ k.op = "flush" THEN None
                       ELSE [op |-> k.op, lba |-> k.lba, val |-> k.val]
<1>0. AtaTypeOK /\ ProbeAlone /\ SectorLatched /\ DiskSelected
  BY DEF AtaInv
<1>1. ASSUME UNCHANGED <<driver, content, answer>>, asked(call)' = asked(call)
      PROVE  UNCHANGED Promise!diskVars
  BY <1>1 DEF Promise!diskVars, driver
<1>2. ASSUME NEW k \in Calls, k.op # "flush"
      PROVE  /\ asked(k) = [op |-> k.op, lba |-> k.lba, val |-> k.val]
             /\ asked(k) \in Requests /\ asked(k) # None
  BY <1>2 DEF Calls, Requests
<1>3. call # None => /\ call \in Calls /\ disk = <<use_secondary, use_slave>>
                     /\ disk # None /\ Port.drive = use_slave
  BY <1>0 DEF AtaTypeOK, ProbeAlone, DiskSelected, Booted, Drives, Channels
<1>4. CASE ata_probe_drive
  <2> DEFINE c == probe \div 2
             d == probe % 2
  <2>1. /\ c \in {0, 1} /\ d \in {0, 1} /\ use_secondary' = c /\ use_slave' = d
        /\ disk_present = 0 /\ UNCHANGED <<content, call, answer>>
        /\ disk_present' \in {0, 1}
    BY <1>0, <1>4, Scan, Zenon
    DEF ata_probe_drive, AtaTypeOK, ProbeAlone, ProbeFound, ProbeFailed
  <2> HIDE DEF c, d
  <2>2. CASE disk_present' = 1
    <3>1. Promise!Find(<<c, d>>)
      BY <2>1, <2>2 DEF Promise!Find
    <3> QED
      BY <2>1, <3>1 DEF Promise!DiskNext, Drives, Channels
  <2>3. CASE disk_present' = 0
    BY <2>1, <2>3 DEF Promise!diskVars
  <2> QED
    BY <2>1, <2>2, <2>3
<1>5. ASSUME NEW r \in Requests, Begin(r) \/ PowerOff(r)
      PROVE  Promise!DiskNext
  <2>1. CASE call' = [op |-> r.op, lba |-> r.lba, val |-> r.val, step |-> "command"]
             /\ UNCHANGED <<driver, content, answer>>
    <3>1. call' \in Calls /\ call'.op # "flush"
      BY <2>1 DEF Requests, Calls
    <3>2. asked(call)' = r
      BY <2>1, <3>1 DEF Requests
    <3>3. Promise!Ask(r)
      BY <2>1, <3>2 DEF Promise!Ask, driver
    <3> QED
      BY <3>3 DEF Promise!DiskNext, Requests
  <2>2. CASE /\ disk_present # 1 /\ call = None /\ answer' = "error"
             /\ UNCHANGED <<driver, content, call>>
    BY <2>2 DEF Promise!DiskNext, Promise!Fail, driver
  <2> QED
    BY <1>5, <2>1, <2>2 DEF Begin, PowerOff
<1>6. CASE ata_flush
  <2>1. asked(call)' = asked(call) /\ UNCHANGED <<driver, content, answer>>
    BY <1>6 DEF ata_flush
  <2> QED
    BY <1>1, <2>1
<1>7. CASE BusyTimeout \/ DataTimeout
  <2>1. /\ call # None /\ call' = None /\ UNCHANGED <<driver, content>>
        /\ answer' = IF call.op = "flush" THEN answer ELSE "error"
    BY <1>7 DEF BusyTimeout, DataTimeout, Failed
  <2>2. CASE call.op = "flush"
    BY <1>1, <2>1, <2>2
  <2>3. CASE call.op # "flush"
    <3>1. Promise!Fail
      BY <1>2, <1>3, <2>1, <2>3 DEF Promise!Fail, driver
    <3> QED
      BY <3>1 DEF Promise!DiskNext
  <2> QED
    BY <2>2, <2>3
<1>8. CASE Command
  <2>1. /\ call # None /\ call' = [call EXCEPT !.step = "data"]
        /\ UNCHANGED <<driver, content, answer>>
    BY <1>8 DEF Command
  <2>2. call' \in Calls /\ call'.op = call.op /\ call'.lba = call.lba /\ call'.val = call.val
    BY <1>3, <2>1 DEF Calls
  <2>3. asked(call)' = asked(call)
    BY <1>3, <2>1, <2>2
  <2> QED
    BY <1>1, <2>1, <2>3
<1>9. CASE FlushCommand
  <2>1. asked(call)' = asked(call) /\ UNCHANGED <<driver, content, answer>>
    BY <1>9 DEF FlushCommand
  <2> QED
    BY <1>1, <2>1
<1>10. CASE ReadData
  <2>1. /\ call # None /\ call.step = "data" /\ call.op = "read" /\ call' = None
        /\ answer' = content[<<use_secondary, Port.drive>>][Port.lba]
        /\ UNCHANGED <<driver, content>>
    BY <1>10 DEF ReadData
  <2>2. Port.lba = call.lba /\ asked(call).op = "read" /\ asked(call).lba = call.lba
    BY <1>0, <1>2, <1>3, <2>1 DEF SectorLatched
  <2>3. Promise!Read
    BY <1>2, <1>3, <2>1, <2>2 DEF Promise!Read, driver
  <2> QED
    BY <2>3 DEF Promise!DiskNext
<1>11. CASE WriteData
  <2>1. /\ call # None /\ call.step = "data" /\ call.op = "write" /\ call' = None
        /\ content' = [content EXCEPT ![<<use_secondary, Port.drive>>][Port.lba] = call.val]
        /\ answer' = "ok" /\ UNCHANGED driver
    BY <1>11 DEF WriteData
  <2>2. /\ Port.lba = call.lba /\ asked(call).op = "write"
        /\ asked(call).lba = call.lba /\ asked(call).val = call.val
    BY <1>0, <1>2, <1>3, <2>1 DEF SectorLatched
  <2>3. Promise!Write
    BY <1>2, <1>3, <2>1, <2>2, Zenon DEF Promise!Write, driver
  <2> QED
    BY <2>3 DEF Promise!DiskNext
<1>12. ASSUME NEW c \in Channels, DriveStep(c) \/ DriveFails(c)
       PROVE  UNCHANGED Promise!diskVars
  BY <1>12 DEF DriveStep, DriveFails, Promise!diskVars, driver
<1>13. CASE UNCHANGED ataVars
  BY <1>13 DEF ataVars, Promise!diskVars, driver
<1> QED
  BY <1>4, <1>5, <1>6, <1>7, <1>8, <1>9, <1>10, <1>11, <1>12, <1>13 DEF AtaNext

(* The driver implements AtaSpec. *)
THEOREM AtaRefinement == AtaSpecification => IsDisk
<1>1. AtaInit => Promise!DiskInit
  <2>1. AnyValue \in Values
    BY AtaAssumption DEF AnyValue
  <2> QED
    BY <2>1 DEF AtaInit, Promise!DiskInit
<1> QED
  BY <1>1, StepIsDiskStep, AtaInvariance, PTL DEF AtaSpecification, IsDisk, Promise!DiskSpec
=============================================================================
