--------------------------------- MODULE Ata ---------------------------------
(***************************************************************************)
(* The disk driver of src/drivers/ata.c and the drives it talks to.        *)
(*                                                                         *)
(* Two channels with two drives each.  The drives of a channel share its   *)
(* registers; which of them answers is what was last written to its        *)
(* drive/head register, a latch the driver sets in some routines and       *)
(* relies on in others.  A drive that is given a command is busy, and then *)
(* either asks for data, or goes idle with an error or because it is done, *)
(* before or after the driver's loops run out.                             *)
(*                                                                         *)
(* The shell makes one call at a time.  SYS_SHUTDOWN and SYS_REBOOT of     *)
(* another process cut in with interrupts off, save the file table with    *)
(* sector writes and ata_flush, and never return to the shell.             *)
(***************************************************************************)
EXTENDS Integers

CONSTANTS
    Setups,     \* what is connected: functions from Drives to Kinds
    Sectors,    \* sector numbers
    Values,     \* contents of a sector
    None

Channels == {0, 1}
Drives == Channels \X {0, 1}
Kinds == {"none", "atapi", "disk"}

VARIABLES
    kind,            \* external: what is connected
    use_secondary, use_slave,
    disk_present,
    probe,           \* the loop of ata_identify: the next drive, or 4 when it is over
    channel,         \* external, per channel: [drive, state, op, lba]
    content,         \* external: the sectors of the drives
    call,            \* the call in progress: [op, lba, val, step], or None
    down,            \* shutdown or reboot has begun
    answer

driver == <<use_secondary, use_slave, disk_present, probe>>
ataVars == <<kind, driver, channel, content, call, down, answer>>

Requests == [op : {"read", "write"}, lba : Sectors, val : Values]
Calls == [op : {"read", "write", "flush"}, lba : Sectors, val : Values,
          step : {"command", "data"}]
Registers == [drive : {0, 1}, state : {"idle", "busy", "drq"},
              op : {"none", "identify", "read", "write", "flush"}, lba : Sectors]

ASSUME AtaAssumption ==
    /\ Setups \subseteq [Drives -> Kinds]
    /\ Sectors # {} /\ Values # {}
    /\ None \notin Drives /\ None \notin Requests /\ None \notin Calls

AtaTypeOK ==
    /\ kind \in Setups
    /\ use_secondary \in {0, 1} /\ use_slave \in {0, 1}
    /\ disk_present \in {0, 1}
    /\ probe \in 0..4
    /\ channel \in [Channels -> Registers]
    /\ content \in [Drives -> [Sectors -> Values]]
    /\ call \in Calls \cup {None}
    /\ down \in BOOLEAN
    /\ answer \in Values \cup {"ok", "error"}

AnyLba == CHOOSE l \in Sectors : TRUE
AnyValue == CHOOSE v \in Values : TRUE

AtaInit ==
    /\ kind \in Setups
    /\ use_secondary = 0 /\ use_slave = 0 /\ disk_present = 0
    /\ probe = 0
    /\ channel = [c \in Channels |->
                    [drive |-> 0, state |-> "idle", op |-> "none", lba |-> AnyLba]]
    /\ content = [d \in Drives |-> [l \in Sectors |-> AnyValue]]
    /\ call = None /\ down = FALSE /\ answer = "ok"

(* ata_probe_drive selects a drive and asks it to identify itself.  Only a disk that
   answers in time, without an error, is taken; one that does not stays busy or not. *)
Selected(c, d, state) ==
    [channel EXCEPT ![c] = [@ EXCEPT !.drive = d, !.state = state, !.op = "identify"]]

ProbeFound(c, d) ==
    /\ kind[<<c, d>>] = "disk"
    /\ disk_present' = 1
    /\ channel' = Selected(c, d, "idle")

ProbeFailed(c, d) ==
    /\ UNCHANGED disk_present
    /\ \/ channel' = Selected(c, d, "idle")
       \/ kind[<<c, d>>] # "none" /\ channel' = Selected(c, d, "busy")

(* ata_identify stops at the first drive that is found. *)
MutProbeAll(found) == probe + 1
NextProbe(found) == IF found THEN 4 ELSE probe + 1

ata_probe_drive ==
    LET c == probe \div 2
        d == probe % 2
    IN  /\ probe < 4
        /\ use_secondary' = c /\ use_slave' = d
        /\ \/ ProbeFound(c, d) /\ probe' = NextProbe(TRUE)
           \/ ProbeFailed(c, d) /\ probe' = NextProbe(FALSE)
        /\ UNCHANGED <<kind, content, call, down, answer>>

Booted == probe = 4

(* The registers of the channel in use, which its selected drive answers. *)
Port == channel[use_secondary]

(* ata_read_sector and ata_write_sector return -1 if there is no disk. *)
Begin(r) ==
    /\ Booted /\ ~down /\ call = None
    /\ IF disk_present = 1
       THEN call' = [op |-> r.op, lba |-> r.lba, val |-> r.val, step |-> "command"]
            /\ UNCHANGED answer
       ELSE answer' = "error" /\ UNCHANGED call
    /\ UNCHANGED <<kind, driver, channel, content, down>>

(* The save of power_shutdown and power_reboot, whatever the shell was doing: it
   first writes a sector. *)
PowerOff(r) ==
    /\ Booted /\ ~down /\ disk_present = 1 /\ r.op = "write"
    /\ down' = TRUE
    /\ call' = [op |-> r.op, lba |-> r.lba, val |-> r.val, step |-> "command"]
    /\ UNCHANGED <<kind, driver, channel, content, answer>>

(* ata_flush, the end of that save. *)
ata_flush ==
    /\ down /\ call = None
    /\ call' = [op |-> "flush", lba |-> AnyLba, val |-> AnyValue, step |-> "command"]
    /\ UNCHANGED <<kind, driver, channel, content, down, answer>>

Failed ==
    /\ call' = None
    /\ answer' = IF call.op = "flush" THEN answer ELSE "error"
    /\ UNCHANGED <<kind, driver, channel, content, down>>

(* ata_wait_bsy before the command runs out. *)
BusyTimeout == call # None /\ call.step = "command" /\ Port.state = "busy" /\ Failed

(* The drive and the sector are selected and the command is given. *)
MutAlwaysMaster == 0
HeadDrive == use_slave
NotBusy == Port.state # "busy"
Command ==
    /\ call # None /\ call.step = "command" /\ call.op # "flush"
    /\ NotBusy
    /\ channel' = [channel EXCEPT ![use_secondary] =
            [drive |-> HeadDrive, state |-> "busy", op |-> call.op, lba |-> call.lba]]
    /\ call' = [call EXCEPT !.step = "data"]
    /\ UNCHANGED <<kind, driver, content, down, answer>>

(* ata_flush gives its command to the drive that is selected. *)
FlushCommand ==
    /\ call # None /\ call.step = "command" /\ call.op = "flush"
    /\ NotBusy
    /\ channel' = [channel EXCEPT ![use_secondary].state = "busy",
                                  ![use_secondary].op = "flush"]
    /\ call' = None
    /\ UNCHANGED <<kind, driver, content, down, answer>>

(* ata_wait_bsy or ata_wait_drq runs out: the drive is slow or reports an error. *)
DataTimeout == call # None /\ call.step = "data" /\ Port.state # "drq" /\ Failed

ReadData ==
    /\ call # None /\ call.step = "data" /\ call.op = "read"
    /\ Port.state = "drq"
    /\ answer' = content[<<use_secondary, Port.drive>>][Port.lba]
    /\ channel' = [channel EXCEPT ![use_secondary].state = "idle"]
    /\ call' = None
    /\ UNCHANGED <<kind, driver, content, down>>

(* After the last word the drive has the sector, and the cache is flushed. *)
WriteData ==
    /\ call # None /\ call.step = "data" /\ call.op = "write"
    /\ Port.state = "drq"
    /\ content' = [content EXCEPT ![<<use_secondary, Port.drive>>][Port.lba] = call.val]
    /\ channel' = [channel EXCEPT ![use_secondary].state = "busy",
                                  ![use_secondary].op = "flush"]
    /\ call' = None /\ answer' = "ok"
    /\ UNCHANGED <<kind, driver, down>>

(* The drives: a busy one gets ready to transfer, or is done or has failed. *)
DriveStep(c) ==
    /\ channel[c].state = "busy"
    /\ channel' =
          [channel EXCEPT ![c].state =
              IF channel[c].op \in {"read", "write", "identify"}
                 /\ kind[<<c, channel[c].drive>>] = "disk"
              THEN "drq" ELSE "idle"]
    /\ UNCHANGED <<kind, driver, content, call, down, answer>>

DriveFails(c) ==
    /\ channel[c].state = "busy"
    /\ channel' = [channel EXCEPT ![c].state = "idle"]
    /\ UNCHANGED <<kind, driver, content, call, down, answer>>

AtaNext ==
    \/ ata_probe_drive
    \/ \E r \in Requests : Begin(r) \/ PowerOff(r)
    \/ ata_flush
    \/ BusyTimeout \/ Command \/ FlushCommand
    \/ DataTimeout \/ ReadData \/ WriteData
    \/ \E c \in Channels : DriveStep(c) \/ DriveFails(c)

AtaSpecification == AtaInit /\ [][AtaNext]_ataVars
-----------------------------------------------------------------------------
(* From the end of the probe on, the drive the driver uses is a disk, and the one its
   channel's drive register selects: the routines that rely on the latch, ata_wait_bsy
   and ata_flush, reach the disk. *)
DiskSelected ==
    Booted /\ disk_present = 1 =>
        kind[<<use_secondary, use_slave>>] = "disk" /\ Port.drive = use_slave

(* The driver implements AtaSpec, also with drives that answer after their time is
   over, and with a transfer cut off by a shutdown. *)
Promise == INSTANCE AtaSpec
              WITH disk <- IF disk_present = 1 THEN <<use_secondary, use_slave>> ELSE None,
                   request <- IF call = None \/ call.op = "flush" THEN None
                              ELSE [op |-> call.op, lba |-> call.lba, val |-> call.val]
IsDisk == Promise!DiskSpec
-----------------------------------------------------------------------------
(* What makes DiskSelected inductive, and what the steps that transfer a sector need:
   calls wait for the probe, and the registers hold the sector of the call. *)
ProbeAlone ==
    /\ probe < 4 => disk_present = 0 /\ call = None /\ ~down
    /\ call # None \/ down => disk_present = 1
SectorLatched ==
    call # None /\ call.step = "data" => call.op # "flush" /\ Port.lba = call.lba
AtaInv == AtaTypeOK /\ ProbeAlone /\ SectorLatched /\ DiskSelected
=============================================================================
