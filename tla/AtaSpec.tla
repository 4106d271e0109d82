------------------------------- MODULE AtaSpec --------------------------------
(***************************************************************************)
(* What the disk driver promises the file system: one drive is found, or   *)
(* none, and stays the disk; a sector is read or written whole, or the     *)
(* call fails and changes nothing; no other sector and no other drive is   *)
(* ever written.  A call that is abandoned also changes nothing.           *)
(***************************************************************************)
CONSTANTS Drives, Sectors, Values, None

VARIABLES
    disk,      \* the drive in use, or None
    content,   \* the sectors of all drives
    request,   \* the call in progress: [op, lba, val], or None
    answer     \* what the last call that ended returned: a value, "ok" or "error"

diskVars == <<disk, content, request, answer>>

Find(d) == disk = None /\ disk' = d /\ UNCHANGED <<content, request, answer>>

Ask(r) ==
    /\ request' = r
    /\ UNCHANGED <<disk, content, answer>>

Fail ==
    /\ request # None \/ disk = None
    /\ request' = None /\ answer' = "error"
    /\ UNCHANGED <<disk, content>>

Read ==
    /\ request # None /\ request.op = "read" /\ disk # None
    /\ answer' = content[disk][request.lba]
    /\ request' = None
    /\ UNCHANGED <<disk, content>>

Write ==
    /\ request # None /\ request.op = "write" /\ disk # None
    /\ content' = [content EXCEPT ![disk][request.lba] = request.val]
    /\ request' = None /\ answer' = "ok"
    /\ UNCHANGED disk

DiskNext ==
    \/ \E d \in Drives : Find(d)
    \/ \E r \in [op : {"read", "write"}, lba : Sectors, val : Values] : Ask(r)
    \/ Fail \/ Read \/ Write

DiskInit ==
    /\ disk = None /\ request = None /\ answer = "ok"
    /\ content \in [Drives -> [Sectors -> Values]]

DiskSpec == DiskInit /\ [][DiskNext]_diskVars
=============================================================================
