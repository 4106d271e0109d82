--------------------------------- MODULE Vfs ---------------------------------
(***************************************************************************)
(* The file system of src/kernel/vfs.c on a disk whose sectors are read    *)
(* and written by src/drivers/ata.c, with power failures, orderly reboots  *)
(* (src/kernel/power.c) and disk errors.                                   *)
(*                                                                         *)
(* The shell is its only user.  Every sector write is a step of its own:   *)
(* the power may fail between any two, and another process may ask for a   *)
(* reboot there.  A call is its first step, up to its first write, and a   *)
(* job of the writes it still has to do.                                   *)
(***************************************************************************)
EXTENDS Integers, Sequences

CONSTANTS
    MAX_FILES,       \* directory entries (16)
    FILE_SECTORS,    \* sectors of a file (2): MAX_FILE_SIZE
    Names,           \* file names the user gives
    Long,            \* those with MAX_FILENAME characters or more
    Welcome,         \* "readme.txt"
    Contents,        \* file contents: sequences of sectors
    WelcomeText,
    MaxFaults,       \* bound: sector transfers that fail
    MaxBoots         \* bound: boots

NoFile == <<"no file">>
Unknown == <<"unknown">>
Zeros == "zeros"

ASSUME VfsAssumption ==
    /\ MAX_FILES \in Nat \ {0} /\ FILE_SECTORS \in Nat \ {0}
    /\ MaxFaults \in Nat /\ MaxBoots \in Nat
    /\ Long \subseteq Names /\ Welcome \in Names \ Long
    /\ Contents \subseteq Seq(STRING)
    /\ NoFile \in Seq(STRING) /\ Unknown \in Seq(STRING) /\ Zeros \in STRING
    /\ WelcomeText \in Contents /\ Len(WelcomeText) = 1

VARIABLES
    file_table,   \* the table in memory
    meta,         \* the table on disk: sector 100
    data,         \* the data sectors of each entry
    job,          \* the writes the running call still has to do
    faults, boots,
    expect        \* history: what reading a name has to return

disk == <<meta, data>>
bounds == <<faults, boots>>
vars == <<file_table, meta, data, job, faults, boots, expect>>

Slots == 0..MAX_FILES-1
Sectors == 1..FILE_SECTORS

(* strcpy_impl cuts a long name, so that it equals no name the user gives. *)
Stored(name) == IF name \in Long THEN <<name, "cut">> ELSE <<name>>
StoredNames == {Stored(n) : n \in Names} \cup {<<>>}

(* Names a file keeps, and that boot gives to none. *)
Tracked == Names \ (Long \cup {Welcome})

Unused == [used |-> FALSE, size |-> 0, name |-> <<>>]
Entry == [used : BOOLEAN, size : 0..FILE_SECTORS, name : StoredNames]

(* todo: the writes to come, k for the k-th sector of entry idx and 0 for the table.
   failed: history, a transfer of this call has failed. *)
Job(todo, idx, text, name, failed) ==
    [todo |-> todo, idx |-> idx, text |-> text, name |-> name, failed |-> failed]
Idle == Job(<<>>, 0, <<>>, Welcome, FALSE)
Busy == job.todo # <<>>

TypeOK ==
    /\ file_table \in [Slots -> Entry]
    /\ meta \in [Slots -> Entry]
    /\ data \in [Slots -> [Sectors -> STRING]]
    /\ job \in [todo : Seq(0..FILE_SECTORS), idx : Slots, text : Seq(STRING),
                name : Names, failed : BOOLEAN]
    /\ faults \in 0..MaxFaults
    /\ boots \in 0..MaxBoots
    /\ expect \in [Tracked -> Seq(STRING)]

(* A table's first entry with a name, and its first free one. *)
Named(table, name, i) == table[i].used /\ table[i].name = <<name>>
Found(table, name, i) ==
    Named(table, name, i) /\ \A j \in 0..i-1 : ~Named(table, name, j)
Missing(table, name) == \A i \in Slots : ~Named(table, name, i)
Free(table, i) == ~table[i].used /\ \A j \in 0..i-1 : table[j].used

(* The writes of a text: one sector at least. *)
Writes(text) == [k \in 1..(IF text = <<>> THEN 1 ELSE Len(text)) |-> k] \o <<0>>

(* vfs_init, from the table it reads: it writes the welcome file into entry 0 if that
   is free. *)
WelcomeEntry == [used |-> TRUE, size |-> 1, name |-> <<Welcome>>]
MutWelcomeAlways(table) == [table EXCEPT ![0] = WelcomeEntry]
BootTable(table) == IF table[0].used THEN table ELSE [table EXCEPT ![0] = WelcomeEntry]
BootJob(table) == IF table[0].used THEN Idle
                  ELSE Job(<<1, 0>>, 0, WelcomeText, Welcome, FALSE)
Blank == [i \in Slots |-> Unused]

(* The first boot, from a blank disk. *)
Init ==
    /\ meta = Blank
    /\ data = [i \in Slots |-> [k \in Sectors |-> Zeros]]
    /\ file_table = BootTable(Blank)
    /\ job = BootJob(Blank)
    /\ faults = 0
    /\ boots = 0
    /\ expect = [n \in Tracked |-> NoFile]

Fault == faults < MaxFaults /\ faults' = faults + 1

(* vfs_sync_from_disk: a failed read leaves the table as it is. *)
vfs_sync_from_disk(table) ==
    \/ table = meta /\ UNCHANGED faults
    \/ table = file_table /\ Fault

(* A call starts: it reads the table, changes it and leaves the writes to its job. *)
Call(table, new, todo, idx, text, name) ==
    /\ ~Busy
    /\ vfs_sync_from_disk(table)
    /\ file_table' = new
    /\ job' = IF todo = <<>> THEN Idle ELSE Job(todo, idx, text, name, FALSE)
    /\ UNCHANGED <<disk, boots, expect>>

NewEntry(name) == [used |-> TRUE, size |-> 0, name |-> Stored(name)]

(* An existing file is left alone, and a full table is. *)
MutCreateAnyway(table, name) ==
    \E i \in Slots : /\ Free(table, i)
                     /\ Call(table, [table EXCEPT ![i] = NewEntry(name)], <<0>>, i, <<>>, name)
vfs_create_file(table, name) ==
    IF Missing(table, name) /\ \E i \in Slots : Free(table, i)
    THEN \E i \in Slots :
            /\ Free(table, i)
            /\ Call(table, [table EXCEPT ![i] = NewEntry(name)], <<0>>, i, <<>>, name)
    ELSE Call(table, table, <<>>, 0, <<>>, name)

(* vfs_write_file of a file that exists, or after creating it.  The text is cut to
   the size of a file. *)
MutUncut(text) == text
CutText(text) == SubSeq(text, 1, IF Len(text) > FILE_SECTORS THEN FILE_SECTORS ELSE Len(text))
vfs_write_file(table, name, text) ==
    \/ \E i \in Slots :
        /\ Found(table, name, i)
        /\ Call(table, [table EXCEPT ![i].size = Len(text)], Writes(text), i, text, name)
    \/ \E i \in Slots :
        /\ Missing(table, name)
        /\ Free(table, i)
        /\ Call(table, [table EXCEPT ![i] = NewEntry(name)], <<0>> \o Writes(text), i, text, name)

(* vfs_read_file and vfs_list_files only read the table, and so do a delete of a
   file that is missing and a write of a new file to a full table. *)
vfs_read(table) == Call(table, table, <<>>, 0, <<>>, Welcome)

vfs_delete_file(table, name) ==
    \E i \in Slots :
        /\ Found(table, name, i)
        /\ Call(table, [table EXCEPT ![i] = Unused], <<0>>, i, NoFile, name)

(* ata_write_sector of the next sector of the job: it is written, or the transfer
   fails, which no caller looks at.  After the table write that ends vfs_create_file,
   vfs_write_file sets the size. *)
Text(k) == IF k \in DOMAIN job.text THEN job.text[k] ELSE Zeros
MutSizeForgotten == file_table
Resized ==
    IF Head(job.todo) = 0 /\ Len(job.todo) > 1
    THEN [file_table EXCEPT ![job.idx].size = Len(job.text)] ELSE file_table

ata_write_sector(k) ==
    /\ data' = IF k = 0 THEN data ELSE [data EXCEPT ![job.idx][k] = Text(k)]
    /\ meta' = IF k = 0 THEN file_table ELSE meta
    /\ UNCHANGED faults

WriteNext ==
    LET rest == Tail(job.todo)
    IN  /\ Busy
        /\ ata_write_sector(Head(job.todo)) \/ (Fault /\ UNCHANGED disk)
        /\ LET failed == job.failed \/ faults' # faults
           IN  /\ job' = IF rest = <<>> THEN Idle
                         ELSE [job EXCEPT !.todo = rest, !.failed = failed]
               /\ expect' = IF rest # <<>> THEN expect
                            ELSE [expect EXCEPT ![job.name] =
                                    IF failed THEN Unknown ELSE job.text]
        /\ file_table' = Resized
        /\ UNCHANGED boots

(* A boot from the disk m.  A failed read of the table looks like an empty disk. *)
Boot(m) ==
    /\ boots < MaxBoots
    /\ boots' = boots + 1
    /\ meta' = m
    /\ \/ /\ file_table' = BootTable(m)
          /\ job' = BootJob(m)
          /\ expect' = IF Busy THEN [expect EXCEPT ![job.name] = Unknown] ELSE expect
          /\ UNCHANGED faults
       \/ /\ Fault
          /\ file_table' = BootTable(Blank)
          /\ job' = BootJob(Blank)
          /\ expect' = [n \in Tracked |-> Unknown]
    /\ UNCHANGED data

(* The power fails; or a process asks for a reboot, which first writes the table. *)
PowerFails == Boot(meta)
power_reboot == Boot(file_table)

Next ==
    \/ \E table \in {meta, file_table} :
        \/ \E name \in Names :
            \/ vfs_create_file(table, name)
            \/ vfs_delete_file(table, name)
            \/ \E text \in Contents : vfs_write_file(table, name, CutText(text))
        \/ vfs_read(table)
    \/ WriteNext
    \/ PowerFails
    \/ power_reboot

Spec == Init /\ [][Next]_vars
-----------------------------------------------------------------------------
(* Two entries have the same name only where a name was cut, or where vfs_init has put
   a second welcome file into entry 0: for every other name "Creates a new file or
   returns index if already exists" holds across crashes and disk errors. *)
UniqueIn(table) ==
    \A i, j \in Slots :
        i # j /\ table[i].used /\ table[j].used /\ table[i].name = table[j].name
        => \/ table[i].name = <<Welcome>> /\ 0 \in {i, j}
           \/ \E n \in Long : table[i].name = Stored(n)
NamesUnique == UniqueIn(file_table)

(* What vfs_read_file finds on the disk. *)
EntryOf(table, name) == CHOOSE i \in Slots : Found(table, name, i)
OnDisk(name) ==
    IF Missing(meta, name) THEN NoFile
    ELSE LET i == EntryOf(meta, name)
         IN  [k \in 1..meta[i].size |-> data[i][k]]

(* A file is what the last call that completed on it made of it, whatever failed
   since in calls on other files and however often the machine was restarted. *)
Settled(n) == ~(Busy /\ job.name = n) /\ expect[n] # Unknown
CompletedCallsLast == \A n \in Tracked : Settled(n) => OnDisk(n) = expect[n]

(* The file system implements VfsSpec: what vfs_read_file finds on the disk changes only
   by a call on that very file, across calls on other files, failed transfers, power
   failures and reboots. *)
Promised == [n \in Tracked |-> IF Settled(n) THEN OnDisk(n) ELSE Unknown]
InProgress == IF Busy /\ job.name \in Tracked
              THEN <<[name |-> job.name, text |-> job.text]>> ELSE <<>>
NewTexts == {CutText(t) : t \in Contents} \cup {<<>>, NoFile}
Promise == INSTANCE VfsSpec
              WITH Files <- Tracked, Texts <- NewTexts,
                   files <- Promised, calls <- InProgress
IsFileSystem == Promise!FileSpec

(* "Si la tabla está vacía en disco, crear un archivo de bienvenida": boot writes the
   welcome file only when the table on the disk is empty. *)
WelcomeOnlyIfEmpty ==
    [][boots' # boots /\ job'.todo # <<>> => \A i \in Slots : ~meta'[i].used]_vars
-----------------------------------------------------------------------------
(* What makes the two inductive.  The tables in memory and on the disk agree on the
   settled files, so that either may replace the other; and a call in progress works on
   the entry of its own file, and has written what it no longer has to write. *)
TablesAgree ==
    \A n \in Tracked, i \in Slots : Settled(n) =>
        /\ Named(meta, n, i) <=> Named(file_table, n, i)
        /\ Named(meta, n, i) => meta[i].size = file_table[i].size

Deleting ==
    /\ job.todo = <<0>> /\ job.text = NoFile
    /\ ~file_table[job.idx].used
    /\ job.name \in Tracked => Missing(file_table, job.name)

Creating == Head(job.todo) = 0 /\ Len(job.todo) > 1
Writing ==
    /\ file_table[job.idx].used /\ file_table[job.idx].name = Stored(job.name)
    /\ Len(job.text) <= FILE_SECTORS
    /\ ~Creating => file_table[job.idx].size = Len(job.text)
    /\ \A k \in DOMAIN job.text :
          job.failed \/ data[job.idx][k] = job.text[k] \/ \E j \in DOMAIN job.todo : job.todo[j] = k

JobRight == Busy => job.todo[Len(job.todo)] = 0 /\ (Deleting \/ Writing)

VfsInv ==
    /\ TypeOK /\ NamesUnique /\ UniqueIn(meta)
    /\ JobRight /\ TablesAgree /\ CompletedCallsLast
=============================================================================
