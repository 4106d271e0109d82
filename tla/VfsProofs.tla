------------------------------ MODULE VfsProofs ------------------------------
(***************************************************************************)
(* Proofs about the file system of Vfs.tla, for every number of entries    *)
(* and sectors, every set of names and contents, and every number of       *)
(* faults and boots.                                                       *)
(***************************************************************************)
EXTENDS Vfs, TLAPS

(* The parts of a sequence that is not empty. *)
LEMMA HeadTail ==
    ASSUME NEW S, NEW s \in Seq(S), s # <<>>
    PROVE  /\ Head(s) = s[1] /\ Head(s) \in S /\ Tail(s) \in Seq(S)
           /\ Len(s) \in Nat \ {0} /\ Len(Tail(s)) = Len(s) - 1
           /\ \A i \in 1..Len(s)-1 : Tail(s)[i] = s[i + 1]
           /\ Tail(s) = <<>> <=> Len(s) = 1
  <1>1. Len(s) \in Nat \ {0}
    OBVIOUS
  <1>2. Head(s) = s[1] /\ Head(s) \in S
    BY <1>1
  <1>3. /\ Tail(s) \in Seq(S) /\ Len(Tail(s)) = Len(s) - 1
        /\ \A i \in 1..Len(s)-1 : Tail(s)[i] = s[i + 1]
    BY <1>1
  <1>4. Tail(s) = <<>> <=> Len(s) = 1
    <2>1. ASSUME NEW t \in Seq(S)  PROVE t = <<>> <=> Len(t) = 0
      OBVIOUS
    <2>2. ASSUME NEW n \in Nat  PROVE n - 1 = 0 <=> n = 1
      OBVIOUS
    <2>3. Tail(s) = <<>> <=> Len(s) - 1 = 0
      BY <1>3, <2>1, Zenon
    <2> QED  BY <1>1, <2>2, <2>3, Zenon
  <1> QED  BY <1>1, <1>2, <1>3, <1>4, Zenon

(* A cut name is no name the user gives, and two names are stored apart. *)
LEMMA StoredApart ==
    ASSUME NEW n, NEW m
    PROVE  /\ Stored(n) = <<m>> => n \notin Long /\ n = m
           /\ n \notin Long => Stored(n) = <<n>>
           /\ <<n>> # <<>>
  BY DEF Stored

(* Vfs's cut of a text fits a file. *)
LEMMA CutFits ==
    ASSUME NEW text \in Contents
    PROVE  CutText(text) \in Seq(STRING) /\ Len(CutText(text)) <= FILE_SECTORS
  <1>1. text \in Seq(STRING) /\ FILE_SECTORS \in Nat
    BY VfsAssumption
  <1> QED  BY <1>1 DEF CutText

(* The writes of a text end with the table and reach every sector of the text. *)
LEMMA WritesAll ==
    ASSUME NEW text \in Seq(STRING), Len(text) <= FILE_SECTORS
    PROVE  /\ Writes(text) \in Seq(0..FILE_SECTORS)
           /\ Len(Writes(text)) > 1
           /\ Writes(text)[Len(Writes(text))] = 0
           /\ Head(Writes(text)) = 1
           /\ \A k \in DOMAIN text : k \in DOMAIN Writes(text) /\ Writes(text)[k] = k
  <1> DEFINE n == IF text = <<>> THEN 1 ELSE Len(text)
             s == [k \in 1..n |-> k]
  <1>1. FILE_SECTORS \in Nat \ {0} /\ n \in 1..FILE_SECTORS /\ Len(text) <= n
    BY VfsAssumption
  <1>2. s \in Seq(0..FILE_SECTORS) /\ Len(s) = n
    BY <1>1
  <1>3. <<0>> \in Seq(0..FILE_SECTORS) /\ Len(<<0>>) = 1 /\ <<0>>[1] = 0
    BY <1>1
  <1>4. Writes(text) = s \o <<0>>
    BY DEF Writes
  <1>5. \A k \in 1..n : s[k] = k
    OBVIOUS
  <1> HIDE DEF s, n
  <1>6. /\ s \o <<0>> \in Seq(0..FILE_SECTORS) /\ Len(s \o <<0>>) = n + 1
        /\ (s \o <<0>>)[n + 1] = 0
        /\ \A k \in 1..n : (s \o <<0>>)[k] = k
    BY <1>1, <1>2, <1>3, <1>5
  <1>7. Head(s \o <<0>>) = 1
    BY <1>1, <1>6
  <1> QED  BY <1>1, <1>4, <1>6, <1>7

(* A tracked name that is in a table is there once. *)
LEMMA OneEntry ==
    ASSUME NEW m \in [Slots -> Entry], UniqueIn(m), NEW n \in Tracked, NEW i \in Slots,
           Named(m, n, i)
    PROVE  /\ \A j \in Slots : Named(m, n, j) => j = i
           /\ ~Missing(m, n)
           /\ EntryOf(m, n) = i
  <1>1. \A j \in Slots : Named(m, n, j) => j = i
    BY StoredApart DEF UniqueIn, Named, Tracked
  <1>2. Slots = 0..MAX_FILES-1 /\ MAX_FILES \in Nat
    BY VfsAssumption DEF Slots
  <1>3. \A s \in Slots : Found(m, n, s) <=> s = i
    BY <1>1, <1>2 DEF Found
  <1> QED  BY <1>1, <1>3 DEF Missing, EntryOf

(* A step that leaves the entry of a tracked file, and its data, leaves the file. *)
LEMMA FileKept ==
    ASSUME meta \in [Slots -> Entry], meta' \in [Slots -> Entry],
           UniqueIn(meta), UniqueIn(meta'), NEW n \in Tracked,
           \A i \in Slots : Named(meta, n, i) <=> Named(meta', n, i),
           \A i \in Slots : Named(meta, n, i)
                            => meta'[i].size = meta[i].size /\ data'[i] = data[i]
    PROVE  OnDisk(n)' = OnDisk(n)
  <1>1. CASE Missing(meta, n)
    <2>1. Missing(meta', n)
      BY <1>1 DEF Missing
    <2> QED  BY <1>1, <2>1 DEF OnDisk, Slots
  <1>2. CASE ~Missing(meta, n)
    <2>1. PICK i \in Slots : Named(meta, n, i)
      BY <1>2 DEF Missing
    <2>2. ~Missing(meta, n) /\ EntryOf(meta, n) = i
      BY <2>1, OneEntry
    <2>3. ~Missing(meta', n) /\ EntryOf(meta', n) = i
      BY <2>1, OneEntry
    <2>4. OnDisk(n) = [k \in 1..meta[i].size |-> data[i][k]]
      BY <2>2 DEF OnDisk
    <2>5. OnDisk(n)' = [k \in 1..meta'[i].size |-> data'[i][k]]
      BY <2>3 DEF OnDisk
    <2> QED  BY <2>1, <2>4, <2>5
  <1> QED  BY <1>1, <1>2

(* A call that changes at most the entry idx of the table it has read, from one of no
   other file to one of no other file. *)
LEMMA CallKeeps ==
    ASSUME VfsInv, JobRight',
           NEW table \in {meta, file_table}, NEW new \in [Slots -> Entry], UniqueIn(new),
           NEW idx \in Slots, NEW name \in Names,
           NEW todo \in Seq(0..FILE_SECTORS), NEW text \in Seq(STRING),
           Call(table, new, todo, idx, text, name),
           \A i \in Slots \ {idx} : new[i] = table[i],
           todo = <<>> => new = table,
           todo # <<>> =>
             \A n \in Names \ {name} : ~Named(table, n, idx) /\ ~Named(new, n, idx)
    PROVE  VfsInv'
  <1> USE DEF VfsInv
  <1>1. meta' = meta /\ data' = data /\ boots' = boots /\ expect' = expect
    BY DEF Call, disk
  <1>2. file_table' = new /\ ~Busy
    BY DEF Call
  <1>3. job' = IF todo = <<>> THEN Idle ELSE Job(todo, idx, text, name, FALSE)
    BY DEF Call
  <1>4. job' \in [todo : Seq(0..FILE_SECTORS), idx : Slots, text : Seq(STRING),
                  name : Names, failed : BOOLEAN]
    BY <1>3, VfsAssumption DEF Idle, Job, Slots
  <1>5. faults' \in 0..MaxFaults
    BY VfsAssumption DEF TypeOK, Call, vfs_sync_from_disk, Fault
  <1>6. TypeOK'
    BY <1>1, <1>2, <1>4, <1>5, SMTT(30) DEF TypeOK, Slots, Sectors, Entry, Tracked
  <1>7. NamesUnique' /\ UniqueIn(meta)'
    BY <1>1, <1>2, SMTT(30) DEF NamesUnique, UniqueIn, Slots, Stored
  <1>8. ASSUME NEW n \in Tracked, Settled(n)'
        PROVE  Settled(n) /\ (todo = <<>> \/ n # name)
    BY <1>1, <1>2, <1>3, <1>8 DEF Settled, Busy, Job, Idle
  <1>9. TablesAgree'
    <2> SUFFICES ASSUME NEW n \in Tracked, NEW i \in Slots, Settled(n)'
                 PROVE  /\ Named(meta, n, i) <=> Named(new, n, i)
                        /\ Named(meta, n, i) => meta[i].size = new[i].size
      BY <1>1, <1>2 DEF TablesAgree, Named, Slots, Tracked
    <2>1. Settled(n) /\ (todo = <<>> \/ n # name) /\ n \in Names
      BY <1>8 DEF Tracked
    <2>2. /\ Named(meta, n, i) <=> Named(table, n, i)
          /\ Named(meta, n, i) => meta[i].size = table[i].size
      BY <2>1 DEF TablesAgree
    <2>3. CASE i = idx /\ todo # <<>>
      BY <2>1, <2>2, <2>3
    <2>4. CASE i # idx \/ todo = <<>>
      BY <2>2, <2>4 DEF Named
    <2> QED  BY <2>3, <2>4
  <1>10. CompletedCallsLast'
    <2> SUFFICES ASSUME NEW n \in Tracked, Settled(n)'
                 PROVE  OnDisk(n)' = expect[n]
      BY <1>1 DEF CompletedCallsLast, Tracked
    <2>1. OnDisk(n) = expect[n]
      BY <1>8 DEF CompletedCallsLast
    <2>2. OnDisk(n)' = OnDisk(n)
      BY <1>1, FileKept DEF TypeOK
    <2> QED  BY <2>1, <2>2
  <1> QED  BY <1>6, <1>7, <1>9, <1>10

(* A call that only reads. *)
LEMMA ReadKeeps ==
    ASSUME VfsInv, NEW table \in {meta, file_table}, NEW name \in Names,
           Call(table, table, <<>>, 0, <<>>, name)
    PROVE  VfsInv'
  <1>1. job' = Idle
    BY DEF Call
  <1>2. JobRight'
    BY <1>1 DEF JobRight, Busy, Idle, Job
  <1>3. table \in [Slots -> Entry] /\ UniqueIn(table)
    BY DEF VfsInv, TypeOK, NamesUnique
  <1>4. 0 \in Slots /\ <<>> \in Seq(0..FILE_SECTORS) /\ <<>> \in Seq(STRING)
    BY VfsAssumption DEF Slots
  <1> QED  BY <1>2, <1>3, <1>4, CallKeeps

(* The sectors that create a file and write a text into it. *)
WritesNew(todo, text) ==
    /\ todo[Len(todo)] = 0 /\ Head(todo) = 0
    /\ Len(todo) > 1 \/ text = <<>>
    /\ Len(text) <= FILE_SECTORS
    /\ \A k \in DOMAIN text : \E j \in DOMAIN todo : todo[j] = k

(* vfs_create_file. *)
LEMMA CreateKeeps ==
    ASSUME VfsInv, NEW table \in {meta, file_table}, NEW name \in Names, NEW i \in Slots,
           Missing(table, name), Free(table, i),
           NEW text \in Seq(STRING), NEW todo \in Seq(0..FILE_SECTORS),
           todo # <<>>, WritesNew(todo, text),
           Call(table, [table EXCEPT ![i] = NewEntry(name)], todo, i, text, name)
    PROVE  VfsInv'
  <1> DEFINE new == [table EXCEPT ![i] = NewEntry(name)]
  <1>1. table \in [Slots -> Entry] /\ UniqueIn(table)
    BY DEF VfsInv, TypeOK, NamesUnique
  <1>2. NewEntry(name) \in Entry
    BY VfsAssumption DEF NewEntry, Entry, StoredNames
  <1>3. new \in [Slots -> Entry] /\ new[i] = NewEntry(name)
        /\ \A j \in Slots \ {i} : new[j] = table[j]
    BY <1>1, <1>2
  <1>4. file_table' = new /\ job' = Job(todo, i, text, name, FALSE)
    BY DEF Call
  <1>10. Call(table, new, todo, i, text, name)
    OBVIOUS
  <1> HIDE DEF new
  <1>5. new[i].used /\ new[i].size = 0 /\ new[i].name = Stored(name)
    BY <1>3 DEF NewEntry
  <1>6. ~table[i].used
    BY DEF Free
  <1>7. \A n \in Names \ {name} : ~Named(table, n, i) /\ ~Named(new, n, i)
    BY <1>5, <1>6, StoredApart DEF Named
  <1>8. UniqueIn(new)
    <2> SUFFICES ASSUME NEW a \in Slots, NEW b \in Slots, a # b, new[a].used, new[b].used,
                        new[a].name = new[b].name
                 PROVE  \/ new[a].name = <<Welcome>> /\ 0 \in {a, b}
                        \/ \E n \in Long : new[a].name = Stored(n)
      BY DEF UniqueIn
    <2>1. CASE name \in Long /\ i \in {a, b}
      BY <1>5, <2>1
    <2>2. CASE name \notin Long /\ i \in {a, b}
      <3>1. Stored(name) = <<name>>
        BY <2>2, StoredApart
      <3> QED  BY <1>3, <1>5, <2>2, <3>1 DEF Missing, Named
    <2>3. CASE i \notin {a, b}
      BY <1>1, <1>3, <2>3 DEF UniqueIn
    <2> QED  BY <2>1, <2>2, <2>3
  <1>9. JobRight'
    <2>1. Writing'
      <3>1. /\ job'.idx = i /\ job'.name = name /\ job'.text = text /\ job'.todo = todo
        BY <1>4 DEF Job
      <3>2. \A k \in DOMAIN job'.text : \E j \in DOMAIN job'.todo : job'.todo[j] = k
        BY <3>1 DEF WritesNew
      <3>3. text = <<>> => Len(text) = 0
        OBVIOUS
      <3>4. ~Creating' => new[i].size = Len(text)
        BY <1>5, <3>1, <3>3 DEF Creating, WritesNew
      <3>5. file_table'[job'.idx] = new[i]
        BY <1>4, <3>1, Zenon
      <3>6. Len(job'.text) <= FILE_SECTORS
        BY <3>1 DEF WritesNew
      <3>7. Stored(name)' = Stored(name)
        BY DEF Stored
      <3> QED  BY <1>5, <3>1, <3>2, <3>4, <3>5, <3>6, <3>7, Zenon DEF Writing, Stored, WritesNew
    <2> QED  BY <1>4, <2>1 DEF JobRight, Job, WritesNew
  <1>11. new \in [Slots -> Entry]
    BY <1>3
  <1>12. \A j \in Slots \ {i} : new[j] = table[j]
    BY <1>3
  <1>13. todo = <<>> => new = table
    OBVIOUS
  <1>14. todo # <<>> => \A n \in Names \ {name} : ~Named(table, n, i) /\ ~Named(new, n, i)
    BY <1>7
  <1> QED  BY <1>8, <1>9, <1>10, <1>11, <1>12, <1>13, <1>14, CallKeeps, SMTT(30)

(* vfs_write_file of a file that exists. *)
LEMMA OverwriteKeeps ==
    ASSUME VfsInv, NEW table \in {meta, file_table}, NEW name \in Names, NEW i \in Slots,
           Found(table, name, i), NEW text \in Seq(STRING), Len(text) <= FILE_SECTORS,
           Call(table, [table EXCEPT ![i].size = Len(text)], Writes(text), i, text, name)
    PROVE  VfsInv'
  <1> DEFINE new == [table EXCEPT ![i].size = Len(text)]
             todo == Writes(text)
  <1>1. table \in [Slots -> Entry] /\ UniqueIn(table)
    BY DEF VfsInv, TypeOK, NamesUnique
  <1>2. Len(text) \in 0..FILE_SECTORS
    BY VfsAssumption
  <1>3. new \in [Slots -> Entry] /\ new[i] = [table[i] EXCEPT !.size = Len(text)]
        /\ \A j \in Slots \ {i} : new[j] = table[j]
    BY <1>1, <1>2 DEF Entry
  <1>4. Call(table, new, todo, i, text, name)
    OBVIOUS
  <1>5. /\ todo \in Seq(0..FILE_SECTORS) /\ todo # <<>> /\ Len(todo) > 1
        /\ todo[Len(todo)] = 0 /\ Head(todo) # 0
        /\ \A k \in DOMAIN text : \E j \in DOMAIN todo : todo[j] = k
    BY WritesAll
  <1>6. file_table' = new /\ job' = Job(todo, i, text, name, FALSE)
    BY <1>4, <1>5 DEF Call
  <1> HIDE DEF new, todo
  <1>7. table[i].used /\ table[i].name = <<name>>
    BY DEF Found, Named
  <1>8. new[i].used /\ new[i].size = Len(text) /\ new[i].name = <<name>>
    BY <1>1, <1>3, <1>7 DEF Entry
  <1>9. Stored(name) = <<name>>
    <2>1. table[i].name \in StoredNames
      BY <1>1 DEF Entry
    <2>2. PICK n \in Names : Stored(n) = <<name>>
      BY <1>7, <2>1, StoredApart DEF StoredNames
    <2> QED  BY <2>2, StoredApart
  <1>10. \A n \in Names \ {name} : ~Named(table, n, i) /\ ~Named(new, n, i)
    BY <1>7, <1>8 DEF Named
  <1>11. UniqueIn(new)
    <2>1. \A j \in Slots : new[j].used = table[j].used /\ new[j].name = table[j].name
      BY <1>3, <1>7, <1>8, <1>1, Zenon DEF Entry
    <2> QED  BY <1>1, <2>1, Zenon DEF UniqueIn
  <1>12. JobRight'
    <2>1. /\ job'.idx = i /\ job'.name = name /\ job'.text = text /\ job'.todo = todo
      BY <1>6 DEF Job
    <2>2. file_table'[job'.idx] = new[i]
      BY <1>6, <2>1, Zenon
    <2>3. Stored(job.name)' = Stored(name)
      BY <2>1 DEF Stored
    <2>4. Writing'
      BY <1>5, <1>8, <1>9, <2>1, <2>2, <2>3, Zenon DEF Writing
    <2> QED  BY <1>5, <2>1, <2>4 DEF JobRight
  <1>13. todo \in Seq(0..FILE_SECTORS) /\ todo # <<>>
    BY <1>5
  <1>14. new \in [Slots -> Entry] /\ \A j \in Slots \ {i} : new[j] = table[j]
    BY <1>3
  <1> QED  BY <1>4, <1>13, <1>14, <1>10, <1>11, <1>12, CallKeeps

(* vfs_sync_to_disk: the write of the table. *)
TableWrite == <<0>>

(* vfs_delete_file. *)
LEMMA DeleteKeeps ==
    ASSUME VfsInv, NEW table \in {meta, file_table}, NEW name \in Names, NEW i \in Slots,
           Found(table, name, i),
           Call(table, [table EXCEPT ![i] = Unused], TableWrite, i, NoFile, name)
    PROVE  VfsInv'
  <1> DEFINE new == [table EXCEPT ![i] = Unused]
  <1>1. table \in [Slots -> Entry] /\ UniqueIn(table)
    BY DEF VfsInv, TypeOK, NamesUnique
  <1>2. Unused \in Entry
    BY VfsAssumption DEF Unused, Entry, StoredNames
  <1>3. new \in [Slots -> Entry] /\ new[i] = Unused
        /\ \A j \in Slots \ {i} : new[j] = table[j]
    BY <1>1, <1>2
  <1>4. Call(table, new, <<0>>, i, NoFile, name)
    BY DEF TableWrite
  <1>12. NoFile \in Seq(STRING)
    BY VfsAssumption
  <1>5. /\ <<0>> \in Seq(0..FILE_SECTORS) /\ <<0>> # <<>>
        /\ Len(<<0>>) = 1 /\ <<0>>[1] = 0
    BY VfsAssumption
  <1>6. file_table' = new /\ job' = Job(<<0>>, i, NoFile, name, FALSE)
    BY <1>4, <1>5, Zenon DEF Call
  <1> HIDE DEF new
  <1>7. table[i].used /\ table[i].name = <<name>> /\ ~new[i].used
    BY <1>3 DEF Found, Named, Unused
  <1>8. \A n \in Names \ {name} : ~Named(table, n, i) /\ ~Named(new, n, i)
    BY <1>7 DEF Named
  <1>9. UniqueIn(new)
    BY <1>1, <1>3, <1>7, ZenonT(40) DEF UniqueIn
  <1>10. name \in Tracked => Missing(new, name)
    <2>1. name \in Tracked => \A j \in Slots : Named(table, name, j) => j = i
      BY <1>1, OneEntry DEF Found
    <2> QED  BY <1>3, <1>7, <2>1 DEF Missing, Named
  <1>11. JobRight'
    <2>1. /\ job'.idx = i /\ job'.name = name /\ job'.text = NoFile /\ job'.todo = <<0>>
      BY <1>6 DEF Job
    <2>2. ~file_table'[job'.idx].used
      BY <1>6, <1>7, <2>1, Zenon
    <2>3. job'.name \in Tracked => Missing(file_table', job'.name)
      BY <1>6, <1>10, <2>1, Zenon
    <2>4. Deleting'
      BY <2>1, <2>2, <2>3, Zenon DEF Deleting, NoFile, Tracked, Missing, Slots
    <2> QED  BY <1>5, <2>1, <2>4 DEF JobRight
  <1>13. new \in [Slots -> Entry] /\ \A j \in Slots \ {i} : new[j] = table[j]
    BY <1>3
  <1> DEFINE todo == <<0>>
  <1>14. Call(table, new, todo, i, NoFile, name)
    BY <1>4
  <1>15. todo \in Seq(0..FILE_SECTORS) /\ todo # <<>>
    BY <1>5
  <1> HIDE DEF todo
  <1> QED  BY <1>8, <1>9, <1>11, <1>12, <1>13, <1>14, <1>15, CallKeeps, SMTT(30)

(* The shell's calls. *)
LEMMA CallsKeep ==
    ASSUME VfsInv, NEW table \in {meta, file_table}, NEW name \in Names
    PROVE  /\ vfs_create_file(table, name) => VfsInv'
           /\ vfs_delete_file(table, name) => VfsInv'
           /\ \A text \in Contents : vfs_write_file(table, name, CutText(text)) => VfsInv'
           /\ vfs_read(table) => VfsInv'
  <1>1. ASSUME vfs_create_file(table, name)  PROVE VfsInv'
    <2>1. CASE ~(Missing(table, name) /\ \E i \in Slots : Free(table, i))
      BY <1>1, <2>1, ReadKeeps DEF vfs_create_file
    <2>2. CASE Missing(table, name) /\ \E i \in Slots : Free(table, i)
      <3>1. PICK i \in Slots :
              /\ Free(table, i)
              /\ Call(table, [table EXCEPT ![i] = NewEntry(name)], <<0>>, i, <<>>, name)
        BY <1>1, <2>2 DEF vfs_create_file
      <3> DEFINE todo == <<0>>
                 text == <<>>
      <3>2. /\ todo \in Seq(0..FILE_SECTORS) /\ todo # <<>>
            /\ todo[Len(todo)] = 0 /\ Head(todo) = 0
        BY VfsAssumption
      <3>3. text \in Seq(STRING) /\ Len(text) <= FILE_SECTORS /\ DOMAIN text = {}
        BY VfsAssumption
      <3>4. Len(todo) > 1 \/ text = <<>>
        OBVIOUS
      <3>5. Call(table, [table EXCEPT ![i] = NewEntry(name)], todo, i, text, name)
        BY <3>1
      <3> HIDE DEF todo, text
      <3> QED  BY <2>2, <3>1, <3>2, <3>3, <3>4, <3>5, CreateKeeps, Zenon DEF WritesNew
    <2> QED  BY <2>1, <2>2
  <1>2. ASSUME vfs_delete_file(table, name)  PROVE VfsInv'
    BY <1>2, DeleteKeeps DEF vfs_delete_file, TableWrite
  <1>3. ASSUME NEW raw \in Contents, vfs_write_file(table, name, CutText(raw))
        PROVE  VfsInv'
    <2> DEFINE text == CutText(raw)
    <2>1. text \in Seq(STRING) /\ Len(text) <= FILE_SECTORS
      BY CutFits
    <2>2. vfs_write_file(table, name, text)
      BY <1>3
    <2> HIDE DEF text
    <2>3. ASSUME NEW i \in Slots, Found(table, name, i),
                 Call(table, [table EXCEPT ![i].size = Len(text)], Writes(text), i, text, name)
          PROVE  VfsInv'
      BY <2>1, <2>3, OverwriteKeeps
    <2>4. ASSUME NEW i \in Slots, Missing(table, name), Free(table, i),
                 Call(table, [table EXCEPT ![i] = NewEntry(name)], TableWrite \o Writes(text),
                      i, text, name)
          PROVE  VfsInv'
      <3> DEFINE w == Writes(text)
                 todo == <<0>> \o w
      <3>1. /\ w \in Seq(0..FILE_SECTORS) /\ Len(w) > 1 /\ w[Len(w)] = 0
            /\ \A k \in DOMAIN text : k \in DOMAIN w /\ w[k] = k
        BY <2>1, WritesAll
      <3>2. Call(table, [table EXCEPT ![i] = NewEntry(name)], todo, i, text, name)
        BY <2>4 DEF TableWrite
      <3> HIDE DEF w
      <3>3. <<0>> \in Seq(0..FILE_SECTORS) /\ Len(<<0>>) = 1 /\ <<0>>[1] = 0
        BY VfsAssumption
      <3>4. /\ todo \in Seq(0..FILE_SECTORS) /\ Len(todo) = Len(w) + 1 /\ todo[1] = 0
            /\ \A k \in 1..Len(w) : todo[k + 1] = w[k]
        BY <3>1, <3>3
      <3> HIDE DEF todo
      <3>5. /\ todo # <<>> /\ Head(todo) = 0 /\ Len(todo) > 1
            /\ todo[Len(todo)] = 0
        BY <3>1, <3>4
      <3>6. \A k \in DOMAIN text : \E j \in DOMAIN todo : todo[j] = k
        <4> TAKE k \in DOMAIN text
        <4>1. k \in 1..Len(w) /\ w[k] = k
          BY <3>1
        <4>2. k + 1 \in DOMAIN todo /\ todo[k + 1] = k
          BY <3>1, <3>4, <4>1
        <4> QED  BY <4>2
      <3>7. WritesNew(todo, text)
        BY <2>1, <3>5, <3>6, Zenon DEF WritesNew
      <3> QED  BY <2>1, <2>4, <3>2, <3>4, <3>5, <3>7, CreateKeeps, Zenon
    <2> QED  BY <2>2, <2>3, <2>4, Zenon DEF vfs_write_file, TableWrite
  <1>4. ASSUME vfs_read(table)  PROVE VfsInv'
    BY <1>4, ReadKeeps, VfsAssumption DEF vfs_read
  <1> QED  BY <1>1, <1>2, <1>3, <1>4

(* What a sector write does to the disk and to the table in memory. *)
LEMMA WriteStep ==
    ASSUME VfsInv, WriteNext
    PROVE  /\ TypeOK'
           /\ \A i \in Slots : /\ file_table'[i].used = file_table[i].used
                               /\ file_table'[i].name = file_table[i].name
                               /\ i # job.idx => file_table'[i] = file_table[i]
           /\ file_table'[job.idx] = file_table[job.idx] \/ Creating
           /\ Creating => file_table'[job.idx].size = Len(job.text)
           /\ meta' = meta \/ meta' = file_table
           /\ \A i \in Slots \ {job.idx} : data'[i] = data[i]
  <1> DEFINE k == Head(job.todo)
             rest == Tail(job.todo)
  <1>1. job \in [todo : Seq(0..FILE_SECTORS), idx : Slots, text : Seq(STRING),
                 name : Names, failed : BOOLEAN]
    BY DEF VfsInv, TypeOK
  <1>2. job.todo \in Seq(0..FILE_SECTORS) /\ job.todo # <<>> /\ job.text \in Seq(STRING)
        /\ job.idx \in Slots /\ job.name \in Names
    BY <1>1 DEF WriteNext, Busy
  <1>3. k \in 0..FILE_SECTORS /\ rest \in Seq(0..FILE_SECTORS)
    BY <1>2, HeadTail, Zenon
  <1>4. Text(k) \in STRING
    BY <1>2, VfsAssumption DEF Text
  <1>5. /\ data \in [Slots -> [Sectors -> STRING]] /\ meta \in [Slots -> Entry]
        /\ file_table \in [Slots -> Entry] /\ expect \in [Tracked -> Seq(STRING)]
        /\ faults \in 0..MaxFaults /\ boots' \in 0..MaxBoots
    BY DEF VfsInv, TypeOK, WriteNext
  <1>6. ata_write_sector(k) \/ (Fault /\ UNCHANGED disk)
    BY DEF WriteNext
  <1>7. (meta' = meta \/ meta' = file_table) /\ meta' \in [Slots -> Entry]
    BY <1>5, <1>6 DEF ata_write_sector, disk
  <1>8. /\ data' \in [Slots -> [Sectors -> STRING]]
        /\ \A i \in Slots \ {job.idx} : data'[i] = data[i]
    <2>1. k # 0 => k \in Sectors
      BY <1>3, VfsAssumption DEF Sectors
    <2>2. k # 0 => [data EXCEPT ![job.idx][k] = Text(k)] \in [Slots -> [Sectors -> STRING]]
      BY <1>2, <1>4, <1>5, <2>1
    <2> HIDE DEF k
    <2>3. CASE data' = data
      BY <1>5, <2>3
    <2>4. CASE k # 0 /\ data' = [data EXCEPT ![job.idx][k] = Text(k)]
      BY <1>5, <2>2, <2>4
    <2> QED  BY <1>6, <2>3, <2>4 DEF ata_write_sector, disk
  <1>9. faults' \in 0..MaxFaults
    BY <1>5, <1>6, VfsAssumption DEF ata_write_sector, Fault
  <1>10. PICK failed \in BOOLEAN :
           /\ job' = IF rest = <<>> THEN Idle
                     ELSE [job EXCEPT !.todo = rest, !.failed = failed]
           /\ expect' = IF rest # <<>> THEN expect
                        ELSE [expect EXCEPT ![job.name] =
                                IF failed THEN Unknown ELSE job.text]
    <2>1. (job.failed \/ faults' # faults) \in BOOLEAN
      OBVIOUS
    <2> QED  BY <2>1, Zenon DEF WriteNext
  <1>11. job' \in [todo : Seq(0..FILE_SECTORS), idx : Slots, text : Seq(STRING),
                   name : Names, failed : BOOLEAN]
    <2>1. 0 \in Slots /\ Welcome \in Names /\ <<>> \in Seq(STRING)
          /\ <<>> \in Seq(0..FILE_SECTORS)
      BY VfsAssumption DEF Slots
    <2>2. Idle \in [todo : Seq(0..FILE_SECTORS), idx : Slots, text : Seq(STRING),
                    name : Names, failed : BOOLEAN]
      BY <2>1 DEF Idle, Job
    <2> HIDE DEF rest
    <2>3. [job EXCEPT !.todo = rest, !.failed = failed]
            \in [todo : Seq(0..FILE_SECTORS), idx : Slots, text : Seq(STRING),
                 name : Names, failed : BOOLEAN]
      BY <1>1, <1>3, Zenon
    <2> QED  BY <1>10, <2>2, <2>3
  <1>12. expect' \in [Tracked -> Seq(STRING)]
    BY <1>2, <1>5, <1>10, VfsAssumption, Zenon
  <1>13. file_table' = IF Creating THEN [file_table EXCEPT ![job.idx].size = Len(job.text)]
                       ELSE file_table
    BY DEF WriteNext, Resized, Creating
  <1>14. Creating => Len(job.text) \in 0..FILE_SECTORS
    <2>1. Creating => ~Deleting
      <3>1. ~(Len(<<0>>) > 1)
        OBVIOUS
      <3> QED  BY <3>1, Zenon DEF Creating, Deleting
    <2>2. Creating => Len(job.text) <= FILE_SECTORS
      BY <2>1 DEF VfsInv, JobRight, Writing, WriteNext
    <2> QED  BY <1>2, <2>2, VfsAssumption
  <1>15. /\ file_table' \in [Slots -> Entry]
         /\ \A i \in Slots : /\ file_table'[i].used = file_table[i].used
                             /\ file_table'[i].name = file_table[i].name
                             /\ i # job.idx => file_table'[i] = file_table[i]
         /\ file_table'[job.idx] = file_table[job.idx] \/ Creating
         /\ Creating => file_table'[job.idx].size = Len(job.text)
    <2> DEFINE size == Len(job.text)
    <2>1. Creating => size \in 0..FILE_SECTORS
      BY <1>14
    <2>2. file_table' = IF Creating THEN [file_table EXCEPT ![job.idx].size = size]
                        ELSE file_table
      BY <1>13
    <2>3. Creating => file_table'[job.idx].size = size
      <3> HIDE DEF size
      <3> QED  BY <1>2, <1>5, <2>2 DEF Entry
    <2>4. Creating => file_table'[job.idx].size = Len(job.text)
      BY <2>3
    <2> HIDE DEF size
    <2> QED  BY <1>2, <1>5, <2>1, <2>2, <2>4, ZenonT(30) DEF Entry
  <1>16. TypeOK'
    BY <1>5, <1>7, <1>8, <1>9, <1>11, <1>12, <1>15
       DEF TypeOK, Slots, Sectors, Entry, Tracked, StoredNames, Stored
  <1> QED  BY <1>7, <1>8, <1>15, <1>16

(* The file of the call that ends with this write: the table the write puts on the
   disk is the one in memory, and every sector of the text is there. *)
LEMMA LastWrite ==
    ASSUME VfsInv, WriteNext, Tail(job.todo) = <<>>,
           NEW n \in Tracked, n = job.name, ~job.failed, faults' = faults
    PROVE  /\ meta' = file_table /\ file_table' = file_table
           /\ OnDisk(n)' = job.text
  <1>1. job \in [todo : Seq(0..FILE_SECTORS), idx : Slots, text : Seq(STRING),
                 name : Names, failed : BOOLEAN]
    BY DEF VfsInv, TypeOK
  <1>2. job.todo \in Seq(0..FILE_SECTORS) /\ job.todo # <<>> /\ job.text \in Seq(STRING)
        /\ job.idx \in Slots
    BY <1>1 DEF WriteNext, Busy
  <1>3. Len(job.todo) = 1 /\ job.todo[1] = 0 /\ Head(job.todo) = 0
    <2>1. Len(job.todo) = 1 /\ Head(job.todo) = job.todo[1]
      BY <1>2, HeadTail
    <2> QED  BY <2>1 DEF VfsInv, JobRight, WriteNext
  <1>4. faults \in Nat
    BY VfsAssumption DEF VfsInv, TypeOK
  <1>5. meta' = file_table /\ data' = data
    BY <1>3, <1>4 DEF WriteNext, ata_write_sector, Fault
  <1>6. file_table' = file_table /\ ~Creating
    BY <1>3 DEF WriteNext, Resized, Creating
  <1>7. CASE Deleting
    <2>1. Missing(meta', n)
      BY <1>5, <1>7 DEF Deleting
    <2> QED  BY <1>5, <1>6, <1>7, <2>1 DEF OnDisk, Missing, Slots, Named, Deleting
  <1>8. CASE Writing
    <2> DEFINE i == job.idx
               text == job.text
    <2>1. /\ i \in Slots /\ text \in Seq(STRING)
          /\ file_table \in [Slots -> Entry] /\ UniqueIn(file_table)
      BY <1>2 DEF VfsInv, TypeOK, NamesUnique
    <2>2. Named(meta', n, i)
      <3>1. Stored(n) = <<n>>
        BY StoredApart DEF Tracked
      <3> QED  BY <1>5, <1>8, <3>1 DEF Named, Writing
    <2>3. meta'[i].size = Len(text)
      BY <1>5, <1>6, <1>8 DEF Writing
    <2>4. \A k \in DOMAIN text : data'[i][k] = text[k]
      <3> TAKE k \in DOMAIN text
      <3>1. k # 0
        BY <2>1
      <3>2. DOMAIN job.todo = {1}
        BY <1>2, <1>3
      <3> QED  BY <1>3, <1>5, <1>8, <3>1, <3>2 DEF Writing
    <2>5. ~Missing(meta', n) /\ EntryOf(meta', n) = i
      BY <1>5, <2>1, <2>2, OneEntry
    <2>6. OnDisk(n)' = [k \in 1..meta'[i].size |-> data'[i][k]]
      BY <2>5 DEF OnDisk
    <2>7. text = [k \in 1..Len(text) |-> text[k]] /\ DOMAIN text = 1..Len(text)
      BY <2>1
    <2> HIDE DEF text, i
    <2>8. OnDisk(n)' = text
      BY <2>3, <2>4, <2>6, <2>7
    <2> QED  BY <1>5, <1>6, <2>8 DEF text
  <1> QED  BY <1>7, <1>8 DEF VfsInv, JobRight, WriteNext

(* A call that goes on has written what it no longer has to write, unless a transfer
   of it failed. *)
LEMMA JobGoesOn ==
    ASSUME VfsInv, WriteNext
    PROVE  JobRight'
  <1> DEFINE k == Head(job.todo)
             rest == Tail(job.todo)
             text == job.text
             i == job.idx
  <1>1. job \in [todo : Seq(0..FILE_SECTORS), idx : Slots, text : Seq(STRING),
                 name : Names, failed : BOOLEAN]
    BY DEF VfsInv, TypeOK
  <1>2. job.todo \in Seq(0..FILE_SECTORS) /\ job.todo # <<>> /\ text \in Seq(STRING)
        /\ i \in Slots
    BY <1>1 DEF WriteNext, Busy
  <1>3. CASE rest = <<>>
    BY <1>3 DEF WriteNext, JobRight, Busy, Idle, Job
  <1>4. CASE rest # <<>>
    <2>1. /\ k = job.todo[1] /\ k \in 0..FILE_SECTORS
          /\ Len(job.todo) \in Nat /\ Len(job.todo) > 1 /\ Len(rest) = Len(job.todo) - 1
          /\ rest \in Seq(0..FILE_SECTORS)
          /\ \A j \in 1..Len(rest) : rest[j] = job.todo[j + 1]
      <3> DEFINE s == job.todo
      <3>1. s \in Seq(0..FILE_SECTORS) /\ s # <<>>
        BY <1>2
      <3> HIDE DEF s
      <3>2. /\ Head(s) = s[1] /\ Head(s) \in 0..FILE_SECTORS
            /\ Tail(s) \in Seq(0..FILE_SECTORS)
            /\ Len(s) \in Nat \ {0} /\ Len(Tail(s)) = Len(s) - 1
            /\ \A j \in 1..Len(s)-1 : Tail(s)[j] = s[j + 1]
            /\ Tail(s) = <<>> <=> Len(s) = 1
        BY <3>1, HeadTail, Zenon
      <3>3. Tail(s) # <<>>
        BY <1>4 DEF s
      <3>4. Len(s) > 1 /\ \A j \in 1..Len(Tail(s)) : Tail(s)[j] = s[j + 1]
        BY <3>2, <3>3
      <3> QED  BY <3>2, <3>4 DEF s
    <2>2. job' = [job EXCEPT !.todo = rest, !.failed = (job.failed \/ faults' # faults)]
      BY <1>4 DEF WriteNext
    <2>3. /\ job'.todo = rest /\ job'.idx = i /\ job'.text = text /\ job'.name = job.name
          /\ job.failed => job'.failed
          /\ faults' # faults => job'.failed
      BY <1>1, <2>2, Zenon
    <2>4. job.todo[Len(job.todo)] = 0 /\ Writing
      <3>1. ~Deleting
        <4>1. ~(Len(<<0>>) > 1)
          OBVIOUS
        <4> QED  BY <2>1, <4>1, Zenon DEF Deleting
      <3> QED  BY <3>1 DEF VfsInv, JobRight, WriteNext
    <2>5. rest[Len(rest)] = 0
      BY <2>1, <2>4
    <2>6. /\ file_table'[i].used /\ file_table'[i].name = Stored(job.name)
          /\ file_table'[i].size = Len(text)
      BY <1>2, <2>4, WriteStep DEF Writing
    <2>7. ASSUME NEW d \in DOMAIN text
          PROVE  job'.failed \/ data'[i][d] = text[d] \/ \E j \in DOMAIN rest : rest[j] = d
      <3>1. d \in 1..Len(text) /\ d \in Sectors /\ text[d] \in STRING
        BY <1>2, <2>4, VfsAssumption DEF Writing, Sectors
      <3>2. data \in [Slots -> [Sectors -> STRING]]
        BY DEF VfsInv, TypeOK
      <3>3. CASE job.failed \/ faults' # faults
        BY <2>3, <3>3
      <3>4. CASE faults' = faults
        <4>1. ata_write_sector(k)
          <5>1. faults \in Nat
            BY VfsAssumption DEF VfsInv, TypeOK
          <5> QED  BY <3>4, <5>1 DEF WriteNext, Fault
        <4>2. Text(d) = text[d]
          BY DEF Text
        <4>3. data[i][d] = text[d] => data'[i][d] = text[d]
          BY <1>2, <2>1, <3>1, <3>2, <4>1, <4>2 DEF ata_write_sector
        <4>4. k = d => data'[i][d] = text[d]
          BY <1>2, <2>1, <3>1, <3>2, <4>1, <4>2 DEF ata_write_sector
        <4>5. ASSUME NEW j \in DOMAIN job.todo, job.todo[j] = d, j # 1
              PROVE  \E h \in DOMAIN rest : rest[h] = d
          <5>1. j - 1 \in DOMAIN rest /\ rest[j - 1] = d
            BY <1>2, <2>1, <4>5, SMTT(30)
          <5> QED  BY <5>1
        <4> QED  BY <2>1, <2>3, <2>4, <4>3, <4>4, <4>5 DEF Writing
      <3> QED  BY <3>3, <3>4
    <2>8. Writing'
      <3>1. Stored(job.name)' = Stored(job.name)
        BY <2>3 DEF Stored
      <3>2. Len(text) <= FILE_SECTORS
        BY <2>4 DEF Writing
      <3> HIDE DEF rest, text, i
      <3> QED  BY <2>3, <2>6, <2>7, <3>1, <3>2, Zenon DEF Writing
    <2> QED  BY <2>3, <2>5, <2>8, Zenon DEF JobRight
  <1> QED  BY <1>3, <1>4

(* A sector write of a call. *)
LEMMA WriteKeeps ==
    ASSUME VfsInv, WriteNext
    PROVE  VfsInv'
  <1> DEFINE rest == Tail(job.todo)
             failed == job.failed \/ faults' # faults
  <1>1. /\ TypeOK'
        /\ \A i \in Slots : /\ file_table'[i].used = file_table[i].used
                            /\ file_table'[i].name = file_table[i].name
                            /\ i # job.idx => file_table'[i] = file_table[i]
        /\ meta' = meta \/ meta' = file_table
        /\ \A i \in Slots \ {job.idx} : data'[i] = data[i]
    BY WriteStep
  <1>2. UniqueIn(file_table')
    <2>1. UniqueIn(file_table)
      BY DEF VfsInv, NamesUnique
    <2>2. \A i \in Slots : /\ file_table'[i].used = file_table[i].used
                           /\ file_table'[i].name = file_table[i].name
      BY <1>1
    <2> QED  BY <2>1, <2>2, SMT DEF UniqueIn
  <1>3. UniqueIn(meta') /\ meta \in [Slots -> Entry] /\ meta' \in [Slots -> Entry]
    BY <1>1 DEF VfsInv, NamesUnique, TypeOK
  <1>4. NamesUnique' /\ UniqueIn(meta)'
    BY <1>2, <1>3 DEF NamesUnique, UniqueIn, Slots, Stored
  <1>5. job.name \in Names /\ job.idx \in Slots /\ expect \in [Tracked -> Seq(STRING)]
    BY DEF VfsInv, TypeOK
  <1>6. \A n \in Tracked : n # job.name => ~Named(file_table, n, job.idx)
    <2>1. Deleting \/ Writing
      BY DEF VfsInv, JobRight, WriteNext
    <2>2. Deleting => ~file_table[job.idx].used
      BY DEF Deleting
    <2>3. Writing => file_table[job.idx].name = Stored(job.name)
      BY DEF Writing
    <2> QED  BY <2>1, <2>2, <2>3, StoredApart, Zenon DEF Named
  <1>7. ASSUME NEW n \in Tracked, Settled(n)', n # job.name
        PROVE  Settled(n) /\ expect'[n] = expect[n]
    <2>1. expect'[n] = expect[n]
      BY <1>5, <1>7 DEF WriteNext
    <2> QED  BY <1>7, <2>1 DEF Settled
  <1>8. ASSUME NEW n \in Tracked, Settled(n)', n = job.name
        PROVE  /\ meta' = file_table /\ file_table' = file_table
               /\ OnDisk(n)' = expect'[n]
    <2>1. rest = <<>>
      <3>1. rest # <<>> => job'.name = job.name /\ job'.todo # <<>>
        BY DEF WriteNext, VfsInv, TypeOK
      <3> QED  BY <1>8, <3>1 DEF Settled, Busy
    <2>2. expect'[n] = IF failed THEN Unknown ELSE job.text
      BY <1>5, <1>8, <2>1 DEF WriteNext
    <2>3. ~failed
      BY <1>8, <2>2 DEF Settled, Unknown
    <2> QED  BY <1>8, <2>1, <2>2, <2>3, LastWrite
  <1>9. ASSUME NEW n \in Tracked, n # job.name, Settled(n), NEW i \in Slots
        PROVE  /\ Named(meta, n, i) <=> Named(file_table, n, i)
               /\ Named(meta, n, i) => meta[i].size = file_table[i].size /\ i # job.idx
               /\ Named(meta', n, i) <=> Named(file_table', n, i)
               /\ Named(meta', n, i) <=> Named(meta, n, i)
               /\ Named(meta, n, i) => /\ meta'[i].size = meta[i].size
                                       /\ meta'[i].size = file_table'[i].size
                                       /\ data'[i] = data[i]
    <2>1. /\ Named(meta, n, i) <=> Named(file_table, n, i)
          /\ Named(meta, n, i) => meta[i].size = file_table[i].size
      BY <1>9 DEF VfsInv, TablesAgree
    <2>2. Named(meta, n, i) => i # job.idx
      BY <1>6, <1>9, <2>1
    <2>3. Named(file_table', n, i) <=> Named(file_table, n, i)
      BY <1>1 DEF Named
    <2>4. Named(meta', n, i) <=> Named(meta, n, i)
      BY <1>1, <2>1
    <2> QED  BY <1>1, <2>1, <2>2, <2>3, <2>4
  <1>10. TablesAgree'
    <2> SUFFICES ASSUME NEW n \in Tracked, NEW i \in Slots, Settled(n)'
                 PROVE  /\ Named(meta', n, i) <=> Named(file_table', n, i)
                        /\ Named(meta', n, i) => meta'[i].size = file_table'[i].size
      BY DEF TablesAgree, Named, Slots, Tracked
    <2>1. CASE n = job.name
      BY <1>8, <2>1
    <2>2. CASE n # job.name
      BY <1>7, <1>9, <2>2
    <2> QED  BY <2>1, <2>2
  <1>11. CompletedCallsLast'
    <2> SUFFICES ASSUME NEW n \in Tracked, Settled(n)'
                 PROVE  OnDisk(n)' = expect'[n]
      BY DEF CompletedCallsLast, Tracked
    <2>1. CASE n = job.name
      BY <1>8, <2>1
    <2>2. CASE n # job.name
      <3>1. Settled(n) /\ expect'[n] = expect[n] /\ OnDisk(n) = expect[n]
        BY <1>7, <2>2, SMTT(30) DEF VfsInv, CompletedCallsLast
      <3>2. OnDisk(n)' = OnDisk(n)
        BY <1>3, <1>9, <2>2, <3>1, FileKept, SMTT(30) DEF VfsInv
      <3> QED  BY <3>1, <3>2
    <2> QED  BY <2>1, <2>2
  <1> QED  BY <1>1, <1>4, <1>10, <1>11, JobGoesOn DEF VfsInv

(* What vfs_init makes of the table it has read. *)
LEMMA BootRight ==
    ASSUME NEW m \in [Slots -> Entry], UniqueIn(m)
    PROVE  /\ BootTable(m) \in [Slots -> Entry] /\ UniqueIn(BootTable(m))
           /\ BootJob(m) \in [todo : Seq(0..FILE_SECTORS), idx : Slots, text : Seq(STRING),
                              name : Names, failed : BOOLEAN]
           /\ BootJob(m).name = Welcome
           /\ \A n \in Tracked, i \in Slots :
                /\ Named(BootTable(m), n, i) <=> Named(m, n, i)
                /\ Named(m, n, i) => BootTable(m)[i] = m[i]
           /\ BootJob(m).todo # <<>> =>
                /\ BootJob(m).todo = <<1, 0>> /\ BootJob(m).idx = 0
                /\ BootJob(m).text = WelcomeText /\ BootTable(m)[0] = WelcomeEntry
  <1>1. 0 \in Slots /\ Welcome \in Names /\ Stored(Welcome) = <<Welcome>>
        /\ WelcomeText \in Seq(STRING)
    BY VfsAssumption DEF Slots, Stored
  <1>2. WelcomeEntry \in Entry
    BY <1>1, VfsAssumption DEF WelcomeEntry, Entry, StoredNames
  <1>3. CASE m[0].used
    <2>1. BootTable(m) = m /\ BootJob(m) = Idle
      BY <1>3 DEF BootTable, BootJob
    <2>2. /\ Idle.name = Welcome /\ Idle.todo = <<>>
      BY DEF Idle, Job
    <2>3. <<>> \in Seq(0..FILE_SECTORS) /\ <<>> \in Seq(STRING)
      OBVIOUS
    <2>4. Idle \in [todo : Seq(0..FILE_SECTORS), idx : Slots, text : Seq(STRING),
                    name : Names, failed : BOOLEAN]
      BY <1>1, <2>3, SMTT(30) DEF Idle, Job
    <2> QED  BY <2>1, <2>2, <2>4
  <1>4. CASE ~m[0].used
    <2> DEFINE b == [m EXCEPT ![0] = WelcomeEntry]
    <2>1. BootTable(m) = b /\ BootJob(m) = Job(<<1, 0>>, 0, WelcomeText, Welcome, FALSE)
      BY <1>4 DEF BootTable, BootJob
    <2>2. b \in [Slots -> Entry] /\ b[0] = WelcomeEntry
          /\ \A i \in Slots \ {0} : b[i] = m[i]
      BY <1>1, <1>2
    <2> HIDE DEF b
    <2>3. WelcomeEntry.used /\ WelcomeEntry.name = <<Welcome>>
      BY DEF WelcomeEntry
    <2>4. UniqueIn(b)
      <3> SUFFICES ASSUME NEW i \in Slots, NEW j \in Slots, i # j, b[i].used, b[j].used,
                          b[i].name = b[j].name
                   PROVE  \/ b[i].name = <<Welcome>> /\ 0 \in {i, j}
                          \/ \E n \in Long : b[i].name = Stored(n)
        BY DEF UniqueIn
      <3>1. CASE 0 \in {i, j}
        BY <2>2, <2>3, <3>1
      <3>2. CASE 0 \notin {i, j}
        BY <2>2, <3>2 DEF UniqueIn
      <3> QED  BY <3>1, <3>2
    <2>5. \A n \in Tracked, i \in Slots :
            /\ Named(b, n, i) <=> Named(m, n, i)
            /\ Named(m, n, i) => b[i] = m[i]
      BY <1>4, <2>2, <2>3, StoredApart DEF Named, Tracked
    <2>6. <<1, 0>> \in Seq(0..FILE_SECTORS)
      BY VfsAssumption
    <2>7. Job(<<1, 0>>, 0, WelcomeText, Welcome, FALSE)
            \in [todo : Seq(0..FILE_SECTORS), idx : Slots, text : Seq(STRING),
                 name : Names, failed : BOOLEAN]
      BY <1>1, <2>6 DEF Job
    <2>8. /\ BootJob(m).todo = <<1, 0>> /\ BootJob(m).idx = 0
          /\ BootJob(m).text = WelcomeText /\ BootJob(m).name = Welcome
      BY <2>1 DEF Job
    <2> QED  BY <2>1, <2>2, <2>4, <2>5, <2>7, <2>8, Zenon
  <1> QED  BY <1>3, <1>4

(* The job vfs_init leaves, if any, is a call on the welcome file. *)
LEMMA BootJobRight ==
    ASSUME NEW m \in [Slots -> Entry], UniqueIn(m), NEW j, j = BootJob(m), j.todo # <<>>
    PROVE  /\ j.todo[Len(j.todo)] = 0
           /\ BootTable(m)[j.idx].used /\ BootTable(m)[j.idx].name = Stored(j.name)
           /\ BootTable(m)[j.idx].size = Len(j.text) /\ Len(j.text) <= FILE_SECTORS
           /\ \A k \in DOMAIN j.text : \E h \in DOMAIN j.todo : j.todo[h] = k
  <1>1. /\ j.todo = <<1, 0>> /\ j.idx = 0 /\ j.name = Welcome
        /\ j.text = WelcomeText /\ BootTable(m)[0] = WelcomeEntry
    BY BootRight
  <1>2. WelcomeText \in Seq(STRING) /\ Len(WelcomeText) = 1 /\ DOMAIN WelcomeText = {1}
    BY VfsAssumption
  <1>3. Len(<<1, 0>>) = 2 /\ <<1, 0>>[2] = 0 /\ <<1, 0>>[1] = 1 /\ 1 \in DOMAIN <<1, 0>>
    OBVIOUS
  <1>4. /\ WelcomeEntry.used /\ WelcomeEntry.name = Stored(Welcome)
        /\ WelcomeEntry.size = 1 /\ 1 <= FILE_SECTORS
    BY VfsAssumption DEF WelcomeEntry, Stored
  <1>5. \A k \in DOMAIN j.text : \E h \in DOMAIN j.todo : j.todo[h] = k
    BY <1>1, <1>2, <1>3
  <1> QED  BY <1>1, <1>2, <1>3, <1>4, <1>5

(* A boot, from the table on the disk or from the one a reboot has just written. *)
LEMMA BootKeeps ==
    ASSUME VfsInv, NEW m \in {meta, file_table}, Boot(m)
    PROVE  VfsInv'
  <1>1. m \in [Slots -> Entry] /\ UniqueIn(m)
    BY DEF VfsInv, TypeOK, NamesUnique
  <1>2. Blank \in [Slots -> Entry] /\ UniqueIn(Blank)
    <2>1. Unused \in Entry /\ ~Unused.used
      BY VfsAssumption DEF Unused, Entry, StoredNames
    <2> QED  BY <2>1 DEF Blank, UniqueIn
  <1>3. /\ meta' = m /\ data' = data /\ boots' = boots + 1 /\ boots < MaxBoots
    BY DEF Boot
  <1>4. PICK t \in {m, Blank} : /\ file_table' = BootTable(t) /\ job' = BootJob(t)
                                /\ t = m \/ \A n \in Tracked : expect'[n] = Unknown
    BY DEF Boot
  <1>5. t \in [Slots -> Entry] /\ UniqueIn(t)
    BY <1>1, <1>2
  <1>6. expect' \in [Tracked -> Seq(STRING)]
    BY VfsAssumption DEF Boot, VfsInv, TypeOK
  <1>7. faults' \in 0..MaxFaults /\ boots' \in 0..MaxBoots
    BY <1>3, VfsAssumption, SMTT(30) DEF Boot, Fault, VfsInv, TypeOK
  <1>8. /\ file_table' \in [Slots -> Entry]
        /\ job' \in [todo : Seq(0..FILE_SECTORS), idx : Slots, text : Seq(STRING),
                     name : Names, failed : BOOLEAN]
    BY <1>4, <1>5, BootRight, SMTT(30)
  <1>9. TypeOK'
    <2>1. data \in [Slots -> [Sectors -> STRING]]
      BY DEF VfsInv, TypeOK
    <2> QED  BY <1>1, <1>3, <1>6, <1>7, <1>8, <2>1
                DEF TypeOK, Slots, Sectors, Entry, Tracked, StoredNames, Stored
  <1>10. NamesUnique' /\ UniqueIn(meta)'
    <2>1. UniqueIn(file_table')
      BY <1>4, <1>5, BootRight
    <2> QED  BY <1>1, <1>3, <2>1 DEF NamesUnique, UniqueIn, Slots, Stored
  <1>11. JobRight'
    <2> SUFFICES ASSUME job'.todo # <<>>
                 PROVE  job'.todo[Len(job'.todo)] = 0 /\ Writing'
      BY DEF JobRight, Busy
    <2>1. /\ job'.todo[Len(job'.todo)] = 0
          /\ file_table'[job'.idx].used /\ file_table'[job'.idx].name = Stored(job'.name)
          /\ file_table'[job'.idx].size = Len(job'.text) /\ Len(job'.text) <= FILE_SECTORS
          /\ \A k \in DOMAIN job'.text : \E h \in DOMAIN job'.todo : job'.todo[h] = k
      BY <1>4, <1>5, BootJobRight
    <2> QED  BY <2>1, Zenon DEF Writing, Stored
  <1>12. ASSUME NEW n \in Tracked, Settled(n)'
         PROVE  Settled(n) /\ t = m /\ expect'[n] = expect[n]
    <2>1. expect'[n] # Unknown
      BY <1>12 DEF Settled, Unknown
    <2>2. t = m
      BY <1>4, <2>1
    <2>3. expect' = IF Busy THEN [expect EXCEPT ![job.name] = Unknown] ELSE expect
      BY <2>1 DEF Boot
    <2>4. expect \in [Tracked -> Seq(STRING)]
      BY DEF VfsInv, TypeOK
    <2>5. Busy => job.name # n
      BY <2>1, <2>3, <2>4
    <2>6. expect'[n] = expect[n]
      BY <2>3, <2>4, <2>5
    <2> QED  BY <2>1, <2>2, <2>5, <2>6 DEF Settled
  <1>13. ASSUME NEW n \in Tracked, Settled(n)', NEW i \in Slots
         PROVE  /\ Named(meta', n, i) <=> Named(file_table', n, i)
                /\ Named(meta', n, i) => meta'[i].size = file_table'[i].size
                /\ Named(meta', n, i) <=> Named(meta, n, i)
                /\ Named(meta, n, i) => meta'[i].size = meta[i].size
    <2>1. Settled(n) /\ t = m
      BY <1>12, <1>13
    <2>2. /\ Named(meta, n, i) <=> Named(file_table, n, i)
          /\ Named(meta, n, i) => meta[i].size = file_table[i].size
      BY <2>1 DEF VfsInv, TablesAgree
    <2>3. /\ Named(file_table', n, i) <=> Named(m, n, i)
          /\ Named(m, n, i) => file_table'[i] = m[i]
      BY <1>1, <1>4, <2>1, BootRight
    <2> QED  BY <1>3, <2>2, <2>3
  <1>14. TablesAgree'
    <2> SUFFICES ASSUME NEW n \in Tracked, NEW i \in Slots, Settled(n)'
                 PROVE  /\ Named(meta', n, i) <=> Named(file_table', n, i)
                        /\ Named(meta', n, i) => meta'[i].size = file_table'[i].size
      BY DEF TablesAgree, Named, Slots, Tracked
    <2> QED  BY <1>13
  <1>15. CompletedCallsLast'
    <2> SUFFICES ASSUME NEW n \in Tracked, Settled(n)'
                 PROVE  OnDisk(n)' = expect'[n]
      BY DEF CompletedCallsLast, Tracked
    <2>1. Settled(n) /\ expect'[n] = expect[n] /\ OnDisk(n) = expect[n]
      BY <1>12 DEF VfsInv, CompletedCallsLast
    <2>2. meta \in [Slots -> Entry] /\ UniqueIn(meta)
      BY DEF VfsInv, TypeOK
    <2>3. OnDisk(n)' = OnDisk(n)
      BY <1>1, <1>3, <1>13, <2>2, FileKept
    <2> QED  BY <2>1, <2>3
  <1> QED  BY <1>9, <1>10, <1>11, <1>14, <1>15 DEF VfsInv

(* The first boot. *)
LEMMA InitRight == Init => VfsInv
  <1> SUFFICES ASSUME Init  PROVE VfsInv
    OBVIOUS
  <1>1. Blank \in [Slots -> Entry] /\ UniqueIn(Blank) /\ \A n, i : i \in Slots => ~Named(Blank, n, i)
    <2>1. Unused \in Entry /\ ~Unused.used
      BY VfsAssumption DEF Unused, Entry, StoredNames
    <2> QED  BY <2>1 DEF Blank, UniqueIn, Named
  <1>2. meta = Blank /\ file_table = BootTable(Blank) /\ job = BootJob(Blank)
    BY SMTT(30) DEF Init
  <1>3. /\ file_table \in [Slots -> Entry] /\ UniqueIn(file_table)
        /\ job \in [todo : Seq(0..FILE_SECTORS), idx : Slots, text : Seq(STRING),
                    name : Names, failed : BOOLEAN]
        /\ \A n \in Tracked, i \in Slots : ~Named(file_table, n, i)
    BY <1>1, <1>2, BootRight, SMTT(30)
  <1>4. TypeOK
    BY <1>1, <1>2, <1>3, VfsAssumption DEF TypeOK, Init
  <1>5. JobRight
    <2> SUFFICES ASSUME job.todo # <<>>
                 PROVE  job.todo[Len(job.todo)] = 0 /\ Writing
      BY SMTT(30) DEF JobRight, Busy
    <2>1. /\ job.todo[Len(job.todo)] = 0
          /\ file_table[job.idx].used /\ file_table[job.idx].name = Stored(job.name)
          /\ file_table[job.idx].size = Len(job.text) /\ Len(job.text) <= FILE_SECTORS
          /\ \A k \in DOMAIN job.text : \E h \in DOMAIN job.todo : job.todo[h] = k
      BY <1>1, <1>2, BootJobRight
    <2> QED  BY <2>1, Zenon DEF Writing
  <1>6. TablesAgree
    BY <1>1, <1>2, <1>3 DEF TablesAgree
  <1>7. CompletedCallsLast
    BY <1>1, <1>2 DEF CompletedCallsLast, OnDisk, Missing, Init
  <1> QED  BY <1>1, <1>2, <1>3, <1>4, <1>5, <1>6, <1>7 DEF VfsInv, NamesUnique

(* The inductive invariant: the calls of vfs.c, the sector writes they make, power
   failures and reboots all keep it. *)
THEOREM Invariance == Spec => []VfsInv
  <1>1. ASSUME VfsInv, [Next]_vars  PROVE VfsInv'
    <2>1. ASSUME NEW table \in {meta, file_table}, NEW name \in Names,
                 \/ vfs_create_file(table, name)
                 \/ vfs_delete_file(table, name)
                 \/ \E text \in Contents : vfs_write_file(table, name, CutText(text))
          PROVE  VfsInv'
      BY <1>1, <2>1, CallsKeep
    <2>2. ASSUME NEW table \in {meta, file_table}, vfs_read(table)  PROVE VfsInv'
      BY <1>1, <2>2, CallsKeep, VfsAssumption
    <2>3. CASE WriteNext
      BY <1>1, <2>3, WriteKeeps
    <2>4. CASE PowerFails
      BY <1>1, <2>4, BootKeeps DEF PowerFails
    <2>5. CASE power_reboot
      BY <1>1, <2>5, BootKeeps DEF power_reboot
    <2>6. CASE UNCHANGED vars
      <3>1. /\ file_table' = file_table /\ meta' = meta /\ data' = data /\ job' = job
            /\ faults' = faults /\ boots' = boots /\ expect' = expect
        BY <2>6 DEF vars
      <3>2. TypeOK'
        BY <1>1, <3>1, SMTT(30) DEF VfsInv, TypeOK, Slots, Sectors, Entry, Tracked,
              StoredNames, Stored
      <3>3. NamesUnique' /\ UniqueIn(meta)'
        BY <1>1, <3>1, SMTT(30) DEF VfsInv, NamesUnique, UniqueIn, Slots, Stored
      <3>4. JobRight'
        BY <1>1, <3>1, ZenonT(30) DEF VfsInv, JobRight, Busy, Deleting, Writing,
              Creating, Missing, Named,
                          NoFile, Tracked, Stored, Slots
      <3>5. \A n : Settled(n)' <=> Settled(n)
        BY <3>1 DEF Settled, Busy, Unknown
      <3>6. \A n : OnDisk(n)' = OnDisk(n)
        BY <3>1, SMTT(30) DEF OnDisk, Missing, EntryOf, Found, Named, Slots, NoFile
      <3>7. TablesAgree'
        BY <1>1, <3>1, <3>5 DEF VfsInv, TablesAgree, Named, Tracked, Slots
      <3>8. CompletedCallsLast'
        BY <1>1, <3>1, <3>5, <3>6 DEF VfsInv, CompletedCallsLast, Tracked
      <3> QED  BY <3>2, <3>3, <3>4, <3>7, <3>8 DEF VfsInv
    <2> QED  BY <1>1, <2>1, <2>2, <2>3, <2>4, <2>5, <2>6 DEF Next
  <1> QED  BY InitRight, <1>1, PTL DEF Spec

(* The tables, the data sectors and the running call always have their types: vfs.c
   never puts more into an entry than a file holds. *)
THEOREM TypeCorrect == Spec => []TypeOK
  <1>1. VfsInv => TypeOK
    BY DEF VfsInv
  <1> QED  BY <1>1, Invariance, PTL

(* vfs_create_file and vfs_write_file never give a name to two entries, across calls,
   failed transfers, power failures and reboots, except a name that is cut and the
   welcome file of vfs_init. *)
THEOREM NamesUniqueHolds == Spec => []NamesUnique
  <1>1. VfsInv => NamesUnique
    BY DEF VfsInv
  <1> QED  BY <1>1, Invariance, PTL

(* What vfs_read_file finds on the disk is what the last completed call on the file
   made of it, whatever calls on other files failed or were cut short since and
   however often the machine was restarted. *)
THEOREM CompletedCallsLastHolds == Spec => []CompletedCallsLast
  <1>1. VfsInv => CompletedCallsLast
    BY DEF VfsInv
  <1> QED  BY <1>1, Invariance, PTL
-----------------------------------------------------------------------------
(* What is promised of the files is what the history variable says of all but the one
   a call is working on. *)
PromisedRight ==
    Promised = [n \in Tracked |-> IF Busy /\ job.name = n THEN Unknown ELSE expect[n]]

LEMMA PromisedIs == VfsInv => PromisedRight
  <1> SUFFICES ASSUME VfsInv, NEW n \in Tracked
               PROVE  (IF Settled(n) THEN OnDisk(n) ELSE Unknown)
                      = (IF Busy /\ job.name = n THEN Unknown ELSE expect[n])
    BY DEF PromisedRight, Promised
  <1>1. CASE Settled(n)
    BY <1>1 DEF VfsInv, CompletedCallsLast, Settled
  <1>2. CASE ~Settled(n)
    BY <1>2 DEF Settled
  <1> QED  BY <1>1, <1>2

(* The first step of a call promises nothing of its file any more, or is unnoticed. *)
LEMMA CallBegins ==
    ASSUME PromisedRight, PromisedRight', VfsInv,
           NEW table, NEW new, NEW todo, NEW idx, NEW text, NEW name,
           Call(table, new, todo, idx, text, name), todo # <<>> => text \in NewTexts
    PROVE  [Promise!FileNext]_(Promise!fileVars)
  <1>1. ~Busy /\ expect' = expect /\ expect \in [Tracked -> Seq(STRING)]
    BY DEF Call, VfsInv, TypeOK
  <1>2. Promised = expect /\ InProgress = <<>>
    BY <1>1 DEF PromisedRight, InProgress
  <1>3. CASE todo = <<>>
    <2>1. ~Busy'
      BY <1>3 DEF Call, Idle, Job, Busy
    <2>2. Promised' = expect /\ InProgress' = <<>>
      BY <1>1, <2>1 DEF PromisedRight, InProgress, Tracked
    <2> QED  BY <1>2, <2>2 DEF Promise!fileVars
  <1>4. CASE todo # <<>>
    <2>1. Busy' /\ job'.name = name /\ job'.text = text
      BY <1>4 DEF Call, Job, Busy
    <2>2. CASE name \in Tracked
      <3>1. InProgress' = <<[name |-> name, text |-> text]>>
        BY <2>1, <2>2 DEF InProgress, Tracked
      <3>2. Promised' = [expect EXCEPT ![name] = Unknown]
        BY <1>1, <2>1, <2>2, Zenon DEF PromisedRight, Tracked, Unknown
      <3>3. Promise!Begin(name, text)
        BY <1>2, <3>1, <3>2, Zenon DEF Promise!Begin
      <3> QED  BY <1>4, <2>2, <3>3 DEF Promise!FileNext
    <2>3. CASE name \notin Tracked
      <3>1. InProgress' = <<>>
        BY <2>1, <2>3 DEF InProgress, Tracked
      <3>2. Promised' = expect
        BY <1>1, <2>1, <2>3 DEF PromisedRight, Tracked
      <3> QED  BY <1>2, <3>1, <3>2, SMTT(30) DEF Promise!fileVars
    <2> QED  BY <2>2, <2>3
  <1> QED  BY <1>3, <1>4

(* A sector write is unnoticed, unless it is the last of its call. *)
LEMMA WriteCompletes ==
    ASSUME PromisedRight, PromisedRight', VfsInv, WriteNext
    PROVE  [Promise!FileNext]_(Promise!fileVars)
  <1> DEFINE rest == Tail(job.todo)
             failed == job.failed \/ faults' # faults
  <1>1. /\ Busy /\ expect \in [Tracked -> Seq(STRING)]
        /\ job' = IF rest = <<>> THEN Idle ELSE [job EXCEPT !.todo = rest, !.failed = failed]
        /\ expect' = IF rest # <<>> THEN expect
                     ELSE [expect EXCEPT ![job.name] = IF failed THEN Unknown ELSE job.text]
    BY DEF WriteNext, VfsInv, TypeOK
  <1>2. Promised = [n \in Tracked |-> IF job.name = n THEN Unknown ELSE expect[n]]
    BY <1>1 DEF PromisedRight
  <1>3. CASE rest # <<>>
    <2>1. Busy' /\ job'.name = job.name /\ job'.text = job.text /\ expect' = expect
      <3>1. job \in [todo : Seq(0..FILE_SECTORS), idx : Slots, text : Seq(STRING),
                      name : Names, failed : BOOLEAN]
        BY DEF VfsInv, TypeOK
      <3>2. job' = [job EXCEPT !.todo = rest, !.failed = failed] /\ expect' = expect
        BY <1>1, <1>3
      <3> HIDE DEF rest, failed
      <3>3. job'.todo = rest /\ job'.name = job.name /\ job'.text = job.text
        BY <3>1, <3>2
      <3> QED  BY <1>3, <3>2, <3>3 DEF Busy
    <2>2. Promised' = Promised
      BY <1>2, <2>1 DEF PromisedRight, Tracked, Unknown
    <2>3. InProgress' = InProgress
      <3>1. Busy
        BY <1>1
      <3> QED  BY <2>1, <3>1 DEF InProgress, Tracked
    <2> QED  BY <2>2, <2>3 DEF Promise!fileVars
  <1>4. CASE rest = <<>>
    <2>1. ~Busy' /\ expect' = [expect EXCEPT ![job.name] =
                                IF failed THEN Unknown ELSE job.text]
      BY <1>1, <1>4 DEF Busy, Idle, Job
    <2>2. Promised' = [n \in Tracked |-> expect'[n]] /\ InProgress' = <<>>
      BY <2>1 DEF PromisedRight, InProgress, Tracked
    <2>3. CASE job.name \notin Tracked
      <3>1. InProgress = <<>> /\ Promised' = Promised
        <4>1. \A n \in Tracked : expect'[n] = expect[n] /\ job.name # n
          BY <1>1, <2>1, <2>3
        <4> QED  BY <1>2, <2>2, <2>3, <4>1 DEF InProgress
      <3> QED  BY <2>2, <3>1 DEF Promise!fileVars
    <2>4. CASE job.name \in Tracked
      <3>1. InProgress = <<[name |-> job.name, text |-> job.text]>>
        BY <1>1, <2>4 DEF InProgress
      <3>2. Promised' = [Promised EXCEPT ![job.name] = IF failed THEN Unknown ELSE job.text]
        BY <1>1, <1>2, <2>1, <2>2, <2>4, SMTT(30)
      <3>3. InProgress # <<>> /\ InProgress[1].name = job.name
            /\ InProgress[1].text = job.text
        BY <3>1
      <3>4. CASE failed
        <4>1. Promised' = Promised
          BY <1>2, <2>4, <3>2, <3>4
        <4> QED  BY <2>2, <3>3, <4>1 DEF Promise!FileNext, Promise!CutShort
      <3>5. CASE ~failed
        BY <2>2, <3>2, <3>3, <3>5, Zenon DEF Promise!FileNext, Promise!Complete
      <3> QED  BY <3>4, <3>5
    <2> QED  BY <2>3, <2>4
  <1> QED  BY <1>3, <1>4

(* A boot cuts the running call short, or has lost the table. *)
LEMMA BootCutsShort ==
    ASSUME PromisedRight, PromisedRight', VfsInv, VfsInv', NEW m, Boot(m)
    PROVE  [Promise!FileNext]_(Promise!fileVars)
  <1>1. InProgress' = <<>>
    <2>1. PICK t : job' = BootJob(t)
      BY DEF Boot
    <2>2. job'.name = Welcome
      BY <2>1 DEF BootJob, Idle, Job
    <2> QED  BY <2>2 DEF InProgress, Tracked
  <1>2. Promised' = [n \in Tracked |-> expect'[n]]
    <2>1. PICK t : job' = BootJob(t)
      BY DEF Boot
    <2>2. job'.name = Welcome
      BY <2>1 DEF BootJob, Idle, Job
    <2> QED  BY <2>2 DEF PromisedRight, Tracked
  <1>3. CASE expect' = [n \in Tracked |-> Unknown]
    BY <1>1, <1>2, <1>3 DEF Promise!FileNext, Promise!Lose
  <1>4. CASE expect' = IF Busy THEN [expect EXCEPT ![job.name] = Unknown] ELSE expect
    <2>1. expect \in [Tracked -> Seq(STRING)]
      BY DEF VfsInv, TypeOK
    <2>2. Promised' = Promised
      BY <1>2, <1>4, <2>1 DEF PromisedRight
    <2>3. CASE InProgress = <<>>
      BY <1>1, <2>2, <2>3 DEF Promise!fileVars
    <2>4. CASE InProgress # <<>>
      BY <1>1, <2>2, <2>4 DEF Promise!FileNext, Promise!CutShort
    <2> QED  BY <2>3, <2>4
  <1> QED  BY <1>3, <1>4 DEF Boot

(* Every step of the file system is a step of VfsSpec or unnoticed there. *)
LEMMA StepIsFileStep ==
    ASSUME PromisedRight, PromisedRight', VfsInv, VfsInv', [Next]_vars
    PROVE  [Promise!FileNext]_(Promise!fileVars)
  <1>1. ASSUME NEW table, NEW name \in Names, vfs_create_file(table, name)
        PROVE  [Promise!FileNext]_(Promise!fileVars)
    <2>1. <<>> \in NewTexts
      BY DEF NewTexts
    <2>2. PICK new, todo, idx : Call(table, new, todo, idx, <<>>, name)
      BY <1>1, Zenon DEF vfs_create_file
    <2> QED  BY <2>1, <2>2, CallBegins
  <1>2. ASSUME NEW table, NEW name \in Names, vfs_delete_file(table, name)
        PROVE  [Promise!FileNext]_(Promise!fileVars)
    <2>1. NoFile \in NewTexts
      BY DEF NewTexts
    <2>2. PICK new, todo, idx : Call(table, new, todo, idx, NoFile, name)
      BY <1>2, Zenon DEF vfs_delete_file
    <2> QED  BY <2>1, <2>2, CallBegins
  <1>3. ASSUME NEW table, NEW name \in Names, NEW t \in Contents,
               vfs_write_file(table, name, CutText(t))
        PROVE  [Promise!FileNext]_(Promise!fileVars)
    <2>1. CutText(t) \in NewTexts
      BY Zenon DEF NewTexts
    <2>2. PICK new, todo, idx : Call(table, new, todo, idx, CutText(t), name)
      BY <1>3, Zenon DEF vfs_write_file
    <2> QED  BY <2>1, <2>2, CallBegins
  <1>4. ASSUME NEW table, vfs_read(table)
        PROVE  [Promise!FileNext]_(Promise!fileVars)
    BY <1>4, CallBegins DEF vfs_read
  <1>5. CASE WriteNext
    BY <1>5, WriteCompletes
  <1>6. CASE PowerFails \/ power_reboot
    BY <1>6, BootCutsShort DEF PowerFails, power_reboot
  <1>7. CASE UNCHANGED vars
    <2>1. job' = job /\ expect' = expect
      BY <1>7 DEF vars
    <2>2. Promised' = Promised /\ InProgress' = InProgress
      BY <2>1 DEF PromisedRight, InProgress, Busy, Tracked, Unknown
    <2> QED  BY <2>2 DEF Promise!fileVars
  <1> QED  BY <1>1, <1>2, <1>3, <1>4, <1>5, <1>6, <1>7, Zenon DEF Next

(* The file system implements VfsSpec: what vfs_read_file finds on the disk changes only
   by a call on that very file, whatever else fails, crashes or is restarted. *)
THEOREM IsFileSystemHolds == Spec => IsFileSystem
  <1>1. Init => Promise!FileInit
    <2> SUFFICES ASSUME Init  PROVE Promise!FileInit
      OBVIOUS
    <2>1. PromisedRight
      BY InitRight, PromisedIs, SMTT(30)
    <2>2. job.name = Welcome /\ expect = [n \in Tracked |-> NoFile]
      BY DEF Init, BootJob, Idle, Job
    <2>3. Promised = [n \in Tracked |-> NoFile]
      BY <2>1, <2>2 DEF PromisedRight, Tracked
    <2>4. InProgress = <<>>
      BY <2>2 DEF InProgress, Tracked
    <2> QED  BY <2>3, <2>4, SMTT(30) DEF Promise!FileInit
  <1> QED  BY <1>1, PromisedIs, StepIsFileStep, Invariance, PTL
              DEF Spec, IsFileSystem, Promise!FileSpec
=============================================================================
