--------------------------------- MODULE Elf ---------------------------------
(***************************************************************************)
(* The program loader of src/kernel/elf.c over the heap.  The shell calls  *)
(* elf_run with interrupts on, so between the allocations of two segments  *)
(* the processes that already run may allocate and free: a load is a       *)
(* sequence of steps, one per program header.                              *)
(*                                                                         *)
(* A file is what vfs_read_file leaves in the buffer: whether it passes    *)
(* the size test and elf_validate, its entry address, and its headers,     *)
(* with p_filesz <= p_memsz and the bytes of a segment inside the buffer.  *)
(* The segments' bytes are left out.  Nothing frees a segment: neither a   *)
(* load that fails nor the end of the process.                             *)
(***************************************************************************)
EXTENDS Heap

CONSTANTS
    Files,         \* the files elf_run is called with
    EMPTY_SIZE,    \* 512: allocated for a segment with p_memsz = 0
    FREE_SLOTS,    \* processes scheduler_add_user_process can still add
    MaxLoads       \* bound: calls of elf_run

Word == 0..LIMIT-1

ASSUME ElfAssumption ==
    /\ \A f \in Files :
          /\ f.valid \in BOOLEAN /\ f.e_entry \in Word
          /\ f.phdr \in Seq([load : BOOLEAN, vaddr : Word, memsz : Word])
    /\ EMPTY_SIZE \in Nat \ {0} /\ FREE_SLOTS \in Nat /\ MaxLoads \in Nat

VARIABLES
    job,        \* the load in progress: [file, i, entry, mem], or Idle
    programs,   \* the processes started: [file, entry, mem]
    calls       \* calls of elf_run so far

elf == <<job, programs, calls>>
elfVars == <<vars, elf>>

Idle == [i |-> 0]

(* mem[k] is history: the page whose block segment k was given. *)
NoMem == [k \in {} |-> 0]
Placed(mem, k, page) == [j \in DOMAIN mem \union {k} |-> IF j = k THEN page ELSE mem[j]]

(* An address is a page of the heap and a distance from the pointer kmalloc returned
   for it; page 0 stands for an address the loader did not translate. *)
At(page, offset) == [page |-> page, offset |-> offset]

ElfInit == Init /\ job = Idle /\ programs = {} /\ calls = 0

(* elf_run: a file that is missing, short or not valid makes it return -1. *)
elf_run(f) ==
    /\ job = Idle /\ calls < MaxLoads
    /\ calls' = calls + 1
    /\ job' = IF f.valid
              THEN [file |-> f, i |-> 1, entry |-> At(0, f.e_entry), mem |-> NoMem]
              ELSE Idle
    /\ UNCHANGED <<vars, programs>>

Header == job.file.phdr[job.i]
(* A segment whose end wraps holds no address. *)
HoldsEntry(f, h) == f.e_entry \in h.vaddr .. ((h.vaddr + h.memsz) % LIMIT) - 1

SegmentSize(h) == IF h.memsz > 0 THEN h.memsz ELSE EMPTY_SIZE

(* The entry point follows the segment it lies in to where the heap put it. *)
MutRawEntry(page) == job.entry
EntryWith(page) ==
    IF HoldsEntry(job.file, Header)
    THEN At(page, job.file.e_entry - Header.vaddr)
    ELSE job.entry

InLoop == job # Idle /\ intact /\ job.i <= Len(job.file.phdr)

SkipHeader ==
    /\ InLoop /\ ~Header.load
    /\ job' = [job EXCEPT !.i = @ + 1]
    /\ UNCHANGED <<vars, programs, calls>>

LoadSegment ==
    /\ InLoop /\ Header.load
    /\ \E page \in pool \union BlockPages :
          /\ kmalloc(SegmentSize(Header), page)
          /\ job' = [job EXCEPT !.i = @ + 1,
                                !.entry = EntryWith(page),
                                !.mem = Placed(@, job.i, page)]
    /\ UNCHANGED <<programs, calls>>

(* Out of memory: -1, and the segments loaded so far stay allocated. *)
SegmentFails ==
    /\ InLoop /\ Header.load
    /\ kmalloc_null(SegmentSize(Header))
    /\ job' = Idle
    /\ UNCHANGED <<programs, calls>>

(* A null entry point starts nothing; a full process table is not reported. *)
Started ==
    /\ job # Idle /\ intact /\ job.i > Len(job.file.phdr)
    /\ programs' =
          IF job.entry # At(0, 0) /\ Cardinality(programs) < FREE_SLOTS
          THEN programs \union {[file |-> job.file, entry |-> job.entry, mem |-> job.mem]}
          ELSE programs
    /\ job' = Idle
    /\ UNCHANGED <<vars, calls>>

PagesOf(mem) == {mem[k] : k \in DOMAIN mem}
Held == (IF job = Idle THEN {} ELSE PagesOf(job.mem))
            \union UNION {PagesOf(p.mem) : p \in programs}

(* The processes' SYS_MALLOC and SYS_FREE; they free pointers they were given. *)
Processes ==
    /\ \/ \E size \in Requests : \/ \E page \in pool \union BlockPages : kmalloc(size, page)
                                  \/ kmalloc_null(size)
       \/ \E i \in DOMAIN blocks : blocks[i].page \notin Held /\ kfree(i)
    /\ UNCHANGED elf

ElfNext ==
    \/ \E f \in Files : elf_run(f)
    \/ SkipHeader \/ LoadSegment \/ SegmentFails \/ Started
    \/ Processes

ElfSpec == ElfInit /\ [][ElfNext]_elfVars
-----------------------------------------------------------------------------
(* A segment has its own block, which has room for it up to the size at which the
   heap's sums wrap; the entry point lies in segment k, at the distance it has there
   in the file. *)
Loaded(s, page, h) ==
    \E i \in DOMAIN s :
        /\ s[i].page = page /\ s[i].used /\ s[i].request = SegmentSize(h)
        /\ SegmentSize(h) <= LIMIT - HEADER - 4 => s[i].size >= SegmentSize(h) + HEADER
EntryIn(f, k, page, entry) ==
    HoldsEntry(f, f.phdr[k]) /\ entry = At(page, f.e_entry - f.phdr[k].vaddr)

(* As long as no header was overwritten, a program started by elf_run begins inside
   its own image: the entry point lies, at the distance it has in the file, in a block
   that is in use and was asked for with the size of the segment that holds it,
   whatever the other processes allocated and freed during and after the load. *)
EntryLoaded ==
    intact => \A p \in programs :
        (\E k \in DOMAIN p.mem : HoldsEntry(p.file, p.file.phdr[k])) =>
            \E k \in DOMAIN p.mem :
                LET h == p.file.phdr[k] IN
                /\ EntryIn(p.file, k, p.mem[k], p.entry)
                /\ p.entry.offset \in 0..h.memsz-1
                /\ Loaded(blocks, p.mem[k], h)

(* What makes it inductive: the same of the load in progress, and of every segment. *)
ImageRight(s, safe, f, mem, entry) ==
    /\ f \in Files /\ DOMAIN mem \subseteq DOMAIN f.phdr
    /\ (\E k \in DOMAIN mem : HoldsEntry(f, f.phdr[k]))
          => \E k \in DOMAIN mem : EntryIn(f, k, mem[k], entry)
    /\ safe => \A k \in DOMAIN mem : Loaded(s, mem[k], f.phdr[k])

LoaderInv ==
    /\ job # Idle =>
          /\ job = [file |-> job.file, i |-> job.i, entry |-> job.entry, mem |-> job.mem]
          /\ job.i \in Nat \ {0} /\ DOMAIN job.mem \subseteq 1..job.i-1
          /\ ImageRight(blocks, intact, job.file, job.mem, job.entry)
    /\ \A p \in programs : ImageRight(blocks, intact, p.file, p.mem, p.entry)
=============================================================================
