-------------------------------- MODULE Paging --------------------------------
(***************************************************************************)
(* The paging of src/kernel/paging.c over the physical memory manager, and *)
(* the processor's cache of translations.                                  *)
(*                                                                         *)
(* paging_init is the first caller of pmm_alloc_page: a page directory,    *)
(* one page table, the identity map of the table's pages, then CR0.PG.  It *)
(* runs with interrupts off, in two steps, one per call it makes.          *)
(*                                                                         *)
(* page_map and page_unmap store one entry (the field assignments compile  *)
(* to one store of the word) and then execute invlpg.  Interrupts may be   *)
(* on, so anything can happen in between, a second call for the same page  *)
(* included.  Callers leave the pages of the kernel and of the tables as   *)
(* they are: the kernel reads the tables at their physical addresses.      *)
(***************************************************************************)
EXTENDS Pmm

CONSTANTS
    ENTRIES,    \* PAGE_TABLE_ENTRIES
    Remapped,   \* the virtual pages callers map and unmap
    Frames,     \* the frames they map them to
    Flags,      \* the flags they use: sets of "present", "rw", "user"
    Callers     \* the processes that do so

(* The kernel lies in the pages the identity map covers, and nobody remaps it. *)
ASSUME PagingAssumption ==
    /\ ENTRIES \in Nat \ {0} /\ RESERVED <= ENTRIES
    /\ Remapped \subseteq Nat \ 0..RESERVED - 1
    /\ Frames \subseteq Nat
    /\ Flags \subseteq SUBSET {"present", "rw", "user"}

VARIABLES
    stage,                  \* paging_init: "directory", "table", then "done"
    kernel_page_directory,  \* a page, or NULL
    kernel_page_table,      \* kernel_page_tables[0]: a page, or NULL
    entries,                \* the entries of that table
    pg,                     \* CR0.PG
    tlb,                    \* the translations the processor has cached
    pending,                \* the pages whose entry a caller has stored, not flushed
    halted                  \* a page fault has reached isr_handler

mmu == <<entries, pg, tlb, pending>>
tables == <<stage, kernel_page_directory, kernel_page_table>>
pagingVars == <<vars, tables, mmu, halted>>

NULL == 0
NoPage == -1
Entry == [flags : SUBSET {"present", "rw", "user"}, frame : Nat]
NoEntry == [flags |-> {}, frame |-> 0]
Identity(v) == [flags |-> {"present", "rw", "user"}, frame |-> v]

PagingTypeOK ==
    /\ TypeOK
    /\ stage \in {"directory", "table", "done"}
    /\ kernel_page_directory \in Nat /\ kernel_page_table \in Nat
    /\ entries \in [0..ENTRIES - 1 -> Entry]
    /\ pg \in BOOLEAN
    /\ tlb \in [0..ENTRIES - 1 -> Entry]
    /\ pending \in [Callers -> Remapped \cup {NoPage}]
    /\ halted \in BOOLEAN

PagingInit ==
    /\ Init
    /\ stage = "directory"
    /\ kernel_page_directory = NULL /\ kernel_page_table = NULL
    /\ entries = [v \in 0..ENTRIES - 1 |-> NoEntry]
    /\ pg = FALSE
    /\ tlb = [v \in 0..ENTRIES - 1 |-> NoEntry]
    /\ pending = [c \in Callers |-> NoPage]
    /\ halted = FALSE

(* What pmm_alloc_page returns: page 0 is the null pointer. *)
Allocated(p) ==
    \/ pmm_alloc_page /\ bitmap' = bitmap \cup {p} /\ p \notin bitmap
    \/ phase = "run" /\ ~PagesLeft /\ p = NULL /\ UNCHANGED vars

AllocDirectory ==
    /\ stage = "directory"
    /\ \E p \in Bits \cup {NULL} :
          /\ Allocated(p)
          /\ kernel_page_directory' = p
          /\ stage' = IF p = NULL THEN "done" ELSE "table"
    /\ UNCHANGED <<kernel_page_table, mmu, halted>>

(* The table is filled with the identity map, entered in the directory, and paging is
   switched on; without a table, paging stays off. *)
MutNoNullTest(p) == TRUE
TableReady(p) == p # NULL
AllocTable ==
    /\ stage = "table"
    /\ \E p \in Bits \cup {NULL} :
          /\ Allocated(p)
          /\ kernel_page_table' = p
          /\ pg' = TableReady(p)
          /\ entries' = IF TableReady(p)
                        THEN [v \in 0..ENTRIES - 1 |-> Identity(v)] ELSE entries
    /\ stage' = "done"
    /\ UNCHANGED <<kernel_page_directory, tlb, pending, halted>>

(* The directory has one entry: the page table that holds the entry of v. *)
Covered(v) == kernel_page_table # NULL /\ v < ENTRIES

(* The tables are read at their physical addresses, through the identity map if
   paging is on. *)
Own == {kernel_page_directory, kernel_page_table} \ {NULL}
Reachable == pg => \A t \in Own : t < ENTRIES

CanCall(c, v) ==
    /\ stage = "done" /\ ~halted /\ kernel_page_directory # NULL
    /\ pending[c] = NoPage
    /\ v \notin Own

(* page_map returns at once where the directory has no table.  Where the tables lie
   beyond the identity map the first access faults, and isr_handler halts. *)
Store(c, v, entry) ==
    /\ Reachable /\ Covered(v)
    /\ entries' = [entries EXCEPT ![v] = entry]
    /\ pending' = [pending EXCEPT ![c] = v]
    /\ UNCHANGED <<vars, tables, pg, tlb, halted>>

page_map(c, v, frame, flags) ==
    CanCall(c, v) /\ Store(c, v, [flags |-> flags, frame |-> frame])

page_unmap(c, v) ==
    /\ CanCall(c, v) /\ Covered(v)
    /\ Store(c, v, [entries[v] EXCEPT !.flags = @ \ {"present"}])

(* The call ends with the translation of its page dropped from the cache. *)
MutFlushNone(v) == tlb
FlushPage(v) == [tlb EXCEPT ![v] = NoEntry]
invlpg(c) ==
    /\ pending[c] # NoPage /\ ~halted
    /\ tlb' = FlushPage(pending[c])
    /\ pending' = [pending EXCEPT ![c] = NoPage]
    /\ UNCHANGED <<vars, tables, entries, pg, halted>>

TableFault ==
    /\ \E c \in Callers, v \in Remapped : CanCall(c, v) /\ ~Reachable
    /\ halted' = TRUE
    /\ UNCHANGED <<vars, tables, mmu>>

(* page_get_physical looks at the table, not at the cache. *)
page_get_physical(v) ==
    IF Covered(v) /\ "present" \in entries[v].flags THEN entries[v].frame ELSE NULL

(* The processor: an access to a page fills the cache from the table, if the entry is
   present, and whatever is cached may be dropped. *)
Walk(v) ==
    /\ pg /\ ~halted
    /\ tlb[v] = NoEntry /\ "present" \in entries[v].flags
    /\ tlb' = [tlb EXCEPT ![v] = entries[v]]
    /\ UNCHANGED <<vars, tables, entries, pg, pending, halted>>

Evict(v) ==
    /\ tlb[v] # NoEntry /\ ~halted
    /\ tlb' = [tlb EXCEPT ![v] = NoEntry]
    /\ UNCHANGED <<vars, tables, entries, pg, pending, halted>>

(* The other callers of the page manager start after paging_init and keep their hands
   off its pages. *)
PmmStep ==
    /\ ~halted
    /\ \/ FreeUsable \/ UsableFreed \/ ProtectKernel \/ Booted
       \/ stage = "done" /\ pmm_alloc_page
       \/ stage = "done" /\ \E addr \in 0..total_pages * PAGE_SIZE - 1 :
             addr \div PAGE_SIZE \notin Own /\ pmm_free_page(addr)
    /\ UNCHANGED <<tables, mmu, halted>>

PagingNext ==
    \/ PmmStep
    \/ AllocDirectory \/ AllocTable
    \/ \E c \in Callers :
          \/ invlpg(c)
          \/ \E v \in Remapped :
                \/ page_unmap(c, v)
                \/ \E frame \in Frames, flags \in Flags : page_map(c, v, frame, flags)
    \/ TableFault
    \/ \E v \in Remapped \cap 0..ENTRIES - 1 : Walk(v) \/ Evict(v)

PagingSpec == PagingInit /\ [][PagingNext]_pagingVars
-----------------------------------------------------------------------------
(* However calls and accesses interleave, a page that no caller is in the middle of
   remapping is accessed as the table says: the processor holds no translation of it
   from before the last page_map or page_unmap, and page_get_physical answers with the
   frame that is accessed. *)
TlbCoherent ==
    \A v \in 0..ENTRIES - 1 :
        v \notin {pending[c] : c \in Callers} /\ tlb[v] # NoEntry =>
            tlb[v] = entries[v] /\ page_get_physical(v) = tlb[v].frame

(* Paging is on only with a directory and a table that are two pages of their own: no
   page of the kernel, and no page the manager will hand out again. *)
TablesKept ==
    pg => /\ kernel_page_directory # kernel_page_table
          /\ {kernel_page_directory, kernel_page_table} \subseteq owned \cap bitmap
          /\ boot.how # "none" =>
                {kernel_page_directory, kernel_page_table} \cap Kernel = {}
-----------------------------------------------------------------------------
(* What makes the two inductive. *)
CacheFilled ==
    \A v \in 0..ENTRIES - 1 :
        tlb[v] # NoEntry => pg /\ "present" \in tlb[v].flags
TablesOwned ==
    /\ kernel_page_directory # NULL => phase = "run" /\ kernel_page_directory \in owned
    /\ stage = "table" => kernel_page_directory # NULL
    /\ pg => stage = "done" /\ kernel_page_directory # NULL /\ kernel_page_table # NULL
PagingInv == PagingTypeOK /\ TlbCoherent /\ TablesKept /\ CacheFilled /\ TablesOwned
=============================================================================
