-------------------------------- MODULE Heap ---------------------------------
(***************************************************************************)
(* The kernel heap of src/kernel/heap.c over the page pool of PmmSpec,     *)
(* which Pmm implements.                                                   *)
(*                                                                         *)
(* A block starts on a page and its header holds its size, its used flag   *)
(* and its links; the list heap_head links is the sequence blocks.  The    *)
(* callers only free pointers they hold.  A call is one step: as the       *)
(* kernel runs, SYS_MALLOC and SYS_FREE have interrupts disabled.          *)
(***************************************************************************)
EXTENDS Integers, Sequences, FiniteSets

CONSTANTS
    PAGE_SIZE,   \* bytes in a page
    HEADER,      \* sizeof(heap_block_t)
    LIMIT,       \* 2^32: sizes are computed modulo this
    Memory,      \* pages the pool starts with
    Requests,    \* sizes asked for
    MaxTotal     \* bound: the heap stops growing at this many bytes

ASSUME HeapAssumption ==
    /\ PAGE_SIZE \in Nat \ {0} /\ HEADER \in Nat \ {0} /\ MaxTotal \in Nat
    /\ LIMIT \in Nat /\ LIMIT % 4 = 0 /\ HEADER % 4 = 0 /\ HEADER < LIMIT
    /\ Memory \subseteq Nat \ {0} /\ Requests \subseteq 0..LIMIT-1

VARIABLES
    pool,          \* the free pages: the pool of PmmSpec
    blocks,        \* the block list
    heap_total,
    heap_used,
    intact         \* history: no header has been written over a block of the list

heap == <<blocks, heap_total, heap_used>>
vars == <<pool, blocks, heap_total, heap_used, intact>>

(* A size is rounded up to four bytes; near the highest size the sum wraps. *)
align4(size) == (((size + 3) % LIMIT) \div 4) * 4

(* What a block that serves a request needs, its header included. *)
MutHeaderForgotten(size) == align4(size)
SizeFor(size) == (align4(size) + HEADER) % LIMIT

PagesFor(bytes) == ((bytes + PAGE_SIZE - 1) % LIMIT) \div PAGE_SIZE

(* The pages the code takes a block to occupy: from its header on. *)
Span(page, bytes) == page .. page + PagesFor(bytes) - 1

(* request is history: what the holder of the block asked for. *)
Block == [page : Nat, size : Nat, used : BOOLEAN, request : Nat]

TypeOK ==
    /\ pool \subseteq Nat
    /\ blocks \in Seq(Block)
    /\ heap_total \in Nat
    /\ heap_used \in Nat
    /\ intact \in BOOLEAN

(* heap_init, once boot has filled the pool. *)
Init ==
    /\ pool = Memory
    /\ blocks = <<>>
    /\ heap_total = 0
    /\ heap_used = 0
    /\ intact = TRUE

(* The n lowest pages: what n calls of pmm_alloc_page take. *)
Lowest(n) == {p \in pool : Cardinality({q \in pool : q < p}) < n}
First == CHOOSE p \in pool : \A q \in pool : p <= q

(* The first free block of the list that is large enough. *)
Fits(i, size) == ~blocks[i].used /\ blocks[i].size >= SizeFor(size)

Reuse(size, page) ==
    \E i \in DOMAIN blocks :
        /\ Fits(i, size)
        /\ \A j \in 1..i-1 : ~Fits(j, size)
        /\ blocks[i].page = page
        /\ blocks' = [blocks EXCEPT ![i].used = TRUE, ![i].request = size]
        /\ heap_used' = heap_used + blocks[i].size
        /\ UNCHANGED <<pool, heap_total, intact>>

NoneFits(size) == \A i \in DOMAIN blocks : ~Fits(i, size)

(* create_block takes one page for the header, then the others the size asks for. *)
PagesTaken(size) == IF PagesFor(SizeFor(size)) = 0 THEN 1 ELSE PagesFor(SizeFor(size))

create_block(size, page) ==
    LET total_size == SizeFor(size)
    IN  /\ Cardinality(pool) >= PagesTaken(size)
        /\ heap_total + total_size <= MaxTotal
        /\ page = First
        /\ pool' = pool \ Lowest(PagesTaken(size))
        /\ blocks' = Append(blocks, [page |-> page, size |-> total_size,
                                     used |-> TRUE, request |-> size])
        /\ intact' = \A i \in DOMAIN blocks : blocks[i].page # page
        /\ heap_total' = heap_total + total_size
        /\ heap_used' = heap_used + total_size

(* Too few pages: the pool is emptied, then as many pages as were taken are freed
   from the first one on, whether or not they are the ones that were taken. *)
create_block_fails(size) ==
    /\ Cardinality(pool) < PagesTaken(size)
    /\ pool' = IF pool = {} THEN {} ELSE First .. First + Cardinality(pool) - 1
    /\ UNCHANGED <<heap, intact>>

BlockPages == {blocks[i].page : i \in DOMAIN blocks}

(* kmalloc returns a pointer behind the header at the start of the page, or NULL. *)
kmalloc(size, page) ==
    /\ intact
    /\ size # 0
    /\ Reuse(size, page) \/ (NoneFits(size) /\ create_block(size, page))

kmalloc_null(size) ==
    /\ intact
    /\ \/ size = 0 /\ UNCHANGED <<pool, heap, intact>>
       \/ size # 0 /\ NoneFits(size) /\ create_block_fails(size)

Unlinked(s, i) == SubSeq(s, 1, i - 1) \o SubSeq(s, i + 1, Len(s))

(* Merging block i of the list s with the one after it. *)
MutMergeKeepsSize(s, i) == Unlinked(s, i + 1)
Merge(s, i) == Unlinked([s EXCEPT ![i].size = @ + s[i + 1].size], i + 1)

(* The pages handed back with the block that is merged away. *)
MergedPages(s, i) == Span(s[i + 1].page, s[i + 1].size)

FreeAt(s, i) == i \in DOMAIN s /\ ~s[i].used

(* kfree first merges the next block of the list into this one, then this one into
   the previous one. *)
MutNextOnly(i) ==
    LET s0 == [blocks EXCEPT ![i].used = FALSE]
        fwd == FreeAt(s0, i + 1)
    IN  /\ blocks' = IF fwd THEN Merge(s0, i) ELSE s0
        /\ pool' = pool \cup IF fwd THEN MergedPages(s0, i) ELSE {}
Release(i) ==
    LET s0 == [blocks EXCEPT ![i].used = FALSE]
        fwd == FreeAt(s0, i + 1)
        s1 == IF fwd THEN Merge(s0, i) ELSE s0
        bwd == FreeAt(s1, i - 1)
    IN  /\ blocks' = IF bwd THEN Merge(s1, i - 1) ELSE s1
        /\ pool' = pool \cup (IF fwd THEN MergedPages(s0, i) ELSE {})
                        \cup (IF bwd THEN MergedPages(s1, i - 1) ELSE {})

MutDoubleFree(i) ==
    /\ intact
    /\ Release(i)
    /\ heap_used' = heap_used - blocks[i].size
    /\ UNCHANGED <<heap_total, intact>>
kfree(i) ==
    /\ intact
    /\ blocks[i].used
    /\ Release(i)
    /\ heap_used' = heap_used - blocks[i].size
    /\ UNCHANGED <<heap_total, intact>>

Next ==
    \/ \E size \in Requests : \/ \E page \in pool \union BlockPages : kmalloc(size, page)
                               \/ kmalloc_null(size)
    \/ \E i \in DOMAIN blocks : kfree(i)

Spec == Init /\ [][Next]_vars
-----------------------------------------------------------------------------
(* The sum of the first n numbers of w, and of the sizes of a list. *)
Total(w, n) ==
    LET sum[k \in 0..n] == IF k = 0 THEN 0 ELSE sum[k - 1] + w[k]
    IN  sum[n]
Bytes(s) == Total([i \in DOMAIN s |-> s[i].size], Len(s))
UsedBytes(s) == Total([i \in DOMAIN s |-> IF s[i].used THEN s[i].size ELSE 0], Len(s))

(* heap_get_used and heap_get_free stay right through every reuse and every pair of
   merges: the totals are the sums over the list. *)
TotalsExact ==
    heap_total = Bytes(blocks) /\ heap_used = UsedBytes(blocks)

(* A block that is in use has room for what its holder asked for and a header, new
   or reused, up to the request at which align4 and the header wrap 32 bits. *)
RequestFits ==
    \A i \in DOMAIN blocks :
        blocks[i].used /\ blocks[i].request <= LIMIT - HEADER - 4
            => blocks[i].size >= blocks[i].request + HEADER

(* kfree leaves no two free neighbours in the list, whatever the order of frees. *)
Coalesced == \A i \in DOMAIN blocks : ~(FreeAt(blocks, i) /\ FreeAt(blocks, i + 1))

(* A block in use stays in the list as it is through every call but its own kfree: no
   kmalloc hands it out again, and no merge of its neighbours takes it with it. *)
BlocksKept ==
    [][\A j \in DOMAIN blocks : blocks[j].used =>
          kfree(j) \/ \E h \in DOMAIN blocks' : blocks'[h] = blocks[j]]_vars

(* "Block size (including header)": the pages that a block in use takes to be its
   own, from its header on, are neither free nor part of another such block. *)
MemoryExclusive ==
    \A i \in DOMAIN blocks : blocks[i].used =>
        LET mine == Span(blocks[i].page, blocks[i].size)
        IN  /\ mine \cap pool = {}
            /\ \A j \in DOMAIN blocks \ {i} : blocks[j].used =>
                    mine \cap Span(blocks[j].page, blocks[j].size) = {}
=============================================================================
