--------------------------------- MODULE Pmm ---------------------------------
(***************************************************************************)
(* The physical memory manager of src/kernel/pmm.c and the three ways      *)
(* kernel_main starts it (src/kernel/main.c):                              *)
(*   "map"   pmm_init_multiboot: every page is used, the usable regions of *)
(*           the memory map are freed, the low 2 MB are taken back;        *)
(*   "size"  pmm_init with the size the loader gives, or with 128 MB: every*)
(*           page is free, the low 2 MB are taken;                         *)
(*   "none"  no multiboot loader: every page is free, the low 2 MB too.    *)
(* Boot is a sequence of steps, one per page of its loops, so that the     *)
(* counters are built up by pmm_mark_free and pmm_mark_used as in the      *)
(* code.  Bits outside the bitmap's words are 0, as the array is static.   *)
(***************************************************************************)
EXTENDS Integers, FiniteSets

CONSTANTS
    PAGE_SIZE,     \* bytes in a page
    WORD,          \* pages in a word of the bitmap (32)
    BITMAP_WORDS,  \* words of pmm_bitmap (32768)
    RESERVED,      \* pages in the low 2 MB
    MAX_ADDR,      \* the highest address (0xFFFFFFFF)
    Boots          \* possible boots: [how, bytes, regions]

(* A region of the memory map: [addr, end, type].  The memory of a "map" boot ends
   with its last usable region, or at the highest address. *)
Ends(regions) == {0} \cup {r.end : r \in {q \in regions : q.type = 1}}
UsableTop(regions) ==
    LET top == CHOOSE m \in Ends(regions) : \A e \in Ends(regions) : e <= m
    IN  IF top > MAX_ADDR THEN MAX_ADDR ELSE top

(* Whatever loaded the kernel at 1 MB found 2 MB of RAM, and the bitmap has bits for
   them. *)
ASSUME PmmAssumption ==
    /\ PAGE_SIZE \in Nat \ {0} /\ WORD \in Nat \ {0} /\ BITMAP_WORDS \in Nat
    /\ RESERVED \in Nat /\ RESERVED <= BITMAP_WORDS * WORD
    /\ \A b \in Boots :
        /\ b.how \in {"map", "size", "none"}
        /\ b.bytes \in Nat /\ RESERVED * PAGE_SIZE <= b.bytes
        /\ b.how = "map" => b.bytes = UsableTop(b.regions)
        /\ \A r \in b.regions : r.addr \in Nat /\ r.end \in Nat /\ r.type \in Nat

VARIABLES
    boot,         \* the boot that takes place
    phase,        \* "free" and "protect": the loops of boot; "run": after them
    page,         \* their loop variable
    bitmap,       \* the bits that are set
    used_pages,
    free_pages,
    owned         \* history: pages handed out and not given back

counters == <<used_pages, free_pages>>
vars == <<boot, phase, page, bitmap, used_pages, free_pages, owned>>

(* pmm.bitmap_size and pmm.total_pages, after the clamp to the static array. *)
AsManyAs(bytes) == bytes \div PAGE_SIZE
Words(bytes) == (AsManyAs(bytes) + WORD - 1) \div WORD
bitmap_size == IF Words(boot.bytes) > BITMAP_WORDS THEN BITMAP_WORDS ELSE Words(boot.bytes)
total_pages ==
    IF Words(boot.bytes) > BITMAP_WORDS THEN BITMAP_WORDS * WORD ELSE AsManyAs(boot.bytes)

Pages == 0..total_pages - 1
Bits == 0..bitmap_size * WORD - 1
ClearPages == Pages \ bitmap
Kernel == 0..RESERVED - 1

TypeOK ==
    /\ boot \in Boots
    /\ phase \in {"free", "protect", "run"}
    /\ page \in Nat
    /\ bitmap \in SUBSET Nat
    /\ used_pages \in Nat
    /\ free_pages \in Nat
    /\ owned \in SUBSET Nat

InitMap ==
    /\ boot.how = "map"
    /\ phase = "free"
    /\ bitmap = Bits
    /\ used_pages = total_pages
    /\ free_pages = 0

InitSize ==
    /\ boot.how \in {"size", "none"}
    /\ phase = "protect"
    /\ bitmap = {}
    /\ used_pages = 0
    /\ free_pages = total_pages

Init ==
    /\ boot \in Boots
    /\ page = 0
    /\ owned = {}
    /\ InitMap \/ InitSize

MutUsedUnchecked(p) ==
    /\ bitmap' = bitmap \cup {p}
    /\ used_pages' = used_pages + 1
    /\ free_pages' = free_pages - 1
pmm_mark_used(p) ==
    IF p \notin bitmap
    THEN /\ bitmap' = bitmap \cup {p}
         /\ used_pages' = used_pages + 1
         /\ free_pages' = free_pages - 1
    ELSE UNCHANGED <<bitmap, counters>>

pmm_mark_free(p) ==
    IF p \in bitmap
    THEN /\ bitmap' = bitmap \ {p}
         /\ used_pages' = used_pages - 1
         /\ free_pages' = free_pages + 1
    ELSE UNCHANGED <<bitmap, counters>>

(* The pages of a usable region of the map. *)
MutRoundUp(p) ==
    \E r \in boot.regions : /\ r.type = 1
                            /\ r.addr \div PAGE_SIZE <= p
                            /\ p < (r.end + PAGE_SIZE - 1) \div PAGE_SIZE
InUsable(p) ==
    \E r \in boot.regions : /\ r.type = 1
                            /\ r.addr \div PAGE_SIZE <= p
                            /\ p < r.end \div PAGE_SIZE

(* One page of the loop that frees the usable regions, in page order. *)
FreeUsable ==
    /\ phase = "free"
    /\ page < total_pages
    /\ IF InUsable(page) THEN pmm_mark_free(page) ELSE UNCHANGED <<bitmap, counters>>
    /\ page' = page + 1
    /\ UNCHANGED <<boot, phase, owned>>

UsableFreed ==
    /\ phase = "free"
    /\ page = total_pages
    /\ phase' = "protect"
    /\ page' = 0
    /\ UNCHANGED <<boot, bitmap, counters, owned>>

(* One page of the loop over the low 2 MB. *)
MutProtectShort == IF boot.how = "none" THEN 0 ELSE RESERVED - 1
ProtectTo == IF boot.how = "none" THEN 0 ELSE RESERVED

ProtectKernel ==
    /\ phase = "protect"
    /\ page < ProtectTo
    /\ pmm_mark_used(page)
    /\ page' = page + 1
    /\ UNCHANGED <<boot, phase, owned>>

Booted ==
    /\ phase = "protect"
    /\ page = ProtectTo
    /\ phase' = "run"
    /\ UNCHANGED <<boot, page, bitmap, counters, owned>>

(* The first clear bit, word by word and bit by bit. *)
MutScanDown(p) == p \in Bits \ bitmap /\ \A q \in Bits \ bitmap : q <= p
FirstClear(p) == p \in Bits \ bitmap /\ \A q \in Bits \ bitmap : p <= q

MutNoFreeCount == TRUE
PagesLeft == free_pages # 0

(* Without free pages the call returns NULL and changes nothing.  Page 0 reads as
   NULL to the caller, who then owns nothing. *)
pmm_alloc_page ==
    /\ phase = "run"
    /\ PagesLeft
    /\ \E p \in Bits \ bitmap :
        /\ FirstClear(p)
        /\ bitmap' = bitmap \cup {p}
        /\ owned' = IF p = 0 THEN owned ELSE owned \cup {p}
    /\ used_pages' = used_pages + 1
    /\ free_pages' = free_pages - 1
    /\ UNCHANGED <<boot, phase, page>>

(* Callers free what they own, perhaps twice: a page that is clear is refused, as
   is an address inside a page. *)
MutDoubleFree(addr) ==
    /\ phase = "run"
    /\ addr % PAGE_SIZE = 0
    /\ addr \div PAGE_SIZE \in owned \cup ClearPages
    /\ bitmap' = bitmap \ {addr \div PAGE_SIZE}
    /\ owned' = owned \ {addr \div PAGE_SIZE}
    /\ used_pages' = used_pages - 1
    /\ free_pages' = free_pages + 1
    /\ UNCHANGED <<boot, phase, page>>
pmm_free_page(addr) ==
    /\ phase = "run"
    /\ addr % PAGE_SIZE = 0
    /\ addr \div PAGE_SIZE \in owned \cup ClearPages
    /\ addr \div PAGE_SIZE \in bitmap
    /\ bitmap' = bitmap \ {addr \div PAGE_SIZE}
    /\ owned' = owned \ {addr \div PAGE_SIZE}
    /\ used_pages' = used_pages - 1
    /\ free_pages' = free_pages + 1
    /\ UNCHANGED <<boot, phase, page>>

Next ==
    \/ FreeUsable \/ UsableFreed \/ ProtectKernel \/ Booted
    \/ pmm_alloc_page
    \/ \E addr \in 0..total_pages * PAGE_SIZE - 1 : pmm_free_page(addr)

Spec == Init /\ [][Next]_vars
-----------------------------------------------------------------------------
(* used_pages and free_pages, which every routine adjusts by one, always count the
   bits of the pages that exist; the spare bits of the last word never enter. *)
CountersMatch ==
    /\ free_pages = Cardinality(ClearPages)
    /\ used_pages = Cardinality(Pages \cap bitmap)

(* A page that was handed out exists and stays marked until it is freed, so
   pmm_alloc_page never hands it out again. *)
OwnedStaysMarked == owned \subseteq Pages \cap bitmap

(* After a multiboot boot no allocation ever returns a page of the low 2 MB, which
   hold the kernel. *)
KernelKept == phase = "run" /\ boot.how # "none" => Kernel \subseteq bitmap \ owned

(* With a memory map whose usable regions start on a page, pages are only handed out
   if all of their bytes are usable RAM. *)
Within(p, r) == r.addr <= p * PAGE_SIZE /\ (p + 1) * PAGE_SIZE <= r.end
Aligned == \A r \in boot.regions : r.type = 1 => r.addr % PAGE_SIZE = 0
OnlyUsable ==
    boot.how = "map" /\ Aligned =>
        \A p \in owned : \E r \in boot.regions : r.type = 1 /\ Within(p, r)

(* The manager implements the pool PmmSpec describes. *)
Pool == INSTANCE PmmSpec
            WITH PageNumbers <- 0..BITMAP_WORDS * WORD - 1,
                 ready <- phase = "run",
                 pool <- IF phase = "run" THEN ClearPages ELSE {}
IsPool == Pool!PoolSpec
-----------------------------------------------------------------------------
(* What makes the properties inductive. *)
LoopBounds ==
    /\ phase = "free" => boot.how = "map" /\ page <= total_pages
    /\ phase = "protect" => page <= ProtectTo
    /\ phase # "run" => owned = {}
KernelSoFar ==
    /\ phase = "protect" /\ boot.how # "none" => \A p \in Kernel : p < page => p \in bitmap
MapPages ==
    boot.how = "map" =>
        /\ Bits \subseteq bitmap \cup Pages
        /\ \A p \in ClearPages \cup owned : InUsable(p)
BitsInMap == bitmap \subseteq Bits

IInv ==
    /\ TypeOK /\ CountersMatch /\ OwnedStaysMarked /\ KernelKept
    /\ LoopBounds /\ KernelSoFar /\ MapPages /\ BitsInMap
=============================================================================
