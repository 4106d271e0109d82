----------------------------- MODULE MemoryProofs -----------------------------
(***************************************************************************)
(* The page counters are exact, no page is handed out twice, and the       *)
(* kernel's pages never are, for every memory size, memory map and word    *)
(* size; and the manager implements the pool of PmmSpec.  Paging is one    *)
(* more client of the manager, whose theorems carry over: for every table  *)
(* size and any number of callers its tables are never handed out again,   *)
(* and the processor never keeps a translation that a finished page_map    *)
(* or page_unmap has replaced.                                             *)
(***************************************************************************)
EXTENDS Paging, FiniteSetTheorems, TLAPS

(* The sizes both init routines compute: the bitmap has a bit for every page, stays
   within the static array and covers the low 2 MB. *)
LEMMA Sizes ==
    ASSUME boot \in Boots
    PROVE  /\ total_pages \in Nat
           /\ bitmap_size * WORD \in Nat
           /\ total_pages <= bitmap_size * WORD
           /\ bitmap_size * WORD <= BITMAP_WORDS * WORD
           /\ RESERVED <= total_pages
<1> DEFINE n == AsManyAs(boot.bytes)
           w == Words(boot.bytes)
<1>1. boot.bytes \in Nat /\ RESERVED * PAGE_SIZE <= boot.bytes
  BY PmmAssumption
<1>2. n \in Nat /\ RESERVED <= n
  <2>1. ASSUME NEW b \in Nat, NEW d \in Nat \ {0}, NEW r \in Nat, r * d <= b
        PROVE  b \div d \in Nat /\ r <= b \div d
    BY <2>1
  <2> QED
    BY <1>1, <2>1, PmmAssumption DEF AsManyAs
<1>3. w \in Nat /\ n <= w * WORD
  <2>1. ASSUME NEW m \in Nat, NEW d \in Nat \ {0}
        PROVE  (m + d - 1) \div d \in Nat /\ m <= ((m + d - 1) \div d) * d
    BY <2>1
  <2> QED
    BY <1>2, <2>1, PmmAssumption DEF Words
<1>4. ASSUME w <= BITMAP_WORDS
      PROVE  w * WORD <= BITMAP_WORDS * WORD
  <2>1. ASSUME NEW x \in Nat, NEW y \in Nat, NEW d \in Nat, x <= y
        PROVE  x * d <= y * d
    BY <2>1
  <2> QED
    BY <1>3, <1>4, <2>1, PmmAssumption
<1>5. w * WORD \in Nat /\ BITMAP_WORDS * WORD \in Nat
  BY <1>3, PmmAssumption
<1> HIDE DEF n, w
<1>6. CASE w > BITMAP_WORDS
  <2>1. bitmap_size = BITMAP_WORDS /\ total_pages = BITMAP_WORDS * WORD
    BY <1>6 DEF bitmap_size, total_pages, w
  <2> QED
    BY <2>1, <1>5, PmmAssumption
<1>7. CASE ~(w > BITMAP_WORDS)
  <2>1. bitmap_size = w /\ total_pages = n
    BY <1>7 DEF bitmap_size, total_pages, w, n
  <2>2. w <= BITMAP_WORDS
    BY <1>7, <1>3, PmmAssumption
  <2> QED
    BY <2>1, <2>2, <1>2, <1>3, <1>4, <1>5
<1> QED
  BY <1>6, <1>7

(* Both halves of the pages are finite, and what they count is a natural number. *)
LEMMA PagesFinite ==
    ASSUME boot \in Boots
    PROVE  /\ IsFiniteSet(ClearPages) /\ Cardinality(ClearPages) \in Nat
           /\ IsFiniteSet(Pages \cap bitmap) /\ Cardinality(Pages \cap bitmap) \in Nat
<1>1. IsFiniteSet(Pages)
  BY Sizes, FS_Interval DEF Pages
<1>2. IsFiniteSet(ClearPages) /\ IsFiniteSet(Pages \cap bitmap)
  BY <1>1, FS_Subset DEF ClearPages
<1> QED
  BY <1>2, FS_CardinalityType

(* Setting one clear bit and moving one page between the counters keeps them exact. *)
LEMMA SetBit ==
    ASSUME boot \in Boots, CountersMatch, NEW p \in ClearPages,
           bitmap' = bitmap \cup {p}, boot' = boot,
           used_pages' = used_pages + 1, free_pages' = free_pages - 1
    PROVE  CountersMatch' /\ used_pages' \in Nat /\ free_pages' \in Nat
<1>1. Pages' = Pages
  BY DEF Pages, total_pages, Words, AsManyAs
<1>2. ClearPages' = ClearPages \ {p} /\ (Pages \cap bitmap)' = (Pages \cap bitmap) \cup {p}
  BY <1>1 DEF ClearPages
<1>3. p \notin Pages \cap bitmap
  BY DEF ClearPages
<1>4. Cardinality(ClearPages \ {p}) = Cardinality(ClearPages) - 1
  BY PagesFinite, FS_RemoveElement, Zenon
<1>5. Cardinality((Pages \cap bitmap) \cup {p}) = Cardinality(Pages \cap bitmap) + 1
  BY <1>3, PagesFinite, FS_AddElement, Zenon
<1>6. Cardinality(ClearPages) # 0
  BY PagesFinite, FS_EmptySet
<1>7. CountersMatch'
  BY <1>2, <1>4, <1>5, Zenon DEF CountersMatch
<1> QED
  BY <1>6, <1>7, PagesFinite DEF CountersMatch

(* So does clearing one. *)
LEMMA ClearBit ==
    ASSUME boot \in Boots, CountersMatch, NEW p \in Pages \cap bitmap,
           bitmap' = bitmap \ {p}, boot' = boot,
           used_pages' = used_pages - 1, free_pages' = free_pages + 1
    PROVE  CountersMatch' /\ used_pages' \in Nat /\ free_pages' \in Nat
<1>1. Pages' = Pages
  BY DEF Pages, total_pages, Words, AsManyAs
<1>2. ClearPages' = ClearPages \cup {p} /\ (Pages \cap bitmap)' = (Pages \cap bitmap) \ {p}
  BY <1>1 DEF ClearPages
<1>3. p \notin ClearPages
  BY DEF ClearPages
<1>4. Cardinality(ClearPages \cup {p}) = Cardinality(ClearPages) + 1
  BY <1>3, PagesFinite, FS_AddElement, Zenon
<1>5. Cardinality((Pages \cap bitmap) \ {p}) = Cardinality(Pages \cap bitmap) - 1
  BY PagesFinite, FS_RemoveElement, Zenon
<1>6. Cardinality(Pages \cap bitmap) # 0
  BY PagesFinite, FS_EmptySet
<1>7. CountersMatch'
  BY <1>2, <1>4, <1>5, Zenon DEF CountersMatch
<1> QED
  BY <1>6, <1>7, PagesFinite DEF CountersMatch

(* The sets a boot fixes do not change with the state. *)
LEMMA BootSets ==
    ASSUME boot' = boot
    PROVE  /\ Pages' = Pages /\ Bits' = Bits /\ Kernel' = Kernel /\ ProtectTo' = ProtectTo
           /\ total_pages' = total_pages
           /\ \A p : InUsable(p)' = InUsable(p)
BY DEF Pages, Bits, Kernel, ProtectTo, total_pages, bitmap_size, Words, AsManyAs, InUsable

(* Every page has a bit, and the kernel's pages are pages. *)
LEMMA SetFacts ==
    ASSUME boot \in Boots
    PROVE  /\ Pages \subseteq Nat /\ Pages \subseteq Bits /\ Kernel \subseteq Pages
           /\ Bits \subseteq 0..BITMAP_WORDS * WORD - 1
           /\ \A p \in Nat : p \in Pages <=> p < total_pages
           /\ ProtectTo \in Nat /\ ProtectTo <= total_pages
BY Sizes, PmmAssumption DEF Pages, Bits, Kernel, ProtectTo

(* Every boot starts its loops with exact counters. *)
LEMMA InitInvariant == Init => IInv
<1> SUFFICES ASSUME Init PROVE IInv
  OBVIOUS
<1>1. boot \in Boots /\ page = 0 /\ owned = {}
  BY DEF Init
<1>2. /\ IsFiniteSet({}) /\ Cardinality({}) = 0
      /\ Cardinality(Pages) = total_pages
  BY <1>1, Sizes, FS_EmptySet, FS_Interval DEF Pages
<1>3. CASE InitMap
  <2>1. ClearPages = {} /\ Pages \cap bitmap = Pages
    BY <1>1, <1>3, SetFacts DEF InitMap, ClearPages
  <2>2. CountersMatch
    BY <1>2, <1>3, <2>1 DEF InitMap, CountersMatch
  <2>3. TypeOK
    BY <1>1, <1>3, Sizes DEF InitMap, TypeOK, Bits
  <2>4. LoopBounds
    BY <1>1, <1>3, Sizes DEF InitMap, LoopBounds
  <2>5. KernelSoFar /\ KernelKept
    BY <1>3 DEF InitMap, KernelSoFar, KernelKept
  <2>6. MapPages
    BY <1>1, <1>3, <2>1 DEF InitMap, MapPages
  <2> QED
    BY <1>1, <1>3, <2>2, <2>3, <2>4, <2>5, <2>6
    DEF InitMap, IInv, OwnedStaysMarked, BitsInMap
<1>4. CASE InitSize
  <2>1. ClearPages = Pages /\ Pages \cap bitmap = {}
    BY <1>4 DEF InitSize, ClearPages
  <2>2. CountersMatch
    BY <1>2, <1>4, <2>1 DEF InitSize, CountersMatch
  <2>3. TypeOK
    BY <1>1, <1>4, Sizes DEF InitSize, TypeOK
  <2>4. LoopBounds
    BY <1>1, <1>4, SetFacts DEF InitSize, LoopBounds
  <2>5. KernelSoFar /\ KernelKept
    BY <1>1, <1>4, PmmAssumption DEF InitSize, KernelSoFar, KernelKept, Kernel
  <2>6. MapPages
    BY <1>4 DEF InitSize, MapPages
  <2> QED
    BY <1>1, <1>4, <2>2, <2>3, <2>4, <2>5, <2>6
    DEF InitSize, IInv, OwnedStaysMarked, BitsInMap
<1> QED
  BY <1>3, <1>4 DEF Init

(* While pages are left, the page pmm_alloc_page finds is one that exists: a spare
   bit of the last word is never the first clear one. *)
LEMMA AllocInMemory ==
    ASSUME TypeOK, CountersMatch, PagesLeft, NEW p \in Bits \ bitmap, FirstClear(p)
    PROVE  p \in ClearPages
<1>1. boot \in Boots
  BY DEF TypeOK
<1>2. ClearPages # {}
  BY FS_EmptySet DEF CountersMatch, PagesLeft
<1>3. PICK q \in ClearPages : TRUE
  BY <1>2
<1>4. q \in Bits \ bitmap /\ q < total_pages /\ q \in Nat
  BY <1>1, <1>3, SetFacts DEF ClearPages
<1>5. p <= q /\ p \in Nat
  BY <1>4, SetFacts DEF FirstClear, Bits
<1> QED
  BY <1>1, <1>4, <1>5, SetFacts, Sizes DEF ClearPages

(* Freeing the page of one step of boot's first loop. *)
LEMMA FreeUsablePreserves == IInv /\ FreeUsable => IInv'
<1> SUFFICES ASSUME IInv, FreeUsable PROVE IInv'
  OBVIOUS
<1>1. /\ boot \in Boots /\ boot' = boot /\ page \in Nat /\ page' = page + 1
      /\ page < total_pages /\ phase = "free" /\ phase' = phase
      /\ owned = {} /\ owned' = {} /\ boot.how = "map"
  BY DEF IInv, TypeOK, FreeUsable, LoopBounds
<1>2. page \in Pages
  BY <1>1, SetFacts
<1>3. CASE InUsable(page) /\ page \in bitmap
  <2>1. bitmap' = bitmap \ {page} /\ used_pages' = used_pages - 1 /\ free_pages' = free_pages + 1
    BY <1>3 DEF FreeUsable, pmm_mark_free
  <2>2. CountersMatch' /\ used_pages' \in Nat /\ free_pages' \in Nat
    BY <1>1, <1>2, <1>3, <2>1, ClearBit DEF IInv
  <2>3. TypeOK'
    BY <1>1, <2>1, <2>2 DEF IInv, TypeOK
  <2>4. MapPages'
    BY <1>1, <1>2, <1>3, <2>1, BootSets, Zenon DEF IInv, MapPages, ClearPages
  <2>5. LoopBounds' /\ KernelSoFar' /\ KernelKept' /\ OwnedStaysMarked' /\ BitsInMap'
    BY <1>1, <2>1, BootSets, Sizes
    DEF IInv, LoopBounds, KernelSoFar, KernelKept, OwnedStaysMarked, BitsInMap
  <2> QED
    BY <2>2, <2>3, <2>4, <2>5 DEF IInv
<1>4. CASE ~(InUsable(page) /\ page \in bitmap)
  <2>1. UNCHANGED <<bitmap, used_pages, free_pages>>
    BY <1>4 DEF FreeUsable, pmm_mark_free, counters
  <2>2. TypeOK'
    BY <1>1, <2>1 DEF IInv, TypeOK
  <2>3. CountersMatch' /\ MapPages'
    BY <1>1, <2>1, BootSets DEF IInv, CountersMatch, MapPages, ClearPages
  <2>4. LoopBounds' /\ KernelSoFar' /\ KernelKept' /\ OwnedStaysMarked' /\ BitsInMap'
    BY <1>1, <2>1, BootSets, Sizes
    DEF IInv, LoopBounds, KernelSoFar, KernelKept, OwnedStaysMarked, BitsInMap
  <2> QED
    BY <2>2, <2>3, <2>4 DEF IInv
<1> QED
  BY <1>3, <1>4

(* Taking back the page of one step of boot's second loop. *)
LEMMA ProtectKernelPreserves == IInv /\ ProtectKernel => IInv'
<1> SUFFICES ASSUME IInv, ProtectKernel PROVE IInv'
  OBVIOUS
<1>1. /\ boot \in Boots /\ boot' = boot /\ page \in Nat /\ page' = page + 1
      /\ page < ProtectTo /\ phase = "protect" /\ phase' = phase
      /\ owned = {} /\ owned' = {}
  BY DEF IInv, TypeOK, ProtectKernel, LoopBounds
<1>2. page \in Pages
  BY <1>1, SetFacts, Sizes
<1>3. page \in bitmap' /\ bitmap \subseteq bitmap' /\ bitmap' \subseteq bitmap \cup {page}
  BY DEF ProtectKernel, pmm_mark_used
<1>4. CountersMatch' /\ used_pages' \in Nat /\ free_pages' \in Nat
  <2>1. CASE page \in bitmap
    <3>1. UNCHANGED <<bitmap, used_pages, free_pages>>
      BY <2>1 DEF ProtectKernel, pmm_mark_used, counters
    <3> QED
      BY <1>1, <3>1, BootSets DEF IInv, TypeOK, CountersMatch, ClearPages
  <2>2. CASE page \notin bitmap
    <3>1. /\ bitmap' = bitmap \cup {page}
          /\ used_pages' = used_pages + 1 /\ free_pages' = free_pages - 1
      BY <2>2 DEF ProtectKernel, pmm_mark_used
    <3> QED
      BY <1>1, <1>2, <2>2, <3>1, SetBit DEF IInv, ClearPages
  <2> QED
    BY <2>1, <2>2
<1>5. TypeOK'
  BY <1>1, <1>3, <1>4 DEF IInv, TypeOK
<1>6. LoopBounds' /\ KernelKept' /\ OwnedStaysMarked'
  BY <1>1, BootSets, SetFacts DEF LoopBounds, KernelKept, OwnedStaysMarked
<1>7. KernelSoFar'
  <2> SUFFICES ASSUME boot.how # "none", NEW p \in Kernel, p < page + 1
               PROVE  p \in bitmap'
    BY <1>1, BootSets DEF KernelSoFar
  <2>1. p = page \/ p < page
    BY <1>1, SetFacts
  <2> QED
    BY <1>1, <1>3, <2>1, Zenon DEF IInv, KernelSoFar
<1>8. MapPages' /\ BitsInMap'
  BY <1>1, <1>2, <1>3, BootSets, SetFacts, Zenon DEF IInv, MapPages, BitsInMap, ClearPages
<1> QED
  BY <1>4, <1>5, <1>6, <1>7, <1>8 DEF IInv

(* The ends of the two loops. *)
LEMMA LoopEndPreserves == IInv /\ (UsableFreed \/ Booted) => IInv'
<1> SUFFICES ASSUME IInv, UsableFreed \/ Booted PROVE IInv'
  OBVIOUS
<1>1. /\ boot \in Boots /\ boot' = boot /\ page \in Nat
      /\ UNCHANGED <<bitmap, used_pages, free_pages, owned>> /\ owned = {}
  BY DEF IInv, TypeOK, LoopBounds, UsableFreed, Booted, counters
<1>2. CountersMatch' /\ MapPages' /\ BitsInMap' /\ OwnedStaysMarked'
  BY <1>1, BootSets
  DEF IInv, CountersMatch, MapPages, BitsInMap, OwnedStaysMarked, ClearPages
<1>3. TypeOK'
  BY <1>1 DEF IInv, TypeOK, UsableFreed, Booted
<1>4. LoopBounds'
  BY <1>1, BootSets, SetFacts DEF IInv, LoopBounds, UsableFreed, Booted
<1>5. KernelSoFar'
  BY <1>1, BootSets, SetFacts DEF KernelSoFar, UsableFreed, Booted
<1>6. KernelKept'
  <2>1. CASE UsableFreed
    BY <2>1 DEF UsableFreed, KernelKept
  <2>2. CASE Booted /\ boot.how # "none"
    <3>1. page = RESERVED /\ \A p \in Kernel : p < RESERVED
      BY <2>2, PmmAssumption DEF Booted, ProtectTo, Kernel
    <3> QED
      BY <1>1, <2>2, <3>1, BootSets DEF IInv, KernelSoFar, KernelKept, Booted
  <2>3. CASE Booted /\ boot.how = "none"
    BY <1>1, <2>3 DEF KernelKept
  <2> QED
    BY <2>1, <2>2, <2>3
<1> QED
  BY <1>2, <1>3, <1>4, <1>5, <1>6 DEF IInv

(* Handing out a page. *)
LEMMA AllocPreserves == IInv /\ pmm_alloc_page => IInv'
<1> SUFFICES ASSUME IInv, pmm_alloc_page PROVE IInv'
  OBVIOUS
<1>1. PICK p \in Bits \ bitmap :
        /\ FirstClear(p) /\ bitmap' = bitmap \cup {p}
        /\ owned' = IF p = 0 THEN owned ELSE owned \cup {p}
  BY Zenon DEF pmm_alloc_page
<1>2. /\ boot \in Boots /\ UNCHANGED <<boot, phase, page>> /\ phase = "run"
      /\ used_pages' = used_pages + 1 /\ free_pages' = free_pages - 1
  BY DEF pmm_alloc_page, IInv, TypeOK
<1>3. p \in ClearPages
  BY <1>1, AllocInMemory DEF IInv, pmm_alloc_page
<1>4. p \in Pages /\ p \notin bitmap /\ p \in Nat /\ owned' \subseteq owned \cup {p}
  BY <1>1, <1>2, <1>3, SetFacts DEF ClearPages
<1>5. CountersMatch' /\ used_pages' \in Nat /\ free_pages' \in Nat
  BY <1>1, <1>2, <1>3, SetBit DEF IInv
<1>6. TypeOK'
  BY <1>1, <1>2, <1>4, <1>5 DEF IInv, TypeOK
<1>7. OwnedStaysMarked' /\ BitsInMap'
  BY <1>1, <1>2, <1>4, BootSets DEF IInv, OwnedStaysMarked, BitsInMap
<1>8. KernelKept'
  BY <1>1, <1>2, <1>4, BootSets DEF IInv, KernelKept
<1>9. LoopBounds' /\ KernelSoFar'
  BY <1>2 DEF LoopBounds, KernelSoFar
<1>10. MapPages'
  BY <1>1, <1>2, <1>3, <1>4, BootSets, Zenon DEF IInv, MapPages, ClearPages
<1> QED
  BY <1>5, <1>6, <1>7, <1>8, <1>9, <1>10 DEF IInv

(* Taking a page back. *)
LEMMA FreePreserves == ASSUME NEW addr, IInv, pmm_free_page(addr) PROVE IInv'
<1> DEFINE p == addr \div PAGE_SIZE
<1>1. /\ boot \in Boots /\ UNCHANGED <<boot, phase, page>> /\ phase = "run"
      /\ p \in owned \cup ClearPages /\ p \in bitmap
      /\ bitmap' = bitmap \ {p} /\ owned' = owned \ {p}
      /\ used_pages' = used_pages - 1 /\ free_pages' = free_pages + 1
  BY DEF pmm_free_page, IInv, TypeOK
<1> HIDE DEF p
<1>2. p \in owned /\ p \in Pages \cap bitmap
  BY <1>1 DEF ClearPages, IInv, OwnedStaysMarked
<1>3. CountersMatch' /\ used_pages' \in Nat /\ free_pages' \in Nat
  BY <1>1, <1>2, ClearBit DEF IInv
<1>4. TypeOK'
  BY <1>1, <1>3 DEF IInv, TypeOK
<1>5. OwnedStaysMarked' /\ BitsInMap'
  BY <1>1, BootSets DEF IInv, OwnedStaysMarked, BitsInMap
<1>6. KernelKept'
  BY <1>1, <1>2, BootSets DEF IInv, KernelKept
<1>7. LoopBounds' /\ KernelSoFar'
  BY <1>1 DEF LoopBounds, KernelSoFar
<1>8. MapPages'
  BY <1>1, <1>2, BootSets DEF IInv, MapPages, ClearPages
<1> QED
  BY <1>3, <1>4, <1>5, <1>6, <1>7, <1>8 DEF IInv

(* Every step preserves the invariant. *)
LEMMA NextInvariant == IInv /\ [Next]_vars => IInv'
<1> SUFFICES ASSUME IInv, [Next]_vars PROVE IInv'
  OBVIOUS
<1>1. CASE UNCHANGED vars
  <2>1. UNCHANGED <<boot, phase, page, bitmap, used_pages, free_pages, owned>>
    BY <1>1 DEF vars
  <2>2. TypeOK' /\ CountersMatch' /\ OwnedStaysMarked' /\ KernelKept'
    BY <2>1, BootSets
    DEF IInv, TypeOK, CountersMatch, OwnedStaysMarked, KernelKept, ClearPages
  <2>3. LoopBounds' /\ KernelSoFar' /\ MapPages' /\ BitsInMap'
    BY <2>1, BootSets
    DEF IInv, LoopBounds, KernelSoFar, MapPages, BitsInMap, ClearPages
  <2> QED
    BY <2>2, <2>3 DEF IInv
<1> QED
  BY <1>1, FreeUsablePreserves, LoopEndPreserves, ProtectKernelPreserves,
     AllocPreserves, FreePreserves DEF Next

(* The inductive invariant of the physical memory manager. *)
THEOREM Invariance == Spec => []IInv
BY InitInvariant, NextInvariant, PTL DEF Spec

(* The counters are exact at every step of boot and after it, for every memory. *)
THEOREM CountersMatchHolds == Spec => []CountersMatch
<1>1. IInv => CountersMatch
  BY DEF IInv
<1> QED
  BY <1>1, Invariance, PTL

(* A page that pmm_alloc_page has handed out keeps its bit until it is freed, so no
   page is handed out twice. *)
THEOREM OwnedStaysMarkedHolds == Spec => []OwnedStaysMarked
<1>1. IInv => OwnedStaysMarked
  BY DEF IInv
<1> QED
  BY <1>1, Invariance, PTL

(* The kernel's pages are marked from the end of boot on and never handed out, whatever
   is allocated and freed. *)
THEOREM KernelKeptHolds == Spec => []KernelKept
<1>1. IInv => KernelKept
  BY DEF IInv
<1> QED
  BY <1>1, Invariance, PTL

(* Only pages that are wholly usable RAM are handed out. *)
THEOREM OnlyUsableHolds == Spec => []OnlyUsable
<1>1. IInv => OnlyUsable
  <2> SUFFICES ASSUME IInv, boot.how = "map", Aligned, NEW p \in owned
               PROVE  \E r \in boot.regions : r.type = 1 /\ Within(p, r)
    BY DEF OnlyUsable
  <2>1. PICK r \in boot.regions : /\ r.type = 1 /\ r.addr \div PAGE_SIZE <= p
                                  /\ p < r.end \div PAGE_SIZE
    BY DEF IInv, MapPages, InUsable
  <2>2. /\ r.addr \in Nat /\ r.end \in Nat /\ r.addr % PAGE_SIZE = 0 /\ p \in Nat
        /\ PAGE_SIZE \in Nat \ {0}
    BY <2>1, PmmAssumption DEF IInv, TypeOK, Aligned
  <2>3. ASSUME NEW a \in Nat, NEW e \in Nat, NEW q \in Nat, NEW d \in Nat \ {0},
               a % d = 0, a \div d <= q, q < e \div d
        PROVE  a <= q * d /\ (q + 1) * d <= e
    <3>1. a = (a \div d) * d /\ (e \div d) * d <= e
      BY <2>3
    <3>2. (a \div d) * d <= q * d
      BY <2>3
    <3>3. (q + 1) * d <= (e \div d) * d
      BY <2>3
    <3> QED
      BY <3>1, <3>2, <3>3
  <2> QED
    BY <2>1, <2>2, <2>3, Zenon DEF Within
<1> QED
  BY <1>1, Invariance, PTL

(* Every step of the manager is a step of the pool, or one the pool does not see. *)
LEMMA StepIsPoolStep == IInv /\ IInv' /\ [Next]_vars => [Pool!PoolNext]_(Pool!poolVars)
<1> SUFFICES ASSUME IInv, IInv', [Next]_vars, ~UNCHANGED Pool!poolVars
             PROVE  Pool!PoolNext
  OBVIOUS
<1>1. boot \in Boots /\ Pages \subseteq 0..BITMAP_WORDS * WORD - 1
  BY SetFacts DEF IInv, TypeOK
<1>2. ASSUME boot' = boot, phase' = phase, phase # "run" PROVE FALSE
  BY <1>2 DEF Pool!poolVars
<1>3. ASSUME UNCHANGED <<boot, phase, bitmap>> PROVE FALSE
  BY <1>3, BootSets DEF Pool!poolVars, ClearPages
<1>4. CASE Booted
  <2>1. phase # "run" /\ phase' = "run" /\ boot' = boot
    BY <1>4 DEF Booted
  <2>2. ClearPages' \subseteq 0..BITMAP_WORDS * WORD - 1
    BY <1>1, <2>1, BootSets, Zenon DEF ClearPages
  <2> QED
    BY <2>1, <2>2 DEF Pool!PoolNext, Pool!Fill
<1>5. CASE pmm_alloc_page
  <2>1. PICK p \in Bits \ bitmap : FirstClear(p) /\ bitmap' = bitmap \cup {p}
    BY <1>5 DEF pmm_alloc_page
  <2>2. phase = "run" /\ phase' = "run" /\ boot' = boot
    BY <1>5 DEF pmm_alloc_page
  <2>3. p \in ClearPages
    BY <1>5, <2>1, AllocInMemory DEF IInv, pmm_alloc_page
  <2>4. ClearPages' = ClearPages \ {p}
    BY <2>1, <2>2, BootSets DEF ClearPages
  <2>5. \A q \in ClearPages : p <= q
    BY <1>1, <2>1, SetFacts DEF FirstClear, ClearPages
  <2>6. Pool!Take(p)
    BY <2>2, <2>3, <2>4, <2>5 DEF Pool!Take
  <2>7. p \in 0..BITMAP_WORDS * WORD - 1
    BY <1>1, <2>3 DEF ClearPages
  <2> QED
    BY <2>6, <2>7 DEF Pool!PoolNext
<1>6. ASSUME NEW addr, pmm_free_page(addr) PROVE Pool!PoolNext
  <2> DEFINE p == addr \div PAGE_SIZE
  <2>1. /\ phase = "run" /\ phase' = "run" /\ boot' = boot
        /\ p \in owned \cup ClearPages /\ p \in bitmap /\ bitmap' = bitmap \ {p}
    BY <1>6 DEF pmm_free_page
  <2> HIDE DEF p
  <2>2. p \in Pages /\ p \notin ClearPages
    BY <2>1 DEF ClearPages, IInv, OwnedStaysMarked
  <2>3. ClearPages' = ClearPages \cup {p}
    BY <2>1, <2>2, BootSets DEF ClearPages
  <2>4. Pool!Return(p)
    BY <2>1, <2>2, <2>3 DEF Pool!Return
  <2> QED
    BY <1>1, <2>2, <2>4 DEF Pool!PoolNext
<1>7. CASE FreeUsable \/ ProtectKernel
  BY <1>2, <1>7 DEF FreeUsable, ProtectKernel
<1>8. CASE UsableFreed
  BY <1>8 DEF UsableFreed, Pool!poolVars
<1>9. CASE UNCHANGED vars
  BY <1>3, <1>9 DEF vars
<1> QED
  BY <1>4, <1>5, <1>6, <1>7, <1>8, <1>9 DEF Next

(* The manager implements PmmSpec: a pool that hands out its lowest page. *)
THEOREM Refinement == Spec => IsPool
<1>1. Init => Pool!PoolInit
  BY DEF Init, InitMap, InitSize, Pool!PoolInit
<1> QED
  BY <1>1, StepIsPoolStep, Invariance, PTL DEF Spec, IsPool, Pool!PoolSpec

-----------------------------------------------------------------------------

(* A step of the composition is a step of the page manager, or leaves it alone. *)
LEMMA PmmSteps ==
    ASSUME [PagingNext]_pagingVars
    PROVE  [Next]_vars
<1>1. CASE UNCHANGED pagingVars
  BY <1>1 DEF pagingVars
<1>2. CASE PmmStep
  BY <1>2 DEF PmmStep, Next
<1>3. CASE AllocDirectory \/ AllocTable
  BY <1>3 DEF AllocDirectory, AllocTable, Allocated, Next
<1>4. ASSUME NEW c \in Callers, invlpg(c)
      PROVE  UNCHANGED vars
  BY <1>4 DEF invlpg
<1>5. ASSUME NEW c \in Callers, NEW v \in Remapped,
             \/ page_unmap(c, v)
             \/ \E frame \in Frames, flags \in Flags : page_map(c, v, frame, flags)
      PROVE  UNCHANGED vars
  BY <1>5 DEF page_unmap, page_map, Store
<1>6. CASE TableFault
  BY <1>6 DEF TableFault
<1>7. ASSUME NEW v \in Remapped \cap 0..ENTRIES - 1, Walk(v) \/ Evict(v)
      PROVE  UNCHANGED vars
  BY <1>7 DEF Walk, Evict
<1> QED
  BY <1>1, <1>2, <1>3, <1>4, <1>5, <1>6, <1>7 DEF PagingNext

(* The kernel's paging uses the page manager as its other clients do, so everything
   proved of the page manager holds of the two together. *)
THEOREM PagingUsesPmm == PagingSpec => Spec
<1>1. PagingInit => Init
  BY DEF PagingInit
<1> QED
  BY <1>1, PmmSteps, PTL DEF PagingSpec, Spec

(* What a successful or failing allocation gives paging_init. *)
LEMMA AllocatedPage ==
    ASSUME TypeOK, NEW p \in Bits \cup {NULL}, Allocated(p)
    PROVE  /\ phase = "run" /\ phase' = "run" /\ boot' = boot
           /\ p # NULL => p \notin bitmap /\ p \in owned'
           /\ owned \subseteq owned'
<1>1. CASE ~PagesLeft /\ phase = "run" /\ p = NULL /\ UNCHANGED vars
  BY <1>1 DEF vars
<1>2. CASE pmm_alloc_page /\ bitmap' = bitmap \cup {p} /\ p \notin bitmap
  <2>1. PICK q \in Bits \ bitmap :
            /\ bitmap' = bitmap \cup {q}
            /\ owned' = IF q = 0 THEN owned ELSE owned \cup {q}
    BY <1>2 DEF pmm_alloc_page
  <2>2. p = q
    BY <1>2, <2>1
  <2> QED
    BY <1>2, <2>1, <2>2 DEF pmm_alloc_page, NULL
<1> QED
  BY <1>1, <1>2 DEF Allocated

(* A number of a page is a natural number. *)
LEMMA BitsNat == ASSUME TypeOK PROVE Bits \cup {NULL} \subseteq Nat
  BY Sizes, SMTT(30) DEF TypeOK, Bits, NULL

(* The types of the paging state, and the bookkeeping of the tables. *)
LEMMA TypeStep ==
    ASSUME PagingTypeOK, TypeOK', [PagingNext]_pagingVars
    PROVE  PagingTypeOK'
<1> USE DEF PagingTypeOK
<1> DEFINE Rest ==
              /\ entries \in [0..ENTRIES - 1 -> Entry]
              /\ pg \in BOOLEAN
              /\ tlb \in [0..ENTRIES - 1 -> Entry]
              /\ pending \in [Callers -> Remapped \cup {NoPage}]
           Tabs ==
              /\ stage \in {"directory", "table", "done"}
              /\ kernel_page_directory \in Nat /\ kernel_page_table \in Nat
<1>0. NoEntry \in Entry
  BY DEF NoEntry, Entry
<1>1. CASE UNCHANGED <<tables, mmu, halted>>
  BY <1>1 DEF tables, mmu
<1>2. CASE AllocDirectory
  <2>1. Tabs'
    BY <1>2, BitsNat DEF AllocDirectory
  <2> QED
    BY <1>2, <2>1 DEF AllocDirectory, mmu
<1>3. CASE AllocTable
  <2>1. Tabs'
    BY <1>3, BitsNat DEF AllocTable
  <2>2. \A v \in 0..ENTRIES - 1 : Identity(v) \in Entry
    BY DEF Identity, Entry
  <2>3. Rest'
    BY <1>3, <2>2 DEF AllocTable, TableReady
  <2> QED
    BY <1>3, <2>1, <2>3 DEF AllocTable
<1>4. ASSUME NEW c \in Callers, NEW v \in Remapped, NEW e \in Entry, Store(c, v, e)
      PROVE  PagingTypeOK'
  BY <1>4, Zenon DEF Store, tables
<1>5. ASSUME NEW c \in Callers, NEW v \in Remapped, page_unmap(c, v)
      PROVE  PagingTypeOK'
  <2>1. v \in 0..ENTRIES - 1
    BY <1>5, PagingAssumption DEF page_unmap, Covered
  <2>2. [entries[v] EXCEPT !.flags = @ \ {"present"}] \in Entry
    BY <2>1, SMTT(30) DEF Entry
  <2> QED
    BY <1>4, <1>5, <2>2 DEF page_unmap
<1>6. ASSUME NEW c \in Callers, NEW v \in Remapped, NEW frame \in Frames,
             NEW flags \in Flags, page_map(c, v, frame, flags)
      PROVE  PagingTypeOK'
  <2>1. [flags |-> flags, frame |-> frame] \in Entry
    BY PagingAssumption DEF Entry
  <2> QED
    BY <1>4, <1>6, <2>1 DEF page_map
<1>7. ASSUME NEW c \in Callers, invlpg(c)
      PROVE  PagingTypeOK'
  BY <1>0, <1>7, ZenonT(30) DEF invlpg, FlushPage, tables
<1>8. CASE TableFault
  BY <1>8, SMTT(30) DEF TableFault, tables, mmu
<1>9. ASSUME NEW v \in 0..ENTRIES - 1, Walk(v) \/ Evict(v)
      PROVE  PagingTypeOK'
  BY <1>0, <1>9 DEF Walk, Evict, tables
<1>10. CASE PmmStep
  BY <1>1, <1>10 DEF PmmStep
<1>11. CASE UNCHANGED pagingVars
  BY <1>1, <1>11 DEF pagingVars
<1> QED
  BY <1>2, <1>3, <1>5, <1>6, <1>7, <1>8, <1>9, <1>10, <1>11, SMTT(30) DEF PagingNext
(* Every step keeps the cache coherent: an entry changes only for a page that the same
   step makes pending, and a page stops being pending when its translation is dropped. *)
LEMMA CacheStep ==
    ASSUME PagingInv, [PagingNext]_pagingVars
    PROVE  TlbCoherent' /\ CacheFilled'
<1> DEFINE Pending == {pending[c] : c \in Callers}
<1> USE DEF PagingInv, PagingTypeOK
<1>1. CASE UNCHANGED <<kernel_page_table, mmu>>
  BY <1>1 DEF mmu, TlbCoherent, CacheFilled, page_get_physical, Covered
<1>2. CASE AllocTable
  <2>1. ~pg /\ tlb' = tlb
    BY <1>2 DEF AllocTable, TablesOwned
  <2> QED
    BY <2>1 DEF TlbCoherent, CacheFilled
<1>3. ASSUME NEW c \in Callers, NEW v \in Remapped, NEW e,
             CanCall(c, v), Store(c, v, e)
      PROVE  TlbCoherent' /\ CacheFilled'
  <2>1. /\ entries' = [entries EXCEPT ![v] = e] /\ pending' = [pending EXCEPT ![c] = v]
        /\ UNCHANGED <<pg, tlb, kernel_page_table>>
        /\ pending[c] = NoPage
    BY <1>3 DEF Store, CanCall, tables
  <2>2. \A w \in 0..ENTRIES - 1 : w \notin Pending' => w # v /\ w \notin Pending
    <3> SUFFICES ASSUME NEW w \in 0..ENTRIES - 1, w \notin Pending'
                 PROVE  w # v /\ w \notin Pending
      OBVIOUS
    <3>1. w # v
      BY <2>1
    <3>2. \A d \in Callers : w # pending[d]
      BY <2>1, PagingAssumption DEF NoPage
    <3> QED
      BY <3>1, <3>2
  <2>3. \A w \in 0..ENTRIES - 1 : w # v => entries'[w] = entries[w]
    BY <2>1, SMTT(30)
  <2>4. CacheFilled'
    BY <2>1 DEF CacheFilled
  <2>5. TlbCoherent'
    BY <2>1, <2>2, <2>3, SMTT(30) DEF TlbCoherent, page_get_physical, Covered
  <2> QED
    BY <2>4, <2>5
<1>4. ASSUME NEW c \in Callers, invlpg(c)
      PROVE  TlbCoherent' /\ CacheFilled'
  <2> DEFINE v == pending[c]
  <2>1. /\ tlb' = [tlb EXCEPT ![v] = NoEntry] /\ pending' = [pending EXCEPT ![c] = NoPage]
        /\ UNCHANGED <<pg, entries, kernel_page_table>>
    BY <1>4, SMTT(30) DEF invlpg, FlushPage, tables
  <2>2. \A w \in 0..ENTRIES - 1 : w \notin Pending' /\ w # v => w \notin Pending
    BY <2>1
  <2>3. \A w \in 0..ENTRIES - 1 : tlb'[w] = IF w = v THEN NoEntry ELSE tlb[w]
    BY <2>1, SMTT(30)
  <2> HIDE DEF v, Pending
  <2>4. CacheFilled'
    BY <2>1, <2>3 DEF CacheFilled
  <2>5. TlbCoherent'
    BY <2>1, <2>2, <2>3 DEF TlbCoherent, page_get_physical, Covered, Pending
  <2> QED
    BY <2>4, <2>5
<1>5. ASSUME NEW v \in 0..ENTRIES - 1, Walk(v)
      PROVE  TlbCoherent' /\ CacheFilled'
  <2>1. /\ tlb' = [tlb EXCEPT ![v] = entries[v]] /\ pg /\ "present" \in entries[v].flags
        /\ UNCHANGED <<pg, entries, pending, kernel_page_table>>
    BY <1>5, SMTT(30) DEF Walk, tables
  <2>2. kernel_page_table # NULL
    BY <2>1 DEF TablesOwned
  <2>3. page_get_physical(v) = entries[v].frame
    BY <2>1, <2>2, PagingAssumption, SMTT(30) DEF page_get_physical, Covered
  <2>4. CacheFilled'
    BY <2>1 DEF CacheFilled
  <2>5. TlbCoherent'
    BY <2>1, <2>3, SMTT(30) DEF TlbCoherent, page_get_physical, Covered
  <2> QED
    BY <2>4, <2>5
<1>6. ASSUME NEW v \in 0..ENTRIES - 1, Evict(v)
      PROVE  TlbCoherent' /\ CacheFilled'
  BY <1>6 DEF Evict, tables, TlbCoherent, CacheFilled, page_get_physical, Covered
<1>7. CASE AllocDirectory \/ TableFault \/ PmmStep \/ UNCHANGED pagingVars
  BY <1>1, <1>7 DEF AllocDirectory, TableFault, PmmStep, pagingVars, tables
<1>8. ASSUME NEW c \in Callers, NEW v \in Remapped,
             \/ page_unmap(c, v)
             \/ \E frame \in Frames, flags \in Flags : page_map(c, v, frame, flags)
      PROVE  TlbCoherent' /\ CacheFilled'
  BY <1>3, <1>8, Zenon DEF page_unmap, page_map
<1> QED
  BY <1>2, <1>4, <1>5, <1>6, <1>7, <1>8, SMTT(30) DEF PagingNext

(* The pages of the tables stay owned: they come from the manager, and what the other
   clients free is not theirs. *)
LEMMA TablesStep ==
    ASSUME PagingInv, IInv, IInv', [PagingNext]_pagingVars
    PROVE  TablesKept' /\ TablesOwned'
<1> USE DEF PagingInv, PagingTypeOK
<1> DEFINE Safe == pg => /\ kernel_page_directory # kernel_page_table
                         /\ kernel_page_table \in owned
<1>0. Safe
  BY SMTT(30) DEF TablesKept
<1>1. ASSUME Safe', TablesOwned'
      PROVE  TablesKept'
  BY <1>1 DEF IInv, OwnedStaysMarked, KernelKept, TablesKept, TablesOwned
<1>2. ASSUME UNCHANGED <<vars, tables, pg>>
      PROVE  Safe' /\ TablesOwned'
  BY <1>0, <1>2 DEF vars, tables, TablesOwned
<1>3. CASE PmmStep
  <2>1. UNCHANGED <<tables, pg>>
    BY <1>3, SMTT(30) DEF PmmStep, mmu
  <2>2. kernel_page_directory # NULL => phase' = "run"
    BY <1>3, ZenonT(30) DEF PmmStep, TablesOwned, FreeUsable, UsableFreed, ProtectKernel,
          Booted,
        pmm_alloc_page, pmm_free_page
  <2>3. \A t \in Own : t \in owned /\ kernel_page_directory # NULL => t \in owned'
    BY <1>3 DEF PmmStep, TablesOwned, FreeUsable, UsableFreed, ProtectKernel, Booted,
        pmm_alloc_page, pmm_free_page
  <2> QED
    BY <1>0, <1>1, <2>1, <2>2, <2>3, SMTT(30) DEF TablesOwned, Own, tables
<1>4. CASE AllocDirectory
  <2>1. PICK p \in Bits \cup {NULL} :
            /\ Allocated(p)
            /\ kernel_page_directory' = p
            /\ stage' = IF p = NULL THEN "done" ELSE "table"
    BY <1>4 DEF AllocDirectory
  <2>2. ~pg /\ ~pg'
    BY <1>4 DEF AllocDirectory, TablesOwned, mmu
  <2>3. TablesOwned'
    BY <2>1, <2>2, AllocatedPage DEF TablesOwned
  <2> QED
    BY <1>1, <2>2, <2>3
<1>5. CASE AllocTable
  <2>1. PICK p \in Bits \cup {NULL} :
            /\ Allocated(p)
            /\ kernel_page_table' = p
            /\ pg' = (p # NULL)
    BY <1>5 DEF AllocTable, TableReady
  <2>2. /\ kernel_page_directory # NULL /\ kernel_page_directory \in owned
        /\ kernel_page_directory' = kernel_page_directory /\ stage' = "done"
    BY <1>5 DEF AllocTable, TablesOwned
  <2>3. kernel_page_directory \in bitmap
    BY <2>2 DEF IInv, OwnedStaysMarked
  <2>4. phase' = "run" /\ (p # NULL => p \notin bitmap /\ p \in owned')
            /\ owned \subseteq owned'
    BY <2>1, AllocatedPage
  <2>5. Safe' /\ TablesOwned'
    BY <2>1, <2>2, <2>3, <2>4, Zenon DEF TablesOwned
  <2> QED
    BY <1>1, <2>5
<1>6. ASSUME NEW c \in Callers, NEW v \in Remapped,
             \/ page_unmap(c, v)
             \/ \E frame \in Frames, flags \in Flags : page_map(c, v, frame, flags)
      PROVE  UNCHANGED <<vars, tables, pg>>
  BY <1>6 DEF page_unmap, page_map, Store
<1>7. ASSUME NEW c \in Callers, invlpg(c)
      PROVE  UNCHANGED <<vars, tables, pg>>
  BY <1>7 DEF invlpg
<1>8. ASSUME NEW v \in 0..ENTRIES - 1, Walk(v) \/ Evict(v)
      PROVE  UNCHANGED <<vars, tables, pg>>
  BY <1>8 DEF Walk, Evict
<1>9. CASE TableFault \/ UNCHANGED pagingVars
  BY <1>1, <1>2, <1>9 DEF TableFault, pagingVars, mmu
<1> HIDE DEF Safe
<1> QED
  BY <1>1, <1>2, <1>3, <1>4, <1>5, <1>6, <1>7, <1>8, <1>9, SMTT(30) DEF PagingNext

(* The invariant of paging, on top of the page manager's. *)
THEOREM PagingInvariance == PagingSpec => []PagingInv
<1>1. PagingInit /\ IInv => PagingInv
  <2> SUFFICES ASSUME PagingInit, IInv PROVE PagingInv
    OBVIOUS
  <2>1. NoEntry \in Entry
    BY DEF NoEntry, Entry
  <2>2. PagingTypeOK
    BY <2>1, Zenon DEF PagingInit, PagingTypeOK, NULL, IInv
  <2>3. TlbCoherent /\ CacheFilled
    BY DEF PagingInit, TlbCoherent, CacheFilled
  <2>4. TablesKept /\ TablesOwned
    BY DEF PagingInit, TablesKept, TablesOwned
  <2> QED
    BY <2>2, <2>3, <2>4 DEF PagingInv
<1>2. IInv /\ IInv' /\ PagingInv /\ [PagingNext]_pagingVars => PagingInv'
  <2> SUFFICES ASSUME IInv, IInv', PagingInv, [PagingNext]_pagingVars
               PROVE  PagingInv'
    OBVIOUS
  <2>1. TypeOK'
    BY DEF IInv
  <2>2. PagingTypeOK'
    BY <2>1, TypeStep DEF PagingInv
  <2> QED
    BY <2>2, CacheStep, TablesStep DEF PagingInv
<1>3. PagingSpec => []IInv
  BY PagingUsesPmm, Invariance, PTL
<1> QED
  BY <1>1, <1>2, <1>3, PTL DEF PagingSpec

(* The variables of paging stay in their types: the entries are those of one table, and
   a caller is between two of its steps on at most one page. *)
THEOREM PagingTypeCorrect == PagingSpec => []PagingTypeOK
  BY PagingInvariance, PTL DEF PagingInv

(* The processor holds no translation from before the last page_map or page_unmap. *)
THEOREM TlbCoherentHolds == PagingSpec => []TlbCoherent
  BY PagingInvariance, PTL DEF PagingInv

(* The tables are two pages of their own that the manager never hands out again. *)
THEOREM TablesKeptHolds == PagingSpec => []TablesKept
  BY PagingInvariance, PTL DEF PagingInv
=============================================================================
