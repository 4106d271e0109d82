------------------------------ MODULE HeapProofs -------------------------------
(***************************************************************************)
(* The block list of the heap, for every size of pages, headers and words, *)
(* every memory and all requests: a block in use has room for its request, *)
(* no two neighbours in the list are free, and the totals kmalloc and      *)
(* kfree keep are the sums over the list.  The loader is one more client   *)
(* of the heap: what it hands to a process as entry point lies in a page   *)
(* its segments loaded.                                                    *)
(***************************************************************************)
EXTENDS Elf, SequenceTheorems, WellFoundedInduction, TLAPS

(* The least member of a set of naturals. *)
LEMMA Least ==
    ASSUME NEW S \in SUBSET Nat, S # {}
    PROVE  \E x \in S : \A y \in S : x <= y
<1>1. PICK x \in S : \A y \in S : ~(<<y, x>> \in OpToRel(<, Nat))
  BY NatLessThanWellFounded, WFMin, Zenon
<1>2. ASSUME NEW y \in S
      PROVE  x <= y
  <2>1. x \in Nat /\ y \in Nat /\ <<y, x>> \in Nat \X Nat
    OBVIOUS
  <2>2. ~(y < x)
    BY <1>1, <2>1 DEF OpToRel
  <2> QED
    BY <2>1, <2>2
<1> QED
  BY <1>2

(* The lowest page of a pool exists. *)
LEMMA FirstInPool ==
    ASSUME pool \subseteq Nat, pool # {}
    PROVE  First \in pool
  BY Least, Zenon DEF First

(* A block of SizeFor bytes has room for the request, unless the sum wraps. *)
LEMMA Room ==
    ASSUME NEW size \in Nat
    PROVE  /\ SizeFor(size) \in Nat
           /\ size <= LIMIT - HEADER - 4 => SizeFor(size) >= size + HEADER
<1>1. LIMIT \in Nat \ {0} /\ HEADER \in Nat \ {0}
  BY HeapAssumption
<1>2. ASSUME NEW n \in Nat
      PROVE  n % LIMIT \in Nat /\ (n < LIMIT => n % LIMIT = n)
  BY <1>1, <1>2
<1>3. ASSUME NEW n \in Nat
      PROVE  (n \div 4) * 4 \in Nat /\ (n \div 4) * 4 <= n /\ (n \div 4) * 4 + 3 >= n
  BY <1>3
<1>4. align4(size) \in Nat
  BY <1>2, <1>3 DEF align4
<1>5. SizeFor(size) \in Nat
  BY <1>1, <1>2, <1>4 DEF SizeFor
<1>6. ASSUME size <= LIMIT - HEADER - 4
      PROVE  SizeFor(size) >= size + HEADER
  <2>1. size + 3 \in Nat /\ size + 3 < LIMIT
    BY <1>1, <1>6
  <2>2. align4(size) = ((size + 3) \div 4) * 4
    BY <1>2, <2>1 DEF align4
  <2>3. align4(size) >= size /\ align4(size) + HEADER < LIMIT /\ align4(size) + HEADER \in Nat
    BY <1>1, <1>3, <1>4, <1>6, <2>1, <2>2
  <2>4. SizeFor(size) = align4(size) + HEADER
    BY <1>2, <2>3 DEF SizeFor
  <2> QED
    BY <1>1, <1>4, <2>3, <2>4
<1> QED
  BY <1>5, <1>6

(* What merging block i with the one after it leaves. *)
LEMMA Merged ==
    ASSUME NEW s \in Seq(Block), NEW i \in 1..Len(s)-1
    PROVE  /\ Merge(s, i) \in Seq(Block)
           /\ Len(Merge(s, i)) = Len(s) - 1
           /\ \A j \in 1..Len(s)-1 :
                 /\ j < i => Merge(s, i)[j] = s[j]
                 /\ j = i => Merge(s, i)[j] = [s[i] EXCEPT !.size = s[i].size + s[i + 1].size]
                 /\ j > i => Merge(s, i)[j] = s[j + 1]
<1> DEFINE b == [s[i] EXCEPT !.size = s[i].size + s[i + 1].size]
           t == [s EXCEPT ![i] = b]
<1>0. Len(s) \in Nat /\ i \in Nat
  OBVIOUS
<1>1. s[i] \in Block /\ s[i + 1] \in Block
  BY ElementOfSeq
<1>2. b \in Block
  <2>1. s[i].size + s[i + 1].size \in Nat
    <3>1. s[i].size \in Nat /\ s[i + 1].size \in Nat
      BY <1>1, Zenon DEF Block
    <3> QED
      BY <3>1
  <2>2. ASSUME NEW p \in Block, NEW n \in Nat
        PROVE  [p EXCEPT !.size = n] \in Block
    BY Zenon DEF Block
  <2> QED
    BY <1>1, <2>1, <2>2
<1>3. Merge(s, i) = Unlinked(t, i + 1)
  BY DEF Merge
<1> HIDE DEF b
<1>4. t \in Seq(Block) /\ Len(t) = Len(s) /\ \A j \in 1..Len(s) : t[j] = IF j = i THEN b ELSE s[j]
  BY <1>0, <1>2, ExceptSeq
<1> HIDE DEF t
<1> DEFINE u == SubSeq(t, 1, i)
           v == SubSeq(t, i + 2, Len(t))
<1>5. Merge(s, i) = u \o v
  <2>1. (i + 1) - 1 = i /\ (i + 1) + 1 = i + 2
    BY <1>0
  <2> QED
    BY <1>3, <2>1, SMTT(30) DEF Unlinked
<1>6. u \in Seq(Block) /\ Len(u) = i /\ \A j \in 1..i : u[j] = t[j]
  BY <1>0, <1>4, SubSeqProperties
<1>7. v \in Seq(Block) /\ Len(v) = Len(s) - i - 1
      /\ \A j \in 1..Len(s)-i-1 : v[j] = t[i + 1 + j]
  BY <1>0, <1>4, SubSeqProperties
<1> HIDE DEF u, v
<1>8. u \o v \in Seq(Block) /\ Len(u \o v) = Len(s) - 1
  <2>1. u \o v \in Seq(Block) /\ Len(u \o v) = Len(u) + Len(v)
    BY <1>6, <1>7, ConcatProperties, Zenon
  <2> QED
    BY <1>0, <1>6, <1>7, <2>1
<1>9. ASSUME NEW j \in 1..Len(s)-1
      PROVE  (u \o v)[j] = IF j <= i THEN t[j] ELSE t[j + 1]
  <2>1. CASE j <= i
    <3>1. (u \o v)[j] = u[j] /\ j \in 1..i
      BY <1>0, <1>6, <1>7, <1>8, <2>1, ConcatProperties
    <3> QED
      BY <1>6, <2>1, <3>1
  <2>2. CASE j > i
    <3>1. j - i \in 1..Len(s)-i-1 /\ i + 1 + (j - i) = j + 1
      BY <1>0, <2>2
    <3>2. (u \o v)[j] = v[j - i]
      BY <1>0, <1>6, <1>7, <1>8, <2>2, ConcatProperties
    <3>3. v[j - i] = t[j + 1] /\ ~(j <= i)
      BY <1>0, <1>7, <2>2, <3>1
    <3> QED
      BY <3>2, <3>3
  <2>3. j <= i \/ j > i
    BY <1>0
  <2> QED
    BY <2>1, <2>2, <2>3, Zenon
<1>10. ASSUME NEW j \in 1..Len(s)-1
       PROVE  /\ j < i => (u \o v)[j] = s[j]
              /\ j = i => (u \o v)[j] = b
              /\ j > i => (u \o v)[j] = s[j + 1]
  <2>1. (u \o v)[j] = IF j <= i THEN t[j] ELSE t[j + 1]
    BY <1>9, Zenon
  <2>2. j \in 1..Len(s) /\ j + 1 \in 1..Len(s)
    BY <1>0
  <2> QED
    BY <1>0, <1>4, <2>1, <2>2
<1> QED
  BY <1>5, <1>8, <1>10, Zenon DEF b

(* The parts of the invariant that concern the list s, with the block at i apart: it is
   the one being freed. *)
Roomy(s) ==
    \A j \in DOMAIN s : s[j].used /\ s[j].request <= LIMIT - HEADER - 4
                            => s[j].size >= s[j].request + HEADER
ApartAt(s, i) ==
    \A j \in 1..Len(s)-1 : j # i - 1 /\ j # i => s[j].used \/ s[j + 1].used

(* Merging free blocks keeps the blocks in use as they are, and every pair of free
   neighbours that is left is at the merged block. *)
LEMMA MergeKeeps ==
    ASSUME NEW s \in Seq(Block), NEW i \in 1..Len(s)-1, ~s[i].used, ~s[i + 1].used,
           Roomy(s)
    PROVE  /\ Merge(s, i) \in Seq(Block) /\ Len(Merge(s, i)) = Len(s) - 1
           /\ Roomy(Merge(s, i))
           /\ ~Merge(s, i)[i].used
           /\ \A j \in 1..Len(s)-1 : j < i => Merge(s, i)[j] = s[j]
           /\ \A j \in 1..Len(s)-1 : j > i => Merge(s, i)[j] = s[j + 1]
<1> DEFINE m == Merge(s, i)
<1>0. Len(s) \in Nat /\ i \in Nat
  OBVIOUS
<1>1. /\ m \in Seq(Block) /\ Len(m) = Len(s) - 1
      /\ \A j \in 1..Len(s)-1 :
            /\ j < i => m[j] = s[j]
            /\ j = i => m[j] = [s[i] EXCEPT !.size = s[i].size + s[i + 1].size]
            /\ j > i => m[j] = s[j + 1]
  BY Merged
<1> HIDE DEF m
<1>2. s[i] \in Block
  BY <1>0, ElementOfSeq
<1>3. ~m[i].used
  <2>1. m[i] = [s[i] EXCEPT !.size = s[i].size + s[i + 1].size]
    BY <1>0, <1>1
  <2>2. ASSUME NEW p \in Block, NEW n
        PROVE  [p EXCEPT !.size = n].used = p.used
    BY DEF Block
  <2> QED
    BY <1>2, <2>1, <2>2
<1>4. Roomy(m)
  <2> SUFFICES ASSUME NEW j \in DOMAIN m, m[j].used, m[j].request <= LIMIT - HEADER - 4
               PROVE  m[j].size >= m[j].request + HEADER
    BY DEF Roomy
  <2>1. j \in 1..Len(s)-1 /\ DOMAIN s = 1..Len(s)
    BY <1>0, <1>1
  <2>2. j # i
    BY <1>3
  <2>3. PICK k \in DOMAIN s : m[j] = s[k]
    <3>1. CASE j < i
      BY <1>0, <1>1, <2>1, <3>1
    <3>2. CASE j > i
      <4>1. j + 1 \in DOMAIN s
        BY <1>0, <2>1
      <4> QED
        BY <1>1, <2>1, <3>2, <4>1
    <3> QED
      BY <1>0, <2>1, <2>2, <3>1, <3>2
  <2> QED
    BY <2>3 DEF Roomy
<1> QED
  BY <1>1, <1>3, <1>4 DEF m

(* f holds the sums of the first numbers of w. *)
Sums(f, w, n) ==
    /\ f \in [0..n -> Nat] /\ f[0] = 0
    /\ \A k \in 1..n : f[k] = f[k - 1] + w[k]

(* They exist: the shortest list without them would have them. *)
LEMMA SumsExist ==
    ASSUME NEW n \in Nat, NEW w \in [1..n -> Nat]
    PROVE  \E f : Sums(f, w, n)
<1> DEFINE Bad == {m \in 0..n : ~\E f : Sums(f, w, m)}
<1>1. ASSUME Bad # {} PROVE FALSE
  <2>1. PICK m \in Bad : \A k \in Bad : m <= k
    <3>1. Bad \in SUBSET Nat
      OBVIOUS
    <3> HIDE DEF Bad
    <3> QED  BY <1>1, <3>1, Least
  <2>2. m \in 0..n /\ ~\E f : Sums(f, w, m)
    OBVIOUS
  <2>3. m # 0
    <3>1. Sums([k \in 0..0 |-> 0], w, 0)
      BY DEF Sums
    <3> QED  BY <2>2, <3>1
  <2>4. m - 1 \in 0..n /\ m - 1 \notin Bad
    <3> HIDE DEF Bad
    <3> QED  BY <2>1, <2>2, <2>3
  <2>5. PICK f : Sums(f, w, m - 1)
    BY <2>4
  <2> DEFINE g == [k \in 0..m |-> IF k = m THEN f[m - 1] + w[m] ELSE f[k]]
  <2>6. f[m - 1] + w[m] \in Nat
    BY <2>2, <2>3, <2>5 DEF Sums
  <2>7. Sums(g, w, m)
    BY <2>2, <2>3, <2>5, <2>6, SMTT(30) DEF Sums
  <2> QED  BY <2>2, <2>7
<1>2. Bad = {} /\ n \in 0..n
  BY <1>1
<1> QED  BY <1>2, Zenon

(* The total is the last of them. *)
LEMMA TotalIs ==
    ASSUME NEW n \in Nat, NEW w \in [1..n -> Nat], NEW f, Sums(f, w, n)
    PROVE  Total(w, n) = f[n] /\ f[n] \in Nat
<1> DEFINE R(g) == g = [k \in 0..n |-> IF k = 0 THEN 0 ELSE g[k - 1] + w[k]]
           sum == CHOOSE g : R(g)
<1>1. Total(w, n) = sum[n]
  BY DEF Total
<1>2. R(f)
  BY DEF Sums
<1>3. R(sum)
  <2> HIDE DEF R
  <2> QED  BY <1>2
<1> HIDE DEF sum
<1> DEFINE Bad == {m \in 0..n : sum[m] # f[m]}
<1>4. ASSUME Bad # {} PROVE FALSE
  <2>1. PICK m \in Bad : \A k \in Bad : m <= k
    <3>1. Bad \in SUBSET Nat
      OBVIOUS
    <3> HIDE DEF Bad
    <3> QED  BY <1>4, <3>1, Least
  <2>2. m \in 0..n /\ sum[m] # f[m]
    OBVIOUS
  <2>3. \A k \in 0..n : sum[k] = IF k = 0 THEN 0 ELSE sum[k - 1] + w[k]
    BY <1>3
  <2>4. \A k \in 0..n : f[k] = IF k = 0 THEN 0 ELSE f[k - 1] + w[k]
    BY <1>2
  <2>5. m # 0
    BY <2>2, <2>3, <2>4
  <2>6. m - 1 \in 0..n /\ m - 1 \notin Bad
    <3> HIDE DEF Bad
    <3> QED  BY <2>1, <2>2, <2>5
  <2>7. sum[m - 1] = f[m - 1]
    BY <2>6
  <2> QED  BY <2>2, <2>3, <2>4, <2>5, <2>7
<1> QED  BY <1>1, <1>4 DEF Sums

(* A list that grows by one number. *)
LEMMA TotalAppend ==
    ASSUME NEW n \in Nat, NEW w \in [1..n -> Nat], NEW v \in [1..n+1 -> Nat],
           \A k \in 1..n : v[k] = w[k]
    PROVE  Total(w, n) \in Nat /\ Total(v, n + 1) = Total(w, n) + v[n + 1]
<1>1. PICK f : Sums(f, v, n + 1)
  BY SumsExist
<1> DEFINE g == [k \in 0..n |-> f[k]]
<1>2. Sums(g, w, n)
  BY <1>1 DEF Sums
<1>3. Total(w, n) = f[n] /\ f[n] \in Nat /\ Total(v, n + 1) = f[n + 1]
  BY <1>1, <1>2, TotalIs, SMTT(30)
<1> QED  BY <1>1, <1>3 DEF Sums

(* A list in which two neighbours become their sum. *)
LEMMA TotalMerge ==
    ASSUME NEW n \in Nat, NEW w \in [1..n+1 -> Nat], NEW v \in [1..n -> Nat],
           NEW i \in 1..n,
           \A k \in 1..n : /\ k < i => v[k] = w[k]
                           /\ k = i => v[k] = w[i] + w[i + 1]
                           /\ k > i => v[k] = w[k + 1]
    PROVE  Total(v, n) = Total(w, n + 1)
<1>1. PICK f : Sums(f, w, n + 1)
  BY SumsExist
<1> DEFINE g == [k \in 0..n |-> IF k < i THEN f[k] ELSE f[k + 1]]
<1>2. f \in [0..n+1 -> Nat] /\ f[0] = 0 /\ \A k \in 1..n+1 : f[k] = f[k - 1] + w[k]
  BY <1>1, SMTT(30) DEF Sums
<1>3. g \in [0..n -> Nat] /\ g[0] = 0
  BY <1>2, SMTT(30)
<1>4. ASSUME NEW k \in 1..n  PROVE g[k] = g[k - 1] + v[k]
  <2>1. f[k] = f[k - 1] + w[k] /\ f[k - 1] \in Nat
    BY <1>2, SMTT(30)
  <2>2. f[k + 1] = f[k] + w[k + 1]
    BY <1>2
  <2>3. w[k] \in Nat /\ w[k + 1] \in Nat
    OBVIOUS
  <2>4. CASE k < i
    BY <2>1, <2>4
  <2>5. CASE k = i
    BY <2>1, <2>2, <2>3, <2>5
  <2>6. CASE k > i
    BY <2>2, <2>6
  <2> QED  BY <2>4, <2>5, <2>6
<1>5. Sums(g, v, n)
  BY <1>3, <1>4, Zenon DEF Sums
<1>6. Total(v, n) = g[n]
  <2> HIDE DEF g
  <2> QED  BY <1>5, TotalIs, SMTT(30)
<1>7. Total(w, n + 1) = f[n + 1]
  BY <1>1, TotalIs
<1> QED  BY <1>6, <1>7

(* A list in which one number changes. *)
LEMMA TotalUpdate ==
    ASSUME NEW n \in Nat, NEW w \in [1..n -> Nat], NEW v \in [1..n -> Nat], NEW i \in 1..n,
           \A k \in 1..n : k # i => v[k] = w[k]
    PROVE  Total(v, n) = Total(w, n) + v[i] - w[i]
<1>1. PICK f : Sums(f, w, n)
  BY SumsExist
<1>2. PICK h : Sums(h, v, n)
  BY SumsExist
<1> DEFINE Bad == {m \in 0..n : h[m] # IF m < i THEN f[m] ELSE f[m] + v[i] - w[i]}
<1>3. f \in [0..n -> Nat] /\ f[0] = 0 /\ \A k \in 1..n : f[k] = f[k - 1] + w[k]
  BY <1>1 DEF Sums
<1>4. h \in [0..n -> Nat] /\ h[0] = 0 /\ \A k \in 1..n : h[k] = h[k - 1] + v[k]
  BY <1>2 DEF Sums
<1>5. ASSUME Bad # {} PROVE FALSE
  <2>1. PICK m \in Bad : \A k \in Bad : m <= k
    <3>1. Bad \in SUBSET Nat
      OBVIOUS
    <3> HIDE DEF Bad
    <3> QED  BY <1>5, <3>1, Least
  <2>2. m \in 0..n /\ h[m] # IF m < i THEN f[m] ELSE f[m] + v[i] - w[i]
    OBVIOUS
  <2>3. m # 0
    BY <1>3, <1>4, <2>2
  <2>4. m - 1 \in 0..n /\ m - 1 \notin Bad
    <3> HIDE DEF Bad
    <3> QED  BY <2>1, <2>2, <2>3
  <2>5. h[m - 1] = IF m - 1 < i THEN f[m - 1] ELSE f[m - 1] + v[i] - w[i]
    BY <2>4
  <2>8. m \in 1..n
    BY <2>2, <2>3
  <2>9. f[m] = f[m - 1] + w[m] /\ f[m - 1] \in Nat
    BY <1>3, <2>8
  <2>6. h[m] = h[m - 1] + v[m]
    BY <1>4, <2>8
  <2>7. w[m] \in Nat /\ v[m] \in Nat /\ w[i] \in Nat /\ v[i] \in Nat
    BY <2>2, <2>3
  <2> HIDE DEF Bad
  <2>10. CASE m < i
    BY <2>2, <2>5, <2>6, <2>7, <2>8, <2>9, <2>10
  <2>11. CASE m = i
    BY <2>2, <2>5, <2>6, <2>7, <2>8, <2>9, <2>11
  <2>12. CASE m > i
    BY <2>2, <2>5, <2>6, <2>7, <2>8, <2>9, <2>12, SMTT(30)
  <2> QED  BY <2>2, <2>10, <2>11, <2>12
<1>6. Total(w, n) = f[n] /\ Total(v, n) = h[n]
  BY <1>1, <1>2, TotalIs
<1>7. n \notin Bad
  BY <1>5, SMTT(30)
<1> QED  BY <1>6, <1>7

(* The totals of lists of blocks are those of their sizes. *)
LEMMA BytesNat ==
    ASSUME NEW s \in Seq(Block)
    PROVE  /\ Len(s) \in Nat
           /\ [j \in DOMAIN s |-> s[j].size] \in [1..Len(s) -> Nat]
           /\ [j \in DOMAIN s |-> IF s[j].used THEN s[j].size ELSE 0] \in [1..Len(s) -> Nat]
           /\ Bytes(s) \in Nat /\ UsedBytes(s) \in Nat
<1>1. Len(s) \in Nat /\ DOMAIN s = 1..Len(s)
  OBVIOUS
<1>2. \A j \in DOMAIN s : s[j] \in Block
  BY <1>1, ElementOfSeq
<1>3. \A j \in DOMAIN s : s[j].size \in Nat
  BY <1>2, Zenon DEF Block
<1> DEFINE w == [j \in DOMAIN s |-> s[j].size]
           v == [j \in DOMAIN s |-> IF s[j].used THEN s[j].size ELSE 0]
<1>4. w \in [1..Len(s) -> Nat] /\ v \in [1..Len(s) -> Nat]
  BY <1>1, <1>3
<1>5. ASSUME NEW n \in Nat, NEW u \in [1..n -> Nat]  PROVE Total(u, n) \in Nat
  BY SumsExist, TotalIs, SMTT(30)
<1>6. Total(w, Len(s)) \in Nat /\ Total(v, Len(s)) \in Nat
  <2> HIDE DEF w, v
  <2> QED  BY <1>1, <1>4, <1>5, Zenon
<1> QED  BY <1>1, <1>4, <1>6 DEF Bytes, UsedBytes

(* The blocks of s in use are blocks of t. *)
Survive(s, t) == \A j \in DOMAIN s : s[j].used => \E h \in DOMAIN t : t[h] = s[j]

(* Merging two free blocks changes neither total, and no block in use. *)
LEMMA MergeTotals ==
    ASSUME NEW s \in Seq(Block), NEW i \in 1..Len(s)-1, ~s[i].used, ~s[i + 1].used
    PROVE  /\ Bytes(Merge(s, i)) = Bytes(s) /\ UsedBytes(Merge(s, i)) = UsedBytes(s)
           /\ Survive(s, Merge(s, i))
<1> DEFINE m == Merge(s, i)
           n == Len(m)
<1>0. Len(s) \in Nat /\ i \in Nat
  OBVIOUS
<1>1. /\ m \in Seq(Block) /\ n = Len(s) - 1 /\ n \in Nat
      /\ \A j \in 1..n :
            /\ j < i => m[j] = s[j]
            /\ j = i => m[j] = [s[i] EXCEPT !.size = s[i].size + s[i + 1].size]
            /\ j > i => m[j] = s[j + 1]
  BY <1>0, Merged, SMTT(30)
<1> HIDE DEF m, n
<1>2. s[i] \in Block /\ s[i + 1] \in Block
  BY <1>0, ElementOfSeq
<1>3. m[i].size = s[i].size + s[i + 1].size /\ ~m[i].used
  <2>1. m[i] = [s[i] EXCEPT !.size = s[i].size + s[i + 1].size]
    BY <1>0, <1>1
  <2>2. ASSUME NEW p \in Block, NEW x
        PROVE  [p EXCEPT !.size = x].used = p.used /\ [p EXCEPT !.size = x].size = x
    BY DEF Block
  <2> QED  BY <1>2, <2>1, <2>2
<1>4. DOMAIN m = 1..n /\ DOMAIN s = 1..n+1 /\ i \in 1..n /\ Len(s) = n + 1
  <2>1. Len(s) = n + 1 /\ i \in 1..n
    BY <1>0, <1>1
  <2>2. DOMAIN m = 1..n
    BY <1>1 DEF n
  <2> QED  BY <2>1, <2>2
<1>5. Bytes(m) = Bytes(s)
  <2> DEFINE w == [j \in DOMAIN s |-> s[j].size]
             v == [j \in DOMAIN m |-> m[j].size]
  <2>1. w \in [1..n+1 -> Nat] /\ v \in [1..n -> Nat]
    <3>1. w \in [1..Len(s) -> Nat]
      BY BytesNat, Zenon
    <3>2. v \in [1..Len(m) -> Nat]
      BY <1>1, BytesNat, Zenon
    <3> QED  BY <1>4, <3>1, <3>2, Zenon DEF n
  <2>2. \A k \in 1..n : /\ k < i => v[k] = w[k]
                        /\ k = i => v[k] = w[i] + w[i + 1]
                        /\ k > i => v[k] = w[k + 1]
    BY <1>1, <1>3, <1>4
  <2>3. Bytes(m) = Total(v, n) /\ Bytes(s) = Total(w, n + 1)
    BY <1>4 DEF Bytes, n
  <2> HIDE DEF v, w
  <2> QED  BY <1>1, <1>4, <2>1, <2>2, <2>3, TotalMerge, ZenonT(30)
<1>6. UsedBytes(m) = UsedBytes(s)
  <2> DEFINE w == [j \in DOMAIN s |-> IF s[j].used THEN s[j].size ELSE 0]
             v == [j \in DOMAIN m |-> IF m[j].used THEN m[j].size ELSE 0]
  <2>1. w \in [1..n+1 -> Nat] /\ v \in [1..n -> Nat]
    <3>1. w \in [1..Len(s) -> Nat]
      BY BytesNat, Zenon
    <3>2. v \in [1..Len(m) -> Nat]
      BY <1>1, BytesNat, Zenon
    <3> QED  BY <1>4, <3>1, <3>2, Zenon DEF n
  <2>2. \A k \in 1..n : /\ k < i => v[k] = w[k]
                        /\ k = i => v[k] = w[i] + w[i + 1]
                        /\ k > i => v[k] = w[k + 1]
    BY <1>1, <1>3, <1>4
  <2>3. UsedBytes(m) = Total(v, n) /\ UsedBytes(s) = Total(w, n + 1)
    BY <1>4 DEF UsedBytes, n
  <2> HIDE DEF v, w
  <2> QED  BY <1>1, <1>4, <2>1, <2>2, <2>3, TotalMerge, ZenonT(30)
<1>7. Survive(s, m)
  <2> SUFFICES ASSUME NEW j \in DOMAIN s, s[j].used
               PROVE  \E h \in DOMAIN m : m[h] = s[j]
    BY DEF Survive
  <2>1. j # i /\ j # i + 1 /\ j \in 1..n+1
    BY <1>4
  <2>2. CASE j < i
    <3>1. j \in DOMAIN m /\ m[j] = s[j]
      BY <1>1, <1>4, <2>1, <2>2
    <3> QED  BY <3>1
  <2>3. CASE j > i + 1
    <3>1. j - 1 \in DOMAIN m /\ m[j - 1] = s[(j - 1) + 1] /\ (j - 1) + 1 = j
      BY <1>1, <1>4, <2>1, <2>3
    <3> QED  BY <3>1
  <2> QED  BY <1>4, <2>1, <2>2, <2>3
<1> QED  BY <1>5, <1>6, <1>7 DEF m

(* The pages of a block are numbers. *)
LEMMA PagesNat ==
    ASSUME NEW s \in Seq(Block), NEW i \in Int, i + 1 \in 1..Len(s)
    PROVE  MergedPages(s, i) \subseteq Nat
<1>1. s[i + 1] \in Block
  BY ElementOfSeq
<1>2. s[i + 1].page \in Nat /\ s[i + 1].size \in Nat
  BY <1>1, Zenon DEF Block
<1>3. ASSUME NEW p \in Nat, NEW n \in Int
      PROVE  p .. p + n - 1 \subseteq Nat
  BY <1>3
<1>4. PagesFor(s[i + 1].size) \in Int
  <2>1. PAGE_SIZE \in Nat \ {0} /\ LIMIT \in Nat \ {0}
    BY HeapAssumption
  <2>2. ASSUME NEW n \in Nat
        PROVE  n % LIMIT \in Nat /\ n \div PAGE_SIZE \in Nat
    BY <2>1
  <2>3. s[i + 1].size + PAGE_SIZE - 1 \in Nat
    BY <1>2, <2>1
  <2>4. (s[i + 1].size + PAGE_SIZE - 1) % LIMIT \in Nat
    BY <2>2, <2>3
  <2>5. ((s[i + 1].size + PAGE_SIZE - 1) % LIMIT) \div PAGE_SIZE \in Nat
    BY <2>2, <2>4
  <2> QED
    BY <2>5 DEF PagesFor
<1> QED
  BY <1>2, <1>3, <1>4 DEF MergedPages, Span

(* kfree: the list that Release leaves. *)
LEMMA Released ==
    ASSUME pool \subseteq Nat, blocks \in Seq(Block), Roomy(blocks), ApartAt(blocks, 0),
           NEW i \in DOMAIN blocks, Release(i)
    PROVE  /\ blocks' \in Seq(Block) /\ Roomy(blocks') /\ ApartAt(blocks', 0)
           /\ pool' \subseteq Nat
<1> DEFINE s0 == [blocks EXCEPT ![i].used = FALSE]
           fwd == FreeAt(s0, i + 1)
           s1 == IF fwd THEN Merge(s0, i) ELSE s0
           bwd == FreeAt(s1, i - 1)
<1>0. Len(blocks) \in Nat /\ i \in 1..Len(blocks) /\ i \in Nat
  OBVIOUS
<1>1. /\ s0 \in Seq(Block) /\ Len(s0) = Len(blocks) /\ ~s0[i].used
      /\ \A j \in 1..Len(blocks) : j # i => s0[j] = blocks[j]
  <2> DEFINE b == [blocks[i] EXCEPT !.used = FALSE]
  <2>1. blocks[i] \in Block
    BY <1>0, ElementOfSeq
  <2>2. ASSUME NEW p \in Block
        PROVE  [p EXCEPT !.used = FALSE] \in Block /\ ~[p EXCEPT !.used = FALSE].used
    BY Zenon DEF Block
  <2>3. b \in Block /\ ~b.used
    BY <2>1, <2>2
  <2>4. s0 = [blocks EXCEPT ![i] = b]
    OBVIOUS
  <2> HIDE DEF b, s0
  <2> QED
    BY <1>0, <2>3, <2>4, ExceptSeq
<1>2. /\ blocks' = IF bwd THEN Merge(s1, i - 1) ELSE s1
      /\ pool' = pool \cup (IF fwd THEN MergedPages(s0, i) ELSE {})
                      \cup (IF bwd THEN MergedPages(s1, i - 1) ELSE {})
  BY DEF Release
<1>3. fwd <=> (i + 1 \in 1..Len(s0) /\ ~s0[i + 1].used)
  BY <1>1 DEF FreeAt
<1> HIDE DEF s0, fwd
<1>4. Roomy(s0)
  <2>1. DOMAIN s0 = 1..Len(blocks) /\ DOMAIN blocks = 1..Len(blocks)
    BY <1>1
  <2> QED
    BY <1>1, <2>1 DEF Roomy
<1>5. ApartAt(s0, i)
  <2> SUFFICES ASSUME NEW j \in 1..Len(s0)-1, j # i - 1, j # i
               PROVE  s0[j].used \/ s0[j + 1].used
    BY DEF ApartAt
  <2>1. /\ j \in 1..Len(blocks)-1 /\ j \in 1..Len(blocks) /\ j + 1 \in 1..Len(blocks)
        /\ j # 0 /\ j # 0 - 1 /\ j + 1 # i
    BY <1>0, <1>1
  <2>2. blocks[j].used \/ blocks[j + 1].used
    BY <2>1 DEF ApartAt
  <2> QED
    BY <1>1, <2>1, <2>2
<1>6. /\ s1 \in Seq(Block) /\ i \in 1..Len(s1) /\ ~s1[i].used /\ Roomy(s1)
      /\ \A j \in 1..Len(s1)-1 : j # i - 1 => s1[j].used \/ s1[j + 1].used
  <2>1. CASE fwd
    <3>1. i \in 1..Len(s0)-1 /\ ~s0[i + 1].used
      BY <1>0, <1>1, <1>3, <2>1
    <3>2. s1 = Merge(s0, i)
      BY <2>1
    <3> HIDE DEF s1
    <3>3. /\ s1 \in Seq(Block) /\ Len(s1) = Len(s0) - 1 /\ Roomy(s1) /\ ~s1[i].used
          /\ \A j \in 1..Len(s0)-1 : j < i => s1[j] = s0[j]
          /\ \A j \in 1..Len(s0)-1 : j > i => s1[j] = s0[j + 1]
      BY <1>1, <1>4, <3>1, <3>2, MergeKeeps, Zenon
    <3>4. ASSUME NEW j \in 1..Len(s1)-1, j # i - 1
          PROVE  s1[j].used \/ s1[j + 1].used
      <4>0. j \in 1..Len(s0)-1 /\ j + 1 \in 1..Len(s0)-1
        BY <1>0, <1>1, <3>3
      <4>1. CASE j < i - 1
        <5>1. j < i /\ j + 1 < i /\ j # i /\ j # i - 1
          BY <1>0, <4>1
        <5> QED
          BY <1>5, <3>3, <4>0, <5>1 DEF ApartAt
      <4>2. CASE j >= i
        <5>1. /\ j + 1 > i /\ j + 1 # i /\ j + 1 # i - 1
              /\ s0[j + 1].used \/ s0[(j + 1) + 1].used
          BY <1>0, <1>5, <4>0, <4>2 DEF ApartAt
        <5>2. s1[j + 1] = s0[(j + 1) + 1]
          BY <3>3, <4>0, <5>1
        <5>3. CASE j = i
          BY <3>1, <5>1, <5>2, <5>3
        <5>4. CASE j > i
          BY <3>3, <4>0, <5>1, <5>2, <5>4
        <5> QED
          BY <1>0, <4>2, <5>3, <5>4
      <4> QED
        BY <1>0, <3>4, <4>1, <4>2
    <3> QED
      BY <1>0, <1>1, <3>1, <3>3, <3>4, Zenon
  <2>2. CASE ~fwd
    <3>1. s1 = s0
      BY <2>2
    <3> HIDE DEF s1
    <3>2. ASSUME NEW j \in 1..Len(s0)-1, j # i - 1
          PROVE  s0[j].used \/ s0[j + 1].used
      <4>1. CASE j = i
        BY <1>0, <1>1, <1>3, <2>2, <4>1
      <4>2. CASE j # i
        BY <1>5, <3>2, <4>2 DEF ApartAt
      <4> QED
        BY <4>1, <4>2
    <3> QED
      BY <1>0, <1>1, <1>4, <3>1, <3>2
  <2> QED
    BY <2>1, <2>2
<1>7. bwd <=> (i - 1 \in 1..Len(s1) /\ ~s1[i - 1].used)
  BY <1>6 DEF FreeAt
<1> HIDE DEF s1, bwd
<1>8. pool' \subseteq Nat
  <2>1. fwd => MergedPages(s0, i) \subseteq Nat
    BY <1>0, <1>1, <1>3, PagesNat
  <2>2. bwd => MergedPages(s1, i - 1) \subseteq Nat
    <3>1. bwd => i - 1 \in Int /\ (i - 1) + 1 \in 1..Len(s1)
      BY <1>0, <1>6
    <3> QED
      BY <1>6, <3>1, PagesNat
  <2> QED
    BY <1>2, <2>1, <2>2, Zenon
<1>9. CASE bwd
  <2>1. /\ i - 1 \in 1..Len(s1)-1 /\ ~s1[i - 1].used /\ (i - 1) + 1 = i
        /\ blocks' = Merge(s1, i - 1) /\ Len(s1) \in Nat
    BY <1>0, <1>2, <1>6, <1>7, <1>9
  <2>2. /\ blocks' \in Seq(Block) /\ Len(blocks') = Len(s1) - 1 /\ Roomy(blocks')
        /\ \A j \in 1..Len(s1)-1 : j < i - 1 => blocks'[j] = s1[j]
        /\ \A j \in 1..Len(s1)-1 : j > i - 1 => blocks'[j] = s1[j + 1]
    <3> DEFINE k == i - 1
    <3>1. k \in 1..Len(s1)-1 /\ ~s1[k].used /\ ~s1[k + 1].used
      BY <1>6, <2>1
    <3>2. blocks' = Merge(s1, k)
      BY <2>1
    <3> HIDE DEF k
    <3>3. /\ blocks' \in Seq(Block) /\ Len(blocks') = Len(s1) - 1 /\ Roomy(blocks')
          /\ \A j \in 1..Len(s1)-1 : j < k => blocks'[j] = s1[j]
          /\ \A j \in 1..Len(s1)-1 : j > k => blocks'[j] = s1[j + 1]
      <4>1. s1 \in Seq(Block) /\ Roomy(s1)
        BY <1>6
      <4>2. /\ Merge(s1, k) \in Seq(Block) /\ Len(Merge(s1, k)) = Len(s1) - 1
            /\ Roomy(Merge(s1, k))
            /\ \A j \in 1..Len(s1)-1 : j < k => Merge(s1, k)[j] = s1[j]
            /\ \A j \in 1..Len(s1)-1 : j > k => Merge(s1, k)[j] = s1[j + 1]
        BY <3>1, <4>1, MergeKeeps
      <4> QED
        BY <3>2, <4>2
    <3> QED
      BY <3>3, SMTT(30) DEF k
  <2>3. ASSUME NEW j \in 1..Len(blocks')-1
        PROVE  blocks'[j].used \/ blocks'[j + 1].used
    <3>0. j \in 1..Len(s1)-1 /\ j + 1 \in 1..Len(s1)-1
      BY <2>1, <2>2
    <3>1. CASE j + 1 < i - 1
      <4>1. j < i - 1 /\ j # i - 1
        BY <1>0, <3>0, <3>1
      <4> QED
        BY <1>6, <2>2, <3>0, <3>1, <4>1
    <3>2. CASE j + 1 = i - 1
      <4>1. j < i - 1 /\ j # i - 1 /\ s1[j].used
        BY <1>0, <1>6, <2>1, <3>0, <3>2
      <4> QED
        BY <2>2, <3>0, <4>1
    <3>3. CASE j >= i - 1
      <4>1. /\ j + 1 > i - 1 /\ j + 1 # i - 1
            /\ s1[j + 1].used \/ s1[(j + 1) + 1].used
        BY <1>0, <1>6, <3>0, <3>3
      <4>2. blocks'[j + 1] = s1[(j + 1) + 1]
        BY <2>2, <3>0, <4>1
      <4>3. CASE j = i - 1
        BY <1>6, <2>1, <4>1, <4>2, <4>3, SMTT(30)
      <4>4. CASE j > i - 1
        BY <2>2, <3>0, <4>1, <4>2, <4>4, SMTT(30)
      <4> QED
        BY <1>0, <3>3, <4>3, <4>4
    <3> QED
      BY <1>0, <3>0, <3>1, <3>2, <3>3
  <2> QED
    BY <1>8, <2>2, <2>3 DEF ApartAt
<1>10. CASE ~bwd
  <2>1. blocks' = s1
    BY <1>2, <1>10
  <2>2. ASSUME NEW j \in 1..Len(s1)-1
        PROVE  s1[j].used \/ s1[j + 1].used
    <3>1. CASE j = i - 1
      BY <1>0, <1>6, <1>7, <1>10, <3>1
    <3>2. CASE j # i - 1
      BY <1>6, <3>2
    <3> QED
      BY <3>1, <3>2
  <2> QED
    BY <1>6, <1>8, <2>1, <2>2 DEF ApartAt
<1> QED
  BY <1>9, <1>10

(* kfree: the totals, and the blocks that stay in use. *)
LEMMA ReleaseTotals ==
    ASSUME blocks \in Seq(Block), NEW i \in DOMAIN blocks, blocks[i].used, Release(i)
    PROVE  /\ Bytes(blocks') = Bytes(blocks)
           /\ UsedBytes(blocks') = UsedBytes(blocks) - blocks[i].size
           /\ \A j \in DOMAIN blocks : blocks[j].used /\ j # i
                => \E h \in DOMAIN blocks' : blocks'[h] = blocks[j]
<1> DEFINE s0 == [blocks EXCEPT ![i].used = FALSE]
           fwd == FreeAt(s0, i + 1)
           s1 == IF fwd THEN Merge(s0, i) ELSE s0
           bwd == FreeAt(s1, i - 1)
           n == Len(blocks)
<1>0. n \in Nat /\ i \in 1..n /\ i \in Nat /\ DOMAIN blocks = 1..n
  OBVIOUS
<1>1. /\ s0 \in Seq(Block) /\ Len(s0) = n /\ DOMAIN s0 = 1..n
      /\ ~s0[i].used /\ s0[i].size = blocks[i].size
      /\ \A j \in 1..n : j # i => s0[j] = blocks[j]
  <2> DEFINE b == [blocks[i] EXCEPT !.used = FALSE]
  <2>1. blocks[i] \in Block
    BY <1>0, ElementOfSeq
  <2>2. ASSUME NEW p \in Block
        PROVE  /\ [p EXCEPT !.used = FALSE] \in Block /\ ~[p EXCEPT !.used = FALSE].used
               /\ [p EXCEPT !.used = FALSE].size = p.size
    BY Zenon DEF Block
  <2>3. b \in Block /\ ~b.used /\ b.size = blocks[i].size
    BY <2>1, <2>2
  <2>4. s0 = [blocks EXCEPT ![i] = b]
    OBVIOUS
  <2> HIDE DEF b, s0
  <2>5. /\ s0 \in Seq(Block) /\ Len(s0) = Len(blocks)
        /\ \A j \in 1..Len(blocks) : s0[j] = IF j = i THEN b ELSE blocks[j]
    BY <1>0, <2>3, <2>4, ExceptSeq
  <2>6. DOMAIN s0 = 1..n
    BY <2>5
  <2> QED
    BY <1>0, <2>3, <2>5, <2>6
<1>2. blocks' = IF bwd THEN Merge(s1, i - 1) ELSE s1
  BY DEF Release
<1>3. fwd => i \in 1..Len(s0)-1 /\ ~s0[i + 1].used
  BY <1>0, <1>1 DEF FreeAt
<1> HIDE DEF s0, fwd, n
<1>4. Bytes(s0) = Bytes(blocks)
  <2>1. [j \in DOMAIN s0 |-> s0[j].size] = [j \in DOMAIN blocks |-> blocks[j].size]
    BY <1>0, <1>1
  <2> QED
    BY <1>1, <2>1 DEF Bytes, n
<1>5. UsedBytes(s0) = UsedBytes(blocks) - blocks[i].size
  <2> DEFINE w == [j \in DOMAIN blocks |-> IF blocks[j].used THEN blocks[j].size ELSE 0]
             v == [j \in DOMAIN s0 |-> IF s0[j].used THEN s0[j].size ELSE 0]
  <2>1. w \in [1..n -> Nat] /\ v \in [1..n -> Nat] /\ UsedBytes(blocks) \in Nat
    BY <1>0, <1>1, BytesNat DEF n
  <2>2. /\ \A k \in 1..n : k # i => v[k] = w[k]
        /\ v[i] = 0 /\ w[i] = blocks[i].size
    BY <1>0, <1>1
  <2>3. UsedBytes(s0) = Total(v, n) /\ UsedBytes(blocks) = Total(w, n)
    BY <1>1 DEF UsedBytes, n
  <2> HIDE DEF v, w
  <2>4. Total(v, n) = Total(w, n) + v[i] - w[i] /\ w[i] \in Nat
    BY <1>0, <2>1, <2>2, TotalUpdate, ZenonT(30)
  <2> QED
    BY <2>1, <2>2, <2>3, <2>4
<1>6. /\ s1 \in Seq(Block) /\ i \in 1..Len(s1) /\ ~s1[i].used
      /\ Bytes(s1) = Bytes(s0) /\ UsedBytes(s1) = UsedBytes(s0) /\ Survive(s0, s1)
  <2>1. CASE fwd
    <3>1. s1 = Merge(s0, i)
      BY <2>1
    <3> HIDE DEF s1
    <3>2. /\ s1 \in Seq(Block) /\ Len(s1) = Len(s0) - 1
          /\ s1[i] = [s0[i] EXCEPT !.size = s0[i].size + s0[i + 1].size]
      <4>1. i \in 1..Len(s0)-1
        BY <1>3, <2>1
      <4>2. /\ s1 \in Seq(Block) /\ Len(s1) = Len(s0) - 1
            /\ \A j \in 1..Len(s0)-1 :
                  j = i => s1[j] = [s0[i] EXCEPT !.size = s0[i].size + s0[i + 1].size]
        <5>1. s0 \in Seq(Block)
          BY <1>1
        <5>2. /\ Merge(s0, i) \in Seq(Block) /\ Len(Merge(s0, i)) = Len(s0) - 1
              /\ \A j \in 1..Len(s0)-1 : j = i => Merge(s0, i)[j] =
                                [s0[i] EXCEPT !.size = s0[i].size + s0[i + 1].size]
          BY <4>1, <5>1, Merged
        <5> QED
          BY <3>1, <5>2
      <4> QED
        BY <4>1, <4>2
    <3>3. ~s1[i].used
      <4>1. s0[i] \in Block
        BY <1>0, <1>1, ElementOfSeq
      <4>2. ASSUME NEW p \in Block, NEW x
            PROVE  [p EXCEPT !.size = x].used = p.used
        BY DEF Block
      <4> QED
        BY <1>1, <3>2, <4>1, <4>2
    <3>4. /\ Bytes(s1) = Bytes(s0) /\ UsedBytes(s1) = UsedBytes(s0) /\ Survive(s0, s1)
      BY <1>1, <1>3, <2>1, <3>1, MergeTotals
    <3> QED
      BY <1>0, <1>1, <1>3, <2>1, <3>2, <3>3, <3>4
  <2>2. CASE ~fwd
    <3>1. s1 = s0
      BY <2>2
    <3> HIDE DEF s1
    <3> QED
      BY <1>0, <1>1, <3>1 DEF Survive
  <2> QED
    BY <2>1, <2>2
<1>7. bwd => i - 1 \in 1..Len(s1)-1 /\ ~s1[i - 1].used /\ (i - 1) + 1 = i
  <2>1. Len(s1) \in Nat /\ DOMAIN s1 = 1..Len(s1)
    BY <1>6
  <2> QED
    BY <1>0, <1>6, <2>1 DEF FreeAt
<1> HIDE DEF s1, bwd
<1>8. Bytes(blocks') = Bytes(s1) /\ UsedBytes(blocks') = UsedBytes(s1) /\ Survive(s1, blocks')
  <2>1. CASE bwd
    <3> DEFINE k == i - 1
    <3>1. k \in 1..Len(s1)-1 /\ ~s1[k].used /\ ~s1[k + 1].used /\ blocks' = Merge(s1, k)
      BY <1>2, <1>6, <1>7, <2>1
    <3> HIDE DEF k
    <3> QED
      BY <1>6, <3>1, MergeTotals
  <2>2. CASE ~bwd
    BY <1>2, <2>2 DEF Survive
  <2> QED
    BY <2>1, <2>2
<1>9. ASSUME NEW j \in DOMAIN blocks, blocks[j].used, j # i
      PROVE  \E h \in DOMAIN blocks' : blocks'[h] = blocks[j]
  <2>1. j \in DOMAIN s0 /\ s0[j] = blocks[j] /\ s0[j].used
    BY <1>0, <1>1, <1>9
  <2>2. PICK g \in DOMAIN s1 : s1[g] = s0[j]
    BY <1>6, <2>1 DEF Survive
  <2>3. PICK h \in DOMAIN blocks' : blocks'[h] = s1[g]
    BY <1>8, <2>1, <2>2 DEF Survive
  <2> QED
    BY <2>1, <2>2, <2>3
<1> QED
  BY <1>4, <1>5, <1>6, <1>8, <1>9

(* The inductive invariant of the heap. *)
ListInv ==
    /\ pool \subseteq Nat /\ blocks \in Seq(Block)
    /\ Roomy(blocks) /\ ApartAt(blocks, 0)
HeapInv ==
    /\ ListInv /\ intact \in BOOLEAN
    /\ heap_total = Bytes(blocks) /\ heap_used = UsedBytes(blocks)

(* kmalloc of a block of the list. *)
LEMMA ReuseKeeps ==
    ASSUME HeapInv, NEW size \in Nat, NEW page, Reuse(size, page)
    PROVE  /\ HeapInv' /\ Survive(blocks, blocks')
           /\ \E h \in DOMAIN blocks' :
                blocks'[h].page = page /\ blocks'[h].used /\ blocks'[h].request = size
<1>0. /\ pool \subseteq Nat /\ blocks \in Seq(Block) /\ Len(blocks) \in Nat
      /\ DOMAIN blocks = 1..Len(blocks)
      /\ Roomy(blocks) /\ ApartAt(blocks, 0)
      /\ heap_total = Bytes(blocks) /\ heap_used = UsedBytes(blocks) /\ intact \in BOOLEAN
  BY DEF HeapInv, ListInv
<1>2. PICK i \in DOMAIN blocks :
          /\ ~blocks[i].used /\ blocks[i].size >= SizeFor(size) /\ blocks[i].page = page
          /\ heap_used' = heap_used + blocks[i].size
          /\ heap_total' = heap_total /\ intact' = intact
          /\ blocks' = [blocks EXCEPT ![i].used = TRUE, ![i].request = size]
          /\ pool' = pool
  BY Zenon DEF Reuse, Fits
<1> DEFINE b == [blocks[i] EXCEPT !.used = TRUE, !.request = size]
<1>3. blocks[i] \in Block
  BY <1>0, ElementOfSeq
<1>4. ASSUME NEW p \in Block
      PROVE  LET q == [p EXCEPT !.used = TRUE, !.request = size]
             IN  q \in Block /\ q.used /\ q.request = size /\ q.size = p.size
                 /\ q.page = p.page
  BY Zenon DEF Block
<1>5. b \in Block /\ b.used /\ b.request = size /\ b.size = blocks[i].size
      /\ b.page = blocks[i].page
  BY <1>3, <1>4, Zenon
<1>6. blocks' = [blocks EXCEPT ![i] = b]
  BY <1>0, <1>2, Zenon
<1>7. blocks[i].size \in Nat
  BY <1>3, Zenon DEF Block
<1> HIDE DEF b
<1>8. /\ blocks' \in Seq(Block) /\ Len(blocks') = Len(blocks)
      /\ \A j \in 1..Len(blocks) : blocks'[j] = IF j = i THEN b ELSE blocks[j]
  BY <1>0, <1>5, <1>6, ExceptSeq
<1>9. size <= LIMIT - HEADER - 4 => b.size >= size + HEADER
  BY <1>2, <1>5, <1>7, Room, HeapAssumption, SMTT(30)
<1>10. Roomy(blocks')
  <2>1. DOMAIN blocks' = 1..Len(blocks)
    BY <1>8
  <2> QED
    BY <1>0, <1>5, <1>8, <1>9, <2>1 DEF Roomy
<1>11. ApartAt(blocks', 0)
  <2> SUFFICES ASSUME NEW j \in 1..Len(blocks)-1
               PROVE  blocks'[j].used \/ blocks'[j + 1].used
    BY <1>8, Zenon DEF ApartAt
  <2>1. j \in 1..Len(blocks) /\ j + 1 \in 1..Len(blocks) /\ j # 0 /\ j # 0 - 1
    BY <1>0
  <2>2. blocks[j].used \/ blocks[j + 1].used
    BY <1>0, <2>1 DEF ApartAt
  <2> QED
    BY <1>5, <1>8, <2>1, <2>2
<1>12. DOMAIN blocks' = 1..Len(blocks)
  BY <1>8
<1>13. Bytes(blocks') = Bytes(blocks)
  <2>1. [j \in DOMAIN blocks' |-> blocks'[j].size] = [j \in DOMAIN blocks |-> blocks[j].size]
    BY <1>0, <1>5, <1>8, <1>12
  <2> QED
    BY <1>8, <2>1, SMTT(30) DEF Bytes
<1>14. UsedBytes(blocks') = UsedBytes(blocks) + blocks[i].size
  <2> DEFINE n == Len(blocks)
             w == [j \in DOMAIN blocks |-> IF blocks[j].used THEN blocks[j].size ELSE 0]
             v == [j \in DOMAIN blocks' |-> IF blocks'[j].used THEN blocks'[j].size ELSE 0]
  <2>1. w \in [1..n -> Nat] /\ v \in [1..n -> Nat] /\ UsedBytes(blocks) \in Nat
    BY <1>0, <1>8, BytesNat
  <2>2. /\ \A k \in 1..n : k # i => v[k] = w[k]
        /\ w[i] = 0 /\ v[i] = blocks[i].size
    BY <1>0, <1>2, <1>5, <1>8, <1>12
  <2>3. UsedBytes(blocks') = Total(v, n) /\ UsedBytes(blocks) = Total(w, n)
    BY <1>8 DEF UsedBytes
  <2>4. n \in Nat /\ i \in 1..n
    BY <1>0
  <2> HIDE DEF v, w, n
  <2>5. Total(v, n) = Total(w, n) + v[i] - w[i] /\ v[i] \in Nat
    BY <2>1, <2>2, <2>4, TotalUpdate, Zenon
  <2> QED
    BY <2>1, <2>2, <2>3, <2>5
<1>15. Survive(blocks, blocks')
  <2>1. \A j \in DOMAIN blocks : blocks[j].used => j \in DOMAIN blocks' /\ blocks'[j] = blocks[j]
    BY <1>0, <1>2, <1>8, <1>12
  <2> QED
    BY <2>1 DEF Survive
<1>16. i \in DOMAIN blocks' /\ blocks'[i] = b
  BY <1>0, <1>8, <1>12, SMTT(30)
<1>17. HeapInv'
  BY <1>0, <1>2, <1>8, <1>10, <1>11, <1>13, <1>14, ZenonT(30)
     DEF HeapInv, ListInv, Roomy, ApartAt, Bytes, UsedBytes, Total, Block
<1> QED
  BY <1>2, <1>5, <1>15, <1>16, <1>17

(* kmalloc of a new block. *)
LEMMA CreateKeeps ==
    ASSUME HeapInv, NEW size \in Nat, NEW page \in pool \union BlockPages,
           create_block(size, page)
    PROVE  /\ HeapInv' /\ Survive(blocks, blocks')
           /\ \E h \in DOMAIN blocks' :
                blocks'[h].page = page /\ blocks'[h].used /\ blocks'[h].request = size
<1>0. /\ pool \subseteq Nat /\ blocks \in Seq(Block) /\ Len(blocks) \in Nat
      /\ DOMAIN blocks = 1..Len(blocks)
      /\ Roomy(blocks) /\ ApartAt(blocks, 0)
      /\ heap_total = Bytes(blocks) /\ heap_used = UsedBytes(blocks) /\ intact \in BOOLEAN
  BY DEF HeapInv, ListInv
<1> DEFINE b == [page |-> page, size |-> SizeFor(size), used |-> TRUE, request |-> size]
<1>2. page \in Nat
  <2>1. \A i \in DOMAIN blocks : blocks[i].page \in Nat
    <3>1. \A i \in DOMAIN blocks : blocks[i] \in Block
      BY <1>0, ElementOfSeq
    <3> QED
      BY <3>1, Zenon DEF Block
  <2> QED
    BY <1>0, <2>1 DEF BlockPages
<1>3. /\ b \in Block /\ b.used /\ b.page = page /\ b.request = size /\ b.size = SizeFor(size)
      /\ b.request <= LIMIT - HEADER - 4 => b.size >= b.request + HEADER
  BY <1>2, Room DEF Block
<1>4. /\ blocks' = Append(blocks, b) /\ pool' \subseteq pool
      /\ heap_total' = heap_total + SizeFor(size) /\ heap_used' = heap_used + SizeFor(size)
      /\ intact' \in BOOLEAN
  BY DEF create_block
<1> HIDE DEF b
<1>5. /\ blocks' \in Seq(Block) /\ Len(blocks') = Len(blocks) + 1
      /\ \A j \in 1..Len(blocks) : blocks'[j] = blocks[j]
      /\ blocks'[Len(blocks) + 1] = b
  BY <1>0, <1>3, <1>4, AppendProperties
<1>6. Roomy(blocks')
  <2> SUFFICES ASSUME NEW j \in 1..Len(blocks)+1
               PROVE  blocks'[j].used /\ blocks'[j].request <= LIMIT - HEADER - 4
                          => blocks'[j].size >= blocks'[j].request + HEADER
    BY <1>5 DEF Roomy
  <2>1. j \in 1..Len(blocks) \/ j = Len(blocks) + 1
    BY <1>0
  <2> QED
    BY <1>0, <1>3, <1>5, <2>1 DEF Roomy
<1>7. ApartAt(blocks', 0)
  <2> SUFFICES ASSUME NEW j \in 1..Len(blocks)
               PROVE  blocks'[j].used \/ blocks'[j + 1].used
    BY <1>0, <1>5 DEF ApartAt
  <2>1. CASE j = Len(blocks)
    BY <1>3, <1>5, <2>1
  <2>2. CASE j # Len(blocks)
    <3>0. Len(blocks) \in Nat
      BY <1>0
    <3>1. /\ j \in 1..Len(blocks)-1 /\ j + 1 \in 1..Len(blocks)
          /\ j # 0 /\ j # 0 - 1
      BY <2>2, <3>0
    <3>2. blocks[j].used \/ blocks[j + 1].used
      BY <1>0, <3>1 DEF ApartAt
    <3> QED
      BY <1>5, <3>1, <3>2
  <2> QED
    BY <2>1, <2>2
<1>8. DOMAIN blocks' = 1..Len(blocks)+1 /\ SizeFor(size) \in Nat
  BY <1>0, <1>5, Room
<1>9. Bytes(blocks') = Bytes(blocks) + SizeFor(size)
  <2> DEFINE n == Len(blocks)
             w == [j \in DOMAIN blocks |-> blocks[j].size]
             v == [j \in DOMAIN blocks' |-> blocks'[j].size]
  <2>1. w \in [1..n -> Nat] /\ v \in [1..n+1 -> Nat]
    BY <1>0, <1>5, BytesNat
  <2>2. (\A k \in 1..n : v[k] = w[k]) /\ v[n + 1] = SizeFor(size)
    BY <1>0, <1>3, <1>5, <1>8
  <2>3. Bytes(blocks') = Total(v, n + 1) /\ Bytes(blocks) = Total(w, n)
    BY <1>5 DEF Bytes
  <2>4. n \in Nat
    BY <1>0
  <2> HIDE DEF v, w, n
  <2> QED
    BY <2>1, <2>2, <2>3, <2>4, TotalAppend
<1>10. UsedBytes(blocks') = UsedBytes(blocks) + SizeFor(size)
  <2> DEFINE n == Len(blocks)
             w == [j \in DOMAIN blocks |-> IF blocks[j].used THEN blocks[j].size ELSE 0]
             v == [j \in DOMAIN blocks' |-> IF blocks'[j].used THEN blocks'[j].size ELSE 0]
  <2>1. w \in [1..n -> Nat] /\ v \in [1..n+1 -> Nat]
    BY <1>0, <1>5, BytesNat, SMTT(30)
  <2>2. (\A k \in 1..n : v[k] = w[k]) /\ v[n + 1] = SizeFor(size)
    BY <1>0, <1>3, <1>5, <1>8
  <2>3. UsedBytes(blocks') = Total(v, n + 1) /\ UsedBytes(blocks) = Total(w, n)
    BY <1>5 DEF UsedBytes
  <2>4. n \in Nat
    BY <1>0
  <2> HIDE DEF v, w, n
  <2> QED
    BY <2>1, <2>2, <2>3, <2>4, TotalAppend
<1>11. Survive(blocks, blocks')
  <2>1. \A j \in DOMAIN blocks : j \in DOMAIN blocks' /\ blocks'[j] = blocks[j]
    BY <1>0, <1>5, <1>8
  <2> QED
    BY <2>1 DEF Survive
<1>12. Len(blocks) + 1 \in DOMAIN blocks'
  BY <1>0, <1>8, SMTT(30)
<1>13. HeapInv'
  BY <1>0, <1>4, <1>5, <1>6, <1>7, <1>9, <1>10, ZenonT(30)
     DEF HeapInv, ListInv, Roomy, ApartAt, Bytes, UsedBytes, Total, Block
<1> QED
  BY <1>3, <1>5, <1>11, <1>12, <1>13

(* kmalloc without room. *)
LEMMA NullKeeps ==
    ASSUME HeapInv, NEW size, kmalloc_null(size)
    PROVE  HeapInv' /\ blocks' = blocks /\ intact' = intact
<1>0. pool \subseteq Nat
  BY DEF HeapInv, ListInv
<1>1. blocks' = blocks /\ heap_total' = heap_total /\ heap_used' = heap_used /\ intact' = intact
  BY Zenon DEF kmalloc_null, create_block_fails, heap
<1>2. pool' \subseteq Nat
  <2>1. CASE pool' = pool \/ pool' = {}
    BY <1>0, <2>1, Zenon
  <2>2. CASE pool # {} /\ pool' = First .. First + Cardinality(pool) - 1
    <3>1. First \in Nat
      BY <1>0, <2>2, FirstInPool, ZenonT(30)
    <3> QED
      BY <2>2, <3>1
  <2> QED
    BY <2>1, <2>2, Zenon DEF kmalloc_null, create_block_fails
<1> QED
  BY <1>1, <1>2 DEF HeapInv, ListInv, Roomy, ApartAt, Bytes, UsedBytes, Total, Block

(* kfree. *)
LEMMA FreeKeeps ==
    ASSUME HeapInv, NEW i \in DOMAIN blocks, kfree(i)
    PROVE  /\ HeapInv'
           /\ \A j \in DOMAIN blocks : blocks[j].used /\ j # i
                => \E h \in DOMAIN blocks' : blocks'[h] = blocks[j]
<1>1. /\ blocks[i].used /\ Release(i) /\ heap_used' = heap_used - blocks[i].size
      /\ heap_total' = heap_total /\ intact' = intact
  BY DEF kfree
<1>2. /\ pool \subseteq Nat /\ blocks \in Seq(Block) /\ Roomy(blocks) /\ ApartAt(blocks, 0)
      /\ heap_total = Bytes(blocks) /\ heap_used = UsedBytes(blocks) /\ intact \in BOOLEAN
  BY DEF HeapInv, ListInv
<1>3. /\ blocks' \in Seq(Block) /\ Roomy(blocks') /\ ApartAt(blocks', 0)
      /\ pool' \subseteq Nat
  BY <1>1, <1>2, Released
<1>4. /\ Bytes(blocks') = Bytes(blocks)
      /\ UsedBytes(blocks') = UsedBytes(blocks) - blocks[i].size
      /\ \A j \in DOMAIN blocks : blocks[j].used /\ j # i
           => \E h \in DOMAIN blocks' : blocks'[h] = blocks[j]
  BY <1>1, <1>2, ReleaseTotals, SMTT(30)
<1>5. HeapInv'
  <2>1. ListInv'
    BY <1>3 DEF ListInv, Roomy, ApartAt, Block
  <2>2. Bytes(blocks)' = heap_total' /\ UsedBytes(blocks)' = heap_used'
    BY <1>1, <1>2, <1>4, Zenon DEF Bytes, UsedBytes, Total, Block
  <2> QED
    BY <1>1, <1>2, <2>1, <2>2, Zenon DEF HeapInv
<1> QED
  BY <1>4, <1>5

(* Every step of the heap's callers, with any size. *)
HeapStep ==
    \/ \E size \in Nat : \/ \E page \in pool \union BlockPages : kmalloc(size, page)
                         \/ kmalloc_null(size)
    \/ \E i \in DOMAIN blocks : kfree(i)
    \/ UNCHANGED vars

(* The invariant of the heap is inductive. *)
LEMMA HeapInductive ==
    ASSUME HeapInv, HeapStep
    PROVE  HeapInv'
<1>1. CASE UNCHANGED vars
  BY <1>1 DEF vars, HeapInv, ListInv, Roomy, ApartAt, Bytes, UsedBytes, Total, Block
<1>2. ASSUME NEW size \in Nat, NEW page \in pool \union BlockPages, kmalloc(size, page)
      PROVE  HeapInv'
  BY <1>2, ReuseKeeps, CreateKeeps DEF kmalloc
<1> QED
  BY <1>1, <1>2, NullKeeps, FreeKeeps, SMTT(30) DEF HeapStep

(* heap_init's heap. *)
LEMMA HeapInitRight == Init => HeapInv
<1> SUFFICES ASSUME Init  PROVE HeapInv
  OBVIOUS
<1>1. pool \subseteq Nat /\ blocks = <<>> /\ heap_total = 0 /\ heap_used = 0 /\ intact = TRUE
  BY HeapAssumption DEF Init
<1>2. ASSUME NEW w \in [1..0 -> Nat]  PROVE Total(w, 0) = 0
  <2>1. PICK f : Sums(f, w, 0)
    BY SumsExist, Zenon
  <2>2. Total(w, 0) = f[0]
    BY <2>1, TotalIs, Zenon
  <2> QED
    BY <2>1, <2>2 DEF Sums
<1>3. blocks \in Seq(Block) /\ Len(blocks) = 0
  BY <1>1
<1>4. Bytes(blocks) = 0 /\ UsedBytes(blocks) = 0
  BY <1>2, <1>3, BytesNat, Zenon DEF Bytes, UsedBytes
<1>5. Roomy(blocks) /\ ApartAt(blocks, 0)
  BY <1>3 DEF Roomy, ApartAt
<1> QED
  BY <1>1, <1>3, <1>4, <1>5 DEF HeapInv, ListInv

(* What the invariant says. *)
LEMMA HeapInvSays == HeapInv => TypeOK /\ TotalsExact /\ RequestFits /\ Coalesced
<1> SUFFICES ASSUME HeapInv  PROVE TypeOK /\ TotalsExact /\ RequestFits /\ Coalesced
  OBVIOUS
<1>1. /\ pool \subseteq Nat /\ blocks \in Seq(Block) /\ Roomy(blocks) /\ ApartAt(blocks, 0)
      /\ heap_total = Bytes(blocks) /\ heap_used = UsedBytes(blocks) /\ intact \in BOOLEAN
  BY DEF HeapInv, ListInv
<1>2. TypeOK
  BY <1>1, BytesNat DEF TypeOK
<1>3. RequestFits
  BY <1>1 DEF Roomy, RequestFits
<1>4. Coalesced
  <2> SUFFICES ASSUME NEW i \in DOMAIN blocks, FreeAt(blocks, i), FreeAt(blocks, i + 1)
               PROVE  FALSE
    BY DEF Coalesced
  <2>1. /\ Len(blocks) \in Nat /\ DOMAIN blocks = 1..Len(blocks)
        /\ ~blocks[i].used /\ ~blocks[i + 1].used
    BY <1>1 DEF FreeAt
  <2>2. i \in 1..Len(blocks)-1 /\ i # 0 /\ i # 0 - 1
    BY <2>1 DEF FreeAt
  <2> QED
    BY <1>1, <2>1, <2>2 DEF ApartAt
<1> QED
  BY <1>1, <1>2, <1>3, <1>4 DEF TotalsExact

(* The heap alone, from heap_init on: its types, its totals, room for every request
   and no two free neighbours. *)
THEOREM HeapCorrect == Spec => [](TypeOK /\ TotalsExact /\ RequestFits /\ Coalesced)
<1>1. [Next]_vars => HeapStep
  BY HeapAssumption DEF Next, HeapStep
<1> QED
  BY <1>1, HeapInitRight, HeapInductive, HeapInvSays, PTL DEF Spec
-----------------------------------------------------------------------------
(* The loader over the heap. *)
ElfInv == HeapInv /\ LoaderInv

(* The blocks in use on the pages of held stay as they are. *)
KeptOn(held, s, t) ==
    \A j \in DOMAIN s : s[j].used /\ s[j].page \in held => \E h \in DOMAIN t : t[h] = s[j]

(* An image whose pages are kept stays right. *)
LEMMA ImageKept ==
    ASSUME NEW s, NEW t, NEW safe, NEW safer, safer => safe,
           NEW f, NEW mem, NEW entry, NEW held,
           \A k \in DOMAIN mem : mem[k] \in held,
           safer => KeptOn(held, s, t),
           ImageRight(s, safe, f, mem, entry)
    PROVE  ImageRight(t, safer, f, mem, entry)
<1>1. ASSUME safer, NEW k \in DOMAIN mem  PROVE Loaded(t, mem[k], f.phdr[k])
  <2> DEFINE size == SegmentSize(f.phdr[k])
  <2>1. PICK i \in DOMAIN s :
            /\ s[i].page = mem[k] /\ s[i].used /\ s[i].request = size
            /\ size <= LIMIT - HEADER - 4 => s[i].size >= size + HEADER
    <3>1. Loaded(s, mem[k], f.phdr[k])
      BY <1>1, Zenon DEF ImageRight
    <3> QED  BY <3>1, Zenon DEF Loaded
  <2>2. PICK h \in DOMAIN t : t[h] = s[i]
    BY <1>1, <2>1 DEF KeptOn
  <2> HIDE DEF size
  <2>3. /\ t[h].page = mem[k] /\ t[h].used /\ t[h].request = size
        /\ size <= LIMIT - HEADER - 4 => t[h].size >= size + HEADER
    BY <2>1, <2>2
  <2> QED
    BY <2>3, Zenon DEF Loaded, size
<1> QED
  BY <1>1, Zenon DEF ImageRight

(* The loader's images, while the heap works for others. *)
LEMMA LoaderKept ==
    ASSUME LoaderInv, UNCHANGED elf, intact' => intact,
           intact' => KeptOn(Held, blocks, blocks')
    PROVE  LoaderInv'
<1>0. job' = job /\ programs' = programs
  BY DEF elf
<1>1. ASSUME NEW p \in programs
      PROVE  ImageRight(blocks', intact', p.file, p.mem, p.entry)
  <2>1. \A k \in DOMAIN p.mem : p.mem[k] \in Held
    BY DEF Held, PagesOf
  <2>2. ImageRight(blocks, intact, p.file, p.mem, p.entry)
    BY DEF LoaderInv
  <2> QED
    BY <2>1, <2>2, ImageKept
<1>2. ASSUME job # Idle
      PROVE  ImageRight(blocks', intact', job.file, job.mem, job.entry)
  <2>1. \A k \in DOMAIN job.mem : job.mem[k] \in Held
    BY <1>2 DEF Held, PagesOf
  <2>2. ImageRight(blocks, intact, job.file, job.mem, job.entry)
    BY <1>2 DEF LoaderInv
  <2> QED
    BY <2>1, <2>2, ImageKept
<1>3. /\ job' # Idle => ImageRight(blocks', intact', job'.file, job'.mem, job'.entry)
      /\ \A p \in programs' : ImageRight(blocks', intact', p.file, p.mem, p.entry)
  BY <1>0, <1>1, <1>2, Zenon
<1> HIDE DEF Idle
<1>4. job' # Idle =>
          /\ job' = [file |-> job'.file, i |-> job'.i, entry |-> job'.entry, mem |-> job'.mem]
          /\ job'.i \in Nat \ {0} /\ DOMAIN job'.mem \subseteq 1..job'.i-1
  BY <1>0, Zenon DEF LoaderInv
<1> QED
  BY <1>3, <1>4, Zenon DEF LoaderInv, Idle

(* The step of a process. *)
LEMMA ProcessesKeep ==
    ASSUME ElfInv, Processes
    PROVE  ElfInv'
<1>0. HeapInv /\ LoaderInv /\ UNCHANGED elf
  BY DEF ElfInv, Processes
<1>1. CASE \E size \in Requests, page \in pool \union BlockPages : kmalloc(size, page)
  <2>1. PICK size \in Nat, page \in pool \union BlockPages : kmalloc(size, page)
    BY <1>1, HeapAssumption, SMTT(30)
  <2>2. HeapInv' /\ Survive(blocks, blocks') /\ intact
    BY <1>0, <2>1, ReuseKeeps, CreateKeeps, SMTT(30) DEF kmalloc
  <2>3. KeptOn(Held, blocks, blocks')
    BY <2>2 DEF KeptOn, Survive
  <2> QED
    BY <1>0, <2>2, <2>3, LoaderKept, SMTT(30) DEF ElfInv
<1>2. CASE \E size \in Requests : kmalloc_null(size)
  <2>1. HeapInv' /\ blocks' = blocks /\ intact' = intact
    BY <1>0, <1>2, NullKeeps
  <2>2. KeptOn(Held, blocks, blocks')
    BY <2>1 DEF KeptOn
  <2> QED
    BY <1>0, <2>1, <2>2, LoaderKept DEF ElfInv
<1>3. CASE \E i \in DOMAIN blocks : blocks[i].page \notin Held /\ kfree(i)
  <2>1. PICK i \in DOMAIN blocks : blocks[i].page \notin Held /\ kfree(i)
    BY <1>3
  <2>2. /\ HeapInv' /\ intact
        /\ \A j \in DOMAIN blocks : blocks[j].used /\ j # i
              => \E h \in DOMAIN blocks' : blocks'[h] = blocks[j]
    BY <1>0, <2>1, FreeKeeps DEF kfree
  <2>3. KeptOn(Held, blocks, blocks')
    BY <2>1, <2>2 DEF KeptOn
  <2> QED
    BY <1>0, <2>2, <2>3, LoaderKept DEF ElfInv
<1> QED
  BY <1>1, <1>2, <1>3 DEF Processes

(* The header of the segment that is loaded next. *)
LEMMA HeaderTyped ==
    ASSUME LoaderInv, InLoop
    PROVE  /\ job.file \in Files /\ job.i \in DOMAIN job.file.phdr
           /\ Header \in [load : BOOLEAN, vaddr : Word, memsz : Word]
           /\ SegmentSize(Header) \in Nat
<1>1. job.file \in Files /\ job.i \in Nat \ {0} /\ job.i <= Len(job.file.phdr)
  BY DEF LoaderInv, InLoop, ImageRight
<1>2. job.file.phdr \in Seq([load : BOOLEAN, vaddr : Word, memsz : Word])
  BY <1>1, ElfAssumption, Zenon
<1>3. job.i \in 1..Len(job.file.phdr)
  BY <1>1, <1>2
<1>4. Header \in [load : BOOLEAN, vaddr : Word, memsz : Word]
  BY <1>2, <1>3, ElementOfSeq, Zenon DEF Header
<1>5. Header.memsz \in Nat
  BY <1>4, HeapAssumption, SMTT(30) DEF Word
<1> QED
  BY <1>1, <1>2, <1>3, <1>4, <1>5, ElfAssumption DEF SegmentSize

(* A segment more: its page joins the image, and the entry point follows it. *)
LEMMA ImageGrows ==
    ASSUME NEW s, NEW safe, NEW f, NEW mem, NEW entry, NEW i, NEW page,
           ImageRight(s, safe, f, mem, entry), i \in DOMAIN f.phdr, i \notin DOMAIN mem,
           safe => Loaded(s, page, f.phdr[i])
    PROVE  ImageRight(s, safe, f, Placed(mem, i, page),
                      IF HoldsEntry(f, f.phdr[i])
                      THEN At(page, f.e_entry - f.phdr[i].vaddr) ELSE entry)
<1> DEFINE new == Placed(mem, i, page)
           e == IF HoldsEntry(f, f.phdr[i])
                THEN At(page, f.e_entry - f.phdr[i].vaddr) ELSE entry
<1>1. /\ DOMAIN new = DOMAIN mem \union {i} /\ new[i] = page
      /\ \A k \in DOMAIN mem : new[k] = mem[k]
  BY DEF Placed
<1> HIDE DEF new
<1>2. f \in Files /\ DOMAIN new \subseteq DOMAIN f.phdr
  BY <1>1 DEF ImageRight
<1>3. safe => \A k \in DOMAIN new : Loaded(s, new[k], f.phdr[k])
  <2> SUFFICES ASSUME safe, NEW k \in DOMAIN new  PROVE Loaded(s, new[k], f.phdr[k])
    OBVIOUS
  <2>1. CASE k = i
    BY <1>1, <2>1, Zenon
  <2>2. CASE k \in DOMAIN mem
    BY <1>1, <2>2, Zenon DEF ImageRight
  <2> QED
    BY <1>1, <2>1, <2>2
<1>4. (\E k \in DOMAIN new : HoldsEntry(f, f.phdr[k]))
         => \E k \in DOMAIN new : EntryIn(f, k, new[k], e)
  <2>1. CASE HoldsEntry(f, f.phdr[i])
    <3>1. EntryIn(f, i, new[i], e)
      BY <1>1, <2>1, SMTT(30) DEF EntryIn
    <3> QED
      BY <1>1, <3>1, Zenon
  <2>2. CASE ~HoldsEntry(f, f.phdr[i])
    <3> SUFFICES ASSUME NEW k \in DOMAIN new, HoldsEntry(f, f.phdr[k])
                 PROVE  \E j \in DOMAIN new : EntryIn(f, j, new[j], e)
      OBVIOUS
    <3>1. k \in DOMAIN mem
      BY <1>1, <2>2
    <3>2. PICK j \in DOMAIN mem : EntryIn(f, j, mem[j], entry)
      BY <3>1, Zenon DEF ImageRight
    <3>3. e = entry
      BY <2>2
    <3>4. j \in DOMAIN new /\ new[j] = mem[j]
      BY <1>1, <3>2
    <3> HIDE DEF e
    <3> QED
      BY <3>2, <3>3, <3>4, SMTT(30)
  <2> QED
    BY <2>1, <2>2, SMTT(30)
<1> HIDE DEF e
<1>5. ImageRight(s, safe, f, new, e)
  BY <1>2, <1>3, <1>4, Zenon DEF ImageRight
<1> QED
  BY <1>5 DEF new, e

(* The load of one segment. *)
LEMMA LoadKeeps ==
    ASSUME ElfInv, LoadSegment
    PROVE  ElfInv'
<1>0. HeapInv /\ LoaderInv /\ InLoop /\ job # Idle /\ intact /\ programs' = programs
  BY DEF ElfInv, LoadSegment, InLoop
<1>1. /\ job.file \in Files /\ job.i \in DOMAIN job.file.phdr
      /\ SegmentSize(Header) \in Nat
  BY <1>0, HeaderTyped, SMTT(30)
<1>2. PICK page \in pool \union BlockPages :
          /\ kmalloc(SegmentSize(Header), page)
          /\ job' = [job EXCEPT !.i = @ + 1, !.entry = EntryWith(page),
                                !.mem = Placed(@, job.i, page)]
  BY Zenon DEF LoadSegment
<1>3. /\ HeapInv' /\ Survive(blocks, blocks')
      /\ \E h \in DOMAIN blocks' :
           /\ blocks'[h].page = page /\ blocks'[h].used
           /\ blocks'[h].request = SegmentSize(Header)
  BY <1>0, <1>1, <1>2, ReuseKeeps, CreateKeeps DEF kmalloc
<1>4. Loaded(blocks', page, Header)
  <2>1. PICK h \in DOMAIN blocks' :
           /\ blocks'[h].page = page /\ blocks'[h].used
           /\ blocks'[h].request = SegmentSize(Header)
    BY <1>3
  <2>2. Roomy(blocks')
    BY <1>3 DEF HeapInv, ListInv
  <2>3. SegmentSize(Header) <= LIMIT - HEADER - 4
          => blocks'[h].size >= SegmentSize(Header) + HEADER
    BY <2>1, <2>2 DEF Roomy
  <2> QED
    BY <2>1, <2>3, Zenon DEF Loaded
<1>5. /\ job = [file |-> job.file, i |-> job.i, entry |-> job.entry, mem |-> job.mem]
      /\ job.i \in Nat \ {0} /\ DOMAIN job.mem \subseteq 1..job.i-1
      /\ ImageRight(blocks, intact, job.file, job.mem, job.entry)
  BY <1>0, Zenon DEF LoaderInv
<1>6. KeptOn(Held, blocks, blocks')
  BY <1>3 DEF KeptOn, Survive
<1>7. \A p \in programs' : ImageRight(blocks', intact', p.file, p.mem, p.entry)
  <2> SUFFICES ASSUME NEW p \in programs
               PROVE  ImageRight(blocks', intact', p.file, p.mem, p.entry)
    BY <1>0
  <2>1. \A k \in DOMAIN p.mem : p.mem[k] \in Held
    BY DEF Held, PagesOf
  <2>2. ImageRight(blocks, intact, p.file, p.mem, p.entry)
    BY <1>0, ZenonT(30) DEF LoaderInv
  <2> QED
    BY <1>0, <1>6, <2>1, <2>2, ImageKept, Zenon
<1>8. ImageRight(blocks', intact', job.file, Placed(job.mem, job.i, page), EntryWith(page))
  <2>1. \A k \in DOMAIN job.mem : job.mem[k] \in Held
    BY <1>0 DEF Held, PagesOf
  <2>2. ImageRight(blocks', intact', job.file, job.mem, job.entry)
    BY <1>0, <1>5, <1>6, <2>1, ImageKept, Zenon
  <2>3. job.i \notin DOMAIN job.mem
    BY <1>5, SMTT(30)
  <2>4. Loaded(blocks', page, job.file.phdr[job.i])
    BY <1>4, SMTT(30) DEF Header
  <2>5. ImageRight(blocks', intact', job.file, Placed(job.mem, job.i, page),
                   IF HoldsEntry(job.file, job.file.phdr[job.i])
                   THEN At(page, job.file.e_entry - job.file.phdr[job.i].vaddr)
                   ELSE job.entry)
    BY <1>1, <2>2, <2>3, <2>4, ImageGrows
  <2> QED
    BY <2>5, Zenon DEF EntryWith, Header
<1>9. job' = [file |-> job.file, i |-> job.i + 1, entry |-> EntryWith(page),
              mem |-> Placed(job.mem, job.i, page)]
  BY <1>2, <1>5, Zenon
<1>10. DOMAIN Placed(job.mem, job.i, page) \subseteq 1..job.i
  BY <1>5 DEF Placed
<1>11. /\ job'.file = job.file /\ job'.i = job.i + 1 /\ job'.entry = EntryWith(page)
       /\ job'.mem = Placed(job.mem, job.i, page)
       /\ job' = [file |-> job'.file, i |-> job'.i, entry |-> job'.entry, mem |-> job'.mem]
  BY <1>9
<1>12. job'.i \in Nat \ {0} /\ DOMAIN job'.mem \subseteq 1..job'.i-1
  BY <1>5, <1>10, <1>11
<1>13. ImageRight(blocks', intact', job'.file, job'.mem, job'.entry)
  BY <1>8, <1>11
<1>14. LoaderInv'
  BY <1>7, <1>11, <1>12, <1>13, Zenon DEF LoaderInv
<1> QED
  BY <1>3, <1>14 DEF ElfInv

(* The steps that leave the heap alone. *)
LEMMA ControlKeeps ==
    ASSUME ElfInv, (\E f \in Files : elf_run(f)) \/ SkipHeader \/ Started
    PROVE  ElfInv'
<1>0. HeapInv /\ LoaderInv /\ UNCHANGED vars
  BY DEF ElfInv, elf_run, SkipHeader, Started
<1>1. HeapInv' /\ blocks' = blocks /\ intact' = intact
  BY <1>0, HeapInductive DEF HeapStep, vars
<1>2. \A p \in programs : ImageRight(blocks', intact', p.file, p.mem, p.entry)
  BY <1>0, <1>1 DEF LoaderInv
<1>3. CASE \E f \in Files : elf_run(f)
  <2>1. PICK f \in Files : elf_run(f)
    BY <1>3
  <2>2. programs' = programs
    BY <2>1 DEF elf_run
  <2>3. CASE ~f.valid
    <3>1. job' = Idle
      BY <2>1, <2>3 DEF elf_run
    <3> QED
      BY <1>1, <1>2, <2>2, <3>1, Zenon DEF LoaderInv, ElfInv
  <2>4. CASE f.valid
    <3>1. job' = [file |-> f, i |-> 1, entry |-> At(0, f.e_entry), mem |-> NoMem]
      BY <2>1, <2>4 DEF elf_run
    <3>2. /\ job'.file = f /\ job'.i = 1 /\ job'.entry = At(0, f.e_entry) /\ job'.mem = NoMem
          /\ job' = [file |-> job'.file, i |-> job'.i, entry |-> job'.entry, mem |-> job'.mem]
      BY <3>1
    <3>3. DOMAIN NoMem = {}
      BY DEF NoMem
    <3>4. ImageRight(blocks', intact', f, NoMem, At(0, f.e_entry))
      BY <3>3 DEF ImageRight
    <3>5. job'.i \in Nat \ {0} /\ DOMAIN job'.mem \subseteq 1..job'.i-1
      BY <3>2, <3>3
    <3> QED
      BY <1>1, <1>2, <2>2, <3>2, <3>4, <3>5, Zenon DEF LoaderInv, ElfInv
  <2> QED
    BY <2>3, <2>4
<1>4. CASE SkipHeader
  <2>1. /\ job # Idle /\ programs' = programs /\ job' = [job EXCEPT !.i = @ + 1]
    BY <1>4 DEF SkipHeader, InLoop
  <2>2. /\ job = [file |-> job.file, i |-> job.i, entry |-> job.entry, mem |-> job.mem]
        /\ job.i \in Nat \ {0} /\ DOMAIN job.mem \subseteq 1..job.i-1
        /\ ImageRight(blocks', intact', job.file, job.mem, job.entry)
    BY <1>0, <1>1, <2>1 DEF LoaderInv
  <2>3. job' = [file |-> job.file, i |-> job.i + 1, entry |-> job.entry, mem |-> job.mem]
    BY <2>1, <2>2
  <2>4. /\ job'.file = job.file /\ job'.i = job.i + 1
        /\ job'.entry = job.entry /\ job'.mem = job.mem
        /\ job' = [file |-> job'.file, i |-> job'.i, entry |-> job'.entry, mem |-> job'.mem]
    BY <2>3
  <2>5. job'.i \in Nat \ {0} /\ DOMAIN job'.mem \subseteq 1..job'.i-1
    BY <2>2, <2>4
  <2> QED
    BY <1>1, <1>2, <2>1, <2>2, <2>4, <2>5, Zenon DEF LoaderInv, ElfInv
<1>5. CASE Started
  <2> DEFINE prog == [file |-> job.file, entry |-> job.entry, mem |-> job.mem]
  <2>1. job # Idle /\ job' = Idle /\ programs' \subseteq programs \union {prog}
    BY <1>5 DEF Started
  <2>2. ImageRight(blocks', intact', job.file, job.mem, job.entry)
    BY <1>0, <1>1, <2>1 DEF LoaderInv
  <2>3. prog.file = job.file /\ prog.mem = job.mem /\ prog.entry = job.entry
    OBVIOUS
  <2> HIDE DEF prog
  <2>4. ImageRight(blocks', intact', prog.file, prog.mem, prog.entry)
    BY <2>2, <2>3
  <2>5. \A p \in programs' : ImageRight(blocks', intact', p.file, p.mem, p.entry)
    BY <1>2, <2>1, <2>4, Zenon
  <2> QED
    BY <1>1, <2>1, <2>5, Zenon DEF LoaderInv, ElfInv
<1> QED
  BY <1>3, <1>4, <1>5

(* A load that runs out of memory. *)
LEMMA FailKeeps ==
    ASSUME ElfInv, SegmentFails
    PROVE  ElfInv'
<1>1. /\ HeapInv /\ LoaderInv /\ kmalloc_null(SegmentSize(Header))
      /\ job' = Idle /\ programs' = programs
  BY DEF ElfInv, SegmentFails
<1>2. HeapInv' /\ blocks' = blocks /\ intact' = intact
  BY <1>1, NullKeeps
<1>3. \A p \in programs' : ImageRight(blocks', intact', p.file, p.mem, p.entry)
  BY <1>1, <1>2 DEF LoaderInv
<1> QED
  BY <1>1, <1>2, <1>3, Zenon DEF LoaderInv, ElfInv

(* The loader and its processes keep the heap and the images right. *)
THEOREM ElfInvariance == ElfSpec => []ElfInv
<1>1. ElfInit => ElfInv
  BY HeapInitRight DEF ElfInit, ElfInv, LoaderInv
<1>2. ASSUME ElfInv, [ElfNext]_elfVars
      PROVE  ElfInv'
  <2>1. CASE UNCHANGED elfVars
    <3>0. UNCHANGED vars /\ UNCHANGED elf
      BY <2>1, Zenon DEF elfVars
    <3>1. /\ HeapInv /\ LoaderInv /\ UNCHANGED vars /\ UNCHANGED elf
          /\ blocks' = blocks /\ intact' = intact
      BY <1>2, <3>0 DEF ElfInv, vars
    <3>2. HeapInv'
      BY <3>1, HeapInductive DEF HeapStep
    <3>3. KeptOn(Held, blocks, blocks')
      BY <3>1 DEF KeptOn
    <3> QED
      BY <3>1, <3>2, <3>3, LoaderKept DEF ElfInv
  <2> QED
    BY <1>2, <2>1, ControlKeeps, LoadKeeps, FailKeeps, ProcessesKeep DEF ElfNext
<1> QED
  BY <1>1, <1>2, PTL DEF ElfSpec

(* As long as no header is overwritten, a program elf_run started begins inside its
   own image, whatever the other processes allocate and free. *)
THEOREM EntryLoadedHolds == ElfSpec => []EntryLoaded
<1>1. ASSUME ElfInv  PROVE EntryLoaded
  <2> SUFFICES ASSUME intact, NEW p \in programs,
                      \E k \in DOMAIN p.mem : HoldsEntry(p.file, p.file.phdr[k])
               PROVE  \E k \in DOMAIN p.mem :
                        /\ EntryIn(p.file, k, p.mem[k], p.entry)
                        /\ p.entry.offset \in 0..p.file.phdr[k].memsz-1
                        /\ Loaded(blocks, p.mem[k], p.file.phdr[k])
    BY Zenon DEF EntryLoaded
  <2>1. ImageRight(blocks, intact, p.file, p.mem, p.entry)
    BY <1>1, Zenon DEF ElfInv, LoaderInv
  <2>2. PICK k \in DOMAIN p.mem : EntryIn(p.file, k, p.mem[k], p.entry)
    BY <2>1, Zenon DEF ImageRight
  <2> DEFINE h == p.file.phdr[k]
  <2>3. p.file \in Files /\ k \in DOMAIN p.file.phdr /\ Loaded(blocks, p.mem[k], h)
    BY <2>1 DEF ImageRight
  <2>4. h \in [load : BOOLEAN, vaddr : Word, memsz : Word]
    <3>1. p.file.phdr \in Seq([load : BOOLEAN, vaddr : Word, memsz : Word])
      BY <2>3, ElfAssumption, ZenonT(30)
    <3>2. k \in 1..Len(p.file.phdr)
      BY <2>3, <3>1, SMTT(30)
    <3> QED
      BY <3>1, <3>2, ElementOfSeq, Zenon
  <2>5. p.file.e_entry \in Nat /\ h.vaddr \in Nat /\ h.memsz \in Nat
    BY <2>3, <2>4, ElfAssumption, HeapAssumption, SMTT(30) DEF Word
  <2>6. /\ p.file.e_entry \in h.vaddr .. ((h.vaddr + h.memsz) % LIMIT) - 1
        /\ p.entry = At(p.mem[k], p.file.e_entry - h.vaddr)
    BY <2>2 DEF EntryIn, HoldsEntry
  <2> HIDE DEF h
  <2>7. (h.vaddr + h.memsz) % LIMIT <= h.vaddr + h.memsz /\ (h.vaddr + h.memsz) % LIMIT \in Nat
    BY <2>5, HeapAssumption, SMTT(30)
  <2>8. p.entry.offset = p.file.e_entry - h.vaddr
    BY <2>6 DEF At
  <2>9. p.entry.offset \in 0..h.memsz-1
    BY <2>5, <2>6, <2>7, <2>8
  <2> QED
    BY <2>2, <2>3, <2>9 DEF h
<1> QED
  BY <1>1, ElfInvariance, PTL

(* With the loader running too, what kmalloc and kfree keep: the types, ... *)
THEOREM TypeCorrect == ElfSpec => []TypeOK
  BY ElfInvariance, HeapInvSays, PTL DEF ElfInv

(* ... heap_total and heap_used equal to the sums over the list, ... *)
THEOREM TotalsExactHolds == ElfSpec => []TotalsExact
  BY ElfInvariance, HeapInvSays, PTL DEF ElfInv

(* ... room in every block for what its holder asked for, ... *)
THEOREM RequestFitsHolds == ElfSpec => []RequestFits
  BY ElfInvariance, HeapInvSays, PTL DEF ElfInv

(* ... and no two free neighbours in the list. *)
THEOREM CoalescedHolds == ElfSpec => []Coalesced
  BY ElfInvariance, HeapInvSays, PTL DEF ElfInv
-----------------------------------------------------------------------------
(* No step of the heap's callers touches a block in use, but the kfree of that block. *)
LEMMA StepKeepsBlocks ==
    ASSUME HeapInv, HeapStep, NEW j \in DOMAIN blocks, blocks[j].used
    PROVE  kfree(j) \/ \E h \in DOMAIN blocks' : blocks'[h] = blocks[j]
<1>1. CASE UNCHANGED vars
  BY <1>1 DEF vars
<1>2. ASSUME NEW size \in Nat, NEW page \in pool \union BlockPages, kmalloc(size, page)
      PROVE  \E h \in DOMAIN blocks' : blocks'[h] = blocks[j]
  <2>1. Survive(blocks, blocks')
    BY <1>2, ReuseKeeps, CreateKeeps DEF kmalloc
  <2> QED
    BY <2>1, Zenon DEF Survive
<1>3. ASSUME NEW size \in Nat, kmalloc_null(size)
      PROVE  \E h \in DOMAIN blocks' : blocks'[h] = blocks[j]
  BY <1>3, NullKeeps
<1>4. ASSUME NEW i \in DOMAIN blocks, kfree(i)
      PROVE  kfree(j) \/ \E h \in DOMAIN blocks' : blocks'[h] = blocks[j]
  BY <1>4, FreeKeeps, Zenon
<1> QED
  BY <1>1, <1>2, <1>3, <1>4, Zenon DEF HeapStep

(* The steps of the loader and of its processes are steps of the heap's callers. *)
LEMMA ElfStepsHeap ==
    ASSUME ElfInv, [ElfNext]_elfVars
    PROVE  HeapStep
<1>1. CASE LoadSegment
  <2>1. SegmentSize(Header) \in Nat
    BY <1>1, HeaderTyped DEF ElfInv, LoadSegment
  <2>2. PICK page \in pool \union BlockPages : kmalloc(SegmentSize(Header), page)
    BY <1>1 DEF LoadSegment
  <2> QED
    BY <2>1, <2>2, Zenon DEF HeapStep
<1>2. CASE SegmentFails
  <2>1. SegmentSize(Header) \in Nat
    BY <1>2, HeaderTyped DEF ElfInv, SegmentFails
  <2> QED
    BY <1>2, <2>1, Zenon DEF SegmentFails, HeapStep
<1>3. CASE Processes
  <2>1. Requests \subseteq Nat
    BY HeapAssumption
  <2> QED
    BY <1>3, <2>1, Zenon DEF Processes, HeapStep
<1>4. CASE UNCHANGED vars
  BY <1>4 DEF HeapStep
<1>5. (\E f \in Files : elf_run(f)) \/ SkipHeader \/ Started \/ UNCHANGED elfVars
        => UNCHANGED vars
  BY Zenon DEF elf_run, SkipHeader, Started, elfVars
<1> QED
  BY <1>1, <1>2, <1>3, <1>4, <1>5, Zenon DEF ElfNext

(* A block in use stays in the list as it is until its own kfree: the heap alone, ... *)
THEOREM BlocksKeptHolds == Spec => BlocksKept
<1> DEFINE Kept == \A j \in DOMAIN blocks : blocks[j].used =>
                      kfree(j) \/ \E h \in DOMAIN blocks' : blocks'[h] = blocks[j]
<1>1. [Next]_vars => HeapStep
  BY HeapAssumption DEF Next, HeapStep
<1>2. HeapInv /\ HeapStep => Kept
  BY StepKeepsBlocks
<1> HIDE DEF Kept
<1>3. Spec => [][Kept]_vars
  BY <1>1, <1>2, HeapInitRight, HeapInductive, PTL DEF Spec
<1> QED
  BY <1>3 DEF Kept, BlocksKept

(* ... and with the loader running: a segment stays allocated at its place through all
   that the other processes allocate and free. *)
THEOREM LoaderBlocksKeptHolds == ElfSpec => BlocksKept
<1> DEFINE Kept == \A j \in DOMAIN blocks : blocks[j].used =>
                      kfree(j) \/ \E h \in DOMAIN blocks' : blocks'[h] = blocks[j]
<1>1. ASSUME ElfInv, [ElfNext]_elfVars
      PROVE  [Kept]_vars
  BY <1>1, ElfStepsHeap, StepKeepsBlocks DEF ElfInv
<1> HIDE DEF Kept
<1>2. ElfSpec => [][Kept]_vars
  BY <1>1, ElfInvariance, PTL DEF ElfSpec
<1> QED
  BY <1>2 DEF Kept, BlocksKept
=============================================================================
