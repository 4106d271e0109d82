----------------------------- MODULE ShellProofs ------------------------------
(***************************************************************************)
(* The shell's line editor and history, for every width and height of the  *)
(* console, every prompt that leaves room for a line, every set of words   *)
(* Tab completes and everything the commands print.                        *)
(***************************************************************************)
EXTENDS Shell, SequenceTheorems, WellFoundedInduction, TLAPS

(* The least member of a set of naturals. *)
LEMMA Least ==
    ASSUME NEW S \in SUBSET Nat, S # {}
    PROVE  \E x \in S : \A y \in S : x <= y
<1>1. PICK x \in S : \A y \in S : ~(<<y, x>> \in OpToRel(<, Nat))
  BY NatLessThanWellFounded, WFMin, Zenon
<1>2. ASSUME NEW y \in S
      PROVE  x <= y
  <2>1. x \in Nat /\ y \in Nat /\ <<y, x>> \in Nat \X Nat
    OBVIOUS
  <2>2. ~(y < x)
    BY <1>1, <2>1 DEF OpToRel
  <2> QED
    BY <2>1, <2>2
<1> QED
  BY <1>2

(* g holds the screens after each of the first n characters of s. *)
Screens(g, v, s, n) ==
    /\ DOMAIN g = 0..n /\ g = [k \in 0..n |-> g[k]] /\ g[0] = v
    /\ \A k \in 1..n : g[k] = vga_putc(g[k - 1], s[k])

(* They exist: the shortest text without them would have them. *)
LEMMA ScreensExist ==
    ASSUME NEW n \in Nat, NEW v, NEW s
    PROVE  \E g : Screens(g, v, s, n)
<1> DEFINE Bad == {m \in 0..n : ~\E g : Screens(g, v, s, m)}
<1>1. ASSUME Bad # {} PROVE FALSE
  <2>1. PICK m \in Bad : \A k \in Bad : m <= k
    <3>1. Bad \in SUBSET Nat
      OBVIOUS
    <3> HIDE DEF Bad
    <3> QED  BY <1>1, <3>1, Least
  <2>2. m \in 0..n /\ ~\E g : Screens(g, v, s, m)
    OBVIOUS
  <2>3. m # 0
    <3>1. Screens([k \in 0..0 |-> v], v, s, 0)
      BY DEF Screens
    <3> QED  BY <2>2, <3>1
  <2>4. m - 1 \in 0..n /\ m - 1 \notin Bad
    <3> HIDE DEF Bad
    <3> QED  BY <2>1, <2>2, <2>3
  <2>5. PICK f : Screens(f, v, s, m - 1)
    BY <2>4
  <2> DEFINE last == vga_putc(f[m - 1], s[m])
             g == [k \in 0..m |-> IF k = m THEN last ELSE f[k]]
  <2>6. last = vga_putc(f[m - 1], s[m])
    OBVIOUS
  <2> HIDE DEF last
  <2>7. DOMAIN g = 0..m /\ g = [k \in 0..m |-> g[k]] /\ g[0] = v
    BY <2>2, <2>3, <2>5 DEF Screens
  <2>8. ASSUME NEW k \in 1..m  PROVE g[k] = vga_putc(g[k - 1], s[k])
    <3>1. CASE k = m
      <4>1. g[k] = last /\ g[k - 1] = f[m - 1]
        BY <2>2, <2>3, <3>1
      <4> QED  BY <2>6, <3>1, <4>1
    <3>2. CASE k # m
      <4>1. k \in 1..m-1 /\ g[k] = f[k] /\ g[k - 1] = f[k - 1]
        BY <2>2, <2>3, <3>2
      <4> QED  BY <2>5, <4>1, Zenon DEF Screens
    <3> QED  BY <3>1, <3>2
  <2>9. Screens(g, v, s, m)
    <3> HIDE DEF g
    <3> QED  BY <2>7, <2>8, Zenon DEF Screens
  <2> QED  BY <2>2, <2>9
<1>2. Bad = {} /\ n \in 0..n
  BY <1>1
<1> QED  BY <1>2

(* vga_puts goes through screens of the sets of G, when each character leads from
   each set to the next. *)
LEMMA PutsThrough ==
    ASSUME NEW v, NEW s, Len(s) \in Nat, NEW G, v \in G[0],
           \A k \in 1..Len(s) : \A u \in G[k - 1] : vga_putc(u, s[k]) \in G[k]
    PROVE  vga_puts(v, s) \in G[Len(s)]
<1> DEFINE n == Len(s)
           R(g) == g = [k \in 0..n |-> IF k = 0 THEN v ELSE vga_putc(g[k - 1], s[k])]
           after == CHOOSE g : R(g)
<1>1. vga_puts(v, s) = after[n]
  BY DEF vga_puts
<1>2. PICK g : Screens(g, v, s, n)
  BY ScreensExist, Zenon
<1>0. n \in Nat
  OBVIOUS
<1> HIDE DEF n
<1>3. R(g)
  <2>1. \A k \in 0..n : g[k] = IF k = 0 THEN v ELSE vga_putc(g[k - 1], s[k])
    <3> SUFFICES ASSUME NEW k \in 0..n
                 PROVE  g[k] = IF k = 0 THEN v ELSE vga_putc(g[k - 1], s[k])
      OBVIOUS
    <3>1. CASE k = 0
      BY <1>2, <3>1 DEF Screens
    <3>2. CASE k # 0
      <4>1. k \in 1..n
        BY <3>2, <1>0
      <4> QED  BY <1>2, <3>2, <4>1, Zenon DEF Screens
    <3> QED  BY <3>1, <3>2
  <2> QED  BY <1>2, <2>1 DEF Screens
<1>4. R(after)
  <2> HIDE DEF R
  <2> QED  BY <1>3
<1>5. \A k \in 0..n : after[k] = IF k = 0 THEN v ELSE vga_putc(after[k - 1], s[k])
  <2> HIDE DEF after
  <2> QED  BY <1>4, Zenon
<1> HIDE DEF after, R
<1> DEFINE Bad == {m \in 0..n : after[m] \notin G[m]}
<1>6. ASSUME Bad # {} PROVE FALSE
  <2>1. PICK m \in Bad : \A k \in Bad : m <= k
    <3>1. Bad \in SUBSET Nat
      BY <1>0
    <3> HIDE DEF Bad
    <3> QED  BY <1>6, <3>1, Least
  <2>2. m \in 0..n /\ after[m] \notin G[m]
    OBVIOUS
  <2>3. m # 0
    BY <1>0, <1>5, <2>2
  <2>4. m - 1 \in 0..n /\ m - 1 \notin Bad
    <3> HIDE DEF Bad
    <3> QED  BY <1>0, <2>1, <2>2, <2>3
  <2>5. after[m - 1] \in G[m - 1] /\ m \in 1..n
    BY <1>0, <2>2, <2>3, <2>4
  <2>6. after[m] = vga_putc(after[m - 1], s[m])
    BY <1>5, <2>2, <2>3
  <2> QED  BY <2>2, <2>5, <2>6 DEF n
<1>7. n \in 0..n
  BY <1>0
<1>8. after[n] \in G[n]
  BY <1>6, <1>7
<1> QED  BY <1>1, <1>8 DEF n

(* The end of every vga_putc: from a screen on which the cursor may have left its row
   or the last row, but nothing is left behind it. *)
LEMMA SettleTidy ==
    ASSUME NEW x \in Nat, x <= VGA_WIDTH, NEW y \in Rows,
           NEW cells \in [Rows -> [Columns -> STRING]],
           \A i \in Columns : i >= x => cells[y][i] = Blank,
           \A r \in Rows : r > y => cells[r] = BlankRow
    PROVE  /\ Scrolled(Wrapped([x |-> x, y |-> y, cells |-> cells])) \in Tidy
           /\ x < VGA_WIDTH => Scrolled(Wrapped([x |-> x, y |-> y, cells |-> cells]))
                                 = [x |-> x, y |-> y, cells |-> cells]
           /\ x = VGA_WIDTH
                => Scrolled(Wrapped([x |-> x, y |-> y, cells |-> cells])).x = 0
<1> DEFINE v == [x |-> x, y |-> y, cells |-> cells]
<1>0. VGA_WIDTH \in Nat \ {0} /\ VGA_HEIGHT \in Nat \ {0}
  BY VgaAssumption
<1>1. v.x = x /\ v.y = y /\ v.cells = cells
  OBVIOUS
<1>2. CASE x < VGA_WIDTH
  <2>1. Wrapped(v) = v /\ Scrolled(v) = v
    BY <1>0, <1>1, <1>2 DEF Wrapped, Scrolled, Rows
  <2>2. v \in Screen
    BY <1>0, <1>2 DEF Screen, Columns
  <2>3. x # VGA_WIDTH
    BY <1>0, <1>2
  <2> HIDE DEF v
  <2>4. v \in Tidy
    BY <1>1, <2>2 DEF Tidy
  <2> QED
    BY <2>1, <2>3, <2>4 DEF v
<1>3. CASE x = VGA_WIDTH
  <2> USE DEF Rows
  <2> DEFINE w == [x |-> 0, y |-> y + 1, cells |-> cells]
  <2>1. Wrapped(v) = w
    <3>1. Newlined(v) = w
      <4>1. Newlined(v) = [v EXCEPT !.x = 0, !.y = y + 1]
        BY <1>1, Zenon DEF Newlined
      <4> QED
        BY <4>1, Zenon
    <3>2. ~(v.x < VGA_WIDTH)
      BY <1>0, <1>1, <1>3
    <3> QED
      BY <3>1, <3>2 DEF Wrapped
  <2>2. w.x = 0 /\ w.y = y + 1 /\ w.cells = cells
    OBVIOUS
  <2>3. BlankRow \in [Columns -> STRING] /\ \A i \in Columns : BlankRow[i] = Blank
    BY VgaAssumption, Zenon DEF BlankRow, Glyph
  <2>4. CASE y + 1 < VGA_HEIGHT
    <3>1. Scrolled(w) = w
      BY <2>2, <2>4 DEF Scrolled
    <3>2. w \in Screen
      BY <1>0, <2>4 DEF Screen, Columns
    <3>3. \A i \in Columns : w.cells[w.y][i] = Blank
      BY <1>0, <2>2, <2>3, <2>4
    <3>4. \A r \in Rows : r > w.y => w.cells[r] = BlankRow
      BY <1>0, <2>2
    <3>5. w.x = 0 /\ ~(x < VGA_WIDTH)
      BY <1>0, <1>3
    <3> HIDE DEF w
    <3>6. w \in Tidy
      BY <3>2, <3>3, <3>4 DEF Tidy
    <3> QED
      BY <2>1, <3>1, <3>5, <3>6
  <2>5. CASE y + 1 = VGA_HEIGHT
    <3> DEFINE up == [r \in Rows |-> IF r + 1 \in Rows THEN cells[r + 1] ELSE BlankRow]
               z == [x |-> 0, y |-> VGA_HEIGHT - 1, cells |-> up]
    <3>1. Scrolled(w) = z
      <4>1. Scrolled(w) = [w EXCEPT !.y = VGA_HEIGHT - 1, !.cells = up]
        <5>1. ~(w.y < VGA_HEIGHT) /\ w.cells = cells
          BY <1>0, <2>2, <2>5
        <5> HIDE DEF w
        <5> QED
          BY <5>1 DEF Scrolled
      <4> HIDE DEF up
      <4> QED
        BY <4>1, Zenon
    <3>2. up \in [Rows -> [Columns -> STRING]] /\ up[VGA_HEIGHT - 1] = BlankRow
      BY <1>0, <2>3
    <3> HIDE DEF up
    <3>3. z \in Screen
      BY <1>0, <3>2 DEF Screen, Columns
    <3>4. \A i \in Columns : z.cells[z.y][i] = Blank
      BY <3>2, <2>3
    <3>5. \A r \in Rows : ~(r > z.y)
      BY <1>0
    <3>6. z.x = 0 /\ ~(x < VGA_WIDTH)
      BY <1>0, <1>3
    <3> HIDE DEF z
    <3>7. z \in Tidy
      BY <3>3, <3>4, <3>5 DEF Tidy
    <3> QED
      BY <2>1, <3>1, <3>6, <3>7
  <2> QED
    BY <1>0, <2>4, <2>5
<1> QED
  BY <1>0, <1>2, <1>3

(* A screen is the record of its fields. *)
LEMMA ScreenFields ==
    ASSUME NEW v \in Tidy
    PROVE  /\ v = [x |-> v.x, y |-> v.y, cells |-> v.cells]
           /\ v.x \in Columns /\ v.y \in Rows /\ v.cells \in [Rows -> [Columns -> STRING]]
           /\ v.x \in Nat /\ v.y \in Nat /\ v.x < VGA_WIDTH
           /\ \A i \in Columns : i >= v.x => v.cells[v.y][i] = Blank
           /\ \A r \in Rows : r > v.y => v.cells[r] = BlankRow
<1>1. v \in Screen
  BY DEF Tidy
<1>2. /\ v = [x |-> v.x, y |-> v.y, cells |-> v.cells]
      /\ v.x \in Columns /\ v.y \in Rows /\ v.cells \in [Rows -> [Columns -> STRING]]
  BY <1>1 DEF Screen
<1>3. v.x \in Nat /\ v.y \in Nat /\ v.x < VGA_WIDTH
  BY <1>2, VgaAssumption DEF Columns, Rows
<1> QED
  BY <1>2, <1>3 DEF Tidy

(* A newline puts the cursor on an empty row. *)
LEMMA NewlineClears ==
    ASSUME NEW v \in Tidy
    PROVE  vga_putc(v, Newline) \in Showing(<<>>)
<1> DEFINE edge == [x |-> VGA_WIDTH, y |-> v.y, cells |-> v.cells]
           w == [x |-> 0, y |-> v.y + 1, cells |-> v.cells]
<1>0. VGA_WIDTH \in Nat \ {0}
  BY VgaAssumption
<1>1. Newlined(v) = w
  <2>1. Newlined(v) = [v EXCEPT !.x = 0, !.y = v.y + 1]
    BY Zenon DEF Newlined
  <2> QED
    BY <2>1, ScreenFields, Zenon
<1>2. Newlined(edge) = w
  <2>1. edge.y = v.y
    OBVIOUS
  <2>2. Newlined(edge) = [edge EXCEPT !.x = 0, !.y = v.y + 1]
    BY <2>1, Zenon DEF Newlined
  <2> QED
    BY <2>2, Zenon
<1>3. Wrapped(edge) = w
  <2>1. ~(edge.x < VGA_WIDTH)
    BY <1>0
  <2> QED
    BY <1>2, <2>1 DEF Wrapped
<1>4. Wrapped(w) = w
  BY <1>0 DEF Wrapped
<1>5. Scrolled(w) \in Tidy /\ Scrolled(w).x = 0
  <2>1. \A i \in Columns : ~(i >= VGA_WIDTH)
    BY <1>0 DEF Columns
  <2>2. Scrolled(Wrapped(edge)) \in Tidy /\ Scrolled(Wrapped(edge)).x = 0
    BY <1>0, <2>1, ScreenFields, SettleTidy
  <2> QED
    BY <1>3, <2>2
<1>6. vga_putc(v, Newline) = Scrolled(w)
  <2>1. BackKey # Newline
    BY DEF BackKey, Newline
  <2> HIDE DEF w
  <2> QED
    BY <1>1, <1>4, <2>1 DEF vga_putc
<1> HIDE DEF w
<1> DEFINE z == Scrolled(w)
<1>7. /\ z.cells \in [Rows -> [Columns -> STRING]] /\ z.y \in Rows
      /\ \A i \in Columns : z.cells[z.y][i] = Blank
  <2>1. \A i \in Columns : i >= 0
    BY <1>0 DEF Columns
  <2> QED
    BY <1>5, <2>1, ScreenFields
<1> HIDE DEF z
<1>8. z.cells[z.y] = RowOf(<<>>)
  <2>1. z.cells[z.y] \in [Columns -> STRING]
    BY <1>7
  <2>2. \A i \in Columns : RowOf(<<>>)[i] = Blank
    BY <1>0 DEF RowOf, Columns
  <2> QED
    BY <1>7, <2>1, <2>2 DEF RowOf
<1> QED
  BY <1>5, <1>6, <1>8 DEF Showing, z

(* A character that is shown as it is. *)
LEMMA PutcWrites ==
    ASSUME NEW v \in Tidy, NEW c \in Glyph
    PROVE  /\ vga_putc(v, c) \in Tidy
           /\ v.x + 1 < VGA_WIDTH =>
                vga_putc(v, c) = [x |-> v.x + 1, y |-> v.y,
                                  cells |-> [v.cells EXCEPT ![v.y][v.x] = c]]
<1> DEFINE cells == [v.cells EXCEPT ![v.y][v.x] = c]
           w == [x |-> v.x + 1, y |-> v.y, cells |-> cells]
<1>0. VGA_WIDTH \in Nat \ {0} /\ c \in STRING /\ c # Newline /\ c # BackKey
  BY VgaAssumption, Zenon DEF Glyph
<1>1. Written(v, c) = w
  <2>1. Written(v, c) = [v EXCEPT !.x = v.x + 1, !.cells = cells]
    BY DEF Written
  <2> HIDE DEF cells
  <2> QED
    BY <2>1, ScreenFields, Zenon
<1>2. vga_putc(v, c) = Scrolled(Wrapped(w))
  BY <1>0, <1>1 DEF vga_putc
<1>3. v.x \in Columns /\ v.y \in Rows /\ v.x + 1 \in Nat /\ v.x + 1 <= VGA_WIDTH /\ v.x \in Nat
  BY <1>0, ScreenFields
<1>4. cells \in [Rows -> [Columns -> STRING]]
  BY <1>0, <1>3, ScreenFields
<1>5. ASSUME NEW i \in Columns, i >= v.x + 1  PROVE cells[v.y][i] = Blank
  <2>1. i # v.x /\ i >= v.x
    BY <1>0, <1>3, <1>5 DEF Columns
  <2>2. cells[v.y][i] = v.cells[v.y][i]
    BY <1>3, <2>1, ScreenFields
  <2> QED
    BY <2>1, <2>2, ScreenFields
<1>6. ASSUME NEW r \in Rows, r > v.y  PROVE cells[r] = BlankRow
  <2>1. r # v.y
    BY <1>3, <1>6, ScreenFields
  <2>2. cells[r] = v.cells[r]
    BY <1>3, <2>1, ScreenFields
  <2> QED
    BY <1>6, <2>2, ScreenFields
<1> HIDE DEF cells
<1> QED
  BY <1>2, <1>3, <1>4, <1>5, <1>6, SettleTidy DEF cells

(* A backspace. *)
LEMMA PutcBack ==
    ASSUME NEW v \in Tidy
    PROVE  /\ vga_putc(v, BackKey) \in Tidy
           /\ v.x # 0 =>
                vga_putc(v, BackKey) = [x |-> v.x - 1, y |-> v.y,
                                        cells |-> [v.cells EXCEPT ![v.y][v.x - 1] = Blank]]
<1>0. VGA_WIDTH \in Nat \ {0} /\ Blank \in STRING
  BY VgaAssumption, Zenon DEF Glyph
<1>1. vga_putc(v, BackKey) = Scrolled(Wrapped(Back(v)))
  <2>1. BackKey # Newline
    BY DEF BackKey, Newline
  <2> QED
    BY <2>1 DEF vga_putc
<1>2. CASE v.x = 0
  <2>1. Back(v) = [x |-> v.x, y |-> v.y, cells |-> v.cells]
    BY <1>2, ScreenFields DEF Back
  <2> QED
    <3>1. Scrolled(Wrapped([x |-> v.x, y |-> v.y, cells |-> v.cells])) \in Tidy
      BY <1>0, ScreenFields, SettleTidy
    <3> QED
      BY <1>1, <1>2, <2>1, <3>1
<1>3. CASE v.x # 0
  <2> DEFINE cells == [v.cells EXCEPT ![v.y][v.x - 1] = Blank]
             w == [x |-> v.x - 1, y |-> v.y, cells |-> cells]
  <2>1. Back(v) = w
    <3>1. Back(v) = [v EXCEPT !.x = v.x - 1, !.cells = cells]
      BY <1>3 DEF Back
    <3> HIDE DEF cells
    <3> QED
      BY <3>1, ScreenFields, Zenon
  <2>2. /\ v.y \in Rows /\ v.x \in Nat /\ v.x - 1 \in Nat /\ v.x - 1 < VGA_WIDTH
        /\ v.x - 1 \in Columns
    BY <1>0, <1>3, ScreenFields DEF Columns
  <2>3. cells \in [Rows -> [Columns -> STRING]]
    BY <1>0, <2>2, ScreenFields
  <2>4. ASSUME NEW i \in Columns, i >= v.x - 1  PROVE cells[v.y][i] = Blank
    <3>1. CASE i = v.x - 1
      BY <2>2, <3>1, ScreenFields
    <3>2. CASE i # v.x - 1
      <4>1. i >= v.x
        BY <1>0, <2>2, <2>4, <3>2 DEF Columns
      <4>2. cells[v.y][i] = v.cells[v.y][i]
        BY <2>2, <3>2, ScreenFields
      <4> QED
        BY <4>1, <4>2, ScreenFields
    <3> QED
      BY <3>1, <3>2
  <2>5. ASSUME NEW r \in Rows, r > v.y  PROVE cells[r] = BlankRow
    <3>1. r # v.y
      BY <2>5, ScreenFields
    <3>2. cells[r] = v.cells[r]
      BY <2>2, <3>1, ScreenFields
    <3> QED
      BY <2>5, <3>2, ScreenFields
  <2> HIDE DEF cells
  <2>6. Scrolled(Wrapped(w)) \in Tidy /\ Scrolled(Wrapped(w)) = w
    BY <1>0, <2>2, <2>3, <2>4, <2>5, SettleTidy
  <2> QED
    BY <1>1, <2>1, <2>6 DEF cells
<1> QED
  BY <1>2, <1>3

(* Whatever is put on a tidy screen, it stays tidy. *)
LEMMA PutcTidy ==
    ASSUME NEW v \in Tidy, NEW c \in STRING
    PROVE  vga_putc(v, c) \in Tidy
  BY NewlineClears, PutcWrites, PutcBack, Zenon DEF Showing, Glyph

(* The first characters of a text. *)
LEMMA FirstPart ==
    ASSUME NEW S, NEW l \in Seq(S), NEW m \in 0..Len(l)
    PROVE  /\ SubSeq(l, 1, m) \in Seq(S) /\ Len(SubSeq(l, 1, m)) = m
           /\ \A i \in 1..m : SubSeq(l, 1, m)[i] = l[i]
<1>0. Len(l) \in Nat /\ m \in Nat
  OBVIOUS
<1>1. \A i \in 1..m : l[i] \in S
  BY <1>0, ElementOfSeq
<1> QED
  BY <1>0, <1>1, SubSeqProperties

(* Text with one more character of s after it. *)
LEMMA OneMore ==
    ASSUME NEW l \in Seq(STRING), NEW s \in Seq(STRING), NEW k \in 1..Len(s)
    PROVE  /\ l \o SubSeq(s, 1, k - 1) \in Seq(STRING)
           /\ Len(l \o SubSeq(s, 1, k - 1)) = Len(l) + k - 1
           /\ Append(l \o SubSeq(s, 1, k - 1), s[k]) = l \o SubSeq(s, 1, k)
<1>0. Len(l) \in Nat /\ Len(s) \in Nat /\ k \in Nat /\ s[k] \in STRING
  BY ElementOfSeq
<1> DEFINE a == SubSeq(s, 1, k - 1)
           b == SubSeq(s, 1, k)
<1>1. /\ a \in Seq(STRING) /\ Len(a) = k - 1 /\ \A i \in 1..k-1 : a[i] = s[i]
      /\ b \in Seq(STRING) /\ Len(b) = k /\ \A i \in 1..k : b[i] = s[i]
  <2>1. \A i \in 1..k-1 : s[i] \in STRING
    BY <1>0, ElementOfSeq
  <2>2. \A i \in 1..k : s[i] \in STRING
    BY <1>0, ElementOfSeq
  <2> QED
    BY <1>0, <2>1, <2>2, SubSeqProperties
<1> HIDE DEF a, b
<1>2. /\ l \o a \in Seq(STRING) /\ Len(l \o a) = Len(l) + k - 1
      /\ l \o b \in Seq(STRING) /\ Len(l \o b) = Len(l) + k
  BY <1>0, <1>1, ConcatProperties
<1>3. Append(l \o a, s[k]) \in Seq(STRING) /\ Len(Append(l \o a, s[k])) = Len(l) + k
  BY <1>0, <1>2, AppendProperties
<1>4. ASSUME NEW i \in 1..Len(l)+k  PROVE Append(l \o a, s[k])[i] = (l \o b)[i]
  <2>0. (l \o b)[i] = IF i <= Len(l) THEN l[i] ELSE b[i - Len(l)]
    BY <1>0, <1>1, ConcatProperties
  <2>1. CASE i <= Len(l)
    <3>1. Append(l \o a, s[k])[i] = (l \o a)[i]
      BY <1>0, <1>2, <2>1, AppendProperties
    <3>2. (l \o a)[i] = l[i]
      BY <1>0, <1>1, <2>1, ConcatProperties
    <3> QED
      BY <2>0, <2>1, <3>1, <3>2
  <2>2. CASE i > Len(l) /\ i < Len(l) + k
    <3>0. i \in 1..Len(l \o a) /\ i \in 1..Len(l) + Len(a) /\ ~(i <= Len(l)) /\ i - Len(l) \in 1..k-1
      BY <1>0, <1>1, <1>2, <2>2
    <3>1. Append(l \o a, s[k])[i] = (l \o a)[i]
      BY <1>0, <1>2, <3>0, AppendProperties
    <3>2. (l \o a)[i] = a[i - Len(l)]
      BY <1>0, <1>1, <3>0, ConcatProperties
    <3>3. a[i - Len(l)] = b[i - Len(l)]
      BY <1>0, <1>1, <3>0, SMTT(30)
    <3> QED
      BY <2>0, <3>0, <3>1, <3>2, <3>3
  <2>3. CASE i = Len(l) + k
    <3>1. Append(l \o a, s[k])[i] = s[k]
      BY <1>0, <1>2, <2>3, AppendProperties
    <3>2. b[i - Len(l)] = s[k] /\ ~(i <= Len(l))
      BY <1>0, <1>1, <2>3
    <3> QED
      BY <2>0, <3>1, <3>2
  <2>4. i <= Len(l) \/ (i > Len(l) /\ i < Len(l) + k) \/ i = Len(l) + k
    BY <1>0
  <2> QED
    BY <2>1, <2>2, <2>3, <2>4, Zenon
<1>5. Append(l \o a, s[k]) = l \o b
  BY <1>2, <1>3, <1>4, SeqEqual, Zenon
<1> QED
  BY <1>2, <1>5, Zenon DEF a, b

(* A character after the text on the cursor's row. *)
LEMMA ShowsOne ==
    ASSUME NEW l \in Seq(STRING), NEW v \in Showing(l), NEW c \in Glyph,
           Len(l) + 1 < VGA_WIDTH
    PROVE  vga_putc(v, c) \in Showing(Append(l, c))
<1>0. /\ v \in Tidy /\ v.x = Len(l) /\ v.cells[v.y] = RowOf(l) /\ c \in STRING
      /\ Len(l) \in Nat /\ VGA_WIDTH \in Nat
  BY VgaAssumption DEF Showing, Glyph
<1>1. v.y \in Rows /\ v.x \in Columns /\ v.cells \in [Rows -> [Columns -> STRING]]
  BY <1>0, ScreenFields
<1> DEFINE cells == [v.cells EXCEPT ![v.y][v.x] = c]
           w == [x |-> v.x + 1, y |-> v.y, cells |-> cells]
<1>2. vga_putc(v, c) \in Tidy /\ vga_putc(v, c) = w
  BY <1>0, PutcWrites
<1>3. Append(l, c) \in Seq(STRING) /\ Len(Append(l, c)) = Len(l) + 1
  BY <1>0, AppendProperties
<1>4. cells[v.y] \in [Columns -> STRING]
  BY <1>0, <1>1
<1>5. ASSUME NEW i \in Columns  PROVE cells[v.y][i] = RowOf(Append(l, c))[i]
  <2>0. i \in Nat /\ RowOf(Append(l, c))[i] = IF i < Len(l) + 1 THEN Append(l, c)[i + 1] ELSE Blank
    BY <1>0, <1>3 DEF RowOf, Columns
  <2>1. CASE i = Len(l)
    <3>1. Append(l, c)[i + 1] = c /\ i < Len(l) + 1
      BY <1>0, <2>1
    <3>2. cells[v.y][i] = c
      BY <1>0, <1>1, <2>1
    <3> QED
      BY <2>0, <3>1, <3>2
  <2>2. CASE i # Len(l)
    <3>1. cells[v.y][i] = RowOf(l)[i]
      BY <1>0, <1>1, <2>2
    <3>2. RowOf(l)[i] = IF i < Len(l) THEN l[i + 1] ELSE Blank
      BY DEF RowOf
    <3>3. CASE i < Len(l)
      <4>1. i + 1 \in 1..Len(l) /\ i < Len(l) + 1
        BY <1>0, <2>0, <3>3
      <4>2. Append(l, c)[i + 1] = l[i + 1]
        BY <1>0, <4>1, AppendProperties
      <4> QED
        BY <2>0, <3>1, <3>2, <3>3, <4>1, <4>2
    <3>4. CASE ~(i < Len(l))
      <4>1. ~(i < Len(l) + 1)
        BY <1>0, <2>0, <2>2, <3>4
      <4> QED
        BY <2>0, <3>1, <3>2, <3>4, <4>1
    <3> QED
      BY <3>3, <3>4
  <2> QED
    BY <2>1, <2>2
<1>6. cells[v.y] = RowOf(Append(l, c))
  <2>1. cells[v.y] = [i \in Columns |-> cells[v.y][i]]
    <3> HIDE DEF cells
    <3> QED  BY <1>4
  <2>2. RowOf(Append(l, c)) = [i \in Columns |-> RowOf(Append(l, c))[i]]
    BY Zenon DEF RowOf
  <2> HIDE DEF cells
  <2> QED
    BY <1>5, <2>1, <2>2
<1>7. w.x = Len(Append(l, c)) /\ w.cells[w.y] = RowOf(Append(l, c))
  <2> HIDE DEF cells
  <2> QED  BY <1>0, <1>3, <1>6
<1> HIDE DEF w
<1> QED
  BY <1>2, <1>7 DEF Showing

(* A backspace after the text on the cursor's row. *)
LEMMA ShowsBack ==
    ASSUME NEW l \in Seq(STRING), NEW v \in Showing(l), Len(l) # 0
    PROVE  vga_putc(v, BackKey) \in Showing(SubSeq(l, 1, Len(l) - 1))
<1> DEFINE f == SubSeq(l, 1, Len(l) - 1)
           n == Len(l) - 1
<1>0. /\ v \in Tidy /\ v.x = Len(l) /\ v.cells[v.y] = RowOf(l) /\ Blank \in STRING
      /\ Len(l) \in Nat /\ VGA_WIDTH \in Nat /\ n \in Nat
  BY VgaAssumption DEF Showing, Glyph
<1>1. /\ v.y \in Rows /\ v.x \in Columns /\ v.cells \in [Rows -> [Columns -> STRING]]
      /\ n \in Columns
  BY <1>0, ScreenFields DEF Columns
<1> DEFINE cells == [v.cells EXCEPT ![v.y][v.x - 1] = Blank]
           w == [x |-> v.x - 1, y |-> v.y, cells |-> cells]
<1>2. vga_putc(v, BackKey) \in Tidy /\ vga_putc(v, BackKey) = w
  BY <1>0, PutcBack, Zenon
<1>3. Len(f) = n /\ \A i \in 1..n : f[i] = l[i]
  <2>1. \A i \in 1..n : l[i] \in STRING
    BY <1>0, ElementOfSeq
  <2>2. n = Len(l) - 1
    OBVIOUS
  <2> HIDE DEF n
  <2>3. Len(SubSeq(l, 1, n)) = n /\ \A i \in 1..n : SubSeq(l, 1, n)[i] = l[i]
    <3>1. n \in 0..Len(l)
      BY <1>0, <2>2
    <3> QED
      BY <3>1, FirstPart
  <2> QED
    BY <2>2, <2>3
<1> HIDE DEF f
<1>4. cells[v.y] \in [Columns -> STRING]
  BY <1>0, <1>1
<1>5. ASSUME NEW i \in Columns  PROVE cells[v.y][i] = RowOf(f)[i]
  <2>0. i \in Nat /\ RowOf(f)[i] = IF i < n THEN f[i + 1] ELSE Blank
    BY <1>0, <1>3 DEF RowOf, Columns
  <2>1. CASE i = n
    <3>1. cells[v.y][i] = Blank /\ ~(i < n)
      BY <1>0, <1>1, <2>1
    <3> QED
      BY <2>0, <3>1
  <2>2. CASE i # n
    <3>1. cells[v.y][i] = RowOf(l)[i]
      BY <1>0, <1>1, <2>2
    <3>2. RowOf(l)[i] = IF i < Len(l) THEN l[i + 1] ELSE Blank
      BY DEF RowOf
    <3>3. CASE i < n
      <4>1. i + 1 \in 1..n /\ i < Len(l)
        BY <1>0, <2>0, <3>3
      <4> QED
        BY <1>3, <2>0, <3>1, <3>2, <3>3, <4>1
    <3>4. CASE ~(i < n)
      <4>1. ~(i < Len(l))
        BY <1>0, <2>0, <2>2, <3>4
      <4> QED
        BY <2>0, <3>1, <3>2, <3>4, <4>1
    <3> QED
      BY <3>3, <3>4
  <2> QED
    BY <2>1, <2>2
<1>6. cells[v.y] = RowOf(f)
  <2>1. cells[v.y] = [i \in Columns |-> cells[v.y][i]]
    <3> HIDE DEF cells
    <3> QED  BY <1>4
  <2>2. RowOf(f) = [i \in Columns |-> RowOf(f)[i]]
    BY DEF RowOf
  <2> HIDE DEF cells
  <2> QED
    BY <1>5, <2>1, <2>2
<1>7. w.x = Len(f) /\ w.cells[w.y] = RowOf(f)
  <2> HIDE DEF cells
  <2> QED  BY <1>0, <1>3, <1>6
<1> HIDE DEF w
<1>8. vga_putc(v, BackKey) \in Showing(f)
  BY <1>2, <1>7 DEF Showing
<1> QED
  BY <1>8 DEF f

(* All of them. *)
LEMMA WholePrefix ==
    ASSUME NEW S, NEW l \in Seq(S)
    PROVE  SubSeq(l, 1, Len(l)) = l
<1>1. Len(l) \in 0..Len(l)
  OBVIOUS
<1> QED
  BY <1>1, FirstPart, SeqEqual

(* A text of glyphs is a text. *)
LEMMA GlyphText ==
    ASSUME NEW s \in Seq(Glyph)
    PROVE  s \in Seq(STRING) /\ \A k \in 1..Len(s) : s[k] \in Glyph
<1>1. \A k \in 1..Len(s) : s[k] \in Glyph
  BY ElementOfSeq
<1>2. \A k \in 1..Len(s) : s[k] \in STRING
  BY <1>1 DEF Glyph
<1> QED
  BY <1>1, <1>2

(* A text of glyphs that fits is shown after the one on the cursor's row. *)
LEMMA Prints ==
    ASSUME NEW l \in Seq(STRING), NEW s \in Seq(Glyph), Len(l) + Len(s) < VGA_WIDTH,
           NEW v \in Showing(l)
    PROVE  vga_puts(v, s) \in Showing(l \o s)
<1> DEFINE G == [k \in 0..Len(s) |-> Showing(l \o SubSeq(s, 1, k))]
<1>0. /\ Len(l) \in Nat /\ Len(s) \in Nat /\ VGA_WIDTH \in Nat /\ s \in Seq(STRING)
      /\ \A k \in 1..Len(s) : s[k] \in Glyph
  BY GlyphText, VgaAssumption
<1>1. v \in G[0]
  <2>1. SubSeq(s, 1, 0) = <<>>
    BY <1>0, SubSeqEmpty
  <2>2. l \o SubSeq(s, 1, 0) = l
    BY <2>1, ConcatEmptySeq
  <2>3. 0 \in 0..Len(s)
    BY <1>0
  <2>4. G[0] = Showing(l \o SubSeq(s, 1, 0))
    BY <2>3
  <2> QED
    BY <2>2, <2>4
<1>2. ASSUME NEW k \in 1..Len(s), NEW u \in G[k - 1]
      PROVE  vga_putc(u, s[k]) \in G[k]
  <2> DEFINE a == l \o SubSeq(s, 1, k - 1)
  <2>1. k - 1 \in 0..Len(s) /\ k \in 0..Len(s) /\ k \in Nat
    BY <1>0
  <2>2. /\ a \in Seq(STRING) /\ Len(a) = Len(l) + k - 1
        /\ Append(a, s[k]) = l \o SubSeq(s, 1, k)
    BY <1>0, OneMore, Zenon
  <2>3. u \in Showing(a) /\ G[k] = Showing(l \o SubSeq(s, 1, k))
    BY <2>1
  <2> HIDE DEF a, G
  <2>4. Len(a) + 1 < VGA_WIDTH
    BY <1>0, <2>1, <2>2
  <2>5. vga_putc(u, s[k]) \in Showing(Append(a, s[k]))
    BY <1>0, <2>2, <2>3, <2>4, ShowsOne, Zenon
  <2> QED
    BY <2>2, <2>3, <2>5
<1>3. Len(s) \in 0..Len(s) /\ SubSeq(s, 1, Len(s)) = s
  BY <1>0, WholePrefix
<1>4. G[Len(s)] = Showing(l \o s)
  BY <1>3, Zenon
<1> HIDE DEF G
<1>5. vga_puts(v, s) \in G[Len(s)]
  BY <1>0, <1>1, <1>2, PutsThrough
<1> QED
  BY <1>4, <1>5

(* A newline and the prompt, after whatever else was printed. *)
LEMMA PromptAfter ==
    ASSUME NEW r \in Seq(STRING), NEW v \in Tidy
    PROVE  vga_puts(v, r \o <<Newline>> \o Prompt) \in Showing(Prompt)
<1> DEFINE s == r \o <<Newline>> \o Prompt
           n == Len(r) + 1
           G == [k \in 0..Len(s) |-> IF k < n THEN Tidy
                                     ELSE Showing(SubSeq(Prompt, 1, k - n))]
<1>0. /\ Prompt \in Seq(STRING) /\ \A k \in 1..Len(Prompt) : Prompt[k] \in Glyph
      /\ Len(Prompt) \in Nat /\ Len(Prompt) < VGA_WIDTH /\ VGA_WIDTH \in Nat
      /\ n \in Nat \ {0} /\ Len(r) \in Nat
  BY GlyphText, ShellAssumption, VgaAssumption
<1>1. /\ Len(s) = n + Len(Prompt)
      /\ \A k \in 1..Len(r) : s[k] = r[k]
      /\ s[n] = Newline
      /\ \A k \in n+1..Len(s) : s[k] = Prompt[k - n]
  BY <1>0
<1> HIDE DEF s, n
<1>2. v \in G[0]
  BY <1>0, <1>1
<1>3. ASSUME NEW k \in 1..Len(s), NEW u \in G[k - 1]
      PROVE  vga_putc(u, s[k]) \in G[k]
  <2>0. k \in Nat /\ k - 1 \in 0..Len(s) /\ k \in 0..Len(s)
    BY <1>0, <1>1
  <2>1. CASE k < n
    <3>1. u \in Tidy /\ G[k] = Tidy
      BY <1>0, <2>0, <2>1
    <3>2. s[k] \in STRING
      BY <1>0, <1>1, <2>0, <2>1, ElementOfSeq DEF n
    <3> QED
      BY <3>1, <3>2, PutcTidy, Zenon
  <2>2. CASE k = n
    <3>1. u \in Tidy /\ G[k] = Showing(SubSeq(Prompt, 1, 0))
      BY <1>0, <2>0, <2>2
    <3>2. SubSeq(Prompt, 1, 0) = <<>>
      BY <1>0, SubSeqEmpty
    <3> QED
      BY <1>1, <2>2, <3>1, <3>2, NewlineClears, Zenon
  <2>3. CASE k > n
    <3> DEFINE i == k - n
    <3>1. i \in 1..Len(Prompt) /\ i \in Nat /\ s[k] = Prompt[i]
      <4>1. n \in Nat /\ Len(Prompt) \in Nat /\ Len(s) = n + Len(Prompt)
        BY <1>0, <1>1
      <4>2. k \in n+1..Len(s) /\ i \in 1..Len(Prompt) /\ i \in Nat
        BY <4>1, <2>0, <2>3
      <4> QED
        BY <1>1, <4>2, Zenon
    <3>2. u \in Showing(SubSeq(Prompt, 1, i - 1)) /\ G[k] = Showing(SubSeq(Prompt, 1, i))
      BY <1>0, <2>0, <2>3
    <3> HIDE DEF i, G
    <3> DEFINE a == SubSeq(Prompt, 1, i - 1)
    <3>3. a \in Seq(STRING) /\ Len(a) = i - 1 /\ Append(a, Prompt[i]) = SubSeq(Prompt, 1, i)
      <4>1. i - 1 \in 0..Len(Prompt) /\ i \in 0..Len(Prompt)
        BY <1>0, <3>1
      <4>2. a \in Seq(STRING) /\ Len(a) = i - 1 /\ SubSeq(Prompt, 1, i) \in Seq(STRING)
        BY <1>0, <4>1, FirstPart
      <4>3. <<>> \o a = a /\ <<>> \o SubSeq(Prompt, 1, i) = SubSeq(Prompt, 1, i)
        BY <4>2, ConcatEmptySeq
      <4>4. <<>> \in Seq(STRING)
        OBVIOUS
      <4>5. Append(<<>> \o a, Prompt[i]) = <<>> \o SubSeq(Prompt, 1, i)
        BY <1>0, <3>1, <4>4, OneMore, Zenon
      <4> QED
        BY <4>2, <4>3, <4>5
    <3>4. u \in Showing(a) /\ Prompt[i] \in Glyph
      BY <1>0, <3>1, <3>2
    <3> HIDE DEF a
    <3>5. Len(a) + 1 < VGA_WIDTH
      BY <1>0, <3>1, <3>3
    <3>6. vga_putc(u, Prompt[i]) \in Showing(Append(a, Prompt[i]))
      BY <3>3, <3>4, <3>5, ShowsOne, Zenon
    <3> QED
      BY <3>1, <3>2, <3>3, <3>6
  <2> QED
    BY <1>0, <2>0, <2>1, <2>2, <2>3
<1>4. G[Len(s)] = Showing(Prompt) /\ Len(s) \in Nat
  <2>1. SubSeq(Prompt, 1, Len(Prompt)) = Prompt
    BY <1>0, WholePrefix
  <2>2. Len(s) \in Nat /\ Len(s) \in 0..Len(s) /\ ~(Len(s) < n) /\ Len(s) - n = Len(Prompt)
    BY <1>0, <1>1
  <2>3. G[Len(s)] = Showing(SubSeq(Prompt, 1, Len(s) - n))
    BY <2>2
  <2> QED
    BY <2>1, <2>2, <2>3, Zenon
<1> HIDE DEF G
<1>5. vga_puts(v, s) \in G[Len(s)]
  BY <1>2, <1>3, <1>4, PutsThrough
<1> QED
  BY <1>4, <1>5 DEF s

(* A text of one character. *)
LEMMA OneCharacter ==
    ASSUME NEW S, NEW c \in S
    PROVE  <<c>> \in Seq(S)
  OBVIOUS

(* A text and one character. *)
LEMMA LongerText ==
    ASSUME NEW a \in Seq(STRING), NEW c \in STRING
    PROVE  /\ Append(a, c) \in Seq(STRING) /\ Len(Append(a, c)) = Len(a) + 1
           /\ \A i \in 1..Len(a) : Append(a, c)[i] = a[i]
<1>1. Append(a, c) \in Seq(STRING) /\ Len(Append(a, c)) = Len(a) + 1
  BY AppendProperties, Zenon
<1>2. ASSUME NEW i \in 1..Len(a)  PROVE Append(a, c)[i] = a[i]
  BY AppendProperties
<1> QED
  BY <1>1, <1>2, Zenon

(* What is left of a text after k characters of Erase. *)
Left(l, k) ==
    LET m == Len(l) - (k \div 3)
    IN  IF k % 3 = 0 THEN SubSeq(l, 1, m)
        ELSE IF k % 3 = 1 THEN SubSeq(l, 1, m - 1)
        ELSE Append(SubSeq(l, 1, m - 1), Blank)

(* Erasing n characters. *)
LEMMA Erases ==
    ASSUME NEW l \in Seq(STRING), NEW n \in 0..Len(l), NEW v \in Showing(l)
    PROVE  vga_puts(v, Erase(n)) \in Showing(SubSeq(l, 1, Len(l) - n))
<1> DEFINE s == Erase(n)
           G == [k \in 0..3*n |-> Showing(Left(l, k))]
<1>0. /\ Len(l) \in Nat /\ n \in Nat /\ n <= Len(l) /\ Len(l) < VGA_WIDTH
      /\ VGA_WIDTH \in Nat /\ Blank \in STRING /\ Blank \in Glyph
  BY ScreenFields, VgaAssumption DEF Showing, Glyph
<1>1. Len(s) = 3 * n /\ \A k \in 1..3*n : s[k] = IF k % 3 = 2 THEN Blank ELSE BackKey
  BY <1>0 DEF Erase
<1> HIDE DEF s
<1>2. v \in G[0]
  <2>1. Left(l, 0) = l
    <3>1. 0 % 3 = 0 /\ 0 \div 3 = 0 /\ Len(l) - 0 = Len(l)
      BY <1>0
    <3> QED
      BY <3>1, WholePrefix DEF Left
  <2>2. 0 \in 0..3*n
    BY <1>0
  <2> QED
    BY <2>1, <2>2
<1>3. ASSUME NEW k \in 1..Len(s), NEW u \in G[k - 1]
      PROVE  vga_putc(u, s[k]) \in G[k]
  <2>0. k \in 1..3*n /\ k \in Nat /\ k - 1 \in 0..3*n /\ k \in 0..3*n
    BY <1>0, <1>1
  <2>1. u \in Showing(Left(l, k - 1)) /\ G[k] = Showing(Left(l, k))
    BY <2>0
  <2> HIDE DEF G
  <2>2. PICK q \in Nat : k = 3 * q \/ k = 3 * q + 1 \/ k = 3 * q + 2
    <3>1. k \div 3 \in Nat /\ (k = 3 * (k \div 3) \/ k = 3 * (k \div 3) + 1 \/ k = 3 * (k \div 3) + 2)
      BY <2>0
    <3> QED
      BY <3>1
  <2>3. CASE k = 3 * q + 1
    <3>1. /\ (k - 1) % 3 = 0 /\ (k - 1) \div 3 = q /\ k % 3 = 1 /\ k \div 3 = q
          /\ q < n
      BY <1>0, <2>0, <2>3
    <3> DEFINE m == Len(l) - q
               a == SubSeq(l, 1, m)
    <3>2. Left(l, k - 1) = a /\ Left(l, k) = SubSeq(l, 1, m - 1)
      BY <3>1 DEF Left
    <3>3. m \in 0..Len(l) /\ m - 1 \in 0..Len(l) /\ m # 0 /\ m \in Nat /\ m - 1 \in Nat
      BY <1>0, <3>1
    <3> HIDE DEF m
    <3>4. /\ a \in Seq(STRING) /\ Len(a) = m
          /\ SubSeq(a, 1, m - 1) = SubSeq(l, 1, m - 1)
      <4>1. a \in Seq(STRING) /\ Len(a) = m /\ \A i \in 1..m : a[i] = l[i]
        BY <3>3, FirstPart
      <4> HIDE DEF a
      <4>2. m - 1 \in 0..Len(a)
        BY <3>3, <4>1
      <4>3. /\ SubSeq(a, 1, m - 1) \in Seq(STRING) /\ Len(SubSeq(a, 1, m - 1)) = m - 1
            /\ \A i \in 1..m-1 : SubSeq(a, 1, m - 1)[i] = a[i]
        BY <4>1, <4>2, FirstPart
      <4>4. /\ SubSeq(l, 1, m - 1) \in Seq(STRING) /\ Len(SubSeq(l, 1, m - 1)) = m - 1
            /\ \A i \in 1..m-1 : SubSeq(l, 1, m - 1)[i] = l[i]
        BY <3>3, FirstPart
      <4>5. \A i \in 1..m-1 : SubSeq(a, 1, m - 1)[i] = SubSeq(l, 1, m - 1)[i]
        BY <3>3, <4>1, <4>3, <4>4
      <4> QED
        BY <4>1, <4>3, <4>4, <4>5, SeqEqual
    <3>5. s[k] = BackKey
      BY <1>1, <2>0, <3>1, SMTT(30)
    <3>6. vga_putc(u, BackKey) \in Showing(SubSeq(a, 1, Len(a) - 1))
      <4>1. u \in Showing(a) /\ Len(a) # 0
        BY <2>1, <3>2, <3>3, <3>4, Zenon
      <4> HIDE DEF a
      <4> QED
        BY <3>4, <4>1, ShowsBack, Zenon
    <3> QED
      BY <2>1, <3>2, <3>4, <3>5, <3>6, Zenon
  <2>4. CASE k = 3 * q + 2
    <3>1. /\ (k - 1) % 3 = 1 /\ (k - 1) \div 3 = q /\ k % 3 = 2 /\ k \div 3 = q
          /\ q < n
      BY <1>0, <2>0, <2>4
    <3> DEFINE m == Len(l) - q
               a == SubSeq(l, 1, m - 1)
    <3>2. Left(l, k - 1) = a /\ Left(l, k) = Append(a, Blank)
      <4>1. Left(l, k - 1) = a
        BY <3>1 DEF Left
      <4>2. k % 3 # 0 /\ k % 3 # 1
        BY <3>1
      <4>3. Left(l, k) = Append(SubSeq(l, 1, Len(l) - (k \div 3) - 1), Blank)
        BY <4>2, Zenon DEF Left
      <4> QED
        BY <3>1, <4>1, <4>3, Zenon
    <3>3. m - 1 \in 0..Len(l) /\ m \in Nat /\ m <= Len(l)
      BY <1>0, <3>1
    <3> HIDE DEF m
    <3>4. a \in Seq(STRING) /\ Len(a) = m - 1
      BY <3>3, FirstPart
    <3> HIDE DEF a
    <3>5. s[k] = Blank /\ Len(a) + 1 < VGA_WIDTH
      <4>1. s[k] = Blank
        BY <1>1, <2>0, <3>1
      <4>2. Len(a) + 1 < VGA_WIDTH
        BY <1>0, <3>3, <3>4
      <4> QED
        BY <4>1, <4>2
    <3>6. vga_putc(u, Blank) \in Showing(Append(a, Blank))
      BY <1>0, <2>1, <3>2, <3>4, <3>5, ShowsOne, Zenon
    <3> QED
      BY <2>1, <3>2, <3>5, <3>6
  <2>5. CASE k = 3 * q
    <3>1. /\ (k - 1) % 3 = 2 /\ (k - 1) \div 3 = q - 1 /\ k % 3 = 0 /\ k \div 3 = q
          /\ q <= n /\ q >= 1
      BY <1>0, <2>0, <2>5
    <3> DEFINE m == Len(l) - q
               a == SubSeq(l, 1, m)
               b == Append(a, Blank)
    <3>2. Left(l, k - 1) = b /\ Left(l, k) = a
      <4>1. Len(l) - (q - 1) - 1 = m
        BY <1>0
      <4> HIDE DEF m
      <4>2. Left(l, k) = a
        BY <3>1 DEF Left, m
      <4>3. (k - 1) % 3 # 0 /\ (k - 1) % 3 # 1
        BY <3>1
      <4>4. Left(l, k - 1) = Append(SubSeq(l, 1, Len(l) - ((k - 1) \div 3) - 1), Blank)
        BY <4>3, Zenon DEF Left
      <4> QED
        BY <3>1, <4>1, <4>2, <4>4, Zenon
    <3>3. m \in 0..Len(l) /\ m \in Nat
      BY <1>0, <3>1
    <3> HIDE DEF m
    <3>4. a \in Seq(STRING) /\ Len(a) = m
      BY <3>3, FirstPart
    <3> HIDE DEF a
    <3>5. b \in Seq(STRING) /\ Len(b) = m + 1 /\ SubSeq(b, 1, m) = a
      <4>0. /\ Append(a, Blank) \in Seq(STRING) /\ Len(Append(a, Blank)) = Len(a) + 1
            /\ \A i \in 1..Len(a) : Append(a, Blank)[i] = a[i]
        <5>1. Blank \in STRING /\ a \in Seq(STRING)
          BY <1>0, <3>4
        <5> QED
          BY <5>1, LongerText, Zenon
      <4>1. b \in Seq(STRING) /\ Len(b) = m + 1 /\ \A i \in 1..m : b[i] = a[i]
        BY <3>4, <4>0, Zenon
      <4> HIDE DEF b
      <4>2. m \in 0..Len(b)
        BY <3>3, <4>1
      <4>3. /\ SubSeq(b, 1, m) \in Seq(STRING) /\ Len(SubSeq(b, 1, m)) = m
            /\ \A i \in 1..m : SubSeq(b, 1, m)[i] = b[i]
        BY <4>1, <4>2, FirstPart
      <4> QED
        BY <3>4, <4>1, <4>3, SeqEqual
    <3>6. s[k] = BackKey /\ Len(b) # 0 /\ Len(b) - 1 = m
      BY <1>1, <2>0, <3>1, <3>3, <3>5
    <3> HIDE DEF b
    <3>7. vga_putc(u, BackKey) \in Showing(SubSeq(b, 1, Len(b) - 1))
      BY <2>1, <3>2, <3>5, <3>6, ShowsBack
    <3> QED
      BY <2>1, <3>2, <3>5, <3>6, <3>7, Zenon
  <2> QED
    BY <2>2, <2>3, <2>4, <2>5
<1>4. G[Len(s)] = Showing(SubSeq(l, 1, Len(l) - n)) /\ Len(s) \in Nat
  <2>1. (3 * n) % 3 = 0 /\ (3 * n) \div 3 = n /\ 3 * n \in 0..3*n
    BY <1>0
  <2>2. Left(l, 3 * n) = SubSeq(l, 1, Len(l) - n)
    BY <2>1 DEF Left
  <2>3. G[3 * n] = Showing(Left(l, 3 * n)) /\ 3 * n \in Nat
    BY <1>0, <2>1
  <2> QED
    BY <1>1, <2>2, <2>3, Zenon
<1> HIDE DEF G
<1>5. vga_puts(v, s) \in G[Len(s)]
  BY <1>2, <1>3, <1>4, PutsThrough
<1> QED
  BY <1>4, <1>5 DEF s

(* The prompt and a line of it. *)
LEMMA LineText ==
    ASSUME NEW l \in Line
    PROVE  /\ l \in Seq(Chars) /\ Len(l) \in 0..LINE
           /\ l \in Seq(Glyph) /\ l \in Seq(STRING)
           /\ Prompt \in Seq(STRING) /\ Len(Prompt) \in Nat
           /\ Prompt \o l \in Seq(STRING) /\ Len(Prompt \o l) = Len(Prompt) + Len(l)
           /\ Len(Prompt) + Len(l) < VGA_WIDTH
<1>0. /\ l \in Seq(Chars) /\ Len(l) <= LINE /\ Chars \subseteq Glyph /\ LINE \in Nat
      /\ Prompt \in Seq(Glyph) /\ Len(Prompt) + LINE < VGA_WIDTH /\ VGA_WIDTH \in Nat
  BY ShellAssumption, VgaAssumption DEF Line
<1>1. Len(l) \in 0..LINE /\ Len(Prompt) \in Nat
  BY <1>0
<1>2. l \in Seq(Glyph)
  <2>1. \A k \in 1..Len(l) : l[k] \in Glyph
    BY <1>0, ElementOfSeq
  <2> QED
    BY <1>0, <2>1
<1>3. l \in Seq(STRING) /\ Prompt \in Seq(STRING)
  BY <1>0, <1>2, GlyphText
<1>4. Prompt \o l \in Seq(STRING) /\ Len(Prompt \o l) = Len(Prompt) + Len(l)
  BY <1>3, ConcatProperties
<1>5. Len(Prompt) + Len(l) < VGA_WIDTH
  BY <1>0, <1>1
<1> QED
  BY <1>0, <1>1, <1>2, <1>3, <1>4, <1>5

(* What is left of p \o l after the end of l has been cut off. *)
LEMMA CutEnd ==
    ASSUME NEW p \in Seq(STRING), NEW l \in Seq(STRING), NEW m \in 0..Len(l)
    PROVE  SubSeq(p \o l, 1, Len(p) + m) = p \o SubSeq(l, 1, m)
<1> DEFINE a == SubSeq(p \o l, 1, Len(p) + m)
           t == SubSeq(l, 1, m)
           b == p \o t
<1>0. Len(p) \in Nat /\ Len(l) \in Nat /\ m \in Nat /\ Len(p) + m \in Nat
  OBVIOUS
<1>1. /\ p \o l \in Seq(STRING) /\ Len(p \o l) = Len(p) + Len(l)
      /\ \A i \in 1..Len(p) + Len(l) : (p \o l)[i] = IF i <= Len(p) THEN p[i] ELSE l[i - Len(p)]
  BY ConcatProperties
<1>2. t \in Seq(STRING) /\ Len(t) = m /\ \A i \in 1..m : t[i] = l[i]
  BY FirstPart
<1>3. /\ a \in Seq(STRING) /\ Len(a) = Len(p) + m
      /\ \A i \in 1..Len(p) + m : a[i] = (p \o l)[i]
  <2>1. Len(p) + m \in 0..Len(p \o l)
    BY <1>0, <1>1
  <2> QED
    BY <1>1, <2>1, FirstPart
<1> HIDE DEF a, t
<1>4. /\ b \in Seq(STRING) /\ Len(b) = Len(p) + Len(t)
      /\ \A i \in 1..Len(p) + Len(t) : b[i] = IF i <= Len(p) THEN p[i] ELSE t[i - Len(p)]
  BY <1>2, ConcatProperties, Zenon
<1> HIDE DEF b
<1>5. ASSUME NEW i \in 1..Len(p)+m  PROVE a[i] = b[i]
  <2>1. i \in 1..Len(p) + Len(l) /\ i \in 1..Len(p) + Len(t)
    BY <1>0, <1>2
  <2>2. CASE i <= Len(p)
    BY <1>1, <1>3, <1>4, <2>1, <2>2
  <2>3. CASE ~(i <= Len(p))
    <3>1. i - Len(p) \in 1..m
      BY <1>0, <2>3
    <3>2. t[i - Len(p)] = l[i - Len(p)]
      BY <1>2, <3>1
    <3> QED
      BY <1>1, <1>3, <1>4, <2>1, <2>3, <3>2
  <2> QED
    BY <2>2, <2>3
<1>6. Len(b) = Len(p) + m
  BY <1>2, <1>4
<1>7. a = b
  BY <1>3, <1>4, <1>5, <1>6, SeqEqual
<1> QED
  BY <1>7 DEF a, b, t

(* A line is replaced on the screen. *)
LEMMA Replaces ==
    ASSUME NEW l \in Line, NEW new \in Line, NEW v \in Showing(Prompt \o l)
    PROVE  vga_puts(vga_puts(v, Erase(Len(l))), new) \in Showing(Prompt \o new)
<1> DEFINE p == Prompt \o l
<1>0. /\ l \in Seq(STRING) /\ Len(l) \in Nat /\ Prompt \in Seq(STRING) /\ Len(Prompt) \in Nat
      /\ p \in Seq(STRING) /\ Len(p) = Len(Prompt) + Len(l)
  BY LineText, ShellAssumption
<1>1. SubSeq(p, 1, Len(Prompt)) = Prompt
  <2>1. 0 \in 0..Len(l) /\ Len(Prompt) + 0 = Len(Prompt)
    BY <1>0
  <2>2. SubSeq(p, 1, Len(Prompt) + 0) = Prompt \o SubSeq(l, 1, 0)
    BY <1>0, <2>1, CutEnd
  <2>3. SubSeq(l, 1, 0) = <<>>
    BY <1>0, SubSeqEmpty
  <2>4. Prompt \o <<>> = Prompt
    BY <1>0, ConcatEmptySeq
  <2> QED
    BY <2>1, <2>2, <2>3, <2>4, Zenon
<1>2. Len(l) \in 0..Len(p) /\ Len(p) - Len(l) = Len(Prompt)
  BY <1>0
<1> HIDE DEF p
<1>3. vga_puts(v, Erase(Len(l))) \in Showing(SubSeq(p, 1, Len(p) - Len(l)))
  BY <1>0, <1>2, Erases, Zenon DEF p
<1>4. vga_puts(v, Erase(Len(l))) \in Showing(Prompt)
  BY <1>1, <1>2, <1>3, Zenon
<1>5. new \in Seq(Glyph) /\ Len(Prompt) + Len(new) < VGA_WIDTH
  BY LineText
<1> QED
  BY <1>0, <1>4, <1>5, Prints

(* Two numbers less than m apart have different remainders. *)
LEMMA Remainders ==
    ASSUME NEW m \in Nat \ {0}, NEW a \in Nat, NEW b \in Nat, a < b, b < a + m
    PROVE  a % m # b % m
<1> SUFFICES ASSUME a % m = b % m  PROVE FALSE
  OBVIOUS
<1> DEFINE p == a \div m
           q == b \div m
<1>1. /\ a = m * p + (a % m) /\ b = m * q + (b % m)
      /\ p \in Int /\ q \in Int /\ a % m \in Nat
  OBVIOUS
<1> HIDE DEF p, q
<1>2. b - a = m * (q - p)
  BY <1>1
<1>3. q - p > 0
  <2> SUFFICES ASSUME q - p <= 0  PROVE FALSE
    BY <1>1
  <2>1. m * (q - p) <= 0
    BY <1>1
  <2> QED
    BY <1>2, <2>1
<1>4. q - p >= 1 /\ q - p \in Int
  BY <1>1, <1>3
<1>5. m * (q - p) >= m
  BY <1>4
<1> QED
  BY <1>2, <1>5
-----------------------------------------------------------------------------
(* The steps.  A step that leaves the history alone needs the line and the screen. *)
LEMMA HistoryKept ==
    ASSUME ShellInv, UNCHANGED <<cmd_history, hist_count, entered>>,
           hist_idx' \in 0..hist_count, input_buf' \in Line,
           screen' \in Showing(Prompt \o input_buf')
    PROVE  ShellInv'
<1>1. /\ cmd_history' \in [Slots -> Line] /\ entered' \in Seq(Line)
      /\ hist_count' = Len(entered') /\ hist_idx' \in 0..hist_count'
  BY DEF ShellInv
<1>2. LastCommandsKept'
  BY DEF ShellInv, LastCommandsKept
<1> QED
  BY <1>1, <1>2 DEF ShellInv, Showing, Tidy, Line, Slots

(* What the invariant says of the line, the screen and the history. *)
LEMMA InvParts ==
    ASSUME ShellInv
    PROVE  /\ input_buf \in Line /\ screen \in Showing(Prompt \o input_buf)
           /\ cmd_history \in [Slots -> Line] /\ entered \in Seq(Line)
           /\ hist_count = Len(entered) /\ hist_count \in Nat /\ hist_idx \in 0..hist_count
           /\ LINE \in Nat /\ MAX_HIST \in Nat \ {0}
  BY ShellAssumption DEF ShellInv

(* A typed character joins the line and the screen alike. *)
LEMMA TypeKeeps ==
    ASSUME ShellInv, NEW c \in Chars, Type(c)
    PROVE  ShellInv'
<1> DEFINE l == input_buf
           p == Prompt \o l
<1>0. /\ Len(l) < LINE /\ input_buf' = Append(l, c) /\ screen' = vga_putc(screen, c)
      /\ UNCHANGED <<cmd_history, hist_count, hist_idx, entered>>
  BY DEF Type, RoomInLine, hist
<1>1. /\ l \in Line /\ screen \in Showing(p) /\ hist_idx \in 0..hist_count /\ LINE \in Nat
  BY InvParts
<1>2. /\ l \in Seq(Chars) /\ l \in Seq(STRING) /\ Len(l) \in Nat
      /\ Prompt \in Seq(STRING) /\ Len(Prompt) \in Nat
      /\ p \in Seq(STRING) /\ Len(p) = Len(Prompt) + Len(l)
  BY <1>1, LineText
<1>3. c \in Glyph /\ c \in STRING /\ Len(Prompt) + LINE < VGA_WIDTH /\ VGA_WIDTH \in Nat
  BY ShellAssumption, VgaAssumption, Zenon DEF Glyph
<1> HIDE DEF l
<1>4. Append(l, c) \in Line
  <2>1. Append(l, c) \in Seq(Chars) /\ Len(Append(l, c)) = Len(l) + 1
    BY <1>2, AppendProperties
  <2>2. Len(l) + 1 <= LINE
    BY <1>0, <1>1, <1>2
  <2> QED
    BY <2>1, <2>2 DEF Line
<1>5. Append(p, c) = Prompt \o Append(l, c)
  <2>1. Append(p, c) = p \o <<c>> /\ Append(l, c) = l \o <<c>> /\ <<c>> \in Seq(STRING)
    <3>1. ASSUME NEW t \in Seq(STRING)  PROVE Append(t, c) = t \o <<c>>
      BY <1>3, AppendIsConcat, Zenon
    <3>2. <<c>> \in Seq(STRING)
      BY <1>3, OneCharacter, Zenon
    <3> HIDE DEF p
    <3> QED
      BY <1>2, <3>1, <3>2, Zenon
  <2>2. (Prompt \o l) \o <<c>> = Prompt \o (l \o <<c>>)
    BY <1>2, <2>1, ConcatAssociative
  <2> QED
    BY <2>1, <2>2
<1>6. Len(p) + 1 < VGA_WIDTH
  BY <1>0, <1>1, <1>2, <1>3
<1> HIDE DEF p
<1>7. screen' \in Showing(Append(p, c))
  BY <1>0, <1>1, <1>2, <1>3, <1>6, ShowsOne, Zenon
<1> QED
  BY <1>0, <1>1, <1>4, <1>5, <1>7, HistoryKept

(* Backspace takes the last character from the line and from the screen. *)
LEMMA BackspaceKeeps ==
    ASSUME ShellInv, Backspace
    PROVE  ShellInv'
<1> DEFINE l == input_buf
           p == Prompt \o l
           m == Len(l) - 1
<1>0. /\ l # <<>> /\ input_buf' = SubSeq(l, 1, m) /\ screen' = vga_puts(screen, Erase(1))
      /\ UNCHANGED <<cmd_history, hist_count, hist_idx, entered>>
  BY DEF Backspace, hist
<1>1. /\ l \in Line /\ screen \in Showing(p) /\ hist_idx \in 0..hist_count /\ LINE \in Nat
  BY InvParts
<1>2. /\ l \in Seq(Chars) /\ l \in Seq(STRING) /\ Len(l) \in Nat /\ Len(l) <= LINE
      /\ Prompt \in Seq(STRING) /\ Len(Prompt) \in Nat
      /\ p \in Seq(STRING) /\ Len(p) = Len(Prompt) + Len(l)
  BY <1>1, LineText
<1>3. Len(l) # 0
  BY <1>0, <1>2, EmptySeq
<1>4. m \in 0..Len(l) /\ 1 \in 0..Len(p) /\ Len(p) - 1 = Len(Prompt) + m /\ m <= LINE
  BY <1>1, <1>2, <1>3
<1> HIDE DEF l, m
<1>5. SubSeq(l, 1, m) \in Line
  <2>1. SubSeq(l, 1, m) \in Seq(Chars) /\ Len(SubSeq(l, 1, m)) = m
    BY <1>2, <1>4, FirstPart
  <2> QED
    BY <1>4, <2>1 DEF Line
<1>6. SubSeq(p, 1, Len(Prompt) + m) = Prompt \o SubSeq(l, 1, m)
  BY <1>2, <1>4, CutEnd, SMTT(30)
<1> HIDE DEF p
<1>7. screen' \in Showing(SubSeq(p, 1, Len(p) - 1))
  BY <1>0, <1>1, <1>2, <1>4, Erases
<1> QED
  BY <1>0, <1>1, <1>4, <1>5, <1>6, <1>7, HistoryKept, Zenon

(* The arrows. *)
LEMMA KeysKeep ==
    ASSUME ShellInv, KeyUp \/ KeyDown
    PROVE  ShellInv'
<1>1. /\ input_buf \in Line /\ screen \in Showing(Prompt \o input_buf)
      /\ cmd_history \in [Slots -> Line] /\ hist_count \in Nat /\ hist_idx \in 0..hist_count
      /\ LINE \in Nat /\ MAX_HIST \in Nat \ {0}
  BY InvParts
<1>2. ASSUME NEW i \in Nat  PROVE cmd_history[i % MAX_HIST] \in Line
  <2>1. i % MAX_HIST \in Slots
    BY <1>1 DEF Slots
  <2> QED
    BY <1>1, <2>1
<1>3. <<>> \in Line
  BY <1>1 DEF Line
<1>4. /\ UNCHANGED <<cmd_history, hist_count, entered>> /\ hist_idx' \in 0..hist_count
      /\ \E line \in Line : Replace(line)
  <2>1. CASE KeyUp
    <3>1. hist_idx' \in 0..hist_count /\ hist_idx' \in Nat
      BY <1>1, <2>1 DEF KeyUp
    <3> QED
      BY <1>2, <2>1, <3>1, Zenon DEF KeyUp
  <2>2. CASE KeyDown
    <3>1. hist_idx' \in 0..hist_count /\ hist_idx' \in Nat
      BY <1>1, <2>2 DEF KeyDown
    <3>2. (IF hist_idx' < hist_count THEN cmd_history[hist_idx' % MAX_HIST] ELSE <<>>) \in Line
      BY <1>2, <1>3, <3>1
    <3> QED
      BY <2>2, <3>1, <3>2, Zenon DEF KeyDown
  <2> QED
    BY <2>1, <2>2
<1>5. PICK line \in Line : Replace(line)
  BY <1>4
<1>6. input_buf' = line /\ screen' \in Showing(Prompt \o line)
  BY <1>1, <1>5, Replaces DEF Replace
<1> QED
  BY <1>4, <1>6, HistoryKept

(* Tab. *)
LEMMA TabKeeps ==
    ASSUME ShellInv, Tab
    PROVE  ShellInv'
<1> DEFINE l == input_buf
           p == Prompt \o l
<1>1. /\ l \in Line /\ screen \in Showing(p) /\ hist_idx \in 0..hist_count /\ LINE \in Nat
  BY InvParts
<1>2. /\ l \in Seq(Chars) /\ l \in Seq(STRING) /\ Len(l) \in 0..LINE
      /\ Prompt \in Seq(STRING) /\ Len(Prompt) \in Nat
      /\ p \in Seq(STRING) /\ Len(p) = Len(Prompt) + Len(l)
  BY <1>1, LineText
<1>3. PICK w \in Matches :
          input_buf' = l \o Cut(Completion(w)) /\ screen' = vga_puts(screen, Cut(Completion(w)))
  BY DEF Tab
<1>4. UNCHANGED <<cmd_history, hist_count, hist_idx, entered>>
  BY DEF Tab, hist
<1> DEFINE done == Completion(w)
           cut == Cut(done)
<1>5. done \in Seq(Chars)
  <2>1. w \in Seq(Chars) /\ Space \in Chars
    BY ShellAssumption DEF Matches
  <2>2. Typed \in Seq(Chars)
    <3>1. CASE ~InArgument
      BY <1>2, <3>1 DEF Typed
    <3>2. CASE InArgument
      <4>1. FirstSpace \in DOMAIN l
        <5>1. PICK i \in DOMAIN l : l[i] = Space
          BY <3>2 DEF InArgument
        <5> DEFINE S == {k \in DOMAIN l : l[k] = Space}
        <5>2. S \in SUBSET Nat /\ i \in S
          BY <1>2, <5>1
        <5>3. PICK k \in S : \A m \in S : k <= m
          <6> HIDE DEF S
          <6> QED
            BY <5>2, Least
        <5>4. k \in DOMAIN l /\ l[k] = Space /\ \A m \in 1..k-1 : l[m] # Space
          <6>1. k \in 1..Len(l) /\ DOMAIN l = 1..Len(l)
            BY <1>2
          <6>2. ASSUME NEW m \in 1..k-1, l[m] = Space  PROVE FALSE
            <7>1. m \in S /\ ~(k <= m)
              BY <1>2, <6>1, <6>2
            <7> QED
              BY <5>3, <7>1
          <6> QED
            BY <6>1, <6>2
        <5> QED
          BY <5>4 DEF FirstSpace
      <4>2. FirstSpace + 1 \in Nat \ {0}
        BY <1>2, <4>1
      <4>3. \A i \in FirstSpace + 1 .. Len(l) : l[i] \in Chars
        <5> SUFFICES ASSUME NEW i \in FirstSpace + 1 .. Len(l)  PROVE l[i] \in Chars
          OBVIOUS
        <5>1. i \in 1..Len(l)
          BY <1>2, <4>2
        <5> QED
          BY <1>2, <5>1, ElementOfSeq
      <4>4. SubSeq(l, FirstSpace + 1, Len(l)) \in Seq(Chars)
        BY <1>2, <4>2, <4>3, SubSeqProperties
      <4> QED
        BY <3>2, <4>4 DEF Typed
    <3> QED
      BY <3>1, <3>2
  <2>3. Len(Typed) \in Nat /\ Len(w) \in Nat
    BY <2>1, <2>2
  <2>4. SubSeq(w, Len(Typed) + 1, Len(w)) \in Seq(Chars)
    <3>1. \A i \in Len(Typed) + 1 .. Len(w) : w[i] \in Chars
      <4> SUFFICES ASSUME NEW i \in Len(Typed) + 1 .. Len(w)  PROVE w[i] \in Chars
        OBVIOUS
      <4>1. i \in 1..Len(w)
        BY <2>3
      <4> QED
        BY <2>1, <4>1, ElementOfSeq
    <3> QED
      BY <2>3, <3>1, SubSeqProperties
  <2>5. (IF InArgument THEN <<>> ELSE <<Space>>) \in Seq(Chars)
    BY <2>1
  <2> QED
    BY <2>4, <2>5, ConcatProperties DEF Completion
<1> HIDE DEF done
<1>6. cut \in Seq(Chars) /\ Len(cut) \in Nat /\ Len(cut) <= LINE - Len(l)
  <2>0. Len(done) \in Nat /\ LINE - Len(l) \in Nat
    BY <1>1, <1>2, <1>5
  <2>1. CASE Len(done) <= LINE - Len(l)
    <3>1. cut = done
      BY <2>1 DEF Cut
    <3> QED
      BY <1>5, <2>0, <2>1, <3>1
  <2>2. CASE ~(Len(done) <= LINE - Len(l))
    <3> DEFINE room == LINE - Len(l)
    <3>1. cut = SubSeq(done, 1, room)
      BY <2>2, Zenon DEF Cut
    <3>2. room \in 0..Len(done) /\ room \in Nat
      BY <2>0, <2>2
    <3> HIDE DEF room, cut
    <3>3. cut \in Seq(Chars) /\ Len(cut) = room
      BY <1>5, <3>1, <3>2, FirstPart
    <3> QED
      BY <3>2, <3>3 DEF room
  <2> QED
    BY <2>1, <2>2
<1> HIDE DEF cut
<1>7. l \o cut \in Seq(Chars) /\ Len(l \o cut) = Len(l) + Len(cut)
  BY <1>2, <1>6, ConcatProperties
<1>8. l \o cut \in Line
  <2>1. Len(l \o cut) <= LINE
    BY <1>1, <1>2, <1>6, <1>7
  <2> QED
    BY <1>7, <2>1 DEF Line
<1>9. cut \in Line
  <2>1. Len(cut) <= LINE
    BY <1>1, <1>2, <1>6
  <2> QED
    BY <1>6, <2>1 DEF Line
<1>10. Len(p) + Len(cut) < VGA_WIDTH
  <2>1. Len(Prompt) + LINE < VGA_WIDTH /\ VGA_WIDTH \in Nat
    BY ShellAssumption, VgaAssumption
  <2> QED
    BY <1>1, <1>2, <1>6, <2>1
<1>11. cut \in Seq(Glyph) /\ cut \in Seq(STRING)
  BY <1>9, LineText
<1>12. p \o cut = Prompt \o (l \o cut)
  BY <1>2, <1>11, ConcatAssociative, SMTT(30)
<1> HIDE DEF p, l
<1>13. screen' \in Showing(p \o cut)
  BY <1>1, <1>2, <1>3, <1>10, <1>11, Prints, Zenon DEF cut, done
<1> QED
  BY <1>1, <1>3, <1>4, <1>8, <1>12, <1>13, HistoryKept DEF cut, done

(* Enter on an empty line. *)
LEMMA EmptyKeeps ==
    ASSUME ShellInv, EnterEmpty
    PROVE  ShellInv'
<1>1. /\ input_buf \in Line /\ screen \in Tidy /\ hist_idx \in 0..hist_count
  BY InvParts DEF Showing
<1>2. /\ input_buf = <<>> /\ input_buf' = <<>>
      /\ screen' = vga_puts(screen, <<Newline>> \o Prompt)
      /\ UNCHANGED <<cmd_history, hist_count, hist_idx, entered>>
  BY DEF EnterEmpty, hist
<1>3. Prompt \in Seq(STRING) /\ Prompt \o <<>> = Prompt
  BY <1>1, LineText, ConcatEmptySeq
<1>4. screen' \in Showing(Prompt)
  <2>1. <<>> \o <<Newline>> = <<Newline>> /\ <<>> \in Seq(STRING)
    OBVIOUS
  <2>2. vga_puts(screen, <<>> \o <<Newline>> \o Prompt) \in Showing(Prompt)
    BY <1>1, <2>1, PromptAfter, Zenon
  <2> QED
    BY <1>2, <2>1, <2>2
<1> QED
  BY <1>1, <1>2, <1>3, <1>4, HistoryKept

(* The prompt on a cleared screen. *)
LEMMA ClearedShows == vga_puts(Cleared, Prompt) \in Showing(Prompt)
<1>0. /\ VGA_WIDTH \in Nat \ {0} /\ VGA_HEIGHT \in Nat \ {0} /\ LINE \in Nat
      /\ Prompt \in Seq(Glyph) /\ Len(Prompt) + LINE < VGA_WIDTH
  BY VgaAssumption, ShellAssumption
<1>1. /\ BlankRow \in [Columns -> STRING] /\ \A i \in Columns : BlankRow[i] = Blank
  BY VgaAssumption, Zenon DEF BlankRow, Glyph
<1>2. /\ Cleared.x = 0 /\ Cleared.y = 0 /\ Cleared \in Screen
      /\ \A y \in Rows : Cleared.cells[y] = BlankRow
  BY <1>0, <1>1 DEF Cleared, Screen, Columns, Rows
<1>3. 0 \in Rows
  BY <1>0 DEF Rows
<1>4. Cleared \in Tidy
  BY <1>1, <1>2, <1>3 DEF Tidy
<1>5. BlankRow = RowOf(<<>>)
  <2>1. \A i \in Columns : ~(i < Len(<<>>))
    BY <1>0 DEF Columns
  <2> QED
    BY <2>1 DEF BlankRow, RowOf
<1>6. Cleared \in Showing(<<>>)
  BY <1>2, <1>3, <1>4, <1>5 DEF Showing
<1>7. <<>> \in Seq(STRING) /\ Len(<<>>) + Len(Prompt) < VGA_WIDTH
  BY <1>0
<1>8. vga_puts(Cleared, Prompt) \in Showing(<<>> \o Prompt)
  BY <1>0, <1>6, <1>7, Prints, Zenon
<1>9. <<>> \o Prompt = Prompt
  BY <1>0, ConcatEmptySeq, SMTT(30)
<1> QED
  BY <1>8, <1>9

(* Enter on a command. *)
LEMMA EnterKeeps ==
    ASSUME ShellInv, NEW out \in Outputs, Enter(out)
    PROVE  ShellInv'
<1> DEFINE l == input_buf
           n == hist_count
<1>1. /\ l \in Line /\ screen \in Tidy /\ LINE \in Nat /\ MAX_HIST \in Nat \ {0}
      /\ cmd_history \in [Slots -> Line] /\ entered \in Seq(Line)
      /\ n = Len(entered) /\ n \in Nat
  BY InvParts DEF Showing
<1>2. /\ cmd_history' = [cmd_history EXCEPT ![n % MAX_HIST] = l]
      /\ hist_count' = n + 1 /\ hist_idx' = n + 1 /\ entered' = Append(entered, l)
      /\ input_buf' = <<>>
  BY DEF Enter, NextSlot
<1>3. Prompt \in Seq(STRING) /\ Prompt \o <<>> = Prompt
  BY <1>1, LineText, ConcatEmptySeq
<1>4. screen' \in Showing(Prompt)
  <2>1. <<Newline, Newline>> \o out \in Seq(STRING)
    <3>1. out \in Seq(STRING) /\ Newline \in STRING
      BY ShellAssumption, VgaAssumption, Zenon
    <3>2. ASSUME NEW S, NEW c \in S  PROVE <<c, c>> \in Seq(S)
      OBVIOUS
    <3>3. <<Newline, Newline>> \in Seq(STRING)
      BY <3>1, <3>2, Zenon
    <3> QED
      BY <3>1, <3>3, ConcatProperties, Zenon
  <2>2. vga_puts(screen, <<Newline, Newline>> \o out \o <<Newline>> \o Prompt)
          \in Showing(Prompt)
    BY <1>1, <2>1, PromptAfter, Zenon
  <2> QED
    BY <2>2, ClearedShows DEF Enter
<1>5. n % MAX_HIST \in Slots
  BY <1>1 DEF Slots
<1>6. cmd_history' \in [Slots -> Line]
  BY <1>1, <1>2, <1>5
<1>7. /\ entered' \in Seq(Line) /\ Len(entered') = n + 1 /\ entered'[n + 1] = l
      /\ \A i \in 1..n : entered'[i] = entered[i]
  <2> HIDE DEF l
  <2>1. /\ Append(entered, l) \in Seq(Line) /\ Len(Append(entered, l)) = Len(entered) + 1
        /\ Append(entered, l)[Len(entered) + 1] = l
    BY <1>1, AppendProperties
  <2>2. ASSUME NEW i \in 1..Len(entered)  PROVE Append(entered, l)[i] = entered[i]
    BY <1>1, AppendProperties
  <2> QED
    BY <1>1, <1>2, <2>1, <2>2
<1>8. LastCommandsKept'
  <2>1. ASSUME NEW i \in 1..n+1, i > n + 1 - MAX_HIST
        PROVE  cmd_history'[(i - 1) % MAX_HIST] = entered'[i]
    <3>1. CASE i = n + 1
      BY <1>1, <1>2, <1>5, <1>7, <3>1
    <3>2. CASE i # n + 1
      <4>1. /\ i \in 1..n /\ i > n - MAX_HIST /\ i - 1 \in Nat /\ i - 1 < n
            /\ n < (i - 1) + MAX_HIST
        BY <1>1, <2>1, <3>2
      <4>2. (i - 1) % MAX_HIST # n % MAX_HIST
        BY <1>1, <4>1, Remainders, Zenon
      <4>3. (i - 1) % MAX_HIST \in Slots
        BY <1>1, <4>1 DEF Slots
      <4>4. cmd_history'[(i - 1) % MAX_HIST] = cmd_history[(i - 1) % MAX_HIST]
        BY <1>1, <1>2, <4>2, <4>3
      <4>5. cmd_history[(i - 1) % MAX_HIST] = entered[i]
        BY <4>1 DEF ShellInv, LastCommandsKept
      <4> QED
        BY <1>7, <4>1, <4>4, <4>5
    <3> QED
      BY <3>1, <3>2
  <2>2. \A i \in 1..hist_count' :
            i > hist_count' - MAX_HIST => cmd_history'[(i - 1) % MAX_HIST] = entered'[i]
    <3> SUFFICES ASSUME NEW i \in 1..hist_count', i > hist_count' - MAX_HIST
                 PROVE  cmd_history'[(i - 1) % MAX_HIST] = entered'[i]
      OBVIOUS
    <3>1. hist_count' = n + 1
      BY <1>2
    <3>2. i \in 1..n+1 /\ i > n + 1 - MAX_HIST
      BY <1>1, <3>1
    <3> QED
      BY <2>1, <3>2
  <2> QED
    BY <2>2, Zenon DEF LastCommandsKept
<1>9. <<>> \in Line /\ hist_idx' \in 0..hist_count'
  BY <1>1, <1>2 DEF Line
<1>10. input_buf' \in Line /\ screen' \in Showing(Prompt \o input_buf')
  BY <1>2, <1>3, <1>4, <1>9
<1> QED
  BY <1>2, <1>6, <1>7, <1>8, <1>9, <1>10 DEF ShellInv, Showing, Tidy, Line, Slots

(* The invariant, from the first prompt on. *)
THEOREM Invariance == Spec => []ShellInv
<1>1. Init => ShellInv
  <2> SUFFICES ASSUME Init  PROVE ShellInv
    OBVIOUS
  <2>0. LINE \in Nat /\ Prompt \in Seq(Glyph)
    BY ShellAssumption
  <2>1. /\ input_buf = <<>> /\ cmd_history = [i \in Slots |-> <<>>] /\ hist_count = 0
        /\ hist_idx = 0 /\ screen = vga_puts(Cleared, Prompt) /\ entered = <<>>
    BY DEF Init
  <2>2. <<>> \in Line
    BY <2>0 DEF Line
  <2>3. Prompt \o <<>> = Prompt
    BY <2>0, ConcatEmptySeq
  <2>4. screen \in Showing(Prompt \o input_buf)
    BY <2>1, <2>3, ClearedShows
  <2>5. LastCommandsKept
    BY <2>1 DEF LastCommandsKept
  <2>6. /\ input_buf \in Line /\ cmd_history \in [Slots -> Line]
        /\ entered \in Seq(Line) /\ hist_count = Len(entered) /\ hist_idx \in 0..hist_count
    BY <2>1, <2>2
  <2> QED
    BY <2>4, <2>5, <2>6 DEF ShellInv
<1>2. ASSUME ShellInv, [Next]_vars
      PROVE  ShellInv'
  <2>1. CASE UNCHANGED vars
    <3>1. UNCHANGED <<cmd_history, hist_count, entered>> /\ hist_idx' = hist_idx
          /\ input_buf' = input_buf /\ screen' = screen
      BY <2>1 DEF vars
    <3>2. hist_idx' \in 0..hist_count /\ input_buf' \in Line
          /\ screen' \in Showing(Prompt \o input_buf')
      BY <1>2, <3>1, InvParts
    <3> QED
      BY <1>2, <3>1, <3>2, HistoryKept
  <2> QED
    BY <1>2, <2>1, TypeKeeps, BackspaceKeeps, KeysKeep, TabKeeps, EmptyKeeps, EnterKeeps
       DEF Next
<1> QED
  BY <1>1, <1>2, PTL DEF Spec

(* The line and the history keep their bounds, and the cursor stays on the screen. *)
THEOREM TypeCorrect == Spec => []TypeOK
<1>1. ASSUME ShellInv  PROVE TypeOK
  <2>1. screen.x \in Columns /\ screen.y \in Rows
    BY <1>1, InvParts, ScreenFields DEF Showing
  <2>2. input_buf \in Seq(Chars) /\ Len(input_buf) <= LINE
    BY <1>1 DEF ShellInv, Line
  <2>3. cmd_history \in [Slots -> Seq(Chars)]
    BY <1>1 DEF ShellInv, Line
  <2> QED
    BY <1>1, <2>1, <2>2, <2>3 DEF ShellInv, TypeOK
<1> QED
  BY <1>1, Invariance, PTL

(* What the user sees is what Enter will run. *)
THEOREM EchoMatchesHolds == Spec => []EchoMatches
<1>1. ShellInv => EchoMatches
  BY DEF ShellInv, Showing, EchoMatches
<1> QED
  BY <1>1, Invariance, PTL

(* The history keeps the last MAX_HIST commands, however many are entered. *)
THEOREM LastCommandsKeptHolds == Spec => []LastCommandsKept
<1>1. ShellInv => LastCommandsKept
  BY DEF ShellInv
<1> QED
  BY <1>1, Invariance, PTL
=============================================================================
