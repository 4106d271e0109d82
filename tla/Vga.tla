--------------------------------- MODULE Vga ---------------------------------
(***************************************************************************)
(* The text console of src/drivers/vga.c: a screen of cells and a cursor,  *)
(* as a value that each character put on it changes.                       *)
(***************************************************************************)
EXTENDS Integers, Sequences

CONSTANTS VGA_WIDTH, VGA_HEIGHT

Blank == "blank"
Newline == "newline"
BackKey == "backspace"
(* The characters that are shown as they are. *)
Glyph == STRING \ {Newline, BackKey}

ASSUME VgaAssumption ==
    /\ VGA_WIDTH \in Nat \ {0} /\ VGA_HEIGHT \in Nat \ {0}
    /\ Blank \in Glyph /\ Newline \in STRING /\ BackKey \in STRING

Columns == 0..VGA_WIDTH-1
Rows == 0..VGA_HEIGHT-1
BlankRow == [x \in Columns |-> Blank]

Screen == [x : Columns, y : Rows, cells : [Rows -> [Columns -> STRING]]]

(* vga_init and vga_clear. *)
Cleared == [x |-> 0, y |-> 0, cells |-> [y \in Rows |-> BlankRow]]

(* vga_scroll: everything moves up one row when the cursor has left the last one. *)
Scrolled(v) ==
    IF v.y < VGA_HEIGHT THEN v
    ELSE [v EXCEPT !.y = VGA_HEIGHT - 1,
                   !.cells = [y \in Rows |-> IF y + 1 \in Rows THEN v.cells[y + 1]
                                             ELSE BlankRow]]

(* vga_putc.  A backspace at the start of a row does nothing. *)
Newlined(v) == [v EXCEPT !.x = 0, !.y = @ + 1]
Back(v) == IF v.x = 0 THEN v
           ELSE [v EXCEPT !.x = @ - 1, !.cells[v.y][v.x - 1] = Blank]
Written(v, c) == [v EXCEPT !.x = @ + 1, !.cells[v.y][v.x] = c]
Wrapped(v) == IF v.x < VGA_WIDTH THEN v ELSE Newlined(v)

vga_putc(v, c) ==
    Scrolled(Wrapped(CASE c = Newline -> Newlined(v)
                       [] c = BackKey -> Back(v)
                       [] OTHER -> Written(v, c)))

vga_puts(v, s) ==
    LET after[n \in 0..Len(s)] == IF n = 0 THEN v ELSE vga_putc(after[n - 1], s[n])
    IN  after[Len(s)]
=============================================================================
