-------------------------------- MODULE Shell --------------------------------
(***************************************************************************)
(* The line editor and the command history of the shell                    *)
(* (user_shell_process of src/kernel/main.c) on the console of Vga.        *)
(*                                                                         *)
(* One action per kind of key that sys_read returns.  The commands stand   *)
(* for what they print; what they do to files is the module Vfs.           *)
(***************************************************************************)
EXTENDS Vga

CONSTANTS
    LINE,         \* characters a line may have (63)
    MAX_HIST,     \* history slots (10)
    Prompt,       \* what print_shell_prompt prints
    Chars,        \* characters one can type
    Space,        \* the one that ends the command word
    Commands,     \* the words Tab completes
    Files,        \* the file names it completes
    Clear,        \* the command that clears the screen
    Outputs,      \* what commands print
    MaxEntered    \* bound: commands entered

ASSUME ShellAssumption ==
    /\ LINE \in Nat \ {0} /\ MAX_HIST \in Nat \ {0} /\ MaxEntered \in Nat
    /\ Chars \subseteq Glyph /\ Space \in Chars
    /\ Commands \subseteq Seq(Chars) /\ Files \subseteq Seq(Chars)
    /\ \A w \in Commands : Len(w) <= LINE
    /\ Outputs \subseteq Seq(STRING)
    /\ Prompt \in Seq(Glyph) /\ Len(Prompt) + LINE < VGA_WIDTH

VARIABLES
    input_buf,    \* the characters before buf_idx
    cmd_history, hist_count, hist_idx,
    screen,
    entered       \* history: the commands entered

vars == <<input_buf, cmd_history, hist_count, hist_idx, screen, entered>>
hist == <<cmd_history, hist_count, hist_idx, entered>>

Slots == 0..MAX_HIST-1

TypeOK ==
    /\ input_buf \in Seq(Chars) /\ Len(input_buf) <= LINE
    /\ cmd_history \in [Slots -> Seq(Chars)]
    /\ hist_count = Len(entered)
    /\ hist_idx \in 0..hist_count
    /\ screen.x \in Columns /\ screen.y \in Rows

Init ==
    /\ input_buf = <<>>
    /\ cmd_history = [i \in Slots |-> <<>>]
    /\ hist_count = 0
    /\ hist_idx = 0
    /\ screen = vga_puts(Cleared, Prompt)
    /\ entered = <<>>

(* An ordinary character; a full line ignores it. *)
MutLineLonger == Len(input_buf) < LINE + 1
RoomInLine == Len(input_buf) < LINE

Type(c) ==
    /\ RoomInLine
    /\ input_buf' = Append(input_buf, c)
    /\ screen' = vga_putc(screen, c)
    /\ UNCHANGED hist

(* Erasing n characters on the screen. *)
MutEraseOnce(n) == [i \in 1..2 * n |-> IF i % 2 = 1 THEN BackKey ELSE Blank]
Erase(n) == [i \in 1..3 * n |-> IF i % 3 = 2 THEN Blank ELSE BackKey]

Backspace ==
    /\ input_buf # <<>>
    /\ input_buf' = SubSeq(input_buf, 1, Len(input_buf) - 1)
    /\ screen' = vga_puts(screen, Erase(1))
    /\ UNCHANGED hist

(* The line on the screen and in the buffer is replaced by another. *)
Replace(line) ==
    /\ input_buf' = line
    /\ screen' = vga_puts(vga_puts(screen, Erase(Len(input_buf))), line)

KeyUp ==
    /\ hist_count > 0 /\ hist_idx > 0
    /\ hist_idx' = hist_idx - 1
    /\ Replace(cmd_history[hist_idx' % MAX_HIST])
    /\ UNCHANGED <<cmd_history, hist_count, entered>>

KeyDown ==
    /\ hist_idx < hist_count
    /\ hist_idx' = hist_idx + 1
    /\ Replace(IF hist_idx' < hist_count THEN cmd_history[hist_idx' % MAX_HIST] ELSE <<>>)
    /\ UNCHANGED <<cmd_history, hist_count, entered>>

(* The words that begin with what has been typed, the first word for a command and
   the rest of the line after the first space for a file. *)
FirstSpace == CHOOSE i \in DOMAIN input_buf :
                  input_buf[i] = Space /\ \A j \in 1..i-1 : input_buf[j] # Space
InArgument == \E i \in DOMAIN input_buf : input_buf[i] = Space
Typed == IF InArgument THEN SubSeq(input_buf, FirstSpace + 1, Len(input_buf)) ELSE input_buf
Begins(w, s) == Len(s) <= Len(w) /\ \A k \in 1..Len(s) : s[k] = w[k]
Matches == {w \in (IF InArgument THEN Files ELSE Commands) : Begins(w, Typed)}

(* Tab completes a word when one matches; a command gets a space after it.  What does
   not fit in the line is cut. *)
Completion(w) == SubSeq(w, Len(Typed) + 1, Len(w)) \o (IF InArgument THEN <<>> ELSE <<Space>>)
Cut(s) ==
    LET room == LINE - Len(input_buf)
    IN  IF Len(s) <= room THEN s ELSE SubSeq(s, 1, room)

Tab ==
    /\ input_buf # <<>>
    /\ \E w \in Matches :
        /\ Matches = {w}
        /\ input_buf' = input_buf \o Cut(Completion(w))
        /\ screen' = vga_puts(screen, Cut(Completion(w)))
    /\ UNCHANGED hist

(* Enter on an empty line prints a new prompt. *)
EnterEmpty ==
    /\ input_buf = <<>>
    /\ screen' = vga_puts(screen, <<Newline>> \o Prompt)
    /\ UNCHANGED <<input_buf, hist>>

(* Enter on a command saves it in the history and runs it. *)
MutSlotFixed == IF hist_count < MAX_HIST THEN hist_count ELSE MAX_HIST - 1
NextSlot == hist_count % MAX_HIST

Enter(out) ==
    /\ input_buf # <<>>
    /\ Len(entered) < MaxEntered
    /\ cmd_history' = [cmd_history EXCEPT ![NextSlot] = input_buf]
    /\ hist_count' = hist_count + 1
    /\ hist_idx' = hist_count'
    /\ entered' = Append(entered, input_buf)
    /\ input_buf' = <<>>
    /\ screen' = IF Begins(input_buf, Clear) THEN vga_puts(Cleared, Prompt)
                 ELSE vga_puts(screen, <<Newline, Newline>> \o out \o <<Newline>> \o Prompt)

Next ==
    \/ \E c \in Chars : Type(c)
    \/ Backspace \/ KeyUp \/ KeyDown \/ Tab \/ EnterEmpty
    \/ \E out \in Outputs : Enter(out)

Spec == Init /\ [][Next]_vars
-----------------------------------------------------------------------------
(* A row that shows a text and nothing else. *)
RowOf(shown) == [x \in Columns |-> IF x < Len(shown) THEN shown[x + 1] ELSE Blank]

(* What the user sees is what Enter will run: the cursor's row holds the prompt and
   the line and nothing else, after any mix of typing, erasing, completing, browsing
   and scrolling.  It needs the prompt and a full line to fit in one row, since a
   backspace does not go up a row. *)
EchoMatches ==
    LET shown == Prompt \o input_buf
    IN  screen.x = Len(shown) /\ screen.cells[screen.y] = RowOf(shown)

(* The history keeps the last MAX_HIST commands in the order they were entered. *)
LastCommandsKept ==
    \A i \in 1..hist_count :
        i > hist_count - MAX_HIST => cmd_history[(i - 1) % MAX_HIST] = entered[i]

(* "Last 10 commands with navigation": the arrows move among the last MAX_HIST
   commands. *)
NavigationInLast == hist_count - hist_idx <= MAX_HIST

(* What makes them inductive: nothing is left on the screen from the cursor on, and
   the history holds lines that fit. *)
Tidy ==
    {v \in Screen : /\ \A x \in Columns : x >= v.x => v.cells[v.y][x] = Blank
                    /\ \A y \in Rows : y > v.y => v.cells[y] = BlankRow}
Showing(shown) == {v \in Tidy : v.x = Len(shown) /\ v.cells[v.y] = RowOf(shown)}

Line == {l \in Seq(Chars) : Len(l) <= LINE}

ShellInv ==
    /\ input_buf \in Line
    /\ cmd_history \in [Slots -> Line]
    /\ entered \in Seq(Line) /\ hist_count = Len(entered) /\ hist_idx \in 0..hist_count
    /\ screen \in Showing(Prompt \o input_buf)
    /\ LastCommandsKept
=============================================================================
