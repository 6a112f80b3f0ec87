------------------------------- MODULE Renderer -------------------------------
(***************************************************************************)
(* The text on the screen: kernel/src/BasicRenderer.cpp as the shell and   *)
(* the mouse use it.                                                       *)
(*                                                                         *)
(* The screen is a grid of characters, Width / 8 by Height / 16, where     *)
(* Width is a multiple of 8.  A character only adds pixels to its cell, so *)
(* a cell is the set of what has been drawn in it since it was last        *)
(* cleared.  The text's pointer (Bar) is drawn over a cell's left edge.    *)
(* The mouse's (Arrow) is drawn at any pixel, over parts of several cells. *)
(*                                                                         *)
(* Clearing fills a cell with ClearColour, which nothing ever sets: such a *)
(* cell is not like one that was never drawn in (Cleared).  The model says *)
(* nothing of the colours: if ClearColour happens to be that of the text,  *)
(* what is typed in a cleared cell cannot be read.                         *)
(*                                                                         *)
(* showPointer keeps the background 80 to 49 bytes below pointerBackground *)
(* (its first index is -5 or -4), in memory of others; here nobody changes *)
(* it before hidePointer reads it, which is always called next.  The code  *)
(* goes on past the last row, and past the framebuffer; the model ends     *)
(* there.                                                                  *)
(***************************************************************************)
EXTENDS Integers, Sequences

CONSTANTS
    Columns, Rows,
    Chars,
    PromptLength,   \* cells of the prompt
    Output,         \* numbers of lines a command may print
    Positions,      \* the mouse's pointer, in pixels
    MaxLine,        \* bound on the characters of a line
    MaxMoves        \* bound on the times the arrow is drawn

\* What is drawn in a cell besides Chars.
Bar     == "bar"
Arrow   == "arrow"
Letter  == "letter"     \* of a prompt or of a command's output
Cleared == "cleared"    \* ClearColour, all over the cell
Trace   == "trace"      \* of a bar, on ClearColour
Cut     == "cut"        \* a character whose left edge is gone
Smear   == "smear"      \* pieces of what was there when the arrow came
Marks   == {Bar, Arrow, Letter, Cleared, Trace, Cut, Smear}

Origin == [X |-> 0, Y |-> 0]

ASSUME RendererAssumption ==
    /\ Columns \in Nat \ {0, 1} /\ Rows \in Nat \ {0, 1}
    /\ PromptLength \in 0 .. Columns - 1 /\ Output \subseteq Nat
    /\ MaxLine \in Nat /\ MaxMoves \in Nat /\ Chars \cap Marks = {}
    /\ Positions \subseteq [X : 0 .. 8 * Columns - 8, Y : 0 .. 16 * Rows - 1]
    /\ Origin \in Positions

Cells == (0 .. Columns - 1) \X (0 .. Rows - 1)

\* The pixels of the arrow, 16 by 16 with the corner on the lower right empty.
CursorBitmap ==
    {b \in (0 .. 15) \X (0 .. 15) :
        b[1] < 16 - b[2] \/ (b[2] >= 8 /\ b[1] \in b[2] - 1 .. b[2] + 1)}

\* Position -> the cells in which the arrow has pixels, up to three by two.
Covered ==
    [p \in Positions |->
        {<<(p.X + b[1]) \div 8, (p.Y + b[2]) \div 16>> : b \in CursorBitmap} \cap Cells]

VARIABLES
    screen,                 \* cell -> what is drawn in it
    CursorPosition,         \* of the text: <<X, Y>> in cells
    lastCursorPosition,     \* of the arrow, where the mouse is; the origin at first
    lastCursorBackground,   \* cell -> what DrawCursor found there
    \* History, for the property.
    line,                   \* the characters typed and not taken back
    start,                  \* the first one's cell
    moves                   \* how often the arrow has been drawn

vars == <<screen, CursorPosition, lastCursorPosition, lastCursorBackground,
          line, start, moves>>

Position(cell) == cell[2] * Columns + cell[1]
Cell(position) == <<position % Columns, position \div Columns>>

\* The next cell, in the next row after the last column.
Advance(cell) == Cell(Position(cell) + 1)

\* Mutant: the row stays the same before the first column.
BackInRow(cell) == IF cell[1] = 0 THEN <<Columns - 1, cell[2]>> ELSE <<cell[1] - 1, cell[2]>>

\* The cell that ClearChar clears: Width - 8 of the row above, or of the first one.
Back(cell) ==
    IF cell[1] # 0 THEN <<cell[1] - 1, cell[2]>>
    ELSE <<Columns - 1, IF cell[2] = 0 THEN 0 ELSE cell[2] - 1>>

showPointer(drawn, cell) == [drawn EXCEPT ![cell] = @ \cup {Bar}]

\* The background is kept in chars: yellow, red, green and black come back as
\* black, so that a bar that was there before showPointer goes as well, a
\* character is cut, and ClearColour comes back as another colour.
Uncovered(marks) ==
    {IF m \in Chars \cup {Letter} THEN Cut ELSE m : m \in marks \ {Bar}}
        \cup IF Cleared \in marks THEN {Trace} ELSE {}

hidePointer(drawn, cell) == [drawn EXCEPT ![cell] = Uncovered(@)]

Blink(drawn, cell) == hidePointer(showPointer(drawn, cell), cell)

\* Next: the pointer blinks at the start of every row up to the last one.
NextRows(drawn, cell, last) ==
    [c \in Cells |-> IF c = cell \/ (c[1] = 0 /\ c[2] \in cell[2] + 1 .. last)
                     THEN Blink(drawn, c)[c] ELSE drawn[c]]

PrintText(drawn, cell, length) ==
    [c \in Cells |-> IF Position(c) \in Position(cell) .. Position(cell) + length - 1
                     THEN drawn[c] \cup {Letter} ELSE drawn[c]]

\* shellInitialize, with the cursor in a row: the prompt comes in the next one.
NewPrompt(drawn, row) ==
    LET first == <<0, row + 1>>
        after == <<PromptLength, row + 1>>
    IN  /\ row + 1 < Rows
        /\ screen' = showPointer(PrintText(Blink(drawn, first), first, PromptLength), after)
        /\ CursorPosition' = after
        /\ line' = <<>> /\ start' = after

\* DelteCursor: the arrow's pixels get back what was there before it, the others
\* of its cells stay as they are.  What has changed since is mixed up.
Deleted(drawn) ==
    [c \in Cells |->
        IF c \notin DOMAIN lastCursorBackground THEN drawn[c]
        ELSE IF drawn[c] \ {Arrow} = lastCursorBackground[c] THEN lastCursorBackground[c]
        ELSE (drawn[c] \ {Arrow}) \cup lastCursorBackground[c] \cup {Smear}]

\* DrawCursor, on a screen without the arrow.
WithArrow(drawn, p) ==
    [c \in Cells |-> IF c \in Covered[p] THEN drawn[c] \cup {Arrow} ELSE drawn[c]]

DrawCursor(drawn, p) ==
    /\ moves < MaxMoves /\ moves' = moves + 1
    /\ lastCursorBackground' = [c \in Covered[p] |-> drawn[c]]
    /\ lastCursorPosition' = p

Empty == [cell \in Cells |-> {}]

Init ==
    /\ screen = showPointer(PrintText(Empty, <<0, 0>>, PromptLength), <<PromptLength, 0>>)
    /\ CursorPosition = <<PromptLength, 0>>
    /\ lastCursorPosition = Origin /\ lastCursorBackground = <<>>
    /\ line = <<>> /\ start = <<PromptLength, 0>>
    /\ moves = 0

-----------------------------------------------------------------------------

PutChar(char) ==
    /\ Advance(CursorPosition) \in Cells /\ Len(line) < MaxLine
    /\ LET drawn == [Blink(screen, CursorPosition) EXCEPT ![CursorPosition] = @ \cup {char}]
       IN  screen' = Blink(drawn, Advance(CursorPosition))
    /\ CursorPosition' = Advance(CursorPosition)
    /\ line' = Append(line, char)
    /\ UNCHANGED <<lastCursorPosition, lastCursorBackground, start, moves>>

\* The shell calls it when the line has a character left.
ClearChar ==
    /\ line # <<>>
    /\ LET erased  == Back(CursorPosition)
           cleared == [Blink(screen, CursorPosition) EXCEPT ![erased] = {Cleared}]
       IN  /\ screen' = showPointer(cleared, erased)
           /\ CursorPosition' = erased
    /\ line' = SubSeq(line, 1, Len(line) - 1)
    /\ UNCHANGED <<lastCursorPosition, lastCursorBackground, start, moves>>

\* A command prints its lines two rows below the one it was typed on.  A line is a
\* letter in the first column; the pointer that blinks at its end is left out.
Printed(lines) ==
    LET top   == CursorPosition[2] + 2
        drawn == NextRows(screen, CursorPosition, top + lines)
    IN  [c \in Cells |-> IF c[1] = 0 /\ c[2] \in top .. top + lines - 1
                         THEN drawn[c] \cup {Letter} ELSE drawn[c]]

Enter(lines) ==
    /\ NewPrompt(Printed(lines), CursorPosition[2] + 2 + lines)
    /\ UNCHANGED <<lastCursorPosition, lastCursorBackground, moves>>

\* The command mcolor: it prints a line and draws the arrow anew, with the colour.
Recolour ==
    LET deleted == Deleted(Printed(1))
    IN  /\ DrawCursor(deleted, lastCursorPosition)
        /\ NewPrompt(WithArrow(deleted, lastCursorPosition), CursorPosition[2] + 3)

\* The command clear; the background kept for the arrow is not cleared.
Clear ==
    /\ CursorPosition[2] + 2 < Rows
    /\ NewPrompt(Blink([c \in Cells |-> {Cleared}], <<0, 0>>), 0)
    /\ UNCHANGED <<lastCursorPosition, lastCursorBackground, moves>>

\* MouseDataAction: DelteCursor, then DrawCursor.
MoveArrow(p) ==
    /\ DrawCursor(Deleted(screen), p)
    /\ screen' = WithArrow(Deleted(screen), p)
    /\ UNCHANGED <<CursorPosition, line, start>>

Next ==
    \/ \E char \in Chars : PutChar(char)
    \/ ClearChar
    \/ \E lines \in Output : Enter(lines)
    \/ Recolour
    \/ Clear
    \/ \E p \in Positions : MoveArrow(p)

Spec == Init /\ [][Next]_vars

-----------------------------------------------------------------------------

\* What belongs into a cell from the line's start on.
Expected(cell) ==
    LET n == Position(cell) - Position(start) + 1
    IN  IF n <= Len(line) THEN {line[n]} ELSE {}

\* The characters drawn since a cell was last cleared are the line that has been
\* typed, whole, and nothing after it, across rows and erasures.  The bar is at the
\* end of the line or nowhere, but for the traces that it leaves on ClearColour.
\* Left out are the cells, up to six at a time, that the arrow has smeared because
\* something was drawn in them or cleared while it covered a part of them, until
\* they are cleared again.
LineShown ==
    \A cell \in Cells :
        Position(cell) >= Position(start) /\ Smear \notin screen[cell] =>
            /\ screen[cell] \ {Arrow, Bar, Cleared, Trace} = Expected(cell)
            /\ Bar \in screen[cell] => cell = CursorPosition
=============================================================================
