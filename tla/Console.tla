------------------------------ MODULE Console ------------------------------
(***************************************************************************)
(* The text screen, sys/kprintf.c.  Cells are counted from the start of    *)
(* the video page: video is the cell the next character goes to, as the    *)
(* pointer of that name does, two bytes per cell.  kprintf runs with       *)
(* interrupts off, one turn of its loop over the format is one action, and *)
(* formats are any sequence of such turns.                                 *)
(*                                                                         *)
(* The cursor is held three times over: video, the number line_count of    *)
(* the row the next newline goes to, and line_width.  The code keeps them  *)
(* apart: a long line moves video on into the next rows, while line_count  *)
(* is raised by one in every later turn until the newline.                 *)
(***************************************************************************)
EXTENDS Integers

CONSTANTS Width,        \* columns (80)
          LastLine,     \* line_count beyond which the screen is cleared (23)
          PageCells,    \* cells of the one video page that is mapped (2048)
          MaxLine,      \* bound on the characters of a line
          MaxErase,     \* bound on how far backspaces go back before its start
          MaxCount      \* bound on line_count

ASSUME ConsoleAssumption ==
    /\ Width \in Nat \ {0} /\ LastLine \in Nat \ {0} /\ PageCells \in Nat
    /\ MaxLine \in Nat /\ MaxErase \in Nat /\ MaxCount \in Nat

VARIABLES video, line_count, line_width,
          col           \* ghost: characters put on the line since its newline,
                        \* less those erased

vars == <<video, line_count, line_width, col>>
-----------------------------------------------------------------------------
\* the test at the top of the loop, which Unwrapped leaves out
Unwrapped == line_count
Wrapped == IF line_width > Width THEN line_count + 1 ELSE line_count

\* n characters go to the screen, wherever that is
Put(n) ==
    /\ video' = video + n
    /\ line_width' = line_width + n
    /\ col' = col + n

\* an ordinary character, or %c
Literal ==
    /\ line_count < MaxCount
    /\ col < MaxLine
    /\ line_count' = Wrapped
    /\ Put(1)

\* %s, %d, %x or %p, whose argument has n characters; newlines among them are
\* put on the screen like any other character
Text(n) ==
    /\ line_count < MaxCount
    /\ col + n <= MaxLine
    /\ line_count' = Wrapped
    /\ Put(n)

\* screenclear, and the reset of line_count after it
ScreenClearToZero == video' = 0 /\ line_count' = 0
ScreenClear == video' = 0 /\ line_count' = 1

\* where a newline leaves the cursor, from line count c; NextLineOnly never clears
NextLineOnly(c) == video' = c * Width /\ line_count' = c + 1
NextLine(c) == IF c + 1 > LastLine THEN ScreenClear
               ELSE video' = c * Width /\ line_count' = c + 1

Newline ==
    /\ line_count < MaxCount
    /\ NextLine(Wrapped)
    /\ line_width' = 1
    /\ col' = 0

\* The cell before the cursor is blanked and becomes the cursor, whether or not
\* anything was put on the line.
Backspace ==
    /\ line_count < MaxCount
    /\ col > -MaxErase
    /\ line_count' = Wrapped
    /\ Put(-1)

\* the turn that meets the end of the format makes the test as well
EndFormat ==
    /\ line_count < MaxCount
    /\ line_count' = Wrapped
    /\ UNCHANGED <<video, line_width, col>>
-----------------------------------------------------------------------------
Init ==
    /\ video = 0
    /\ line_count = 1
    /\ line_width = 1
    /\ col = 0

Next ==
    \/ Literal
    \/ \E n \in 0..MaxLine : Text(n)
    \/ Newline
    \/ Backspace
    \/ EndFormat

Spec == Init /\ [][Next]_vars
-----------------------------------------------------------------------------
TypeOK ==
    /\ video \in Int
    /\ line_count \in Nat \ {0}
    /\ line_width \in Int
    /\ col \in Int

\* the cells from the start of the last row to the end of the mapped page
Room == PageCells - (LastLine - 1) * Width

\* kprintf writes in the mapped video page, neither behind it nor in front of
\* it, while the line at the cursor fits behind the last row and no more of it
\* was erased than was printed, whatever became of the lines before: what is
\* written is before the cursor.
OnScreen == 0 <= col /\ col <= Room => 0 <= video /\ video <= PageCells

\* A newline takes the cursor back over what its line put on the screen only
\* when the line filled more than two rows: line_count, which falls behind video
\* on a long line, has then caught up with it, or the screen is cleared.  The
\* help text, one %s of almost four rows, is beyond this.
NoOverprint ==
    [][Newline /\ col <= 2 * Width => video' >= video \/ line_count' = 1]_vars

\* "Type help if you want help.": the text, one %s longer than Room, is printed
\* inside the mapped page wherever the cursor is.
TextFits == video <= PageCells
=============================================================================
