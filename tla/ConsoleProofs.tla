--------------------------- MODULE ConsoleProofs ---------------------------
(***************************************************************************)
(* The cursor of the console, for every size of the screen.  Between two   *)
(* newlines video is some row's start plus col, and line_count is at least *)
(* the number of the row below it; both theorems rest on that relation.    *)
(***************************************************************************)
EXTENDS Console, TLAPS

\* The line being printed starts at row r and the next one goes below it.
OnRow(r) == video = r * Width + col /\ r + 1 <= line_count

IInv ==
    /\ TypeOK
    /\ line_width = col + 1
    /\ \E r \in 0..(LastLine - 1) : OnRow(r)

LEMMA InitInv == Init => IInv
<1> SUFFICES ASSUME Init PROVE IInv
  OBVIOUS
<1>1. TypeOK /\ line_width = col + 1
  BY ConsoleAssumption DEF Init, TypeOK
<1>2. 0 * Width = 0 /\ 0 \in 0..(LastLine - 1)
  BY ConsoleAssumption
<1>3. OnRow(0)
  BY <1>2 DEF Init, OnRow
<1> QED BY <1>1, <1>2, <1>3 DEF IInv

LEMMA Rows == ASSUME NEW r \in Nat, NEW k \in Nat, r <= k
              PROVE  r * Width \in Nat /\ k * Width \in Nat /\ r * Width <= k * Width
<1>1. PICK d \in Nat : k = r + d
  <2>1. k - r \in Nat /\ k = r + (k - r)
    OBVIOUS
  <2> QED BY <2>1
<1>2. \A a, b, w \in Nat : a * w \in Nat /\ (a + b) * w = a * w + b * w
  OBVIOUS
<1>3. Width \in Nat
  BY ConsoleAssumption
<1>4. r * Width \in Nat /\ d * Width \in Nat /\ k * Width = r * Width + d * Width
  BY <1>1, <1>2, <1>3
<1> QED BY <1>4

\* Printing and erasing stay on the row the line started at.
LEMMA PutInv == ASSUME IInv, NEW n \in Int, Put(n), line_count' = Wrapped
                PROVE  IInv'
<1>1. PICK r \in 0..(LastLine - 1) : OnRow(r)
  BY DEF IInv
<1>2. line_count' \in Nat \ {0} /\ line_count <= line_count'
  BY ConsoleAssumption DEF IInv, TypeOK, Wrapped
<1>3. TypeOK'
  BY <1>2 DEF IInv, TypeOK, Put
<1>4. r * Width \in Nat /\ r \in Nat
  BY <1>1, Rows, ConsoleAssumption
<1>5. video' = r * Width + col' /\ r + 1 <= line_count'
  BY <1>1, <1>2, <1>4, ConsoleAssumption DEF OnRow, Put, IInv, TypeOK
<1>6. line_width' = col' + 1
  BY DEF IInv, Put, TypeOK
<1> QED BY <1>1, <1>3, <1>5, <1>6 DEF IInv, OnRow

\* A newline starts a row that exists.
LEMMA NewlineInv == ASSUME IInv, Newline PROVE IInv'
<1>1. Wrapped \in Nat \ {0}
  BY ConsoleAssumption DEF IInv, TypeOK, Wrapped
<1>2. col' = 0 /\ line_width' = 1
  BY DEF Newline
<1>3. CASE Wrapped + 1 > LastLine
  <2>1. video' = 0 /\ line_count' = 1
    BY <1>3 DEF Newline, NextLine, ScreenClear
  <2>2. 0 * Width = 0 /\ 0 \in 0..(LastLine - 1)
    BY ConsoleAssumption
  <2> QED BY <1>2, <2>1, <2>2 DEF IInv, TypeOK, OnRow
<1>4. CASE ~(Wrapped + 1 > LastLine)
  <2>1. video' = Wrapped * Width /\ line_count' = Wrapped + 1
    BY <1>4 DEF Newline, NextLine
  <2>2. Wrapped \in 0..(LastLine - 1)
    BY <1>1, <1>4, ConsoleAssumption
  <2>3. Wrapped * Width \in Nat
    BY <1>1, Rows
  <2>4. TypeOK'
    BY <1>1, <1>2, <2>1, <2>3 DEF TypeOK
  <2>5. video' = Wrapped * Width + col' /\ Wrapped + 1 <= line_count'
    BY <1>1, <1>2, <2>1, <2>3
  <2>6. \E r \in 0..(LastLine - 1) : video' = r * Width + col' /\ r + 1 <= line_count'
    BY <2>2, <2>5
  <2> QED BY <1>2, <2>4, <2>6 DEF IInv, OnRow
<1> QED BY <1>3, <1>4

LEMMA NextInv == ASSUME IInv, [Next]_vars PROVE IInv'
<1> USE ConsoleAssumption
<1>1. CASE Literal
  BY <1>1, PutInv DEF Literal, IInv, TypeOK
<1>2. ASSUME NEW n \in 0..MaxLine, Text(n) PROVE IInv'
  BY <1>2, PutInv DEF Text, IInv, TypeOK
<1>3. CASE Newline
  BY <1>3, NewlineInv
<1>4. CASE Backspace
  BY <1>4, PutInv DEF Backspace, IInv, TypeOK
<1>5. CASE EndFormat
  <2>1. Put(0)
    BY <1>5 DEF EndFormat, Put, IInv, TypeOK
  <2> QED BY <1>5, <2>1, PutInv DEF EndFormat, IInv, TypeOK
<1>6. CASE UNCHANGED vars
  BY <1>6 DEF vars, IInv, TypeOK, OnRow
<1> QED BY <1>1, <1>2, <1>3, <1>4, <1>5, <1>6 DEF Next

LEMMA Invariance == Spec => []IInv
BY InitInv, NextInv, PTL DEF Spec

\* kprintf writes inside the mapped video page while the line at the cursor fits
\* behind the last row and no more of it was erased than printed, for every size
\* of the screen and whatever was printed and erased before.
THEOREM OnScreenCorrect == Spec => []OnScreen
<1>1. IInv => OnScreen
  <2> SUFFICES ASSUME IInv, 0 <= col, col <= Room PROVE 0 <= video /\ video <= PageCells
    BY DEF OnScreen
  <2>1. PICK r \in 0..(LastLine - 1) : OnRow(r)
    BY DEF IInv
  <2>2. /\ r * Width \in Nat /\ (LastLine - 1) * Width \in Nat
        /\ r * Width <= (LastLine - 1) * Width
    BY Rows, ConsoleAssumption
  <2> QED BY <2>1, <2>2, ConsoleAssumption DEF IInv, TypeOK, OnRow, Room
<1> QED BY Invariance, <1>1, PTL

\* A newline moves the cursor back over its line only when the line filled more
\* than two rows, for every size of the screen and whatever was printed and
\* erased before.
THEOREM NoOverprintCorrect == Spec => NoOverprint
<1>1. ASSUME IInv, Newline, col <= 2 * Width
      PROVE  video' >= video \/ line_count' = 1
  <2>1. PICK r \in 0..(LastLine - 1) : OnRow(r)
    BY <1>1 DEF IInv
  <2>2. Wrapped \in Nat /\ Wrapped >= r + 1
    BY <1>1, <2>1, ConsoleAssumption DEF OnRow, IInv, TypeOK, Wrapped
  <2>3. CASE video' = Wrapped * Width
    <3>1. \A w \in Nat : /\ (r + 1) * w = r * w + w /\ (r + 2) * w = r * w + 2 * w
                         /\ r * w \in Nat
      BY ConsoleAssumption
    <3>2. /\ (r + 1) * Width = r * Width + Width /\ r * Width \in Nat
          /\ (r + 2) * Width = r * Width + 2 * Width
      BY <3>1, ConsoleAssumption
    <3>3. CASE line_width > Width
      <4>1. Wrapped >= r + 2
        BY <1>1, <2>1, <3>3, ConsoleAssumption DEF OnRow, IInv, TypeOK, Wrapped
      <4>2. (r + 2) * Width <= Wrapped * Width /\ Wrapped * Width \in Nat
        BY <2>2, <4>1, Rows, ConsoleAssumption
      <4> QED BY <1>1, <2>1, <2>3, <3>2, <4>2, ConsoleAssumption
              DEF OnRow, IInv, TypeOK
    <3>4. CASE ~(line_width > Width)
      <4>1. (r + 1) * Width <= Wrapped * Width /\ Wrapped * Width \in Nat
        BY <2>2, Rows, ConsoleAssumption
      <4> QED BY <1>1, <2>1, <2>3, <3>2, <3>4, <4>1, ConsoleAssumption
              DEF OnRow, IInv, TypeOK
    <3> QED BY <3>3, <3>4
  <2> QED BY <1>1, <2>3 DEF Newline, NextLine, ScreenClear
<1>2. IInv => [Newline /\ col <= 2 * Width => video' >= video \/ line_count' = 1]_vars
  BY <1>1
<1> QED BY Invariance, <1>2, PTL DEF NoOverprint

\* Type correctness, whatever is printed and erased: line_count is never 0, so
\* no newline goes to a row in front of the screen.
THEOREM TypeCorrect == Spec => []TypeOK
<1>1. Init => TypeOK
  BY DEF Init, TypeOK
<1>2. ASSUME TypeOK, [Next]_vars PROVE TypeOK'
  <2>1. Wrapped \in Nat \ {0}
    BY <1>2 DEF TypeOK, Wrapped
  <2>2. ASSUME NEW n \in Int, Put(n), line_count' = Wrapped PROVE TypeOK'
    BY <1>2, <2>1, <2>2 DEF TypeOK, Put
  <2>3. CASE Newline
    <3>1. line_width' = 1 /\ col' = 0 /\ NextLine(Wrapped)
      BY <2>3 DEF Newline
    <3>2. video' \in Int /\ line_count' \in Nat \ {0}
      <4>1. Width \in Int /\ Wrapped * Width \in Int
        BY <2>1, ConsoleAssumption
      <4> QED BY <2>1, <3>1, <4>1 DEF NextLine, ScreenClear
    <3> QED BY <3>1, <3>2 DEF TypeOK
  <2>4. CASE Literal
    BY <2>2, <2>4 DEF Literal
  <2>5. ASSUME NEW n \in 0..MaxLine, Text(n) PROVE TypeOK'
    BY <2>2, <2>5, ConsoleAssumption DEF Text
  <2>6. CASE Backspace
    BY <2>2, <2>6 DEF Backspace
  <2>7. CASE EndFormat
    BY <1>2, <2>1, <2>7 DEF EndFormat, TypeOK
  <2>8. CASE UNCHANGED vars
    BY <1>2, <2>8 DEF vars, TypeOK
  <2> QED BY <1>2, <2>3, <2>4, <2>5, <2>6, <2>7, <2>8 DEF Next
<1> QED BY <1>1, <1>2, PTL DEF Spec
=============================================================================
