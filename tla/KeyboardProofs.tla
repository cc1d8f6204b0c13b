--------------------------- MODULE KeyboardProofs ---------------------------
(***************************************************************************)
(* scanf against the interrupts, for lines and buffers of any length and   *)
(* whatever the handlers leave in the register of len.                     *)
(***************************************************************************)
EXTENDS Keyboard, SequenceTheorems, WellFoundedInduction, TLAPS

Cells == 0..(Size - 1)

\* Only scanf waits for keys; scanlen is 0 when a read begins, but for
\* backspaces in user mode.
BaseInv ==
    /\ TypeOK
    /\ scanlen <= MaxLine
    /\ pc = "down" => scanlen >= -MaxErase
    /\ pc \in {"user", "spin"} => scanlen >= -MaxErase
    /\ flag => pc = "spin"
    /\ pc = "user" => scanlen <= 0 /\ (~ahead => scanlen = 0)

\* memcpy's length
LengthInv ==
    /\ pc \in {"copy", "move", "hung"} /\ ~spoiled => scanlen >= 0 \/ scanlen = TickLeaves
    /\ pc = "hung" => scanlen < 0

\* nothing is in tempbuff from n on
Empty(n) == \A i \in Cells : i >= n => tempbuff[i] = Nul

\* what the clearing loop has to reach
ResidueInv ==
    ~residue =>
        /\ pc \in {"spin", "copy"} => Empty(IF erased THEN scanlen + 1 ELSE scanlen)
        /\ pc \in {"move", "clear"} => Empty(scanlen + 1)
        /\ pc = "down" => Empty(scanlen)
        /\ pc = "user" => Empty(0)

\* tempbuff starts with the line
HoldsLine == \A i \in 1..Len(line) : tempbuff[i - 1] = line[i]

\* what LineRead says of the string delivered
Delivered ==
    /\ Len(line) <= Len(buff)
    /\ \A i \in 1..Len(line) : buff[i] = line[i]
    /\ ~residue => Len(buff) <= Len(line) + (IF erased THEN 1 ELSE 0)

LineInv ==
    ~spoiled =>
        /\ pc \in {"spin", "copy"} => HoldsLine /\ line \in Seq(Shown) /\ Len(line) <= MaxLine
        /\ pc = "spin" => scanlen = Len(line)
        /\ pc = "copy" /\ ~residue => scanlen = Len(line)
        /\ pc \in {"move", "clear", "down", "user"} => Delivered

IInv == BaseInv /\ LengthInv /\ ResidueInv /\ LineInv
-----------------------------------------------------------------------------
(* What strcpy takes out of the buffer.                                    *)

\* A set of numbers has a least one.
LEMMA Least ==
    ASSUME NEW T \in SUBSET Nat, T # {}
    PROVE  \E m \in T : \A k \in T : m <= k
<1> DEFINE R == OpToRel(<, Nat)
<1>1. IsWellFoundedOn(R, Nat)
  BY NatLessThanWellFounded
<1>2. \A x, y \in Nat : x < y => <<x, y>> \in R
  BY DEF OpToRel
<1> HIDE DEF R
<1>3. PICK m \in T : \A y \in T : ~(<<y, m>> \in R)
  BY <1>1, WFMin
<1>4. \A k \in T : ~(k < m)
  <2>1. \A k \in T : k \in Nat
    OBVIOUS
  <2> QED BY <1>2, <1>3, <2>1, Zenon
<1>5. \A k \in T : m <= k
  BY <1>4
<1> QED BY <1>5

\* n is the index of the first NUL of tb, or its size
IsEnd(tb, n) == /\ n < Size => tb[n] = Nul
                /\ \A i \in 0..(n - 1) : tb[i] # Nul

LEMMA StringByEnd == \A tb : String(tb) =
    LET n == CHOOSE n \in 0..Size : IsEnd(tb, n) IN [i \in 1..n |-> tb[i - 1]]
BY DEF String, IsEnd

LEMMA NulNotShown == Nul \notin Shown
BY DEF Nul, Shown

\* Whatever the buffer holds, its string ends at a NUL or at its size.
LEMMA StringEnd ==
    ASSUME NEW tb
    PROVE  \E n \in 0..Size : IsEnd(tb, n) /\ String(tb) = [i \in 1..n |-> tb[i - 1]]
<1>1. Size \in Nat
  BY KeyboardAssumption
<1> DEFINE T == {n \in 0..Size : n < Size => tb[n] = Nul}
<1>2. PICK m \in T : \A k \in T : m <= k
  <2>1. T \in SUBSET Nat /\ Size \in T
    BY <1>1
  <2> HIDE DEF T
  <2> QED BY <2>1, Least
<1>3. m \in 0..Size /\ IsEnd(tb, m)
  BY <1>1, <1>2 DEF IsEnd
<1> DEFINE n == CHOOSE n \in 0..Size : IsEnd(tb, n)
<1>4. n \in 0..Size /\ IsEnd(tb, n)
  BY <1>3
<1>5. String(tb) = [i \in 1..n |-> tb[i - 1]]
  BY StringByEnd
<1> HIDE DEF n
<1> QED BY <1>4, <1>5

\* Its string is one of characters.
LEMMA StringType ==
    ASSUME NEW tb \in [Cells -> Stored]
    PROVE  String(tb) \in Seq(Shown)
<1>1. Size \in Nat
  BY KeyboardAssumption
<1>2. PICK n \in 0..Size : IsEnd(tb, n) /\ String(tb) = [i \in 1..n |-> tb[i - 1]]
  BY StringEnd
<1>3. \A i \in 1..n : tb[i - 1] \in Shown
  BY <1>1, <1>2 DEF IsEnd, Cells, Stored
<1> QED BY <1>1, <1>2, <1>3

\* The string of a buffer that starts with l starts with l, and ends where the
\* buffer is empty.
LEMMA StringOfLine ==
    ASSUME NEW tb \in [Cells -> Stored], NEW l \in Seq(Shown), Len(l) < Size,
           \A i \in 1..Len(l) : tb[i - 1] = l[i]
    PROVE  /\ Len(l) <= Len(String(tb))
           /\ \A i \in 1..Len(l) : String(tb)[i] = l[i]
           /\ \A m \in Nat : (\A i \in Cells : i >= m => tb[i] = Nul) => Len(String(tb)) <= m
<1>1. Size \in Nat /\ Len(l) \in Nat
  BY KeyboardAssumption
<1>2. PICK n \in 0..Size : IsEnd(tb, n) /\ String(tb) = [i \in 1..n |-> tb[i - 1]]
  BY StringEnd
<1>3. Len(String(tb)) = n /\ n \in Nat /\ n <= Size
  BY <1>1, <1>2
<1>4. \A i \in 1..Len(l) : tb[i - 1] # Nul
  BY <1>1, NulNotShown
<1>5. Len(l) <= n
  <2> SUFFICES ASSUME n < Len(l) PROVE FALSE
    BY <1>1, <1>3
  <2>1. tb[n] = Nul /\ n + 1 \in 1..Len(l) /\ (n + 1) - 1 = n
    BY <1>1, <1>2, <1>3 DEF IsEnd
  <2>2. tb[(n + 1) - 1] # Nul
    BY <1>4, <2>1
  <2> QED BY <2>1, <2>2
<1>6. \A i \in 1..Len(l) : String(tb)[i] = l[i]
  BY <1>1, <1>2, <1>3, <1>5
<1>7. ASSUME NEW m \in Nat, \A i \in Cells : i >= m => tb[i] = Nul
      PROVE  n <= m
  <2> SUFFICES ASSUME m < n PROVE FALSE
    BY <1>3
  <2>1. m \in Cells /\ m \in 0..(n - 1)
    BY <1>1, <1>3 DEF Cells
  <2> QED BY <1>2, <1>7, <2>1 DEF IsEnd
<1> QED BY <1>3, <1>5, <1>6, <1>7

LEMMA StoreAt ==
    ASSUME NEW i \in Int, NEW x
    PROVE  \A j \in Cells : Store(i, x)[j] = IF j = i THEN x ELSE tempbuff[j]
BY DEF Store, Cells

LEMMA StoreType ==
    ASSUME TypeOK, NEW i \in Int, NEW x \in Stored
    PROVE  Store(i, x) \in [Cells -> Stored]
BY DEF Store, Cells, TypeOK
-----------------------------------------------------------------------------
(* The invariants.  An interrupt is quiet when it only touches the register *)
(* and the shift, or takes flag away.                                      *)

Quiet ==
    /\ UNCHANGED <<pc, scanlen, tempbuff, buff, line, spoiled, ahead, erased, residue>>
    /\ flag' = flag \/ flag' = FALSE
    /\ shift_key' \in BOOLEAN
    /\ len' \in {0, Ask, EnterLeaves, TickLeaves} \cup KeyLeaves

\* a key is stored behind the line
Typed(x) ==
    /\ pc = "spin" /\ scanlen < MaxLine
    /\ tempbuff' = Store(scanlen, x)
    /\ scanlen' = scanlen + 1
    /\ line' = Append(line, x)
    /\ erased' = FALSE
    /\ shift_key' = FALSE
    /\ len' \in {0, Ask, EnterLeaves, TickLeaves} \cup KeyLeaves
    /\ UNCHANGED <<pc, flag, buff, ahead, residue>>

LEMMA InterruptType ==
    ASSUME TypeOK, NEW S \in SUBSET ({0, Ask, EnterLeaves, TickLeaves} \cup KeyLeaves),
           Interrupted(S)
    PROVE  len' \in {0, Ask, EnterLeaves, TickLeaves} \cup KeyLeaves
BY DEF Interrupted, TypeOK

\* What an interrupt does.
LEMMA InterruptCases ==
    ASSUME BaseInv, Interrupt
    PROVE  \/ Quiet
           \/ BackspaceKey
           \/ \E x \in Shown : Typed(x) /\ UNCHANGED spoiled
           \/ Typed(Nul) /\ spoiled' = TRUE
<1>1. TypeOK
  BY DEF BaseInv
<1>2. ASSUME NEW x, TableKey(x), flag PROVE Typed(x)
  BY <1>1, <1>2, InterruptType DEF TableKey, Typed, BaseInv
<1>3. ASSUME NEW x, TableKey(x), ~flag, UNCHANGED spoiled PROVE Quiet
  BY <1>1, <1>3, InterruptType DEF TableKey, Quiet, TypeOK
<1>4. ASSUME NEW c \in Char, CharKey(c)
      PROVE  Quiet \/ \E x \in Shown : Typed(x) /\ UNCHANGED spoiled
  <2>1. TableKey(Shape(c)) /\ UNCHANGED spoiled
    BY <1>4 DEF CharKey
  <2>2. Shape(c) \in Shown
    BY DEF Shape, Shown
  <2> QED BY <1>2, <1>3, <2>1, <2>2
<1>5. CASE NulKey
  <2>1. TableKey(Nul) /\ spoiled' = (spoiled \/ flag)
    BY <1>5 DEF NulKey
  <2>2. CASE flag
    BY <1>2, <2>1, <2>2
  <2>3. CASE ~flag
    <3>1. spoiled' = spoiled
      BY <1>1, <2>1, <2>3 DEF TypeOK
    <3> QED BY <1>3, <2>1, <2>3, <3>1
  <2> QED BY <2>2, <2>3
<1>6. CASE EnterKey
  BY <1>1, <1>6, InterruptType DEF EnterKey, Quiet, TypeOK, ghosts
<1>7. CASE ShiftKey
  BY <1>1, <1>7, InterruptType DEF ShiftKey, Quiet, TypeOK, ghosts
<1>8. CASE KeyRelease
  BY <1>1, <1>8, InterruptType DEF KeyRelease, Quiet, TypeOK, ghosts
<1>9. CASE Tick
  BY <1>1, <1>9, InterruptType DEF Tick, Quiet, TypeOK, ghosts
<1> QED BY <1>4, <1>5, <1>6, <1>7, <1>8, <1>9 DEF Interrupt

\* The line loses its last character.
LEMMA FrontType ==
    ASSUME NEW S, NEW l \in Seq(S), l # <<>>
    PROVE  /\ SubSeq(l, 1, Len(l) - 1) \in Seq(S)
           /\ Len(SubSeq(l, 1, Len(l) - 1)) = Len(l) - 1
           /\ \A i \in 1..(Len(l) - 1) : SubSeq(l, 1, Len(l) - 1)[i] = l[i]
<1> DEFINE n == Len(l) - 1
<1>1. Len(l) \in Nat /\ Len(l) >= 1
  OBVIOUS
<1>2. n \in Int /\ n >= 0
  BY <1>1
<1>3. \A i \in 1..n : l[i] \in S
  BY <1>1
<1> HIDE DEF n
<1>4. /\ SubSeq(l, 1, n) \in Seq(S)
      /\ Len(SubSeq(l, 1, n)) = IF 1 <= n THEN n - 1 + 1 ELSE 0
      /\ \A i \in 1..(n - 1 + 1) : SubSeq(l, 1, n)[i] = l[1 + i - 1]
  BY <1>2, <1>3, SubSeqProperties
<1>5. Len(SubSeq(l, 1, n)) = n
  BY <1>2, <1>4
<1>6. \A i \in 1..n : SubSeq(l, 1, n)[i] = l[i]
  BY <1>2, <1>4
<1> QED BY <1>4, <1>5, <1>6 DEF n

LEMMA BaseInit ==
    ASSUME Init
    PROVE  BaseInv
<1>1. Size \in Nat /\ MaxLine \in Nat /\ MaxErase \in Nat
  BY KeyboardAssumption
<1>2. tempbuff \in [0..(Size - 1) -> Stored]
  BY DEF Init, Stored
<1>3. line \in Seq(Stored) /\ buff \in Seq(Shown)
  BY DEF Init
<1>4. scanlen = 0 /\ scanlen \in -(MaxErase + 1)..MaxLine /\ scanlen >= -MaxErase
      /\ scanlen <= MaxLine
  BY <1>1 DEF Init
<1>5. TypeOK
  BY <1>2, <1>3, <1>4 DEF Init, TypeOK
<1>6. pc = "user" /\ ~flag
  BY DEF Init
<1> QED BY <1>4, <1>5, <1>6 DEF BaseInv

LEMMA BaseStep ==
    ASSUME BaseInv, [Next]_vars
    PROVE  BaseInv'
<1>0. /\ Size \in Nat /\ Ask \in Nat /\ EnterLeaves \in Nat /\ KeyLeaves \subseteq Nat
      /\ TickLeaves \in Int /\ MaxLine \in Nat /\ MaxErase \in Nat
      /\ scanlen \in Int /\ len \in Int
      /\ line \in Seq(Stored)
      /\ Nul \in Stored /\ Shown \subseteq Stored
      /\ flag \in BOOLEAN /\ shift_key \in BOOLEAN
  BY KeyboardAssumption DEF BaseInv, TypeOK, Stored
<1>2. CASE UNCHANGED vars
  BY <1>2 DEF vars, ghosts, BaseInv, TypeOK
<1>3. CASE Quiet
  <2>1. flag' \in BOOLEAN /\ (flag' => pc = "spin")
    <3>1. CASE flag' = flag
      BY <1>0, <3>1 DEF BaseInv
    <3>2. CASE flag' = FALSE
      BY <3>2
    <3> QED BY <1>3, <3>1, <3>2 DEF Quiet
  <2>2. /\ UNCHANGED <<pc, scanlen, tempbuff, buff, line, spoiled, ahead, erased, residue>>
        /\ shift_key' \in BOOLEAN
        /\ len' \in {0, Ask, EnterLeaves, TickLeaves} \cup KeyLeaves
    BY <1>3 DEF Quiet
  <2>3. TypeOK'
    BY <2>1, <2>2 DEF BaseInv, TypeOK
  <2> QED BY <2>1, <2>2, <2>3 DEF BaseInv
<1>4. ASSUME NEW x \in Stored, Typed(x), spoiled' \in BOOLEAN PROVE BaseInv'
  <2>1. line' \in Seq(Stored)
    BY <1>0, <1>4 DEF Typed
  <2>2. tempbuff' \in [Cells -> Stored]
    BY <1>0, <1>4, StoreType DEF Typed, BaseInv
  <2>3. scanlen' \in -(MaxErase + 1)..MaxLine /\ scanlen' <= MaxLine /\ scanlen' >= -MaxErase
    BY <1>0, <1>4 DEF Typed, BaseInv
  <2> QED BY <1>4, <2>1, <2>2, <2>3 DEF Typed, BaseInv, TypeOK, Cells
<1>5. CASE BackspaceKey
  <2>1. line' \in Seq(Stored)
    BY <1>0, <1>5, FrontType DEF BackspaceKey
  <2>2. tempbuff' \in [Cells -> Stored]
    BY <1>0, <1>5, StoreType DEF BackspaceKey, BaseInv
  <2>3. /\ scanlen' \in -(MaxErase + 1)..MaxLine /\ scanlen' <= MaxLine
        /\ scanlen' >= -MaxErase /\ scanlen' < scanlen
    BY <1>0, <1>5 DEF BackspaceKey, BaseInv
  <2>4. len' \in {0, Ask, EnterLeaves, TickLeaves} \cup KeyLeaves
    BY <1>5, InterruptType DEF BackspaceKey, BaseInv
  <2>5. /\ spoiled' \in BOOLEAN /\ ahead' \in BOOLEAN /\ erased' \in BOOLEAN
        /\ residue' \in BOOLEAN /\ (pc = "user" => ahead') /\ UNCHANGED <<pc, flag, shift_key, buff>>
    BY <1>5 DEF BackspaceKey
  <2>6. TypeOK'
    BY <2>1, <2>2, <2>3, <2>4, <2>5 DEF BaseInv, TypeOK, Cells
  <2>7. pc' = "user" => scanlen' <= 0 /\ (~ahead' => scanlen' = 0)
    <3>1. pc = "user" => scanlen <= 0
      BY DEF BaseInv
    <3> QED BY <1>0, <2>3, <2>5, <3>1
  <2> QED BY <2>3, <2>5, <2>6, <2>7 DEF BaseInv
<1>6. CASE Read
  <2>1. <<>> \in Seq(Stored) /\ <<>> \in Seq(Shown)
    OBVIOUS
  <2> QED BY <1>6, <2>1 DEF Read, BaseInv, TypeOK
<1>7. CASE LeaveLoop
  <2>1. /\ scanlen' <= MaxLine
        /\ scanlen' \in -(MaxErase + 1)..MaxLine \/ scanlen' = TickLeaves
    <3>1. CASE len < scanlen
      <4>1. scanlen' = len /\ len <= MaxLine
        BY <1>0, <1>7, <3>1 DEF LeaveLoop, Cut, BaseInv
      <4>2. len \in Nat \/ len = TickLeaves
        BY <1>0 DEF BaseInv, TypeOK
      <4> QED BY <1>0, <4>1, <4>2
    <3>2. CASE ~(len < scanlen)
      <4>1. scanlen' = scanlen
        BY <1>7, <3>2 DEF LeaveLoop, Cut
      <4> QED BY <4>1 DEF BaseInv, TypeOK
    <3> QED BY <3>1, <3>2
  <2>2. residue' \in BOOLEAN /\ len' = 0
    BY <1>7 DEF LeaveLoop
  <2> QED BY <1>7, <2>1, <2>2 DEF LeaveLoop, BaseInv, TypeOK
<1>8. CASE CopyString
  <2>1. String(tempbuff) \in Seq(Shown)
    BY StringType DEF BaseInv, TypeOK, Cells
  <2> QED BY <1>8, <2>1 DEF CopyString, BaseInv, TypeOK, ghosts
<1>9. CASE MoveBytes
  BY <1>9 DEF MoveBytes, BaseInv, TypeOK, ghosts
<1>10. CASE ClearCell
  <2>1. tempbuff' \in [Cells -> Stored]
    BY <1>0, <1>10, StoreType DEF ClearCell, BaseInv
  <2>2. scanlen >= -MaxErase
    BY <1>0, <1>10 DEF ClearCell, Clearing
  <2> QED BY <1>10, <2>1, <2>2 DEF ClearCell, BaseInv, TypeOK, Cells, ghosts
<1>11. CASE CountDown
  <2>1. scanlen' \in -(MaxErase + 1)..MaxLine /\ scanlen' <= MaxLine
    BY <1>0, <1>11 DEF CountDown, BaseInv
  <2> QED BY <1>11, <2>1 DEF CountDown, BaseInv, TypeOK, ghosts
<1>12. CASE Return
  <2>1. scanlen' = 0 /\ 0 \in -(MaxErase + 1)..MaxLine /\ 0 <= MaxLine /\ 0 >= -MaxErase
    BY <1>0, <1>12 DEF Return
  <2> QED BY <1>12, <2>1 DEF Return, BaseInv, TypeOK, ghosts
<1>13. CASE Interrupt
  <2>1. ASSUME NEW x \in Shown, Typed(x), UNCHANGED spoiled PROVE BaseInv'
    BY <1>0, <1>4, <2>1 DEF BaseInv, TypeOK
  <2>2. CASE Typed(Nul) /\ spoiled' = TRUE
    BY <1>0, <1>4, <2>2
  <2> QED BY <1>3, <1>5, <1>13, <2>1, <2>2, InterruptCases
<1> QED BY <1>2, <1>6, <1>7, <1>8, <1>9, <1>10, <1>11, <1>12, <1>13 DEF Next, Scanf

LEMMA LengthStep ==
    ASSUME BaseInv, LineInv, LengthInv, [Next]_vars
    PROVE  LengthInv'
<1>0. /\ scanlen \in Int /\ TickLeaves \in Int /\ len \in Int /\ Len(line) \in Nat
      /\ spoiled \in BOOLEAN /\ flag \in BOOLEAN
  BY KeyboardAssumption DEF BaseInv, TypeOK
<1>1. ASSUME UNCHANGED <<pc, scanlen, spoiled>> PROVE LengthInv'
  BY <1>1 DEF LengthInv
<1>2. ASSUME pc' \notin {"copy", "move", "hung"} PROVE LengthInv'
  BY <1>2 DEF LengthInv
<1>3. CASE UNCHANGED vars
  BY <1>1, <1>3 DEF vars, ghosts
<1>4. CASE Interrupt
  <2>1. CASE Quiet
    BY <1>1, <2>1 DEF Quiet
  <2>2. ASSUME NEW x, Typed(x) PROVE LengthInv'
    BY <1>2, <2>2 DEF Typed
  <2>3. CASE BackspaceKey
    <3>1. pc' = pc /\ pc # "hung" /\ scanlen' = scanlen - 1
      BY <2>3 DEF BackspaceKey, Interrupted
    <3>2. ASSUME ~spoiled', pc \in {"copy", "move"} PROVE scanlen' >= 0
      <4>1. ~spoiled /\ ~(scanlen <= 0)
        BY <1>0, <2>3, <3>2 DEF BackspaceKey
      <4> QED BY <1>0, <3>1, <4>1
    <3> QED BY <3>1, <3>2 DEF LengthInv
  <2> QED BY <1>4, <2>1, <2>2, <2>3, InterruptCases
<1>5. CASE Read
  BY <1>2, <1>5 DEF Read
<1>6. CASE LeaveLoop
  <2>1. ASSUME ~spoiled PROVE scanlen' >= 0 \/ scanlen' = TickLeaves
    <3>1. scanlen >= 0
      BY <1>0, <1>6, <2>1 DEF LeaveLoop, LineInv
    <3>2. len \in Nat \/ len = TickLeaves
      BY KeyboardAssumption DEF BaseInv, TypeOK
    <3> QED BY <1>0, <1>6, <3>1, <3>2 DEF LeaveLoop, Cut
  <2> QED BY <1>6, <2>1 DEF LeaveLoop, LengthInv
<1>7. CASE CopyString
  BY <1>7 DEF CopyString, ghosts, LengthInv
<1>8. CASE MoveBytes
  BY <1>8 DEF MoveBytes, ghosts, LengthInv
<1>9. CASE ClearCell \/ CountDown \/ Return
  BY <1>2, <1>9 DEF ClearCell, CountDown, Return
<1> QED BY <1>3, <1>4, <1>5, <1>6, <1>7, <1>8, <1>9 DEF Next, Scanf

LEMMA ResidueStep ==
    ASSUME BaseInv, ResidueInv, [Next]_vars
    PROVE  ResidueInv'
<1>0. /\ scanlen \in Int /\ len \in Int /\ Size \in Nat
      /\ residue \in BOOLEAN /\ erased \in BOOLEAN
  BY KeyboardAssumption DEF BaseInv, TypeOK
<1> USE DEF Cells
<1>1. ASSUME UNCHANGED <<pc, scanlen, tempbuff, erased, residue>> PROVE ResidueInv'
  BY <1>1 DEF ResidueInv, Empty
<1>2. CASE UNCHANGED vars
  BY <1>1, <1>2 DEF vars, ghosts
<1>3. CASE Interrupt
  <2>1. CASE Quiet
    BY <1>1, <2>1 DEF Quiet
  <2>2. ASSUME NEW x, Typed(x) PROVE ResidueInv'
    <3>1. /\ pc = "spin" /\ pc' = "spin" /\ residue' = residue /\ erased' = FALSE
          /\ scanlen' = scanlen + 1
      BY <2>2 DEF Typed
    <3>2. \A j \in Cells : tempbuff'[j] = IF j = scanlen THEN x ELSE tempbuff[j]
      BY <1>0, <2>2, StoreAt DEF Typed
    <3>3. ASSUME ~residue, NEW j \in Cells, j >= scanlen' PROVE tempbuff'[j] = Nul
      <4>1. Empty(IF erased THEN scanlen + 1 ELSE scanlen)
        BY <3>1, <3>3 DEF ResidueInv
      <4>2. Empty(scanlen + 1)
        BY <1>0, <4>1 DEF Empty
      <4> QED BY <1>0, <3>1, <3>2, <3>3, <4>2 DEF Empty
    <3> QED BY <3>1, <3>3 DEF ResidueInv, Empty
  <2>3. CASE BackspaceKey
    <3>1. /\ pc' = pc /\ pc # "hung" /\ scanlen' = scanlen - 1
          /\ residue' = (residue \/ pc = "down")
          /\ erased' = (erased \/ pc \in {"spin", "copy"})
      BY <2>3 DEF BackspaceKey, Interrupted
    <3>2. \A j \in Cells : tempbuff'[j] = IF j = scanlen THEN Nul ELSE tempbuff[j]
      BY <1>0, <2>3, StoreAt DEF BackspaceKey
    <3> SUFFICES ASSUME ~residue' PROVE ResidueInv'
      BY DEF ResidueInv
    <3>3. ~residue /\ pc # "down"
      BY <1>0, <3>1
    <3>4. ASSUME Empty(scanlen + 1)
          PROVE  \A j \in Cells : j >= scanlen' + 1 => tempbuff'[j] = Nul
      BY <1>0, <3>1, <3>2, <3>4 DEF Empty
    <3>5. CASE pc \in {"spin", "copy"}
      <4>1. Empty(scanlen + 1)
        BY <1>0, <3>3, <3>5 DEF ResidueInv, Empty
      <4>2. erased' = TRUE
        BY <3>1, <3>5
      <4> QED BY <3>1, <3>4, <3>5, <4>1, <4>2 DEF ResidueInv, Empty
    <3>6. CASE pc \in {"move", "clear"}
      BY <3>1, <3>3, <3>4, <3>6 DEF ResidueInv, Empty
    <3>7. CASE pc = "user"
      BY <3>1, <3>2, <3>3, <3>7 DEF ResidueInv, Empty
    <3> QED BY <3>1, <3>3, <3>5, <3>6, <3>7 DEF BaseInv, TypeOK
  <2> QED BY <1>3, <2>1, <2>2, <2>3, InterruptCases
<1>4. CASE Read
  <2>1. /\ pc = "user" /\ pc' = "spin" /\ erased' = FALSE /\ scanlen' = scanlen
        /\ tempbuff' = tempbuff /\ residue' = residue
    BY <1>4 DEF Read
  <2>2. ASSUME ~residue, NEW j \in Cells PROVE tempbuff[j] = Nul
    BY <2>1, <2>2 DEF ResidueInv, Empty
  <2> QED BY <2>1, <2>2 DEF ResidueInv, Empty
<1>5. CASE LeaveLoop
  <2>1. /\ pc = "spin" /\ pc' = "copy" /\ tempbuff' = tempbuff /\ erased' = erased
        /\ residue' = (residue \/ len < scanlen) /\ scanlen' = Cut
    BY <1>5 DEF LeaveLoop
  <2>2. ASSUME ~residue' PROVE ~residue /\ scanlen' = scanlen
    BY <1>0, <2>1, <2>2 DEF Cut
  <2> QED BY <2>1, <2>2 DEF ResidueInv, Empty
<1>6. CASE CopyString
  <2>1. /\ pc = "copy" /\ pc' = "move"
        /\ UNCHANGED <<scanlen, tempbuff, erased, residue>>
    BY <1>6 DEF CopyString, ghosts
  <2>2. ASSUME ~residue PROVE Empty(scanlen + 1)
    BY <1>0, <2>1, <2>2 DEF ResidueInv, Empty
  <2> QED BY <2>1, <2>2 DEF ResidueInv, Empty
<1>7. CASE MoveBytes
  BY <1>7 DEF MoveBytes, ghosts, ResidueInv, Empty
<1>8. CASE ClearCell
  <2>1. /\ pc = "clear" /\ pc' = "down" /\ UNCHANGED <<scanlen, erased, residue>>
    BY <1>8 DEF ClearCell, ghosts
  <2>2. \A j \in Cells : tempbuff'[j] = IF j = scanlen THEN Nul ELSE tempbuff[j]
    BY <1>0, <1>8, StoreAt DEF ClearCell
  <2>3. ASSUME ~residue, NEW j \in Cells, j >= scanlen PROVE tempbuff'[j] = Nul
    BY <1>0, <2>1, <2>2, <2>3 DEF ResidueInv, Empty
  <2> QED BY <2>1, <2>3 DEF ResidueInv, Empty
<1>9. CASE CountDown
  <2>1. /\ pc = "down" /\ pc' = "clear" /\ scanlen' = scanlen - 1
        /\ UNCHANGED <<tempbuff, erased, residue>>
    BY <1>9 DEF CountDown, ghosts
  <2>2. scanlen' + 1 = scanlen
    BY <1>0, <2>1
  <2> QED BY <2>1, <2>2 DEF ResidueInv, Empty
<1>10. CASE Return
  <2>1. /\ pc = "clear" /\ scanlen < 0 /\ pc' = "user" /\ UNCHANGED <<tempbuff, residue>>
    BY <1>0, <1>10 DEF Return, Clearing, ghosts
  <2>2. ASSUME ~residue, NEW j \in Cells PROVE tempbuff[j] = Nul
    BY <1>0, <2>1, <2>2 DEF ResidueInv, Empty
  <2> QED BY <2>1, <2>2 DEF ResidueInv, Empty
<1> QED BY <1>2, <1>3, <1>4, <1>5, <1>6, <1>7, <1>8, <1>9, <1>10 DEF Next, Scanf

LEMMA LineStep ==
    ASSUME BaseInv, ResidueInv, LineInv, [Next]_vars
    PROVE  LineInv'
<1>0. /\ Size \in Nat /\ MaxLine \in Nat /\ MaxLine < Size
      /\ line \in Seq(Stored) /\ Len(line) \in Nat
      /\ scanlen \in Int /\ len \in Int
      /\ residue \in BOOLEAN /\ erased \in BOOLEAN /\ spoiled \in BOOLEAN
  BY KeyboardAssumption DEF BaseInv, TypeOK
<1> USE DEF Cells
<1>1. ASSUME UNCHANGED <<pc, scanlen, tempbuff, buff, line, spoiled, erased, residue>>
      PROVE  LineInv'
  BY <1>1 DEF LineInv, HoldsLine, Delivered
<1>2. ASSUME pc \in {"move", "clear", "down"}, pc' \in {"move", "clear", "down", "user", "hung"},
             UNCHANGED <<buff, line, spoiled, erased, residue>>
      PROVE  LineInv'
  BY <1>2 DEF LineInv, Delivered
<1>3. CASE UNCHANGED vars
  BY <1>1, <1>3 DEF vars, ghosts
<1>4. CASE Interrupt
  <2>1. CASE Quiet
    BY <1>1, <2>1 DEF Quiet
  <2>2. CASE Typed(Nul) /\ spoiled' = TRUE
    BY <2>2 DEF LineInv
  <2>3. ASSUME NEW x \in Shown, Typed(x), UNCHANGED spoiled, ~spoiled PROVE LineInv'
    <3>1. /\ pc = "spin" /\ pc' = "spin" /\ scanlen' = scanlen + 1 /\ scanlen < MaxLine
          /\ line' = Append(line, x)
      BY <2>3 DEF Typed
    <3>2. HoldsLine /\ line \in Seq(Shown) /\ scanlen = Len(line)
      BY <2>3, <3>1 DEF LineInv
    <3>3. /\ line' \in Seq(Shown) /\ Len(line') = Len(line) + 1 /\ line'[Len(line) + 1] = x
          /\ \A i \in 1..Len(line) : line'[i] = line[i]
      BY <3>1, <3>2
    <3>4. \A j \in Cells : tempbuff'[j] = IF j = scanlen THEN x ELSE tempbuff[j]
      BY <1>0, <2>3, StoreAt DEF Typed
    <3>5. ASSUME NEW i \in 1..Len(line') PROVE tempbuff'[i - 1] = line'[i]
      <4>1. i - 1 \in Cells
        BY <1>0, <3>1, <3>2, <3>3
      <4>2. CASE i = Len(line) + 1
        <5>1. i - 1 = scanlen
          BY <1>0, <3>2, <4>2
        <5> QED BY <3>3, <3>4, <4>1, <4>2, <5>1
      <4>3. CASE i # Len(line) + 1
        <5>1. i \in 1..Len(line) /\ i - 1 # scanlen
          BY <1>0, <3>2, <3>3, <4>3
        <5> QED BY <3>2, <3>3, <3>4, <4>1, <5>1 DEF HoldsLine
      <4> QED BY <4>2, <4>3
    <3>6. scanlen' = Len(line') /\ Len(line') <= MaxLine
      BY <1>0, <3>1, <3>2, <3>3
    <3> QED BY <3>1, <3>3, <3>5, <3>6 DEF LineInv, HoldsLine
  <2>4. CASE BackspaceKey
    <3> SUFFICES ASSUME ~spoiled' PROVE LineInv'
      BY DEF LineInv
    <3>1. /\ pc' = pc /\ pc # "hung" /\ scanlen' = scanlen - 1 /\ buff' = buff
          /\ ~spoiled
          /\ pc \in {"spin", "copy"} => flag /\ scanlen > 0
          /\ line' = IF flag /\ line # <<>> THEN SubSeq(line, 1, Len(line) - 1) ELSE line
          /\ residue' = (residue \/ pc = "down")
          /\ erased' = (erased \/ pc \in {"spin", "copy"})
      BY <1>0, <2>4 DEF BackspaceKey, Interrupted
    <3>2. CASE pc = "spin"
      <4>1. HoldsLine /\ line \in Seq(Shown) /\ scanlen = Len(line) /\ Len(line) <= MaxLine
        BY <3>1, <3>2 DEF LineInv
      <4>2. line # <<>> /\ line' = SubSeq(line, 1, Len(line) - 1)
        BY <3>1, <3>2, <4>1
      <4>3. /\ line' \in Seq(Shown) /\ Len(line') = Len(line) - 1
            /\ \A i \in 1..(Len(line) - 1) : line'[i] = line[i]
        BY <4>1, <4>2, FrontType
      <4>4. \A j \in Cells : tempbuff'[j] = IF j = scanlen THEN Nul ELSE tempbuff[j]
        BY <1>0, <2>4, StoreAt DEF BackspaceKey
      <4>5. ASSUME NEW i \in 1..Len(line') PROVE tempbuff'[i - 1] = line'[i]
        <5>1. i - 1 \in Cells /\ i - 1 # scanlen /\ i \in 1..Len(line) /\ i \in 1..(Len(line) - 1)
          BY <1>0, <4>1, <4>3
        <5> QED BY <4>1, <4>3, <4>4, <5>1 DEF HoldsLine
      <4>6. scanlen' = Len(line') /\ Len(line') <= MaxLine
        BY <1>0, <3>1, <4>1, <4>3
      <4> QED BY <3>1, <3>2, <4>3, <4>5, <4>6 DEF LineInv, HoldsLine
    <3>3. CASE pc \in {"move", "clear", "down", "user"}
      <4>1. line' = line
        BY <3>1, <3>3 DEF BaseInv
      <4>2. erased' = erased
        BY <1>0, <3>1, <3>3
      <4>3. ~residue' => ~residue
        BY <3>1
      <4>4. Delivered
        BY <3>1, <3>3 DEF LineInv
      <4>5. ~residue' => Len(buff') <= Len(line') + (IF erased' THEN 1 ELSE 0)
        <5>1. ~residue' => Len(buff) <= Len(line) + (IF erased THEN 1 ELSE 0)
          BY <4>3, <4>4 DEF Delivered
        <5>2. (IF erased' THEN 1 ELSE 0) = (IF erased THEN 1 ELSE 0)
          BY <4>2
        <5>3. buff' = buff
          BY <3>1
        <5> QED BY <4>1, <5>1, <5>2, <5>3
      <4>6. Delivered'
        BY <3>1, <4>1, <4>4, <4>5 DEF Delivered
      <4> QED BY <3>1, <3>3, <4>6 DEF LineInv
    <3>4. CASE pc = "copy"
      BY <3>1, <3>4 DEF BaseInv
    <3> QED BY <3>1, <3>2, <3>3, <3>4 DEF BaseInv, TypeOK
  <2>5. ASSUME NEW x \in Shown, Typed(x), UNCHANGED spoiled PROVE LineInv'
    BY <2>3, <2>5 DEF LineInv
  <2> QED BY <1>4, <2>1, <2>2, <2>4, <2>5, InterruptCases
<1>5. CASE Read
  <2> SUFFICES ASSUME ~spoiled' PROVE LineInv'
    BY DEF LineInv
  <2>1. pc = "user" /\ pc' = "spin" /\ line' = <<>> /\ scanlen' = scanlen /\ ~ahead
    BY <1>5 DEF Read
  <2>2. scanlen = 0
    BY <2>1 DEF BaseInv
  <2>3. line' \in Seq(Shown) /\ Len(line') = 0
    BY <2>1
  <2>4. HoldsLine'
    BY <2>3 DEF HoldsLine
  <2>5. Len(line') <= MaxLine
    BY <1>0, <2>3
  <2> QED BY <2>1, <2>2, <2>3, <2>4, <2>5 DEF LineInv
<1>6. CASE LeaveLoop
  <2>1. /\ pc = "spin" /\ pc' = "copy" /\ UNCHANGED <<tempbuff, line, spoiled>>
        /\ scanlen' = Cut /\ residue' = (residue \/ len < scanlen)
    BY <1>6 DEF LeaveLoop
  <2>2. ~residue' => scanlen' = scanlen
    BY <1>0, <2>1 DEF Cut
  <2> QED BY <2>1, <2>2 DEF LineInv, HoldsLine
<1>7. CASE CopyString
  <2> SUFFICES ASSUME ~spoiled' PROVE LineInv'
    BY DEF LineInv
  <2>1. /\ pc = "copy" /\ pc' = "move" /\ UNCHANGED <<line, erased, residue>> /\ ~spoiled
        /\ buff' = String(tempbuff)
    BY <1>7 DEF CopyString, ghosts
  <2>2. HoldsLine /\ line \in Seq(Shown) /\ Len(line) < Size
    BY <1>0, <2>1 DEF LineInv
  <2>3. tempbuff \in [Cells -> Stored]
    BY DEF BaseInv, TypeOK
  <2>4. /\ Len(line) <= Len(buff')
        /\ \A i \in 1..Len(line) : buff'[i] = line[i]
        /\ \A m \in Nat : Empty(m) => Len(buff') <= m
    BY <2>1, <2>2, <2>3, StringOfLine DEF HoldsLine, Empty
  <2>5. ASSUME ~residue PROVE Len(buff') <= Len(line) + (IF erased THEN 1 ELSE 0)
    <3>1. scanlen = Len(line) /\ Empty(IF erased THEN scanlen + 1 ELSE scanlen)
      BY <2>1, <2>5 DEF LineInv, ResidueInv
    <3>2. CASE erased
      <4>1. Empty(Len(line) + 1)
        BY <3>1, <3>2
      <4> QED BY <1>0, <2>4, <3>2, <4>1
    <3>3. CASE ~erased
      <4>1. Empty(Len(line))
        BY <3>1, <3>3
      <4> QED BY <1>0, <2>4, <3>3, <4>1
    <3> QED BY <3>2, <3>3
  <2>6. Delivered'
    BY <2>1, <2>4, <2>5 DEF Delivered
  <2> QED BY <2>1, <2>6 DEF LineInv
<1>8. CASE MoveBytes \/ ClearCell \/ CountDown \/ Return
  BY <1>2, <1>8 DEF MoveBytes, ClearCell, CountDown, Return, ghosts
<1> QED BY <1>3, <1>4, <1>5, <1>6, <1>7, <1>8 DEF Next, Scanf

LEMMA Invariance == Spec => []IInv
<1>1. ASSUME Init PROVE IInv
  <2>1. Len(line) = 0 /\ Len(buff) = 0
    BY <1>1 DEF Init
  <2>2. pc = "user" /\ \A i \in Cells : tempbuff[i] = Nul
    BY <1>1 DEF Init, Cells
  <2>3. Delivered
    BY <2>1 DEF Delivered
  <2> QED BY <1>1, <2>2, <2>3, BaseInit
          DEF IInv, LengthInv, ResidueInv, Empty, LineInv
<1>2. IInv /\ [Next]_vars => IInv'
  BY BaseStep, LengthStep, ResidueStep, LineStep DEF IInv
<1> QED BY <1>1, <1>2, PTL DEF Spec
-----------------------------------------------------------------------------
\* Type correctness, whatever is typed and erased: scanlen stays within the
\* buffer and what strcpy delivers is a string.
THEOREM TypeCorrect == Spec => []TypeOK
<1>1. IInv => TypeOK
  BY DEF IInv, BaseInv
<1> QED BY <1>1, Invariance, PTL

\* A read delivers the line the screen shows, whatever is typed, and whenever
\* the processor is interrupted while the line is copied and cleared, for every
\* length asked for and everything the handlers leave in its register.
THEOREM LineIsRead == Spec => []LineRead
<1>1. IInv => LineRead
  BY DEF IInv, LineInv, Delivered, LineRead
<1> QED BY <1>1, Invariance, PTL

\* memcpy gets a negative length only from a backspace that has nothing to erase
\* or comes behind Enter, or from the timer.
THEOREM CopyIsBounded == Spec => []CopyBounded
<1>1. ASSUME IInv PROVE CopyBounded
  <2>1. scanlen \in Int /\ TickLeaves \in Int
    BY <1>1, KeyboardAssumption DEF IInv, BaseInv, TypeOK
  <2> QED BY <1>1, <2>1 DEF IInv, LengthInv, CopyBounded
<1> QED BY <1>1, Invariance, PTL
=============================================================================
