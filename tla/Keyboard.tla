------------------------------ MODULE Keyboard ------------------------------
(***************************************************************************)
(* Keyboard input, sys/keyboard.c: scanf, called by the read system call,  *)
(* enables interrupts, spins until keyboard_inter_key has seen Enter, and  *)
(* copies and clears the shared buffer with interrupts still enabled, so   *)
(* the handler may run between any two of its statements.  Interrupts are  *)
(* enabled in user mode too.                                               *)
(*                                                                         *)
(* The interrupt entries save no registers (sys/isr.s), and scanf keeps    *)
(* its parameter len in one, esi: while it spins every interrupt leaves    *)
(* something else there.  The constants name what the kernel built from    *)
(* these sources does.                                                     *)
(***************************************************************************)
EXTENDS Integers, Sequences

CONSTANTS Char,         \* keys that stand for a character
          Size,         \* of tempbuff (1024)
          Ask,          \* the length the caller asks for (1 in libc/gets.c)
          EnterLeaves,  \* what Enter's handler leaves in len (10, its character)
          KeyLeaves,    \* what other keys leave (0, 32 or their characters)
          TickLeaves,   \* what the timer leaves (half of an address, negative)
          MaxLine,      \* bound on the line: tempbuff is not overrun
          MaxErase      \* bound on how far scanlen is followed below 0 (24, the
                        \* unused bytes in front of tempbuff)

ASSUME KeyboardAssumption ==
    /\ Size \in Nat /\ Ask \in Nat
    /\ EnterLeaves \in Nat /\ KeyLeaves \subseteq Nat /\ TickLeaves \in Int
    /\ MaxLine \in Nat /\ MaxLine < Size /\ MaxErase \in Nat

VARIABLES pc,           \* where scanf is; "user" when it was not called
          flag, shift_key, scanlen, tempbuff,
          len,
          buff,         \* the string the last read has delivered
          line,         \* ghost: what the screen shows of the line typed for it
          spoiled,      \* ghost: a key without a character was typed for it, or
                        \* a backspace with nothing to erase or behind Enter
          ahead,        \* ghost: backspace was pressed while nobody read
          erased,       \* ghost: the line was edited last by a backspace
          residue       \* ghost: a line was cut, or a backspace came between the
                        \* two statements of the clearing loop

ghosts == <<line, spoiled, ahead, erased, residue>>
vars == <<pc, flag, shift_key, scanlen, tempbuff, len, buff, ghosts>>

Nul == <<"NUL", "none">>
Shown == Char \X {"small", "caps"}          \* kbsmall and kbcaps
Stored == Shown \cup {Nul}

\* tempbuff[i] = x; what is in front of the buffer is not used
Store(i, x) == [j \in 0..(Size - 1) |-> IF j = i THEN x ELSE tempbuff[j]]
-----------------------------------------------------------------------------
(* keyboard_inter_key and the timer's handler.  In "hung" the processor is *)
(* lost.                                                                   *)

\* an interrupt arrives and leaves a member of S in the register, which scanf
\* uses only while it spins
Interrupted(S) ==
    /\ pc # "hung"
    /\ len' \in IF pc = "spin" THEN S ELSE {len}

Shape(c) == <<c, IF shift_key THEN "caps" ELSE "small">>

\* A key of the tables is echoed; it is kept only while scanf waits.  The shift
\* is used up by it: the release of the shift key is never recognised.
TableKey(x) ==
    /\ Interrupted(KeyLeaves)
    /\ flag => scanlen < MaxLine
    /\ shift_key' = FALSE
    /\ IF flag
       THEN /\ tempbuff' = Store(scanlen, x)
            /\ scanlen' = scanlen + 1
            /\ line' = Append(line, x)
            /\ erased' = FALSE
       ELSE UNCHANGED <<tempbuff, scanlen, line, erased>>
    /\ UNCHANGED <<pc, flag, buff, ahead, residue>>

CharKey(c) == TableKey(Shape(c)) /\ UNCHANGED spoiled

\* Control, Alt, F1 and the like: the tables have a 0 for them
NulKey == TableKey(Nul) /\ spoiled' = (spoiled \/ flag)

EnterKey ==
    /\ Interrupted({EnterLeaves})
    /\ flag' = FALSE
    /\ shift_key' = FALSE
    /\ UNCHANGED <<pc, scanlen, tempbuff, buff, ghosts>>

\* The cell behind the last character is cleared, not the character's own, and
\* scanlen is not tested; nor is flag.
BackspaceKey ==
    /\ Interrupted(KeyLeaves)
    /\ scanlen > -MaxErase
    /\ tempbuff' = Store(scanlen, Nul)
    /\ scanlen' = scanlen - 1
    /\ line' = IF flag /\ line # <<>> THEN SubSeq(line, 1, Len(line) - 1) ELSE line
    /\ spoiled' = (\/ spoiled
                   \/ pc \in {"spin", "copy", "move"} /\ scanlen <= 0
                   \/ pc \in {"spin", "copy"} /\ ~flag)
    /\ ahead' = (ahead \/ pc = "user")
    /\ erased' = (erased \/ pc \in {"spin", "copy"})
    /\ residue' = (residue \/ pc = "down")
    /\ UNCHANGED <<pc, flag, shift_key, buff>>

ShiftKey ==
    /\ Interrupted(KeyLeaves)
    /\ shift_key' = TRUE
    /\ UNCHANGED <<pc, flag, scanlen, tempbuff, buff, ghosts>>

KeyRelease ==
    /\ Interrupted(KeyLeaves)
    /\ UNCHANGED <<pc, flag, shift_key, scanlen, tempbuff, buff, ghosts>>

Tick ==
    /\ Interrupted({TickLeaves})
    /\ UNCHANGED <<pc, flag, shift_key, scanlen, tempbuff, buff, ghosts>>
-----------------------------------------------------------------------------
(* scanf, statement by statement.                                          *)

Read ==
    /\ pc = "user"
    /\ pc' = "spin"
    /\ flag' = TRUE
    /\ len' = Ask
    /\ line' = <<>>
    /\ spoiled' = ahead
    /\ ahead' = FALSE
    /\ erased' = FALSE
    /\ buff' = <<>>
    /\ UNCHANGED <<shift_key, scanlen, tempbuff, residue>>

\* what is kept of the line: at most len characters
CutAlways == len
CutShort == IF len < scanlen THEN len - 1 ELSE scanlen
Cut == IF len < scanlen THEN len ELSE scanlen

\* The loop on flag ends and the line is cut; the register is free from here on.
LeaveLoop ==
    /\ pc = "spin" /\ ~flag
    /\ pc' = "copy"
    /\ scanlen' = Cut
    /\ residue' = (residue \/ len < scanlen)
    /\ len' = 0
    /\ UNCHANGED <<flag, shift_key, tempbuff, buff, line, spoiled, ahead, erased>>

\* tempbuff up to its first NUL
String(tb) ==
    LET n == CHOOSE n \in 0..Size : /\ n < Size => tb[n] = Nul
                                    /\ \A i \in 0..(n - 1) : tb[i] # Nul
    IN  [i \in 1..n |-> tb[i - 1]]

\* strcpy, which is not told of scanlen
CopyString ==
    /\ pc = "copy"
    /\ pc' = "move"
    /\ buff' = String(tempbuff)
    /\ UNCHANGED <<flag, shift_key, scanlen, tempbuff, len, ghosts>>

\* memcpy of scanlen bytes, the ones strcpy has copied; it does not end when
\* scanlen is negative
MoveBytes ==
    /\ pc = "move"
    /\ pc' = IF scanlen < 0 THEN "hung" ELSE "clear"
    /\ UNCHANGED <<flag, shift_key, scanlen, tempbuff, len, buff, ghosts>>

\* the condition of the loop that clears what was read
ClearingToOne == scanlen > 0
Clearing == scanlen >= 0

ClearCell ==
    /\ pc = "clear" /\ Clearing
    /\ pc' = "down"
    /\ tempbuff' = Store(scanlen, Nul)
    /\ UNCHANGED <<flag, shift_key, scanlen, len, buff, ghosts>>

\* the end of a turn; one that forgets to count down
CountSticks ==
    /\ pc = "down"
    /\ pc' = "clear"
    /\ UNCHANGED <<flag, shift_key, scanlen, tempbuff, len, buff, ghosts>>

CountDown ==
    /\ pc = "down"
    /\ pc' = "clear"
    /\ scanlen' = scanlen - 1
    /\ UNCHANGED <<flag, shift_key, tempbuff, len, buff, ghosts>>

Return ==
    /\ pc = "clear" /\ ~Clearing
    /\ pc' = "user"
    /\ scanlen' = 0
    /\ UNCHANGED <<flag, shift_key, tempbuff, len, buff, ghosts>>

Scanf == LeaveLoop \/ CopyString \/ MoveBytes \/ ClearCell \/ CountDown \/ Return
-----------------------------------------------------------------------------
Init ==
    /\ pc = "user"
    /\ flag = FALSE
    /\ shift_key = FALSE
    /\ scanlen = 0
    /\ tempbuff = [i \in 0..(Size - 1) |-> Nul]
    /\ len = 0
    /\ buff = <<>>
    /\ line = <<>>
    /\ spoiled = FALSE /\ ahead = FALSE /\ erased = FALSE /\ residue = FALSE

Interrupt ==
    \/ \E c \in Char : CharKey(c)
    \/ NulKey
    \/ EnterKey
    \/ BackspaceKey
    \/ ShiftKey
    \/ KeyRelease
    \/ Tick

Next == Read \/ Scanf \/ Interrupt

\* Interrupts do not keep the processor from scanf; nobody has to type.
Spec == Init /\ [][Next]_vars /\ WF_vars(Scanf)
-----------------------------------------------------------------------------
\* scanlen is bounded by the line and, below, by the backspaces followed and one
\* turn of the clearing loop; else it is what the timer left.
TypeOK ==
    /\ pc \in {"user", "spin", "copy", "move", "clear", "down", "hung"}
    /\ flag \in BOOLEAN
    /\ shift_key \in BOOLEAN
    /\ scanlen \in -(MaxErase + 1)..MaxLine \/ scanlen = TickLeaves
    /\ tempbuff \in [0..(Size - 1) -> Stored]
    /\ len \in {0, Ask, EnterLeaves, TickLeaves} \cup KeyLeaves
    /\ buff \in Seq(Shown)
    /\ line \in Seq(Stored)
    /\ spoiled \in BOOLEAN /\ ahead \in BOOLEAN
    /\ erased \in BOOLEAN /\ residue \in BOOLEAN

\* A read delivers the line the screen shows, whatever was typed while it was
\* copied and however len was clobbered; behind it comes at most the character
\* erased last, unless an earlier line or a backspace left something in the
\* buffer.
LineRead ==
    pc = "user" /\ ~spoiled =>
        /\ Len(line) <= Len(buff)
        /\ \A i \in 1..Len(line) : buff[i] = line[i]
        /\ ~residue => Len(buff) <= Len(line) + (IF erased THEN 1 ELSE 0)

\* memcpy gets a negative length, and scanf does not come back, only because of
\* a backspace with nothing to erase or behind Enter, or because the timer ticked
\* between Enter's handler and the test of flag.
CopyBounded == pc = "hung" => spoiled \/ scanlen = TickLeaves

\* Enter ends the read, whatever is typed while the line is copied and cleared,
\* unless memcpy is lost.
ReadReturns == (pc = "spin" /\ ~flag) ~> pc \in {"user", "hung"}

\* Backspace takes the character off the line that is read.
EraseRead == pc = "user" /\ ~spoiled /\ ~residue => buff = line
=============================================================================
