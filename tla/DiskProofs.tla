----------------------------- MODULE DiskProofs -----------------------------
(***************************************************************************)
(* What the AHCI driver may rely on, for any controller, any number of     *)
(* slots and sectors, and errors at any command.                           *)
(***************************************************************************)
EXTENDS Disk, TLAPS

Issuing == {"busy", "wait", "error", "again"}       \* a command is put together
Waiting == {"wait", "error"}                        \* it may be executed

Value(s) == s \div PerValue                         \* what probe_port writes to s

\* Until an error the driver has at most one command with the controller, the
\* one it is waiting for; an error ends the work of the controller.
EngineInv ==
    /\ pc \in {"probe", "stop", "stopping", "start"} => ci = {}
    /\ tfes => halted
    /\ ~halted => ci \subseteq (IF pc \in Waiting THEN {slot} ELSE {})
    /\ active # NoSlot => ~halted /\ active = slot /\ slot \in ci /\ pc \in Waiting

\* The command in the slot is the one the driver is at, and so is the buffer.
CommandInv ==
    /\ pc \in Issuing => table[slot] = Command
    /\ pc \in Issuing /\ writing => buffer = Value(sector)
    /\ pc \in {"busy", "again"} => slot \notin ci

\* A command that has left PxCI without an error has had its effect.
Completed == IF writing THEN disk[sector] = Value(sector) ELSE newBuf = disk[sector]
CompletedInv == pc \in {"wait", "error", "again"} /\ ~tfes /\ slot \notin ci => Completed

\* What is on the disk and what was reported of it.
DiskInv ==
    /\ \A s \in Sector : disk[s] \in {NoValue, Value(s)}
    /\ \A s \in Sector : done[<<s, TRUE>>] = "TRUE" => disk[s] = Value(s)
    /\ writing => \A s \in Sector : done[<<s, FALSE>>] = "pending"

IInv == TypeOK /\ EngineInv /\ CommandInv /\ CompletedInv /\ DiskInv /\ ReadBack
-----------------------------------------------------------------------------
LEMMA Sizes ==
    /\ MaxSlots \in Nat \ {0} /\ SpinLimit \in Nat \ {0}
    /\ Sectors \in Nat \ {0} /\ PerValue \in Nat \ {0}
BY DiskAssumption

LEMMA ValueType == \A s \in Sector : Value(s) \in Sector
<1> SUFFICES ASSUME NEW s \in Sector PROVE Value(s) \in Sector
  OBVIOUS
<1>1. s \in Nat /\ s < Sectors /\ PerValue \in Nat /\ PerValue >= 1 /\ Sectors \in Nat
  BY Sizes DEF Sector
<1>2. \A a \in Nat, b \in Nat : b >= 1 => a \div b \in Nat /\ a \div b <= a
  OBVIOUS
<1> QED BY <1>1, <1>2 DEF Sector, Value

LEMMA NoValueNew == NoValue \notin Sector /\ NoSlot \notin Slot /\ 0 \in Slot /\ 0 \in Sector
BY Sizes DEF NoValue, Sector, NoSlot, Slot

LEMMA ReturnType ==
    ASSUME TypeOK, NEW ok \in BOOLEAN, Return(ok)
    PROVE  /\ done' \in [Sector \X BOOLEAN -> {"pending", "TRUE", "FALSE"}]
           /\ printed' \in [Sector -> Sector \cup {NoValue}]
           /\ sector' \in Sector /\ writing' \in BOOLEAN
           /\ pc' \in {"begin", "over"}
<1>1. sector \in Sector /\ writing \in BOOLEAN /\ <<sector, writing>> \in Sector \X BOOLEAN
  BY DEF TypeOK
<1>2. done' \in [Sector \X BOOLEAN -> {"pending", "TRUE", "FALSE"}]
  BY <1>1 DEF TypeOK, Return
<1>3. printed' \in [Sector -> Sector \cup {NoValue}]
  BY <1>1 DEF TypeOK, Return
<1>4. sector' \in Sector
  <2>1. sector' = IF sector + 1 < Sectors THEN sector + 1 ELSE 0
    BY DEF Return
  <2> QED BY <1>1, <2>1, Sizes DEF Sector
<1>5. writing' \in BOOLEAN
  BY <1>1 DEF Return
<1>6. pc' \in {"begin", "over"}
  BY DEF Return
<1> QED BY <1>2, <1>3, <1>4, <1>5, <1>6

LEMMA TransferType ==
    ASSUME TypeOK, active # NoSlot, Transfer
    PROVE  disk' \in [Sector -> Sector \cup {NoValue}] /\ newBuf' \in Sector \cup {NoValue}
<1>1. table[active] \in [w : BOOLEAN, lba : Sector] /\ active \in Slot
  BY DEF TypeOK
<1> QED BY <1>1 DEF TypeOK, Transfer

LEMMA TypeStep ==
    ASSUME TypeOK, [Next]_vars
    PROVE  TypeOK'
<1> USE NoValueNew DEF TypeOK
<1>1. CASE UNCHANGED vars
  BY <1>1 DEF vars, driverVars
<1>2. CASE Probe
  BY <1>2 DEF Probe, resetGHC
<1>3. CASE ClearST
  BY <1>3 DEF ClearST
<1>4. CASE Rebase
  BY <1>4 DEF Rebase
<1>5. CASE start_cmd
  BY <1>5 DEF start_cmd
<1>6. CASE Begin
  <2>1. Command \in [w : BOOLEAN, lba : Sector]
    BY DEF Command
  <2>2. PICK s \in Slot : slot' = s /\ table' = [table EXCEPT ![s] = Command]
    BY <1>6 DEF Begin
  <2>3. buffer' \in Sector
    BY <1>6, ValueType DEF Begin, Value
  <2>4. 0 \in 0..SpinLimit
    BY Sizes
  <2>5. table' \in [Slot -> [w : BOOLEAN, lba : Sector]]
    BY <2>1, <2>2
  <2> QED BY <1>6, <2>2, <2>3, <2>4, <2>5 DEF Begin
<1>7. CASE NoSlotFree
  BY <1>7, ReturnType DEF NoSlotFree, Return
<1>8. CASE Spin
  <2>1. spin' \in 0..SpinLimit
    BY <1>8, Sizes DEF Spin
  <2> QED BY <1>8, <2>1 DEF Spin
<1>9. CASE PortHung
  BY <1>9, ReturnType DEF PortHung, Return
<1>10. CASE Issue
  BY <1>10 DEF Issue
<1>11. CASE LookAtCI
  BY <1>11 DEF LookAtCI, GoTo
<1>12. CASE LookAtIS
  BY <1>12, ReturnType DEF LookAtIS, GoTo, Return
<1>13. CASE CheckAgain
  <2>1. (~tfes) \in BOOLEAN /\ Return(~tfes)
    BY <1>13 DEF CheckAgain
  <2> QED BY <1>13, <2>1, ReturnType DEF CheckAgain, Return
<1>14. CASE Follow
  BY <1>14 DEF Follow, deviceKeeps, driverVars
<1>15. CASE Busy
  BY <1>15 DEF Busy, deviceKeeps, driverVars
<1>16. ASSUME NEW s \in Slot, Take(s) PROVE TypeOK'
  BY <1>16 DEF Take, deviceKeeps, driverVars
<1>17. CASE Finish
  BY <1>17, TransferType DEF Finish, deviceKeeps, driverVars
<1>18. CASE Fail
  BY <1>18, TransferType DEF Fail, deviceKeeps, driverVars
<1> QED BY <1>1, <1>2, <1>3, <1>4, <1>5, <1>6, <1>7, <1>8, <1>9, <1>10, <1>11, <1>12,
           <1>13, <1>14, <1>15, <1>16, <1>17, <1>18 DEF Next, DriverStep

LEMMA EngineStep ==
    ASSUME TypeOK, EngineInv, CommandInv, [Next]_vars
    PROVE  EngineInv'
<1> USE NoValueNew DEF EngineInv, Waiting
<1>1. CASE UNCHANGED vars
  BY <1>1 DEF vars, driverVars
<1>2. CASE Probe
  BY <1>2 DEF Probe, resetGHC
<1>3. CASE ClearST
  BY <1>3 DEF ClearST
<1>4. CASE Rebase
  BY <1>4 DEF Rebase
<1>5. CASE start_cmd
  BY <1>5 DEF start_cmd
<1>6. CASE Begin
  BY <1>6 DEF Begin
<1>7. CASE NoSlotFree
  BY <1>7 DEF NoSlotFree, Return
<1>8. CASE Spin
  BY <1>8 DEF Spin
<1>9. CASE PortHung
  BY <1>9 DEF PortHung, Return
<1>10. CASE Issue
  BY <1>10 DEF Issue
<1>11. CASE LookAtCI
  BY <1>11 DEF LookAtCI, GoTo
<1>12. CASE LookAtIS
  BY <1>12 DEF LookAtIS, GoTo, Return
<1>13. CASE CheckAgain
  BY <1>13 DEF CheckAgain, Return, CommandInv
<1>14. CASE Follow
  BY <1>14 DEF Follow, deviceKeeps, driverVars
<1>15. CASE Busy
  BY <1>15 DEF Busy, deviceKeeps, driverVars
<1>16. ASSUME NEW s \in Slot, Take(s) PROVE EngineInv'
  BY <1>16 DEF Take, deviceKeeps, driverVars
<1>17. CASE Finish
  BY <1>17 DEF Finish, deviceKeeps, driverVars
<1>18. CASE Fail
  BY <1>18 DEF Fail, deviceKeeps, driverVars
<1> QED BY <1>1, <1>2, <1>3, <1>4, <1>5, <1>6, <1>7, <1>8, <1>9, <1>10, <1>11, <1>12,
           <1>13, <1>14, <1>15, <1>16, <1>17, <1>18 DEF Next, DriverStep

LEMMA CommandStep ==
    ASSUME TypeOK, EngineInv, CommandInv, [Next]_vars
    PROVE  CommandInv'
<1> USE DEF CommandInv, Issuing, Command, Value
<1>1. CASE UNCHANGED vars
  BY <1>1 DEF vars, driverVars
<1>2. CASE pc' \in {"begin", "over", "stop", "stopping", "start"}
  BY <1>2
<1>3. CASE Begin
  <2>1. PICK s \in Slot : /\ find_cmdslot(s) /\ slot' = s
                          /\ table' = [table EXCEPT ![s] = Command]
    BY <1>3 DEF Begin
  <2>2. table'[slot'] = Command /\ slot' \notin ci
    BY <2>1 DEF TypeOK, find_cmdslot, FreeSlots
  <2> QED BY <1>3, <2>2 DEF Begin
<1>4. CASE Spin
  BY <1>4 DEF Spin
<1>5. CASE Issue
  BY <1>5 DEF Issue
<1>6. CASE LookAtCI
  BY <1>6 DEF LookAtCI, GoTo
<1>7. CASE LookAtIS
  BY <1>7 DEF LookAtIS, GoTo, Return
<1>8. CASE Follow
  BY <1>8 DEF Follow, deviceKeeps, driverVars
<1>9. CASE Busy
  BY <1>9 DEF Busy, deviceKeeps, driverVars
<1>10. ASSUME NEW s \in Slot, Take(s) PROVE CommandInv'
  BY <1>10 DEF Take, deviceKeeps, driverVars
<1>11. CASE Finish
  BY <1>11 DEF Finish, deviceKeeps, driverVars
<1>12. CASE Fail
  BY <1>12 DEF Fail, deviceKeeps, driverVars
<1>13. Probe \/ ClearST \/ Rebase \/ start_cmd \/ NoSlotFree \/ PortHung \/ CheckAgain
          => pc' \in {"begin", "over", "stop", "stopping", "start"}
  BY DEF Probe, ClearST, Rebase, start_cmd, NoSlotFree, PortHung, CheckAgain, Return
<1> QED BY <1>1, <1>2, <1>3, <1>4, <1>5, <1>6, <1>7, <1>8, <1>9, <1>10, <1>11, <1>12, <1>13
           DEF Next, DriverStep

\* The controller executes the command the driver is at.
LEMMA TransferEffect ==
    ASSUME TypeOK, EngineInv, CommandInv, active # NoSlot, Transfer
    PROVE  /\ writing => disk' = [disk EXCEPT ![sector] = Value(sector)] /\ newBuf' = newBuf
           /\ ~writing => newBuf' = disk[sector] /\ disk' = disk
<1>1. active = slot /\ pc \in Issuing
  BY DEF EngineInv, Waiting, Issuing
<1>2. table[active] = Command /\ (writing => buffer = Value(sector))
  BY <1>1 DEF CommandInv
<1>3. Command.w = writing /\ Command.lba = sector
  BY DEF Command
<1> QED BY <1>2, <1>3 DEF Transfer

LEMMA CompletedStep ==
    ASSUME TypeOK, EngineInv, CommandInv, CompletedInv, [Next]_vars
    PROVE  CompletedInv'
<1> USE DEF CompletedInv, Completed, Value
<1>1. CASE UNCHANGED vars
  BY <1>1 DEF vars, driverVars
<1>2. CASE pc' \in {"begin", "over", "stop", "stopping", "start", "busy"}
  BY <1>2
<1>3. CASE Issue
  BY <1>3 DEF Issue
<1>4. CASE LookAtCI
  BY <1>4 DEF LookAtCI, GoTo
<1>5. CASE LookAtIS
  BY <1>5 DEF LookAtIS, GoTo, Return
<1>6. CASE Follow
  BY <1>6 DEF Follow, deviceKeeps, driverVars
<1>7. CASE Busy
  BY <1>7 DEF Busy, deviceKeeps, driverVars
<1>8. ASSUME NEW s \in Slot, Take(s) PROVE CompletedInv'
  BY <1>8 DEF Take, deviceKeeps, driverVars
<1>9. CASE Finish
  <2>1. /\ writing => disk' = [disk EXCEPT ![sector] = Value(sector)]
        /\ ~writing => newBuf' = disk[sector] /\ disk' = disk
    BY <1>9, TransferEffect DEF Finish
  <2>2. UNCHANGED <<writing, sector>>
    BY <1>9 DEF Finish, deviceKeeps, driverVars
  <2> QED BY <2>1, <2>2 DEF TypeOK
<1>10. CASE Fail
  BY <1>10 DEF Fail
<1>11. Probe \/ ClearST \/ Rebase \/ start_cmd \/ Begin \/ NoSlotFree \/ Spin \/ PortHung \/ CheckAgain
          => pc' \in {"begin", "over", "stop", "stopping", "start", "busy"}
  BY DEF Probe, ClearST, Rebase, start_cmd, Begin, NoSlotFree, Spin, PortHung, CheckAgain, Return
<1> QED BY <1>1, <1>2, <1>3, <1>4, <1>5, <1>6, <1>7, <1>8, <1>9, <1>10, <1>11
           DEF Next, DriverStep

\* A report of TRUE needs the command to be completed.
LEMMA ReturnInv ==
    ASSUME TypeOK, DiskInv, ReadBack, NEW ok \in BOOLEAN, ok => Completed, Return(ok)
    PROVE  DiskInv' /\ ReadBack'
<1>1. sector \in Sector /\ writing \in BOOLEAN /\ disk' = disk /\ newBuf' = newBuf
  BY DEF TypeOK, Return
<1>2. \A s \in Sector : \A w \in BOOLEAN : done'[<<s, w>>] =
        IF s = sector /\ w = writing THEN (IF ok THEN "TRUE" ELSE "FALSE") ELSE done[<<s, w>>]
  BY <1>1 DEF TypeOK, Return
<1>3. writing' => writing
  BY <1>1 DEF Return
<1>4. DiskInv'
  <2>1. \A s \in Sector : disk'[s] \in {NoValue, Value(s)}
    BY <1>1 DEF DiskInv
  <2>2. \A s \in Sector : done'[<<s, TRUE>>] = "TRUE" => disk'[s] = Value(s)
    BY <1>1, <1>2 DEF DiskInv, Completed
  <2>3. writing' => \A s \in Sector : done'[<<s, FALSE>>] = "pending"
    BY <1>1, <1>2, <1>3 DEF DiskInv
  <2> QED BY <2>1, <2>2, <2>3 DEF DiskInv, Value
<1>5. ReadBack'
  <2> SUFFICES ASSUME NEW s \in Sector, done'[<<s, TRUE>>] = "TRUE", done'[<<s, FALSE>>] = "TRUE"
               PROVE  printed'[s] = Value(s)
    BY DEF ReadBack, Value
  <2>1. CASE writing
    BY <1>1, <1>2, <2>1 DEF DiskInv
  <2>2. CASE ~writing /\ s = sector
    <3>1. ok /\ disk[s] = Value(s)
      BY <1>1, <1>2, <2>2 DEF DiskInv
    <3>2. printed'[s] = newBuf
      BY <1>1, <2>2 DEF Return, TypeOK
    <3> QED BY <2>2, <3>1, <3>2 DEF Completed
  <2>3. CASE ~writing /\ s # sector
    <3>1. printed'[s] = printed[s]
      BY <1>1, <2>3 DEF Return, TypeOK
    <3> QED BY <1>1, <1>2, <2>3, <3>1 DEF ReadBack, Value
  <2> QED BY <2>1, <2>2, <2>3
<1> QED BY <1>4, <1>5

LEMMA DiskStep ==
    ASSUME TypeOK, EngineInv, CommandInv, CompletedInv, DiskInv, ReadBack, [Next]_vars
    PROVE  DiskInv' /\ ReadBack'
<1>1. CASE UNCHANGED <<disk, done, writing, printed>>
  BY <1>1 DEF DiskInv, ReadBack, Value
<1>2. CASE NoSlotFree
  BY <1>2, ReturnInv DEF NoSlotFree
<1>3. CASE PortHung
  BY <1>3, ReturnInv DEF PortHung
<1>4. CASE LookAtIS
  BY <1>1, <1>4, ReturnInv DEF LookAtIS, GoTo
<1>5. CASE CheckAgain
  <2>1. (~tfes) \in BOOLEAN /\ Return(~tfes)
    BY <1>5 DEF CheckAgain
  <2>2. ~tfes => Completed
    BY <1>5 DEF CheckAgain, CompletedInv, CommandInv
  <2> QED BY <2>1, <2>2, ReturnInv
<1>6. ASSUME active # NoSlot, Transfer, UNCHANGED <<done, writing, printed>>
      PROVE  DiskInv' /\ ReadBack'
  <2>1. CASE ~writing
    BY <1>1, <1>6, <2>1, TransferEffect
  <2>2. CASE writing
    <3>1. \A s \in Sector : disk'[s] = IF s = sector THEN Value(s) ELSE disk[s]
      BY <1>6, <2>2, TransferEffect DEF TypeOK
    <3>2. DiskInv'
      BY <1>6, <3>1 DEF DiskInv, Value
    <3> QED BY <1>6, <3>2 DEF ReadBack
  <2> QED BY <2>1, <2>2
<1>7. CASE Finish
  BY <1>6, <1>7 DEF Finish, deviceKeeps, driverVars
<1>8. CASE Fail
  BY <1>1, <1>6, <1>8 DEF Fail, deviceKeeps, driverVars
<1>9. Probe \/ ClearST \/ Rebase \/ start_cmd \/ Begin \/ Spin \/ Issue \/ LookAtCI
        => UNCHANGED <<disk, done, writing, printed>>
  BY DEF Probe, ClearST, Rebase, start_cmd, Begin, Spin, Issue, LookAtCI, GoTo
<1>10. Follow \/ Busy \/ (\E s \in Slot : Take(s)) \/ UNCHANGED vars
        => UNCHANGED <<disk, done, writing, printed>>
  BY DEF Follow, Busy, Take, deviceKeeps, driverVars, vars
<1> QED BY <1>1, <1>2, <1>3, <1>4, <1>5, <1>7, <1>8, <1>9, <1>10 DEF Next, DriverStep

\* The inductive invariant holds in every reachable state.
THEOREM Invariance == Spec => []IInv
<1>1. Init => IInv
  <2> SUFFICES ASSUME Init PROVE IInv
    OBVIOUS
  <2> USE NoValueNew, Sizes DEF Init
  <2>1. TypeOK
    <3>1. sata \in DOMAIN ports /\ ports \in PortSets
      BY DiskAssumption
    <3>2. spin \in 0..SpinLimit /\ cmdslots \in 0..MaxSlots
      OBVIOUS
    <3>3. done \in [Sector \X BOOLEAN -> {"pending", "TRUE", "FALSE"}]
      OBVIOUS
    <3>4. table \in [Slot -> [w : BOOLEAN, lba : Sector]]
      OBVIOUS
    <3> QED BY <3>1, <3>2, <3>3, <3>4 DEF TypeOK
  <2>2. EngineInv /\ CommandInv /\ CompletedInv
    BY DEF EngineInv, CommandInv, CompletedInv, Waiting, Issuing
  <2>3. \A s \in Sector : done[<<s, TRUE>>] = "pending" /\ done[<<s, FALSE>>] = "pending"
    OBVIOUS
  <2>4. DiskInv /\ ReadBack
    BY <2>3 DEF DiskInv, ReadBack
  <2> QED BY <2>1, <2>2, <2>4 DEF IInv
<1>2. IInv /\ [Next]_vars => IInv'
  BY TypeStep, EngineStep, CommandStep, CompletedStep, DiskStep DEF IInv
<1> QED BY <1>1, <1>2, PTL DEF Spec

\* Type correctness.
THEOREM TypeCorrect == Spec => []TypeOK
<1>1. IInv => TypeOK
  BY DEF IInv
<1> QED BY <1>1, Invariance, PTL

\* What was reported as written and as read back is what was written.
THEOREM ReadsBack == Spec => []ReadBack
<1>1. IInv => ReadBack
  BY DEF IInv
<1> QED BY <1>1, Invariance, PTL

\* A command table is not touched while the controller has the command.
THEOREM TableKept == Spec => TableIntact
<1>1. ASSUME IInv, [Next]_vars
      PROVE  [\A s \in ci : s \in ci' => table'[s] = table[s]]_vars
  <2>1. CASE UNCHANGED table
    BY <2>1
  <2>2. CASE Rebase
    BY <1>1, <2>2 DEF Rebase, IInv, EngineInv
  <2>3. CASE Begin
    <3>1. PICK s \in Slot : find_cmdslot(s) /\ table' = [table EXCEPT ![s] = Command]
      BY <2>3 DEF Begin
    <3>2. s \notin ci /\ ci \subseteq Slot /\ table \in [Slot -> [w : BOOLEAN, lba : Sector]]
      BY <1>1, <3>1 DEF find_cmdslot, FreeSlots, IInv, TypeOK
    <3> QED BY <3>1, <3>2
  <2>4. CASE UNCHANGED vars
    BY <2>4
  <2> QED BY <1>1, <2>1, <2>2, <2>3, <2>4
        DEF Next, DriverStep, Probe, ClearST, start_cmd, NoSlotFree, Spin, PortHung, Issue,
            LookAtCI, LookAtIS, CheckAgain, GoTo, Return, Follow, Busy, Take, Finish, Fail,
            deviceKeeps, driverVars
<1>2. Spec => [][Next]_vars
  BY PTL DEF Spec
<1> QED BY <1>1, <1>2, Invariance, PTL DEF TableIntact
=============================================================================
