---------------------------- MODULE ShellProofs ----------------------------
(***************************************************************************)
(* The shell and its programs are one use of the process layer: every      *)
(* behaviour of Shell is a behaviour of Tasks, so what is proved of Tasks  *)
(* for arbitrary user code holds for the shell.                            *)
(***************************************************************************)
EXTENDS Shell, TasksProofs

\* Each step of a program is the system call, or the trap, of Tasks it makes.
LEMMA ShellStep == ASSUME TypeOK, child \in Pid, victim \in Pid, [ShellNext]_shellVars
                   PROVE  [Next]_vars
<1> USE ShellAssumption
<1>1. CASE UNCHANGED shellVars
  BY <1>1 DEF shellVars
<1>2. ASSUME NEW s \in Site, Trap(s) PROVE [Next]_vars
  BY <1>2 DEF Next
<1>3. CASE Prompt \/ NestedShell
  BY <1>2, <1>3 DEF Prompt, NestedShell
<1>4. CASE UserFault
  BY <1>4 DEF Next
<1>5. CASE UtilWork \/ UtilRead
  BY <1>2, <1>5 DEF UtilWork, UtilRead
<1>6. CASE BareCommand \/ UtilFault \/ PastExit
  BY <1>4, <1>6 DEF BareCommand, UtilFault, PastExit
<1>7. CASE RunCommand
  BY <1>7 DEF RunCommand, Next
<1>8. CASE AwaitCommand
  BY <1>8 DEF AwaitCommand, Next
<1>9. CASE KillWork
  BY <1>9 DEF KillWork, Next
<1>10. CASE ProgramExit
  BY <1>10 DEF ProgramExit, Next
<1>11. CASE UserStep
  BY <1>2, <1>11 DEF UserStep, LeaveShell, ReadLine, StartCommand, Next
<1> QED BY <1>1, <1>3, <1>5, <1>6, <1>7, <1>8, <1>9, <1>10, <1>11
        DEF ShellNext, ProgramStep

\* The pids the shell passes on are pids.
OwnInv == child \in Pid /\ victim \in Pid

LEMMA OwnStep == ASSUME IInv, OwnInv, [ShellNext]_shellVars, IInv' PROVE OwnInv'
<1>1. CASE UNCHANGED ownVars
  BY <1>1 DEF ownVars, OwnInv
<1>2. CASE RunCommand
  BY <1>2 DEF RunCommand, OwnInv
<1>3. CASE UserStep /\ ~UNCHANGED ownVars
  <2>1. PICK c \in Command, p \in Pid \ {0} : StartCommand(c, p)
    BY <1>3 DEF UserStep, LeaveShell, ReadLine
  <2>2. victim' \in Pid
    BY <2>1 DEF StartCommand
  <2>3. child' \in Pid
    <3>1. CASE NoMemory
      BY <2>1, <3>1 DEF StartCommand, OwnInv
    <3>2. CASE ~NoMemory
      <4>1. child' = pid'[NewTask] /\ Fork("fork")
        BY <2>1, <3>2 DEF StartCommand
      <4>2. NewTask \in Task
        <5>1. procList \in Seq(Task) /\ Len(procList) \in 1..Len(procList)
          BY DEF IInv, TypeOK, Permuted
        <5>2. \E k \in 1..Len(procList) : procList[k] = Len(procList)
          BY <5>1 DEF IInv, Permuted
        <5>3. Len(procList) \in Task
          BY <5>1, <5>2
        <5> QED BY <3>2, <5>3, ConstantsAssumption DEF NewTask, NoMemory, Task
      <4>3. pid' \in [Task -> Pid]
        BY DEF IInv, TypeOK
      <4> QED BY <4>1, <4>2, <4>3
    <3> QED BY <3>1, <3>2
  <2> QED BY <2>2, <2>3 DEF OwnInv
<1>4. CASE ~(UNCHANGED ownVars \/ RunCommand \/ UserStep)
  BY <1>4 DEF ShellNext, ProgramStep, Prompt, NestedShell, BareCommand, AwaitCommand,
              UtilWork, UtilRead, UtilFault, KillWork, ProgramExit, PastExit,
              shellVars, ownVars
<1> QED BY <1>1, <1>2, <1>3, <1>4

LEMMA ShellInvariance == ShellSpec => [](IInv /\ OwnInv)
<1>1. ShellInit => IInv /\ OwnInv
  BY InitInv, ConstantsAssumption DEF ShellInit, OwnInv, Pid
<1>2. IInv /\ OwnInv /\ [ShellNext]_shellVars => (IInv /\ OwnInv)'
  <2> SUFFICES ASSUME IInv, OwnInv, [ShellNext]_shellVars PROVE IInv' /\ OwnInv'
    OBVIOUS
  <2>1. [Next]_vars
    BY ShellStep DEF IInv, OwnInv
  <2>2. IInv'
    BY <2>1, NextInv
  <2> QED BY <2>2, OwnStep
<1> QED BY <1>1, <1>2, PTL DEF ShellSpec

\* sbush and the utilities use the process layer only through its system
\* calls: the composed system implements the specification of that layer.
THEOREM ShellImplementsTasks == ShellSpec => Spec
<1>1. ShellInit => Init
  BY DEF ShellInit
<1>2. IInv /\ OwnInv /\ [ShellNext]_shellVars => [Next]_vars
  BY ShellStep DEF IInv, OwnInv
<1> QED BY <1>1, <1>2, ShellInvariance, PTL DEF ShellSpec, Spec

\* Whatever commands are typed, a shell that waits in fork finds its own fork
\* on the stack it saved when a program's exit or kill switches back to it.
THEOREM ShellContextsIntact == ShellSpec => []SavedContextIntact
BY ShellImplementsTasks, ContextsCorrect, PTL

\* and waitpid never writes through a NULL parent.
THEOREM ShellWaitsSafely == ShellSpec => []WaitedParentExists
BY ShellImplementsTasks, WaitpidCorrect, PTL
-----------------------------------------------------------------------------
(***************************************************************************)
(* The inductive invariant of the shell.  A program is always the newest   *)
(* task and last in the list, so tss.rsp0 is its own stack, yield finds    *)
(* nothing ready but the shell, and the shell's index is not the last one. *)
(***************************************************************************)

\* The shell and its descendants hand down pid 1 or 2 as the parent, and no
\* later task has one of these: waitpid(child) finds nothing to wait for.
FamilyInv ==
    /\ pid[Sbush] = 2
    /\ 1 \in processID /\ 2 \in processID
    /\ \A t \in 2..N : ppid[t] \in {1, 2}
    /\ cpu = "user" => child \notin {1, 2}

\* A task that executes bin/sbush is the shell or one of its copies.
ProgramInv ==
    /\ \A t \in forked : t \in 3..N
    /\ \A t \in clobbered : t \in forked
    /\ role[Sbush] = "sbush"
    /\ \A t \in 1..N : role[t] = "sbush" => t = Sbush \/ t \in forked

\* Either the shell runs, or the newest task does and the shell is in fork.
PlaceInv ==
    /\ running # Sbush =>
         /\ running = N /\ N >= 3 /\ procList[N] = N
         /\ state[Sbush] \in {"WAITING", "ENDED"}
         /\ blocked[Sbush] = "fork"
    /\ N >= 3 => frame[Sbush] = "fork"

\* The tasks that were started before the running one are over.
RestInv ==
    \A t \in 3..N : t # running =>
        state[t] # "WAITING" /\ (state[t] = "RUNNING" => role[t] = "kill")

\* NeverStuck, and exit comes back only to a program whose shell was killed.
StuckInv ==
    cpu # "user" \/ (role[running] # "sbush" /\ at = "exit") =>
        ShellKilled \/ NoMemory \/ Nested \/ ArgumentFault

ProgramTypes ==
    /\ role \in [Task -> {"none", "sbush", "util", "kill"}]
    /\ cmd \in Command \cup {"none"}

ShellInv ==
    /\ OwnInv
    /\ ProgramTypes
    /\ FamilyInv
    /\ ProgramInv
    /\ PlaceInv
    /\ RestInv
    /\ StuckInv

LEMMA ShellInitInv == ShellInit => ShellInv
<1> SUFFICES ASSUME ShellInit PROVE ShellInv
  OBVIOUS
<1> USE ConstantsAssumption
<1>1. N = 2 /\ Sbush \in Task /\ Sbush = 2
  BY DEF ShellInit, Init, N, Sbush, Task
<1>2. OwnInv /\ ProgramTypes
  BY DEF ShellInit, OwnInv, Pid, ProgramTypes
<1>3. FamilyInv /\ ProgramInv
  <2>1. \A t \in 2..N : t = 2
    BY <1>1
  <2>2. ppid[2] = 1 /\ pid[2] = 2 /\ \A t \in 1..N : role[t] = "sbush" => t = Sbush
    BY <1>1 DEF ShellInit, Init, Task
  <2> QED BY <1>1, <2>1, <2>2 DEF FamilyInv, ProgramInv, ShellInit, Init
<1>4. PlaceInv /\ RestInv /\ StuckInv
  BY <1>1 DEF PlaceInv, RestInv, StuckInv, ShellInit, Init
<1> QED BY <1>2, <1>3, <1>4 DEF ShellInv

\* What the other lemmas take from the invariant of the process layer.
LEMMA Places ==
    ASSUME IInv
    PROVE  /\ N \in Nat /\ N >= 2 /\ rsp0 = N /\ running \in 2..N /\ N \in Task
           /\ Sbush \in Task /\ Sbush = 2 /\ Sbush \in 2..N /\ NewTask = N + 1
           /\ running \in Task
<1>1. procList \in Seq(Task) /\ Permuted(procList) /\ NewestStack /\ running \in Task
  BY DEF IInv, TypeOK
<1>2. N \in Nat /\ N >= 2
  BY <1>1 DEF N, Permuted
<1>3. N \in Task
  BY <1>1, <1>2, LastTask DEF N
<1> QED BY <1>1, <1>2, <1>3, ConstantsAssumption
        DEF NewestStack, Sbush, Task, NewTask, N

\* A trap that changes no task.
LEMMA QuietStep ==
    ASSUME IInv, ShellInv, NEW s \in Site, Trap(s), UNCHANGED ownVars,
           role[running] # "sbush" /\ s = "exit" => at = "exit"
    PROVE  ShellInv'
<1>0. /\ N \in Nat /\ N >= 2 /\ rsp0 = N /\ Sbush = 2 /\ Sbush \in Task
      /\ frame \in [Task -> Location]
  BY Places DEF IInv, TypeOK
<1>1. /\ UNCHANGED <<procList, pid, ppid, state, forked, processID, running, blocked, cpu>>
      /\ cpu = "user" /\ at' = s /\ frame' = TrapFrame(s) /\ clobbered' = TrapClobbers
      /\ UNCHANGED <<role, cmd, victim, child>> /\ N' = N
  BY DEF Trap, ownVars, N
<1>2. OwnInv' /\ ProgramTypes' /\ FamilyInv'
  BY <1>1 DEF ShellInv, OwnInv, ProgramTypes, FamilyInv
<1>3. ProgramInv'
  BY <1>1 DEF ShellInv, ProgramInv, TrapClobbers
<1>4. PlaceInv'
  <2>1. N >= 3 => frame'[Sbush] = frame[Sbush]
    BY <1>0, <1>1 DEF TrapFrame
  <2> QED BY <1>1, <2>1 DEF ShellInv, PlaceInv
<1>5. RestInv'
  BY <1>1 DEF ShellInv, RestInv
<1>6. StuckInv'
  BY <1>1 DEF ShellInv, StuckInv, ShellKilled, NoMemory, Nested, ArgumentFault
<1> QED BY <1>2, <1>3, <1>4, <1>5, <1>6 DEF ShellInv

\* The machine stops only where NeverStuck allows it.
LEMMA StuckStep ==
    ASSUME IInv, ShellInv, NEW why \in {"hung", "reset"}, Stop(why),
           \A t \in 1..N : role'[t] = role[t],
           OwnInv', ProgramTypes', NoMemory \/ Nested \/ StuckInv'
    PROVE  ShellInv'
<1>1. /\ UNCHANGED <<procList, pid, ppid, state, forked, clobbered, frame, processID,
                     running, at, blocked>>
      /\ N' = N /\ cpu' # "user" /\ N \in Nat
      /\ Sbush \in 1..N /\ \A t \in 3..N : t \in 1..N
  BY Places DEF Stop, N
<1>2. FamilyInv' /\ ProgramInv'
  BY <1>1 DEF ShellInv, FamilyInv, ProgramInv
<1>3. PlaceInv' /\ RestInv'
  BY <1>1 DEF ShellInv, PlaceInv, RestInv
<1>4. StuckInv'
  BY <1>1 DEF StuckInv, NoMemory, Nested
<1> QED BY <1>2, <1>3, <1>4 DEF ShellInv

\* exit and kill: yield finds the shell, or nothing if the shell was killed.
LEMMA ResumeStep ==
    ASSUME IInv, ShellInv, cpu = "user", running # Sbush, NEW s \in {"kill", "exit"},
           NEW st \in [Task -> State], st[Sbush] \in {"WAITING", "ENDED"},
           \A t \in 3..N : st[t] # "WAITING" /\ (st[t] = "RUNNING" => role[t] = "kill"),
           Yield(st, s), UNCHANGED ownVars
    PROVE  ShellInv'
<1>0. /\ N \in Nat /\ N >= 3 /\ rsp0 = N /\ Sbush = 2 /\ Sbush \in Task /\ running = N
      /\ frame \in [Task -> Location] /\ procList[N] = N /\ Permuted(procList)
      /\ N = Len(procList) /\ procList \in Seq(Task) /\ ctx[Sbush] # 0
      /\ Sbush \notin TrapClobbers /\ N \in Task
  <2>1. running = N /\ N >= 3 /\ procList[N] = N /\ blocked[Sbush] = "fork"
    BY DEF ShellInv, PlaceInv
  <2>2. ctx[Sbush] \in 1..(N - 1)
    <3>1. "fork" # NoSite
      BY ShellAssumption, ConstantsAssumption
    <3> QED BY <2>1, <3>1, Places DEF IInv, CtxInv
  <2>3. Sbush \notin forked /\ Sbush \notin clobbered
    BY Places DEF ShellInv, ProgramInv
  <2>4. Sbush \notin TrapClobbers
    BY <2>3 DEF TrapClobbers
  <2> QED BY <2>1, <2>2, <2>4, Places DEF IInv, TypeOK, N
<1>1. UNCHANGED <<role, cmd, victim, child>> /\ s # NoSite
  BY ShellAssumption, ConstantsAssumption DEF ownVars
<1>2. \A i \in Ready(st) : procList[i] = Sbush /\ st[Sbush] = "WAITING" /\ i \in 2..N /\ i # N
  <2> TAKE i \in Ready(st)
  <2>1. i \in 2..N /\ st[procList[i]] = "WAITING"
    BY <1>0 DEF Ready
  <2>2. i \in 1..N /\ 1 \in 1..N
    BY <1>0, <2>1
  <2>3. procList[i] \in 1..N /\ procList[i] # procList[1] /\ procList[1] = 1
    BY <1>0, <2>1, <2>2 DEF Permuted, InitTask
  <2>4. procList[i] \notin 3..N
    BY <2>1
  <2> QED BY <1>0, <2>1, <2>3, <2>4
<1>3. CASE YieldReturns(st, s)
  <2>1. /\ UNCHANGED <<procList, pid, ppid, forked, processID, running, blocked, cpu>>
        /\ at' = s /\ frame' = TrapFrame(s) /\ clobbered' = TrapClobbers /\ state' = st
        /\ N' = N
    BY <1>3 DEF YieldReturns, N
  <2>2. st[Sbush] = "ENDED"
    <3>1. PICK i \in 1..N : procList[i] = Sbush
      BY <1>0 DEF Permuted
    <3>2. i \in 2..N
      BY <1>0, <3>1 DEF Permuted, InitTask
    <3>3. i \notin Ready(st)
      BY <1>3 DEF YieldReturns
    <3> QED BY <1>0, <3>1, <3>2, <3>3 DEF Ready
  <2>3. OwnInv' /\ ProgramTypes' /\ FamilyInv'
    BY <1>1, <2>1 DEF ShellInv, OwnInv, ProgramTypes, FamilyInv
  <2>4. ProgramInv'
    BY <1>1, <2>1 DEF ShellInv, ProgramInv, TrapClobbers
  <2>5. PlaceInv'
    <3>1. frame'[Sbush] = frame[Sbush]
      BY <1>0, <2>1 DEF TrapFrame
    <3> QED BY <2>1, <2>2, <3>1 DEF ShellInv, PlaceInv
  <2>6. RestInv' /\ StuckInv'
    BY <1>1, <2>1, <2>2 DEF RestInv, StuckInv, ShellKilled
  <2> QED BY <2>3, <2>4, <2>5, <2>6 DEF ShellInv
<1>4. ASSUME NEW i \in Ready(st), YieldSwitches(st, s, i) PROVE ShellInv'
  <2>1. procList[i] = Sbush /\ i \in 2..Len(procList) /\ i \in 1..Len(procList)
    BY <1>0, <1>2
  <2>2. /\ UNCHANGED <<pid, ppid, forked, processID, cpu>>
        /\ frame' = TrapFrame(s) /\ clobbered' = TrapClobbers
        /\ state' = SwitchStates(st, InitTask, Sbush) /\ running' = Sbush
        /\ procList' = MoveToEnd(procList, i)
    BY <1>4, <2>1 DEF YieldSwitches
  <2>3. N' = N
    BY <1>0, <2>1, <2>2, MoveToEndSlots DEF N
  <2>4. OwnInv' /\ ProgramTypes' /\ FamilyInv'
    BY <1>1, <2>2, <2>3 DEF ShellInv, OwnInv, ProgramTypes, FamilyInv
  <2>5. ProgramInv'
    BY <1>1, <2>2, <2>3 DEF ShellInv, ProgramInv, TrapClobbers
  <2>6. PlaceInv'
    <3>1. frame'[Sbush] = frame[Sbush]
      BY <1>0, <2>2 DEF TrapFrame
    <3> QED BY <1>0, <2>2, <2>3, <3>1 DEF ShellInv, PlaceInv
  <2>7. RestInv'
    <3>1. \A t \in 3..N : t \in Task /\ t # InitTask /\ t # Sbush
      BY <1>0, ConstantsAssumption DEF Task, InitTask
    <3>2. \A t \in 3..N : state'[t] = st[t]
      BY <2>2, <3>1 DEF SwitchStates
    <3> QED BY <1>1, <2>3, <3>2 DEF RestInv
  <2>8. StuckInv'
    BY <1>1, <2>2 DEF ShellInv, ProgramInv, StuckInv
  <2> QED BY <2>4, <2>5, <2>6, <2>7, <2>8 DEF ShellInv
<1> QED BY <1>0, <1>2, <1>3, <1>4 DEF Yield

\* Every new task gets an id that no other has, or -1 as an uint16_t.
LEMMA FreshTask ==
    ASSUME IInv, ShellInv, ~NoMemory, NEW p \in Pid, NEW pp \in {1, 2}, AddTask(p, pp)
    PROVE  /\ NewTask \in Task /\ NewTask = N + 1 /\ N' = N + 1
           /\ running' = NewTask /\ rsp0' = NewTask /\ procList'[N + 1] = N + 1
           /\ pid'[NewTask] \notin {1, 2} /\ pid'[NewTask] \in Pid
           /\ pid'[Sbush] = 2 /\ 1 \in processID' /\ 2 \in processID'
           /\ \A t \in 2..N' : ppid'[t] \in {1, 2}
<1>0. /\ N \in Nat /\ N >= 2 /\ Sbush = 2 /\ Sbush \in Task /\ N \in Task
      /\ procList \in Seq(Task) /\ pid \in [Task -> Pid] /\ ppid \in [Task -> Pid]
      /\ N = Len(procList) /\ NewTask = N + 1
  BY Places DEF IInv, TypeOK, N
<1>1. NewTask \in Task
  BY <1>0, ConstantsAssumption DEF NoMemory, Task
<1>2. N' = N + 1 /\ procList'[N + 1] = N + 1
  <2>1. procList' = Append(procList, N + 1)
    BY <1>0 DEF AddTask
  <2> QED BY <1>0, <1>1, <2>1 DEF N
<1>3. /\ running' = NewTask /\ rsp0' = NewTask
      /\ pid' = [pid EXCEPT ![NewTask] = p] /\ ppid' = [ppid EXCEPT ![NewTask] = pp]
  BY DEF AddTask, SetParent
<1>4. p \notin {1, 2}
  <2>1. p \notin processID \/ p = BadPid
    BY DEF AddTask, GetProcessID
  <2> QED BY <2>1 DEF ShellInv, FamilyInv, BadPid
<1>5. 1 \in processID' /\ 2 \in processID'
  BY DEF AddTask, MarkId, ShellInv, FamilyInv
<1>6. pid'[NewTask] = p /\ pid'[Sbush] = 2
  BY <1>0, <1>1, <1>3 DEF ShellInv, FamilyInv
<1>7. ASSUME NEW t \in 2..N' PROVE ppid'[t] \in {1, 2}
  <2>1. CASE t = NewTask
    BY <1>0, <1>1, <1>3, <2>1
  <2>2. CASE t # NewTask
    <3>1. t \in 2..N /\ t \in Task
      BY <1>0, <1>1, <1>2, <2>2, ConstantsAssumption DEF Task
    <3> QED BY <1>0, <1>3, <2>2, <3>1 DEF ShellInv, FamilyInv
  <2> QED BY <2>1, <2>2
<1> QED BY <1>0, <1>1, <1>2, <1>3, <1>4, <1>5, <1>6, <1>7

\* The shell forks: it is WAITING in its fork, its copy runs.
LEMMA StartStep ==
    ASSUME IInv, ShellInv, NEW c \in Command, NEW p \in Pid \ {0}, StartCommand(c, p),
           ProgramTypes', OwnInv'
    PROVE  ShellInv'
<1>0. /\ N \in Nat /\ N >= 2 /\ rsp0 = N /\ Sbush = 2 /\ Sbush \in Task /\ running \in 2..N
      /\ frame \in [Task -> Location] /\ state \in [Task -> State] /\ running \in Task
      /\ blocked \in [Task -> Location] /\ N \in Task
      /\ role \in [Task -> {"none", "sbush", "util", "kill"}]
  BY Places DEF IInv, TypeOK, ShellInv, ProgramTypes
<1>1. cpu = "user" /\ role[running] = "sbush" /\ at = "prompt" /\ Fork("fork")
  BY DEF StartCommand, In
<1>2. CASE NoMemory
  <2>1. Stop("hung") /\ role' = role
    BY <1>1, <1>2 DEF StartCommand, Fork
  <2> QED BY <1>2, <2>1, StuckStep
<1>a. ASSUME ~NoMemory
      PROVE  NewTask \in Task /\ NewTask = N + 1 /\ role' = [role EXCEPT ![NewTask] = "sbush"]
  <2>1. NewTask = N + 1 /\ N # MaxTasks
    BY <1>a, Places DEF NoMemory, N
  <2> QED BY <1>0, <1>a, <2>1, ConstantsAssumption DEF StartCommand, Task
<1>b. \A t \in 1..N : t \in Task /\ t # N + 1
  BY <1>0, ConstantsAssumption DEF Task
<1>3. CASE ~NoMemory /\ running # Sbush
  <2>1. running \in forked /\ running = N
    BY <1>0, <1>1, <1>3 DEF ShellInv, ProgramInv, PlaceInv
  <2>2. running \in TrapClobbers /\ Nested
    BY <1>0, <1>1, <2>1 DEF TrapClobbers, Nested
  <2>3. Stop("reset")
    BY <1>1, <1>3, <2>2 DEF Fork, ForkSwitches
  <2>4. \A t \in 1..N : role'[t] = role[t]
    BY <1>0, <1>3, <1>a, <1>b
  <2> QED BY <2>2, <2>3, <2>4, StuckStep
<1>4. CASE ~NoMemory /\ running = Sbush
  <2>1. Sbush \notin TrapClobbers
    BY <1>0 DEF ShellInv, ProgramInv, TrapClobbers
  <2>2. ForkSwitches("fork")
    BY <1>1, <1>4, <2>1 DEF Fork
  <2>3. PICK q \in Pid : AddTask(q, 2)
    BY <1>4, <2>2 DEF ForkSwitches, ShellInv, FamilyInv
  <2>4. /\ NewTask \in Task /\ NewTask = N + 1 /\ N' = N + 1
        /\ running' = NewTask /\ rsp0' = NewTask /\ procList'[N + 1] = N + 1
        /\ pid'[NewTask] \notin {1, 2} /\ pid'[NewTask] \in Pid
        /\ pid'[Sbush] = 2 /\ 1 \in processID' /\ 2 \in processID'
        /\ \A t \in 2..N' : ppid'[t] \in {1, 2}
    BY <1>4, <2>3, FreshTask
  <2>5. /\ forked' = forked \cup {NewTask} /\ clobbered' = TrapClobbers
        /\ state' = SwitchStates(state, Sbush, NewTask)
        /\ frame' = [TrapFrame("fork") EXCEPT ![NewTask] = TrapFrame("fork")[running]]
        /\ blocked' = [blocked EXCEPT ![Sbush] = "fork"] /\ cpu' = "user"
        /\ role' = [role EXCEPT ![NewTask] = "sbush"] /\ child' = pid'[NewTask]
    BY <1>1, <1>4, <2>2 DEF ForkSwitches, ChildFrame, StartCommand
  <2>6. \A t \in 1..N' : t \in 1..N \/ t = NewTask
    BY <1>0, <2>4
  <2>7. FamilyInv'
    BY <2>4, <2>5 DEF FamilyInv
  <2>8. ProgramInv'
    <3>1. \A t \in forked' : t \in 3..N'
      BY <1>0, <2>4, <2>5 DEF ShellInv, ProgramInv
    <3>2. \A t \in clobbered' : t \in forked'
      BY <2>5 DEF ShellInv, ProgramInv, TrapClobbers
    <3>3. role'[Sbush] = "sbush"
      BY <1>0, <2>4, <2>5 DEF ShellInv, ProgramInv
    <3>4. ASSUME NEW t \in 1..N', role'[t] = "sbush" PROVE t = Sbush \/ t \in forked'
      BY <1>0, <1>b, <2>4, <2>5, <2>6, <3>4 DEF ShellInv, ProgramInv
    <3> QED BY <3>1, <3>2, <3>3, <3>4 DEF ProgramInv
  <2>9. PlaceInv'
    <3>1. state'[Sbush] \in {"WAITING", "ENDED"}
      BY <1>0, <2>4, <2>5 DEF SwitchStates
    <3>2. blocked'[Sbush] = "fork"
      BY <1>0, <2>5
    <3>3. frame'[Sbush] = "fork"
      <4>1. frame'[Sbush] = TrapFrame("fork")[Sbush]
        BY <1>0, <2>4, <2>5 DEF TrapFrame
      <4>2. CASE N = 2
        BY <1>0, <4>1, <4>2 DEF TrapFrame
      <4>3. CASE N # 2
        BY <1>0, <4>1, <4>3 DEF TrapFrame, ShellInv, PlaceInv
      <4> QED BY <4>2, <4>3
    <3> QED BY <1>0, <2>4, <3>1, <3>2, <3>3 DEF PlaceInv
  <2>10. RestInv'
    <3>1. \A t \in 3..N : t \in Task /\ t # NewTask /\ t # Sbush
      BY <1>0, <1>b, <2>4
    <3>2. \A t \in 3..N : state'[t] = state[t] /\ role'[t] = role[t]
      BY <1>0, <2>5, <3>1 DEF SwitchStates
    <3>3. \A t \in 3..N' : t # NewTask => t \in 3..N
      BY <1>0, <2>4
    <3> QED BY <1>4, <2>4, <3>1, <3>2, <3>3 DEF ShellInv, RestInv
  <2>11. StuckInv'
    BY <1>0, <2>4, <2>5 DEF StuckInv
  <2> QED BY <2>7, <2>8, <2>9, <2>10, <2>11 DEF ShellInv
<1> QED BY <1>2, <1>3, <1>4

\* The copy of the shell becomes the program: a new task, and the copy is over.
LEMMA RunStep ==
    ASSUME IInv, ShellInv, RunCommand, ProgramTypes', OwnInv'
    PROVE  ShellInv'
<1>0. /\ N \in Nat /\ N >= 2 /\ rsp0 = N /\ Sbush = 2 /\ Sbush \in Task /\ running \in 2..N
      /\ frame \in [Task -> Location] /\ state \in [Task -> State] /\ running \in Task
      /\ N \in Task /\ role \in [Task -> {"none", "sbush", "util", "kill"}]
  BY Places DEF IInv, TypeOK, ShellInv, ProgramTypes
<1>1. /\ cpu = "user" /\ Execve("exec", TRUE) /\ running \in forked
      /\ cmd \in {"util", "kill"} /\ child' = child
  BY DEF RunCommand, In
<1>2. CASE NoMemory
  <2>1. Stop("hung") /\ role' = role
    BY <1>1, <1>2 DEF RunCommand, Execve
  <2> QED BY <1>2, <2>1, StuckStep
<1>3. CASE ~NoMemory
  <2>1. running # Sbush /\ running = N /\ N >= 3
    BY <1>0, <1>1 DEF ShellInv, ProgramInv, PlaceInv
  <2>2. PICK q \in Pid : AddTask(q, ppid[running])
    BY <1>1, <1>3 DEF Execve
  <2>3. ppid[running] \in {1, 2}
    BY <1>0 DEF ShellInv, FamilyInv
  <2>4. /\ NewTask \in Task /\ NewTask = N + 1 /\ N' = N + 1
        /\ running' = NewTask /\ rsp0' = NewTask /\ procList'[N + 1] = N + 1
        /\ pid'[NewTask] \notin {1, 2} /\ pid'[NewTask] \in Pid
        /\ pid'[Sbush] = 2 /\ 1 \in processID' /\ 2 \in processID'
        /\ \A t \in 2..N' : ppid'[t] \in {1, 2}
    BY <1>3, <2>2, <2>3, FreshTask
  <2>5. /\ forked' = forked /\ clobbered' = TrapClobbers
        /\ state' = [state EXCEPT ![running] = "ENDED", ![NewTask] = "RUNNING"]
        /\ frame' = TrapFrame("exec") /\ blocked' = blocked /\ cpu' = cpu /\ at' = NoSite
        /\ role' = [role EXCEPT ![NewTask] = cmd]
    BY <1>1, <1>3 DEF Execve, RunCommand
  <2>6. /\ \A t \in 1..N' : t \in 1..N \/ t = NewTask
        /\ \A t \in 1..N : t \in Task /\ t # NewTask
    BY <1>0, <2>4, ConstantsAssumption DEF Task
  <2>7. FamilyInv'
    BY <1>1, <2>4, <2>5 DEF ShellInv, FamilyInv
  <2>8. ProgramInv'
    <3>1. \A t \in forked' : t \in 3..N'
      BY <1>0, <2>4, <2>5 DEF ShellInv, ProgramInv
    <3>2. \A t \in clobbered' : t \in forked'
      BY <2>5 DEF ShellInv, ProgramInv, TrapClobbers
    <3>3. role'[Sbush] = "sbush"
      BY <1>0, <2>4, <2>5 DEF ShellInv, ProgramInv
    <3>4. ASSUME NEW t \in 1..N', role'[t] = "sbush" PROVE t = Sbush \/ t \in forked'
      BY <1>0, <1>1, <2>4, <2>5, <2>6, <3>4 DEF ShellInv, ProgramInv
    <3> QED BY <3>1, <3>2, <3>3, <3>4 DEF ProgramInv
  <2>9. PlaceInv'
    <3>1. state'[Sbush] = state[Sbush]
      BY <1>0, <2>1, <2>4, <2>5
    <3>2. frame'[Sbush] = frame[Sbush]
      BY <1>0, <2>1, <2>5 DEF TrapFrame
    <3> QED BY <1>0, <2>1, <2>4, <2>5, <3>1, <3>2 DEF ShellInv, PlaceInv
  <2>10. RestInv'
    <3>1. \A t \in 3..N : t \in Task /\ t # NewTask
      BY <1>0, <2>6
    <3>2. \A t \in 3..N : t # running => state'[t] = state[t] /\ role'[t] = role[t]
      BY <1>0, <2>5, <3>1
    <3>3. state'[running] = "ENDED"
      BY <1>0, <2>1, <2>4, <2>5
    <3>4. \A t \in 3..N' : t # NewTask => t \in 3..N
      BY <1>0, <2>4
    <3> QED BY <2>4, <3>1, <3>2, <3>3, <3>4 DEF ShellInv, RestInv
  <2>11. StuckInv'
    <3>1. NoSite # "exit"
      BY ShellAssumption, ConstantsAssumption
    <3> QED BY <1>1, <2>5, <3>1 DEF StuckInv
  <2> QED BY <2>7, <2>8, <2>9, <2>10, <2>11 DEF ShellInv
<1> QED BY <1>2, <1>3

LEMMA TypesStep == ASSUME IInv, ProgramTypes, [ShellNext]_shellVars PROVE ProgramTypes'
<1>1. CASE UNCHANGED ownVars
  BY <1>1 DEF ownVars, ProgramTypes
<1>2. CASE RunCommand
  BY <1>2 DEF RunCommand, ProgramTypes
<1>3. ASSUME NEW c \in Command, NEW p \in Pid \ {0}, StartCommand(c, p) PROVE ProgramTypes'
  BY <1>3 DEF StartCommand, ProgramTypes
<1>4. CASE ~(UNCHANGED ownVars \/ RunCommand)
  BY <1>3, <1>4 DEF ShellNext, UserStep, LeaveShell, ReadLine, ProgramStep, Prompt,
                    NestedShell, BareCommand, AwaitCommand, UtilWork, UtilRead, UtilFault,
                    KillWork, ProgramExit, PastExit, shellVars, ownVars
<1> QED BY <1>1, <1>2, <1>4

\* waitpid(child) returns at once: it looks for the children of the child.
LEMMA NoneWaitedFor == ASSUME IInv, ShellInv, cpu = "user" PROVE WaitedFor(child) = {}
<1>1. SUFFICES ASSUME NEW i \in WaitedFor(child) PROVE FALSE
  OBVIOUS
<1>2. i \in 1..N /\ ppid[procList[i]] = child /\ state[procList[i]] = "RUNNING"
  BY DEF WaitedFor, N
<1>3. procList[i] \in 1..N /\ procList[i] # 1
  BY <1>2 DEF IInv, Permuted, StateInv, InitTask, N
<1>4. procList[i] \in 2..N
  BY <1>3, Places
<1> QED BY <1>2, <1>4 DEF ShellInv, FamilyInv

\* kill -9 p of a program that runs in front of the shell.
LEMMA KillStep == ASSUME IInv, ShellInv, KillWork PROVE ShellInv'
<1>0. /\ N \in Nat /\ Sbush = 2 /\ Sbush \in Task /\ running \in Task /\ cpu = "user"
      /\ state \in [Task -> State] /\ role[running] = "kill" /\ UNCHANGED ownVars
      /\ Kill("kill", victim) /\ \A t \in 3..N : t \in Task
      /\ \A i \in 1..Len(procList) : procList[i] \in Task
  <2>1. \A t \in 3..N : t \in Task
    BY Places, ConstantsAssumption DEF Task
  <2>2. \A i \in 1..Len(procList) : procList[i] \in Task
    BY DEF IInv, TypeOK
  <2> QED BY <2>1, <2>2, Places DEF IInv, TypeOK, KillWork, In
<1>1. running # Sbush
  BY <1>0 DEF ShellInv, ProgramInv
<1>2. state[Sbush] \in {"WAITING", "ENDED"}
  BY <1>1 DEF ShellInv, PlaceInv
<1>3. ASSUME NEW t \in 3..N
      PROVE  state[t] # "WAITING" /\ (state[t] = "RUNNING" => role[t] = "kill")
  <2>1. CASE t = running
    BY <1>0, <2>1 DEF IInv, StateInv, RunningNotWaiting
  <2>2. CASE t # running
    BY <2>2 DEF ShellInv, RestInv
  <2> QED BY <2>1, <2>2
<1>4. CASE Yield(state, "kill")
  BY <1>0, <1>1, <1>2, <1>3, <1>4, ResumeStep
<1>5. ASSUME NEW i \in WithPid(victim), Yield([state EXCEPT ![procList[i]] = "ENDED"], "kill")
      PROVE  ShellInv'
  <2> DEFINE st == [state EXCEPT ![procList[i]] = "ENDED"]
  <2>1. procList[i] \in Task /\ "ENDED" \in State
    BY <1>0 DEF WithPid, State
  <2>2. st \in [Task -> State] /\ st[Sbush] \in {"WAITING", "ENDED"}
    BY <1>0, <1>2, <2>1
  <2>3. \A t \in 3..N : st[t] # "WAITING" /\ (st[t] = "RUNNING" => role[t] = "kill")
    BY <1>0, <1>3, <2>1
  <2>4. Yield(st, "kill")
    BY <1>5
  <2> HIDE DEF st
  <2> QED BY <1>0, <1>1, <2>2, <2>3, <2>4, ResumeStep
<1> QED BY <1>0, <1>4, <1>5 DEF Kill

\* main of a utility returns.
LEMMA ExitStep == ASSUME IInv, ShellInv, ProgramExit PROVE ShellInv'
<1> DEFINE st == [state EXCEPT ![running] = "ZOMBIE"]
<1>0. /\ N \in Nat /\ Sbush = 2 /\ Sbush \in Task /\ running \in Task /\ cpu = "user"
      /\ state \in [Task -> State] /\ role[running] # "sbush" /\ UNCHANGED ownVars
      /\ Yield(st, "exit") /\ "ZOMBIE" \in State
  BY Places DEF IInv, TypeOK, ProgramExit, In, Exit, State
<1>1. running # Sbush
  BY <1>0 DEF ShellInv, ProgramInv
<1>2. st \in [Task -> State] /\ st[Sbush] \in {"WAITING", "ENDED"}
  BY <1>0, <1>1 DEF ShellInv, PlaceInv
<1>3. \A t \in 3..N : t \in Task
  BY Places, ConstantsAssumption DEF Task
<1>4. \A t \in 3..N : st[t] # "WAITING" /\ (st[t] = "RUNNING" => role[t] = "kill")
  BY <1>0, <1>3 DEF ShellInv, RestInv
<1> HIDE DEF st
<1> QED BY <1>0, <1>1, <1>2, <1>4, ResumeStep

LEMMA ShellNextInv == ASSUME IInv, IInv', ShellInv, [ShellNext]_shellVars PROVE ShellInv'
<1> USE ShellAssumption
<1>0. OwnInv' /\ ProgramTypes'
  BY OwnStep, TypesStep DEF ShellInv
<1>1. CASE UNCHANGED shellVars
  BY <1>1 DEF shellVars, vars, ShellInv, OwnInv, ProgramTypes, FamilyInv, ProgramInv,
              PlaceInv, RestInv, StuckInv, ShellKilled, NoMemory, Nested, ArgumentFault, N
<1>2. CASE Prompt \/ LeaveShell \/ NestedShell
  BY <1>2, QuietStep DEF Prompt, LeaveShell, NestedShell
<1>3. CASE BareCommand \/ UtilFault \/ PastExit
  <2>1. Stop("hung") /\ UNCHANGED ownVars
    BY <1>3 DEF BareCommand, UtilFault, PastExit, UserFault
  <2>2. /\ UNCHANGED <<procList, state, forked, running, at, role, cmd>> /\ cpu' = "hung"
    BY <2>1 DEF Stop, ownVars
  <2>3. StuckInv'
    <3>1. CASE BareCommand \/ UtilFault
      BY <2>2, <3>1 DEF BareCommand, UtilFault, In, StuckInv, ArgumentFault
    <3>2. CASE PastExit
      <4>1. cpu = "user" /\ role[running] # "sbush" /\ at = "exit"
        BY <3>2 DEF PastExit, In
      <4>2. ShellKilled \/ NoMemory \/ Nested
        BY <4>1 DEF ShellInv, StuckInv, ArgumentFault
      <4> QED BY <2>2, <4>2 DEF StuckInv, ShellKilled, NoMemory, Nested
    <3> QED BY <1>3, <3>1, <3>2
  <2> QED BY <1>0, <2>1, <2>2, <2>3, StuckStep
<1>4. CASE UtilWork \/ UtilRead \/ ReadLine
  BY <1>4, QuietStep DEF UtilWork, UtilRead, ReadLine
<1>6. CASE AwaitCommand
  <2>1. Trap("wait") /\ UNCHANGED ownVars
    BY <1>6, NoneWaitedFor DEF AwaitCommand, In, WaitPid
  <2> QED BY <2>1, QuietStep
<1>7. ASSUME NEW c \in Command, NEW p \in Pid \ {0}, StartCommand(c, p) PROVE ShellInv'
  BY <1>0, <1>7, StartStep
<1>8. CASE RunCommand
  BY <1>0, <1>8, RunStep
<1>9. CASE KillWork
  BY <1>9, KillStep
<1>10. CASE ProgramExit
  BY <1>10, ExitStep
<1> QED BY <1>1, <1>2, <1>3, <1>4, <1>6, <1>7, <1>8, <1>9, <1>10
        DEF ShellNext, ProgramStep, UserStep

LEMMA ShellInvariant == ShellSpec => [](IInv /\ ShellInv)
<1>1. ShellInit => ShellInv
  BY ShellInitInv
<1>2. IInv /\ IInv' /\ ShellInv /\ [ShellNext]_shellVars => ShellInv'
  BY ShellNextInv
<1>3. ShellSpec => []IInv
  BY ShellInvariance, PTL
<1> QED BY <1>1, <1>2, <1>3, PTL DEF ShellSpec

\* role, cmd, victim and child keep their types, and so does the process layer
\* below them.
THEOREM ShellTypeCorrect == ShellSpec => []ShellTypeOK
<1>1. IInv /\ ShellInv => ShellTypeOK
  BY DEF IInv, ShellInv, OwnInv, ProgramTypes, ShellTypeOK
<1> QED BY <1>1, ShellInvariant, PTL

\* However many commands are typed and whatever pids are killed, the machine
\* hangs or is reset only after the shell was killed, with kmalloc exhausted, at
\* the prompt of a nested shell or because a program lacks its arguments: for
\* any number of tasks yield never picks the last element or a task without a
\* context, and no program runs past exit.
THEOREM ShellNeverStuck == ShellSpec => []NeverStuck
<1>1. ShellInv => NeverStuck
  BY DEF ShellInv, StuckInv, NeverStuck
<1> QED BY <1>1, ShellInvariant, PTL

\* When the shell has the processor, the programs it started are over, except
\* kill, which its own yield leaves RUNNING.
THEOREM ForegroundOnly == ShellSpec => []Foreground
<1>1. IInv /\ ShellInv => Foreground
  <2> SUFFICES ASSUME IInv, ShellInv, running = Sbush, NEW t \in Listed \ {Sbush}
               PROVE  /\ state[t] = "RUNNING" => role[t] = "kill"
                      /\ state[t] = "WAITING" => t = InitTask
    BY DEF Foreground
  <2>1. t \in 1..N
    BY ListForm DEF IInv, TypeOK, ListIntact, N
  <2>2. CASE t = InitTask
    BY <2>2 DEF IInv, StateInv
  <2>3. CASE t # InitTask
    <3>1. t \in 3..N
      BY <2>1, <2>3, Places DEF InitTask
    <3> QED BY <3>1 DEF ShellInv, RestInv
  <2> QED BY <2>2, <2>3
<1> QED BY <1>1, ShellInvariant, PTL

\* fork returns in the copy where the shell called it: the frame proc_fork
\* copies, from the shell's own stack, is the first fork's from then on.
THEOREM ForkReturnsInCopy == ShellSpec => ShellForkReturns
<1>1. ASSUME IInv, ShellInv, [ShellNext]_shellVars, NEW s \in Site, ForkSwitches(s)
      PROVE  at' = s
  <2>0. /\ N \in Nat /\ N >= 2 /\ rsp0 = N /\ Sbush = 2 /\ Sbush \in Task
        /\ NewTask = N + 1 /\ frame \in [Task -> Location] /\ running \in Task
        /\ blocked \in [Task -> Location]
    BY <1>1, Places DEF IInv, TypeOK
  <2>1. forked' # forked
    <3>1. NewTask \in forked' /\ NewTask \notin forked
      BY <1>1, <2>0 DEF ForkSwitches, ShellInv, ProgramInv
    <3> QED BY <3>1
  <2>2. ASSUME NEW i \in Site, Trap(i) PROVE FALSE
    BY <2>1, <2>2 DEF Trap
  <2>3. ASSUME NEW st, NEW i, Yield(st, i) PROVE FALSE
    BY <2>1, <2>3 DEF Yield, YieldReturns, YieldSwitches, Stop
  <2>4. ~RunCommand
    BY <2>1 DEF RunCommand, Execve, Stop
  <2>5. ~AwaitCommand /\ ~KillWork /\ ~ProgramExit
    BY <2>2, <2>3, ShellAssumption
       DEF AwaitCommand, WaitPid, KillWork, Kill, ProgramExit, Exit
  <2>6. /\ ~Prompt /\ ~LeaveShell /\ ~NestedShell /\ ~UtilWork /\ ~UtilRead /\ ~ReadLine
        /\ ~BareCommand /\ ~UtilFault /\ ~PastExit
    <3>1. ~UserFault
      BY <2>1 DEF UserFault, Stop
    <3> QED BY <2>2, <3>1, ShellAssumption
            DEF Prompt, LeaveShell, NestedShell, UtilWork, UtilRead, ReadLine, BareCommand,
                UtilFault, PastExit
  <2>7. ~UNCHANGED shellVars
    BY <2>1 DEF shellVars, vars
  <2>8. PICK c \in Command, p \in Pid \ {0} : StartCommand(c, p)
    BY <1>1, <2>4, <2>5, <2>6, <2>7 DEF ShellNext, ProgramStep, UserStep
  <2>9. ForkSwitches("fork") /\ role[running] = "sbush"
    BY <2>1, <2>8 DEF StartCommand, In, Fork, Stop
  <2>10. s = "fork"
    <3>1. blocked'[running] = s /\ blocked'[running] = "fork"
      BY <1>1, <2>0, <2>9 DEF ForkSwitches
    <3> QED BY <3>1
  <2>11. running = Sbush
    <3>1. running \notin TrapClobbers
      BY <2>9 DEF ForkSwitches
    <3>2. SUFFICES ASSUME running # Sbush PROVE FALSE
      OBVIOUS
    <3>3. running \in forked /\ running = rsp0
      BY <1>1, <2>0, <2>9, <3>2, Places DEF ShellInv, ProgramInv, PlaceInv
    <3> QED BY <3>1, <3>3 DEF TrapClobbers
  <2>12. TrapFrame("fork")[Sbush] = "fork"
    BY <1>1, <2>0 DEF TrapFrame, ShellInv, PlaceInv
  <2> QED BY <2>9, <2>10, <2>11, <2>12 DEF ForkSwitches
<1>2. IInv /\ ShellInv /\ [ShellNext]_shellVars =>
        [\A s \in Site : ForkSwitches(s) => at' = s]_shellVars
  BY <1>1
<1>3. ShellSpec => [][ShellNext]_shellVars
  BY PTL DEF ShellSpec
<1> QED BY <1>2, <1>3, ShellInvariant, PTL DEF ShellForkReturns
=============================================================================
