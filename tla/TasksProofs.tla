---------------------------- MODULE TasksProofs ----------------------------
(***************************************************************************)
(* Machine-checked proofs about Tasks, for every number of Task structures *)
(* and process ids and every set of call sites.                            *)
(***************************************************************************)
EXTENDS Tasks, TLAPS

\* l holds each of 1..Len(l) once, behind the init task
Permuted(l) ==
    /\ Len(l) >= 2
    /\ l[1] = InitTask
    /\ \A i, j \in 1..Len(l) : l[i] = l[j] => i = j
    /\ \A i \in 1..Len(l) : l[i] \in 1..Len(l)
    /\ \A t \in 1..Len(l) : \E i \in 1..Len(l) : l[i] = t

\* The list predicate in the form the other lemmas use it.
LEMMA ListForm == ASSUME procList \in Seq(Task)
                  PROVE  ListIntact <=> Permuted(procList)
<1> DEFINE n == Len(procList)
<1>1. Listed = 1..n <=> /\ \A i \in 1..n : procList[i] \in 1..n
                        /\ \A t \in 1..n : \E i \in 1..n : procList[i] = t
  <2>1. ASSUME Listed = 1..n
        PROVE  /\ \A i \in 1..n : procList[i] \in 1..n
               /\ \A t \in 1..n : \E i \in 1..n : procList[i] = t
    BY <2>1 DEF Listed
  <2>2. ASSUME /\ \A i \in 1..n : procList[i] \in 1..n
               /\ \A t \in 1..n : \E i \in 1..n : procList[i] = t
        PROVE  Listed = 1..n
    BY <2>2 DEF Listed
  <2> QED BY <2>1, <2>2
<1> QED BY <1>1, Zenon DEF ListIntact, Permuted

\* The slot of l that MoveToEnd(l, i) puts in slot j.
From(l, i, j) == IF j < i THEN j ELSE IF j < Len(l) THEN j + 1 ELSE i

LEMMA MoveToEndSlots ==
    ASSUME NEW l \in Seq(Task), NEW i \in 1..Len(l)
    PROVE  /\ MoveToEnd(l, i) \in Seq(Task)
           /\ Len(MoveToEnd(l, i)) = Len(l)
           /\ \A j \in 1..Len(l) : MoveToEnd(l, i)[j] = l[From(l, i, j)]
           /\ \A j \in 1..Len(l) : From(l, i, j) \in 1..Len(l)
           /\ \A j, k \in 1..Len(l) : From(l, i, j) = From(l, i, k) => j = k
           /\ \A k \in 1..Len(l) : \E j \in 1..Len(l) : From(l, i, j) = k
<1>1. Len(l) \in Nat
  OBVIOUS
<1>2. \A j \in 1..Len(l) : From(l, i, j) \in 1..Len(l)
  BY <1>1 DEF From
<1>3. \A j, k \in 1..Len(l) : From(l, i, j) = From(l, i, k) => j = k
  BY <1>1 DEF From
<1>4. \A k \in 1..Len(l) : \E j \in 1..Len(l) : From(l, i, j) = k
  <2> TAKE k \in 1..Len(l)
  <2>1. CASE k < i
    BY <2>1, <1>1 DEF From
  <2>2. CASE k = i
    BY <2>2, <1>1 DEF From
  <2>3. CASE k > i
    <3>1. k - 1 \in 1..Len(l) /\ From(l, i, k - 1) = k
      BY <2>3, <1>1 DEF From
    <3> QED BY <3>1
  <2> QED BY <2>1, <2>2, <2>3
<1>5. MoveToEnd(l, i) \in [1..Len(l) -> Task]
  BY <1>1 DEF MoveToEnd
<1>6. MoveToEnd(l, i) \in Seq(Task) /\ Len(MoveToEnd(l, i)) = Len(l)
  BY <1>1, <1>5
<1>7. \A j \in 1..Len(l) : MoveToEnd(l, i)[j] = l[From(l, i, j)]
  BY <1>1 DEF MoveToEnd, From
<1> QED BY <1>2, <1>3, <1>4, <1>6, <1>7

\* moveProcessToEnd keeps every task in the list exactly once.
LEMMA MoveToEndPermuted ==
    ASSUME NEW l \in Seq(Task), Permuted(l), NEW i \in 2..Len(l)
    PROVE  Permuted(MoveToEnd(l, i))
<1> DEFINE m == MoveToEnd(l, i)
<1>0. Len(l) \in Nat /\ i \in 1..Len(l)
  OBVIOUS
<1>1. /\ m \in Seq(Task) /\ Len(m) = Len(l)
      /\ \A j \in 1..Len(l) : m[j] = l[From(l, i, j)]
      /\ \A j \in 1..Len(l) : From(l, i, j) \in 1..Len(l)
      /\ \A j, k \in 1..Len(l) : From(l, i, j) = From(l, i, k) => j = k
      /\ \A k \in 1..Len(l) : \E j \in 1..Len(l) : From(l, i, j) = k
  BY <1>0, MoveToEndSlots
<1>2. m[1] = InitTask
  <2>1. From(l, i, 1) = 1 /\ 1 \in 1..Len(l)
    BY <1>0 DEF From
  <2> HIDE DEF m
  <2> QED BY <1>1, <2>1 DEF Permuted
<1> HIDE DEF m
<1>3. \A j, k \in 1..Len(m) : m[j] = m[k] => j = k
  <2> TAKE j, k \in 1..Len(m)
  <2> HAVE m[j] = m[k]
  <2>1. l[From(l, i, j)] = l[From(l, i, k)]
    BY <1>1
  <2>a. \A x, y \in 1..Len(l) : l[x] = l[y] => x = y
    BY DEF Permuted
  <2>b. j \in 1..Len(l) /\ k \in 1..Len(l)
    BY <1>1
  <2>c. From(l, i, j) \in 1..Len(l) /\ From(l, i, k) \in 1..Len(l)
    BY <1>1, <2>b, Zenon
  <2>2. From(l, i, j) = From(l, i, k)
    BY <2>1, <2>a, <2>c, Zenon
  <2> QED BY <1>1, <2>2, <2>b, Zenon
<1>4. \A j \in 1..Len(m) : m[j] \in 1..Len(m)
  BY <1>1 DEF Permuted
<1>5. \A t \in 1..Len(m) : \E j \in 1..Len(m) : m[j] = t
  <2> TAKE t \in 1..Len(m)
  <2>1. PICK k \in 1..Len(l) : l[k] = t
    BY <1>1 DEF Permuted
  <2>2. PICK j \in 1..Len(l) : From(l, i, j) = k
    BY <1>1
  <2> QED BY <1>1, <2>1, <2>2
<1>6. Len(m) >= 2
  BY <1>1 DEF Permuted
<1>7. Permuted(m)
  BY <1>2, <1>3, <1>4, <1>5, <1>6 DEF Permuted
<1> QED BY <1>7 DEF m

\* addProcessToList of a new Task keeps every task in the list exactly once.
LEMMA AppendPermuted ==
    ASSUME NEW l \in Seq(Task), Permuted(l), Len(l) + 1 \in Task
    PROVE  /\ Append(l, Len(l) + 1) \in Seq(Task)
           /\ Len(Append(l, Len(l) + 1)) = Len(l) + 1
           /\ Permuted(Append(l, Len(l) + 1))
<1> DEFINE n == Len(l) + 1
           m == Append(l, n)
<1>0. Len(l) \in Nat
  OBVIOUS
<1>1. /\ m \in Seq(Task) /\ Len(m) = n
      /\ \A j \in 1..Len(l) : m[j] = l[j]
      /\ m[n] = n
  BY <1>0
<1> HIDE DEF m
<1>2. Len(m) >= 2 /\ m[1] = InitTask
  <2>1. Len(l) >= 2 /\ l[1] = InitTask
    BY DEF Permuted
  <2>2. Len(m) >= 2 /\ 1 \in 1..Len(l)
    BY <1>0, <1>1, <2>1
  <2>3. m[1] = l[1]
    BY <1>1, <2>2, Zenon
  <2> QED BY <2>1, <2>2, <2>3
<1>a. /\ \A j \in 1..Len(m) : j \in 1..Len(l) \/ j = n
      /\ n \notin 1..Len(l)
      /\ \A j \in 1..Len(l) : j \in 1..Len(m)
      /\ n \in 1..Len(m)
  BY <1>0, <1>1
<1>b. \A j \in 1..Len(l) : m[j] \in 1..Len(l)
  BY <1>1 DEF Permuted
<1>c. \A j, k \in 1..Len(l) : m[j] = m[k] => j = k
  BY <1>1 DEF Permuted
<1> HIDE DEF n
<1>3. \A j, k \in 1..Len(m) : m[j] = m[k] => j = k
  <2> TAKE j, k \in 1..Len(m)
  <2>1. CASE j \in 1..Len(l) /\ k \in 1..Len(l)
    BY <1>c, <2>1
  <2>2. CASE j = n \/ k = n
    BY <1>1, <1>a, <1>b, <2>2
  <2> QED BY <1>a, <2>1, <2>2
<1>4. \A j \in 1..Len(m) : m[j] \in 1..Len(m)
  BY <1>1, <1>a, <1>b
<1>5. \A t \in 1..Len(m) : \E j \in 1..Len(m) : m[j] = t
  <2> TAKE t \in 1..Len(m)
  <2>1. CASE t = n
    BY <1>1, <1>a, <2>1
  <2>2. CASE t \in 1..Len(l)
    <3>1. PICK k \in 1..Len(l) : l[k] = t
      BY <2>2 DEF Permuted
    <3> QED BY <1>1, <1>a, <3>1
  <2> QED BY <1>a, <2>1, <2>2
<1>6. Permuted(m)
  BY <1>2, <1>3, <1>4, <1>5 DEF Permuted
<1> QED BY <1>1, <1>6 DEF m, n
-----------------------------------------------------------------------------
(***************************************************************************)
(* The inductive invariant.  SavedContextIntact rests on the fact that     *)
(* tss.rsp0 always names the newest Task (NewestStack): a stack is left    *)
(* for good at the fork that saves a context on it.                        *)
(***************************************************************************)
N == Len(procList)

NewestStack == rsp0 = N /\ running \in 2..N

PidInv ==
    /\ \A t \in 1..N : pid[t] \in processID \/ pid[t] = BadPid
    /\ \A t, u \in 1..N : t # u /\ pid[t] = pid[u] => pid[t] = BadPid

ParentInv == \A t \in 2..N : \E u \in 1..N : pid[u] = ppid[t]

StateInv ==
    /\ state[InitTask] # "RUNNING"
    /\ RunningNotWaiting

CtxInv ==
    /\ \A t \in Task : blocked[t] # NoSite =>
         /\ t \in 2..N
         /\ ctx[t] \in 1..(N - 1)
         /\ frame[ctx[t]] = blocked[t]
    /\ \A t, u \in Task : t # u /\ blocked[t] # NoSite /\ blocked[u] # NoSite
                           => ctx[t] # ctx[u]

IInv ==
    /\ TypeOK
    /\ Permuted(procList)
    /\ NewestStack
    /\ PidInv
    /\ ParentInv
    /\ StateInv
    /\ CtxInv

LEMMA InitInv == Init => IInv
<1> SUFFICES ASSUME Init PROVE IInv
  OBVIOUS
<1> USE ConstantsAssumption
<1>0. 1 \in Task /\ 2 \in Task /\ N = 2 /\ procList \in Seq(Task)
  BY DEF Init, Task, N
<1>1. TypeOK
  BY <1>0 DEF Init, TypeOK, Pid, State, Location, BadPid, Task
<1>2. Permuted(procList)
  BY <1>0 DEF Init, Permuted, InitTask
<1>3. NewestStack
  BY <1>0 DEF Init, NewestStack
<1>4. PidInv
  BY <1>0 DEF Init, PidInv, Task
<1>5. ParentInv
  <2>1. pid[1] = ppid[2]
    BY <1>0 DEF Init
  <2> QED BY <1>0, <2>1 DEF ParentInv
<1>6. StateInv
  BY <1>0 DEF Init, StateInv, RunningNotWaiting, InitTask
<1>7. CtxInv
  BY <1>0 DEF Init, CtxInv
<1> QED BY <1>1, <1>2, <1>3, <1>4, <1>5, <1>6, <1>7 DEF IInv

\* A machine that has stopped keeps every field.
LEMMA StopStep == ASSUME IInv, NEW c \in {"hung", "reset"}, Stop(c)
                  PROVE  IInv'
<1>0. cpu' = c /\ UNCHANGED <<procList, pid, ppid, state, forked, clobbered, ctx, frame,
                              processID, running, rsp0, at, blocked>>
  BY DEF Stop
<1>1. TypeOK'
  BY <1>0 DEF IInv, TypeOK
<1>2. Permuted(procList)' /\ NewestStack'
  BY <1>0 DEF IInv, Permuted, NewestStack, N
<1>3. PidInv' /\ ParentInv'
  BY <1>0 DEF IInv, PidInv, ParentInv, N
<1>4. StateInv'
  BY <1>0 DEF IInv, StateInv, RunningNotWaiting, N
<1>5. CtxInv'
  BY <1>0 DEF IInv, CtxInv, N
<1> QED BY <1>1, <1>2, <1>3, <1>4, <1>5 DEF IInv

\* A trap frame is pushed on rsp0's stack, which holds no saved context.
LEMMA TrapStep == ASSUME IInv, NEW s \in Site
                  PROVE  /\ TrapFrame(s) \in [Task -> Location]
                         /\ TrapClobbers \subseteq Task
                         /\ \A t \in Task : blocked[t] # NoSite =>
                              TrapFrame(s)[ctx[t]] = blocked[t]
<1>1. TypeOK /\ rsp0 = N /\ N \in Nat /\ rsp0 \in Task
  BY DEF IInv, NewestStack, TypeOK, N
<1>2. TrapFrame(s) \in [Task -> Location]
  BY <1>1 DEF TypeOK, TrapFrame, Location
<1>3. TrapClobbers \subseteq Task
  BY <1>1 DEF TypeOK, TrapClobbers
<1>4. ASSUME NEW t \in Task, blocked[t] # NoSite
      PROVE  TrapFrame(s)[ctx[t]] = blocked[t]
  <2>1. ctx[t] # rsp0 /\ ctx[t] \in Task /\ frame[ctx[t]] = blocked[t]
    BY <1>1, <1>4 DEF IInv, CtxInv, TypeOK, Task
  <2> QED BY <1>1, <2>1 DEF TypeOK, TrapFrame
<1> QED BY <1>2, <1>3, <1>4

\* yield keeps the invariant, whichever single state the caller changed before.
LEMMA YieldStep ==
    ASSUME IInv, cpu = "user", NEW s \in Site,
           NEW st \in [Task -> State], st[InitTask] # "RUNNING",
           Yield(st, s)
    PROVE  IInv'
<1> USE ConstantsAssumption
<1>0. /\ TypeOK /\ Permuted(procList) /\ NewestStack /\ N \in Nat
      /\ procList \in Seq(Task) /\ InitTask \in Task
  BY DEF IInv, TypeOK, N, InitTask, Task
<1>1. CASE YieldReturns(st, s)
  <2>1. PICK k \in 1..N : procList[k] = running
    BY <1>0 DEF Permuted, NewestStack, N
  <2>2. k \in 2..N
    BY <1>0, <2>1 DEF Permuted, NewestStack, InitTask, N
  <2>3. st[running] # "WAITING"
    BY <1>1, <2>1, <2>2 DEF YieldReturns, Ready, N
  <2>4. TypeOK'
    BY <1>0, <1>1, TrapStep DEF TypeOK, YieldReturns, Location
  <2>5. Permuted(procList)' /\ NewestStack' /\ PidInv' /\ ParentInv' /\ N' = N
    <3>1. procList' = procList /\ N' = N
      BY <1>1 DEF YieldReturns, N
    <3>2. UNCHANGED <<pid, ppid, processID, running, rsp0>>
      BY <1>1 DEF YieldReturns
    <3>3. Permuted(procList)'
      BY <1>0, <3>1 DEF Permuted
    <3>4. NewestStack' /\ PidInv'
      BY <3>1, <3>2 DEF IInv, NewestStack, PidInv
    <3>5. ParentInv'
      BY <3>1, <3>2 DEF IInv, ParentInv
    <3> QED BY <3>1, <3>3, <3>4, <3>5
  <2>6. StateInv'
    BY <1>1, <2>3 DEF YieldReturns, StateInv, RunningNotWaiting
  <2>7. CtxInv'
    BY <1>1, <2>5, TrapStep DEF IInv, YieldReturns, CtxInv
  <2> QED BY <2>4, <2>5, <2>6, <2>7 DEF IInv
<1>2. ASSUME NEW i \in Ready(st), i # N, YieldSwitches(st, s, i)
      PROVE  IInv'
  <2>0. PICK to : to = procList[i]
    OBVIOUS
  <2>1. i \in 2..N /\ i \in 2..Len(procList) /\ to \in Task /\ to \in 2..N
    <3>1. i \in 2..N /\ i \in 1..Len(procList) /\ 1 \in 1..Len(procList)
      BY <1>0, <1>2 DEF Ready, N
    <3>2. to \in Task
      BY <1>0, <2>0, <3>1
    <3>4. to \in 1..N
      <4>1. \A j \in 1..Len(procList) : procList[j] \in 1..Len(procList)
        BY <1>0 DEF Permuted
      <4> QED BY <2>0, <3>1, <4>1 DEF N
    <3>3. to # 1
      <4>1. \A j, k \in 1..Len(procList) : procList[j] = procList[k] => j = k
        BY <1>0 DEF Permuted
      <4>2. procList[1] = 1
        BY <1>0 DEF Permuted, InitTask
      <4> QED BY <2>0, <3>1, <4>1, <4>2
    <3> QED BY <1>0, <3>1, <3>2, <3>3, <3>4 DEF N
  <2>2. procList' \in Seq(Task) /\ N' = N
    BY <1>0, <1>2, <2>1, MoveToEndSlots DEF YieldSwitches, N
  <2>3. Permuted(procList')
    BY <1>0, <1>2, <2>1, MoveToEndPermuted DEF YieldSwitches, N
  <2>4. /\ state' \in [Task -> State]
        /\ state'[to] = "RUNNING"
        /\ state'[InitTask] # "RUNNING"
    <3>1. to # InitTask
      BY <2>1 DEF InitTask
    <3>2. "RUNNING" \in State /\ "WAITING" \in State
      BY DEF State
    <3>3. state' = SwitchStates(st, InitTask, to)
      BY <1>2, <2>0 DEF YieldSwitches
    <3> QED BY <1>0, <2>1, <3>1, <3>2, <3>3 DEF SwitchStates
  <2>5. TypeOK'
    <3>1. ctx[to] \in Task
      BY <1>0, <1>2, <2>0, <2>1 DEF TypeOK, YieldSwitches
    <3>2. at' \in Location /\ frame' \in [Task -> Location]
          /\ clobbered' \subseteq Task
      BY <1>2, <2>0, <3>1, TrapStep DEF YieldSwitches
    <3>3. blocked' \in [Task -> Location]
      <4>1. blocked' = [blocked EXCEPT ![to] = NoSite] /\ NoSite \in Location
        BY <1>2, <2>0 DEF YieldSwitches, Location
      <4>2. blocked \in [Task -> Location]
        BY <1>0 DEF TypeOK
      <4> QED BY <2>1, <4>1, <4>2
    <3>4. /\ UNCHANGED <<pid, ppid, forked, processID, rsp0, cpu>>
          /\ running' = to
      BY <1>2, <2>0 DEF YieldSwitches
    <3>5. ctx' \in [Task -> Task \cup {0}]
      BY <1>0, <1>2 DEF YieldSwitches, TypeOK
    <3> QED BY <1>0, <2>1, <2>2, <2>4, <3>2, <3>3, <3>4, <3>5 DEF TypeOK
  <2>6. NewestStack' /\ PidInv' /\ ParentInv'
    BY <1>2, <2>0, <2>1, <2>2 DEF IInv, YieldSwitches, NewestStack, PidInv, ParentInv
  <2>7. StateInv'
    BY <1>2, <2>0, <2>4 DEF YieldSwitches, StateInv, RunningNotWaiting
  <2>8. CtxInv'
    <3>1. \A t \in Task : blocked'[t] # NoSite => blocked'[t] = blocked[t]
      BY <1>0, <1>2 DEF TypeOK, YieldSwitches
    <3>2. frame' = TrapFrame(s) /\ ctx' = [ctx EXCEPT ![InitTask] = rsp0]
      BY <1>2 DEF YieldSwitches
    <3>3. \A t \in Task : blocked'[t] # NoSite => t # InitTask /\ ctx'[t] = ctx[t]
      BY <1>0, <3>1, <3>2 DEF IInv, CtxInv, InitTask, TypeOK
    <3> QED BY <2>2, <3>1, <3>2, <3>3, TrapStep DEF IInv, CtxInv
  <2> QED BY <2>3, <2>5, <2>6, <2>7, <2>8 DEF IInv
<1>3. CASE Stop("hung")
  BY <1>3, StopStep
<1>4. CASE Stop("reset")
  BY <1>4, StopStep
<1> QED BY <1>1, <1>2, <1>3, <1>4 DEF Yield, N

\* The number of tasks on a ready list is itself a task, as the list holds every
\* task made so far.
LEMMA LastTask ==
    ASSUME NEW l \in Seq(Task), Permuted(l), Len(l) >= 1
    PROVE  Len(l) \in Task
<1> DEFINE n == Len(l)
<1>1. n \in 1..n
  OBVIOUS
<1>2. \A t \in 1..n : \E k \in 1..n : l[k] = t
  BY DEF Permuted
<1>3. \A k \in 1..n : l[k] \in Task
  OBVIOUS
<1> HIDE DEF n
<1>4. n \in Task
  BY <1>1, <1>2, <1>3, Zenon
<1> QED BY <1>4 DEF n

\* A new task: fork and execve append it, number it and switch to its stack.
LEMMA AddTaskStep ==
    ASSUME IInv, ~NoMemory, NEW p \in Pid, NEW pp \in Pid,
           \E u \in 1..N : pid[u] = pp, AddTask(p, pp)
    PROVE  /\ NewTask \in Task /\ NewTask = N + 1 /\ N' = N + 1
           /\ procList' \in Seq(Task) /\ Permuted(procList')
           /\ NewestStack' /\ PidInv' /\ ParentInv'
           /\ pid' \in [Task -> Pid] /\ ppid' \in [Task -> Pid]
           /\ processID' \subseteq 1..MaxPid
           /\ running' \in Task /\ rsp0' \in Task
<1> USE ConstantsAssumption
<1>0. TypeOK /\ Permuted(procList) /\ procList \in Seq(Task) /\ N \in Nat /\ N >= 2
  <2>1. TypeOK /\ Permuted(procList)
    BY DEF IInv
  <2>2. procList \in Seq(Task)
    BY <2>1 DEF TypeOK
  <2> QED BY <2>1, <2>2 DEF N, Permuted
<1>1. NewTask = N + 1 /\ NewTask \in Task /\ N \in Task
  <2>3. N \in Task
    BY <1>0, LastTask DEF N
  <2> QED BY <1>0, <2>3 DEF NewTask, NoMemory, Task, N
<1>2. procList' \in Seq(Task) /\ Permuted(procList') /\ N' = N + 1
  BY <1>0, <1>1, AppendPermuted DEF AddTask, MarkId, SetParent, NewTask, N
<1>3. NewestStack'
  BY <1>0, <1>1, <1>2 DEF AddTask, MarkId, SetParent, NewestStack
<1>4. /\ processID' \subseteq 1..MaxPid
      /\ p # BadPid => p \notin processID /\ p \in processID'
      /\ processID \subseteq processID'
      /\ p \in processID' \/ p = BadPid
  <2>1. processID \subseteq 1..MaxPid
    BY <1>0 DEF TypeOK
  <2>2. CASE p = BadPid
    BY <2>1, <2>2 DEF AddTask, MarkId, SetParent
  <2>3. CASE p # BadPid
    <3>1. p \in 1..MaxPid /\ p \notin processID /\ processID' = processID \cup {p}
      BY <2>3 DEF AddTask, MarkId, SetParent, GetProcessID
    <3>2. \A q \in processID' : q \in 1..MaxPid
      BY <2>1, <3>1
    <3>3. p \in processID' /\ \A q \in processID : q \in processID'
      BY <3>1
    <3> QED BY <3>1, <3>2, <3>3
  <2> QED BY <2>2, <2>3
<1>5. /\ pid' \in [Task -> Pid] /\ pid'[NewTask] = p
      /\ ppid' \in [Task -> Pid] /\ ppid'[NewTask] = pp
      /\ \A t \in 1..N : pid'[t] = pid[t] /\ ppid'[t] = ppid[t]
  BY <1>0, <1>1 DEF AddTask, MarkId, SetParent, TypeOK, Task
<1>6. PidInv'
  <2>1. \A t \in 1..N' : t \in 1..N \/ t = NewTask
    BY <1>0, <1>1, <1>2
  <2>2. \A t \in 1..N' : pid'[t] \in processID' \/ pid'[t] = BadPid
    <3> TAKE t \in 1..N'
    <3>1. CASE t \in 1..N
      <4>1. pid'[t] = pid[t] /\ (pid[t] \in processID \/ pid[t] = BadPid)
        BY <1>5, <3>1 DEF IInv, PidInv
      <4>2. \A q \in processID : q \in processID'
        BY <1>4
      <4> QED BY <4>1, <4>2
    <3>2. CASE t = NewTask
      BY <1>4, <1>5, <3>2
    <3> QED BY <2>1, <3>1, <3>2
  <2>3. \A t \in 1..N : pid[t] = p => p = BadPid
    BY <1>4 DEF IInv, PidInv
  <2>4. ASSUME NEW t \in 1..N', NEW u \in 1..N', t # u, pid'[t] = pid'[u]
        PROVE  pid'[t] = BadPid
    <3>1. CASE t \in 1..N /\ u \in 1..N
      BY <1>5, <2>4, <3>1 DEF IInv, PidInv
    <3>2. CASE t = NewTask
      BY <1>5, <2>1, <2>3, <2>4, <3>2
    <3>3. CASE u = NewTask
      BY <1>5, <2>1, <2>3, <2>4, <3>3
    <3> QED BY <2>1, <3>1, <3>2, <3>3
  <2> QED BY <2>2, <2>4 DEF PidInv
<1>7. ParentInv'
  <2>1. \A t \in 2..N' : t \in 2..N \/ t = NewTask
    BY <1>0, <1>1, <1>2
  <2>2. \A u \in 1..N : u \in 1..N'
    BY <1>0, <1>2
  <2>3. ASSUME NEW t \in 2..N'
        PROVE  \E u \in 1..N' : pid'[u] = ppid'[t]
    <3>1. CASE t \in 2..N
      <4>1. PICK u \in 1..N : pid[u] = ppid[t]
        BY <3>1 DEF IInv, ParentInv
      <4>2. t \in 1..N
        BY <3>1
      <4> QED BY <1>5, <2>2, <4>1, <4>2
    <3>2. CASE t = NewTask
      <4>1. PICK u \in 1..N : pid[u] = pp
        OBVIOUS
      <4> QED BY <1>5, <2>2, <3>2, <4>1
    <3> QED BY <2>1, <2>3, <3>1, <3>2
  <2> QED BY <2>3 DEF ParentInv
<1>8. running' \in Task /\ rsp0' \in Task
  BY <1>0, <1>1 DEF AddTask, MarkId, SetParent, TypeOK
<1> QED BY <1>1, <1>2, <1>3, <1>4, <1>5, <1>6, <1>7, <1>8

\* proc_fork: the parent's context stays on the stack rsp0 is about to leave.
LEMMA ForkStep == ASSUME IInv, cpu = "user", ~NoMemory, NEW s \in Site,
                         ForkSwitches(s)
                  PROVE  IInv'
<1> USE ConstantsAssumption
<1>0. TypeOK /\ NewestStack /\ N \in Nat /\ running \in 2..N /\ running \in Task
  BY DEF IInv, TypeOK, NewestStack, N
<1>1. PICK p \in Pid : AddTask(p, pid[running])
  BY DEF ForkSwitches
<1>2. pid[running] \in Pid /\ \E u \in 1..N : pid[u] = pid[running]
  BY <1>0 DEF TypeOK
<1>3. /\ NewTask \in Task /\ NewTask = N + 1 /\ N' = N + 1
      /\ procList' \in Seq(Task) /\ Permuted(procList')
      /\ NewestStack' /\ PidInv' /\ ParentInv'
      /\ pid' \in [Task -> Pid] /\ ppid' \in [Task -> Pid]
      /\ processID' \subseteq 1..MaxPid
      /\ running' \in Task /\ rsp0' \in Task
  BY <1>1, <1>2, AddTaskStep
<1>4. NewTask # running /\ NewTask # rsp0 /\ rsp0 \in Task /\ rsp0 = N
  BY <1>0, <1>3 DEF NewestStack, TypeOK
<1>6. /\ forked' = forked \cup {NewTask}
      /\ state' = SwitchStates(state, running, NewTask)
      /\ frame' = ChildFrame(s)
      /\ clobbered' = TrapClobbers
      /\ ctx' = ForkContexts
      /\ at' = TrapFrame(s)[running]
      /\ blocked' = [blocked EXCEPT ![running] = s]
      /\ cpu' = cpu
  BY DEF ForkSwitches
<1>7. s \in Location /\ "RUNNING" \in State /\ "WAITING" \in State
  BY DEF State, Location
<1>8. /\ TrapFrame(s) \in [Task -> Location] /\ TrapClobbers \subseteq Task
      /\ \A t \in Task : blocked[t] # NoSite => TrapFrame(s)[ctx[t]] = blocked[t]
  BY TrapStep
<1>9. TypeOK'
  <2>1. state' \in [Task -> State]
    <3>1. state \in [Task -> State]
      BY <1>0 DEF TypeOK
    <3> QED BY <1>6, <1>7, <3>1 DEF SwitchStates
  <2>2. frame' \in [Task -> Location] /\ at' \in Location
    BY <1>0, <1>3, <1>6, <1>8 DEF ChildFrame
  <2>3. ctx' \in [Task -> Task \cup {0}]
    <3>1. ctx \in [Task -> Task \cup {0}]
      BY <1>0 DEF TypeOK
    <3> QED BY <1>3, <1>4, <1>6, <3>1 DEF ForkContexts
  <2>4. blocked' \in [Task -> Location]
    BY <1>0, <1>6, <1>7 DEF TypeOK
  <2>5. /\ clobbered' \subseteq Task /\ forked' \subseteq Task
        /\ cpu' \in {"user", "hung", "reset"}
    <3>1. forked \subseteq Task /\ cpu \in {"user", "hung", "reset"}
      BY <1>0 DEF TypeOK
    <3>2. clobbered' \subseteq Task
      BY <1>6, <1>8
    <3>3. forked' \subseteq Task
      <4>1. forked' = forked \cup {NewTask} /\ NewTask \in Task
        BY <1>3, <1>6
      <4>2. \A q \in forked : q \in Task
        BY <3>1
      <4>3. \A q \in forked' : q \in Task
        BY <4>1, <4>2
      <4> QED BY <4>3
    <3> QED BY <1>6, <3>1, <3>2, <3>3
  <2> QED BY <1>3, <2>1, <2>2, <2>3, <2>4, <2>5 DEF TypeOK
<1>10. StateInv'
  <2>1. running' = NewTask
    BY <1>1 DEF AddTask, MarkId, SetParent
  <2>2. state'[NewTask] = "RUNNING" /\ state'[InitTask] # "RUNNING"
    <3>1. InitTask # NewTask /\ InitTask \in Task
      BY <1>0, <1>3 DEF InitTask, Task
    <3> QED BY <1>3, <1>6, <3>1 DEF IInv, StateInv, SwitchStates
  <2> QED BY <2>1, <2>2 DEF StateInv, RunningNotWaiting
<1>11. CtxInv'
  <2>1. \A t \in Task \ {running} : blocked'[t] = blocked[t]
    BY <1>0, <1>6 DEF TypeOK
  <2>2. blocked[NewTask] = NoSite
    BY <1>0, <1>3 DEF IInv, CtxInv
  <2>3. ctx'[running] = N /\ \A t \in Task \ {running, NewTask} : ctx'[t] = ctx[t]
    BY <1>0, <1>3, <1>4, <1>6 DEF ForkContexts
  <2>4. frame'[N] = s /\ \A t \in Task \ {NewTask} : frame'[t] = TrapFrame(s)[t]
    BY <1>0, <1>3, <1>4, <1>6, <1>8 DEF ChildFrame, TrapFrame, TypeOK
  <2>5. blocked'[running] = s
    BY <1>0, <1>6 DEF TypeOK
  <2>6. ASSUME NEW t \in Task, t # running, blocked'[t] # NoSite
        PROVE  /\ t \in 2..N' /\ ctx'[t] = ctx[t] /\ ctx[t] \in 1..(N - 1)
               /\ blocked[t] # NoSite /\ frame'[ctx'[t]] = blocked'[t]
    <3>1. blocked'[t] = blocked[t] /\ t # NewTask
      BY <2>1, <2>2, <2>6
    <3>2. ctx'[t] = ctx[t]
      BY <2>3, <2>6, <3>1
    <3>3. t \in 2..N /\ ctx[t] \in 1..(N - 1)
      BY <2>6, <3>1 DEF IInv, CtxInv
    <3>4. ctx[t] \in Task /\ ctx[t] # NewTask
      BY <1>0, <1>3, <1>4, <3>3 DEF Task
    <3>5. frame'[ctx[t]] = blocked[t]
      BY <1>8, <2>4, <2>6, <3>1, <3>4
    <3> QED BY <1>0, <1>3, <2>6, <3>1, <3>2, <3>3, <3>5
  <2>7. /\ running \in 2..N' /\ ctx'[running] \in 1..(N' - 1)
        /\ frame'[ctx'[running]] = blocked'[running]
    BY <1>0, <1>3, <2>3, <2>4, <2>5
  <2>8. ASSUME NEW t \in Task, blocked'[t] # NoSite
        PROVE  /\ t \in 2..N' /\ ctx'[t] \in 1..(N' - 1)
               /\ frame'[ctx'[t]] = blocked'[t]
    <3>1. CASE t = running
      BY <2>7, <3>1
    <3>2. CASE t # running
      <4>1. /\ t \in 2..N' /\ ctx'[t] \in 1..(N - 1)
            /\ frame'[ctx'[t]] = blocked'[t]
        BY <2>6, <2>8, <3>2
      <4> QED BY <1>0, <1>3, <4>1
    <3> QED BY <3>1, <3>2
  <2>9. ASSUME NEW t \in Task, NEW u \in Task, t # u,
               blocked'[t] # NoSite, blocked'[u] # NoSite
        PROVE  ctx'[t] # ctx'[u]
    <3>1. CASE t = running
      <4>1. ctx'[u] \in 1..(N - 1)
        BY <2>6, <2>9, <3>1
      <4> QED BY <1>0, <2>3, <3>1, <4>1
    <3>2. CASE u = running
      <4>1. ctx'[t] \in 1..(N - 1)
        BY <2>6, <2>9, <3>2
      <4> QED BY <1>0, <2>3, <3>2, <4>1
    <3>3. CASE t # running /\ u # running
      <4>1. ctx'[t] = ctx[t] /\ ctx'[u] = ctx[u]
            /\ blocked[t] # NoSite /\ blocked[u] # NoSite
        BY <2>6, <2>9, <3>3
      <4> QED BY <2>9, <4>1 DEF IInv, CtxInv
    <3> QED BY <3>1, <3>2, <3>3
  <2> QED BY <2>8, <2>9 DEF CtxInv
<1> QED BY <1>3, <1>9, <1>10, <1>11 DEF IInv

\* sanexecve: the new task inherits the caller's parent.
LEMMA ExecveStep == ASSUME IInv, NEW s \in Site, NEW found \in BOOLEAN,
                           Execve(s, found)
                    PROVE  IInv'
<1> USE ConstantsAssumption
<1>0. TypeOK /\ NewestStack /\ N \in Nat /\ running \in 2..N /\ running \in Task
  BY DEF IInv, TypeOK, NewestStack, N
<1>1. CASE Stop("hung")
  BY <1>1, StopStep
<1>2. CASE ~Stop("hung")
  <2>1. /\ ~NoMemory
        /\ \E p \in Pid : AddTask(p, ppid[running])
        /\ state' = [state EXCEPT ![running] = "ENDED", ![NewTask] = "RUNNING"]
        /\ frame' = TrapFrame(s)
        /\ clobbered' = TrapClobbers
        /\ at' = NoSite
        /\ UNCHANGED <<forked, ctx, blocked, cpu>>
    BY <1>2 DEF Execve
  <2>2. PICK p \in Pid : AddTask(p, ppid[running])
    BY <2>1
  <2>3. ppid[running] \in Pid /\ \E u \in 1..N : pid[u] = ppid[running]
    BY <1>0 DEF TypeOK, IInv, ParentInv
  <2>4. /\ NewTask \in Task /\ NewTask = N + 1 /\ N' = N + 1
        /\ procList' \in Seq(Task) /\ Permuted(procList')
        /\ NewestStack' /\ PidInv' /\ ParentInv'
        /\ pid' \in [Task -> Pid] /\ ppid' \in [Task -> Pid]
        /\ processID' \subseteq 1..MaxPid
        /\ running' \in Task /\ rsp0' \in Task
    BY <2>1, <2>2, <2>3, AddTaskStep
  <2>5. /\ TrapFrame(s) \in [Task -> Location] /\ TrapClobbers \subseteq Task
        /\ \A t \in Task : blocked[t] # NoSite => TrapFrame(s)[ctx[t]] = blocked[t]
    BY TrapStep
  <2>6. state \in [Task -> State] /\ "ENDED" \in State /\ "RUNNING" \in State
    BY <1>0 DEF TypeOK, State
  <2>7. TypeOK'
    <3>1. state' \in [Task -> State]
      BY <1>0, <2>1, <2>4, <2>6
    <3>2. /\ frame' \in [Task -> Location] /\ clobbered' \subseteq Task
          /\ at' \in Location
      BY <2>1, <2>5 DEF Location
    <3>3. /\ forked' \subseteq Task /\ ctx' \in [Task -> Task \cup {0}]
          /\ blocked' \in [Task -> Location] /\ cpu' \in {"user", "hung", "reset"}
      BY <1>0, <2>1 DEF TypeOK
    <3> QED BY <2>4, <3>1, <3>2, <3>3 DEF TypeOK
  <2>8. StateInv'
    <3>1. running' = NewTask
      BY <2>2 DEF AddTask, MarkId, SetParent
    <3>2. InitTask # NewTask /\ InitTask # running /\ InitTask \in Task
      BY <1>0, <2>4 DEF InitTask, Task
    <3>3. state'[NewTask] = "RUNNING" /\ state'[InitTask] = state[InitTask]
      BY <1>0, <2>1, <2>4, <2>6, <3>2
    <3> QED BY <3>1, <3>3 DEF IInv, StateInv, RunningNotWaiting
  <2>9. CtxInv'
    <3>1. ctx' = ctx /\ blocked' = blocked /\ frame' = TrapFrame(s)
      BY <2>1
    <3>2. \A t \in Task : blocked[t] # NoSite => t \in 2..N' /\ ctx[t] \in 1..(N' - 1)
      BY <1>0, <2>4 DEF IInv, CtxInv
    <3> QED BY <2>5, <3>1, <3>2 DEF IInv, CtxInv
  <2> QED BY <2>4, <2>7, <2>8, <2>9 DEF IInv
<1> QED BY <1>1, <1>2

\* A trap that changes no task keeps the invariant.
LEMMA OtherTrapStep == ASSUME IInv, NEW s \in Site, Trap(s) PROVE IInv'
<1>1. /\ frame' = TrapFrame(s) /\ clobbered' = TrapClobbers /\ at' = s
      /\ procList' = procList /\ pid' = pid /\ ppid' = ppid /\ state' = state
      /\ forked' = forked /\ ctx' = ctx /\ processID' = processID
      /\ running' = running /\ rsp0' = rsp0 /\ blocked' = blocked /\ cpu' = cpu
  BY DEF Trap
<1>2. /\ TrapFrame(s) \in [Task -> Location] /\ TrapClobbers \subseteq Task
      /\ \A t \in Task : blocked[t] # NoSite => TrapFrame(s)[ctx[t]] = blocked[t]
  BY TrapStep
<1>3. TypeOK'
  BY <1>1, <1>2 DEF IInv, TypeOK, Location
<1>4. N' = N /\ NewestStack' /\ PidInv'
  BY <1>1 DEF IInv, NewestStack, PidInv, N
<1>5. ParentInv' /\ Permuted(procList)' /\ StateInv'
  BY <1>1, <1>4 DEF IInv, ParentInv, Permuted, StateInv, RunningNotWaiting
<1>6. CtxInv'
  BY <1>1, <1>2, <1>4 DEF IInv, CtxInv
<1> QED BY <1>3, <1>4, <1>5, <1>6 DEF IInv

LEMMA NextInv == ASSUME IInv, [Next]_vars PROVE IInv'
<1>0. TypeOK /\ Permuted(procList) /\ NewestStack /\ StateInv
      /\ state \in [Task -> State] /\ N \in Nat
  BY DEF IInv, TypeOK, N
<1>1. CASE UNCHANGED vars
  <2>1. TypeOK'
    BY <1>1 DEF vars, IInv, TypeOK
  <2>2. Permuted(procList)' /\ NewestStack'
    BY <1>1 DEF vars, IInv, Permuted, NewestStack, N
  <2>3. PidInv' /\ ParentInv'
    BY <1>1 DEF vars, IInv, PidInv, ParentInv, N
  <2>4. StateInv'
    BY <1>1 DEF vars, IInv, StateInv, RunningNotWaiting, N
  <2>5. CtxInv'
    BY <1>1 DEF vars, IInv, CtxInv, N
  <2> QED BY <2>1, <2>2, <2>3, <2>4, <2>5 DEF IInv
<1>2. ASSUME NEW s \in Site, Trap(s) PROVE IInv'
  BY <1>2, OtherTrapStep
<1>3. ASSUME NEW s \in Site, Fork(s) PROVE IInv'
  BY <1>3, StopStep, ForkStep DEF Fork
<1>4. ASSUME NEW s \in Site, NEW found \in BOOLEAN, Execve(s, found) PROVE IInv'
  BY <1>4, ExecveStep
<1>5. /\ \A t \in Task : [state EXCEPT ![t] = "ENDED"] \in [Task -> State]
      /\ \A t \in Task : [state EXCEPT ![t] = "ZOMBIE"] \in [Task -> State]
      /\ \A t \in Task : [state EXCEPT ![t] = "WAITING"] \in [Task -> State]
      /\ \A t \in Task : [state EXCEPT ![t] = "ENDED"][InitTask] # "RUNNING"
      /\ \A t \in Task : [state EXCEPT ![t] = "ZOMBIE"][InitTask] # "RUNNING"
      /\ \A t \in Task : [state EXCEPT ![t] = "WAITING"][InitTask] # "RUNNING"
  <2>1. "ENDED" \in State /\ "ZOMBIE" \in State /\ "WAITING" \in State
    BY DEF State
  <2>2. InitTask \in Task /\ state[InitTask] # "RUNNING"
    BY <1>0, ConstantsAssumption DEF InitTask, Task, StateInv
  <2> QED BY <1>0, <2>1, <2>2
<1>6. \A i \in 1..Len(procList) : procList[i] \in Task
  BY <1>0 DEF TypeOK
<1>7. ASSUME NEW s \in Site, Exit(s) PROVE IInv'
  <2>1. running \in Task
    BY <1>0 DEF TypeOK
  <2> QED BY <1>5, <1>7, <2>1, YieldStep DEF Exit
<1>8. ASSUME NEW s \in Site, NEW p \in Pid, Kill(s, p) PROVE IInv'
  <2>1. CASE Yield(state, s)
    BY <1>0, <1>8, <2>1, YieldStep DEF Kill, StateInv
  <2>2. CASE \E i \in WithPid(p) : Yield([state EXCEPT ![procList[i]] = "ENDED"], s)
    <3>1. PICK i \in WithPid(p) : Yield([state EXCEPT ![procList[i]] = "ENDED"], s)
      BY <2>2
    <3>2. procList[i] \in Task
      BY <1>6 DEF WithPid
    <3> QED BY <1>5, <1>8, <3>1, <3>2, YieldStep DEF Kill
  <2> QED BY <1>8, <2>1, <2>2 DEF Kill
<1>9. ASSUME NEW s \in Site, NEW p \in Pid, WaitPid(s, p) PROVE IInv'
  <2>1. CASE Trap(s)
    BY <2>1, OtherTrapStep
  <2>2. CASE cpu = "user" /\ \E i \in WithPid(p) :
               Yield([state EXCEPT ![procList[i]] = "WAITING"], s)
    <3>1. PICK i \in WithPid(p) : Yield([state EXCEPT ![procList[i]] = "WAITING"], s)
      BY <2>2
    <3>2. procList[i] \in Task
      BY <1>6 DEF WithPid
    <3> QED BY <1>5, <2>2, <3>1, <3>2, YieldStep
  <2> QED BY <1>9, <2>1, <2>2 DEF WaitPid
<1>10. CASE UserFault
  BY <1>10, StopStep DEF UserFault
<1> QED BY <1>1, <1>2, <1>3, <1>4, <1>7, <1>8, <1>9, <1>10 DEF Next
-----------------------------------------------------------------------------
(* The theorems.                                                           *)

LEMMA Invariance == Spec => []IInv
<1>1. IInv /\ [Next]_vars => IInv'
  BY NextInv
<1> QED BY InitInv, <1>1, PTL DEF Spec

\* The fields of every Task, the stack owners and the id map keep their types.
THEOREM TypeCorrect == Spec => []TypeOK
<1>1. IInv => TypeOK
  BY DEF IInv
<1> QED BY Invariance, <1>1, PTL

\* addProcessToList and moveProcessToEnd never lose or duplicate a task: the
\* list from current reaches every Task made so far exactly once.
THEOREM ListCorrect == Spec => []ListIntact
<1>1. IInv => ListIntact
  BY ListForm DEF IInv, TypeOK
<1> QED BY Invariance, <1>1, PTL

\* getProcessID gives two tasks the same pid only after it has run out of ids.
THEOREM PidsCorrect == Spec => []PidsUnique
<1>1. IInv => PidsUnique
  <2> SUFFICES ASSUME IInv PROVE PidsUnique
    OBVIOUS
  <2>1. Listed = 1..N
    BY ListForm DEF IInv, TypeOK, ListIntact, N
  <2> QED BY <2>1 DEF IInv, PidInv, PidsUnique
<1> QED BY Invariance, <1>1, PTL

\* SYSS_waitpid never writes through the NULL getTaskForPID can return.
THEOREM WaitpidCorrect == Spec => []WaitedParentExists
<1>1. IInv => WaitedParentExists
  <2> SUFFICES ASSUME IInv, NEW p \in Pid, WaitedFor(p) # {}
               PROVE  WithPid(p) # {}
    BY DEF WaitedParentExists
  <2>0. Permuted(procList) /\ N \in Nat /\ N = Len(procList)
    BY DEF IInv, TypeOK, N
  <2>1. PICK i \in 1..N : ppid[procList[i]] = p /\ state[procList[i]] = "RUNNING"
    BY DEF WaitedFor, N
  <2>2. procList[i] \in 2..N
    <3>1. procList[i] \in 1..N
      BY <2>0 DEF Permuted
    <3>2. procList[i] # 1
      BY <2>1 DEF IInv, StateInv, InitTask
    <3> QED BY <2>0, <3>1, <3>2
  <2>3. PICK u \in 1..N : pid[u] = p
    BY <2>1, <2>2 DEF IInv, ParentInv
  <2>4. PICK k \in 1..N : procList[k] = u
    BY <2>0 DEF Permuted
  <2> QED BY <2>0, <2>3, <2>4 DEF WithPid
<1> QED BY Invariance, <1>1, PTL

\* The task that runs is never one that yield could hand the processor to.
THEOREM RunningCorrect == Spec => []RunningNotWaiting
<1>1. IInv => RunningNotWaiting
  BY DEF IInv, StateInv
<1> QED BY Invariance, <1>1, PTL

\* A task blocked in fork keeps its saved kernel context until it is resumed,
\* although tss.rsp0 is not set when tasks are switched.
THEOREM ContextsCorrect == Spec => []SavedContextIntact
<1>1. IInv => SavedContextIntact
  <2> SUFFICES ASSUME IInv PROVE SavedContextIntact
    OBVIOUS
  <2>1. Listed = 1..N /\ N \in Nat /\ rsp0 = N
    BY ListForm DEF IInv, TypeOK, ListIntact, N, NewestStack
  <2>2. Listed \subseteq Task
    BY DEF IInv, TypeOK, Listed
  <2>3. ASSUME NEW t \in Listed, blocked[t] # NoSite
        PROVE  /\ ctx[t] \in Listed \ {rsp0} /\ frame[ctx[t]] = blocked[t]
               /\ \A u \in Listed \ {t} : blocked[u] # NoSite => ctx[u] # ctx[t]
    <3>1. t \in Task
      BY <2>2
    <3>2. ctx[t] \in 1..(N - 1) /\ frame[ctx[t]] = blocked[t]
      BY <2>3, <3>1 DEF IInv, CtxInv
    <3>3. ctx[t] \in Listed \ {rsp0}
      BY <2>1, <3>2
    <3>4. \A u \in Listed \ {t} : blocked[u] # NoSite => ctx[u] # ctx[t]
      BY <2>2, <2>3, <3>1 DEF IInv, CtxInv
    <3> QED BY <3>2, <3>3, <3>4
  <2> QED BY <2>3 DEF SavedContextIntact
<1> QED BY Invariance, <1>1, PTL
-----------------------------------------------------------------------------
(* The order of the list.                                                  *)

\* In a list without repetitions, the tasks ahead of slot k.
LEMMA AheadOf ==
    ASSUME NEW l \in Seq(Task), Permuted(l), NEW k \in 1..Len(l)
    PROVE  Ahead(l, l[k]) = {l[j] : j \in 1..(k - 1)}
<1>0. Len(l) \in Nat
  OBVIOUS
<1>1. ASSUME NEW j \in 1..Len(l)
      PROVE  (\E i \in (j + 1)..Len(l) : l[i] = l[k]) <=> j \in 1..(k - 1)
  <2>1. \A i \in 1..Len(l) : l[i] = l[k] => i = k
    BY DEF Permuted
  <2>2. ASSUME NEW i \in (j + 1)..Len(l), l[i] = l[k] PROVE j \in 1..(k - 1)
    BY <1>0, <2>1, <2>2
  <2>3. ASSUME j \in 1..(k - 1) PROVE \E i \in (j + 1)..Len(l) : l[i] = l[k]
    <3>1. k \in (j + 1)..Len(l)
      BY <1>0, <2>3
    <3> QED BY <3>1
  <2> QED BY <2>2, <2>3
<1>2. {j \in 1..Len(l) : \E i \in (j + 1)..Len(l) : l[i] = l[k]} = 1..(k - 1)
  <2>1. \A j \in 1..(k - 1) : j \in 1..Len(l)
    BY <1>0
  <2> QED BY <1>1, <2>1
<1> QED BY <1>2 DEF Ahead

\* What a switch does to the tasks ahead of one that is not the one resumed.
LEMMA MoveToEndAhead ==
    ASSUME NEW l \in Seq(Task), Permuted(l), NEW i \in 2..Len(l), NEW k \in 1..Len(l), i < k
    PROVE  Ahead(MoveToEnd(l, i), l[k]) = Ahead(l, l[k]) \ {l[i]} /\ l[i] \in Ahead(l, l[k])
<1> DEFINE m == MoveToEnd(l, i)
<1>0. Len(l) \in Nat /\ i \in 1..Len(l) /\ k - 1 \in 1..Len(l)
  OBVIOUS
<1>1. /\ m \in Seq(Task) /\ Len(m) = Len(l) /\ Permuted(m)
      /\ \A j \in 1..Len(l) : m[j] = l[From(l, i, j)]
  BY <1>0, MoveToEndSlots, MoveToEndPermuted
<1>2. From(l, i, k - 1) = k
  BY <1>0 DEF From
<1>3. m[k - 1] = l[k]
  BY <1>0, <1>1, <1>2
<1> HIDE DEF m
<1>4. Ahead(m, l[k]) = {m[j] : j \in 1..((k - 1) - 1)}
  BY <1>0, <1>1, <1>3, AheadOf
<1>5. Ahead(l, l[k]) = {l[j] : j \in 1..(k - 1)}
  BY AheadOf
<1>6. \A j \in 1..((k - 1) - 1) :
         From(l, i, j) \in 1..(k - 1) /\ From(l, i, j) # i /\ m[j] = l[From(l, i, j)]
  BY <1>0, <1>1 DEF From
<1>7. ASSUME NEW h \in 1..(k - 1), h # i
      PROVE  \E j \in 1..((k - 1) - 1) : m[j] = l[h]
  <2>1. CASE h < i
    <3>1. h \in 1..((k - 1) - 1) /\ From(l, i, h) = h
      BY <1>0, <2>1 DEF From
    <3> QED BY <1>6, <3>1
  <2>2. CASE h > i
    <3>1. h - 1 \in 1..((k - 1) - 1) /\ From(l, i, h - 1) = h
      BY <1>0, <2>2 DEF From
    <3> QED BY <1>6, <3>1
  <2> QED BY <1>0, <1>7, <2>1, <2>2
<1>8. \A h \in 1..(k - 1) : h # i => l[h] # l[i]
  BY <1>0 DEF Permuted
<1>9. l[i] \in Ahead(l, l[k])
  <2>1. i \in 1..(k - 1)
    BY <1>0
  <2> QED BY <1>5, <2>1
<1>10. Ahead(m, l[k]) = Ahead(l, l[k]) \ {l[i]}
  <2>1. ASSUME NEW x \in Ahead(m, l[k]) PROVE x \in Ahead(l, l[k]) \ {l[i]}
    BY <1>4, <1>5, <1>6, <1>8, <2>1
  <2>2. ASSUME NEW x \in Ahead(l, l[k]) \ {l[i]} PROVE x \in Ahead(m, l[k])
    <3>1. PICK h \in 1..(k - 1) : x = l[h]
      BY <1>5
    <3>2. PICK j \in 1..((k - 1) - 1) : m[j] = l[h]
      BY <1>7, <3>1
    <3> QED BY <1>4, <3>1, <3>2
  <2> QED BY <2>1, <2>2
<1> QED BY <1>9, <1>10 DEF m

LEMMA AppendAhead ==
    ASSUME NEW l \in Seq(Task), Permuted(l), Len(l) + 1 \in Task, NEW k \in 1..Len(l)
    PROVE  Ahead(Append(l, Len(l) + 1), l[k]) = Ahead(l, l[k])
<1> DEFINE m == Append(l, Len(l) + 1)
<1>0. Len(l) \in Nat
  OBVIOUS
<1>1. m \in Seq(Task) /\ Len(m) = Len(l) + 1 /\ Permuted(m)
  BY AppendPermuted
<1>2. \A j \in 1..Len(l) : m[j] = l[j]
  BY <1>0
<1> HIDE DEF m
<1>3. k \in 1..Len(m) /\ m[k] = l[k] /\ \A j \in 1..(k - 1) : m[j] = l[j]
  BY <1>0, <1>1, <1>2
<1>4. Ahead(m, l[k]) = {m[j] : j \in 1..(k - 1)}
  BY <1>1, <1>3, AheadOf
<1>5. Ahead(l, l[k]) = {l[j] : j \in 1..(k - 1)}
  BY AheadOf
<1> QED BY <1>3, <1>4, <1>5 DEF m

\* The steps that change the list: a Task is added, or yield moves one.
LEMMA ListSteps ==
    ASSUME IInv, [Next]_vars
    PROVE  \/ procList' = procList
           \/ ~NoMemory /\ procList' = Append(procList, NewTask)
           \/ \E st, i : /\ i \in Ready(st) /\ FirstIn(i, Ready(st))
                         /\ procList' = MoveToEnd(procList, i)
                         /\ state' = SwitchStates(st, InitTask, procList[i])
<1> DEFINE Goal ==
      \/ procList' = procList
      \/ ~NoMemory /\ procList' = Append(procList, NewTask)
      \/ \E st, i : /\ i \in Ready(st) /\ FirstIn(i, Ready(st))
                    /\ procList' = MoveToEnd(procList, i)
                    /\ state' = SwitchStates(st, InitTask, procList[i])
<1> SUFFICES Goal
  OBVIOUS
<1>1. ASSUME NEW why, Stop(why) PROVE Goal
  BY <1>1 DEF Stop
<1>2. ASSUME NEW st, NEW s, Yield(st, s) PROVE Goal
  <2>1. CASE YieldReturns(st, s)
    BY <2>1 DEF YieldReturns
  <2>2. CASE ~YieldReturns(st, s)
    <3>1. PICK i \in Ready(st) : /\ FirstIn(i, Ready(st))
                                 /\ YieldSwitches(st, s, i) \/ Stop("hung") \/ Stop("reset")
      BY <1>2, <2>2 DEF Yield
    <3>2. CASE YieldSwitches(st, s, i)
      BY <3>1, <3>2 DEF YieldSwitches
    <3> QED BY <1>1, <3>1, <3>2
  <2> QED BY <2>1, <2>2
<1>3. ASSUME NEW s, Trap(s) PROVE Goal
  BY <1>3 DEF Trap
<1>4. ASSUME NEW s, Fork(s) PROVE Goal
  BY <1>1, <1>4 DEF Fork, ForkSwitches, AddTask
<1>5. ASSUME NEW s, NEW found, Execve(s, found) PROVE Goal
  BY <1>1, <1>5 DEF Execve, AddTask
<1>6. ASSUME NEW s, Exit(s) PROVE Goal
  BY <1>2, <1>6 DEF Exit
<1>7. ASSUME NEW s, NEW p, Kill(s, p) PROVE Goal
  BY <1>2, <1>7 DEF Kill
<1>8. ASSUME NEW s, NEW p, WaitPid(s, p) PROVE Goal
  BY <1>2, <1>3, <1>8 DEF WaitPid
<1>9. CASE UNCHANGED vars
  BY <1>9 DEF vars
<1> HIDE DEF Goal
<1>10. CASE UserFault
  BY <1>1, <1>10 DEF UserFault
<1>11. CASE Next /\ ~UserFault
  <2>1. PICK s \in Site : \/ Trap(s) \/ Fork(s) \/ Exit(s)
                          \/ \E found \in BOOLEAN : Execve(s, found)
                          \/ \E p \in Pid : Kill(s, p)
                          \/ \E p \in Pid : WaitPid(s, p)
    BY <1>11, Zenon DEF Next
  <2> QED BY <1>3, <1>4, <1>5, <1>6, <1>7, <1>8, <2>1, Zenon
<1> QED BY <1>9, <1>10, <1>11

\* getNextWaitingTask is fair: while a task waits no task gets in front of it,
\* and every switch takes one from in front of it.
THEOREM WaitingTasksAdvance == Spec => NoOvertaking
<1> DEFINE Order(t) ==
      /\ Ahead(procList', t) \subseteq Ahead(procList, t)
      /\ (procList' # procList /\ Len(procList') = Len(procList)) =>
           Ahead(procList', t) # Ahead(procList, t)
<1>1. ASSUME IInv, [Next]_vars, NEW t \in Listed \ {InitTask},
             state[t] = "WAITING", state'[t] = "WAITING"
      PROVE  Order(t)
  <2>0. /\ procList \in Seq(Task) /\ Permuted(procList) /\ Len(procList) \in Nat
        /\ state \in [Task -> State]
    BY <1>1 DEF IInv, TypeOK
  <2>1. PICK k \in 1..Len(procList) : procList[k] = t
    BY DEF Listed
  <2>2. k # 1 /\ t \in Task
    <3>1. procList[1] = InitTask /\ t # InitTask
      BY <2>0 DEF Permuted
    <3>2. procList[k] \in Task
      BY <2>0
    <3> QED BY <2>1, <3>1, <3>2, Zenon
  <2>3. CASE procList' = procList
    BY <2>3
  <2>4. CASE ~NoMemory /\ procList' = Append(procList, NewTask)
    <3>1. NewTask \in Task /\ NewTask = Len(procList) + 1
      <4>1. Len(procList) >= 1
        BY <2>0 DEF Permuted
      <4>2. Len(procList) \in Task
        BY <2>0, <4>1, LastTask
      <4> QED BY <2>0, <2>4, <4>2, ConstantsAssumption DEF NewTask, NoMemory, Task
    <3>2. Len(procList') = Len(procList) + 1
      BY <2>0, <2>4, <3>1
    <3>3. Ahead(procList', t) = Ahead(procList, t)
      BY <2>0, <2>1, <2>4, <3>1, AppendAhead
    <3> QED BY <2>0, <3>2, <3>3
  <2>5. CASE \E st, i : /\ i \in Ready(st) /\ FirstIn(i, Ready(st))
                        /\ procList' = MoveToEnd(procList, i)
                        /\ state' = SwitchStates(st, InitTask, procList[i])
    <3>1. PICK st, i : /\ i \in Ready(st) /\ FirstIn(i, Ready(st))
                       /\ procList' = MoveToEnd(procList, i)
                       /\ state' = SwitchStates(st, InitTask, procList[i])
      BY <2>5
    <3>2. t # procList[i] /\ st[t] = "WAITING"
      BY <1>1, <2>2, <3>1 DEF SwitchStates
    <3>3. k \in Ready(st) /\ i # k
      BY <2>0, <2>1, <2>2, <3>2 DEF Ready
    <3>4. i \in 2..Len(procList) /\ i < k
      BY <2>0, <3>1, <3>3 DEF FirstIn, Ready
    <3>5. /\ Ahead(procList', t) = Ahead(procList, t) \ {procList[i]}
          /\ procList[i] \in Ahead(procList, t)
      BY <2>0, <2>1, <3>1, <3>4, MoveToEndAhead
    <3> QED BY <3>5
  <2> QED BY <1>1, <2>3, <2>4, <2>5, ListSteps
<1>2. IInv /\ [Next]_vars =>
        [\A t \in Listed \ {InitTask} :
            state[t] = "WAITING" /\ state'[t] = "WAITING" => Order(t)]_vars
  BY <1>1
<1>3. Spec => [][Next]_vars
  BY PTL DEF Spec
<1> QED BY <1>2, <1>3, Invariance, PTL DEF NoOvertaking
=============================================================================
