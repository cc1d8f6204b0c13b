------------------------------- MODULE Tasks -------------------------------
(***************************************************************************)
(* The process layer of the kernel, sys/task.c: the task list, process     *)
(* ids, fork, execve, exit, kill, waitpid and the context switch.          *)
(*                                                                         *)
(* System calls enter through an interrupt gate (sys/isr.c:125) and none   *)
(* of the handlers below enables interrupts, so each handler, up to the    *)
(* context switch that leaves it, is one atomic step.  What is left open   *)
(* is the user code: any program may issue any call with any pid.          *)
(*                                                                         *)
(* Task structures come from kmalloc, which never reuses a page; they are  *)
(* numbered in the order of allocation, so the next one is always          *)
(* Len(procList) + 1.  Task 1 is the head of the list, the variable        *)
(* `current' of the code (the init task); `currentRunningTask' is running. *)
(*                                                                         *)
(* Kernel stacks are modelled by their owner.  A trap from user mode       *)
(* pushes its frame on the stack tss.rsp0 points to; rsp0 names its owner. *)
(* frame[t] is the user location held in the trap frame at the top of t's  *)
(* stack, ctx[t] the owner of the stack t's saved kernel_rsp points into   *)
(* (0 until the first switch away from t).                                 *)
(***************************************************************************)
EXTENDS Naturals, Sequences

CONSTANTS MaxTasks,     \* Task structures kmalloc can provide
          MaxPid,       \* highest index of processID[] in use (99 in the code)
          Site,         \* user locations a system call can be made from
          NoSite        \* no location: a stack nothing has trapped on yet

ASSUME ConstantsAssumption ==
    /\ MaxTasks \in Nat /\ MaxTasks >= 2
    /\ MaxPid \in Nat /\ 2 <= MaxPid /\ MaxPid < 65535
    /\ NoSite \notin Site

VARIABLES procList,     \* the list from current through ->next
          pid, ppid,    \* fields of the Task structures
          state,
          forked,       \* tasks made by copyParentToChild: task_name never set
          clobbered,    \* tasks whose task_cr3 was overwritten by a trap frame
          ctx, frame,
          processID,    \* ids marked used
          running, rsp0,
          at,           \* user location the running task was last resumed at
          blocked,      \* ghost: where t called fork, until that fork returns
          cpu           \* "user", "hung" (fault loop) or "reset" (bad CR3/RSP)

vars == <<procList, pid, ppid, state, forked, clobbered, ctx, frame, processID,
          running, rsp0, at, blocked, cpu>>

Task == 1..MaxTasks
InitTask == 1
BadPid == 65535                     \* getProcessID's -1 stored in a uint16_t
Pid == 0..MaxPid \cup {BadPid}
State == {"WAITING", "RUNNING", "ENDED", "ZOMBIE"}
Location == Site \cup {NoSite}
-----------------------------------------------------------------------------
(* The task list.                                                          *)

\* moveProcessToEnd when the element is linked at the end but not unlinked
MoveToEndKeepsLink(l, i) == [j \in 1..Len(l) |-> IF j < Len(l) THEN l[j] ELSE l[i]]

\* moveProcessToEnd for the element at index i < Len(l)
MoveToEnd(l, i) ==
    [j \in 1..Len(l) |-> IF j < i THEN l[j]
                         ELSE IF j < Len(l) THEN l[j + 1] ELSE l[i]]

\* a walk that goes on to the last match
LastIn(i, S) == i \in S /\ \A j \in S : j <= i

\* i is the index at which a walk of the list first meets the set S
FirstIn(i, S) == i \in S /\ \A j \in S : i <= j

\* where the walks of getNextWaitingTask and of killprocess/getTaskForPID stop
Ready(st) == {i \in 2..Len(procList) : st[procList[i]] = "WAITING"}
WithPid(p) == {i \in 1..Len(procList) : pid[procList[i]] = p}

NewTask == Len(procList) + 1

\* kmalloc has no page left: page_alloc returns NULL and is dereferenced
NoMemory == Len(procList) = MaxTasks

\* getProcessID when the ids of ended tasks are given out again
GetProcessIDReuses(p) ==
    LET held == {pid[procList[i]] : i \in {j \in 1..Len(procList) :
                                            state[procList[j]] # "ENDED"}}
        free == 1..MaxPid \ held
    IN  \/ p \in free /\ \A q \in free : p <= q
        \/ free = {} /\ p = BadPid

\* getProcessID() returns p
GetProcessID(p) ==
    LET free == 1..MaxPid \ processID
    IN  \/ p \in free /\ \A q \in free : p <= q
        \/ free = {} /\ p = BadPid
-----------------------------------------------------------------------------
(* Traps and stops.                                                        *)

\* The trap frame lands on the stack rsp0 names.
TrapFrame(s) == [frame EXCEPT ![rsp0] = s]

\* For a forked task tss.rsp0 is the address of its kernel_rsp field, so the
\* frame also covers the fields below it, and RFLAGS lands in task_cr3.
TrapClobbers == clobbered \cup (forked \cap {rsp0})

\* The machine makes no further progress; its memory is not read again.
Stop(why) ==
    /\ cpu' = why
    /\ UNCHANGED <<procList, pid, ppid, state, forked, clobbered, ctx, frame,
                   processID, running, rsp0, at, blocked>>

\* getProcessID marks the id it returns, unless it is -1
MarkIdUntested(p) == processID' = processID \cup {p}       \* -1 marked as well
MarkId(p) == processID' = IF p = BadPid THEN processID ELSE processID \cup {p}

SetParentEarly(pp) ==       \* read from the new Task before it is filled in
    ppid' = [ppid EXCEPT ![NewTask] = IF pp = 0 THEN pp ELSE pid[NewTask]]
SetParent(pp) == ppid' = [ppid EXCEPT ![NewTask] = pp]

\* A new Task is filled in, appended to the list (addProcessToList) and its
\* kernel stack made the one traps use (set_tss_rsp).
AddTask(p, pp) ==
    /\ GetProcessID(p)
    /\ MarkId(p)
    /\ procList' = Append(procList, NewTask)
    /\ pid' = [pid EXCEPT ![NewTask] = p]
    /\ SetParent(pp)
    /\ running' = NewTask
    /\ rsp0' = NewTask

\* switchTask when it sets only the state of the task it leaves
SwitchStatesFromOnly(st, from, to) ==
    [t \in Task |-> IF t = from /\ t # to /\ st[t] # "ENDED" THEN "WAITING" ELSE st[t]]

\* switchTask's effect on the task states
SwitchStates(st, from, to) ==
    [t \in Task |-> CASE t = to -> "RUNNING"
                      [] t = from /\ t # to /\ st[t] # "ENDED" -> "WAITING"
                      [] OTHER -> st[t]]
-----------------------------------------------------------------------------
(* yield, entered with the states st after a trap from location s.         *)

\* no WAITING task behind the head: yield returns to its caller
YieldReturns(st, s) ==
    /\ Ready(st) = {}
    /\ state' = st
    /\ at' = s
    /\ frame' = TrapFrame(s)
    /\ clobbered' = TrapClobbers
    /\ UNCHANGED <<procList, pid, ppid, forked, ctx, processID, running, rsp0,
                   blocked, cpu>>

\* switchTask to the task at index i.  yield saves the caller's stack pointer
\* in the init task (from = current) and leaves tss.rsp0 alone.
YieldSwitches(st, s, i) ==
    LET to == procList[i]
    IN  /\ to \notin TrapClobbers
        /\ ctx[to] # 0
        /\ procList' = MoveToEnd(procList, i)
        /\ state' = SwitchStates(st, InitTask, to)
        /\ running' = to
        /\ frame' = TrapFrame(s)
        /\ clobbered' = TrapClobbers
        /\ at' = TrapFrame(s)[ctx[to]]
        /\ ctx' = [ctx EXCEPT ![InitTask] = rsp0]
        /\ blocked' = [blocked EXCEPT ![to] = NoSite]
        /\ UNCHANGED <<pid, ppid, forked, processID, rsp0, cpu>>

Yield(st, s) ==
    \/ YieldReturns(st, s)
    \/ \E i \in Ready(st) :
        /\ FirstIn(i, Ready(st))
        /\ IF i = Len(procList)
           THEN Stop("hung")            \* moveProcessToEnd walks off the list
           ELSE \/ YieldSwitches(st, s, i)
                \/ procList[i] \in TrapClobbers /\ Stop("reset")
                \* kernel_rsp is still elf_load's: the code at kstack[511] faults
                \/ procList[i] \notin TrapClobbers /\ ctx[procList[i]] = 0 /\ Stop("hung")
-----------------------------------------------------------------------------
(* The system calls, issued by the running task from location s.           *)

\* Any other trap from user mode: the remaining system calls, page faults
\* and device interrupts.  Only the trap frame matters here.
Trap(s) ==
    /\ cpu = "user"
    /\ frame' = TrapFrame(s)
    /\ clobbered' = TrapClobbers
    /\ at' = s
    /\ UNCHANGED <<procList, pid, ppid, state, forked, ctx, processID, running,
                   rsp0, blocked, cpu>>

\* Code in user mode touches an address that is not mapped: the page fault
\* handler, which only serves copy on write, returns to the same access for ever.
UserFault == cpu = "user" /\ Stop("hung")

\* copyParentToChild's part of the stacks: the child's frame is copied from the
\* parent's own stack, wherever the trap frame really is
ChildFrame(s) == [TrapFrame(s) EXCEPT ![NewTask] = TrapFrame(s)[running]]

\* fork's contexts when the parent is taken to be on its own stack
ForkContextsOwn == [t \in Task |-> IF t \in {NewTask, running} THEN t ELSE ctx[t]]

\* the parent's kernel_rsp points into the stack it trapped on
ForkContexts == [t \in Task |-> CASE t = NewTask -> NewTask
                                  [] t = running -> rsp0
                                  [] OTHER -> ctx[t]]

\* proc_fork when the child returns through its stack before it is copied
ForkSwitchesEarly(s) ==
    /\ running \notin TrapClobbers
    /\ \E p \in Pid : AddTask(p, pid[running])
    /\ forked' = forked \cup {NewTask}
    /\ state' = SwitchStates(state, running, NewTask)
    /\ frame' = ChildFrame(s)
    /\ clobbered' = TrapClobbers
    /\ ctx' = ForkContexts
    /\ at' = TrapFrame(s)[NewTask]
    /\ blocked' = [blocked EXCEPT ![running] = s]
    /\ UNCHANGED cpu

\* proc_fork
ForkSwitches(s) ==
    /\ running \notin TrapClobbers
    /\ \E p \in Pid : AddTask(p, pid[running])
    /\ forked' = forked \cup {NewTask}
    /\ state' = SwitchStates(state, running, NewTask)
    /\ frame' = ChildFrame(s)
    /\ clobbered' = TrapClobbers
    /\ ctx' = ForkContexts
    /\ at' = TrapFrame(s)[running]
    /\ blocked' = [blocked EXCEPT ![running] = s]
    /\ UNCHANGED cpu

Fork(s) ==
    /\ cpu = "user"
    /\ \/ NoMemory /\ Stop("hung")
       \/ ~NoMemory /\ ForkSwitches(s)
       \/ ~NoMemory /\ running \in TrapClobbers /\ Stop("reset")

\* sanexecve when the caller is not set to ENDED
ExecveKeepsCaller(s, found) ==
    /\ cpu = "user"
    /\ \/ (NoMemory \/ ~found) /\ Stop("hung")
       \/ /\ ~NoMemory /\ found
          /\ \E p \in Pid : AddTask(p, ppid[running])
          /\ state' = [state EXCEPT ![NewTask] = "RUNNING"]
          /\ frame' = TrapFrame(s)
          /\ clobbered' = TrapClobbers
          /\ at' = NoSite
          /\ UNCHANGED <<forked, ctx, blocked, cpu>>

\* sanexecve: a new Task replaces the caller, which stays in the list.  When
\* the file is missing elf_load sets no entry point and user mode faults at 0.
Execve(s, found) ==
    /\ cpu = "user"
    /\ \/ (NoMemory \/ ~found) /\ Stop("hung")
       \/ /\ ~NoMemory /\ found
          /\ \E p \in Pid : AddTask(p, ppid[running])
          /\ state' = [state EXCEPT ![running] = "ENDED", ![NewTask] = "RUNNING"]
          /\ frame' = TrapFrame(s)
          /\ clobbered' = TrapClobbers
          /\ at' = NoSite
          /\ UNCHANGED <<forked, ctx, blocked, cpu>>

\* syss_exit when it leaves the caller ready to run, and when it does not yield
ExitWaits(s) == cpu = "user" /\ Yield([state EXCEPT ![running] = "WAITING"], s)
ExitStays(s) == Trap(s)

\* syss_exit
Exit(s) ==
    /\ cpu = "user"
    /\ Yield([state EXCEPT ![running] = "ZOMBIE"], s)

\* killprocess: the first task with pid p is ended, then the caller yields
Kill(s, p) ==
    /\ cpu = "user"
    /\ \/ WithPid(p) = {} /\ Yield(state, s)
       \/ \E i \in WithPid(p) :
            /\ FirstIn(i, WithPid(p))
            /\ Yield([state EXCEPT ![procList[i]] = "ENDED"], s)

\* the tasks that make SYSS_waitpid(p) block: named, running, child of p
WaitedFor(p) ==
    {i \in 1..Len(procList) : LET t == procList[i]
                             IN  t \notin forked /\ ppid[t] = p /\ state[t] = "RUNNING"}

\* SYSS_waitpid: it is the task with pid p, not the caller, that is set to
\* WAITING before the yield.  The walk goes on only if yield returned, and then
\* repeats the same assignment.  WaitedParentExists says the task is found.
WaitPid(s, p) ==
    \/ WaitedFor(p) = {} /\ Trap(s)
    \/ /\ cpu = "user"
       /\ WaitedFor(p) # {}
       /\ \E i \in WithPid(p) :
            /\ FirstIn(i, WithPid(p))
            /\ Yield([state EXCEPT ![procList[i]] = "WAITING"], s)
-----------------------------------------------------------------------------
\* After start(): the init task and bin/sbush, which runs on its own stack.
Init ==
    /\ procList = <<1, 2>>
    /\ pid = [t \in Task |-> IF t <= 2 THEN t ELSE 0]
    /\ ppid = [t \in Task |-> IF t = 2 THEN 1 ELSE 0]
    /\ state = [t \in Task |-> IF t = 2 THEN "RUNNING" ELSE "WAITING"]
    /\ forked = {}
    /\ clobbered = {}
    /\ ctx = [t \in Task |-> 0]
    /\ frame = [t \in Task |-> NoSite]
    /\ processID = {1, 2}
    /\ running = 2
    /\ rsp0 = 2
    /\ at = NoSite
    /\ blocked = [t \in Task |-> NoSite]
    /\ cpu = "user"

Next ==
    \/ UserFault
    \/ \E s \in Site :
        \/ Trap(s)
        \/ Fork(s)
        \/ \E found \in BOOLEAN : Execve(s, found)
        \/ Exit(s)
        \/ \E p \in Pid : Kill(s, p)
        \/ \E p \in Pid : WaitPid(s, p)

Spec == Init /\ [][Next]_vars
-----------------------------------------------------------------------------
TypeOK ==
    /\ procList \in Seq(Task)
    /\ pid \in [Task -> Pid]
    /\ ppid \in [Task -> Pid]
    /\ state \in [Task -> State]
    /\ forked \subseteq Task
    /\ clobbered \subseteq Task
    /\ ctx \in [Task -> Task \cup {0}]
    /\ frame \in [Task -> Location]
    /\ processID \subseteq 1..MaxPid
    /\ running \in Task
    /\ rsp0 \in Task
    /\ at \in Location
    /\ blocked \in [Task -> Location]
    /\ cpu \in {"user", "hung", "reset"}

Listed == {procList[i] : i \in 1..Len(procList)}

\* The list reaches every Task ever made exactly once, behind the init task,
\* whatever addProcessToList and moveProcessToEnd have done to the links.
ListIntact ==
    /\ Len(procList) >= 2
    /\ procList[1] = InitTask
    /\ \A i, j \in 1..Len(procList) : procList[i] = procList[j] => i = j
    /\ Listed = 1..Len(procList)

\* Two tasks share a pid only when getProcessID had run out of ids for both.
PidsUnique ==
    \A t, u \in Listed : t # u /\ pid[t] = pid[u] => pid[t] = BadPid

\* SYSS_waitpid finds a task for the pid it is about to set to WAITING, so
\* parent->state is never written through NULL.
WaitedParentExists ==
    \A p \in Pid : WaitedFor(p) # {} => WithPid(p) # {}

\* The running task is not among those getNextWaitingTask can hand out.
RunningNotWaiting == cpu = "user" => state[running] # "WAITING"

\* A task blocked in fork finds, on the stack its kernel_rsp points into, the
\* frame of that very fork: no later trap of any task lands on that stack and
\* no other blocked task shares it, although switchTask never sets tss.rsp0.
SavedContextIntact ==
    \A t \in Listed : blocked[t] # NoSite =>
        /\ ctx[t] \in Listed \ {rsp0}
        /\ frame[ctx[t]] = blocked[t]
        /\ \A u \in Listed \ {t} : blocked[u] # NoSite => ctx[u] # ctx[t]

Ahead(l, t) == {l[j] : j \in {k \in 1..Len(l) :
                                \E i \in (k + 1)..Len(l) : l[i] = t}}

\* getNextWaitingTask is fair: while a task stays WAITING no task ever gets in
\* front of it, and every switch by yield takes one from in front of it.
NoOvertaking ==
    [][\A t \in Listed \ {InitTask} :
          state[t] = "WAITING" /\ state'[t] = "WAITING" =>
            /\ Ahead(procList', t) \subseteq Ahead(procList, t)
            /\ (procList' # procList /\ Len(procList') = Len(procList)) =>
                 Ahead(procList', t) # Ahead(procList, t)]_vars
=============================================================================
