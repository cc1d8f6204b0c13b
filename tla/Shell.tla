------------------------------- MODULE Shell -------------------------------
(***************************************************************************)
(* The shell and the programs it starts, running on the process layer of   *)
(* Tasks: bin/sbush/sbush.c, bin/{ls,cat,echo,ps,kill}, crt/crt1.c and the *)
(* system call wrappers of libc/files.c.                                   *)
(*                                                                         *)
(* Tasks lets a program issue any call; here the running task does what    *)
(* its program does next, which depends only on the program in its address *)
(* space (role) and on the user location it was last resumed at (at).  The *)
(* locations are the call sites of sbush and of the utilities.             *)
(***************************************************************************)
EXTENDS Tasks

CONSTANT Command        \* the kinds of command line a user may type

ASSUME ShellAssumption ==
    /\ {"prompt", "fork", "wait", "exec", "work", "read", "kill", "exit", "left"} \subseteq Site
    /\ Command \subseteq {"util", "kill", "sh", "bare"}

VARIABLES role,         \* the program in each task's address space
          cmd,          \* arglist: the command line being executed
          victim,       \* its process id argument
          child         \* what fork returned to the shell

shellVars == <<vars, role, cmd, victim, child>>
ownVars == <<role, cmd, victim, child>>

Sbush == 2              \* the task start() made for bin/sbush

In(program, sites) == cpu = "user" /\ role[running] = program /\ at \in sites
-----------------------------------------------------------------------------
(* bin/sbush                                                               *)

\* Print the prompt and read a line; blank and unknown commands, help and cd
\* make no other kind of call and come back here.
Prompt ==
    /\ In("sbush", {NoSite, "wait", "prompt"})
    /\ Trap("prompt")
    /\ UNCHANGED ownVars

\* exit: main prints a last line and loops for ever
LeaveShell ==
    /\ In("sbush", {"prompt"})
    /\ Trap("left")
    /\ UNCHANGED ownVars

\* A command with a program of its own: ls, cat, echo, ps and kill -9 without a
\* usable pid ("util"), kill -9 p ("kill"), sh, and echo or kill without their
\* arguments or sh with one ("bare").
StartCommand(c, p) ==
    /\ In("sbush", {"prompt"})
    /\ Fork("fork")
    /\ cmd' = c
    /\ victim' = p
    /\ role' = IF NoMemory THEN role ELSE [role EXCEPT ![NewTask] = "sbush"]
    /\ child' = IF NoMemory THEN child ELSE pid'[NewTask]

\* fork returned 0: the copy of the shell becomes the program
RunCommand ==
    /\ In("sbush", {"fork"})
    /\ running \in forked
    /\ cmd \in {"util", "kill"}
    /\ Execve("exec", TRUE)
    /\ role' = IF NoMemory THEN role ELSE [role EXCEPT ![NewTask] = cmd]
    /\ UNCHANGED <<cmd, victim, child>>

\* sh without a file returns to main's loop: the copy prompts as well
NestedShell ==
    /\ In("sbush", {"fork"})
    /\ running \in forked
    /\ cmd = "sh"
    /\ Trap("prompt")
    /\ UNCHANGED ownVars

\* execve(arglist[0]) looks for "bin" beyond the end of the string, shellparser
\* for a newline: both run into unmapped memory
BareCommand ==
    /\ In("sbush", {"fork"})
    /\ running \in forked
    /\ cmd = "bare"
    /\ UserFault
    /\ UNCHANGED ownVars

\* fork returned the child's pid
AwaitCommand ==
    /\ In("sbush", {"fork"})
    /\ running \notin forked
    /\ WaitPid("wait", child)
    /\ UNCHANGED ownVars
-----------------------------------------------------------------------------
(* The utilities: main, then exit from _start.  What ls, cat and echo do   *)
(* depends on their arguments and on the files; Files says which it is.    *)

\* the program prints what it was asked for
UtilWork ==
    /\ In("util", {NoSite})
    /\ Trap("work")
    /\ UNCHANGED ownVars

\* cat of a file that is not there reads from the keyboard
UtilRead ==
    /\ In("util", {NoSite})
    /\ Trap("read")
    /\ UNCHANGED ownVars

\* main reads through argv = NULL, with too many arguments, or argv[1] = NULL
UtilFault ==
    /\ In("util", {NoSite})
    /\ UserFault
    /\ UNCHANGED ownVars

KillWork ==
    /\ In("kill", {NoSite})
    /\ Kill("kill", victim)
    /\ UNCHANGED ownVars

ProgramExit ==
    /\ In("util", {"work"}) \/ In("kill", {"kill"})
    /\ Exit("exit")
    /\ UNCHANGED ownVars

\* exit came back: _start returns to an address that is not mapped
PastExit ==
    /\ In("util", {"exit"}) \/ In("kill", {"exit"})
    /\ UserFault
    /\ UNCHANGED ownVars
-----------------------------------------------------------------------------
ShellInit ==
    /\ Init
    /\ role = [t \in Task |-> IF t = Sbush THEN "sbush" ELSE "none"]
    /\ cmd = "none"
    /\ victim = 0
    /\ child = 0

\* what the processor does by itself
ProgramStep ==
    \/ Prompt
    \/ RunCommand
    \/ NestedShell
    \/ BareCommand
    \/ AwaitCommand
    \/ UtilWork
    \/ UtilRead
    \/ UtilFault
    \/ KillWork
    \/ ProgramExit
    \/ PastExit

\* the line cat waits for, which it prints
ReadLine ==
    /\ In("util", {"read"})
    /\ Trap("work")
    /\ UNCHANGED ownVars

\* what the user at the keyboard does
UserStep ==
    \/ LeaveShell
    \/ ReadLine
    \/ \E c \in Command, p \in Pid \ {0} : StartCommand(c, p)

ShellNext == ProgramStep \/ UserStep

\* The processor goes on executing; nothing makes the user type.
ShellSpec == ShellInit /\ [][ShellNext]_shellVars /\ WF_shellVars(ProgramStep)
-----------------------------------------------------------------------------
ShellTypeOK ==
    /\ TypeOK
    /\ role \in [Task -> {"none", "sbush", "util", "kill"}]
    /\ cmd \in Command \cup {"none"}
    /\ victim \in Pid
    /\ child \in Pid

Nested == running \in forked /\ at = "prompt"
ShellKilled == state[Sbush] = "ENDED"

\* a program, or the copy of the shell that was to become one, has run into
\* unmapped memory for want of its arguments
ArgumentFault ==
    /\ cpu = "hung"
    /\ \/ role[running] = "util" /\ at = NoSite
       \/ running \in forked /\ at = "fork" /\ cmd = "bare"

\* However many commands are typed and whatever pids are killed, the processor
\* goes on: it takes a killed shell, an exhausted kmalloc, the prompt of a nested
\* shell or a program without its arguments to stop it.  In particular yield
\* never picks the last element of the list or a task without a saved context,
\* and no program runs past its exit.
NeverStuck ==
    cpu # "user" => ShellKilled \/ NoMemory \/ Nested \/ ArgumentFault

\* When the shell has the processor every program it started is over; kill is
\* the exception, it is left RUNNING when its own yield resumes the shell.
Foreground ==
    cpu = "user" /\ running = Sbush =>
        \A t \in Listed \ {Sbush} :
            /\ state[t] = "RUNNING" => role[t] = "kill"
            /\ state[t] = "WAITING" => t = InitTask

\* A program started from the prompt, or one that has done its work, gives the
\* prompt back, unless it lacks its arguments or waits at the keyboard.
PromptReturns ==
    (running \in forked /\ at = "fork" /\ cmd \in {"util", "kill"}) \/ In("util", {"work"})
        ~> \/ running = Sbush /\ at = "prompt"
           \/ ShellKilled
           \/ cpu = "hung" /\ (NoMemory \/ ArgumentFault)
           \/ In("util", {"read"})

\* fork returns in the child where the shell called it although the child's
\* frame is copied from a stack the shell stopped trapping on long ago.
ShellForkReturns ==
    [][\A s \in Site : ForkSwitches(s) => at' = s]_shellVars
=============================================================================
