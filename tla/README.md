# A TLA+ verification project for the FERDOS / SBUnix kernel

The repository is a small 64-bit teaching kernel with one shell. This directory
holds TLA+ models of its core, the TLC configurations that check them on small
instances and TLAPS proofs for every size of the instance. `PROJECT.json` lists
components, runs, mutants, the map from definitions to source lines, findings,
hazards and theorems.

## 1. The system

`boot()` and `start()` (`sys/main.c`) set up descriptor tables, the tar file
system and memory, make the init task and a task for `bin/sbush`, and jump to
user mode. From then on everything is driven by traps: system calls through
`int 0x80`, page faults, keyboard and timer interrupts.

| Component | State | Operations | Meets the others through |
|---|---|---|---|
| Process layer (`sys/task.c`, `sys/syscall.c`, `sys/isr.s`, `sys/gdt.c`) | the `Task` list from `current`, `currentRunningTask`, `processID[]`, `tss.rsp0`, a kernel stack per task | fork, execve, exit, kill, waitpid, yield, `switchTask` | CR3 of the task switched to; `kmalloc` for `Task` |
| Shell and utilities (`bin/*`, `crt/`, `libc/files.c`) | `arglist`, cd's path buffer, the pid returned by fork | parsing a line, cd, help, fork, execve, waitpid, kill, exit; ls, cat, echo | system calls; the working directory of its task |
| Memory (`sys/phymap.c`, `sys/elf.c`, fault handler in `sys/isr.c`) | `free_list`, page tables, contents of pages | `page_alloc`, `map_process`, `elf_load`, copy of the tables at fork, copy-on-write fault | fork and execve of the process layer |
| Keyboard (`sys/keyboard.c`, `libc/gets.c`, `sys/timer.c`) | `flag`, `scanlen`, `tempbuff`, `shift_key` | `scanf`, interrupt handler | read system call; echo on the console |
| Console (`sys/kprintf.c`) | `video`, `line_count`, `line_width` | the cases of `kprintf`, `screenclear` | write, and every message of the kernel |
| File system (`sys/tarfs.c`) | `tarfs_fs[]`, built once | `openfile`, `opendirect`, `readfile`, `readdirect`, `getElfHeader` | execve, open, read, ls, cat, cd |
| AHCI/PCI (`sys/ahci.c`) | command list and tables in memory, registers of the controller | `probe_port`, `port_rebase`, `ahciwrite`, `read` | the controller; the calls in `boot()` are commented out |
| Library (`libc/printf.c`, `string.c`, `malloc.c`) | - | string code | - |

What is hard here:

* **The switch.** `yield` saves the caller in the init task, `switchTask` never
  sets `tss.rsp0`, so after the first fork all traps of all tasks go to the
  kernel stack of the newest task. Whether a task blocked in fork is resumed
  correctly depends on the whole history of forks, execs and kills.
* **States of tasks** are written by fork, exit, kill, waitpid and the switch,
  without one place that keeps them consistent.
* **Nothing is released.** Task structures, process ids and pages only run out.
* **Copy on write** across generations of processes that share page tables after
  execve, with user addresses inside the identity map of the kernel.
* **The one real interleaving**: `scanf` runs with interrupts enabled against
  handlers that write its variables and save no registers.
* **Faults in user mode**: the page fault handler serves copy on write only, so a
  program that reads through a NULL argument faults for ever, and nothing preempts it.
* **Three cursors** of the console that drift apart on long lines.
* **Buffers that are not cleared**: cd's path, the rows of `arglist`, what `strcat`
  leaves without a NUL; a command depends on the commands before it.
* **Two walks** over the archive, by different arithmetic, that must agree.
* **A controller** that clears and sets registers while the driver is between
  two reads of them, fails commands and is then halted.

## 2. Modules

| Module | Models | Checked by |
|---|---|---|
| `Tasks` | the process layer under arbitrary user code | `MCTasks`, proofs in `TasksProofs` |
| `Shell` | `sbush`, the utilities and `_start` on top of `Tasks` (extends it; every program step is a system call action of `Tasks`) | `MCShell`, proofs in `ShellProofs` |
| `Memory` | pages, page tables, loading, faults | `MCMemory`, proofs in `MemoryProofs` |
| `PrivateMemory` | what `Memory` promises: one private memory per process | `IsPrivate` in `Memory` (refinement; model-checked and proved) |
| `Keyboard` | `scanf` against its interrupt handler | `MCKeyboard`, proofs in `KeyboardProofs` |
| `Console` | the cursor of `kprintf` | `MCConsole`, proofs in `ConsoleProofs` |
| `Tarfs` | `sys/tarfs.c` as operators on an archive and its image | through `Files`, proofs in `TarfsProofs` |
| `Files` | command lines, cd, help, ls, cat, echo on top of `Shell` and `Tarfs` | `MCFiles`, proofs in `FilesProofs` |
| `Disk` | the AHCI driver against a controller | `MCDisk`, proofs in `DiskProofs` |

Definitions named as a faulty variant (`LastIn`, `ExitStays`, `CopyWritable`,
...) stand in front of the definition they vary. No specification uses them;
they are the mutants of `PROJECT.json`, each of which breaks one property.

**Tasks.** System calls enter through an interrupt gate and no handler of this
layer enables interrupts, so a handler up to its context switch is one action.
`Trap` stands for every trap that leaves the task layer alone; it still writes a
trap frame. Kernel stacks are known by their owner: `rsp0` is the owner of the
stack traps use, `frame[t]` the user location in the frame at the top of t's
stack, `ctx[t]` the stack t's saved `kernel_rsp` points into. `clobbered` holds
the tasks whose `task_cr3` has been overwritten: `proc_fork` sets `tss.rsp0` to
the address of the child's `kernel_rsp` field, so the first trap of a forked
child writes RFLAGS over `task_cr3`. `cpu` is "hung" when the kernel dereferences
NULL or user code faults without end (`UserFault`: the handler returns to the same
instruction, and there is no preemption) and "reset" when a garbage CR3 is loaded.
The working directory is in `Files`.

**Shell.** The running task does what its program does at the location it was
resumed at. A command line is abstracted to its kind: `util` (ls, cat, echo, ps),
`kill` with a pid, `sh`, and `bare` (echo or kill without arguments, sh with one),
which ends in a scan through unmapped memory, a `UserFault`. A utility prints and
goes on to exit (`UtilWork`), waits at the keyboard (`UtilRead`, then `ReadLine` when the
user types: cat of a file that is not there), or faults at a NULL argument
(`UtilFault`); which of them it is depends on the line, and `Files` says which.

**Memory.** A page table is a map from pages to entries with a writable and a
copy-on-write bit, one per owner of tables: execve keeps the tables of its caller
because `set_user_AddrSpace` copies top-level entries and all user pages share
the slot of the identity map. Contents of pages are sets of marks: those of programs, "kernel" and "image". `KernelWrite`
is a system call storing into a user buffer, which does not fault (CR0.WP is
never set). That `page_init` reserves 8 instead of 24 bytes for an element of
`pages[]` is left out: the elements overwritten belong to frames beyond the
identity map on machines with 16 MB or more.

`PrivateMemory` has no frames and no faults. The refinement mapping of `IsPrivate`
reads each live process's pages through its tables. A system call's store is the
one concession of the abstract specification: it may appear in other processes
too, but only in those that read the same as the caller in that page, which is
what a page still shared means.

**Keyboard.** Every statement of `scanf` after the loop is an action of its own, the
two of the clearing loop included, and every kind of key and the timer may come
between any two of them, while `scanf` spins and, since user mode runs with
interrupts enabled (`sti` in `boot`, and `jump_to_user_mode` keeps the flag), while
nobody reads. Neither `scanlen` nor, for a backspace, `flag` is tested by the handler,
and the model does not test them either: `scanlen` goes below 0, and the length that
`memcpy` then gets, 2^64 - 1 or so, is the end ("hung"). `Interrupted` is the effect of
entries that save no registers: in the kernel built from these sources `scanf` keeps
`len` in esi, where Enter leaves its character (10), another key its own character,
a key without one 0, a shift, a backspace and a release 32, and the timer the lower
half of a kernel address, which as an int is negative. The constants name these.
Keys without a character (Control, F1) store a NUL and advance `scanlen` (`NulKey`).
The linker leaves 24 unused bytes in front of `tempbuff` (`MaxErase`), and puts `flag`
right behind it (`MaxLine < Size`). The ghosts `line`, `spoiled`, `ahead`, `erased` and `residue`
record what the screen shows and what was done to the line; nothing reads them.

**Console.** One turn of the loop in `kprintf` is an action; formats are
arbitrary sequences of turns. `col` is a ghost: what the line has printed less what
was erased. A backspace is not tested, as in `printbackspace`, so `col` and `video` go
in front of the line and of the page; `MaxErase` and `MaxLine` only bound the run.

**Tarfs.** An archive is a sequence of entries (name, type, size); `Start`,
`SizeField` and `ByteAt` are the image `tar` makes of it and stand for the build
(external). A name is a sequence of cells, one per component and one per "/".
Everything else is the code: the octal size field read as a decimal number and
converted (`tarfs_init`) or summed from the right (`getElfHeader`), the two
different steps from a header to the next, the backward scan for the parent, and
the look-ups. As `find` and `tar` write archives, a directory comes before what it
holds and names are unique. `octalToDecimal` takes its remainders of `(int)n`, so a
size may have nine octal digits (`Digits`; files below 128 MB) of the field's
eleven; `tarfs_fs` has 100 elements (`TableSize`), so an archive has fewer entries;
and components have two characters or more (with one, the scan of `get_per_ind`
for a top-level name would start below its test for 0). The bytes of a file are
opaque: told apart by their place, and none of them is a NUL. For the text files of
`rootfs` this is what they are; the bytes of an ELF, which cat prints as a string, would
end at the first NUL.

**Files.** `Files` extends `Shell`: typing a command is `Shell`'s fork, running it is
`Shell`'s execve, and the cwd of the new task is copied as in `copyParentToChild`
and `sanexecve`. `TypeCommand`, `ChangeDirectory` and `Help` are what main does with
a line; `List`, `Cat`, `CatMissing`, `CatKeyboard` and `Echo` are the programs;
`NullArgument` is a program that reads through a NULL argument and stops the machine
in an endless fault. The line is taken as `read` delivers it; what may happen to it on
the way is `Keyboard`'s subject. `Prints` takes the text as it is: `sys_write` hands it to
`kprintf` as the format (`sys/syscall.c:105`), so a % in it would be treated as a
directive. The NUL that `readfile` stores one past cat's buffer when a file fills it is
taken to overwrite nothing. `tempcwd` is cd's stack buffer. Between two calls of cd nothing reaches that
part of the stack (checked in the disassembly of the shipped `rootfs/bin/sbush`),
so it holds the path put together last; fork copies it with the rest of the memory.
cat's buffer of the same kind lies in a fresh, zero page. Lines have at most ten
words, the rows of `arglist`, and a word fits a row of 64 bytes; `/bin/echo` in
full, whose text is cut at the wrong character, is left out.

**Disk.** The driver's steps are those between two reads of a register that the
controller may change. `ahciwrite` and `read` are the same code but for the
direction and the buffer, so they are the same actions. The controller (`Follow`,
`Busy`, `Take`, `Finish`, `Fail`) is external: FR and CR follow FRE and ST, a command
in PxCI is taken by a running engine, transfers and then clears its bit, or fails:
the error bit is set, its bit in PxCI may stay, it may or may not have transferred,
and the engine takes nothing more. `find_cmdslot` counts the slots through a global
`abar` that nothing sets, so `cmdslots` is what address 0 holds: any value. One
value fills a sector, so a sector is one cell. The driver does not wait for the
reset it asks for; it is taken to be immediate, as in QEMU. When no port has a disk
the driver uses port 0 whatever is there: `Busy` treats a device that is not a disk
like no device, busy for ever, where an ATAPI device would take the command and
fail it.

## 3. Runs

| Run | Question | Result |
|---|---|---|
| `tasks` | Can any sequence of calls with any pids break the list, the ids, the states or a saved context, or let one waiting task be overtaken? | pass |
| `shell` | Does the system, used through its commands, avoid what `Tasks` allows: a hung or reset machine, programs running beside the shell, a prompt that never returns, a child that starts elsewhere? | pass, with the exceptions below |
| `memory` | Does copy on write isolate processes over several generations? | pass |
| `keyboard` | Is the line delivered the line shown, with interrupts anywhere? What makes `memcpy` run away? Does Enter end the read? | pass |
| `console` | When does the cursor stay in the page, and not go back over a line? | pass |
| `files` | Is the table right for every entry and the two walks in agreement? Is every task in a directory that exists? Do the programs print what the line asks for, in the shell's directory? Which lines stop the machine or keep the prompt? | pass |
| `disk` | With a controller that may fail or be busy at any point: is the right port started whatever the firmware left, does TRUE from both calls mean that the byte read is the one written, is no table refilled under the controller, does the wait end? | pass |
| `memory_overlap` | Does the kernel reach its structures in every address space? | violated once frames with the numbers of user text pages are handed out |
| `keyboard_erase` | Is a character erased by backspace gone from the line? | violated: it is still delivered |
| `console_help` | Does a text like the help file stay in the page? | violated: it runs out of the video page |
| `files_cd` | Does cd into a directory that is there lead there? | violated after a longer path: its tail is still in the buffer |
| `files_echo` | Does echo print the text behind it? | violated for four words or more: the program gets no arguments and faults for ever |

Some passing properties have preconditions that matter. `NeverStuck` excepts a
killed shell, exhausted memory, the prompt of a nested shell (after `sh`, a command's
child is created by a forked task whose `task_cr3` is overwritten) and `ArgumentFault`, a
program or a copy of the shell without the arguments it reads. `PromptReturns` excepts
these and a program that waits at the keyboard. `Files` says when the last two happen:
`LineGoesOn` and `LineReturns` are about every line of up to four words with one space
between them, of which only a cat without a file faults, and only a cat of a file
that is not there waits. A documented command can thus stop the machine (`echo` of four
words, `cat` alone) or keep the prompt (`cat missing`); these are states of the runs.
`LineRead` promises the beginning of the delivered line in every case, and its end
unless a residue is in the buffer: `gets` asks for one byte and Enter leaves 10 in `len`,
so a longer line is cut, its tail stays, and a later line is delivered with it. Lines
`spoiled` by a key without a character or by a backspace with nothing to erase are
excepted, as is one with a tick behind Enter, which does not come back at all
(`CopyBounded`). `OnScreen` is about a line at the cursor that fits behind the last row and has
not had more erased than printed: six backspaces at `bin/>` on a cleared screen write
in front of the page, as the model does. `NoOverprint` is about lines of at most two
rows. The help text takes almost four by one %s; `line_count` rises by two turns behind
it, so the newline goes to cell (r + 3) * 80 while `video` is at r * 80 + 298, back over
the text's last row.
`memory` has its user pages outside the identity map, which is the system until
`page_alloc` reaches physical 0x400000; `memory_overlap` is what comes after.
`Answered` is about lines of up to four words with one space between them: a second
space ends the argument list, and from five words on `_start` passes nothing. An
argument spelled as the path of a program (`cat /bin/ls`) stands for the program's
name, because `performCommand` treats every word of the line alike; an earlier form
of the property without this was refuted while proving it, and the run has such a
line.
`CommandReturns` excepts a command given to an engine that an earlier error has
halted: nothing restarts it and the wait has no timeout, so such a command is
waited for without end. Both cases are states of the runs.

**Bounds.** `tasks`: 6 tasks (four beyond init and the shell: a fork in a fork in
a fork, execs in between), 4 ids so that ids run out before tasks, 2 call sites so
that a stale frame can be told from the right one. `shell`: 11 tasks are four
commands and a failing fifth, 8 ids run out on the way. `memory`: 10 frames, 3
processes, 2 user pages: two generations of fork with an exec and faults until
memory ends. `keyboard`: lines of up to 3 characters, any number of them, with 1 asked
for, 2 left by Enter, 0 and 5 left by other keys, -9 by the timer, so that a line is
cut to nothing, cut short or read whole, and `scanlen` followed to -2. `console`: 4 columns,
clearing after line 5, lines of up to four rows, backspaces to 6 cells in front of a
line's start; `console_help` exceeds the room behind the
last row by 2 cells of 24, as the help file's 299 characters do by 11 of 2048.
`MaxCount` bounds `line_count`, a 64-bit counter.
`files`: 6 tasks are two commands one after the other with any number of cd
between them; blocks of 4 bytes, a cat buffer of 6 and a help buffer of 8 so that
the two archives have files of 0 bytes, of whole blocks, of a block and a part,
that fill cat's buffer, exceed it or fill help's; one of them has a directory in
a directory and files on either side of it; 17 lines, with a cat without a file, of one
that is not there, and an echo of four words among them. `disk`: 3 sectors of which
two share a value, up to 2 slots (with one, the slot of a failed command leaves
none), a spin limit of 2, and five sets of ports: no disk, one behind another
device, two, one asleep, one not implemented.

**Deadlock** is not checked: the systems may stop. A hung machine takes no step, a shell
that was left loops in user mode, the bounds end a run.

**Fairness.** `Shell` assumes weak fairness of `ProgramStep`: the processor goes on
executing the running program. There is no preemption, so this is all the code
needs; nothing is assumed of the user. `Files` assumes the same of the same steps. `Keyboard` assumes it of `Scanf`:
interrupts return to the loop they interrupt. `Disk` assumes it of the driver, and
of the controller what AHCI requires: FR and CR follow, a command issued to a
running engine is taken, and one taken finishes or fails. A busy disk need not
ever stop being busy; the driver's spin limit is there for that. The other modules
have safety properties only.

## 4. Proofs

Every theorem holds for all values of the constants within the named assumptions
of its module. Each component has an inductive invariant, since few of the
properties are inductive alone; TLC finds each of these invariants true on the
instance of the component's run as well (`FileInv` of `Files` with 4 tasks).

**`TasksProofs`**: `TypeCorrect`, `ListCorrect`, `PidsCorrect`, `WaitpidCorrect`,
`RunningCorrect`, `ContextsCorrect`, and the action property `NoOvertaking`
(`WaitingTasksAdvance`). `IInv` adds to the types:

* `Permuted`: the list is a permutation of 1..Len with the init task in front, so
  that moving an element keeps it complete;
* `NewestStack`: `rsp0` is the newest task. This is why saved contexts survive:
  every fork moves `rsp0` to a stack that nothing has used, and nothing moves it
  back;
* `PidInv`: ids in use are marked, so a new id is no other task's;
* `ParentInv`: the parent id of a task is the id of some task;
* `StateInv`: the running task is neither WAITING nor made so by kill or waitpid
  without a switch;
* `CtxInv`: blocked tasks have contexts on distinct stacks older than the newest,
  holding the frame of their fork.

**`ShellProofs`**: `ShellImplementsTasks` (`ShellSpec => Spec`) makes every theorem of
`TasksProofs` one about the shell; `ShellContextsIntact` and `ShellWaitsSafely` spell
two of them out. `ShellTypeCorrect`, `ShellNeverStuck`, `ForegroundOnly` and
`ForkReturnsInCopy` rest on `ShellInv`, on top of `IInv`:

* `FamilyInv`: the shell and all that descends from it hand down pid 1 or 2 as
  the parent, and no later task has one of these ids, so `waitpid(child)` never
  finds anything to wait for (`NoneWaitedFor`) and never yields;
* `ProgramInv`: whoever executes `sbush` is the shell or a forked copy; only forked
  tasks are clobbered, and the shell is not forked;
* `PlaceInv`: either the shell runs, or the newest task runs, is last in the list,
  and the shell is in fork. So the shell's index is never the last one, and a
  yield that finds it ready can move it;
* `RestInv`: the other tasks are over, so the shell is the only task a yield can
  find, and an exit that does not find it means that it was killed;
* `StuckInv`: `NeverStuck`, and the same for a program that exit has come back to, so
  that a run past exit is no reason of its own to stop.

**`MemoryProofs`**: `TypeCorrect` without condition; `CowSound`, `KernelStaysMapped`,
`OthersKept` and the refinement `ImplementsPrivate` as long as no page handed out
has the number of a user page (`Unreached`). That hypothesis is the state of the
machine until `page_alloc` reaches physical 0x400000; the run `memory_overlap` shows
that `KernelMapped` fails afterwards. `CowInv`: the identity map is intact below
the pages in use; a user page is backed by a page in use that is not the kernel's;
two processes share a page only at the same address; and a writable one is not
shared. In the refinement a page fault maps to a stutter, and the other actions to
the action of the same name.

**`KeyboardProofs`**: `TypeCorrect`, `LineIsRead` (`LineRead`) and `CopyIsBounded` (`CopyBounded`),
without a hypothesis on lengths, on what interrupts leave in `len`, or on backspaces.
`BaseInv` has the types and what each place of `scanf` implies; `LengthInv` relates
`scanlen` to the line while it is not spoiled; `LineInv` says that `tempbuff` begins with
the line, and the delivered string too; `ResidueInv` that without a residue there is a
NUL behind it, one cell further after an erasure. A spoiled line is the way out where
`scanlen` and the line have come apart.

**`ConsoleProofs`**: `TypeCorrect`, `OnScreenCorrect` and `NoOverprintCorrect`, for every screen, for
lines of any length and any erasing. The invariant: `video` is the start of some row
plus `col`, `line_width` is `col` + 1 and `line_count` is beyond that row.

**`DiskProofs`**: `TypeCorrect`, `ReadsBack`, and the action property `TableIntact`
(`TableKept`), for any number of ports, slots and sectors. `EngineInv`: until an
error the controller has at most the command the driver waits for, and an error
ends its work; `CommandInv`: the slot holds the driver's command; `CompletedInv`: a
command that has left PxCI without an error has had its effect; `DiskInv`: what
was reported as written is on the disk.

**`TarfsProofs`**: for every `WellFormed` archive, `TableBuilt` (the table of `tarfs_init`
has each entry with its name, size, type, header and directory), `ElfFound` and
`ElfMissing` (`getElfHeader` finds the same headers, and nothing else). These are
facts about recursive functions, and the library's induction theorems cannot be
used because they take an operator. Instead `LeastNumber` (a set of numbers has a
least one) gives `Induction` with a set as its parameter, and from it `Recursion`,
`Steps` and `Upwards`: recursion to smaller numbers, along a loop, and to larger
numbers up to a limit defines a function. On these rest the values of `stoi`,
`octalToDecimal` and `getSize` on what `tar` writes (`SizeByStoi`, `SizeByGetSize`: both
give the size back), the agreement of the three ways from a header to the next
(`Padded`), the positions of the headers (`StartAscends`, `Headers`) and the walks
(`WalkIsHeaders`, `ElfSteps`).
Two more theorems say what the table is good for. `ListingIsChildren`: `readdirect`
prints the entries directly in a directory, in order, and no others. Its prefix test
alone would let through what lies further down, and its test of `par_ind` alone the
wrong ones of two similar names; that both together are right rests on the shape
of a name, components and slashes in turn (`Parity`, `MatchedIsChild`).
`FileIsRead`: the string `readfile` leaves in a buffer is the file's first bytes, as
many as fit, because the files' bytes do not overlap (`OwnBytes`).

**`FilesProofs`**: `FilesTypeCorrect`, `DirectoriesExist` (`CwdIsDirectory`) and
`TableStaysCorrect` (`TableCorrect`) for any archives and lines. A step of `Files` is a step
of `Shell` (`FilesStep`), so `IInv` and `ShellInv` carry over. `FileInv` says that the table is the
archive's and that the directory of every `Task`, used or not, is the root or in
the archive; cd keeps it because `opendirect` looks the path up in a table that
`TableBuilt` shows to be the archive's.

`LineSplit` is about the parser: for every line of words without spaces, the last not
empty, `commands(Typed(l))` is `l`. `Placed` says where each word lies in the text
typed, `Splits` what one turn of the loop cuts off, and an induction from the end of
the text (`WordSplit`) joins them.

`CommandsAnswer` (`Answered`) puts all of it together, for any archive, any lines and
any history of commands:

* the arguments: `Filled` describes `arglist` after each turn of the second loop. Each
  `memset` reaches into the next row, and the rows are right nevertheless because
  they are filled upwards (`RowFilled`, `ArgRows`). `Counted` and `Given`: `argc` and `_start`
  hand on just these words when there are fewer than five;
* the programs: `Listing` and `FileShown` carry `ListingIsChildren` and `FileIsRead`
  over to ls and cat; `ProgramAnswers` covers each kind of line;
* the directory: `AnswerInv` adds to `Answered` that a task running in front of the
  shell has the shell's working directory, that a copy of the shell among them has
  just returned from fork and that a command has been typed (`CopyInv`), and that a cat
  waiting for the keyboard has printed all but the line it waits for (`ReadInv`).
  There is one step lemma for each kind of step: `TypedStep`, `ExecStep`, `LeaveStep`, `WorkStep`,
  `ReadStep`.

TLC has checked `AnswerInv` on the instance of `files` too.

`LinesGoOn` (`LineGoesOn`) says which lines stop the machine. `AliveInv`: the shell is never
ended and no copy of it prompts. With `StuckInv` of the shell this leaves memory and a
missing argument as reasons (`GoesOnStep`), and `ArgumentsFound` shows from `Given` and
`GivenText` that a plain line has the arguments its program reads, unless it is a cat
alone.

Only model-checked:

* the liveness properties `PromptReturns`, `LineReturns`, `ReadReturns`, `PortStarts`
  and `CommandReturns`: they rest on fairness, which this prover does not handle;
* the properties of the runs that find a violation.

## 5. Not modelled

* `printf` and most of the string functions of the library; `malloc`, whose
  `SYS_brk` the kernel does not handle.
* The scan of the PCI buses: reads of configuration space, no state.
* Descriptor tables and PIC setup: straight-line port and memory writes.
* Registers other than `len` in `Keyboard`: interrupts also change registers of
  `sbush` in user mode, and those of `scanf` between the load of `flag` and its
  comparison; where an interrupt may come there depends on the machine.
* `closefile`, `closedirect`, `page_dealloc`, `kprintf1`, `keyboard_inter_key1`, `createTask`:
  nothing calls them.
* The clock in the last row of the screen.
* The formatting `kprintf` does on the text of a write, NUL bytes inside files, and what
  the NUL behind cat's full buffer overwrites.
* A line of 1024 characters, which runs over `tempbuff` into `flag`.

## 6. Plan

Every invariant and every action property of a passing run is proved, so what is
left is to follow the code:

1. the hazards of `PROJECT.json` without a property: the interrupts in user mode,
   names of one character and archives of 100 entries or more, a command issued
   after an error. The first needs a model of the registers; the others need a
   statement of what should happen, which the repository does not make;
2. when one of the reported defects is repaired (the stale path buffer of cd, the
   backspace, the limit on arguments, the cursor of the help text), the run
   that shows it becomes a passing run with a theorem, and the exceptions of
   `LineRead`, `OnScreen`, `NoOverprint` and `LineGoesOn`, the hypothesis `Unreached` and the limit
   of four words in `Answered` can go.
