------------------------------- MODULE Memory -------------------------------
(***************************************************************************)
(* Physical pages and address spaces: sys/phymap.c, the mappings elf_load  *)
(* makes (sys/elf.c) and the page fault handler (sys/isr.c).               *)
(*                                                                         *)
(* Pages are numbered, physical and virtual alike: the kernel reaches      *)
(* physical page f, up to IdMax, at virtual page f (mapAllpages).  Every   *)
(* user page shares its top-level slot with that identity map.  So         *)
(* set_user_AddrSpace, which copies top-level entries only, gives execve's *)
(* new task the page tables of its caller, and copy_page_tables_forchild   *)
(* is the one operation that makes tables of their own.  A process here is *)
(* the owner of a set of tables from its fork, through execve, to its end; *)
(* process 1 is bin/sbush, on the tables of the boot code.                 *)
(*                                                                         *)
(* CR0.WP is clear: the kernel writes through a read-only entry.           *)
(***************************************************************************)
EXTENDS Naturals, FiniteSets

CONSTANTS IdMax,        \* last page of the identity map (0x500 in the code)
          LastFrame,    \* last physical page of pages[]
          BootFrames,   \* pages in use before bin/sbush is loaded
          ForkFrames,   \* Task, page tables and areas of a forked child
          ExecFrames,   \* Task, PML4 and areas of a loaded program
          UserPage,     \* virtual pages of a program: text, data, heap, stack
          Process,
          Mark          \* what a program can leave in a page

ASSUME MemoryAssumption ==
    /\ IdMax \in Nat /\ LastFrame \in Nat /\ IdMax <= LastFrame
    /\ BootFrames \in Nat \ {0} /\ ForkFrames \in Nat \ {0} /\ ExecFrames \in Nat \ {0}
    /\ UserPage \subseteq Nat \ {0} /\ IsFiniteSet(UserPage) /\ UserPage # {}
    /\ BootFrames + ExecFrames + Cardinality(UserPage) <= IdMax
    /\ Process \subseteq Nat /\ 1 \in Process
    /\ {"kernel", "image"} \cap Mark = {}

\* Besides the marks of a program, a page may hold a structure of the kernel
\* ("kernel") or what elf_load put there ("image").
VARIABLES used,         \* free_list is used + 1 .. LastFrame
          kern,         \* pages handed out for the kernel's own structures
          table,        \* page tables of each live process: page -> entry
          content,      \* the marks in each physical page
          running,
          cpu           \* "user" or "hung"

vars == <<used, kern, table, content, running, cpu>>

Frame == 1..LastFrame
IdPage == 1..IdMax
Live == DOMAIN table
Entry == [frame : Frame, w : BOOLEAN, cow : BOOLEAN]
-----------------------------------------------------------------------------
(* page_alloc, kmalloc and the page table walks.                           *)

\* the next n pages of free_list, in order
NextFrames(n) == used + 1 .. used + n

\* Some page the kernel must write itself is off the identity map (the fault
\* handler finds no entry for it) or page_alloc returned NULL.
OutOfReach(n) == used + n > IdMax

\* map_process: present, writable, user
Mapped(f) == [frame |-> f, w |-> TRUE, cow |-> FALSE]

\* what the boot code maps below the kernel: pagetable_init, mapAllpages
BootMap == [v \in IdPage |-> Mapped(v)]

\* set_user_AddrSpace: a new top-level table with the old entries, so the
\* tables below it stay the caller's
AddrSpace(m) == m

\* a program is loaded over map m: user page v gets frame at[v]
Loaded(m, at) == [v \in DOMAIN m \cup UserPage |->
                    IF v \in UserPage THEN Mapped(at[v]) ELSE m[v]]

\* pages fs of map m are overwritten with x
Filled(m, fs, c, x) ==
    [f \in Frame |-> IF \E g \in fs : m[g].frame = f THEN x ELSE c[f]]

\* one more mark in the page that v is mapped to
Marked(m, v, c, x) == [c EXCEPT ![m[v].frame] = @ \cup {x}]

\* both copies of an entry that is present when a process forks
CowEntry(e) == [frame |-> e.frame, w |-> FALSE, cow |-> TRUE]

\* a copy loop that is off by one, and a parent left with its writable entries
CopyOffByOne(m) == [v \in DOMAIN m |-> CowEntry(m[IF v - 1 \in DOMAIN m THEN v - 1 ELSE v])]
CopyWritable(m) == m

CopyForChild(m) == [v \in DOMAIN m |-> CowEntry(m[v])]
CopyForParent(m) == [v \in DOMAIN m |-> CowEntry(m[v])]

Hang == cpu' = "hung" /\ UNCHANGED <<used, kern, table, content, running>>

\* the ways to give the user pages the next frames: elf_load goes up through them
Placements(base) ==
    {at \in [UserPage -> base + 1 .. base + Cardinality(UserPage)] :
        \A v, w \in UserPage : v < w => at[v] < at[w]}
-----------------------------------------------------------------------------
(* What the running process does.                                          *)

\* pg_fault_handler for a write to page v: a fresh page, reached through the
\* identity map, takes the contents and the entry of v is replaced.  The entry
\* of the identity page is used whole, its flags included.
FaultMapInPlace(m, v) == [m EXCEPT ![v].w = TRUE]      \* no fresh page
FaultMap(m, v) == [m EXCEPT ![v] = [frame |-> m[used + 1].frame, w |-> TRUE,
                                    cow |-> m[used + 1].cow]]
FaultCopyNothing(m, v) == content                      \* no memcpy
FaultCopy(m, v) == [content EXCEPT ![m[used + 1].frame] = content[m[v].frame]]

UserWrite(v, x) ==
    LET m == table[running]
    IN  /\ cpu = "user"
        /\ \/ /\ m[v].w
              /\ content' = Marked(m, v, content, x)
              /\ UNCHANGED <<used, kern, table, running, cpu>>
           \/ ~m[v].w /\ OutOfReach(1) /\ Hang
           \/ /\ ~m[v].w /\ m[v].cow /\ ~OutOfReach(1)
              /\ used' = used + 1
              /\ table' = [table EXCEPT ![running] = FaultMap(m, v)]
              /\ content' = Marked(FaultMap(m, v), v, FaultCopy(m, v), x)
              /\ UNCHANGED <<kern, running, cpu>>

\* a system call stores into the caller's buffer (getcwd, read)
KernelWrite(v, x) ==
    /\ cpu = "user"
    /\ content' = Marked(table[running], v, content, x)
    /\ UNCHANGED <<used, kern, table, running, cpu>>

\* copyParentToChild: the Task, the tables and the areas of the child
Fork(c) ==
    LET m == table[running]
    IN  /\ cpu = "user"
        /\ c \notin Live
        /\ \/ OutOfReach(ForkFrames) /\ Hang
           \/ /\ ~OutOfReach(ForkFrames)
              /\ used' = used + ForkFrames
              /\ kern' = kern \cup NextFrames(ForkFrames)
              /\ content' = Filled(m, NextFrames(ForkFrames), content, {"kernel"})
              /\ table' = [p \in Live \cup {c} |->
                             IF p = c THEN CopyForChild(m)
                             ELSE IF p = running THEN CopyForParent(m) ELSE table[p]]
              /\ running' = c
              /\ UNCHANGED cpu

\* sanexecve: elf_load replaces the user pages in the caller's own tables.  The
\* last page taken holds an area of the kernel, so all must be within reach.
Exec ==
    LET m == table[running]
        n == ExecFrames + Cardinality(UserPage)
    IN  /\ cpu = "user"
        /\ \/ OutOfReach(n) /\ Hang
           \/ /\ ~OutOfReach(n)
              /\ used' = used + n
              /\ kern' = kern \cup NextFrames(ExecFrames)
              /\ \E at \in Placements(used + ExecFrames) :
                    /\ table' = [table EXCEPT ![running] = Loaded(AddrSpace(m), at)]
                    /\ content' = Filled(Loaded(AddrSpace(m), at), UserPage,
                          Filled(m, NextFrames(ExecFrames), content, {"kernel"}), {"image"})
              /\ UNCHANGED <<running, cpu>>

\* an exit that does not switch
ExitStays(p) ==
    /\ cpu = "user"
    /\ p \in Live \ {running}
    /\ table' = [q \in Live \ {running} |-> table[q]]
    /\ UNCHANGED <<used, kern, content, running, cpu>>

\* The process ends and another is switched to; which one is up to Tasks.  Its
\* pages are never given back: page_dealloc has no caller.
Exit(p) ==
    /\ cpu = "user"
    /\ p \in Live \ {running}
    /\ table' = [q \in Live \ {running} |-> table[q]]
    /\ running' = p
    /\ UNCHANGED <<used, kern, content, cpu>>

\* a switch to a process that waits
Switch(p) ==
    /\ cpu = "user"
    /\ p \in Live \ {running}
    /\ running' = p
    /\ UNCHANGED <<used, kern, table, content, cpu>>
-----------------------------------------------------------------------------
\* mem_alloc and create_process("bin/sbush")
Init ==
    /\ used = BootFrames + ExecFrames + Cardinality(UserPage)
    /\ kern = 1..BootFrames + ExecFrames
    /\ \E at \in Placements(BootFrames + ExecFrames) :
         table = [p \in {1} |-> Loaded(AddrSpace(BootMap), at)]
    /\ content = [f \in Frame |-> IF f \in kern THEN {"kernel"}
                                   ELSE IF f > used THEN {} ELSE {"image"}]
    /\ running = 1
    /\ cpu = "user"

Next ==
    \/ \E v \in UserPage, x \in Mark : UserWrite(v, x)
    \/ \E v \in UserPage, x \in Mark : KernelWrite(v, x)
    \/ \E c \in Process : Fork(c)
    \/ Exec
    \/ \E p \in Process : Exit(p)
    \/ \E p \in Process : Switch(p)

Spec == Init /\ [][Next]_vars
-----------------------------------------------------------------------------
TypeOK ==
    /\ used \in 1..IdMax
    /\ kern \subseteq 1..used
    /\ Live \subseteq Process
    /\ \A p \in Live : table[p] \in [IdPage \cup UserPage -> Entry]
    /\ content \in [Frame -> SUBSET (Mark \cup {"kernel", "image"})]
    /\ running \in Live
    /\ cpu \in {"user", "hung"}

\* Copy on write is sound: a page one process can write without a fault backs
\* no other user page, of that process or of another, and none of the kernel's
\* structures.
CowExclusive ==
    \A p, q \in Live : \A v, u \in UserPage :
        table[p][v].w =>
            /\ table[p][v].frame \notin kern
            /\ <<p, v>> # <<q, u>> => table[p][v].frame # table[q][u].frame

\* "map the kernel page table for the process": the kernel's structures are at
\* the addresses kmalloc returned for them, whatever process is running.
KernelMapped ==
    \A p \in Live : \A f \in kern : table[p][f].frame = f

View(p) == [v \in UserPage |-> content[table[p][v].frame]]

\* A process that is not running finds its memory as it left it, however often
\* the others fork, load programs and write.  System calls that store into a
\* buffer are the exception: the kernel does not take the fault.
OthersUnaffected ==
    [][~(\E v \in UserPage, x \in Mark : KernelWrite(v, x)) =>
          \A p \in Live \ {running} : p \in Live' => View(p)' = View(p)]_vars

Private == INSTANCE PrivateMemory
             WITH mem <- [p \in Live |-> View(p)], stopped <- cpu = "hung"

\* Frames, page tables and faults are invisible: over any number of forks, loads
\* and faults each process has a private memory, up to the stores of system
\* calls that PrivateMemory concedes.
IsPrivate == Private!Spec
=============================================================================
