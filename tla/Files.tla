------------------------------- MODULE Files -------------------------------
(***************************************************************************)
(* Working directories, command lines and what the programs print: cd and  *)
(* performCommand of bin/sbush/sbush.c, bin/{ls,cat,echo}, the argument    *)
(* list on its way through sanexecve and crt1.c, and the file system calls *)
(* of sys/syscall.c, on top of Shell (the processes) and Tarfs (the files).*)
(*                                                                         *)
(* A line is given by the words the user means, with one space typed       *)
(* between two of them; an empty word is a second space.  A component of a *)
(* path fills one cell of a buffer, so the components of an instance are   *)
(* of the same length.  The line is taken as delivered: what backspaces    *)
(* and interrupts do to it on its way is in Keyboard.                      *)
(***************************************************************************)
EXTENDS Shell, Tarfs

CONSTANTS Archives,     \* the archives the kernel may be linked with
          Lines,        \* the lines a user may type
          CatBuffer,    \* bytes of fileContent in cat (1024)
          HelpBuffer,   \* bytes of filebuf in the kernel (2048)
          Rows,         \* rows of commands and arglist (10)
          ArgLimit      \* _start passes fewer arguments than this (5)

Bin(program) == <<"bin", "/", program>>

Space == " "                        \* what ends a word
NoSuchFile == "No such file"        \* printed by openfile
KeyboardLine == "a line"            \* what a user types for cat

\* the build puts every program into the archive
ASSUME FilesAssumption ==
    /\ \A a \in Archives :
        /\ WellFormed(a)
        /\ {<<"bin", "/">>, Bin("ls"), Bin("cat"), Bin("echo")}
              \subseteq {a[i].name : i \in 1..Len(a)}
    /\ \A l \in Lines : l \in Seq(Seq(STRING \ {Space})) /\ Len(l) \in 1..Rows
    /\ {CatBuffer, HelpBuffer, Rows, ArgLimit} \subseteq Nat \ {0}
    /\ "util" \in Command

VARIABLES archive,      \* the one it is linked with
          tarfs_fs,     \* the table built from it
          cwd,          \* cwd of each Task
          tempcwd,      \* cd's buffer, never cleared, in each address space
          line,         \* the line typed last
          out           \* what it printed

fileVars == <<archive, tarfs_fs, cwd, tempcwd, line, out>>
allVars == <<shellVars, fileVars>>

Readme == <<"etc", "/", "README">>
-----------------------------------------------------------------------------
(* The command line.                                                       *)

\* the characters typed
Typed(words) ==
    LET join[i \in 1..Len(words)] ==
            IF i = 1 THEN words[1] ELSE join[i - 1] \o <<Space>> \o words[i]
    IN  join[Len(words)]

\* performCommand's first loop: commands[]
commands(text) ==
    LET end(i) == Smallest({j \in i..Len(text) : text[j] = Space} \cup {Len(text) + 1})
        split[i \in 1..(Len(text) + 2)] ==
            IF i > Len(text) THEN <<>>
            ELSE <<SubSeq(text, i, end(i) - 1)>> \o split[end(i) + 1]
    IN  split[1]

\* the second loop: /bin/ls, /bin/cat, ... stand for ls, cat, ...
Alias(w) == IF \E u \in {"ls", "cat", "echo", "ps", "kill"} : w = <<"/", "bin", "/", u>>
            THEN <<w[4]>> ELSE w

\* row i is filled; its memset of 100 bytes reaches into row i + 1 as well
FillRow(rows, i, w) == [rows EXCEPT ![i] = w, ![i + 1] = <<>>]

arglist(text) ==
    LET w == commands(text)
        fill[i \in 0..Len(w)] ==
            IF i = 0 THEN [r \in 1..Rows |-> <<>>] ELSE FillRow(fill[i - 1], i, Alias(w[i]))
    IN  fill[Len(w)]

\* what executeCommand passes to execve: for echo the first row is the text
\* behind the first four characters
ExecArgs(text) ==
    IF arglist(text)[1] = <<"echo">> THEN [arglist(text) EXCEPT ![1] = Tail(text)]
    ELSE arglist(text)

\* sanexecve counts the rows up to an empty one; argcShort misses the last
argcShort(rows) == Smallest({i \in 2..Rows : rows[i] = <<>>} \cup {Rows + 1}) - 2
argc(rows) == Smallest({i \in 1..Rows : rows[i] = <<>>} \cup {Rows + 1}) - 1

\* _start: main gets argv[i], or argc = 0 and argv = NULL
Passed(rows) == argc(rows) \in 1..(ArgLimit - 1)
HasArg(rows, i) == Passed(rows) /\ i <= argc(rows)
-----------------------------------------------------------------------------
(* bin/sbush                                                               *)

\* strcpy(buf, s); strcat(buf, t) with t not empty: strcat writes no NUL, so
\* what the buffer held further on is still there
StrCat(buf, s, t) == s \o t \o SubSeq(buf, Len(s \o t) + 1, Len(buf))

\* fork and execve hand the caller's directory down (fork: its memory as well)
InheritDefault(f) == IF NoMemory THEN f ELSE [f EXCEPT ![NewTask] = <<"bin", "/">>]
Inherit(f) == IF NoMemory THEN f ELSE [f EXCEPT ![NewTask] = f[running]]

\* cd when the directory is changed without asking chdir
EnterUnchecked(d) == cwd' = [cwd EXCEPT ![running] = d]

\* the end of cd: changedir only if chdir found the directory
Enter(d) == cwd' = IF opendirect(tarfs_fs, d) # 0 THEN [cwd EXCEPT ![running] = d] ELSE cwd

\* cd
ChangeDirectory(l) ==
    LET rows == arglist(Typed(l))
        target == StrCat(tempcwd[running], cwd[running], rows[2])
    IN  /\ In("sbush", {"prompt"})
        /\ rows[1] = <<"cd">>
        /\ Trap("prompt")
        /\ line' = l
        /\ out' = <<>>
        /\ \/ /\ rows[2] \in {<<>>, <<"..">>}
              /\ cwd' = [cwd EXCEPT ![running] = <<>>]
              /\ UNCHANGED tempcwd
           \/ /\ rows[2] \notin {<<>>, <<"..">>}
              /\ Enter(target)
              /\ tempcwd' = [tempcwd EXCEPT ![running] = target]
        /\ UNCHANGED <<ownVars, archive, tarfs_fs>>

\* help: catfiles, then a command line that names no program
Help(l) ==
    LET fno == openfile(tarfs_fs, Readme)
    IN  /\ In("sbush", {"prompt"})
        /\ Typed(l) = <<"help">>
        /\ Trap("prompt")
        /\ line' = l
        /\ out' = IF fno = 0 THEN <<NoSuchFile>>
                  ELSE String(readfile(archive, fno, HelpBuffer))
        /\ UNCHANGED <<ownVars, archive, tarfs_fs, cwd, tempcwd>>

\* ls, cat, or echo with something behind it; the pid is of no interest here
TypeCommand(l) ==
    /\ arglist(Typed(l))[1] \in {<<"ls">>, <<"cat">>}
       \/ (arglist(Typed(l))[1] = <<"echo">> /\ Len(Typed(l)) > 1)
    /\ StartCommand("util", InitTask)
    /\ line' = l
    /\ out' = <<>>
    /\ cwd' = Inherit(cwd)
    /\ tempcwd' = Inherit(tempcwd)
    /\ UNCHANGED <<archive, tarfs_fs>>

ExecCommand ==
    /\ RunCommand
    /\ cwd' = Inherit(cwd)
    /\ UNCHANGED <<archive, tarfs_fs, tempcwd, line, out>>

\* the steps of Shell that leave the directories alone
OtherStep ==
    /\ Prompt \/ AwaitCommand \/ ProgramExit \/ PastExit
    /\ UNCHANGED fileVars

Leave == LeaveShell /\ UNCHANGED fileVars
-----------------------------------------------------------------------------
(* bin/ls, bin/echo and bin/cat, started with the rows of the line.        *)

Runs(program, sites) == In("util", sites) /\ arglist(Typed(line))[1] = <<program>>
Argument == ExecArgs(Typed(line))

\* the text is taken as it is, without kprintf's treatment of a % in it
Prints(text) ==
    /\ UtilWork
    /\ out' = text
    /\ UNCHANGED <<archive, tarfs_fs, cwd, tempcwd, line>>

List ==
    /\ Runs("ls", {NoSite})
    /\ Prints(readdirect(tarfs_fs, IF HasArg(Argument, 2) THEN Argument[2]
                                   ELSE cwd[running]))

Echo ==
    /\ Runs("echo", {NoSite})
    /\ HasArg(Argument, 1)
    /\ Prints(Argument[1])

\* cat builds the path on a stack page nothing was written to
CatFd == openfile(tarfs_fs, cwd[running] \o Argument[2])

\* the NUL readfile stores behind a full buffer is taken to overwrite nothing
Cat ==
    /\ Runs("cat", {NoSite})
    /\ HasArg(Argument, 2)
    /\ CatFd # 0
    /\ Prints(String(readfile(archive, CatFd, CatBuffer)))

\* openfile returned 0, which read takes for the keyboard
CatMissing ==
    /\ Runs("cat", {NoSite})
    /\ HasArg(Argument, 2)
    /\ CatFd = 0
    /\ UtilRead
    /\ out' = <<NoSuchFile>>
    /\ UNCHANGED <<archive, tarfs_fs, cwd, tempcwd, line>>

\* the user types a line for cat, which prints it
CatKeyboard ==
    /\ ReadLine
    /\ out' = Append(out, KeyboardLine)
    /\ UNCHANGED <<archive, tarfs_fs, cwd, tempcwd, line>>

\* main reads through argv = NULL or argv[1] = NULL, where nothing is mapped
NullArgument ==
    /\ \/ Runs("cat", {NoSite}) /\ ~HasArg(Argument, 2)
       \/ Runs("echo", {NoSite}) /\ ~HasArg(Argument, 1)
    /\ UtilFault
    /\ UNCHANGED fileVars
-----------------------------------------------------------------------------
FilesInit ==
    /\ ShellInit
    /\ archive \in Archives
    /\ tarfs_fs = tarfs_init(archive)
    /\ cwd = [t \in Task |-> IF t = Sbush THEN <<"bin", "/">> ELSE <<>>]
    /\ tempcwd = [t \in Task |-> <<>>]
    /\ line = <<>>
    /\ out = <<>>

FilesProgramStep ==
    \/ ExecCommand
    \/ OtherStep
    \/ List
    \/ Echo
    \/ Cat
    \/ CatMissing
    \/ NullArgument

FilesUserStep ==
    \/ \E l \in Lines : ChangeDirectory(l) \/ Help(l) \/ TypeCommand(l)
    \/ Leave
    \/ CatKeyboard

FilesNext == FilesProgramStep \/ FilesUserStep

\* as in Shell, the processor goes on and nobody has to type
FilesSpec == FilesInit /\ [][FilesNext]_allVars /\ WF_shellVars(ProgramStep)
-----------------------------------------------------------------------------
IsDirectory(d) == \E i \in 1..Len(archive) : archive[i].name = d /\ archive[i].type = "DIRECTORY"

FilesTypeOK ==
    /\ ShellTypeOK
    /\ archive \in Archives
    /\ Len(tarfs_fs) = Len(archive)
    /\ DOMAIN cwd = Task /\ DOMAIN tempcwd = Task
    /\ line \in Lines \cup {<<>>}

\* Wherever cd, fork and execve have led it, a task is in the root or in a
\* directory of the archive, although cd puts the path together in a buffer
\* that still holds longer ones.
CwdIsDirectory ==
    \A t \in Listed \ {InitTask} : cwd[t] = <<>> \/ IsDirectory(cwd[t])

\* tarfs_init and getElfHeader step through the image in ways of their own, the
\* one to an empty name, the other to the end of the image; for every entry they
\* come to the same address, execve gets 0 for a name that is not there, and
\* par_ind is the entry's directory.  Neither image nor table changes later on.
TableCorrect == line = <<>> =>
    /\ \A i \in 1..Len(archive) :
        LET e == tarfs_fs[i]
        IN  /\ e.name = archive[i].name
            /\ e.size = archive[i].size
            /\ getElfHeader(archive, e.name) = e.addr_hdr + Block
            /\ IF e.par_ind = NoParent
               THEN Len(e.name) <= 2 /\ ~\E k \in 1..(Len(e.name) - 1) : e.name[k] = "/"
               ELSE \E c \in 1..2 : tarfs_fs[e.par_ind].name = SubSeq(e.name, 1, Len(e.name) - c)
    /\ \A l \in Lines, w \in 1..Rows :
        w <= Len(l) /\ l[w] # <<>> /\ (\A i \in 1..Len(archive) : archive[i].name # l[w]) =>
            getElfHeader(archive, l[w]) = 0

\* what a line asks for, in the directory the shell is in
Children(d) ==
    LET shown(e) == IF /\ IsDirectory(d) /\ HasPrefix(e.name, d)
                       /\ \/ Len(e.name) = Len(d) + 1
                          \/ Len(e.name) = Len(d) + 2 /\ e.type = "DIRECTORY"
                    THEN <<SubSeq(e.name, Len(d) + 1, Len(e.name))>> ELSE <<>>
    IN  SeqExt!FlattenSeq([i \in 1..Len(archive) |-> shown(archive[i])])

FirstBytes(f, n) ==
    LET k == CHOOSE i \in 1..Len(archive) : archive[i].name = f
    IN  [j \in 1..Smallest({archive[k].size, n}) |-> <<k, j>>]

Asked(d) ==
    LET word(i) == Alias(line[i])
    IN  CASE word(1) = <<"ls">> /\ Len(line) = 1 /\ d = <<>> -> RootList
          [] word(1) = <<"ls">> /\ Len(line) = 1 /\ d # <<>> -> Children(d)
          [] word(1) = <<"ls">> /\ Len(line) > 1 -> Children(word(2))
          [] word(1) = <<"cat">> ->
                IF \E i \in 1..Len(archive) :
                      archive[i].name = d \o word(2) /\ archive[i].type = "FILE_TYPE"
                THEN FirstBytes(d \o word(2), CatBuffer)
                ELSE <<NoSuchFile, KeyboardLine>>
          [] word(1) = <<"echo">> -> Tail(Typed(line))

\* fewer words than _start passes on, with one space between them
Plain == Len(line) < ArgLimit /\ \A i \in 1..Len(line) : line[i] # <<>>

\* A command of up to four words with one space between them prints what it
\* asks for: the entries of the directory, in the order of the archive and none
\* of those further down; the file in the shell's directory, to its end or to
\* the end of cat's buffer whatever readfile stores behind it; the text.  The
\* directory is the shell's, two tasks away from the program; an argument that
\* names a program by its path stands for the program as well.
Answered ==
    In("util", {"work", "exit"}) /\ Plain => out = Asked(cwd[Sbush])

\* cat without a file
NothingToCat == Len(line) = 1 /\ Alias(line[1]) = <<"cat">>

\* Only a line of too many words or with two spaces in a row, a cat without a
\* file or an exhausted kmalloc stops the machine: whatever parser, execve and
\* _start make of the line, ls, cat and echo find the arguments they read.
LineGoesOn == cpu # "user" => NoMemory \/ ~Plain \/ NothingToCat

\* Every other command gives the prompt back, or waits at the keyboard because
\* cat's file is not there.
LineReturns ==
    (running \in forked /\ at = "fork" /\ Plain /\ ~NothingToCat)
        ~> \/ running = Sbush /\ at = "prompt"
           \/ In("util", {"read"}) /\ Asked(cwd[Sbush]) = <<NoSuchFile, KeyboardLine>>
           \/ cpu = "hung" /\ NoMemory

\* "cd->Use / at the end of the directory to move": cd into a directory that is
\* there leads there.
CdMoves ==
    [][\A l \in Lines : ChangeDirectory(l) /\ Len(l) = 2 /\ IsDirectory(cwd[running] \o l[2])
          => cwd'[running] = cwd[running] \o l[2]]_allVars

\* "echo->Type echo followed by text.": the text is printed before echo exits
\* or stops.
EchoPrints ==
    role[running] = "util" /\ (at = "work" \/ cpu = "hung") /\ line[1] = <<"echo">>
        => out = Tail(Typed(line))
=============================================================================
