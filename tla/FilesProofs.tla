---------------------------- MODULE FilesProofs ----------------------------
(***************************************************************************)
(* The shell's invariant under the command lines of Files, and what holds  *)
(* for any archive and any lines of its working directories, of its file   *)
(* table, of the words it finds in a line and of what the programs print.  *)
(***************************************************************************)
EXTENDS Files, ShellProofs, TarfsProofs

\* Every step is a step of Shell.
LEMMA FilesStep == ASSUME [FilesNext]_allVars PROVE [ShellNext]_shellVars
<1>1. CASE UNCHANGED allVars
  BY <1>1 DEF allVars
<1>2. ASSUME NEW l \in Lines, ChangeDirectory(l) \/ Help(l) PROVE ShellNext
  <2>1. Prompt
    BY <1>2 DEF ChangeDirectory, Help, Prompt, In
  <2> QED BY <2>1 DEF ShellNext, ProgramStep
<1>3. ASSUME NEW l \in Lines, TypeCommand(l) PROVE ShellNext
  <2>1. InitTask \in Pid \ {0}
    BY ConstantsAssumption DEF InitTask, Pid
  <2>2. StartCommand("util", InitTask) /\ "util" \in Command
    BY <1>3, FilesAssumption DEF TypeCommand
  <2> QED BY <2>1, <2>2 DEF ShellNext, UserStep
<1>4. CASE ExecCommand
  BY <1>4 DEF ExecCommand, ShellNext, ProgramStep
<1>5. CASE OtherStep \/ Leave
  BY <1>5 DEF OtherStep, Leave, ShellNext, ProgramStep, UserStep
<1>6. CASE List \/ Echo \/ Cat
  BY <1>6 DEF List, Echo, Cat, Prints, ShellNext, ProgramStep
<1>7. CASE CatMissing \/ CatKeyboard \/ NullArgument
  BY <1>7 DEF CatMissing, CatKeyboard, NullArgument, ShellNext, ProgramStep, UserStep
<1> QED BY <1>1, <1>2, <1>3, <1>4, <1>5, <1>6, <1>7
        DEF FilesNext, FilesProgramStep, FilesUserStep

LEMMA FilesStepInv == ASSUME IInv, ShellInv, [FilesNext]_allVars PROVE IInv' /\ ShellInv'
<1>1. [ShellNext]_shellVars
  BY FilesStep
<1>2. [Next]_vars
  BY <1>1, ShellStep DEF IInv, ShellInv, OwnInv
<1>3. IInv'
  BY <1>2, NextInv
<1> QED BY <1>1, <1>3, ShellNextInv
-----------------------------------------------------------------------------
\* The table is the one of the archive the kernel is linked with, and every
\* Task's directory is the root or in the archive, whether the Task is in use
\* or not.
FileInv ==
    /\ archive \in Archives
    /\ tarfs_fs = tarfs_init(archive)
    /\ cwd = [t \in Task |-> cwd[t]]
    /\ DOMAIN tempcwd = Task
    /\ line \in Lines \cup {<<>>}
    /\ \A t \in Task : cwd[t] = <<>> \/ IsDirectory(cwd[t])

LEMMA FileInitInv == FilesInit => FileInv
<1> SUFFICES ASSUME FilesInit PROVE FileInv
  OBVIOUS
<1>1. /\ archive \in Archives /\ tarfs_fs = tarfs_init(archive) /\ line = <<>>
      /\ cwd = [t \in Task |-> IF t = Sbush THEN <<"bin", "/">> ELSE <<>>]
      /\ tempcwd = [t \in Task |-> <<>>]
  BY DEF FilesInit
<1>2. IsDirectory(<<"bin", "/">>)
  <2>1. PICK i \in 1..Len(archive) : archive[i].name = <<"bin", "/">>
    BY <1>1, FilesAssumption
  <2>2. archive[i].type = "DIRECTORY" <=> archive[i].name[Len(archive[i].name)] = "/"
    BY <1>1, FilesAssumption DEF WellFormed
  <2>3. archive[i].name[Len(archive[i].name)] = "/"
    BY <2>1
  <2> QED BY <2>1, <2>2, <2>3 DEF IsDirectory
<1>3. \A t \in Task : cwd[t] = <<>> \/ IsDirectory(cwd[t])
  BY <1>1, <1>2
<1> QED BY <1>1, <1>3 DEF FileInv

\* opendirect says a directory is there only if the archive has it.
LEMMA Opened ==
    ASSUME NEW a, WellFormed(a), NEW d, opendirect(tarfs_init(a), d) # 0
    PROVE  \E i \in 1..Len(a) : a[i].name = d /\ a[i].type = "DIRECTORY"
<1> DEFINE fs == tarfs_init(a)
<1>1. /\ Len(fs) = Len(a)
      /\ \A i \in 1..Len(a) : fs[i].name = a[i].name /\ fs[i].typeflag = a[i].type
  BY TableBuilt
<1> HIDE DEF fs
<1>2. Matches(fs, d, "DIRECTORY") # {}
  BY DEF opendirect, Lookup, fs
<1>3. PICK i \in 1..Len(fs) : fs[i].name = d /\ fs[i].typeflag = "DIRECTORY"
  BY <1>2 DEF Matches
<1> QED BY <1>1, <1>3

LEMMA FileStepInv == ASSUME IInv, FileInv, [FilesNext]_allVars PROVE FileInv'
<1> DEFINE Fine(d) == d = <<>> \/ IsDirectory(d)
<1>0. /\ archive \in Archives /\ WellFormed(archive) /\ running \in Task
      /\ tarfs_fs = tarfs_init(archive)
      /\ cwd = [t \in Task |-> cwd[t]] /\ DOMAIN tempcwd = Task
      /\ line \in Lines \cup {<<>>} /\ \A t \in Task : Fine(cwd[t])
  BY FilesAssumption DEF FileInv, IInv, TypeOK
<1>1. UNCHANGED <<archive, tarfs_fs>>
  BY DEF FilesNext, FilesProgramStep, FilesUserStep, ChangeDirectory, Help, TypeCommand,
         ExecCommand, OtherStep, Leave, List, Echo, Cat, Prints, CatMissing, CatKeyboard, NullArgument, fileVars, allVars
<1>2. line' \in Lines \cup {<<>>}
  BY <1>0 DEF FilesNext, FilesProgramStep, FilesUserStep, ChangeDirectory, Help, TypeCommand,
              ExecCommand, OtherStep, Leave, List, Echo, Cat, Prints, CatMissing, CatKeyboard, NullArgument, fileVars, allVars
<1> DEFINE Result == /\ cwd' = [t \in Task |-> cwd'[t]] /\ DOMAIN tempcwd' = Task
                     /\ \A t \in Task : Fine(cwd'[t])
<1>3. Result => FileInv'
  BY <1>0, <1>1, <1>2 DEF FileInv, IsDirectory
<1>4. ASSUME NEW d, Fine(d), NEW t, cwd' = [cwd EXCEPT ![t] = d]
      PROVE  cwd' = [u \in Task |-> cwd'[u]] /\ \A u \in Task : Fine(cwd'[u])
  <2> HIDE DEF Fine
  <2>1. \A u \in Task : cwd'[u] = d \/ cwd'[u] = cwd[u]
    BY <1>0, <1>4
  <2>2. cwd' = [u \in Task |-> cwd'[u]]
    BY <1>0, <1>4
  <2> QED BY <1>0, <1>4, <2>1, <2>2
<1>5. CASE UNCHANGED <<cwd, tempcwd>>
  BY <1>0, <1>3, <1>5
<1>6. ASSUME NEW l \in Lines, ChangeDirectory(l) PROVE Result
  <2> DEFINE rows == arglist(Typed(l))
             target == StrCat(tempcwd[running], cwd[running], rows[2])
  <2>1. \/ cwd' = [cwd EXCEPT ![running] = <<>>] /\ UNCHANGED tempcwd
        \/ Enter(target) /\ tempcwd' = [tempcwd EXCEPT ![running] = target]
    BY <1>6 DEF ChangeDirectory
  <2> HIDE DEF target, rows
  <2>2. DOMAIN tempcwd' = Task
    BY <1>0, <2>1
  <2>3. CASE cwd' = [cwd EXCEPT ![running] = <<>>]
    <3>1. Fine(<<>>)
      OBVIOUS
    <3> HIDE DEF Fine
    <3> QED BY <1>4, <2>2, <2>3, <3>1
  <2>4. CASE Enter(target) /\ opendirect(tarfs_fs, target) # 0
    <3>1. Fine(target)
      BY <1>0, <2>4, Opened DEF IsDirectory
    <3>2. cwd' = [cwd EXCEPT ![running] = target]
      BY <2>4 DEF Enter
    <3> HIDE DEF Fine
    <3> QED BY <1>4, <2>2, <3>1, <3>2
  <2>5. CASE Enter(target) /\ opendirect(tarfs_fs, target) = 0
    <3>1. cwd' = cwd
      BY <2>5 DEF Enter
    <3> HIDE DEF Fine
    <3> QED BY <1>0, <2>2, <3>1
  <2> QED BY <2>1, <2>3, <2>4, <2>5
<1>7. ASSUME cwd' = Inherit(cwd), tempcwd' = Inherit(tempcwd) \/ UNCHANGED tempcwd PROVE Result
  <2>1. DOMAIN tempcwd' = Task
    BY <1>0, <1>7 DEF Inherit
  <2>2. CASE NoMemory
    <3>1. cwd' = cwd
      BY <1>7, <2>2 DEF Inherit
    <3> HIDE DEF Fine
    <3> QED BY <1>0, <2>1, <3>1
  <2>3. CASE ~NoMemory
    <3>1. cwd' = [cwd EXCEPT ![NewTask] = cwd[running]]
      BY <1>7, <2>3 DEF Inherit
    <3>2. Fine(cwd[running])
      BY <1>0
    <3> HIDE DEF Fine
    <3> QED BY <1>4, <2>1, <3>1, <3>2
  <2> QED BY <2>2, <2>3
<1>8. ASSUME NEW l \in Lines, Help(l) PROVE UNCHANGED <<cwd, tempcwd>>
  BY <1>8 DEF Help
<1>9. CASE \/ UNCHANGED allVars \/ OtherStep \/ Leave \/ List \/ Echo \/ Cat
           \/ CatMissing \/ CatKeyboard \/ NullArgument
  <2>1. UNCHANGED <<cwd, tempcwd>>
    BY <1>9 DEF allVars, fileVars, OtherStep, Leave, List, Echo, Cat, Prints, CatMissing, CatKeyboard,
                NullArgument
  <2> QED BY <1>5, <2>1
<1>10. ASSUME NEW l \in Lines, TypeCommand(l) PROVE Result
  BY <1>7, <1>10 DEF TypeCommand
<1>11. CASE ExecCommand
  BY <1>3, <1>7, <1>11 DEF ExecCommand
<1> HIDE DEF Result
<1> QED BY <1>3, <1>5, <1>6, <1>8, <1>9, <1>10, <1>11
        DEF FilesNext, FilesProgramStep, FilesUserStep
-----------------------------------------------------------------------------
LEMMA FilesInvariant == FilesSpec => [](IInv /\ ShellInv /\ FileInv)
<1>1. FilesInit => IInv /\ ShellInv /\ FileInv
  BY InitInv, ShellInitInv, FileInitInv DEF FilesInit, ShellInit
<1>2. IInv /\ ShellInv /\ FileInv /\ [FilesNext]_allVars => (IInv /\ ShellInv /\ FileInv)'
  BY FilesStepInv, FileStepInv
<1> QED BY <1>1, <1>2, PTL DEF FilesSpec

\* The command lines, directories and table of a running system have their
\* types, and the table has one entry for each of the archive's.
THEOREM FilesTypeCorrect == FilesSpec => []FilesTypeOK
<1>1. IInv /\ ShellInv /\ FileInv => FilesTypeOK
  <2> SUFFICES ASSUME IInv, ShellInv, FileInv PROVE FilesTypeOK
    OBVIOUS
  <2>1. ShellTypeOK
    BY DEF IInv, ShellInv, OwnInv, ProgramTypes, ShellTypeOK
  <2>2. WellFormed(archive) /\ tarfs_fs = tarfs_init(archive)
    BY FilesAssumption DEF FileInv
  <2>3. Len(tarfs_fs) = Len(archive)
    BY <2>2, TableBuilt
  <2>4. DOMAIN cwd = Task
    BY DEF FileInv
  <2> QED BY <2>1, <2>3, <2>4 DEF FileInv, FilesTypeOK
<1> QED BY <1>1, FilesInvariant, PTL

\* Whatever is typed after cd and whatever the buffer it is put together in
\* held before, the shell and the programs it starts are in the root or in a
\* directory the archive has.
THEOREM DirectoriesExist == FilesSpec => []CwdIsDirectory
<1>1. IInv /\ FileInv => CwdIsDirectory
  <2> SUFFICES ASSUME IInv, FileInv PROVE CwdIsDirectory
    OBVIOUS
  <2>1. Listed \subseteq Task
    BY DEF IInv, TypeOK, Listed
  <2> QED BY <2>1 DEF FileInv, CwdIsDirectory
<1> QED BY <1>1, FilesInvariant, PTL

\* For every archive below TableSize entries and every size of up to nine octal
\* digits, tarfs_init's table is right: names, sizes, parents, and the
\* addresses getElfHeader finds on its own way, or does not find.
THEOREM TableStaysCorrect == FilesSpec => []TableCorrect
<1>1. FileInv => TableCorrect
  <2> SUFFICES ASSUME FileInv PROVE TableCorrect
    OBVIOUS
  <2>1. WellFormed(archive) /\ tarfs_fs = tarfs_init(archive)
    BY FilesAssumption DEF FileInv
  <2>2. \A i \in 1..Len(archive) : /\ tarfs_fs[i].name = archive[i].name
                                    /\ tarfs_fs[i].size = archive[i].size
                                    /\ tarfs_fs[i].addr_hdr = Start(archive)[i]
                                    /\ ParentOf(archive, i, tarfs_fs[i].par_ind)
    BY <2>1, TableBuilt
  <2>3. ASSUME NEW i \in 1..Len(archive)
        PROVE  LET e == tarfs_fs[i]
               IN  /\ e.name = archive[i].name
                   /\ e.size = archive[i].size
                   /\ getElfHeader(archive, e.name) = e.addr_hdr + Block
                   /\ IF e.par_ind = NoParent
                      THEN Len(e.name) <= 2 /\ ~\E k \in 1..(Len(e.name) - 1) : e.name[k] = "/"
                      ELSE \E c \in 1..2 : tarfs_fs[e.par_ind].name = SubSeq(e.name, 1, Len(e.name) - c)
    <3>1. getElfHeader(archive, archive[i].name) = Start(archive)[i] + Block
      BY <2>1, ElfFound
    <3>2. CASE tarfs_fs[i].par_ind = NoParent
      BY <2>2, <3>1, <3>2 DEF ParentOf
    <3>3. CASE tarfs_fs[i].par_ind # NoParent
      <4>1. PICK p : p = tarfs_fs[i].par_ind
        OBVIOUS
      <4>2. p \in 1..(i - 1) /\ \E c \in 1..2 :
                archive[p].name = SubSeq(archive[i].name, 1, Len(archive[i].name) - c)
        BY <2>2, <3>3, <4>1 DEF ParentOf
      <4>3. Len(archive) \in Nat /\ p \in 1..Len(archive)
        BY <2>1, <4>2, Entries
      <4>4. tarfs_fs[p].name = archive[p].name
        BY <2>2, <4>3
      <4> QED BY <2>2, <3>1, <3>3, <4>1, <4>2, <4>4
    <3> QED BY <3>2, <3>3
  <2>4. ASSUME NEW l \in Lines, NEW w \in 1..Rows, l[w] # <<>>,
               \A i \in 1..Len(archive) : archive[i].name # l[w]
        PROVE  getElfHeader(archive, l[w]) = 0
    BY <2>1, <2>4, ElfMissing
  <2> QED BY <2>3, <2>4 DEF TableCorrect
<1> QED BY <1>1, FilesInvariant, PTL
-----------------------------------------------------------------------------
(***************************************************************************)
(* The command line, for any words: the text that is typed, and the words  *)
(* performCommand's first loop finds in it.                                *)
(***************************************************************************)

\* What can be typed, and words cut out of it.
Text == Seq(STRING \cup {Space})
Words == Seq(Text)

\* r is s followed by t
Concat(s, t, r) ==
    /\ r \in Text /\ Len(r) = Len(s) + Len(t)
    /\ \A i \in 1..Len(s) : r[i] = s[i]
    /\ \A i \in 1..Len(t) : r[Len(s) + i] = t[i]

LEMMA Concatenated ==
    ASSUME NEW s \in Text, NEW t \in Text, NEW r, r = s \o t
    PROVE  Concat(s, t, r)
BY DEF Concat, Text

\* A space and a word are added to a text.
LEMMA Joined ==
    ASSUME NEW u \in Text, NEW w \in Text, NEW v, v = u \o <<Space>> \o w
    PROVE  /\ v \in Text /\ Len(v) = Len(u) + 1 + Len(w)
           /\ \A p \in 1..Len(u) : v[p] = u[p]
           /\ v[Len(u) + 1] = Space
           /\ \A q \in 1..Len(w) : v[Len(u) + 1 + q] = w[q]
<1>0. Len(u) \in Nat /\ Len(w) \in Nat
  BY DEF Text
<1>1. PICK b \in Text : b = <<Space>> /\ Len(b) = 1 /\ b[1] = Space
  <2>1. <<Space>> \in Text /\ Len(<<Space>>) = 1
    BY DEF Text
  <2>2. <<Space>>[1] = Space
    OBVIOUS
  <2> QED BY <2>1, <2>2, Zenon
<1>2. PICK m : m = u \o b
  OBVIOUS
<1>3. Concat(u, b, m)
  BY <1>2, Concatenated
<1>a. /\ m \in Text /\ Len(m) = Len(u) + Len(b)
      /\ \A p \in 1..Len(u) : m[p] = u[p]
      /\ \A p \in 1..Len(b) : m[Len(u) + p] = b[p]
  BY <1>3 DEF Concat
<1>4. Concat(m, w, v)
  <2>1. v = m \o w
    BY <1>1, <1>2, Zenon
  <2> QED BY <1>a, <2>1, Concatenated
<1>b. /\ v \in Text /\ Len(v) = Len(m) + Len(w)
      /\ \A p \in 1..Len(m) : v[p] = m[p]
      /\ \A q \in 1..Len(w) : v[Len(m) + q] = w[q]
  BY <1>4 DEF Concat
<1>5. Len(m) = Len(u) + 1 /\ m[Len(u) + 1] = Space
  BY <1>0, <1>1, <1>a
<1>6. Len(u) + 1 \in 1..Len(m) /\ \A p \in 1..Len(u) : p \in 1..Len(m)
  BY <1>0, <1>5
<1>7. Len(v) = Len(u) + 1 + Len(w)
  BY <1>0, <1>b, <1>5
<1>8. v[Len(u) + 1] = Space /\ \A p \in 1..Len(u) : v[p] = u[p]
  BY <1>a, <1>b, <1>5, <1>6, Zenon
<1>9. \A q \in 1..Len(w) : v[Len(u) + 1 + q] = w[q]
  BY <1>b, <1>5, Zenon
<1> QED BY <1>b, <1>7, <1>8, <1>9

\* The text is typed word by word.
WordByWord(l, n, J) ==
    /\ J \in [1..n -> Text]
    /\ J[1] = l[1] /\ Typed(l) = J[n]
    /\ \A k \in 2..n : J[k] = J[k - 1] \o <<Space>> \o l[k]

LEMMA TypedSteps ==
    ASSUME NEW l \in Words, NEW n, n = Len(l), n >= 1
    PROVE  \E J : WordByWord(l, n, J)
<1> DEFINE Is(J) == J = [i \in 1..n |-> IF i = 1 THEN l[1] ELSE J[i - 1] \o <<Space>> \o l[i]]
           word(i) == IF i \in 1..n THEN l[i] ELSE <<>>
           val(k, v) == IF k = 1 THEN word(1) ELSE v \o <<Space>> \o word(k)
           step == [p \in Nat \X Text |-> val(p[1], p[2])]
<1>0. n \in Nat /\ (\A i \in 1..n : l[i] \in Text) /\ <<>> \in Text
  BY DEF Words, Text
<1>1. \A i : word(i) \in Text
  BY <1>0
<1>2. \A k \in 1..n : word(k) = l[k]
  OBVIOUS
<1> HIDE DEF word
<1>3. \A k \in Nat, v \in Text : val(k, v) \in Text
  <2> SUFFICES ASSUME NEW k \in Nat, NEW v \in Text PROVE val(k, v) \in Text
    OBVIOUS
  <2>1. PICK w \in Text, x \in Text : w = word(k) /\ x = word(1)
    BY <1>1
  <2>2. v \o <<Space>> \o w \in Text
    BY Joined
  <2> QED BY <2>1, <2>2
<1>4. \E J : Is(J)
  <2>1. step \in [Nat \X Text -> Text] /\ \A k \in Nat, v \in Text : step[<<k, v>>] = val(k, v)
    <3> HIDE DEF val, Text
    <3> QED BY <1>3
  <2> HIDE DEF step
  <2>2. DefinedTo(Text, <<>>, n, step)
    BY <1>0, <2>1, Steps
  <2>3. PICK f \in [0..n -> Text] : \A k \in 1..n : f[k] = step[<<k, f[k - 1]>>]
    BY <2>2 DEF DefinedTo
  <2> DEFINE J == [i \in 1..n |-> f[i]]
  <2>4. ASSUME NEW i \in 1..n PROVE J[i] = IF i = 1 THEN l[1] ELSE J[i - 1] \o <<Space>> \o l[i]
    <3>1. i \in Nat /\ i - 1 \in 0..n /\ 1 \in 1..n
      BY <1>0
    <3>2. f[i] = val(i, f[i - 1])
      <4> HIDE DEF val, Text
      <4> QED BY <2>1, <2>3, <3>1
    <3>3. word(i) = l[i] /\ word(1) = l[1]
      BY <1>2, <3>1
    <3>4. i # 1 => J[i - 1] = f[i - 1]
      BY <1>0
    <3> HIDE DEF Text
    <3>5. J[i] = f[i]
      OBVIOUS
    <3> HIDE DEF J
    <3> QED BY <3>2, <3>3, <3>4, <3>5
  <2>5. J = [i \in 1..n |-> J[i]]
    OBVIOUS
  <2> HIDE DEF J
  <2>6. Is(J)
    BY <2>4, <2>5
  <2> QED BY <2>6
<1>5. Typed(l) = (CHOOSE J : Is(J))[n]
  BY DEF Typed
<1> DEFINE J == CHOOSE J : Is(J)
<1>6. Is(J) /\ Typed(l) = J[n]
  BY <1>4, <1>5
<1> HIDE DEF J
<1>7. J[1] = l[1] /\ \A k \in 2..n : J[k] = J[k - 1] \o <<Space>> \o l[k]
  <2>1. 1 \in 1..n /\ \A k \in 2..n : k \in 1..n /\ k # 1
    BY <1>0
  <2> QED BY <1>6, <2>1
<1>8. \A k \in 1..n : J[k] \in Text
  <2> DEFINE g == [k \in 0..n |-> IF k = 0 THEN <<>> ELSE J[k]]
  <2>1. ASSUME NEW k \in 1..n, g[k - 1] \in Text PROVE g[k] \in Text
    <3>1. g[k] = J[k]
      OBVIOUS
    <3>2. CASE k = 1
      BY <1>0, <1>7, <3>1, <3>2
    <3>3. CASE k # 1
      <4>1. k \in 2..n /\ k - 1 \in 0..n /\ k - 1 # 0
        BY <1>0, <3>3
      <4>2. g[k - 1] = J[k - 1]
        BY <4>1
      <4>3. J[k - 1] \in Text /\ l[k] \in Text /\ J[k] = J[k - 1] \o <<Space>> \o l[k]
        BY <1>0, <1>7, <2>1, <4>1, <4>2
      <4>4. J[k] \in Text
        <5> HIDE DEF Text
        <5> QED BY <4>3, Joined
      <4> QED BY <3>1, <4>4
    <3> QED BY <3>2, <3>3
  <2>2. g[0] = <<>> /\ \A k \in 1..n : g[k] = J[k]
    BY <1>0
  <2> HIDE DEF g, Text
  <2>3. \A k \in 0..n : g[k] \in Text
    BY <1>0, <2>1, <2>2, Stays
  <2>4. \A k \in 1..n : k \in 0..n
    BY <1>0
  <2> QED BY <2>2, <2>3, <2>4
<1>9. J \in [1..n -> Text]
  <2> HIDE DEF Text
  <2> QED BY <1>6, <1>8
<1> QED BY <1>6, <1>7, <1>9 DEF WordByWord

\* Where the words of l are in the text: the k-th begins at pos[k].
Placed(l, text, pos) ==
    /\ text \in Text
    /\ pos \in [1..(Len(l) + 1) -> Nat]
    /\ pos[1] = 1
    /\ pos[Len(l) + 1] = Len(text) + 2
    /\ \A k \in 1..Len(l) :
        /\ pos[k] > 0
        /\ pos[k + 1] = pos[k] + Len(l[k]) + 1
        /\ pos[k + 1] <= Len(text) + 2
        /\ \A q \in 1..Len(l[k]) : text[pos[k] + q - 1] = l[k][q]
        /\ k < Len(l) => text[pos[k + 1] - 1] = Space /\ pos[k + 1] <= Len(text) + 1

LEMMA WordsPlaced ==
    ASSUME NEW l \in Words, Len(l) >= 1
    PROVE  \E pos : Placed(l, Typed(l), pos)
<1>a. PICK n \in Nat : n = Len(l) /\ n >= 1
  BY DEF Words
<1>b. \A k \in 1..n : l[k] \in Text /\ Len(l[k]) \in Nat
  BY <1>a DEF Words, Text
<1>1. PICK J \in [1..n -> Text] :
              /\ J[1] = l[1] /\ Typed(l) = J[n]
              /\ \A k \in 2..n : J[k] = J[k - 1] \o <<Space>> \o l[k]
  <2>1. \E J : WordByWord(l, n, J)
    BY <1>a, TypedSteps
  <2> QED BY <2>1 DEF WordByWord
<1>c. PICK text : text = Typed(l)
  OBVIOUS
<1>2. /\ text = J[n] /\ text \in Text /\ Len(text) \in Nat
      /\ \A k \in 1..n : J[k] \in Text /\ Len(J[k]) \in Nat
  <2>1. n \in 1..n /\ \A v \in Text : Len(v) \in Nat
    BY <1>a DEF Text
  <2> QED BY <1>1, <1>c, <2>1
<1>3. ASSUME NEW k \in 2..n
      PROVE  /\ k - 1 \in 1..n /\ k \in 1..n
             /\ Len(J[k]) = Len(J[k - 1]) + 1 + Len(l[k])
             /\ \A p \in 1..Len(J[k - 1]) : J[k][p] = J[k - 1][p]
             /\ J[k][Len(J[k - 1]) + 1] = Space
             /\ \A q \in 1..Len(l[k]) : J[k][Len(J[k - 1]) + 1 + q] = l[k][q]
  <2>1. k - 1 \in 1..n /\ k \in 1..n
    BY <1>a
  <2>2. J[k - 1] \in Text /\ l[k] \in Text /\ J[k] = J[k - 1] \o <<Space>> \o l[k]
    BY <1>1, <1>2, <1>b, <2>1
  <2>3. PICK u \in Text, w \in Text, v \in Text : u = J[k - 1] /\ w = l[k] /\ v = J[k]
    BY <1>2, <2>1, <2>2
  <2>4. /\ Len(v) = Len(u) + 1 + Len(w)
        /\ \A p \in 1..Len(u) : v[p] = u[p]
        /\ v[Len(u) + 1] = Space
        /\ \A q \in 1..Len(w) : v[Len(u) + 1 + q] = w[q]
    <3>1. v = u \o <<Space>> \o w
      BY <2>2, <2>3, Zenon
    <3> QED BY <3>1, Joined
  <2> QED BY <2>1, <2>3, <2>4, Zenon
<1> DEFINE Prefix(k) == /\ Len(J[k]) <= Len(text)
                        /\ \A p \in 1..Len(J[k]) : text[p] = J[k][p]
           T == {d \in Nat : d < n => Prefix(n - d)}
<1>4. \A k \in 1..n : Prefix(k)
  <2>1. 0 \in T
    <3>1. Prefix(n)
      BY <1>2
    <3>2. n - 0 = n
      BY <1>a
    <3> HIDE DEF Prefix
    <3> QED BY <3>1, <3>2
  <2>2. ASSUME NEW d \in T PROVE d + 1 \in T
    <3> SUFFICES ASSUME d + 1 < n PROVE Prefix(n - (d + 1))
      OBVIOUS
    <3>1. PICK k \in 2..n : k = n - d /\ k - 1 = n - (d + 1) /\ d < n
      BY <1>a
    <3>2. Prefix(k)
      <4> HIDE DEF Prefix
      <4> QED BY <2>2, <3>1
    <3>3. k - 1 \in 1..n /\ k \in 1..n
      BY <1>3
    <3>4. PICK u \in Text, v \in Text, w \in Text : u = J[k - 1] /\ v = J[k] /\ w = l[k]
      BY <1>2, <1>b, <3>3
    <3>5. Len(w) \in Nat /\ Len(u) \in Nat /\ Len(v) \in Nat /\ Len(v) = Len(u) + 1 + Len(w)
      BY <1>2, <1>3, <1>b, <3>3, <3>4, Zenon
    <3>6. \A p \in 1..Len(u) : v[p] = u[p]
      BY <1>3, <3>4
    <3>7. Len(v) <= Len(text) /\ \A p \in 1..Len(v) : text[p] = v[p]
      BY <3>2, <3>4
    <3>8. \A p \in 1..Len(u) : p \in 1..Len(v)
      BY <3>5
    <3>9. Len(u) <= Len(text)
      <4>1. Len(text) \in Nat /\ Len(v) <= Len(text)
        BY <1>2, <3>7
      <4> QED BY <3>5, <4>1
    <3>10. \A p \in 1..Len(u) : text[p] = u[p]
      BY <3>6, <3>7, <3>8, Zenon
    <3>11. Prefix(k - 1)
      BY <3>4, <3>9, <3>10, Zenon
    <3> HIDE DEF Prefix
    <3> QED BY <3>1, <3>11
  <2>3. T \in SUBSET Nat
    OBVIOUS
  <2>4. \A d \in Nat : d \in T
    <3> HIDE DEF T
    <3> QED BY <2>1, <2>2, <2>3, Induction
  <2> SUFFICES ASSUME NEW k \in 1..n PROVE Prefix(k)
    OBVIOUS
  <2>5. n - k \in Nat /\ n - k < n /\ n - (n - k) = k
    BY <1>a
  <2> HIDE DEF Prefix
  <2>6. n - k \in T
    BY <2>4, <2>5
  <2>7. Prefix(n - (n - k))
    BY <2>5, <2>6
  <2> QED BY <2>5, <2>7
<1> DEFINE pos == [k \in 1..(n + 1) |-> IF k = 1 THEN 1 ELSE Len(J[k - 1]) + 2]
<1>5. pos[1] = 1 /\ \A k \in 1..n : k + 1 \in 1..(n + 1) /\ pos[k + 1] = Len(J[k]) + 2
  <2>1. ASSUME NEW k \in 1..n PROVE k + 1 \in 1..(n + 1) /\ k + 1 # 1 /\ (k + 1) - 1 = k
    BY <1>a
  <2>2. 1 \in 1..(n + 1)
    BY <1>a
  <2> QED BY <2>1, <2>2
<1>6. pos \in [1..(n + 1) -> Nat]
  <2>1. ASSUME NEW k \in 1..(n + 1), k # 1 PROVE k - 1 \in 1..n
    BY <1>a, <2>1
  <2> QED BY <1>2, <2>1
<1> HIDE DEF pos
<1>7. ASSUME NEW k \in 1..n
      PROVE  /\ pos[k] \in Nat /\ pos[k] > 0
             /\ pos[k + 1] = pos[k] + Len(l[k]) + 1
             /\ pos[k + 1] <= Len(text) + 2
             /\ \A q \in 1..Len(l[k]) : text[pos[k] + q - 1] = l[k][q]
             /\ k < n => text[pos[k + 1] - 1] = Space /\ pos[k + 1] <= Len(text) + 1
  <2>1. PICK v \in Text, w \in Text : v = J[k] /\ w = l[k]
    BY <1>2, <1>b
  <2>2. Len(v) \in Nat /\ Len(w) \in Nat /\ pos[k + 1] = Len(v) + 2
    BY <1>2, <1>5, <1>b, <2>1
  <2>3. Len(v) <= Len(text) /\ \A p \in 1..Len(v) : text[p] = v[p]
    BY <1>4, <2>1
  <2>4. /\ pos[k] \in Nat /\ pos[k] > 0 /\ Len(v) = pos[k] + Len(w) - 1
        /\ \A q \in 1..Len(w) : v[pos[k] + q - 1] = w[q]
    <3>1. CASE k = 1
      <4>1. v = w /\ pos[k] = 1
        BY <1>1, <1>5, <2>1, <3>1
      <4> QED BY <2>2, <4>1
    <3>2. CASE k # 1
      <4>1. k \in 2..n
        BY <3>2
      <4>2. PICK u \in Text : u = J[k - 1] /\ Len(u) \in Nat /\ k - 1 \in 1..n
        BY <1>2, <1>3, <4>1
      <4>3. Len(v) = Len(u) + 1 + Len(w) /\ \A q \in 1..Len(w) : v[Len(u) + 1 + q] = w[q]
        BY <1>3, <2>1, <4>1, <4>2
      <4>4. pos[k] = Len(u) + 2
        <5>1. (k - 1) + 1 = k
          OBVIOUS
        <5>2. pos[(k - 1) + 1] = Len(u) + 2
          BY <1>5, <4>2
        <5> QED BY <5>1, <5>2
      <4>5. \A q \in 1..Len(w) : pos[k] + q - 1 = Len(u) + 1 + q
        BY <2>2, <4>2, <4>4
      <4>6. \A q \in 1..Len(w) : v[pos[k] + q - 1] = w[q]
        BY <4>3, <4>5, Zenon
      <4>7. PICK z \in Nat, m \in Nat : z = Len(u) /\ m = Len(w)
        BY <2>2, <4>2
      <4>8. z + 2 \in Nat /\ z + 2 > 0 /\ z + 1 + m = z + 2 + m - 1
        BY <4>7
      <4> QED BY <4>3, <4>4, <4>6, <4>7, <4>8, Zenon
    <3> QED BY <3>1, <3>2
  <2>5. pos[k + 1] = pos[k] + Len(w) + 1 /\ pos[k + 1] <= Len(text) + 2
    <3>1. PICK z \in Nat, m \in Nat, h \in Nat, x \in Nat :
                z = Len(v) /\ m = Len(w) /\ h = Len(text) /\ x = pos[k]
      BY <1>2, <2>2, <2>4
    <3>2. z <= h /\ z = x + m - 1 /\ pos[k + 1] = z + 2
      BY <2>2, <2>3, <2>4, <3>1, Zenon
    <3>3. z + 2 = x + m + 1 /\ z + 2 <= h + 2
      BY <3>2
    <3> QED BY <3>1, <3>2, <3>3, Zenon
  <2>6. \A q \in 1..Len(w) : text[pos[k] + q - 1] = w[q]
    <3>1. \A q \in 1..Len(w) : pos[k] + q - 1 \in 1..Len(v)
      <4>1. PICK z \in Nat, m \in Nat, x \in Nat : z = Len(v) /\ m = Len(w) /\ x = pos[k]
        BY <2>2, <2>4
      <4>2. x > 0 /\ z = x + m - 1
        BY <2>4, <4>1, Zenon
      <4>3. \A q \in 1..m : x + q - 1 \in 1..z
        BY <4>2
      <4> QED BY <4>1, <4>3, Zenon
    <3> QED BY <2>3, <2>4, <3>1, Zenon
  <2>7. ASSUME k < n PROVE text[pos[k + 1] - 1] = Space /\ pos[k + 1] <= Len(text) + 1
    <3>1. PICK m \in 2..n : m = k + 1 /\ m - 1 = k /\ m \in 1..n
      BY <1>a, <2>7
    <3>2. PICK x \in Text, y \in Text : x = J[m] /\ y = l[m]
      BY <1>2, <1>b, <3>1
    <3>a. Len(x) \in Nat /\ Len(y) \in Nat
      BY <1>2, <1>b, <3>1, <3>2
    <3>3. Len(x) = Len(v) + 1 + Len(y) /\ x[Len(v) + 1] = Space
      BY <1>3, <2>1, <3>1, <3>2
    <3>4. Len(x) <= Len(text) /\ \A p \in 1..Len(x) : text[p] = x[p]
      BY <1>4, <3>1, <3>2
    <3>5. Len(v) + 1 \in 1..Len(x)
      BY <2>2, <3>a, <3>3
    <3>6. text[Len(v) + 1] = Space
      BY <3>3, <3>4, <3>5, Zenon
    <3>7. pos[k + 1] - 1 = Len(v) + 1 /\ pos[k + 1] <= Len(text) + 1
      <4>1. Len(text) \in Nat /\ Len(x) <= Len(text)
        BY <1>2, <3>4
      <4> QED BY <2>2, <3>a, <3>3, <4>1
    <3> QED BY <3>6, <3>7
  <2> QED BY <2>1, <2>4, <2>5, <2>6, <2>7, Zenon
<1>8. pos[n + 1] = Len(text) + 2
  BY <1>2, <1>5, <1>a
<1>9. Placed(l, text, pos)
  BY <1>2, <1>5, <1>6, <1>7, <1>8, <1>a DEF Placed
<1> QED BY <1>9, <1>c

\* the end of the word that begins at i
End(text, i) == Smallest({j \in i..Len(text) : text[j] = Space} \cup {Len(text) + 1})

LEMMA EndBounds ==
    ASSUME NEW text \in Text, NEW i \in 1..Len(text)
    PROVE  End(text, i) \in i..(Len(text) + 1)
<1> DEFINE B == {j \in i..Len(text) : text[j] = Space} \cup {Len(text) + 1}
<1>0. Len(text) \in Nat
  BY DEF Text
<1>1. B \in SUBSET Nat /\ B # {} /\ \A j \in B : j \in i..(Len(text) + 1)
  BY <1>0
<1>2. End(text, i) = Smallest(B)
  BY DEF End
<1> HIDE DEF B
<1> QED BY <1>1, <1>2, Least

LEMMA EndFound ==
    ASSUME NEW text \in Text, NEW i \in 1..Len(text), NEW e \in i..(Len(text) + 1),
           \A j \in i..(e - 1) : text[j] # Space, e <= Len(text) => text[e] = Space
    PROVE  End(text, i) = e
<1> DEFINE B == {j \in i..Len(text) : text[j] = Space} \cup {Len(text) + 1}
<1>0. Len(text) \in Nat
  BY DEF Text
<1>1. B \in SUBSET Nat /\ e \in B
  BY <1>0
<1>2. \A j \in B : j >= e
  <2> SUFFICES ASSUME NEW j \in B, j < e PROVE FALSE
    BY <1>0, <1>1
  <2>1. j \in i..(e - 1) /\ text[j] = Space
    BY <1>0
  <2> QED BY <2>1
<1>3. End(text, i) = Smallest(B)
  BY DEF End
<1> HIDE DEF B
<1>4. Smallest(B) \in B /\ Smallest(B) <= e
  BY <1>1, Least
<1>5. Smallest(B) \in Nat /\ e \in Nat /\ Smallest(B) >= e
  BY <1>1, <1>2, <1>4
<1> QED BY <1>3, <1>4, <1>5

\* f[i] is what the first loop of performCommand finds from character i on.
Splits(text, f) ==
    /\ commands(text) = f[1]
    /\ \A i \in 1..(Len(text) + 2) :
          f[i] = IF i > Len(text) THEN <<>>
                 ELSE <<SubSeq(text, i, End(text, i) - 1)>> \o f[End(text, i) + 1]

LEMMA SplitSteps == ASSUME NEW text \in Text PROVE \E f : Splits(text, f)
<1>0. PICK L \in Nat : L = Len(text)
  BY DEF Text
<1> DEFINE end(i) == End(text, i)
           word(i) == SubSeq(text, i, end(i) - 1)
           Is(f) == f = [i \in 1..(L + 2) |-> IF i > L THEN <<>> ELSE <<word(i)>> \o f[end(i) + 1]]
           V == {word(i) : i \in Nat}
           S == Seq(V)
           next == [x \in Nat |-> IF x \in 1..L THEN end(x) + 1 ELSE x + 1]
           val(x, v) == IF x \in 1..L THEN <<word(x)>> \o v ELSE <<>>
           step == [p \in Nat \X S |-> val(p[1], p[2])]
<1>1. \A i \in 1..L : end(i) \in Nat /\ end(i) >= i /\ end(i) <= L + 1
  <2> SUFFICES ASSUME NEW i \in 1..L PROVE end(i) \in i..(L + 1)
    BY <1>0
  <2> QED BY <1>0, EndBounds
<1>2. \A i \in 1..L : end(i) + 1 \in 1..(L + 2)
  <2> HIDE DEF end
  <2> QED BY <1>0, <1>1
<1>3. commands(text) = (CHOOSE f : Is(f))[1]
  BY <1>0 DEF commands, End
<1> HIDE DEF end
<1>4. Ascends(next) /\ \A x \in 1..L : next[x] = end(x) + 1
  <2>1. \A x \in 1..L : end(x) + 1 \in Nat /\ end(x) + 1 > x
    BY <1>1
  <2>2. \A x \in Nat : x + 1 \in Nat /\ x + 1 > x
    OBVIOUS
  <2>3. \A x \in Nat : next[x] \in Nat /\ next[x] > x
    BY <2>1, <2>2
  <2>4. next \in [Nat -> Nat]
    BY <2>3
  <2>5. \A x \in 1..L : next[x] = end(x) + 1
    BY <1>0
  <2> QED BY <2>3, <2>4, <2>5 DEF Ascends
<1>5. step \in [Nat \X S -> S] /\ \A x \in Nat, v \in S : step[<<x, v>>] = val(x, v)
  <2>1. \A x \in Nat : word(x) \in V
    OBVIOUS
  <2> HIDE DEF V, word
  <2>2. \A x \in Nat, v \in S : val(x, v) \in S
    BY <2>1
  <2> HIDE DEF S, val
  <2> QED BY <2>2
<1> HIDE DEF next, step, V, word
<1>6. <<>> \in S
  OBVIOUS
<1> HIDE DEF S
<1>7. WalksTo(S, <<>>, L + 1, next, step)
  <2>1. L + 1 \in Nat
    OBVIOUS
  <2> QED BY <1>4, <1>5, <1>6, <2>1, Upwards
<1>8. PICK f \in [Nat -> S] : /\ \A x \in Nat : x >= L + 1 => f[x] = <<>>
                              /\ \A x \in Nat : x < L + 1 => f[x] = step[<<x, f[next[x]]>>]
  BY <1>7 DEF WalksTo
<1> DEFINE g == [i \in 1..(L + 2) |-> f[i]]
<1>9. ASSUME NEW i \in 1..(L + 2)
      PROVE  g[i] = IF i > L THEN <<>> ELSE <<word(i)>> \o g[end(i) + 1]
  <2>1. CASE i > L
    BY <1>8, <2>1
  <2>2. CASE i <= L
    <3>1. i \in 1..L /\ i \in Nat /\ i < L + 1
      BY <2>2
    <3>2. next[i] = end(i) + 1 /\ end(i) + 1 \in 1..(L + 2) /\ end(i) + 1 \in Nat
      BY <1>1, <1>2, <1>4, <3>1
    <3>3. f[end(i) + 1] \in S /\ g[end(i) + 1] = f[end(i) + 1]
      BY <1>8, <3>2
    <3>4. f[i] = val(i, f[end(i) + 1])
      <4>1. f[i] = step[<<i, f[next[i]]>>]
        BY <1>8, <3>1
      <4>2. step[<<i, f[end(i) + 1]>>] = val(i, f[end(i) + 1])
        <5> HIDE DEF val
        <5> QED BY <1>5, <3>1, <3>3, Zenon
      <4> HIDE DEF val
      <4> QED BY <3>2, <4>1, <4>2, Zenon
    <3>5. val(i, f[end(i) + 1]) = <<word(i)>> \o f[end(i) + 1]
      BY <3>1
    <3>6. g[i] = f[i] /\ ~(i > L)
      BY <3>1
    <3> HIDE DEF g, val
    <3> QED BY <3>3, <3>4, <3>5, <3>6, Zenon
  <2> QED BY <2>1, <2>2
<1>10. g = [i \in 1..(L + 2) |-> g[i]]
  OBVIOUS
<1> HIDE DEF g
<1>11. Is(g)
  BY <1>9, <1>10
<1> DEFINE h == CHOOSE f2 : Is(f2)
<1>12. Is(h) /\ commands(text) = h[1]
  BY <1>3, <1>11
<1> HIDE DEF h
<1>13. \A i \in 1..(L + 2) : h[i] = IF i > L THEN <<>> ELSE <<word(i)>> \o h[end(i) + 1]
  BY <1>12
<1>14. Splits(text, h)
  BY <1>0, <1>12, <1>13 DEF Splits, word, end
<1> QED BY <1>14

\* The words of a line: no space is in one.
Typeable == Seq(Seq(STRING \ {Space}))

LEMMA TypeableWords ==
    ASSUME NEW l \in Typeable
    PROVE  /\ l \in Words /\ Len(l) \in Nat
           /\ \A k \in 1..Len(l) : /\ l[k] \in Text /\ l[k] \in Seq(STRING)
                                   /\ \A q \in 1..Len(l[k]) : l[k][q] # Space
<1>1. Len(l) \in Nat /\ \A k \in 1..Len(l) : l[k] \in Seq(STRING \ {Space})
  BY DEF Typeable
<1>2. ASSUME NEW w \in Seq(STRING \ {Space})
      PROVE  w \in Text /\ w \in Seq(STRING) /\ \A q \in 1..Len(w) : w[q] # Space
  BY DEF Text
<1>3. \A k \in 1..Len(l) : l[k] \in Text
  BY <1>1, <1>2
<1>4. l \in Words
  <2>1. l = [k \in 1..Len(l) |-> l[k]]
    BY DEF Typeable
  <2> QED BY <1>1, <1>3, <2>1 DEF Words
<1> QED BY <1>1, <1>2, <1>4, Zenon

\* s is the part of t that begins at i and has m elements.
PartOf(S, t, i, m, s) ==
    s \in Seq(S) /\ Len(s) = m /\ \A q \in 1..m : s[q] = t[i + q - 1]

LEMMA Parts ==
    ASSUME NEW S, NEW t \in Seq(S), NEW i \in Nat, NEW m \in Nat, i > 0, i + m - 1 <= Len(t)
    PROVE  PartOf(S, t, i, m, SubSeq(t, i, i + m - 1))
<1>1. PICK b \in Int : b = i + m - 1
  OBVIOUS
<1>2. PICK s : s = SubSeq(t, i, b)
  OBVIOUS
<1>3. s = [q \in 1..(b - i + 1) |-> t[i + q - 1]]
  BY <1>2
<1>4. b - i + 1 = m /\ b <= Len(t) /\ Len(t) \in Nat
  BY <1>1
<1>5. s = [q \in 1..m |-> t[i + q - 1]]
  BY <1>3, <1>4
<1>6. ASSUME NEW q \in 1..m PROVE t[i + q - 1] \in S
  <2>1. i + q - 1 \in 1..Len(t)
    BY <1>1, <1>4
  <2> QED BY <2>1
<1>7. s \in Seq(S) /\ Len(s) = m
  BY <1>5, <1>6
<1> QED BY <1>1, <1>2, <1>5, <1>7 DEF PartOf

LEMMA FirstAndRest ==
    ASSUME NEW l \in Words, NEW n \in Nat, n = Len(l), NEW k \in 1..n
    PROVE  <<l[k]>> \o SubSeq(l, k + 1, n) = SubSeq(l, k, n)
<1>a. n = Len(l)
  OBVIOUS
<1>b. l \in Words /\ \A j \in 1..n : l[j] \in Text
  BY DEF Words
<1>1. PICK t, u : t = SubSeq(l, k + 1, n) /\ u = SubSeq(l, k, n)
  OBVIOUS
<1>2. /\ t \in Words /\ Len(t) = n - k /\ \A q \in 1..(n - k) : t[q] = l[k + q]
  <2>1. PICK i \in Nat, m \in Nat : i = k + 1 /\ m = n - k /\ i > 0 /\ i + m - 1 = n
    <3>1. k + 1 \in Nat /\ n - k \in Nat /\ k + 1 > 0 /\ (k + 1) + (n - k) - 1 = n
      OBVIOUS
    <3> QED BY <3>1, Zenon
  <2>2. PartOf(Text, l, i, m, SubSeq(l, i, i + m - 1))
    BY <1>a, <1>b, <2>1, Parts DEF Words
  <2>3. PartOf(Text, l, i, m, t)
    BY <1>1, <2>1, <2>2, Zenon
  <2>4. \A q \in 1..m : i + q - 1 = k + q
    BY <2>1
  <2>5. t \in Words /\ Len(t) = m /\ \A q \in 1..m : t[q] = l[i + q - 1]
    BY <2>3 DEF PartOf, Words
  <2> QED BY <2>1, <2>4, <2>5, Zenon
<1>3. /\ u \in Words /\ Len(u) = n - k + 1 /\ \A q \in 1..(n - k + 1) : u[q] = l[k + q - 1]
  <2>1. PICK m \in Nat : m = n - k + 1 /\ k > 0 /\ k + m - 1 = n /\ k \in Nat
    <3>1. n - k + 1 \in Nat /\ k > 0 /\ k + (n - k + 1) - 1 = n /\ k \in Nat
      OBVIOUS
    <3> QED BY <3>1, Zenon
  <2>2. PartOf(Text, l, k, m, SubSeq(l, k, k + m - 1))
    BY <1>a, <1>b, <2>1, Parts DEF Words
  <2>3. PartOf(Text, l, k, m, u)
    BY <1>1, <2>1, <2>2, Zenon
  <2>4. u \in Words /\ Len(u) = m /\ \A q \in 1..m : u[q] = l[k + q - 1]
    BY <2>3 DEF PartOf, Words
  <2> QED BY <2>1, <2>4, Zenon
<1>4. PICK w \in Text : w = l[k]
  BY <1>b
<1>5. PICK s : s = <<w>> \o t
  OBVIOUS
<1>6. /\ s \in Words /\ Len(s) = n - k + 1 /\ s[1] = w
      /\ \A q \in 2..(n - k + 1) : s[q] = t[q - 1]
  BY <1>a, <1>2, <1>5 DEF Words
<1>7. \A q \in 1..(n - k + 1) : s[q] = u[q]
  <2> SUFFICES ASSUME NEW q \in 1..(n - k + 1) PROVE s[q] = u[q]
    OBVIOUS
  <2>1. CASE q = 1
    <3>1. u[1] = l[k + 1 - 1] /\ k + 1 - 1 = k
      BY <1>a, <1>3, <2>1
    <3> QED BY <1>4, <1>6, <2>1, <3>1
  <2>2. CASE q # 1
    <3>1. q \in 2..(n - k + 1) /\ q - 1 \in 1..(n - k) /\ k + (q - 1) = k + q - 1
      BY <1>a, <2>2
    <3> QED BY <1>2, <1>3, <1>6, <3>1
  <2> QED BY <2>1, <2>2
<1>8. n - k + 1 \in Nat
  OBVIOUS
<1>9. s = u
  BY <1>3, <1>6, <1>7, <1>8, SameSequence DEF Words
<1> QED BY <1>1, <1>4, <1>5, <1>9, Zenon

\* The word w of text begins at i, and e is the place behind it.
WordAt(text, w, i, e) ==
    /\ i \in 1..Len(text) /\ e \in Nat /\ e = i + Len(w) /\ e <= Len(text) + 1
    /\ e <= Len(text) => text[e] = Space
    /\ \A q \in 1..Len(w) : w[q] # Space /\ text[i + q - 1] = w[q]

\* The loop comes to a word and leaves behind the space that ends it.
LEMMA WordSplit ==
    ASSUME NEW text \in Text, NEW f, Splits(text, f), NEW w \in Text,
           NEW i \in Nat, NEW e \in Nat, WordAt(text, w, i, e)
    PROVE  f[i] = <<w>> \o f[e + 1]
<1>0. PICK L \in Nat, m \in Nat : L = Len(text) /\ m = Len(w)
  BY DEF Text
<1>a. /\ i \in 1..L /\ e = i + m /\ e <= L + 1 /\ (e <= L => text[e] = Space)
      /\ \A q \in 1..m : w[q] # Space /\ text[i + q - 1] = w[q]
  BY <1>0 DEF WordAt
<1>1. e \in i..(L + 1)
  BY <1>a
<1>2. \A j \in i..(e - 1) : text[j] # Space
  <2> SUFFICES ASSUME NEW j \in i..(e - 1) PROVE text[j] # Space
    OBVIOUS
  <2>1. PICK q \in 1..m : j = i + q - 1
    <3>1. j - i + 1 \in 1..m /\ j = i + (j - i + 1) - 1
      BY <1>1, <1>a
    <3> QED BY <3>1
  <2>2. text[i + q - 1] = w[q] /\ w[q] # Space
    BY <1>a
  <2> QED BY <2>1, <2>2
<1>3. End(text, i) = e
  BY <1>0, <1>1, <1>2, <1>a, EndFound
<1>4. SubSeq(text, i, e - 1) = w
  <2>1. PICK s : s = SubSeq(text, i, e - 1)
    OBVIOUS
  <2>2. s \in Text /\ Len(s) = m /\ \A q \in 1..m : s[q] = text[i + q - 1]
    <3>1. i > 0 /\ i + m - 1 = e - 1 /\ i + m - 1 <= Len(text)
      BY <1>0, <1>a
    <3>2. PartOf(STRING \cup {Space}, text, i, m, SubSeq(text, i, i + m - 1))
      BY <3>1, Parts DEF Text
    <3>3. PartOf(STRING \cup {Space}, text, i, m, s)
      BY <2>1, <3>1, <3>2, Zenon
    <3> QED BY <3>3 DEF PartOf, Text
  <2>3. \A q \in 1..m : s[q] = w[q]
    BY <1>a, <2>2
  <2>4. s = w
    BY <1>0, <2>2, <2>3, SameSequence DEF Text
  <2> QED BY <2>1, <2>4
<1>5. i \in 1..(L + 2) /\ ~(i > L)
  BY <1>a
<1>6. f[i] = <<SubSeq(text, i, End(text, i) - 1)>> \o f[End(text, i) + 1]
  BY <1>0, <1>5 DEF Splits
<1> QED BY <1>3, <1>4, <1>6

\* performCommand finds in the text the words that were meant, for every line
\* that does not end with a space.
THEOREM LineSplit ==
    ASSUME NEW l \in Typeable, Len(l) >= 1, l[Len(l)] # <<>>
    PROVE  commands(Typed(l)) = l
<1>1. PICK n \in Nat : n = Len(l) /\ n >= 1
  BY TypeableWords
<1>2. l \in Words /\ \A k \in 1..n : l[k] \in Text /\ \A q \in 1..Len(l[k]) : l[k][q] # Space
  BY <1>1, TypeableWords
<1>3. PICK text : text = Typed(l)
  OBVIOUS
<1>4. PICK pos : Placed(l, text, pos)
  BY <1>2, <1>3, WordsPlaced
<1>5. text \in Text /\ pos \in [1..(n + 1) -> Nat] /\ pos[1] = 1 /\ pos[n + 1] = Len(text) + 2
  BY <1>1, <1>4 DEF Placed
<1>6. PICK f : Splits(text, f)
  BY <1>5, SplitSteps
<1>7. PICK L \in Nat : L = Len(text)
  BY <1>5 DEF Text
<1>8. f[pos[n + 1]] = <<>>
  <2>1. L + 2 \in 1..(L + 2) /\ L + 2 > L
    OBVIOUS
  <2>2. f[L + 2] = <<>>
    BY <1>6, <1>7, <2>1 DEF Splits
  <2> QED BY <1>5, <1>7, <2>2
<1>9. ASSUME NEW k \in 1..n PROVE f[pos[k]] = <<l[k]>> \o f[pos[k + 1]]
  <2>1. PICK w \in Text : w = l[k]
    BY <1>2
  <2>2. PICK m \in Nat : m = Len(w)
    BY DEF Text
  <2>3. PICK i \in Nat : i = pos[k]
    BY <1>1, <1>5
  <2>4. /\ i > 0 /\ pos[k + 1] = i + m + 1 /\ pos[k + 1] <= L + 2
        /\ \A q \in 1..m : text[i + q - 1] = w[q]
        /\ k < n => text[pos[k + 1] - 1] = Space /\ pos[k + 1] <= L + 1
    BY <1>1, <1>4, <1>7, <2>1, <2>2, <2>3 DEF Placed
  <2>5. PICK e \in Nat : e = i + m
    OBVIOUS
  <2>6. pos[k + 1] = e + 1 /\ e <= L + 1
    BY <2>4, <2>5
  <2>7. i <= L
    <3>1. CASE k < n
      BY <2>4, <2>5, <2>6, <3>1
    <3>2. CASE k = n
      <4>1. w # <<>> /\ pos[k + 1] = L + 2
        BY <1>1, <1>5, <1>7, <2>1, <3>2
      <4>2. m > 0
        <5>1. Len(w) # 0
          BY <4>1 DEF Text
        <5> QED BY <2>2, <5>1
      <4> QED BY <2>4, <4>1, <4>2
    <3> QED BY <1>1, <3>1, <3>2
  <2>8. e <= L => text[e] = Space
    <3>1. CASE k < n
      <4>1. (e + 1) - 1 = e
        OBVIOUS
      <4> QED BY <2>4, <2>6, <3>1, <4>1
    <3>2. CASE k = n
      BY <1>5, <1>7, <2>6, <3>2
    <3> QED BY <1>1, <3>1, <3>2
  <2>9. \A q \in 1..Len(w) : w[q] # Space
    BY <1>2, <2>1
  <2>10. f[i] = <<w>> \o f[e + 1]
    <3>1. i \in 1..Len(text) /\ e = i + Len(w) /\ e <= Len(text) + 1
      BY <1>7, <2>2, <2>4, <2>5, <2>6, <2>7
    <3>2. e <= Len(text) => text[e] = Space
      BY <1>7, <2>8
    <3>3. \A q \in 1..Len(w) : text[i + q - 1] = w[q]
      BY <2>2, <2>4
    <3>4. WordAt(text, w, i, e)
      BY <2>9, <3>1, <3>2, <3>3 DEF WordAt
    <3> QED BY <1>5, <1>6, <3>4, WordSplit
  <2> QED BY <2>1, <2>3, <2>6, <2>10, Zenon
<1> DEFINE behind(d) == SubSeq(l, n + 1 - d, n)
           T == {d \in Nat : d <= n => f[pos[n + 1 - d]] = behind(d)}
<1>10. 0 \in T
  <2>1. n + 1 - 0 = n + 1 /\ behind(0) = <<>>
    BY <1>1, <1>2 DEF Words
  <2> HIDE DEF behind
  <2> QED BY <1>8, <2>1
<1>11. ASSUME NEW d \in T PROVE d + 1 \in T
  <2> SUFFICES ASSUME d + 1 <= n PROVE f[pos[n + 1 - (d + 1)]] = behind(d + 1)
    OBVIOUS
  <2>1. PICK k \in 1..n : k = n + 1 - (d + 1) /\ k + 1 = n + 1 - d /\ d <= n
    BY <1>1
  <2>2. f[pos[k + 1]] = behind(d)
    BY <1>11, <2>1
  <2>3. f[pos[k]] = <<l[k]>> \o behind(d)
    <3> HIDE DEF behind
    <3> QED BY <1>9, <2>2
  <2>4. <<l[k]>> \o SubSeq(l, k + 1, n) = SubSeq(l, k, n)
    BY <1>1, <1>2, FirstAndRest
  <2>5. behind(d) = SubSeq(l, k + 1, n) /\ behind(d + 1) = SubSeq(l, k, n)
    BY <2>1, Zenon
  <2> HIDE DEF behind
  <2> QED BY <2>1, <2>3, <2>4, <2>5, Zenon
<1>12. n \in T
  <2>1. T \in SUBSET Nat
    OBVIOUS
  <2> HIDE DEF T
  <2> QED BY <1>10, <1>11, <2>1, Induction
<1>13. f[pos[1]] = l
  <2>1. n + 1 - n = 1 /\ n <= n
    BY <1>1
  <2>2. f[pos[n + 1 - n]] = behind(n)
    BY <1>12, <2>1
  <2>3. behind(n) = l
    BY <1>1, <1>2, <2>1 DEF Words
  <2> HIDE DEF behind
  <2> QED BY <2>1, <2>2, <2>3
<1>14. commands(text) = f[1]
  BY <1>6 DEF Splits
<1> QED BY <1>3, <1>5, <1>13, <1>14
-----------------------------------------------------------------------------
(* The second loop, and the arguments sanexecve and _start make of it.     *)

\* A line of one to Rows words, with one space between two of them.
PlainLine(l) ==
    l \in Typeable /\ Len(l) \in 1..Rows /\ \A i \in 1..Len(l) : l[i] # <<>>

\* The rows when the first k words of a line have been copied.
Filled(l, k) == [r \in 1..Rows |-> IF r <= k THEN Alias(l[r]) ELSE <<>>]
RowsOf(l) == Filled(l, Len(l))

\* The k-th turn of the second loop, which also clears the row behind its own,
\* destroys none of the rows filled before.
LEMMA RowFilled ==
    ASSUME NEW l, NEW k \in 1..Rows, Rows \in Nat
    PROVE  FillRow(Filled(l, k - 1), k, Alias(l[k])) = Filled(l, k)
<1> DEFINE f == Filled(l, k - 1)
           g == FillRow(f, k, Alias(l[k]))
<1>1. f = [r \in 1..Rows |-> f[r]] /\ k \in 1..Rows /\ k \in Nat
  BY DEF Filled
<1>2. g = [r \in 1..Rows |-> IF r = k + 1 THEN <<>> ELSE IF r = k THEN Alias(l[k]) ELSE f[r]]
  <2> HIDE DEF f
  <2>1. DOMAIN g = 1..Rows
    BY <1>1 DEF FillRow
  <2>2. \A r \in 1..Rows :
           g[r] = IF r = k + 1 THEN <<>> ELSE IF r = k THEN Alias(l[k]) ELSE f[r]
    BY <1>1 DEF FillRow
  <2>3. g = [r \in DOMAIN g |-> g[r]]
    BY <1>1 DEF FillRow
  <2> HIDE DEF g
  <2> QED BY <2>1, <2>2, <2>3
<1>3. \A r \in 1..Rows : f[r] = IF r <= k - 1 THEN Alias(l[r]) ELSE <<>>
  BY DEF Filled
<1> HIDE DEF f, g
<1>4. \A r \in 1..Rows : g[r] = IF r <= k THEN Alias(l[r]) ELSE <<>>
  BY <1>1, <1>2, <1>3
<1>5. g = [r \in 1..Rows |-> IF r <= k THEN Alias(l[r]) ELSE <<>>]
  BY <1>2, <1>4
<1> QED BY <1>5 DEF f, g, Filled

\* arglist has the words of the line, in their order, and empty rows behind.
LEMMA ArgRows == ASSUME NEW l, PlainLine(l) PROVE arglist(Typed(l)) = RowsOf(l)
<1>0. PICK n \in Nat : n = Len(l) /\ n \in 1..Rows /\ Rows \in Nat /\ 0 \in 0..n
  BY FilesAssumption, TypeableWords DEF PlainLine
<1> DEFINE Is(f) == f = [i \in 0..n |-> IF i = 0 THEN [r \in 1..Rows |-> <<>>]
                                        ELSE FillRow(f[i - 1], i, Alias(l[i]))]
           filled(k) == Filled(l, k)
           g == [k \in 0..n |-> filled(k)]
<1>1. commands(Typed(l)) = l
  BY <1>0, LineSplit DEF PlainLine
<1>2. arglist(Typed(l)) = (CHOOSE f : Is(f))[n]
  BY <1>0, <1>1 DEF arglist
<1>3. filled(0) = [r \in 1..Rows |-> <<>>]
  BY <1>0 DEF Filled
<1>4. ASSUME NEW k \in 1..n PROVE FillRow(filled(k - 1), k, Alias(l[k])) = filled(k)
  BY <1>0, RowFilled
<1> HIDE DEF filled
<1>5. Is(g)
  <2>1. \A i \in 0..n : i # 0 => i \in 1..n /\ i - 1 \in 0..n
    BY <1>0
  <2>2. \A i \in 0..n : i # 0 => g[i] = FillRow(g[i - 1], i, Alias(l[i]))
    BY <1>4, <2>1
  <2>3. g[0] = [r \in 1..Rows |-> <<>>]
    BY <1>0, <1>3
  <2> QED BY <2>2, <2>3
<1> DEFINE h == CHOOSE f : Is(f)
<1>6. Is(h)
  BY <1>5
<1> HIDE DEF h, g
<1> DEFINE T == {k \in Nat : k <= n => h[k] = filled(k)}
<1>7. 0 \in T
  BY <1>0, <1>3, <1>6
<1>8. ASSUME NEW k \in T PROVE k + 1 \in T
  <2> SUFFICES ASSUME k + 1 <= n PROVE h[k + 1] = filled(k + 1)
    OBVIOUS
  <2>1. PICK j \in 1..n : j = k + 1 /\ j - 1 = k /\ k <= n /\ j \in 0..n /\ j # 0
    BY <1>0
  <2>2. h[j] = FillRow(h[j - 1], j, Alias(l[j]))
    BY <1>6, <2>1
  <2>3. h[j - 1] = filled(j - 1)
    BY <1>8, <2>1
  <2> QED BY <1>4, <2>1, <2>2, <2>3
<1>9. n \in T
  <2>1. T \in SUBSET Nat
    OBVIOUS
  <2> HIDE DEF T
  <2> QED BY <1>7, <1>8, <2>1, Induction
<1>10. h[n] = filled(n)
  BY <1>9
<1> QED BY <1>0, <1>2, <1>10 DEF h, filled, RowsOf

\* No word is made empty.
LEMMA Aliased ==
    ASSUME NEW w \in Seq(STRING), w # <<>> PROVE Alias(w) \in Seq(STRING) /\ Alias(w) # <<>>
<1>1. CASE \E u \in {"ls", "cat", "echo", "ps", "kill"} : w = <<"/", "bin", "/", u>>
  <2>1. Alias(w) = <<w[4]>> /\ w[4] \in STRING
    BY <1>1 DEF Alias
  <2> QED BY <2>1
<1>2. CASE ~\E u \in {"ls", "cat", "echo", "ps", "kill"} : w = <<"/", "bin", "/", u>>
  BY <1>2 DEF Alias
<1> QED BY <1>1, <1>2

\* sanexecve counts as many arguments as there are words, whatever the first
\* row holds as long as it is not empty.
LEMMA Counted ==
    ASSUME NEW l, PlainLine(l), NEW rows,
           \A r \in 1..Rows : rows[r] = <<>> <=> r > Len(l)
    PROVE  argc(rows) = Len(l)
<1>0. PICK n \in Nat : n = Len(l) /\ n \in 1..Rows /\ Rows \in Nat
  BY FilesAssumption, TypeableWords DEF PlainLine
<1> DEFINE B == {i \in 1..Rows : rows[i] = <<>>} \cup {Rows + 1}
<1>1. B \in SUBSET Nat /\ n + 1 \in B /\ \A i \in B : i >= n + 1
  BY <1>0
<1>2. argc(rows) = Smallest(B) - 1
  BY DEF argc
<1> HIDE DEF B
<1>3. Smallest(B) \in B /\ Smallest(B) <= n + 1
  BY <1>1, Least
<1>4. Smallest(B) \in Nat /\ Smallest(B) >= n + 1
  BY <1>1, <1>3
<1>5. Smallest(B) = n + 1
  BY <1>0, <1>3, <1>4
<1> QED BY <1>0, <1>2, <1>5

\* What the program finds in its arguments.
LEMMA Given ==
    ASSUME NEW l, PlainLine(l), Len(l) < ArgLimit
    PROVE  /\ arglist(Typed(l))[1] = Alias(l[1])
           /\ Alias(l[1]) # <<"echo">> =>
                /\ HasArg(ExecArgs(Typed(l)), 2) <=> Len(l) > 1
                /\ Len(l) > 1 => ExecArgs(Typed(l))[2] = Alias(l[2])
           /\ Alias(l[1]) = <<"echo">> => ExecArgs(Typed(l))[1] = Tail(Typed(l))
<1>0. PICK n \in Nat : n = Len(l) /\ n \in 1..Rows /\ Rows \in Nat /\ ArgLimit \in Nat
  BY FilesAssumption, TypeableWords DEF PlainLine
<1>1. PICK rows : rows = RowsOf(l) /\ arglist(Typed(l)) = rows
  BY ArgRows
<1>2. rows = [r \in 1..Rows |-> IF r <= n THEN Alias(l[r]) ELSE <<>>]
  BY <1>0, <1>1 DEF RowsOf, Filled
<1>3. \A r \in 1..n : Alias(l[r]) # <<>>
  <2>1. \A r \in 1..n : l[r] \in Seq(STRING) /\ l[r] # <<>>
    BY <1>0, TypeableWords DEF PlainLine
  <2> QED BY <2>1, Aliased
<1>4. rows[1] = Alias(l[1])
  BY <1>0, <1>2
<1>5. ASSUME Alias(l[1]) # <<"echo">>
      PROVE  /\ HasArg(ExecArgs(Typed(l)), 2) <=> Len(l) > 1
             /\ Len(l) > 1 => ExecArgs(Typed(l))[2] = Alias(l[2])
  <2>1. ExecArgs(Typed(l)) = rows
    BY <1>1, <1>4, <1>5 DEF ExecArgs
  <2>2. \A r \in 1..Rows : rows[r] = <<>> <=> r > Len(l)
    BY <1>0, <1>2, <1>3
  <2>3. argc(rows) = n
    BY <1>0, <2>2, Counted
  <2>4. HasArg(rows, 2) <=> n > 1
    BY <1>0, <2>3 DEF HasArg, Passed
  <2>5. n > 1 => rows[2] = Alias(l[2])
    BY <1>0, <1>2
  <2> QED BY <1>0, <2>1, <2>4, <2>5
<1>6. ASSUME Alias(l[1]) = <<"echo">> PROVE ExecArgs(Typed(l))[1] = Tail(Typed(l))
  <2>1. PICK t : t = Tail(Typed(l))
    OBVIOUS
  <2>2. ExecArgs(Typed(l)) = [rows EXCEPT ![1] = t]
    BY <1>1, <1>4, <1>6, <2>1 DEF ExecArgs
  <2>3. 1 \in 1..Rows
    BY <1>0
  <2> QED BY <1>2, <2>1, <2>2, <2>3
<1> QED BY <1>1, <1>4, <1>5, <1>6

\* echo of some text finds it, however many words up to the limit it is of.
LEMMA GivenText ==
    ASSUME NEW l, PlainLine(l), Len(l) < ArgLimit, Alias(l[1]) = <<"echo">>, Len(Typed(l)) > 1
    PROVE  HasArg(ExecArgs(Typed(l)), 1)
<1>0. PICK n \in Nat : n = Len(l) /\ n \in 1..Rows /\ Rows \in Nat /\ ArgLimit \in Nat
  BY FilesAssumption, TypeableWords DEF PlainLine
<1>1. PICK rows : rows = RowsOf(l) /\ arglist(Typed(l)) = rows
  BY ArgRows
<1>2. rows = [r \in 1..Rows |-> IF r <= n THEN Alias(l[r]) ELSE <<>>]
  BY <1>0, <1>1 DEF RowsOf, Filled
<1>3. \A r \in 1..n : Alias(l[r]) # <<>>
  <2>1. \A r \in 1..n : l[r] \in Seq(STRING) /\ l[r] # <<>>
    BY <1>0, TypeableWords DEF PlainLine
  <2> QED BY <2>1, Aliased
<1>4. Tail(Typed(l)) # <<>>
  <2>1. l \in Words /\ Len(l) >= 1
    BY <1>0, TypeableWords DEF PlainLine
  <2>2. Typed(l) \in Text
    BY <2>1, WordsPlaced DEF Placed
  <2>3. PICK text : text = Typed(l) /\ text \in Seq(STRING \cup {Space}) /\ Len(text) > 1
    BY <2>2 DEF Text
  <2>4. Len(Tail(text)) = Len(text) - 1 /\ Len(text) \in Nat
    BY <2>3
  <2>5. PICK rest : rest = Tail(text) /\ Len(rest) = Len(text) - 1
    BY <2>4, Zenon
  <2>6. Len(rest) # 0
    BY <2>3, <2>4, <2>5
  <2>7. rest # <<>>
    BY <2>6
  <2> QED BY <2>3, <2>5, <2>7, Zenon
<1>5. PICK t : t = Tail(Typed(l)) /\ t # <<>>
  BY <1>4
<1>6. PICK given : given = [rows EXCEPT ![1] = t]
  OBVIOUS
<1>7. ExecArgs(Typed(l)) = given
  <2>1. rows[1] = Alias(l[1])
    BY <1>0, <1>2
  <2> QED BY <1>1, <1>5, <1>6, <2>1 DEF ExecArgs
<1>8. \A r \in 1..Rows : given[r] = <<>> <=> r > Len(l)
  BY <1>0, <1>2, <1>3, <1>5, <1>6
<1>9. argc(given) = n
  BY <1>0, <1>8, Counted
<1> QED BY <1>0, <1>7, <1>9 DEF HasArg, Passed
-----------------------------------------------------------------------------
(* What ls, cat and echo print.                                            *)

\* ls prints what is directly in the directory.
LEMMA Listing ==
    ASSUME WellFormed(archive), NEW d \in Seq(STRING), d # <<>>
    PROVE  readdirect(tarfs_init(archive), d) = Children(d)
<1>1. \A e : ChildOf(archive, d, e) <=>
                /\ IsDirectory(d) /\ HasPrefix(e.name, d)
                /\ \/ Len(e.name) = Len(d) + 1
                   \/ Len(e.name) = Len(d) + 2 /\ e.type = "DIRECTORY"
  BY Zenon DEF ChildOf, IsDirectory
<1> DEFINE a(i) == IF ChildOf(archive, d, archive[i])
                   THEN <<SubSeq(archive[i].name, Len(d) + 1, Len(archive[i].name))>> ELSE <<>>
           b(i) == IF /\ IsDirectory(d) /\ HasPrefix(archive[i].name, d)
                      /\ \/ Len(archive[i].name) = Len(d) + 1
                         \/ Len(archive[i].name) = Len(d) + 2 /\ archive[i].type = "DIRECTORY"
                   THEN <<SubSeq(archive[i].name, Len(d) + 1, Len(archive[i].name))>> ELSE <<>>
<1>2. \A i : a(i) = b(i)
  BY <1>1, Zenon
<1>3. readdirect(tarfs_init(archive), d) = SeqExt!FlattenSeq([i \in 1..Len(archive) |-> a(i)])
  BY ListingIsChildren
<1>4. Children(d) = SeqExt!FlattenSeq([i \in 1..Len(archive) |-> b(i)])
  BY Zenon DEF Children
<1> HIDE DEF a, b
<1>5. [i \in 1..Len(archive) |-> a(i)] = [i \in 1..Len(archive) |-> b(i)]
  BY <1>2
<1> QED BY <1>3, <1>4, <1>5

\* cat finds a file that is there and prints it as far as its buffer allows.
LEMMA FileShown ==
    ASSUME WellFormed(archive), NEW k \in 1..Len(archive), archive[k].type = "FILE_TYPE"
    PROVE  LET fd == openfile(tarfs_init(archive), archive[k].name)
           IN  /\ fd # 0
               /\ String(readfile(archive, fd, CatBuffer)) = FirstBytes(archive[k].name, CatBuffer)
<1>1. PICK fd : fd = openfile(tarfs_init(archive), archive[k].name)
  OBVIOUS
<1>2. fd = Start(archive)[k]
  BY <1>1, LookupFinds DEF openfile
<1>3. fd # 0
  <2>1. Len(archive) \in Nat /\ Start(archive) \in [1..(Len(archive) + 1) -> Nat]
        /\ Start(archive)[1] = Block
    BY StartValues DEF TarStart
  <2>2. 1 \in 1..(Len(archive) + 1) /\ k \in 1..(Len(archive) + 1)
    BY <2>1
  <2>3. k = 1 \/ Start(archive)[1] < Start(archive)[k]
    <3>1. k # 1 => 1 < k
      BY <2>1
    <3> QED BY <2>2, <3>1, StartAscends
  <2> QED BY <1>2, <2>1, <2>2, <2>3, TarfsAssumption
<1>4. CatBuffer \in Nat
  BY FilesAssumption
<1>5. String(readfile(archive, fd, CatBuffer)) =
        [j \in 1..Smallest({archive[k].size, CatBuffer}) |-> <<k, j>>]
  BY <1>2, <1>4, FileIsRead
<1>6. (CHOOSE i \in 1..Len(archive) : archive[i].name = archive[k].name) = k
  <2>1. \A i \in 1..Len(archive) : archive[i].name = archive[k].name => i = k
    BY DEF WellFormed
  <2> QED BY <2>1
<1>7. FirstBytes(archive[k].name, CatBuffer) =
        [j \in 1..Smallest({archive[k].size, CatBuffer}) |-> <<k, j>>]
  BY <1>6, Zenon DEF FirstBytes
<1> QED BY <1>1, <1>3, <1>5, <1>7, Zenon

\* The cases of Asked.
LEMMA AskedLs ==
    ASSUME NEW d, Alias(line[1]) = <<"ls">>, NEW n \in Nat \ {0}, n = Len(line)
    PROVE  Asked(d) = IF n > 1 THEN Children(Alias(line[2]))
                      ELSE IF d = <<>> THEN RootList ELSE Children(d)
<1>1. <<"ls">> # <<"cat">> /\ <<"ls">> # <<"echo">>
  OBVIOUS
<1>2. n > 1 <=> n # 1
  OBVIOUS
<1> QED BY <1>1, <1>2, Zenon DEF Asked

LEMMA AskedCat ==
    ASSUME NEW d, Alias(line[1]) = <<"cat">>
    PROVE  Asked(d) = IF \E i \in 1..Len(archive) :
                            archive[i].name = d \o Alias(line[2]) /\ archive[i].type = "FILE_TYPE"
                      THEN FirstBytes(d \o Alias(line[2]), CatBuffer)
                      ELSE <<NoSuchFile, KeyboardLine>>
<1>1. <<"cat">> # <<"ls">> /\ <<"cat">> # <<"echo">>
  OBVIOUS
<1> QED BY <1>1, Zenon DEF Asked

LEMMA AskedEcho ==
    ASSUME NEW d, Alias(line[1]) = <<"echo">>
    PROVE  Asked(d) = Tail(Typed(line))
<1>1. <<"echo">> # <<"ls">> /\ <<"echo">> # <<"cat">>
  OBVIOUS
<1> QED BY <1>1, Zenon DEF Asked

LEMMA AskedSame ==
    ASSUME UNCHANGED <<archive, line>>, cwd'[Sbush] = cwd[Sbush]
    PROVE  Asked(cwd[Sbush])' = Asked(cwd[Sbush])
<1>0. archive' = archive /\ line' = line
  OBVIOUS
<1>1. PICK d : d = cwd[Sbush] /\ d = cwd'[Sbush]
  OBVIOUS
<1>2. \A f : Children(f)' = Children(f)
  BY <1>0, Zenon DEF Children, IsDirectory
<1>3. ASSUME NEW f, NEW n PROVE FirstBytes(f, n)' = FirstBytes(f, n)
  <2> DEFINE k == CHOOSE i \in 1..Len(archive) : archive[i].name = f
  <2>1. k' = k
    BY <1>0
  <2>2. FirstBytes(f, n) = [j \in 1..Smallest({archive[k].size, n}) |-> <<k, j>>]
    BY Zenon DEF FirstBytes
  <2>3. FirstBytes(f, n)' = [j \in 1..Smallest({archive[k].size, n}) |-> <<k, j>>]'
    BY Zenon DEF FirstBytes
  <2> HIDE DEF k
  <2> QED BY <1>0, <2>1, <2>2, <2>3, Zenon
<1> QED BY <1>0, <1>2, <1>3, Zenon DEF Asked

\* The lines a program is started for: echo has something behind it.
CommandLines ==
    {l \in Lines : arglist(Typed(l))[1] = <<"echo">> => Len(Typed(l)) > 1}

\* In front of the shell runs its copy, which is in fork, or a program; either
\* has the shell's directory, and a command has been typed.
CopyInv ==
    cpu = "user" /\ running # Sbush =>
        /\ cwd[running] = cwd[Sbush]
        /\ role[running] = "sbush" => at = "fork"
        /\ line \in CommandLines

\* While cat waits for the keyboard, what it has printed lacks that line only.
ReadInv ==
    In("util", {"read"}) /\ Plain => Append(out, KeyboardLine) = Asked(cwd[Sbush])

AnswerInv == CopyInv /\ Answered /\ ReadInv

LEMMA Appended ==
    ASSUME NEW S, NEW x \in S, NEW y \in S PROVE Append(<<x>>, y) = <<x, y>>
<1>1. <<x>> \in Seq(S) /\ Len(<<x>>) = 1 /\ <<x>>[1] = x
  OBVIOUS
<1>2. PICK s \in Seq(S) : s = <<x>> /\ Len(s) = 1 /\ s[1] = x
  BY <1>1
<1>3. PICK t : t = Append(s, y)
  OBVIOUS
<1>4. t \in Seq(S) /\ Len(t) = 2 /\ t[1] = x /\ t[2] = y
  BY <1>2, <1>3
<1>5. PICK u : u = <<x, y>>
  OBVIOUS
<1>6. u \in Seq(S) /\ Len(u) = 2 /\ u[1] = x /\ u[2] = y
  BY <1>5
<1>7. t = u
  BY <1>4, <1>6, SameSequence
<1> QED BY <1>2, <1>3, <1>5, <1>7, Zenon

\* What ls, echo and cat print for a line that is plain.
LEMMA ProgramAnswers ==
    ASSUME FileInv, running \in Task, line \in Lines, Plain
    PROVE  /\ List => out' = Asked(cwd[running])
           /\ Echo => out' = Asked(cwd[running])
           /\ Cat => out' = Asked(cwd[running])
           /\ CatMissing => Append(out', KeyboardLine) = Asked(cwd[running])
<1>0. PICK d : d = cwd[running]
  OBVIOUS
<1>1. WellFormed(archive) /\ tarfs_fs = tarfs_init(archive)
  BY FilesAssumption DEF FileInv
<1>2. d \in Seq(STRING)
  <2>1. d = <<>> \/ \E i \in 1..Len(archive) : archive[i].name = d
    BY <1>0 DEF FileInv, IsDirectory
  <2>2. \A i \in 1..Len(archive) : archive[i].name \in Seq(STRING)
    BY <1>1, Entries
  <2>3. CASE d = <<>>
    BY <2>3
  <2>4. CASE d # <<>>
    BY <2>1, <2>2, <2>4, Zenon
  <2> QED BY <2>3, <2>4
<1>3. PlainLine(line) /\ Len(line) < ArgLimit
  BY FilesAssumption DEF Plain, PlainLine, Typeable
<1>4. PICK n \in Nat \ {0} : n = Len(line)
  BY <1>3 DEF PlainLine
<1>5. PICK rows : rows = ExecArgs(Typed(line))
  OBVIOUS
<1>6. /\ arglist(Typed(line))[1] = Alias(line[1])
      /\ Alias(line[1]) # <<"echo">> =>
           /\ HasArg(rows, 2) <=> n > 1
           /\ n > 1 => rows[2] = Alias(line[2])
      /\ Alias(line[1]) = <<"echo">> => rows[1] = Tail(Typed(line))
  BY <1>3, <1>4, <1>5, Given, Zenon
<1>7. n > 1 => Alias(line[2]) \in Seq(STRING) /\ Alias(line[2]) # <<>>
  <2>1. ASSUME n > 1 PROVE line[2] \in Seq(STRING) /\ line[2] # <<>>
    <3>1. 2 \in 1..n
      BY <2>1
    <3> QED BY <1>3, <1>4, <3>1, TypeableWords DEF PlainLine
  <2> QED BY <2>1, Aliased
<1>8. \A e \in Seq(STRING) : e # <<>> => readdirect(tarfs_fs, e) = Children(e)
  BY <1>1, Listing
<1>9. ASSUME List PROVE out' = Asked(d)
  <2>1. Alias(line[1]) = <<"ls">> /\ <<"ls">> # <<"echo">>
    BY <1>6, <1>9 DEF List, Runs
  <2>2. out' = readdirect(tarfs_fs, IF n > 1 THEN Alias(line[2]) ELSE d)
    BY <1>0, <1>5, <1>6, <1>9, <2>1, Zenon DEF List, Prints, Argument
  <2>3. Asked(d) = IF n > 1 THEN Children(Alias(line[2]))
                   ELSE IF d = <<>> THEN RootList ELSE Children(d)
    BY <1>4, <2>1, AskedLs, Zenon
  <2>4. CASE n > 1
    BY <1>7, <1>8, <2>2, <2>3, <2>4, Zenon
  <2>5. CASE ~(n > 1) /\ d = <<>>
    <3>1. readdirect(tarfs_fs, <<>>) = RootList
      BY Zenon DEF readdirect
    <3> QED BY <2>2, <2>3, <2>5, <3>1, Zenon
  <2>6. CASE ~(n > 1) /\ d # <<>>
    BY <1>2, <1>8, <2>2, <2>3, <2>6, Zenon
  <2> QED BY <2>4, <2>5, <2>6
<1>10. ASSUME Echo PROVE out' = Asked(d)
  <2>1. Alias(line[1]) = <<"echo">>
    BY <1>6, <1>10 DEF Echo, Runs
  <2>2. out' = rows[1]
    BY <1>5, <1>10 DEF Echo, Prints, Argument
  <2> QED BY <1>6, <2>1, <2>2, AskedEcho
<1>11. ASSUME Cat \/ CatMissing
       PROVE  /\ Alias(line[1]) = <<"cat">> /\ n > 1
              /\ CatFd = openfile(tarfs_fs, d \o Alias(line[2]))
  <2>1. Alias(line[1]) = <<"cat">> /\ <<"cat">> # <<"echo">>
    BY <1>6, <1>11 DEF Cat, CatMissing, Runs
  <2>2. HasArg(rows, 2)
    BY <1>5, <1>11 DEF Cat, CatMissing, Argument
  <2>3. n > 1 /\ rows[2] = Alias(line[2])
    BY <1>6, <2>1, <2>2, Zenon
  <2> QED BY <1>0, <1>5, <2>1, <2>3, Zenon DEF CatFd, Argument
<1> DEFINE f == d \o Alias(line[2])
           There == \E i \in 1..Len(archive) : archive[i].name = f /\ archive[i].type = "FILE_TYPE"
<1>12. Alias(line[1]) = <<"cat">> =>
          Asked(d) = IF There THEN FirstBytes(f, CatBuffer) ELSE <<NoSuchFile, KeyboardLine>>
  BY AskedCat, Zenon
<1> HIDE DEF f
<1>13. ~There => openfile(tarfs_fs, f) = 0
  BY <1>1, LookupMisses DEF openfile
<1>14. There => /\ openfile(tarfs_fs, f) # 0
                /\ String(readfile(archive, openfile(tarfs_fs, f), CatBuffer))
                     = FirstBytes(f, CatBuffer)
  <2> SUFFICES ASSUME NEW i \in 1..Len(archive), archive[i].name = f,
                      archive[i].type = "FILE_TYPE"
               PROVE  /\ openfile(tarfs_fs, f) # 0
                      /\ String(readfile(archive, openfile(tarfs_fs, f), CatBuffer))
                           = FirstBytes(f, CatBuffer)
    OBVIOUS
  <2> QED BY <1>1, FileShown, Zenon
<1>15. ASSUME Cat PROVE out' = Asked(d)
  <2>1. CatFd = openfile(tarfs_fs, f) /\ CatFd # 0
        /\ out' = String(readfile(archive, CatFd, CatBuffer))
    BY <1>11, <1>15, Zenon DEF Cat, Prints, f
  <2>2. There
    BY <1>13, <2>1, Zenon
  <2> QED BY <1>11, <1>12, <1>14, <1>15, <2>1, <2>2, Zenon
<1>16. ASSUME CatMissing PROVE Append(out', KeyboardLine) = Asked(d)
  <2>1. CatFd = openfile(tarfs_fs, f) /\ CatFd = 0 /\ out' = <<NoSuchFile>>
    BY <1>11, <1>16, Zenon DEF CatMissing, f
  <2>2. ~There
    BY <1>14, <2>1, Zenon
  <2>3. Append(<<NoSuchFile>>, KeyboardLine) = <<NoSuchFile, KeyboardLine>>
    <3>1. NoSuchFile \in {NoSuchFile, KeyboardLine} /\ KeyboardLine \in {NoSuchFile, KeyboardLine}
      OBVIOUS
    <3> QED BY <3>1, Appended, Zenon
  <2> QED BY <1>11, <1>12, <1>16, <2>1, <2>2, <2>3, Zenon
<1> QED BY <1>0, <1>9, <1>10, <1>15, <1>16
-----------------------------------------------------------------------------
(* From the prompt through fork and execve to the program and back.        *)

\* A task other than the shell that executes bin/sbush is a copy, in fork.
LEMMA AtPrompt ==
    ASSUME IInv, ShellInv, CopyInv, cpu = "user", role[running] = "sbush",
           at # "fork" \/ running \notin forked
    PROVE  running = Sbush
<1>1. running \in 1..N
  <2>1. N \in Nat /\ running \in 2..N
    BY Places
  <2> QED BY <2>1
<1>2. running = Sbush \/ running \in forked
  BY <1>1 DEF ShellInv, ProgramInv
<1> QED BY <1>2 DEF CopyInv

\* The shell itself makes a system call.
LEMMA ShellCall ==
    ASSUME ShellInv, running = Sbush, NEW s, Trap(s), UNCHANGED ownVars
    PROVE  AnswerInv'
<1>1. running' = Sbush /\ role'[Sbush] = "sbush"
  BY DEF Trap, ownVars, ShellInv, ProgramInv
<1>2. role'[running'] # "util"
  BY <1>1
<1> QED BY <1>1, <1>2 DEF AnswerInv, CopyInv, Answered, ReadInv, In

\* A program goes on and its results stay.
LEMMA ProgramCall ==
    ASSUME AnswerInv, ShellInv, UNCHANGED <<running, role, cwd, line, archive, cpu>>,
           role[running] # "sbush", cpu = "user"
    PROVE  /\ running # Sbush /\ cwd[running] = cwd[Sbush] /\ line \in CommandLines
           /\ CopyInv' /\ Asked(cwd[Sbush])' = Asked(cwd[Sbush]) /\ (Plain' <=> Plain)
<1>1. running # Sbush
  BY DEF ShellInv, ProgramInv
<1>2. cwd[running] = cwd[Sbush] /\ line \in CommandLines
  BY <1>1 DEF AnswerInv, CopyInv
<1>3. CopyInv'
  BY <1>2 DEF CopyInv
<1>4. Asked(cwd[Sbush])' = Asked(cwd[Sbush])
  BY AskedSame
<1>5. Plain' <=> Plain
  BY Zenon DEF Plain
<1> QED BY <1>1, <1>2, <1>3, <1>4, <1>5

LEMMA Stopped == ASSUME cpu' # "user" PROVE AnswerInv'
BY DEF AnswerInv, CopyInv, Answered, ReadInv, In

LEMMA AnswerInitInv == FilesInit => AnswerInv
<1> SUFFICES ASSUME FilesInit PROVE AnswerInv
  OBVIOUS
<1>1. running = Sbush /\ role[Sbush] = "sbush"
  <2>1. Sbush \in Task
    BY ConstantsAssumption DEF Sbush, Task
  <2> QED BY <2>1 DEF FilesInit, ShellInit, Init, Sbush
<1>2. role[running] # "util"
  BY <1>1
<1> QED BY <1>1, <1>2 DEF AnswerInv, CopyInv, Answered, ReadInv, In

\* What fork does to the directories and to the place of the new copy.
LEMMA TypedStep ==
    ASSUME IInv, ShellInv, FileInv, AnswerInv, NEW l \in Lines, TypeCommand(l)
    PROVE  AnswerInv'
<1>1. cpu = "user" /\ role[running] = "sbush" /\ at = "prompt" /\ Fork("fork")
  BY DEF TypeCommand, StartCommand, In
<1>2. running = Sbush
  BY <1>1, AtPrompt DEF AnswerInv
<1>3. /\ N \in Nat /\ N >= 2 /\ rsp0 = N /\ Sbush = 2 /\ Sbush \in Task /\ NewTask = N + 1
      /\ frame \in [Task -> Location] /\ cwd = [t \in Task |-> cwd[t]]
      /\ role \in [Task -> {"none", "sbush", "util", "kill"}] /\ procList \in Seq(Task)
      /\ N = Len(procList) /\ N \in Task
  BY Places DEF IInv, TypeOK, FileInv, ShellInv, ProgramTypes, N
<1>4. ASSUME ~NoMemory, ForkSwitches("fork") PROVE AnswerInv'
  <2>1. NewTask \in Task /\ NewTask # Sbush
    BY <1>3, <1>4, ConstantsAssumption DEF NoMemory, Task
  <2>2. running' = NewTask /\ at' = TrapFrame("fork")[Sbush]
    BY <1>2, <1>4 DEF ForkSwitches, AddTask
  <2>3. at' = "fork"
    BY <1>3, <2>2 DEF TrapFrame, ShellInv, PlaceInv
  <2>4. cwd' = [cwd EXCEPT ![NewTask] = cwd[Sbush]] /\ line' \in CommandLines
        /\ role' = [role EXCEPT ![NewTask] = "sbush"]
    BY <1>2, <1>4 DEF TypeCommand, StartCommand, Inherit, CommandLines
  <2>5. cwd'[NewTask] = cwd[Sbush] /\ cwd'[Sbush] = cwd[Sbush] /\ role'[NewTask] = "sbush"
    BY <1>3, <2>1, <2>4
  <2>6. role'[running'] # "util"
    BY <2>2, <2>5
  <2> QED BY <2>2, <2>3, <2>4, <2>5, <2>6 DEF AnswerInv, CopyInv, Answered, ReadInv, In
<1>5. ASSUME NEW why \in {"hung", "reset"}, Stop(why) PROVE AnswerInv'
  BY <1>5, Stopped DEF Stop
<1> QED BY <1>1, <1>4, <1>5 DEF Fork

\* execve: the program gets the copy's directory, which is the shell's.
LEMMA ExecStep ==
    ASSUME IInv, ShellInv, FileInv, AnswerInv, ExecCommand
    PROVE  AnswerInv'
<1>1. /\ cpu = "user" /\ role[running] = "sbush" /\ running \in forked /\ Execve("exec", TRUE)
      /\ cmd \in {"util", "kill"}
  BY DEF ExecCommand, RunCommand, In
<1>2. /\ N \in Nat /\ N >= 2 /\ Sbush = 2 /\ Sbush \in Task /\ NewTask = N + 1
      /\ cwd = [t \in Task |-> cwd[t]] /\ N = Len(procList) /\ N \in Task
      /\ role \in [Task -> {"none", "sbush", "util", "kill"}]
  BY Places DEF FileInv, ShellInv, ProgramTypes, N
<1>3. running # Sbush
  BY <1>1, <1>2 DEF ShellInv, ProgramInv
<1>4. cwd[running] = cwd[Sbush] /\ line \in CommandLines
  BY <1>1, <1>3 DEF AnswerInv, CopyInv
<1>5. ASSUME ~NoMemory, NEW p, AddTask(p, ppid[running]), at' = NoSite PROVE AnswerInv'
  <2>1. NewTask \in Task /\ NewTask # Sbush
    BY <1>2, <1>5, ConstantsAssumption DEF NoMemory, Task
  <2>2. running' = NewTask
    BY <1>5 DEF AddTask
  <2>3. cwd' = [cwd EXCEPT ![NewTask] = cwd[running]] /\ line' = line
        /\ role' = [role EXCEPT ![NewTask] = cmd]
    BY <1>5 DEF ExecCommand, RunCommand, Inherit
  <2>4. cwd'[NewTask] = cwd[running] /\ cwd'[Sbush] = cwd[Sbush] /\ role'[NewTask] = cmd
    BY <1>2, <2>1, <2>3
  <2>5. role'[running'] # "sbush"
    BY <1>1, <2>2, <2>4
  <2>6. at' \notin {"work", "exit", "read"}
    BY <1>5, ConstantsAssumption, ShellAssumption, FilesAssumption
  <2> QED BY <1>4, <2>2, <2>3, <2>4, <2>5, <2>6 DEF AnswerInv, CopyInv, Answered, ReadInv, In
<1>6. ASSUME Stop("hung") PROVE AnswerInv'
  BY <1>6, Stopped DEF Stop
<1> QED BY <1>1, <1>5, <1>6 DEF Execve

\* When exit switches, it is to the shell.
LEMMA SwitchBack ==
    ASSUME IInv, ShellInv, ShellInv', role[running] # "sbush",
           NEW i \in Ready([state EXCEPT ![running] = "ZOMBIE"]),
           YieldSwitches([state EXCEPT ![running] = "ZOMBIE"], "exit", i)
    PROVE  running' = Sbush
<1> DEFINE st == [state EXCEPT ![running] = "ZOMBIE"]
<1>1. running' = procList[i] /\ procList' = MoveToEnd(procList, i)
      /\ st[procList[i]] = "WAITING" /\ i \in 2..Len(procList)
  BY DEF YieldSwitches, Ready
<1>2. running' # running
  <2>1. running \in Task /\ state \in [Task -> State]
    BY DEF IInv, TypeOK
  <2> QED BY <1>1, <2>1
<1>3. N' = N
  <2>1. procList \in Seq(Task) /\ i \in 1..Len(procList)
    BY <1>1 DEF IInv, TypeOK
  <2> QED BY <1>1, <2>1, MoveToEndSlots DEF N
<1>4. running = N
  BY DEF ShellInv, ProgramInv, PlaceInv
<1>5. running' # Sbush => running' = N'
  BY DEF ShellInv, PlaceInv
<1> QED BY <1>2, <1>3, <1>4, <1>5

\* exit: the shell goes on, or the program does if the shell is gone.
LEMMA LeaveStep ==
    ASSUME IInv, ShellInv, ShellInv', AnswerInv, ProgramExit, UNCHANGED fileVars
    PROVE  AnswerInv'
<1> DEFINE st == [state EXCEPT ![running] = "ZOMBIE"]
<1>1. /\ cpu = "user" /\ role[running] # "sbush" /\ (role[running] = "util" => at = "work")
      /\ UNCHANGED ownVars /\ Yield(st, "exit") /\ running \in Task /\ state \in [Task -> State]
  BY DEF ProgramExit, In, Exit, IInv, TypeOK
<1>2. UNCHANGED <<role, cwd, line, archive, out>>
  BY <1>1 DEF ownVars, fileVars
<1>3. running # Sbush
  BY <1>1 DEF ShellInv, ProgramInv
<1>4. CASE YieldReturns(st, "exit")
  <2>1. running' = running /\ cpu' = cpu /\ at' = "exit"
    BY <1>4 DEF YieldReturns
  <2>2. CopyInv' /\ Asked(cwd[Sbush])' = Asked(cwd[Sbush]) /\ (Plain' <=> Plain)
    BY <1>1, <1>2, <2>1, ProgramCall
  <2>3. Answered'
    <3> SUFFICES ASSUME role[running] = "util", Plain PROVE out' = Asked(cwd[Sbush])'
      BY <1>2, <2>1, <2>2 DEF Answered, In, Plain
    <3>1. out = Asked(cwd[Sbush])
      BY <1>1 DEF AnswerInv, Answered, In, Plain
    <3> QED BY <1>2, <2>2, <3>1
  <2>4. ReadInv'
    BY <2>1 DEF ReadInv, In
  <2> QED BY <2>2, <2>3, <2>4 DEF AnswerInv
<1>5. ASSUME NEW i \in Ready(st), YieldSwitches(st, "exit", i) PROVE AnswerInv'
  <2>4. running' = Sbush
    BY <1>1, <1>5, SwitchBack
  <2>5. role'[running'] # "util"
    BY <2>4 DEF ShellInv, ProgramInv
  <2> QED BY <2>4, <2>5 DEF AnswerInv, CopyInv, Answered, ReadInv, In
<1>6. ASSUME NEW why \in {"hung", "reset"}, Stop(why) PROVE AnswerInv'
  BY <1>6, Stopped DEF Stop
<1> HIDE DEF st
<1> QED BY <1>1, <1>4, <1>5, <1>6 DEF Yield

\* ls, cat and echo do their work.
LEMMA WorkStep ==
    ASSUME IInv, ShellInv, FileInv, AnswerInv, List \/ Echo \/ Cat \/ CatMissing
    PROVE  AnswerInv'
<1>1. /\ cpu = "user" /\ role[running] = "util" /\ running \in Task
      /\ UNCHANGED <<running, role, cwd, line, archive, cpu>>
      /\ IF CatMissing THEN at' = "read" ELSE at' = "work"
  BY DEF IInv, TypeOK, List, Echo, Cat, CatMissing, Prints, UtilWork, UtilRead, Runs, In,
         Trap, ownVars
<1>2. /\ cwd[running] = cwd[Sbush] /\ line \in CommandLines
      /\ CopyInv' /\ Asked(cwd[Sbush])' = Asked(cwd[Sbush]) /\ (Plain' <=> Plain)
  BY <1>1, ProgramCall
<1>3. ASSUME Plain
      PROVE  /\ List \/ Echo \/ Cat => out' = Asked(cwd[Sbush])'
             /\ CatMissing => Append(out', KeyboardLine) = Asked(cwd[Sbush])'
  <2>1. line \in Lines
    BY <1>2 DEF CommandLines
  <2> QED BY <1>1, <1>2, <1>3, <2>1, ProgramAnswers, Zenon
<1>4. Answered'
  <2>1. Answered' <=> (In("util", {"work", "exit"})' /\ Plain' => out' = Asked(cwd[Sbush])')
    BY Zenon DEF Answered, Plain
  <2>2. CASE CatMissing
    BY <1>1, <2>1, <2>2 DEF In
  <2>3. CASE ~CatMissing
    BY <1>2, <1>3, <2>1, <2>3, Zenon
  <2> QED BY <2>2, <2>3
<1>5. ReadInv'
  <2>1. ReadInv' <=> (In("util", {"read"})' /\ Plain' =>
                        Append(out', KeyboardLine) = Asked(cwd[Sbush])')
    BY Zenon DEF ReadInv
  <2>2. CASE CatMissing
    BY <1>2, <1>3, <2>1, <2>2, Zenon
  <2>3. CASE ~CatMissing
    BY <1>1, <2>1, <2>3 DEF In
  <2> QED BY <2>2, <2>3
<1> QED BY <1>2, <1>4, <1>5 DEF AnswerInv

\* cat has read a line and prints it.
LEMMA ReadStep == ASSUME ShellInv, AnswerInv, CatKeyboard PROVE AnswerInv'
<1>1. /\ cpu = "user" /\ role[running] = "util" /\ at = "read" /\ at' = "work"
      /\ UNCHANGED <<running, role, cwd, line, archive, cpu>>
      /\ out' = Append(out, KeyboardLine)
  BY DEF CatKeyboard, ReadLine, In, Trap, ownVars
<1>2. CopyInv' /\ Asked(cwd[Sbush])' = Asked(cwd[Sbush]) /\ (Plain' <=> Plain)
  BY <1>1, ProgramCall
<1>3. ReadInv'
  BY <1>1 DEF ReadInv, In
<1>4. Answered'
  <2>1. Answered' <=> (In("util", {"work", "exit"})' /\ Plain' => out' = Asked(cwd[Sbush])')
    BY Zenon DEF Answered, Plain
  <2>2. In("util", {"read"})
    BY <1>1 DEF In
  <2>3. Plain => Append(out, KeyboardLine) = Asked(cwd[Sbush])
    BY <2>2 DEF AnswerInv, ReadInv
  <2> QED BY <1>1, <1>2, <2>1, <2>3
<1> QED BY <1>2, <1>3, <1>4 DEF AnswerInv

LEMMA AnswerStepInv ==
    ASSUME IInv, ShellInv, ShellInv', FileInv, AnswerInv, [FilesNext]_allVars
    PROVE  AnswerInv'
<1>0. {"wait", "prompt", NoSite} \cap {"fork"} = {}
  BY ConstantsAssumption, ShellAssumption
<1>1. CASE UNCHANGED allVars
  <2>1. UNCHANGED <<running, role, cwd, line, archive, cpu, at, out>>
    BY <1>1 DEF allVars, shellVars, vars, fileVars
  <2>2. Asked(cwd[Sbush])' = Asked(cwd[Sbush]) /\ (Plain' <=> Plain)
    BY <2>1, AskedSame DEF Plain
  <2>3. /\ CopyInv' <=> CopyInv
        /\ In("util", {"read"})' <=> In("util", {"read"})
        /\ In("util", {"work", "exit"})' <=> In("util", {"work", "exit"})
    BY <2>1 DEF CopyInv, In
  <2>4. (Answered' <=> Answered) /\ (ReadInv' <=> ReadInv)
    BY <2>1, <2>2, <2>3, Zenon DEF Answered, ReadInv, Plain
  <2> QED BY <2>3, <2>4 DEF AnswerInv
<1>2. ASSUME NEW l \in Lines, ChangeDirectory(l) \/ Help(l) PROVE AnswerInv'
  <2>1. cpu = "user" /\ role[running] = "sbush" /\ at = "prompt" /\ Trap("prompt")
        /\ UNCHANGED ownVars
    BY <1>2 DEF ChangeDirectory, Help, In
  <2> QED BY <2>1, AtPrompt, ShellCall DEF AnswerInv
<1>3. CASE Prompt \/ LeaveShell
  <2>1. cpu = "user" /\ role[running] = "sbush" /\ at # "fork" /\ UNCHANGED ownVars
        /\ \E s : Trap(s)
    BY <1>0, <1>3 DEF Prompt, LeaveShell, In
  <2> QED BY <2>1, AtPrompt, ShellCall DEF AnswerInv
<1>4. CASE AwaitCommand
  <2>1. cpu = "user" /\ role[running] = "sbush" /\ running \notin forked /\ UNCHANGED ownVars
        /\ WaitPid("wait", child)
    BY <1>4 DEF AwaitCommand, In
  <2>2. Trap("wait")
    BY <2>1, NoneWaitedFor DEF WaitPid
  <2> QED BY <2>1, <2>2, AtPrompt, ShellCall DEF AnswerInv
<1>5. CASE OtherStep
  <2>1. CASE ProgramExit
    BY <1>5, <2>1, LeaveStep DEF OtherStep
  <2>2. CASE PastExit
    BY <2>2, Stopped DEF PastExit, UserFault, Stop
  <2> QED BY <1>3, <1>4, <1>5, <2>1, <2>2 DEF OtherStep
<1>6. CASE ExecCommand
  BY <1>6, ExecStep
<1>7. ASSUME NEW l \in Lines, TypeCommand(l) PROVE AnswerInv'
  BY <1>7, TypedStep
<1>8. CASE List \/ Echo \/ Cat \/ CatMissing
  BY <1>8, WorkStep
<1>9. CASE CatKeyboard
  BY <1>9, ReadStep
<1>10. CASE NullArgument
  BY <1>10, Stopped DEF NullArgument, UtilFault, UserFault, Stop
<1>11. CASE Leave
  BY <1>3, <1>11 DEF Leave
<1> QED BY <1>1, <1>2, <1>5, <1>6, <1>7, <1>8, <1>9, <1>10, <1>11
        DEF FilesNext, FilesProgramStep, FilesUserStep

\* Whatever the archive and the lines, ls, cat and echo print what a line of
\* words with one space between them asks for in the shell's directory.
THEOREM CommandsAnswer == FilesSpec => []Answered
<1>1. FilesInit => IInv /\ ShellInv /\ FileInv /\ AnswerInv
  BY InitInv, ShellInitInv, FileInitInv, AnswerInitInv DEF FilesInit, ShellInit
<1>2. IInv /\ ShellInv /\ FileInv /\ AnswerInv /\ [FilesNext]_allVars
        => (IInv /\ ShellInv /\ FileInv /\ AnswerInv)'
  BY FilesStepInv, FileStepInv, AnswerStepInv
<1>3. AnswerInv => Answered
  BY DEF AnswerInv
<1> QED BY <1>1, <1>2, <1>3, PTL DEF FilesSpec
-----------------------------------------------------------------------------
(* The machine goes on.                                                    *)

\* The shell is not ended, and no copy of it prompts.
AliveInv == state[Sbush] # "ENDED" /\ ~Nested

\* A step that leaves the tasks alone, of the shell or to another place.
LEMMA AliveCall ==
    ASSUME AliveInv, ShellInv, Sbush = 2, UNCHANGED <<state, running, forked>>,
           running = Sbush \/ at' # "prompt" \/ at' = at
    PROVE  AliveInv'
<1>1. Sbush \notin forked
  BY DEF ShellInv, ProgramInv
<1> QED BY <1>1 DEF AliveInv, Nested

LEMMA AliveStep ==
    ASSUME IInv, ShellInv, ShellInv', AnswerInv, AliveInv, [FilesNext]_allVars PROVE AliveInv'
<1>0. /\ Sbush = 2 /\ Sbush \in Task /\ state \in [Task -> State] /\ running \in Task
      /\ N \in Nat /\ N >= 2 /\ N \in Task /\ NewTask = N + 1 /\ N = Len(procList)
      /\ NoSite # "prompt"
  BY Places, ConstantsAssumption, ShellAssumption DEF IInv, TypeOK, N
<1>1. CASE UNCHANGED allVars
  BY <1>0, <1>1, AliveCall DEF allVars, shellVars, vars
<1>2. ASSUME NEW why, Stop(why) PROVE AliveInv'
  BY <1>0, <1>2, AliveCall DEF Stop
<1>3. ASSUME NEW s, Trap(s), s # "prompt" \/ running = Sbush PROVE AliveInv'
  BY <1>0, <1>3, AliveCall DEF Trap
<1>4. ASSUME NEW l \in Lines, ChangeDirectory(l) \/ Help(l) PROVE AliveInv'
  <2>1. cpu = "user" /\ role[running] = "sbush" /\ at = "prompt" /\ Trap("prompt")
    BY <1>4 DEF ChangeDirectory, Help, In
  <2> QED BY <1>3, <2>1, AtPrompt DEF AnswerInv
<1>5. CASE Prompt
  <2>1. cpu = "user" /\ role[running] = "sbush" /\ at # "fork" /\ Trap("prompt")
    BY <1>5, ConstantsAssumption, ShellAssumption DEF Prompt, In
  <2> QED BY <1>3, <2>1, AtPrompt DEF AnswerInv
<1>6. CASE Leave
  BY <1>3, <1>6 DEF Leave, LeaveShell
<1>7. CASE AwaitCommand
  <2>1. Trap("wait")
    BY <1>7, NoneWaitedFor DEF AwaitCommand, In, WaitPid
  <2> QED BY <1>3, <2>1
<1>8. CASE List \/ Echo \/ Cat
  BY <1>3, <1>8 DEF List, Echo, Cat, Prints, UtilWork
<1>9. CASE CatMissing \/ CatKeyboard
  BY <1>3, <1>9 DEF CatMissing, UtilRead, CatKeyboard, ReadLine
<1>10. CASE NullArgument \/ PastExit
  BY <1>2, <1>10 DEF NullArgument, UtilFault, PastExit, UserFault
<1>11. ASSUME NEW l \in Lines, TypeCommand(l) PROVE AliveInv'
  <2>1. cpu = "user" /\ role[running] = "sbush" /\ at = "prompt" /\ Fork("fork")
    BY <1>11 DEF TypeCommand, StartCommand, In
  <2>2. running = Sbush
    BY <2>1, AtPrompt DEF AnswerInv
  <2>3. ASSUME ForkSwitches("fork"), ~NoMemory PROVE AliveInv'
    <3>1. NewTask \in Task /\ NewTask # Sbush
      BY <1>0, <2>3, ConstantsAssumption DEF NoMemory, Task
    <3>2. state' = SwitchStates(state, Sbush, NewTask) /\ at' = TrapFrame("fork")[Sbush]
      BY <2>2, <2>3 DEF ForkSwitches
    <3>3. state'[Sbush] # "ENDED"
      BY <1>0, <3>1, <3>2 DEF SwitchStates, AliveInv
    <3>4. at' = "fork"
      <4>1. rsp0 = N /\ frame \in [Task -> Location]
        BY Places DEF IInv, TypeOK
      <4> QED BY <1>0, <3>2, <4>1 DEF TrapFrame, ShellInv, PlaceInv
    <3> QED BY <3>3, <3>4 DEF AliveInv, Nested
  <2> QED BY <1>2, <2>1, <2>3 DEF Fork
<1>12. CASE ExecCommand
  <2>1. cpu = "user" /\ running \in forked /\ Execve("exec", TRUE)
    BY <1>12 DEF ExecCommand, RunCommand, In
  <2>2. running # Sbush
    BY <1>0, <2>1 DEF ShellInv, ProgramInv
  <2>3. ASSUME ~NoMemory, at' = NoSite,
               state' = [state EXCEPT ![running] = "ENDED", ![NewTask] = "RUNNING"]
        PROVE  AliveInv'
    BY <1>0, <2>2, <2>3 DEF AliveInv, Nested
  <2> QED BY <1>2, <2>1, <2>3 DEF Execve
<1>13. CASE ProgramExit
  <2> DEFINE st == [state EXCEPT ![running] = "ZOMBIE"]
  <2>1. cpu = "user" /\ role[running] # "sbush" /\ Yield(st, "exit")
    BY <1>13 DEF ProgramExit, In, Exit
  <2>2. st \in [Task -> State] /\ st[Sbush] = state[Sbush]
    BY <1>0, <2>1 DEF ShellInv, ProgramInv, State
  <2> HIDE DEF st
  <2>3. CASE YieldReturns(st, "exit")
    BY <2>2, <2>3 DEF YieldReturns, AliveInv, Nested
  <2>4. ASSUME NEW i \in Ready(st), YieldSwitches(st, "exit", i) PROVE AliveInv'
    <3>1. state' = SwitchStates(st, InitTask, procList[i]) /\ running' = procList[i]
          /\ forked' = forked /\ i \in 2..Len(procList) /\ procList' = MoveToEnd(procList, i)
      BY <2>4 DEF YieldSwitches, Ready
    <3>2. state'[Sbush] # "ENDED"
      BY <1>0, <2>2, <3>1 DEF SwitchStates, AliveInv, InitTask
    <3>3. running' = Sbush
      BY <2>1, <2>4, SwitchBack DEF st
    <3> QED BY <1>0, <3>1, <3>2, <3>3 DEF AliveInv, Nested, ShellInv, ProgramInv
  <2> QED BY <1>2, <2>1, <2>3, <2>4 DEF Yield
<1> QED BY <1>1, <1>4, <1>5, <1>6, <1>7, <1>8, <1>9, <1>10, <1>11, <1>12, <1>13
        DEF FilesNext, FilesProgramStep, FilesUserStep, OtherStep

\* The programs find their arguments in a plain line, but cat if it has none.
LEMMA ArgumentsFound ==
    ASSUME line \in CommandLines, NullArgument, Plain PROVE NothingToCat
<1>1. line \in Lines /\ (arglist(Typed(line))[1] = <<"echo">> => Len(Typed(line)) > 1)
  BY DEF CommandLines
<1>2. PlainLine(line) /\ Len(line) < ArgLimit
  BY <1>1, FilesAssumption DEF Plain, PlainLine, Typeable
<1>3. PICK n \in Nat \ {0} : n = Len(line)
  BY <1>2 DEF PlainLine
<1>4. /\ arglist(Typed(line))[1] = Alias(line[1])
      /\ Alias(line[1]) # <<"echo">> => (HasArg(ExecArgs(Typed(line)), 2) <=> n > 1)
  BY <1>2, <1>3, Given, Zenon
<1>5. CASE Alias(line[1]) = <<"cat">> /\ ~HasArg(ExecArgs(Typed(line)), 2)
  <2>1. <<"cat">> # <<"echo">>
    OBVIOUS
  <2>2. ~(n > 1)
    BY <1>4, <1>5, <2>1, Zenon
  <2>3. n = 1
    BY <2>2
  <2> QED BY <1>3, <1>5, <2>3 DEF NothingToCat
<1>6. CASE Alias(line[1]) = <<"echo">> /\ ~HasArg(ExecArgs(Typed(line)), 1)
  BY <1>1, <1>2, <1>4, <1>6, GivenText
<1> QED BY <1>4, <1>5, <1>6, Zenon DEF NullArgument, Runs, Argument

\* Where the machine stops it is out of memory, or at the fault of a program.
LEMMA GoesOnStep ==
    ASSUME IInv, ShellInv, ShellInv', AnswerInv, AliveInv', LineGoesOn, [FilesNext]_allVars
    PROVE  LineGoesOn'
<1> SUFFICES ASSUME cpu' # "user" PROVE (NoMemory \/ ~Plain \/ NothingToCat)'
  BY DEF LineGoesOn
<1>0. {NoSite} \cap {"fork", "prompt", "exec", "work", "kill", "exit"} = {}
  BY ConstantsAssumption, ShellAssumption
<1>1. CASE UNCHANGED allVars
  BY <1>1 DEF allVars, shellVars, vars, fileVars, LineGoesOn, NoMemory, Plain, NothingToCat
<1>2. ASSUME ~ArgumentFault' PROVE NoMemory'
  BY <1>2 DEF ShellInv, StuckInv, AliveInv, ShellKilled
<1>3. ASSUME NEW s, Trap(s) PROVE FALSE
  BY <1>3 DEF Trap
<1>4. ASSUME NEW l \in Lines, ChangeDirectory(l) \/ Help(l) PROVE FALSE
  BY <1>3, <1>4 DEF ChangeDirectory, Help
<1>5. CASE Prompt \/ Leave
  BY <1>3, <1>5 DEF Prompt, Leave, LeaveShell
<1>6. CASE AwaitCommand
  BY <1>3, <1>6, NoneWaitedFor DEF AwaitCommand, In, WaitPid
<1>7. CASE List \/ Echo \/ Cat \/ CatMissing \/ CatKeyboard
  BY <1>3, <1>7 DEF List, Echo, Cat, Prints, UtilWork, CatMissing, UtilRead, CatKeyboard, ReadLine
<1>8. ASSUME NEW l \in Lines, TypeCommand(l) PROVE NoMemory'
  <2>1. at' = "prompt"
    BY <1>8 DEF TypeCommand, StartCommand, In, Fork, ForkSwitches, Stop
  <2> QED BY <1>0, <1>2, <2>1 DEF ArgumentFault
<1>9. CASE ExecCommand
  <2>1. at' = "fork" /\ cmd' # "bare"
    BY <1>9 DEF ExecCommand, RunCommand, In, Execve, Stop
  <2> QED BY <1>0, <1>2, <2>1 DEF ArgumentFault
<1>10. CASE ProgramExit \/ PastExit
  <2>1. at' \in {"work", "kill", "exit"}
    BY <1>10 DEF ProgramExit, PastExit, In, Exit, Yield, YieldReturns, YieldSwitches,
                 UserFault, Stop
  <2> QED BY <1>0, <1>2, <2>1 DEF ArgumentFault
<1>11. CASE NullArgument
  <2>1. cpu = "user" /\ role[running] = "util" /\ UNCHANGED line
    BY <1>11 DEF NullArgument, Runs, In, fileVars
  <2>2. line \in CommandLines
    BY <2>1 DEF ShellInv, ProgramInv, AnswerInv, CopyInv
  <2>3. ~Plain \/ NothingToCat
    BY <1>11, <2>2, ArgumentsFound
  <2> QED BY <2>1, <2>3 DEF Plain, NothingToCat
<1> QED BY <1>1, <1>4, <1>5, <1>6, <1>7, <1>8, <1>9, <1>10, <1>11
        DEF FilesNext, FilesProgramStep, FilesUserStep, OtherStep

\* Whatever the archive and the lines, a command of fewer than ArgLimit words
\* with one space between them never stops the machine while kmalloc has pages,
\* cat without a file excepted: parser, execve and _start lose no argument that
\* ls, cat or echo reads, the shell is never ended and no copy of it prompts.
THEOREM LinesGoOn == FilesSpec => []LineGoesOn
<1> DEFINE Inv == IInv /\ ShellInv /\ FileInv /\ AnswerInv /\ AliveInv /\ LineGoesOn
<1>1. FilesInit => Inv
  <2> SUFFICES ASSUME FilesInit PROVE Inv
    OBVIOUS
  <2>1. IInv /\ ShellInv /\ FileInv /\ AnswerInv
    BY InitInv, ShellInitInv, FileInitInv, AnswerInitInv DEF FilesInit, ShellInit
  <2>2. Sbush \in Task
    BY ConstantsAssumption DEF Sbush, Task
  <2>3. AliveInv /\ LineGoesOn
    BY <2>2 DEF FilesInit, ShellInit, Init, AliveInv, Nested, LineGoesOn, Sbush
  <2> QED BY <2>1, <2>3
<1>2. Inv /\ [FilesNext]_allVars => Inv'
  BY FilesStepInv, FileStepInv, AnswerStepInv, AliveStep, GoesOnStep
<1>3. Inv => LineGoesOn
  OBVIOUS
<1> QED BY <1>1, <1>2, <1>3, PTL DEF FilesSpec
=============================================================================
