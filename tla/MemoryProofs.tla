---------------------------- MODULE MemoryProofs ----------------------------
(***************************************************************************)
(* Copy on write for any number of processes, pages and frames.            *)
(*                                                                         *)
(* The identity map and the programs share addresses (memory_overlap), so  *)
(* everything is proved for as long as page_alloc has not handed out a     *)
(* page with the number of a user page.                                    *)
(***************************************************************************)
EXTENDS Memory, FiniteSetTheorems, TLAPS

\* No page handed out so far has the number of a user page.
Unreached == \A v \in UserPage : v \in IdPage => used < v

Tables == table \in [Live -> [IdPage \cup UserPage -> Entry]]

\* The kernel reaches a page at its own number unless a program hides it.
IdentityInv == \A p \in Live : \A f \in IdPage \ UserPage : table[p][f].frame = f

\* User pages are backed by pages handed out, and not by the kernel's.
FrameInv == \A p \in Live : \A v \in UserPage : table[p][v].frame \in (1..used) \ kern

\* Only the same page of two processes is ever backed by one frame.
SharedInv ==
    \A p, q \in Live : \A v, u \in UserPage :
        table[p][v].frame = table[q][u].frame => v = u

\* A frame written without a fault is backing one page of one process.
WriterInv ==
    \A p, q \in Live : \A v \in UserPage :
        table[p][v].w /\ table[p][v].frame = table[q][v].frame => p = q

CowInv == IdentityInv /\ FrameInv /\ SharedInv /\ WriterInv

TInv == TypeOK /\ Tables

IInv == TInv /\ (Unreached => CowInv)
-----------------------------------------------------------------------------
\* the number of user pages
N == Cardinality(UserPage)

LEMMA Sizes ==
    /\ IdMax \in Nat /\ LastFrame \in Nat /\ IdMax <= LastFrame
    /\ N \in Nat
    /\ BootFrames \in Nat \ {0} /\ ForkFrames \in Nat \ {0} /\ ExecFrames \in Nat \ {0}
    /\ UserPage \subseteq Nat \ {0}
    /\ BootFrames + ExecFrames + N <= IdMax
BY MemoryAssumption, FS_CardinalityType DEF N

\* What elf_load does with the pages from base on.
LEMMA PlacementsType ==
    ASSUME NEW base \in Nat, NEW at \in Placements(base)
    PROVE  /\ at \in [UserPage -> base + 1 .. base + N]
           /\ \A v, u \in UserPage : at[v] = at[u] => v = u
<1>1. /\ at \in [UserPage -> base + 1 .. base + N]
      /\ \A v, u \in UserPage : v < u => at[v] < at[u]
  BY DEF Placements, N
<1>2. ASSUME NEW v \in UserPage, NEW u \in UserPage, at[v] = at[u] PROVE v = u
  <2>1. v \in Nat /\ u \in Nat /\ at[v] \in Nat /\ at[u] \in Nat
    BY <1>1, Sizes
  <2>2. ~(v < u) /\ ~(u < v)
    BY <1>1, <1>2, <2>1
  <2> QED BY <2>1, <2>2
<1> QED BY <1>1, <1>2
-----------------------------------------------------------------------------
(* What every step keeps, whatever the pages are numbered.                 *)

PageMap == [IdPage \cup UserPage -> Entry]

LEMMA TInvFacts ==
    ASSUME TInv
    PROVE  /\ used \in Nat /\ 1 <= used /\ used <= IdMax
           /\ kern \subseteq 1..used
           /\ table \in [Live -> PageMap] /\ Live \subseteq Process
           /\ running \in Live
           /\ content \in [Frame -> SUBSET (Mark \cup {"kernel", "image"})]
           /\ table[running] \in PageMap
<1>1. used \in Nat /\ 1 <= used /\ used <= IdMax
  BY Sizes DEF TInv, TypeOK
<1>2. table \in [Live -> PageMap]
  BY DEF TInv, Tables, PageMap
<1>3. /\ kern \subseteq 1..used /\ Live \subseteq Process /\ running \in Live
      /\ content \in [Frame -> SUBSET (Mark \cup {"kernel", "image"})]
  BY DEF TInv, TypeOK
<1> QED BY <1>1, <1>2, <1>3

LEMMA FilledType ==
    ASSUME NEW m, NEW fs,
           NEW c \in [Frame -> SUBSET (Mark \cup {"kernel", "image"})],
           NEW x \in SUBSET (Mark \cup {"kernel", "image"})
    PROVE  Filled(m, fs, c, x) \in [Frame -> SUBSET (Mark \cup {"kernel", "image"})]
BY DEF Filled

LEMMA MarkedType ==
    ASSUME NEW m, NEW v, NEW x \in Mark,
           NEW c \in [Frame -> SUBSET (Mark \cup {"kernel", "image"})]
    PROVE  Marked(m, v, c, x) \in [Frame -> SUBSET (Mark \cup {"kernel", "image"})]
BY DEF Marked

LEMMA LoadedType ==
    ASSUME NEW m \in PageMap, NEW base \in Nat, base + N <= IdMax,
           NEW at \in Placements(base)
    PROVE  /\ Loaded(AddrSpace(m), at) \in PageMap
           /\ \A v \in UserPage : Loaded(AddrSpace(m), at)[v] = Mapped(at[v])
           /\ \A f \in IdPage \ UserPage : Loaded(AddrSpace(m), at)[f] = m[f]
<1>1. \A v \in UserPage : at[v] \in Frame
  BY PlacementsType, Sizes DEF Frame
<1>2. \A v \in UserPage : Mapped(at[v]) \in Entry
  BY <1>1 DEF Mapped, Entry
<1> QED BY <1>2 DEF Loaded, AddrSpace, PageMap

\* What a fault does to the tables.
LEMMA FaultMapType ==
    ASSUME TInv, ~OutOfReach(1), NEW v \in UserPage
    PROVE  LET m == table[running]  g == m[used + 1].frame
           IN  /\ used + 1 \in IdPage /\ g \in Frame
               /\ FaultMap(m, v) \in PageMap
               /\ FaultMap(m, v)[v].frame = g
               /\ \A u \in (IdPage \cup UserPage) \ {v} : FaultMap(m, v)[u] = m[u]
<1> DEFINE m == table[running]
<1>1. m \in PageMap /\ used \in Nat
  BY TInvFacts
<1>2. used + 1 \in IdPage
  BY <1>1, Sizes DEF OutOfReach, IdPage
<1>3. m[used + 1] \in Entry
  BY <1>1, <1>2 DEF PageMap
<1> QED BY <1>1, <1>2, <1>3 DEF FaultMap, PageMap, Entry

LEMMA CopyType ==
    ASSUME NEW m \in PageMap
    PROVE  /\ CopyForChild(m) \in PageMap
           /\ CopyForParent(m) = CopyForChild(m)
           /\ \A v \in IdPage \cup UserPage :
                /\ CopyForChild(m)[v].frame = m[v].frame
                /\ ~CopyForChild(m)[v].w
BY DEF CopyForChild, CopyForParent, CowEntry, PageMap, Entry

LEMMA TypeStep ==
    ASSUME TInv, [Next]_vars
    PROVE  TInv' /\ used' >= used
<1> USE TInvFacts, Sizes
<1> DEFINE Keeps ==
      /\ used' \in Nat /\ used <= used' /\ used' <= IdMax
      /\ kern' \subseteq 1..used'
      /\ table' \in [DOMAIN table' -> PageMap]
      /\ DOMAIN table' \subseteq Process
      /\ running' \in DOMAIN table'
      /\ content' \in [Frame -> SUBSET (Mark \cup {"kernel", "image"})]
      /\ cpu' \in {"user", "hung"}
<1> SUFFICES Keeps
  <2>1. ASSUME Keeps PROVE TypeOK'
    BY <2>1 DEF TypeOK, PageMap, Live
  <2>2. ASSUME Keeps PROVE Tables'
    BY <2>2 DEF Tables, PageMap, Live
  <2> QED BY <2>1, <2>2 DEF TInv
<1>0. cpu \in {"user", "hung"} /\ Live = DOMAIN table
  BY DEF TInv, TypeOK, Live
<1>1. CASE UNCHANGED vars
  BY <1>0, <1>1 DEF vars
<1>2. CASE Hang
  BY <1>0, <1>2 DEF Hang
<1>3. ASSUME NEW v \in UserPage, NEW x \in Mark, UserWrite(v, x) PROVE Keeps
  <2> DEFINE m == table[running]
  <2>1. CASE /\ content' = Marked(m, v, content, x)
             /\ UNCHANGED <<used, kern, table, running, cpu>>
    BY <1>0, <2>1, MarkedType
  <2>2. CASE /\ ~OutOfReach(1)
             /\ used' = used + 1
             /\ table' = [table EXCEPT ![running] = FaultMap(m, v)]
             /\ content' = Marked(FaultMap(m, v), v, FaultCopy(m, v), x)
             /\ UNCHANGED <<kern, running, cpu>>
    <3>1. FaultCopy(m, v) \in [Frame -> SUBSET (Mark \cup {"kernel", "image"})]
      <4>1. m[v] \in Entry
        BY DEF PageMap
      <4> QED BY <4>1 DEF FaultCopy, Entry
    <3>2. content' \in [Frame -> SUBSET (Mark \cup {"kernel", "image"})]
      BY <2>2, <3>1, MarkedType
    <3>3. FaultMap(m, v) \in PageMap /\ used + 1 <= IdMax
      BY <2>2, FaultMapType DEF IdPage
    <3>4. table' \in [Live -> PageMap] /\ DOMAIN table' = Live
      BY <2>2, <3>3
    <3> QED BY <1>0, <2>2, <3>2, <3>3, <3>4
  <2> QED BY <1>2, <1>3, <2>1, <2>2 DEF UserWrite
<1>4. ASSUME NEW v \in UserPage, NEW x \in Mark, KernelWrite(v, x) PROVE Keeps
  BY <1>0, <1>4, MarkedType DEF KernelWrite
<1>5. ASSUME NEW c \in Process, Fork(c) PROVE Keeps
  <2> DEFINE m == table[running]
  <2>1. CASE ~Hang
    <3>1. /\ ~OutOfReach(ForkFrames)
          /\ used' = used + ForkFrames
          /\ kern' = kern \cup NextFrames(ForkFrames)
          /\ content' = Filled(m, NextFrames(ForkFrames), content, {"kernel"})
          /\ table' = [p \in Live \cup {c} |->
                         IF p = c THEN CopyForChild(m)
                         ELSE IF p = running THEN CopyForParent(m) ELSE table[p]]
          /\ running' = c
          /\ cpu' = cpu
      BY <1>5, <2>1 DEF Fork
    <3>2. content' \in [Frame -> SUBSET (Mark \cup {"kernel", "image"})]
      BY <3>1, FilledType
    <3>3. CopyForChild(m) \in PageMap /\ CopyForParent(m) \in PageMap
      BY CopyType
    <3>4. table' \in [Live \cup {c} -> PageMap] /\ DOMAIN table' = Live \cup {c}
      BY <3>1, <3>3
    <3>5. used' <= IdMax /\ kern' \subseteq 1..used' /\ used' \in Nat /\ used <= used'
      BY <3>1 DEF OutOfReach, NextFrames
    <3> QED BY <1>0, <3>1, <3>2, <3>4, <3>5
  <2> QED BY <1>2, <2>1
<1>6. ASSUME Exec PROVE Keeps
  <2> DEFINE m == table[running]  n == ExecFrames + N
  <2>1. CASE ~Hang
    <3>1. PICK at \in Placements(used + ExecFrames) :
            /\ ~OutOfReach(n)
            /\ used' = used + n
            /\ kern' = kern \cup NextFrames(ExecFrames)
            /\ table' = [table EXCEPT ![running] = Loaded(AddrSpace(m), at)]
            /\ content' = Filled(Loaded(AddrSpace(m), at), UserPage,
                            Filled(m, NextFrames(ExecFrames), content, {"kernel"}), {"image"})
            /\ running' = running /\ cpu' = cpu
      BY <1>6, <2>1 DEF Exec, N
    <3>2. used' \in Nat /\ used <= used' /\ used' <= IdMax /\ kern' \subseteq 1..used'
      BY <3>1 DEF OutOfReach, NextFrames
    <3>3. Loaded(AddrSpace(m), at) \in PageMap
      <4>1. used + ExecFrames \in Nat /\ (used + ExecFrames) + N <= IdMax
        BY <3>1, <3>2
      <4> QED BY <4>1, LoadedType
    <3>4. table' \in [Live -> PageMap] /\ DOMAIN table' = Live
      BY <3>1, <3>3
    <3>5. content' \in [Frame -> SUBSET (Mark \cup {"kernel", "image"})]
      BY <3>1, FilledType
    <3> QED BY <1>0, <3>1, <3>2, <3>4, <3>5
  <2> QED BY <1>2, <2>1
<1>7. ASSUME NEW p \in Process, Exit(p) PROVE Keeps
  BY <1>0, <1>7 DEF Exit
<1>8. ASSUME NEW p \in Process, Switch(p) PROVE Keeps
  BY <1>0, <1>8 DEF Switch
<1> QED BY <1>1, <1>3, <1>4, <1>5, <1>6, <1>7, <1>8 DEF Next
-----------------------------------------------------------------------------
(* The steps that take frames, and what they do to pages and contents.     *)

Reached(n) == \E v \in UserPage : v \in IdPage /\ v <= used + n

Faults(v, x) ==
    LET m == table[running]
    IN  /\ m[v].cow /\ ~m[v].w /\ ~OutOfReach(1)
        /\ used' = used + 1
        /\ table' = [table EXCEPT ![running] = FaultMap(m, v)]
        /\ content' = Marked(FaultMap(m, v), v, FaultCopy(m, v), x)
        /\ UNCHANGED <<kern, running, cpu>>

Forks(c) ==
    LET m == table[running]
    IN  /\ c \notin Live
        /\ ~OutOfReach(ForkFrames)
        /\ used' = used + ForkFrames
        /\ kern' = kern \cup NextFrames(ForkFrames)
        /\ content' = Filled(m, NextFrames(ForkFrames), content, {"kernel"})
        /\ table' = [p \in Live \cup {c} |->
                       IF p = c THEN CopyForChild(m)
                       ELSE IF p = running THEN CopyForParent(m) ELSE table[p]]
        /\ running' = c
        /\ UNCHANGED cpu

Loads(at) ==
    LET m == table[running]
        n == ExecFrames + N
    IN  /\ ~OutOfReach(n)
        /\ used' = used + n
        /\ kern' = kern \cup NextFrames(ExecFrames)
        /\ table' = [table EXCEPT ![running] = Loaded(AddrSpace(m), at)]
        /\ content' = Filled(Loaded(AddrSpace(m), at), UserPage,
                        Filled(m, NextFrames(ExecFrames), content, {"kernel"}), {"image"})
        /\ UNCHANGED <<running, cpu>>

\* The steps of Next, with the branches of each action apart.
LEMMA Branches ==
    ASSUME Next
    PROVE  /\ cpu = "user"
           /\ \/ Hang
              \/ \E v \in UserPage, x \in Mark :
                    \/ /\ table[running][v].w
                       /\ content' = Marked(table[running], v, content, x)
                       /\ UNCHANGED <<used, kern, table, running, cpu>>
                    \/ Faults(v, x)
                    \/ KernelWrite(v, x)
              \/ \E c \in Process : Forks(c)
              \/ \E at \in Placements(used + ExecFrames) : Loads(at)
              \/ \E p \in Process : Exit(p) \/ Switch(p)
<1>1. ASSUME NEW v \in UserPage, NEW x \in Mark, UserWrite(v, x)
      PROVE  /\ cpu = "user"
             /\ \/ Hang
                \/ /\ table[running][v].w
                   /\ content' = Marked(table[running], v, content, x)
                   /\ UNCHANGED <<used, kern, table, running, cpu>>
                \/ Faults(v, x)
  BY <1>1 DEF UserWrite, Faults
<1>2. ASSUME NEW v \in UserPage, NEW x \in Mark, KernelWrite(v, x)
      PROVE  cpu = "user"
  BY <1>2 DEF KernelWrite
<1>3. ASSUME NEW c \in Process, Fork(c)
      PROVE  cpu = "user" /\ (Hang \/ Forks(c))
  BY <1>3 DEF Fork, Forks
<1>4. ASSUME Exec
      PROVE  cpu = "user" /\ (Hang \/ \E at \in Placements(used + ExecFrames) : Loads(at))
  BY <1>4 DEF Exec, Loads, N
<1>5. ASSUME NEW p \in Process, Exit(p) \/ Switch(p)
      PROVE  cpu = "user"
  BY <1>5 DEF Exit, Switch
<1> QED BY <1>1, <1>2, <1>3, <1>4, <1>5 DEF Next

\* Frames to come are reached at their own number.
LEMMA FreshFrames ==
    ASSUME TInv, CowInv, NEW n \in Nat, ~OutOfReach(n), ~Reached(n)
    PROVE  /\ Unreached
           /\ \A g \in NextFrames(n) :
                /\ g \in IdPage \ UserPage /\ g \in Frame /\ g > used
                /\ table[running][g].frame = g
<1>1. used \in Nat /\ IdMax \in Nat /\ LastFrame \in Nat /\ IdMax <= LastFrame
  BY TInvFacts, Sizes
<1>2. \A v \in UserPage : v \in IdPage => ~(v <= used + n)
  BY DEF Reached
<1>3. Unreached
  BY <1>1, <1>2, Sizes DEF Unreached
<1>4. \A g \in NextFrames(n) : g \in IdPage /\ g \in Frame /\ g > used /\ g <= used + n
  BY <1>1 DEF NextFrames, IdPage, Frame, OutOfReach
<1>5. \A g \in NextFrames(n) : g \notin UserPage
  BY <1>2, <1>4
<1> QED BY <1>3, <1>4, <1>5, TInvFacts DEF CowInv, IdentityInv

\* A fault gives one page of the running process a frame of its own.
LEMMA FaultEffect ==
    ASSUME TInv, CowInv, NEW v \in UserPage, NEW x \in Mark, Faults(v, x), ~Reached(1)
    PROVE  /\ used' = used + 1 /\ kern' = kern /\ Live' = Live /\ running' = running
           /\ used + 1 \in Frame
           /\ table'[running][v].frame = used + 1
           /\ \A p \in Live : \A u \in IdPage \cup UserPage :
                <<p, u>> # <<running, v>> => table'[p][u] = table[p][u]
           /\ \A f \in Frame : content'[f] =
                IF f = used + 1 THEN content[table[running][v].frame] \cup {x} ELSE content[f]
<1> DEFINE m == table[running]
<1>1. used \in Nat /\ used + 1 \in NextFrames(1)
  BY TInvFacts DEF NextFrames
<1>2. m[used + 1].frame = used + 1 /\ used + 1 \in Frame
  BY <1>1, FreshFrames DEF Faults
<1>3. /\ FaultMap(m, v)[v].frame = used + 1
      /\ \A u \in (IdPage \cup UserPage) \ {v} : FaultMap(m, v)[u] = m[u]
  BY <1>2, FaultMapType DEF Faults
<1>4. table' = [table EXCEPT ![running] = FaultMap(m, v)] /\ Live' = Live
  BY TInvFacts DEF Faults, Live
<1>5. FaultCopy(m, v) = [content EXCEPT ![used + 1] = content[m[v].frame]]
  BY <1>2 DEF FaultCopy
<1>6. content' = [FaultCopy(m, v) EXCEPT ![used + 1] = @ \cup {x}]
  BY <1>3 DEF Faults, Marked
<1>7. \A f \in Frame : content'[f] =
                IF f = used + 1 THEN content[m[v].frame] \cup {x} ELSE content[f]
  BY <1>2, <1>5, <1>6, TInvFacts
<1>8. /\ table'[running][v].frame = used + 1
      /\ \A p \in Live : \A u \in IdPage \cup UserPage :
            <<p, u>> # <<running, v>> => table'[p][u] = table[p][u]
  BY <1>3, <1>4, TInvFacts
<1> QED BY <1>2, <1>4, <1>7, <1>8 DEF Faults

\* fork leaves pages and contents of the program as they are.
LEMMA ForkEffect ==
    ASSUME TInv, CowInv, NEW c \in Process, Forks(c), ~Reached(ForkFrames)
    PROVE  /\ kern' = kern \cup (used + 1 .. used + ForkFrames)
           /\ Live' = Live \cup {c} /\ c \notin Live /\ running' = c
           /\ \A u \in IdPage \cup UserPage :
                /\ table'[c][u].frame = table[running][u].frame /\ ~table'[c][u].w
                /\ table'[running][u].frame = table[running][u].frame /\ ~table'[running][u].w
           /\ \A p \in Live \ {running} : table'[p] = table[p]
           /\ \A f \in Frame : f <= used => content'[f] = content[f]
<1> DEFINE m == table[running]
<1>1. running \in Live /\ m \in PageMap /\ c \notin Live /\ running # c
  BY TInvFacts DEF Forks
<1>2. Live' = Live \cup {c} /\ table'[c] = CopyForChild(m)
      /\ table'[running] = CopyForChild(m)
      /\ \A p \in Live \ {running} : table'[p] = table[p]
  BY <1>1, CopyType DEF Forks, Live
<1>3. \A g \in NextFrames(ForkFrames) : m[g].frame > used
  BY FreshFrames, Sizes DEF Forks
<1>4. \A f \in Frame : f <= used => content'[f] = content[f]
  BY <1>3, TInvFacts DEF Forks, Filled, Frame
<1> QED BY <1>1, <1>2, <1>4, CopyType DEF Forks, NextFrames

\* execve gives every page of the running process a frame of its own.
LEMMA LoadEffect ==
    ASSUME TInv, CowInv, NEW at \in Placements(used + ExecFrames), Loads(at),
           ~Reached(ExecFrames + N)
    PROVE  /\ kern' = kern \cup (used + 1 .. used + ExecFrames)
           /\ Live' = Live /\ running' = running
           /\ at \in [UserPage -> used + ExecFrames + 1 .. used']
           /\ \A v, u \in UserPage : at[v] = at[u] => v = u
           /\ \A v \in UserPage : at[v] \in Frame /\ table'[running][v] = Mapped(at[v])
           /\ \A f \in IdPage \ UserPage : table'[running][f] = table[running][f]
           /\ \A p \in Live \ {running} : table'[p] = table[p]
           /\ \A f \in Frame : f <= used => content'[f] = content[f]
           /\ \A v \in UserPage : content'[at[v]] = {"image"}
<1> DEFINE m == table[running]  l == Loaded(AddrSpace(m), at)
           c == Filled(m, NextFrames(ExecFrames), content, {"kernel"})
<1>1. /\ used \in Nat /\ N \in Nat /\ ExecFrames \in Nat /\ ExecFrames + N \in Nat
      /\ running \in Live /\ m \in PageMap
      /\ IdMax \in Nat /\ LastFrame \in Nat /\ IdMax <= LastFrame
  BY TInvFacts, Sizes
<1>2. used + ExecFrames \in Nat /\ (used + ExecFrames) + N <= IdMax
      /\ used' = (used + ExecFrames) + N
  BY <1>1 DEF Loads, OutOfReach
<1>3. /\ at \in [UserPage -> used + ExecFrames + 1 .. used']
      /\ \A v, u \in UserPage : at[v] = at[u] => v = u
  BY <1>2, PlacementsType
<1>4. \A v \in UserPage : at[v] \in Frame /\ at[v] > used
  BY <1>1, <1>2, <1>3 DEF Frame
<1>5. /\ \A v \in UserPage : l[v] = Mapped(at[v])
      /\ \A f \in IdPage \ UserPage : l[f] = m[f]
  BY <1>1, <1>2, LoadedType
<1>6. /\ Live' = Live /\ table'[running] = l
      /\ \A p \in Live \ {running} : table'[p] = table[p]
  BY <1>1, TInvFacts DEF Loads, Live
<1>7. \A g \in NextFrames(ExecFrames) : m[g].frame > used
  <2>1. NextFrames(ExecFrames) \subseteq NextFrames(ExecFrames + N)
    BY <1>1 DEF NextFrames
  <2>2. \A g \in NextFrames(ExecFrames + N) : g > used /\ m[g].frame = g
    BY <1>1, FreshFrames DEF Loads
  <2> QED BY <2>1, <2>2
<1>8. \A f \in Frame : f <= used => c[f] = content[f]
  BY <1>1, <1>7 DEF Filled, Frame
<1>9. content' = [f \in Frame |-> IF \E v \in UserPage : l[v].frame = f THEN {"image"} ELSE c[f]]
  BY DEF Loads, Filled
<1>10. \A v \in UserPage : l[v].frame = at[v]
  <2>1. \A f : Mapped(f).frame = f
    BY DEF Mapped
  <2> HIDE DEF l
  <2> QED BY <1>5, <2>1
<1> HIDE DEF l, c
<1>11. \A f \in Frame : f <= used => content'[f] = content[f]
  BY <1>1, <1>4, <1>8, <1>9, <1>10 DEF Frame
<1>12. \A v \in UserPage : content'[at[v]] = {"image"}
  BY <1>4, <1>9, <1>10
<1> QED BY <1>3, <1>4, <1>5, <1>6, <1>11, <1>12 DEF Loads, NextFrames
-----------------------------------------------------------------------------
(* The invariant of copy on write.                                         *)

LEMMA ReachedAfter ==
    ASSUME TInv, Unreached', NEW n \in Nat, used' = used + n
    PROVE  ~Reached(n)
<1>1. \A v \in UserPage : v \in IdPage => used + n < v
  BY DEF Unreached, IdPage
<1> QED BY <1>1, TInvFacts, Sizes DEF Reached

\* What is left of the invariant is about frames only.
LEMMA CowFrames ==
    ASSUME TInv, CowInv, NEW p \in Live, NEW v \in UserPage
    PROVE  /\ table[p][v].frame \in Frame /\ table[p][v].frame \in Nat
           /\ table[p][v].frame <= used /\ table[p][v].frame \notin kern
<1>1. table[p][v] \in Entry
  BY TInvFacts DEF PageMap
<1> QED BY <1>1, TInvFacts, Sizes DEF CowInv, FrameInv, Entry, Frame

LEMMA FaultCow ==
    ASSUME TInv, CowInv, NEW v \in UserPage, NEW x \in Mark, Faults(v, x), ~Reached(1)
    PROVE  CowInv'
<1> USE TInvFacts, Sizes
<1>1. /\ used' = used + 1 /\ kern' = kern /\ Live' = Live
      /\ table'[running][v].frame = used + 1
      /\ \A p \in Live : \A u \in IdPage \cup UserPage :
            <<p, u>> # <<running, v>> => table'[p][u] = table[p][u]
  BY FaultEffect
<1>2. \A p \in Live : \A u \in UserPage :
         <<p, u>> # <<running, v>> => table'[p][u] = table[p][u] /\ table'[p][u].frame # used + 1
  BY <1>1, CowFrames
<1>3. IdentityInv'
  BY <1>1 DEF CowInv, IdentityInv
<1>4. FrameInv'
  <2>1. used + 1 \in (1..used') \ kern
    BY <1>1
  <2>2. \A p \in Live : \A u \in UserPage : table[p][u].frame \in (1..used') \ kern
    BY <1>1, CowFrames DEF CowInv, FrameInv
  <2> QED BY <1>1, <1>2, <2>1, <2>2 DEF FrameInv
<1>5. SharedInv'
  BY <1>1, <1>2 DEF CowInv, SharedInv
<1>6. WriterInv'
  BY <1>1, <1>2 DEF CowInv, WriterInv
<1> QED BY <1>3, <1>4, <1>5, <1>6 DEF CowInv

LEMMA ForkCow ==
    ASSUME TInv, CowInv, NEW c \in Process, Forks(c), ~Reached(ForkFrames)
    PROVE  CowInv'
<1> DEFINE from(p) == IF p = c THEN running ELSE p
<1>1. /\ running \in Live /\ used \in Nat
      /\ kern' = kern \cup (used + 1 .. used + ForkFrames)
      /\ used' = used + ForkFrames /\ ForkFrames \in Nat
      /\ Live' = Live \cup {c} /\ c \notin Live
  BY TInvFacts, Sizes, ForkEffect DEF Forks
<1>2. \A p \in Live' : from(p) \in Live
  BY <1>1
<1>3. \A p \in Live' : \A u \in IdPage \cup UserPage :
         /\ table'[p][u].frame = table[from(p)][u].frame
         /\ table'[p][u].w => p \in Live \ {running} /\ table[p][u].w
  BY <1>1, ForkEffect
<1> HIDE DEF from
<1>4. IdentityInv'
  BY <1>2, <1>3 DEF CowInv, IdentityInv
<1>5. FrameInv'
  <2> SUFFICES ASSUME NEW p \in Live', NEW u \in UserPage
               PROVE  table'[p][u].frame \in (1..used') \ kern'
    BY DEF FrameInv
  <2>1. table[from(p)][u].frame \in (1..used) \ kern
    BY <1>2 DEF CowInv, FrameInv
  <2> QED BY <1>1, <1>3, <2>1
<1>6. SharedInv'
  BY <1>2, <1>3 DEF CowInv, SharedInv
<1>7. WriterInv'
  <2> SUFFICES ASSUME NEW p \in Live', NEW q \in Live', NEW u \in UserPage,
                      table'[p][u].w, table'[p][u].frame = table'[q][u].frame
               PROVE  p = q
    BY DEF WriterInv
  <2>1. p \in Live \ {running} /\ table[p][u].w /\ from(p) = p
    BY <1>1, <1>3 DEF from
  <2>2. p = from(q)
    BY <1>2, <1>3, <2>1 DEF CowInv, WriterInv
  <2> QED BY <2>1, <2>2 DEF from
<1> QED BY <1>4, <1>5, <1>6, <1>7 DEF CowInv

LEMMA LoadCow ==
    ASSUME TInv, CowInv, NEW at \in Placements(used + ExecFrames), Loads(at),
           ~Reached(ExecFrames + N)
    PROVE  CowInv'
<1>1. /\ running \in Live /\ used \in Nat
      /\ kern' = kern \cup (used + 1 .. used + ExecFrames)
      /\ used' = used + (ExecFrames + N) /\ ExecFrames \in Nat /\ N \in Nat
      /\ Live' = Live
      /\ kern \subseteq 1..used
  BY TInvFacts, Sizes, LoadEffect DEF Loads
<1>2. /\ at \in [UserPage -> used + ExecFrames + 1 .. used']
      /\ \A v, u \in UserPage : at[v] = at[u] => v = u
  BY LoadEffect
<1>3. \A u \in UserPage : at[u] \in Nat /\ at[u] > used /\ at[u] \in (1..used') \ kern'
  BY <1>1, <1>2
<1>4. \A u \in UserPage : table'[running][u].frame = at[u]
  <2>1. \A f : Mapped(f).frame = f
    BY DEF Mapped
  <2> QED BY <2>1, LoadEffect
<1>5. \A p \in Live \ {running} : table'[p] = table[p]
  BY LoadEffect
<1>6. \A p \in Live : \A u \in UserPage :
        table[p][u].frame \in (1..used') \ kern' /\ table[p][u].frame <= used
  BY <1>1, CowFrames DEF CowInv, FrameInv
<1>7. \A p \in Live : \A u, v \in UserPage : table[p][u].frame # at[v]
  BY <1>1, <1>3, <1>6
<1>8. IdentityInv'
  BY <1>1, <1>5, LoadEffect DEF CowInv, IdentityInv
<1>9. FrameInv'
  BY <1>1, <1>3, <1>4, <1>5, <1>6 DEF FrameInv
<1>10. SharedInv'
  BY <1>1, <1>2, <1>4, <1>5, <1>7 DEF CowInv, SharedInv
<1>11. WriterInv'
  BY <1>1, <1>2, <1>4, <1>5, <1>7 DEF CowInv, WriterInv
<1> QED BY <1>8, <1>9, <1>10, <1>11 DEF CowInv

LEMMA CowStep ==
    ASSUME TInv, CowInv, Unreached', [Next]_vars
    PROVE  CowInv'
<1>1. CASE UNCHANGED <<used, kern, table>>
  BY <1>1 DEF CowInv, IdentityInv, FrameInv, SharedInv, WriterInv, Live
<1>2. ASSUME NEW v \in UserPage, NEW x \in Mark, Faults(v, x) PROVE CowInv'
  BY <1>2, FaultCow, ReachedAfter DEF Faults
<1>3. ASSUME NEW c \in Process, Forks(c) PROVE CowInv'
  BY <1>3, ForkCow, ReachedAfter, Sizes DEF Forks
<1>4. ASSUME NEW at \in Placements(used + ExecFrames), Loads(at) PROVE CowInv'
  <2>1. ExecFrames + N \in Nat
    BY Sizes
  <2> QED BY <1>4, <2>1, LoadCow, ReachedAfter DEF Loads
<1>5. ASSUME NEW p \in Process, Exit(p) PROVE CowInv'
  <2>1. /\ Live' = Live \ {running} /\ used' = used /\ kern' = kern
        /\ \A q \in Live' : table'[q] = table[q]
    BY <1>5 DEF Exit, Live
  <2> QED BY <2>1 DEF CowInv, IdentityInv, FrameInv, SharedInv, WriterInv
<1>6. CASE Hang \/ UNCHANGED vars
  BY <1>1, <1>6 DEF Hang, vars
<1>7. ASSUME NEW p \in Process, Switch(p) PROVE CowInv'
  BY <1>1, <1>7 DEF Switch
<1>8. ASSUME NEW v \in UserPage, NEW x \in Mark, KernelWrite(v, x) PROVE CowInv'
  BY <1>1, <1>8 DEF KernelWrite
<1> QED BY <1>1, <1>2, <1>3, <1>4, <1>5, <1>6, <1>7, <1>8, Branches

LEMMA InitInv ==
    ASSUME Init
    PROVE  IInv
<1>1. PICK at \in Placements(BootFrames + ExecFrames) :
         table = [p \in {1} |-> Loaded(AddrSpace(BootMap), at)]
  BY DEF Init
<1>2. /\ BootFrames + ExecFrames \in Nat /\ (BootFrames + ExecFrames) + N <= IdMax
      /\ used = (BootFrames + ExecFrames) + N /\ used \in 1..IdMax
      /\ kern = 1..BootFrames + ExecFrames /\ kern \subseteq 1..used
  BY Sizes DEF Init, N
<1>3. BootMap \in [IdPage -> Entry] /\ \A f \in IdPage : BootMap[f] = Mapped(f)
  BY Sizes DEF BootMap, IdPage, Mapped, Entry, Frame
<1>4. /\ at \in [UserPage -> BootFrames + ExecFrames + 1 .. used]
      /\ \A v, u \in UserPage : at[v] = at[u] => v = u
  BY <1>2, PlacementsType
<1>5. \A v \in UserPage : at[v] \in Frame /\ at[v] \in (1..used) \ kern /\ Mapped(at[v]) \in Entry
  BY <1>2, <1>4, Sizes DEF Frame, Mapped, Entry
<1>6. Live = {1}
  BY <1>1 DEF Live
<1>7. /\ table[1] \in PageMap
      /\ \A v \in UserPage : table[1][v] = Mapped(at[v])
      /\ \A f \in IdPage \ UserPage : table[1][f] = Mapped(f)
  BY <1>1, <1>3, <1>5 DEF Loaded, AddrSpace, PageMap
<1>8. table \in [Live -> PageMap]
  BY <1>1, <1>6, <1>7
<1>9. TInv
  <2>1. content \in [Frame -> SUBSET (Mark \cup {"kernel", "image"})]
    BY DEF Init
  <2>2. running \in Live /\ cpu \in {"user", "hung"} /\ Live \subseteq Process
    BY <1>6, MemoryAssumption DEF Init
  <2>3. \A p \in Live : table[p] \in [IdPage \cup UserPage -> Entry]
    BY <1>6, <1>7 DEF PageMap
  <2>4. TypeOK
    BY <1>2, <2>1, <2>2, <2>3 DEF TypeOK
  <2> QED BY <1>8, <2>4 DEF TInv, Tables, PageMap
<1>10. \A f : Mapped(f).frame = f
  BY DEF Mapped
<1>11. CowInv
  <2>1. IdentityInv
    BY <1>6, <1>7, <1>10 DEF IdentityInv
  <2>2. FrameInv
    BY <1>5, <1>6, <1>7, <1>10 DEF FrameInv
  <2>3. SharedInv
    BY <1>4, <1>6, <1>7, <1>10 DEF SharedInv
  <2>4. WriterInv
    BY <1>6 DEF WriterInv
  <2> QED BY <2>1, <2>2, <2>3, <2>4 DEF CowInv
<1> QED BY <1>9, <1>11 DEF IInv

\* Of the pages handed out in a step's end, all were unreached before.
LEMMA InvStep ==
    ASSUME IInv, [Next]_vars
    PROVE  IInv'
<1>1. TInv /\ TInv' /\ used' >= used
  BY TypeStep DEF IInv
<1>2. Unreached' => Unreached
  BY <1>1, TInvFacts, Sizes DEF Unreached, IdPage, TInv, TypeOK
<1> QED BY <1>1, <1>2, CowStep DEF IInv

\* The inductive invariant holds in every reachable state.
THEOREM Invariance == Spec => []IInv
<1>1. Init => IInv
  BY InitInv
<1>2. IInv /\ [Next]_vars => IInv'
  BY InvStep
<1> QED BY <1>1, <1>2, PTL DEF Spec

\* Type correctness, whatever the user pages are.
THEOREM TypeCorrect == Spec => []TypeOK
<1>1. IInv => TypeOK
  BY DEF IInv, TInv
<1> QED BY <1>1, Invariance, PTL

\* Copy on write is sound until page_alloc reaches the number of a user page.
THEOREM CowSound == Spec => [](Unreached => CowExclusive)
<1>1. CowInv => CowExclusive
  <2> SUFFICES ASSUME CowInv, NEW p \in Live, NEW q \in Live,
                      NEW v \in UserPage, NEW u \in UserPage, table[p][v].w
               PROVE  /\ table[p][v].frame \notin kern
                      /\ <<p, v>> # <<q, u>> => table[p][v].frame # table[q][u].frame
    BY DEF CowExclusive
  <2> QED BY DEF CowInv, FrameInv, SharedInv, WriterInv
<1>2. IInv => (Unreached => CowExclusive)
  BY <1>1 DEF IInv
<1> QED BY <1>2, Invariance, PTL

\* Until then kmalloc's structures are where it said, whatever process runs.
THEOREM KernelStaysMapped == Spec => [](Unreached => KernelMapped)
<1>1. ASSUME IInv, Unreached PROVE KernelMapped
  <2>1. TInv /\ IdentityInv
    BY <1>1 DEF IInv, CowInv
  <2>2. kern \subseteq IdPage \ UserPage
    BY <1>1, <2>1, TInvFacts, Sizes DEF Unreached, IdPage
  <2> QED BY <2>1, <2>2 DEF IdentityInv, KernelMapped
<1> QED BY <1>1, Invariance, PTL
-----------------------------------------------------------------------------
(* What the programs see.                                                  *)

Mem == [p \in Live |-> View(p)]

LEMMA MemAt ==
    /\ DOMAIN Mem = Live
    /\ \A p \in Live : DOMAIN Mem[p] = UserPage /\ Mem[p] = View(p)
    /\ \A p \in Live : \A v \in UserPage : Mem[p][v] = content[table[p][v].frame]
BY DEF Mem, View

LEMMA MemAtNext ==
    /\ DOMAIN Mem' = Live'
    /\ \A p \in Live' : DOMAIN Mem'[p] = UserPage
    /\ \A p \in Live' : \A v \in UserPage : Mem'[p][v] = content'[table'[p][v].frame]
BY DEF Mem, View

\* To know the memories after a step, page by page is enough.
LEMMA MemEqual ==
    ASSUME NEW M, DOMAIN M = Live', M = [p \in DOMAIN M |-> M[p]],
           \A p \in Live' : M[p] = [u \in UserPage |-> M[p][u]],
           \A p \in Live' : \A u \in UserPage : content'[table'[p][u].frame] = M[p][u]
    PROVE  Mem' = M
<1>1. \A p \in Live' : View(p)' = M[p]
  BY DEF View
<1>2. Mem' = [p \in Live' |-> View(p)']
  BY DEF Mem
<1> QED BY <1>1, <1>2

\* The memories after mark x is put into page v of the processes in R.
Stored(R, v, x) ==
    [p \in Live |-> [u \in UserPage |->
        IF p \in R /\ u = v THEN Mem[p][u] \cup {x} ELSE Mem[p][u]]]

LEMMA StoredPlus ==
    ASSUME NEW v \in UserPage, NEW x, NEW R
    PROVE  Stored(R, v, x) =
             [p \in Live |-> IF p \in R THEN [Mem[p] EXCEPT ![v] = Mem[p][v] \cup {x}]
                             ELSE Mem[p]]
<1>1. \A p \in Live : Mem[p] = [u \in UserPage |-> Mem[p][u]]
  BY DEF Mem, View
<1>2. ASSUME NEW p \in Live
      PROVE  Stored(R, v, x)[p] =
                IF p \in R THEN [Mem[p] EXCEPT ![v] = Mem[p][v] \cup {x}] ELSE Mem[p]
  <2> DEFINE m == Mem[p]
  <2>1. m = [u \in UserPage |-> m[u]]
    BY <1>1
  <2>2. Stored(R, v, x)[p] =
          [u \in UserPage |-> IF p \in R /\ u = v THEN m[u] \cup {x} ELSE m[u]]
    BY DEF Stored
  <2> HIDE DEF m
  <2>3. CASE p \in R
    <3>1. Stored(R, v, x)[p] = [u \in UserPage |-> IF u = v THEN m[u] \cup {x} ELSE m[u]]
      BY <2>2, <2>3
    <3>2. [m EXCEPT ![v] = m[v] \cup {x}]
            = [u \in UserPage |-> IF u = v THEN m[u] \cup {x} ELSE m[u]]
      BY <2>1
    <3> QED BY <2>3, <3>1, <3>2 DEF m
  <2>4. CASE p \notin R
    BY <2>1, <2>2, <2>4 DEF m
  <2> QED BY <2>3, <2>4
<1>3. Stored(R, v, x) = [p \in Live |-> Stored(R, v, x)[p]]
  BY DEF Stored
<1> QED BY <1>2, <1>3

LEMMA StoreMem ==
    ASSUME NEW v \in UserPage, NEW x, NEW R, Live' = Live,
           \A p \in Live : \A u \in UserPage :
              content'[table'[p][u].frame] = Stored(R, v, x)[p][u]
    PROVE  Mem' = Stored(R, v, x)
<1> DEFINE M == Stored(R, v, x)
<1>1. /\ DOMAIN M = Live' /\ M = [p \in DOMAIN M |-> M[p]]
      /\ \A p \in Live' : M[p] = [u \in UserPage |-> M[p][u]]
  BY DEF Stored
<1> HIDE DEF M
<1>2. Mem' = M
  BY <1>1, MemEqual DEF M
<1> QED BY <1>2 DEF M

\* A write without a fault.
LEMMA WriteMem ==
    ASSUME TInv, CowInv, NEW v \in UserPage, NEW x \in Mark,
           table[running][v].w,
           content' = Marked(table[running], v, content, x),
           UNCHANGED table
    PROVE  Mem' = Stored({running}, v, x)
<1> DEFINE a == table[running][v].frame
           R == {running}
<1>1. running \in Live /\ Live' = Live /\ a \in Frame
  BY TInvFacts, CowFrames DEF Live
<1>2. \A p \in Live : \A u \in UserPage : table[p][u].frame = a => p = running /\ u = v
  BY <1>1 DEF CowInv, SharedInv, WriterInv
<1>3. \A f \in Frame : content'[f] = IF f = a THEN content[a] \cup {x} ELSE content[f]
  BY <1>1, TInvFacts DEF Marked
<1>4. ASSUME NEW p \in Live, NEW u \in UserPage
      PROVE  content'[table'[p][u].frame] =
                IF p \in R /\ u = v THEN Mem[p][u] \cup {x} ELSE Mem[p][u]
  <2>1. Mem[p][u] = content[table[p][u].frame] /\ table[p][u].frame \in Frame
    BY MemAt, CowFrames
  <2>2. table'[p][u].frame = table[p][u].frame
    OBVIOUS
  <2>3. CASE table[p][u].frame = a
    <3>1. p = running /\ u = v
      BY <1>2, <2>3
    <3>2. content'[a] = content[a] \cup {x}
      BY <1>1, <1>3
    <3> HIDE DEF a
    <3> QED BY <2>1, <2>2, <2>3, <3>1, <3>2
  <2>4. CASE table[p][u].frame # a
    <3>1. ~(p = running /\ u = v)
      BY <2>4
    <3>2. content'[table[p][u].frame] = content[table[p][u].frame]
      BY <1>3, <2>1, <2>4
    <3> QED BY <2>1, <2>2, <3>1, <3>2
  <2> QED BY <2>3, <2>4
<1>5. \A p \in Live : \A u \in UserPage :
         content'[table'[p][u].frame] = Stored(R, v, x)[p][u]
  BY <1>4 DEF Stored
<1> QED BY <1>1, <1>5, StoreMem

\* A write with a fault.
LEMMA FaultMem ==
    ASSUME TInv, CowInv, NEW v \in UserPage, NEW x \in Mark, Faults(v, x), ~Reached(1)
    PROVE  Mem' = Stored({running}, v, x)
<1> DEFINE R == {running}
<1>1. running \in Live /\ Live' = Live /\ used \in Nat /\ used + 1 \in Frame
  BY TInvFacts, FaultEffect
<1>a. /\ content'[used + 1] = content[table[running][v].frame] \cup {x}
      /\ \A f \in Frame : f # used + 1 => content'[f] = content[f]
  BY <1>1, FaultEffect
<1>b. /\ table'[running][v].frame = used + 1
      /\ \A p \in Live : \A u \in UserPage :
           ~(p = running /\ u = v) => table'[p][u] = table[p][u]
  <2>1. \A p \in Live : \A u \in IdPage \cup UserPage :
           <<p, u>> # <<running, v>> => table'[p][u] = table[p][u]
    BY FaultEffect
  <2>2. table'[running][v].frame = used + 1
    BY FaultEffect
  <2> QED BY <2>1, <2>2
<1>2. ASSUME NEW p \in Live, NEW u \in UserPage
      PROVE  content'[table'[p][u].frame] =
                IF p \in R /\ u = v THEN Mem[p][u] \cup {x} ELSE Mem[p][u]
  <2>1. /\ Mem[p][u] = content[table[p][u].frame] /\ table[p][u].frame \in Frame
        /\ table[p][u].frame # used + 1
    BY <1>1, MemAt, CowFrames
  <2>2. CASE p = running /\ u = v
    <3>1. table'[p][u].frame = used + 1
      BY <1>b, <2>2
    <3> QED BY <1>a, <2>1, <2>2, <3>1
  <2>3. CASE ~(p = running /\ u = v)
    <3>1. table'[p][u] = table[p][u]
      BY <1>b, <2>3
    <3>2. content'[table[p][u].frame] = content[table[p][u].frame]
      BY <1>a, <2>1
    <3> QED BY <2>1, <2>3, <3>1, <3>2
  <2> QED BY <2>2, <2>3
<1>3. \A p \in Live : \A u \in UserPage :
         content'[table'[p][u].frame] = Stored(R, v, x)[p][u]
  BY <1>2 DEF Stored
<1> QED BY <1>1, <1>3, StoreMem

\* The store of a system call, in all the processes that share the frame.
LEMMA KernelMem ==
    ASSUME TInv, CowInv, NEW v \in UserPage, NEW x \in Mark, KernelWrite(v, x)
    PROVE  \E R \in SUBSET {p \in Live : Mem[p][v] = Mem[running][v]} :
              /\ running \in R
              /\ Mem' = Stored(R, v, x)
<1> DEFINE a == table[running][v].frame
           R == {p \in Live : table[p][v].frame = a}
<1>1. running \in Live /\ Live' = Live /\ a \in Frame /\ table' = table
  BY TInvFacts, CowFrames DEF Live, KernelWrite
<1>2. \A p \in Live : \A u \in UserPage : table[p][u].frame = a <=> p \in R /\ u = v
  BY <1>1 DEF CowInv, SharedInv
<1>3. \A f \in Frame : content'[f] = IF f = a THEN content[a] \cup {x} ELSE content[f]
  BY <1>1, TInvFacts DEF KernelWrite, Marked
<1>4. ASSUME NEW p \in Live, NEW u \in UserPage
      PROVE  content'[table'[p][u].frame] =
                IF p \in R /\ u = v THEN Mem[p][u] \cup {x} ELSE Mem[p][u]
  <2>1. Mem[p][u] = content[table[p][u].frame] /\ table[p][u].frame \in Frame
    BY MemAt, CowFrames
  <2> HIDE DEF R
  <2> QED BY <1>1, <1>2, <1>3, <2>1
<1>5. R \in SUBSET {p \in Live : Mem[p][v] = Mem[running][v]} /\ running \in R
  BY <1>1, MemAt
<1> HIDE DEF R
<1>6. \A p \in Live : \A u \in UserPage :
         content'[table'[p][u].frame] = Stored(R, v, x)[p][u]
  BY <1>4 DEF Stored
<1>7. Mem' = Stored(R, v, x)
  BY <1>1, <1>6, StoreMem
<1> QED BY <1>5, <1>7

LEMMA ForkMem ==
    ASSUME TInv, CowInv, NEW c \in Process, Forks(c), ~Reached(ForkFrames)
    PROVE  Mem' = [p \in Live \cup {c} |-> IF p = c THEN Mem[running] ELSE Mem[p]]
<1> DEFINE M == [p \in Live \cup {c} |-> IF p = c THEN Mem[running] ELSE Mem[p]]
           from(p) == IF p = c THEN running ELSE p
<1>1. running \in Live /\ Live' = Live \cup {c} /\ c \notin Live
  BY TInvFacts, ForkEffect
<1>2. \A p \in Live' : from(p) \in Live /\ M[p] = Mem[from(p)]
  BY <1>1
<1>3. DOMAIN M = Live' /\ M = [p \in DOMAIN M |-> M[p]]
  BY <1>1
<1>4. \A p \in Live : Mem[p] = [u \in UserPage |-> Mem[p][u]]
  BY DEF Mem, View
<1>5. \A p \in Live' : \A u \in UserPage : table'[p][u].frame = table[from(p)][u].frame
  BY <1>1, ForkEffect
<1>6. \A f \in Frame : f <= used => content'[f] = content[f]
  BY ForkEffect
<1> HIDE DEF M, from
<1>7. ASSUME NEW p \in Live', NEW u \in UserPage
      PROVE  content'[table'[p][u].frame] = M[p][u]
  <2>1. from(p) \in Live /\ M[p] = Mem[from(p)]
    BY <1>2
  <2>2. Mem[from(p)][u] = content[table[from(p)][u].frame]
    BY <2>1, MemAt
  <2>3. content'[table[from(p)][u].frame] = content[table[from(p)][u].frame]
    BY <1>6, <2>1, CowFrames
  <2> QED BY <1>5, <2>1, <2>2, <2>3
<1>8. \A p \in Live' : M[p] = [u \in UserPage |-> M[p][u]]
  BY <1>2, <1>4
<1>9. Mem' = M
  BY <1>3, <1>7, <1>8, MemEqual
<1> QED BY <1>9 DEF M

LEMMA LoadMem ==
    ASSUME TInv, CowInv, NEW at \in Placements(used + ExecFrames), Loads(at),
           ~Reached(ExecFrames + N)
    PROVE  Mem' = [Mem EXCEPT ![running] = [v \in UserPage |-> {"image"}]]
<1> DEFINE M == [Mem EXCEPT ![running] = [v \in UserPage |-> {"image"}]]
<1>1. running \in Live /\ Live' = Live /\ DOMAIN Mem = Live
  BY TInvFacts, LoadEffect, MemAt
<1>2. \A p \in Live : Mem[p] = [u \in UserPage |-> Mem[p][u]]
  BY DEF Mem, View
<1>3. /\ DOMAIN M = Live' /\ M = [p \in DOMAIN M |-> M[p]]
      /\ M[running] = [v \in UserPage |-> {"image"}]
      /\ \A p \in Live \ {running} : M[p] = Mem[p]
  BY <1>1
<1> HIDE DEF M
<1>4. \A p \in Live' : M[p] = [u \in UserPage |-> M[p][u]]
  BY <1>1, <1>2, <1>3
<1>5. ASSUME NEW p \in Live', NEW u \in UserPage
      PROVE  content'[table'[p][u].frame] = M[p][u]
  <2>1. CASE p = running
    <3>1. table'[p][u].frame = at[u]
      <4>1. \A f : Mapped(f).frame = f
        BY DEF Mapped
      <4> QED BY <2>1, <4>1, LoadEffect
    <3>2. content'[at[u]] = {"image"}
      BY LoadEffect
    <3>3. M[p][u] = {"image"}
      BY <1>3, <2>1
    <3> QED BY <3>1, <3>2, <3>3
  <2>2. CASE p # running
    <3>1. table'[p] = table[p] /\ p \in Live
      BY <1>1, <2>2, LoadEffect
    <3>2. content'[table[p][u].frame] = content[table[p][u].frame]
      BY <3>1, CowFrames, LoadEffect
    <3> QED BY <1>3, <2>2, <3>1, <3>2, MemAt
  <2> QED BY <2>1, <2>2
<1>6. Mem' = M
  BY <1>3, <1>4, <1>5, MemEqual
<1> QED BY <1>6 DEF M

LEMMA ExitMem ==
    ASSUME NEW p \in Process, Exit(p)
    PROVE  Mem' = [q \in Live \ {running} |-> Mem[q]]
<1>1. /\ Live' = Live \ {running} /\ content' = content
      /\ \A q \in Live' : table'[q] = table[q]
  BY DEF Exit, Live
<1> QED BY <1>1 DEF Mem, View

\* What a step does to the memories, whichever it is.
LEMMA MemStep ==
    ASSUME TInv, CowInv, Unreached', Next
    PROVE  /\ cpu = "user"
           /\ \/ Mem' = Mem /\ running' = running /\ cpu' = "hung"
              \/ \E v \in UserPage, x \in Mark :
                    Mem' = Stored({running}, v, x) /\ UNCHANGED <<running, cpu>>
              \/ \E v \in UserPage, x \in Mark :
                    /\ KernelWrite(v, x)
                    /\ \E R \in SUBSET {p \in Live : Mem[p][v] = Mem[running][v]} :
                          running \in R /\ Mem' = Stored(R, v, x)
                    /\ UNCHANGED <<running, cpu>>
              \/ \E c \in Process :
                    /\ c \notin Live
                    /\ Mem' = [p \in Live \cup {c} |-> IF p = c THEN Mem[running] ELSE Mem[p]]
                    /\ running' = c /\ cpu' = cpu
              \/ /\ Mem' = [Mem EXCEPT ![running] = [v \in UserPage |-> {"image"}]]
                 /\ UNCHANGED <<running, cpu>>
              \/ \E p \in Process :
                    /\ p \in Live \ {running}
                    /\ Mem' = [q \in Live \ {running} |-> Mem[q]]
                    /\ running' = p /\ cpu' = cpu
              \/ \E p \in Process :
                    /\ p \in Live \ {running}
                    /\ Mem' = Mem /\ running' = p /\ cpu' = cpu
<1>1. cpu = "user"
  BY Branches
<1>2. CASE Hang
  BY <1>1, <1>2 DEF Hang, Mem, View, Live
<1>3. ASSUME NEW v \in UserPage, NEW x \in Mark,
             /\ table[running][v].w
             /\ content' = Marked(table[running], v, content, x)
             /\ UNCHANGED <<used, kern, table, running, cpu>>
      PROVE  Mem' = Stored({running}, v, x) /\ UNCHANGED <<running, cpu>>
  BY <1>3, WriteMem
<1>4. ASSUME NEW v \in UserPage, NEW x \in Mark, Faults(v, x)
      PROVE  Mem' = Stored({running}, v, x) /\ UNCHANGED <<running, cpu>>
  BY <1>4, FaultMem, ReachedAfter DEF Faults
<1>5. ASSUME NEW v \in UserPage, NEW x \in Mark, KernelWrite(v, x)
      PROVE  /\ \E R \in SUBSET {p \in Live : Mem[p][v] = Mem[running][v]} :
                   running \in R /\ Mem' = Stored(R, v, x)
             /\ UNCHANGED <<running, cpu>>
  <2>1. UNCHANGED <<running, cpu>>
    BY <1>5 DEF KernelWrite
  <2> QED BY <1>5, <2>1, KernelMem
<1>6. ASSUME NEW c \in Process, Forks(c)
      PROVE  /\ c \notin Live
             /\ Mem' = [p \in Live \cup {c} |-> IF p = c THEN Mem[running] ELSE Mem[p]]
             /\ running' = c /\ cpu' = cpu
  BY <1>6, ForkMem, ReachedAfter, Sizes DEF Forks
<1>7. ASSUME NEW at \in Placements(used + ExecFrames), Loads(at)
      PROVE  /\ Mem' = [Mem EXCEPT ![running] = [v \in UserPage |-> {"image"}]]
             /\ UNCHANGED <<running, cpu>>
  <2>1. ExecFrames + N \in Nat
    BY Sizes
  <2> QED BY <1>7, <2>1, LoadMem, ReachedAfter DEF Loads
<1>8. ASSUME NEW p \in Process, Exit(p)
      PROVE  /\ p \in Live \ {running}
             /\ Mem' = [q \in Live \ {running} |-> Mem[q]]
             /\ running' = p /\ cpu' = cpu
  BY <1>8, ExitMem DEF Exit
<1>9. ASSUME NEW p \in Process, Switch(p)
      PROVE  /\ p \in Live \ {running}
             /\ Mem' = Mem /\ running' = p /\ cpu' = cpu
  BY <1>9 DEF Switch, Mem, View, Live
<1> QED BY <1>1, <1>2, <1>3, <1>4, <1>5, <1>6, <1>7, <1>8, <1>9, Branches

LEMMA OthersStep ==
    ASSUME TInv, CowInv, Unreached', Next,
           ~(\E v \in UserPage, x \in Mark : KernelWrite(v, x)),
           NEW p \in Live \ {running}, p \in Live'
    PROVE  View(p)' = View(p)
<1>1. Mem[p] = View(p) /\ DOMAIN Mem = Live /\ running \in Live
  BY MemAt, TInvFacts
<1>2. Mem'[p] = View(p)'
  BY DEF Mem
<1>3. ASSUME NEW v \in UserPage, NEW x \in Mark, Mem' = Stored({running}, v, x)
      PROVE  Mem'[p] = Mem[p]
  BY <1>3, StoredPlus
<1>4. ASSUME NEW c \in Process, c \notin Live,
             Mem' = [q \in Live \cup {c} |-> IF q = c THEN Mem[running] ELSE Mem[q]]
      PROVE  Mem'[p] = Mem[p]
  BY <1>4
<1>5. CASE Mem' = [Mem EXCEPT ![running] = [v \in UserPage |-> {"image"}]]
  BY <1>1, <1>2, <1>5
<1>6. CASE Mem' = [q \in Live \ {running} |-> Mem[q]]
  BY <1>1, <1>2, <1>6
<1> QED BY <1>1, <1>2, <1>3, <1>4, <1>5, <1>6, MemStep

\* A process that is not running finds its memory as it left it.
THEOREM OthersKept == Spec /\ []Unreached => OthersUnaffected
<1>1. ASSUME IInv, Unreached, Unreached', [Next]_vars
      PROVE  [~(\E v \in UserPage, x \in Mark : KernelWrite(v, x)) =>
                 \A p \in Live \ {running} : p \in Live' => View(p)' = View(p)]_vars
  <2>1. CASE UNCHANGED vars
    BY <2>1
  <2>2. CASE Next
    BY <1>1, <2>2, OthersStep DEF IInv
  <2> QED BY <1>1, <2>1, <2>2
<1>2. Spec => [][Next]_vars
  BY PTL DEF Spec
<1> QED BY <1>1, <1>2, Invariance, PTL DEF OthersUnaffected
-----------------------------------------------------------------------------
(* Private memories.                                                       *)

LEMMA PrivateInit ==
    ASSUME Init
    PROVE  Private!Init
<1>1. PICK at \in Placements(BootFrames + ExecFrames) :
         table = [p \in {1} |-> Loaded(AddrSpace(BootMap), at)]
  BY DEF Init
<1>2. /\ BootFrames + ExecFrames \in Nat
      /\ used = (BootFrames + ExecFrames) + N
      /\ kern = 1..BootFrames + ExecFrames
      /\ used <= LastFrame
  BY Sizes DEF Init, N
<1>3. at \in [UserPage -> BootFrames + ExecFrames + 1 .. used]
  BY <1>2, PlacementsType
<1>4. \A v \in UserPage : at[v] \in Frame /\ at[v] \notin kern /\ ~(at[v] > used)
  BY <1>2, <1>3, Sizes DEF Frame
<1>5. \A v \in UserPage : content[at[v]] = {"image"}
  BY <1>4 DEF Init
<1>6. \A v \in UserPage : table[1][v] = Mapped(at[v])
  BY <1>1 DEF Loaded
<1>7. \A v \in UserPage : content[table[1][v].frame] = {"image"}
  <2>1. \A f : Mapped(f).frame = f
    BY DEF Mapped
  <2> QED BY <1>5, <1>6, <2>1
<1>8. Live = {1} /\ View(1) = [v \in UserPage |-> {"image"}]
  BY <1>1, <1>7 DEF Live, View
<1>9. [p \in Live |-> View(p)] = [p \in {1} |-> [v \in UserPage |-> {"image"}]]
  BY <1>8
<1>10. running = 1 /\ (cpu = "hung") = FALSE
  BY DEF Init
<1> QED BY <1>9, <1>10 DEF Private!Init

LEMMA PrivateStep ==
    ASSUME TInv, CowInv, Unreached', [Next]_vars
    PROVE  [Private!Next]_(Private!vars)
<1> DEFINE M == [p \in Live |-> View(p)]
<1>1. M = Mem /\ M' = Mem' /\ DOMAIN M = Live /\ running \in Live
  BY TInvFacts DEF Mem
<1>2. CASE UNCHANGED vars
  BY <1>2 DEF vars, Private!vars, Live, View
<1>3. CASE Next
  <2>1. cpu = "user"
    BY <1>3, MemStep
  <2> HIDE DEF M
  <2>2. CASE Mem' = Mem /\ running' = running /\ cpu' = "hung"
    <3>1. Private!Stop
      BY <1>1, <2>2 DEF Private!Stop, M
    <3> QED BY <2>1, <3>1 DEF Private!Next
  <2>3. ASSUME NEW v \in UserPage, NEW x \in Mark, NEW R \in SUBSET Live
        PROVE  Stored(R, v, x) =
                 [p \in Live |-> IF p \in R THEN Private!Plus(Mem[p], v, x) ELSE Mem[p]]
    BY StoredPlus DEF Private!Plus
  <2>4. ASSUME NEW v \in UserPage, NEW x \in Mark,
               Mem' = Stored({running}, v, x), UNCHANGED <<running, cpu>>
        PROVE  Private!Next
    <3>1. Mem' = [Mem EXCEPT ![running] = Private!Plus(Mem[running], v, x)]
      <4>1. Mem' = [p \in Live |-> IF p \in {running} THEN Private!Plus(Mem[p], v, x) ELSE Mem[p]]
        BY <1>1, <2>3, <2>4
      <4>2. Mem = [p \in Live |-> Mem[p]]
        BY DEF Mem
      <4> QED BY <1>1, <4>1, <4>2
    <3>2. Private!Write(v, x)
      BY <1>1, <2>4, <3>1 DEF Private!Write, M
    <3> QED BY <2>1, <3>2 DEF Private!Next
  <2>5. ASSUME NEW v \in UserPage, NEW x \in Mark,
               NEW R \in SUBSET {p \in Live : Mem[p][v] = Mem[running][v]},
               running \in R, Mem' = Stored(R, v, x), UNCHANGED <<running, cpu>>
        PROVE  Private!Next
    <3>1. Mem' = [p \in Live |-> IF p \in R THEN Private!Plus(Mem[p], v, x) ELSE Mem[p]]
      BY <2>3, <2>5
    <3>2. Private!Live = Live
      BY <1>1 DEF Private!Live, M
    <3>3. Private!SystemWrite(v, x)
      BY <1>1, <2>5, <3>1, <3>2 DEF Private!SystemWrite, M
    <3> QED BY <2>1, <3>3 DEF Private!Next
  <2>6. ASSUME NEW c \in Process, c \notin Live,
               Mem' = [p \in Live \cup {c} |-> IF p = c THEN Mem[running] ELSE Mem[p]],
               running' = c, cpu' = cpu
        PROVE  Private!Next
    <3>1. Private!Live = Live
      BY <1>1 DEF Private!Live, M
    <3>2. Private!Fork(c)
      BY <1>1, <2>6, <3>1 DEF Private!Fork, M
    <3> QED BY <2>1, <3>2 DEF Private!Next
  <2>7. CASE /\ Mem' = [Mem EXCEPT ![running] = [v \in UserPage |-> {"image"}]]
             /\ UNCHANGED <<running, cpu>>
    <3>1. Private!Load
      BY <1>1, <2>7 DEF Private!Load, M
    <3> QED BY <2>1, <3>1 DEF Private!Next
  <2>8. ASSUME NEW p \in Process, p \in Live \ {running},
               Mem' = [q \in Live \ {running} |-> Mem[q]], running' = p, cpu' = cpu
        PROVE  Private!Next
    <3>1. Private!Live = Live
      BY <1>1 DEF Private!Live, M
    <3>2. Private!Exit(p)
      BY <1>1, <2>8, <3>1 DEF Private!Exit, M
    <3> QED BY <2>1, <3>2 DEF Private!Next
  <2>9. ASSUME NEW p \in Process, p \in Live \ {running},
               Mem' = Mem, running' = p, cpu' = cpu
        PROVE  Private!Next
    <3>1. Private!Live = Live
      BY <1>1 DEF Private!Live, M
    <3>2. Private!Switch(p)
      BY <1>1, <2>9, <3>1 DEF Private!Switch, M
    <3> QED BY <2>1, <3>2 DEF Private!Next
  <2> QED BY <1>3, <2>2, <2>4, <2>5, <2>6, <2>7, <2>8, <2>9, MemStep
<1> QED BY <1>2, <1>3

\* fork, execve and copy on write implement private memories.
THEOREM ImplementsPrivate == Spec /\ []Unreached => IsPrivate
<1>1. Init => Private!Init
  BY PrivateInit
<1>2. IInv /\ Unreached /\ Unreached' /\ [Next]_vars => [Private!Next]_(Private!vars)
  BY PrivateStep DEF IInv
<1>3. Spec => Init /\ [][Next]_vars
  BY PTL DEF Spec
<1> QED BY <1>1, <1>2, <1>3, Invariance, PTL DEF IsPrivate, Private!Spec
=============================================================================
