--------------------------- MODULE PrivateMemory ---------------------------
(***************************************************************************)
(* What fork, execve and copy on write promise a program, without frames,  *)
(* page tables or faults: every process has a memory of its own, which it  *)
(* alone changes, fork copies and execve replaces.                         *)
(*                                                                         *)
(* One concession is part of the promise.  The kernel stores into the      *)
(* buffer of a system call without a fault, so the store may also appear   *)
(* in other processes, but only in those where the page still reads the    *)
(* same as in the caller.                                                  *)
(***************************************************************************)
CONSTANTS UserPage, Process, Mark

VARIABLES mem,          \* mem[p][v]: the marks live process p finds in page v
          running,
          stopped       \* out of memory

vars == <<mem, running, stopped>>

Live == DOMAIN mem

Plus(m, v, x) == [m EXCEPT ![v] = m[v] \cup {x}]

Write(v, x) ==
    /\ mem' = [mem EXCEPT ![running] = Plus(mem[running], v, x)]
    /\ UNCHANGED <<running, stopped>>

SystemWrite(v, x) ==
    /\ \E reached \in SUBSET {p \in Live : mem[p][v] = mem[running][v]} :
         /\ running \in reached
         /\ mem' = [p \in Live |-> IF p \in reached THEN Plus(mem[p], v, x) ELSE mem[p]]
    /\ UNCHANGED <<running, stopped>>

\* the child, which runs first, starts with what its parent has
Fork(c) ==
    /\ c \notin Live
    /\ mem' = [p \in Live \cup {c} |-> IF p = c THEN mem[running] ELSE mem[p]]
    /\ running' = c
    /\ UNCHANGED stopped

Load ==
    /\ mem' = [mem EXCEPT ![running] = [v \in UserPage |-> {"image"}]]
    /\ UNCHANGED <<running, stopped>>

Exit(p) ==
    /\ p \in Live \ {running}
    /\ mem' = [q \in Live \ {running} |-> mem[q]]
    /\ running' = p
    /\ UNCHANGED stopped

Switch(p) ==
    /\ p \in Live \ {running}
    /\ running' = p
    /\ UNCHANGED <<mem, stopped>>

Stop == stopped' = TRUE /\ UNCHANGED <<mem, running>>
-----------------------------------------------------------------------------
Init ==
    /\ mem = [p \in {1} |-> [v \in UserPage |-> {"image"}]]
    /\ running = 1
    /\ stopped = FALSE

Next ==
    /\ ~stopped
    /\ \/ \E v \in UserPage, x \in Mark : Write(v, x) \/ SystemWrite(v, x)
       \/ \E p \in Process : Fork(p) \/ Exit(p) \/ Switch(p)
       \/ Load
       \/ Stop

Spec == Init /\ [][Next]_vars
=============================================================================
