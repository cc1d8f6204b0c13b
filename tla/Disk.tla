-------------------------------- MODULE Disk --------------------------------
(***************************************************************************)
(* The AHCI driver, sys/ahci.c, and the controller it drives: probe_port   *)
(* finds a disk, resets the controller, starts the command engine of the   *)
(* port and writes, then reads back, a run of sectors.  The boot code has  *)
(* the call commented out (sys/main.c:163).                                *)
(*                                                                         *)
(* The driver polls; every read of a register that the controller may      *)
(* change is a step of its own.  The controller and the disk follow the    *)
(* AHCI rules the driver relies on and are external to the source.         *)
(***************************************************************************)
EXTENDS Naturals, FiniteSets

CONSTANTS PortSets,     \* what the ports of a controller may hold
          MaxSlots,     \* bound on cmdslots, which is read through a null abar
          SpinLimit,    \* 1000000
          Sectors,      \* 800
          PerValue      \* sectors written with the same value (8)

ASSUME DiskAssumption ==
    /\ {MaxSlots, SpinLimit, Sectors, PerValue} \subseteq Nat \ {0}
    /\ \A q \in PortSets : 0 \in DOMAIN q /\ DOMAIN q \subseteq Nat

VARIABLES
    ports,              \* implemented, det, ipm and sig of each port
    pc, sata,           \* the driver: where it is, the port it drives,
    cmdslots,           \*   how many slots it looks at,
    sector, writing,    \*   the command it is at,
    slot, spin,         \*   its slot and its patience
    done,               \*   what ahciwrite and read returned
    buffer, newBuf,     \* the memory written to and read from the disk
    printed,            \* the byte of newBuf printed after each read
    table,              \* command header and table of each slot
    fre, fr, st, cr,    \* bits of PxCMD
    ci, tfes, busy,     \* PxCI, the error bit of PxIS, BSY or DRQ in PxTFD
    active, halted,     \* the controller: slot it executes, stopped by an error
    disk

driverVars == <<pc, sata, cmdslots, sector, writing, slot, spin, done, buffer, printed, table>>
vars == <<ports, driverVars, newBuf, fre, fr, st, cr, ci, tfes, busy, active, halted, disk>>

Slot == 0..(MaxSlots - 1)
NoSlot == MaxSlots                                          \* the code's -1
Sector == 0..(Sectors - 1)
NoValue == Sectors                                          \* a byte never written
-----------------------------------------------------------------------------
(* Finding the disk and starting its port.                                 *)

check_type(p) ==
    IF ~p.present \/ ~p.active THEN "NULL"
    ELSE IF p.sig \in {"ATAPI", "SEMB", "PM"} THEN p.sig ELSE "SATA"

SataPorts == {i \in DOMAIN ports : ports[i].implemented /\ check_type(ports[i]) = "SATA"}

\* probe_port keeps the last disk it finds, and port 0 if there is none
Chosen(i) == IF SataPorts = {} THEN i = 0 ELSE i \in SataPorts /\ \A j \in SataPorts : j <= i

HasDisk == sata \in SataPorts

ResetNothing == UNCHANGED <<fre, fr, st, cr, ci, tfes>>     \* HR is not set
\* resetGHC sets HR: the registers of the ports are cleared
resetGHC ==
    /\ fre' = FALSE /\ fr' = FALSE /\ st' = FALSE /\ cr' = FALSE
    /\ ci' = {} /\ tfes' = FALSE

Probe ==
    /\ pc = "probe"
    /\ \E i \in DOMAIN ports : Chosen(i) /\ sata' = i
    /\ resetGHC
    /\ pc' = "stop"
    /\ UNCHANGED <<ports, cmdslots, sector, writing, slot, spin, done, buffer, printed, table,
                   newBuf, busy, active, halted, disk>>

\* stop_cmd, up to its loop
ClearST ==
    /\ pc = "stop"
    /\ st' = FALSE
    /\ pc' = "stopping"
    /\ UNCHANGED <<ports, sata, cmdslots, sector, writing, slot, spin, done, buffer, printed,
                   table, newBuf, fre, fr, cr, ci, tfes, busy, active, halted, disk>>

\* the rest of stop_cmd; port_rebase clears the command list and the tables
Rebase ==
    /\ pc = "stopping"
    /\ ~fr /\ ~cr
    /\ fre' = FALSE
    /\ table' = [s \in Slot |-> [w |-> FALSE, lba |-> 0]]
    /\ pc' = "start"
    /\ UNCHANGED <<ports, sata, cmdslots, sector, writing, slot, spin, done, buffer, printed,
                   newBuf, fr, st, cr, ci, tfes, busy, active, halted, disk>>

start_cmd ==
    /\ pc = "start"
    /\ ~cr
    /\ fre' = TRUE
    /\ st' = TRUE
    /\ pc' = "begin"
    /\ UNCHANGED <<ports, sata, cmdslots, sector, writing, slot, spin, done, buffer, printed,
                   table, newBuf, fr, cr, ci, tfes, busy, active, halted, disk>>
-----------------------------------------------------------------------------
(* ahciwrite and read, which differ in the command and in the buffer, for  *)
(* one sector after the other.                                             *)

\* ahciwrite or read returns; after a read a byte is printed in either case
Return(ok) ==
    /\ done' = [done EXCEPT ![<<sector, writing>>] = IF ok THEN "TRUE" ELSE "FALSE"]
    /\ printed' = IF writing THEN printed ELSE [printed EXCEPT ![sector] = newBuf]
    /\ IF sector + 1 < Sectors THEN sector' = sector + 1 /\ UNCHANGED writing
       ELSE sector' = 0 /\ writing' = FALSE
    /\ pc' = IF sector + 1 = Sectors /\ ~writing THEN "over" ELSE "begin"
    /\ UNCHANGED <<ports, sata, cmdslots, slot, spin, buffer, table, newBuf, fre, fr, st, cr, ci,
                   busy, active, halted, disk>>

FreeSlotsAll == {s \in Slot : s < cmdslots}                 \* CI not looked at
FreeSlots == {s \in Slot : s < cmdslots} \ ci

\* find_cmdslot: the first slot that is not in PxCI
find_cmdslot(s) == s \in FreeSlots /\ \A u \in FreeSlots : s <= u

Command == [w |-> writing, lba |-> sector]

\* the pending interrupt bits are cleared and the command is put together
Begin ==
    /\ pc = "begin"
    /\ \E s \in Slot :
        /\ find_cmdslot(s)
        /\ slot' = s
        /\ table' = [table EXCEPT ![s] = Command]
    /\ tfes' = FALSE
    /\ buffer' = IF writing THEN sector \div PerValue ELSE buffer
    /\ spin' = 0
    /\ pc' = "busy"
    /\ UNCHANGED <<ports, sata, cmdslots, sector, writing, done, printed, newBuf, fre, fr, st, cr,
                   ci, busy, active, halted, disk>>

NoSlotFree ==
    /\ pc = "begin"
    /\ FreeSlots = {}
    /\ tfes' = FALSE
    /\ Return(FALSE)

SpinUnbounded ==                                            \* no limit
    /\ pc = "busy"
    /\ busy
    /\ spin' = spin + 1
    /\ UNCHANGED <<ports, pc, sata, cmdslots, sector, writing, slot, done, buffer, printed, table,
                   newBuf, fre, fr, st, cr, ci, tfes, busy, active, halted, disk>>

Spin ==
    /\ pc = "busy"
    /\ busy /\ spin < SpinLimit
    /\ spin' = spin + 1
    /\ UNCHANGED <<ports, pc, sata, cmdslots, sector, writing, slot, done, buffer, printed, table,
                   newBuf, fre, fr, st, cr, ci, tfes, busy, active, halted, disk>>

\* also when the port stopped being busy with the last look at it
PortHung ==
    /\ pc = "busy"
    /\ spin = SpinLimit
    /\ Return(FALSE)
    /\ UNCHANGED tfes

Issue ==
    /\ pc = "busy"
    /\ ~busy /\ spin < SpinLimit
    /\ ci' = ci \cup {slot}
    /\ pc' = "wait"
    /\ UNCHANGED <<ports, sata, cmdslots, sector, writing, slot, spin, done, buffer, printed,
                   table, newBuf, fre, fr, st, cr, tfes, busy, active, halted, disk>>

GoTo(l) ==
    /\ pc' = l
    /\ UNCHANGED <<ports, sata, cmdslots, sector, writing, slot, spin, done, buffer, printed,
                   table, newBuf, fre, fr, st, cr, ci, tfes, busy, active, halted, disk>>

\* the loop "Wait for completion": PxCI, then PxIS
LookAtCI == pc = "wait" /\ GoTo(IF slot \in ci THEN "error" ELSE "again")
LookAtISNot == pc = "error" /\ GoTo("wait")                 \* no look at PxIS
LookAtIS ==
    /\ pc = "error"
    /\ \/ tfes /\ Return(FALSE) /\ UNCHANGED tfes
       \/ ~tfes /\ GoTo("wait")

\* "Check again"
CheckNothing == pc = "again" /\ Return(TRUE) /\ UNCHANGED tfes
CheckAgain == pc = "again" /\ Return(~tfes) /\ UNCHANGED tfes
-----------------------------------------------------------------------------
(* The controller and the disk.                                            *)

deviceKeeps == <<ports, driverVars, fre, st>>

\* FR follows FRE and CR follows ST
Follow ==
    /\ <<fr, cr>> # <<fre, st>>
    /\ fr' = fre
    /\ cr' = st
    /\ UNCHANGED <<deviceKeeps, newBuf, ci, tfes, busy, active, halted, disk>>

\* an idle disk may be busy for reasons of its own; an empty port always is
Busy ==
    /\ HasDisk
    /\ active = NoSlot
    /\ busy' = ~busy
    /\ UNCHANGED <<deviceKeeps, newBuf, fr, cr, ci, tfes, active, halted, disk>>

Take(s) ==
    /\ HasDisk
    /\ cr /\ fr /\ ~halted
    /\ active = NoSlot
    /\ s \in ci
    /\ active' = s
    /\ busy' = TRUE
    /\ UNCHANGED <<deviceKeeps, newBuf, fr, cr, ci, tfes, halted, disk>>

Transfer ==
    LET c == table[active]
    IN  IF c.w THEN disk' = [disk EXCEPT ![c.lba] = buffer] /\ UNCHANGED newBuf
        ELSE newBuf' = disk[c.lba] /\ UNCHANGED disk

Finish ==
    /\ active # NoSlot
    /\ Transfer
    /\ ci' = ci \ {active}
    /\ active' = NoSlot
    /\ busy' = FALSE
    /\ UNCHANGED <<deviceKeeps, fr, cr, tfes, halted>>

\* the error bit is set and no further command is taken; the failed one may
\* have had its effect and may still be set in PxCI
Fail ==
    /\ active # NoSlot
    /\ Transfer \/ UNCHANGED <<disk, newBuf>>
    /\ ci' \in {ci, ci \ {active}}
    /\ tfes' = TRUE
    /\ halted' = TRUE
    /\ active' = NoSlot
    /\ busy' = FALSE
    /\ UNCHANGED <<deviceKeeps, fr, cr>>
-----------------------------------------------------------------------------
\* The firmware may have left the port running.
Init ==
    /\ ports \in PortSets
    /\ pc = "probe"
    /\ sata = 0
    /\ cmdslots \in 0..MaxSlots
    /\ sector = 0 /\ writing = TRUE
    /\ slot = 0 /\ spin = 0
    /\ done = [c \in Sector \X BOOLEAN |-> "pending"]
    /\ buffer = 0 /\ newBuf = NoValue
    /\ printed = [s \in Sector |-> NoValue]
    /\ table = [s \in Slot |-> [w |-> FALSE, lba |-> 0]]
    /\ fre \in BOOLEAN /\ fr = fre
    /\ st \in BOOLEAN /\ cr = st
    /\ ci = {} /\ tfes = FALSE
    /\ busy = TRUE
    /\ active = NoSlot /\ halted = FALSE
    /\ disk = [s \in Sector |-> NoValue]

DriverStep ==
    \/ Probe
    \/ ClearST
    \/ Rebase
    \/ start_cmd
    \/ Begin
    \/ NoSlotFree
    \/ Spin
    \/ PortHung
    \/ Issue
    \/ LookAtCI
    \/ LookAtIS
    \/ CheckAgain

Next ==
    \/ DriverStep
    \/ Follow
    \/ Busy
    \/ \E s \in Slot : Take(s)
    \/ Finish
    \/ Fail

\* The processor goes on; the controller follows PxCMD, takes a command that is
\* issued and comes to an end with it.  A disk need not stop being busy.
Fairness ==
    /\ WF_vars(DriverStep)
    /\ WF_vars(Follow)
    /\ WF_vars(\E s \in Slot : Take(s))
    /\ WF_vars(Finish \/ Fail)

Spec == Init /\ [][Next]_vars /\ Fairness
-----------------------------------------------------------------------------
TypeOK ==
    /\ ports \in PortSets
    /\ pc \in {"probe", "stop", "stopping", "start", "begin", "busy", "wait", "error", "again", "over"}
    /\ sata \in DOMAIN ports
    /\ cmdslots \in 0..MaxSlots
    /\ sector \in Sector /\ writing \in BOOLEAN
    /\ slot \in Slot /\ spin \in 0..SpinLimit
    /\ done \in [Sector \X BOOLEAN -> {"pending", "TRUE", "FALSE"}]
    /\ buffer \in Sector /\ newBuf \in Sector \cup {NoValue}
    /\ printed \in [Sector -> Sector \cup {NoValue}]
    /\ table \in [Slot -> [w : BOOLEAN, lba : Sector]]
    /\ {fre, fr, st, cr, tfes, busy, halted} \subseteq BOOLEAN
    /\ ci \subseteq Slot
    /\ active \in Slot \cup {NoSlot}
    /\ disk \in [Sector -> Sector \cup {NoValue}]

\* If ahciwrite and read both returned TRUE for a sector, the byte printed for
\* it is the one written: neither a value the buffer took on later, nor that of
\* another sector, nor what a failed command left behind.
ReadBack ==
    \A s \in Sector : done[<<s, TRUE>>] = "TRUE" /\ done[<<s, FALSE>>] = "TRUE" =>
        printed[s] = s \div PerValue

\* The table of a command the controller was given is not put together anew
\* while it still has that command, failed ones included.
TableIntact == [][\A s \in ci : s \in ci' => table'[s] = table[s]]_vars

\* No port is left running for ever by stop_cmd, which waits for FR before it
\* clears FRE, and start_cmd, whatever the firmware left; and the port started
\* holds a disk if one does.
PortStarts == <>(pc = "begin" /\ (SataPorts # {} => HasDisk))

\* ahciwrite and read return from their wait, with FALSE on an error that comes
\* with or without a change of PxCI.  Nothing restarts the engine after that, so
\* of a later command only this is said: it may be issued to a halted engine.
CommandReturns == pc = "wait" /\ (~halted \/ tfes) ~> pc \in {"begin", "over"}
=============================================================================
