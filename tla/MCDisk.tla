------------------------------- MODULE MCDisk -------------------------------
(* Small instances of Disk for TLC. *)
EXTENDS Disk, TLC

Port(i, p, a, s) == [implemented |-> i, present |-> p, active |-> a, sig |-> s]
NoDisk == Port(TRUE, FALSE, FALSE, "ATA")
Ata == Port(TRUE, TRUE, TRUE, "ATA")

\* no disk; a disk behind another device; two disks; a disk that sleeps, one
\* that is not implemented
MCPortSets ==
    {0 :> Port(TRUE, TRUE, TRUE, "ATAPI") @@ 1 :> NoDisk,
     0 :> Port(TRUE, TRUE, TRUE, "ATAPI") @@ 1 :> Ata,
     0 :> Ata @@ 1 :> Port(TRUE, TRUE, FALSE, "ATA"),
     0 :> Ata @@ 1 :> Ata,
     0 :> Ata @@ 1 :> Port(FALSE, TRUE, TRUE, "ATA")}
=============================================================================
