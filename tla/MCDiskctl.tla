------------------------------- MODULE MCDiskctl -------------------------------
(* Instances of Diskctl for TLC: system disks and data disks.              *)
EXTENDS Diskctl, TLC

CONSTANTS w1, w2, sda, sdb, sdc, sda1, sda2, sda3, sdb1, sdb2, sdb3, crypt, vg, md, cswap,
          root, varbackup, home, Data

OneWorker == {w1}
TwoWorkers == {w1, w2}
Symmetry == Permutations(Workers)

TwoDisks == {sda, sdb}
ThreeDisks == {sda, sdb, sdc}
OnlyData == {sdb}
ProtectedPaths == {root, varbackup}

(* Each disk of the set has the partitions of the set named after it.      *)
PartsOn == sda :> {sda1, sda2, sda3} @@ sdb :> {sdb1, sdb2, sdb3} @@ sdc :> {}
OwnDisk(p) == {d \in DOMAIN PartsOn : p \in PartsOn[d]}
Stack(stacked) == [n \in Nodes |-> IF n \in Stacked THEN stacked[n] ELSE OwnDisk(n)]

(* The system disk: LVM on LUKS in sda1, two subvolumes of it at / and at  *)
(* /home, and sda2, which /etc/fstab wants at /var/backup.  The data disk: *)
(* two volumes of the same label.  An array over partitions of both is     *)
(* swap, and so is a third disk, encrypted as a whole.                     *)
DeepParts == {sda1, sda2, sda3, sdb1, sdb2, sdb3}
DeepStacked == {crypt, vg, md, cswap}
DeepMapped == {crypt, vg, cswap}
DeepStack == Stack(crypt :> {sda1} @@ vg :> {crypt} @@ md :> {sda3, sdb3} @@ cswap :> {sdc})
DeepMounts == {[src |-> vg, at |-> root], [src |-> vg, at |-> home]}
DeepSwaps == {md, cswap}
Labels == [p \in Parts |-> IF p \in {sdb1, sdb2} THEN Data ELSE NoLabel]
(* sdb1 has the kernel name of sdb2 for a label.                           *)
Namesake == [p \in Parts |-> IF p = sdb1 THEN sdb2 ELSE NoLabel]
Types == [p \in Parts |-> IF p \in {sda1, sda3, sdb3} THEN "volume" ELSE "plain"]
BackupFstab == [p \in Parts |-> IF p = sda2 THEN varbackup ELSE NoPath]

(* Smaller: / and /home on a volume group over two disks, or / on a plain  *)
(* partition; /etc/fstab wants one of the data volumes at /var/backup, or  *)
(* knows neither.                                                          *)
WideParts == {sda1, sdb2}
OnlyVg == {vg}
WideStack == Stack(vg :> {sda1, sdc})
WideMounts == {[src |-> vg, at |-> root], [src |-> vg, at |-> home]}
FewParts == {sda1, sdb1, sdb2}
NoNodes == {}
PlainStack == Stack(<<>>)
PlainMounts == {[src |-> sda1, at |-> root]}
FewBackupFstab == [p \in Parts |-> IF p = sdb2 THEN varbackup ELSE NoPath]
NoFstab == [p \in Parts |-> NoPath]
================================================================================
