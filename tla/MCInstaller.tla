----------------------------- MODULE MCInstaller -----------------------------
(* The installer on a machine with four devices: its own medium, a         *)
(* read-only card, a disk that is one sector too small and the target, with*)
(* larger sectors and not one more than it takes to be chosen.             *)
EXTENDS Installer

Sizes == [boot |-> 2, data |-> 1, system |-> 2]
Disk(path, sectorSize, length, readOnly) ==
  [path |-> path, prefixes |-> {path}, sectorSize |-> sectorSize,
   length |-> length, readOnly |-> readOnly]
FourDisks ==
  {Disk("/dev/sda", 512, 65536, FALSE), Disk("/dev/mmcblk0", 512, 65536, TRUE),
   Disk("/dev/sdb", 512, 17 * 2048 - 1, FALSE), Disk("/dev/sdc", 4096, 17 * 256, FALSE)}
InstallerMedium == "/dev/sda"
=============================================================================
