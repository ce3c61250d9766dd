------------------------------ MODULE Installer ------------------------------
(***************************************************************************)
(* install-playos.py, run by a technician in the live system of the        *)
(* installer: its commands one after the other, any of which may fail,     *)
(* what a failed run leaves mounted in the session, and what a power       *)
(* failure leaves on the disk.                                             *)
(***************************************************************************)
EXTENDS Partitioning

CONSTANTS
  Disks,        \* the devices of the machine
  Medium,       \* the path of the device mounted on /iso
  device_path,  \* the option --device, or None
  part_sizes,   \* the three options for sizes
  Broken        \* an ESP that cannot be mounted

Slot   == {"a", "b"}
Id     == {"own", "given", "random"}  \* configured before, passed, made up

VARIABLES
  at,         \* the command the program runs next
  passed,     \* the option --machine-id
  machine_id, \* the id to install
  slot,       \* the slot being installed
  disk,       \* what is on the target, for a boot to find
  boot,       \* the ESP as seen through /mnt/boot, None if not mounted
  system,     \* the system partitions as seen through their mounts on /mnt/system
  unflushed,  \* history: slots whose unmounting failed
  known       \* history: the id the machine is known by; None once it could not
              \* be read, or a run ended before a new ESP held it or with it mounted

runVars       == <<passed, machine_id, slot>>
historyVars   == <<unflushed, known>>
installerVars == <<at, runVars, disk, boot, system, historyVars>>

VERSION == "new"
Esp     == [id : Id \cup {None}, loader : BOOLEAN, rescue : BOOLEAN,
            status : [Slot -> {None, "old", VERSION}]]
NoEntry == [s \in Slot |-> None]

ASSUME InstallerAssumption ==
  /\ None \notin Id \cup {"none", "partial", "old", VERSION}
  /\ None \notin Esp /\ Broken \notin Esp \cup {None}
ASSUME DisksAssumption == Disks \subseteq Device /\ part_sizes \in PartSizes

NewEsp  == [id |-> None, loader |-> FALSE, rescue |-> FALSE, status |-> NoEntry]

(* A foreign disk, or a machine installed with an older version.           *)
ForeignDisk ==
  [table |-> FALSE, esp |-> Broken, data |-> FALSE, image |-> [s \in Slot |-> "none"]]
OldMachine ==
  [table |-> TRUE, data |-> TRUE, image |-> [s \in Slot |-> "old"],
   esp |-> [id |-> "own", loader |-> TRUE, rescue |-> TRUE, status |-> [s \in Slot |-> "old"]]]

InitInstaller ==
  /\ at = "idle" /\ passed = None /\ machine_id = None /\ slot = "a"
  /\ disk \in {ForeignDisk, OldMachine}
  /\ boot = None /\ system = NoEntry
  /\ unflushed = {} /\ known = IF disk.table THEN disk.esp.id ELSE None

------------------------------------------------------------------------------
(* Mounting: what is written lies in memory until the file system is       *)
(* unmounted.  The kernel refuses to mount a file system twice in a place, *)
(* and mkfs refuses a mounted one.                                         *)

UnmountBoot ==
  /\ boot' = None
  /\ disk' = IF boot = None THEN disk ELSE [disk EXCEPT !.esp = boot]

Goto(from, to) == at = from /\ at' = to

------------------------------------------------------------------------------
(* The run, up to the confirmation. *)

target == find_device(Disks, device_path, Medium, part_sizes)

Run(id) ==
  /\ at \in {"idle", "failed", "done"}
  /\ target # {}
  /\ at' = "identify" /\ passed' = id
  /\ machine_id' = None /\ slot' = "a"
  /\ UNCHANGED <<disk, boot, system, historyVars>>

(* The id in grubenv on the first partition, if all goes well.             *)
ConfiguredId ==
  IF boot = None /\ disk.table /\ disk.esp # Broken THEN disk.esp.id ELSE None

_ensure_machine_id_StaysMounted ==   \* mutant: no finally
  /\ Goto("identify", "confirm")
  /\ machine_id' = IF passed # None THEN passed
                   ELSE IF ConfiguredId # None THEN ConfiguredId ELSE "random"
  /\ boot' = IF passed = None /\ boot = None /\ disk.table /\ disk.esp # Broken
             THEN disk.esp ELSE boot
  /\ UNCHANGED <<passed, slot, disk, system, historyVars>>

_ensure_machine_id_Random ==   \* mutant: grubenv is not read
  /\ Goto("identify", "confirm")
  /\ machine_id' = IF passed # None THEN passed ELSE "random"
  /\ UnmountBoot
  /\ UNCHANGED <<passed, slot, system, historyVars>>

(* _get_grubenv_entry takes every exception for "none", and unmounts       *)
(* /mnt/boot whether it has mounted it or an earlier run left it.          *)
_ensure_machine_id ==
  /\ Goto("identify", "confirm")
  /\ IF passed # None
     THEN machine_id' = passed /\ UNCHANGED <<disk, boot>>
     ELSE /\ machine_id' = IF ConfiguredId # None THEN ConfiguredId ELSE "random"
          /\ UnmountBoot
  /\ UNCHANGED <<passed, slot, system, historyVars>>

(* Mounting or reading fails, which reads the same as no id.               *)
IdNotRead ==
  /\ Goto("identify", "confirm") /\ passed = None
  /\ machine_id' = "random" /\ UnmountBoot
  /\ known' = None
  /\ UNCHANGED <<passed, slot, system, unflushed>>

Confirm == Goto("confirm", "commit") /\ UNCHANGED <<runVars, disk, boot, system, historyVars>>
Decline == Goto("confirm", "idle") /\ UNCHANGED <<runVars, disk, boot, system, historyVars>>

Fits == \A d \in target : create_partitioning(d, part_sizes)

Commit ==
  /\ Goto("commit", "mkfs_esp") /\ Fits
  /\ disk' = [disk EXCEPT !.table = TRUE]
  /\ UNCHANGED <<runVars, boot, system, historyVars>>

------------------------------------------------------------------------------
(* install_bootloader *)

MakeEsp ==
  /\ Goto("mkfs_esp", "mount_esp") /\ boot = None
  /\ disk' = [disk EXCEPT !.esp = NewEsp]
  /\ unflushed' = {}
  /\ UNCHANGED <<runVars, boot, system, known>>

MountEsp ==
  /\ \/ Goto("mount_esp", "grub")
     \/ Goto("mount_status", "write_status")
  /\ boot = None /\ boot' = disk.esp
  /\ UNCHANGED <<runVars, disk, system, historyVars>>

InstallGrub ==
  /\ Goto("grub", "rescue")
  /\ boot' = [boot EXCEPT !.loader = TRUE, !.id = machine_id]
  /\ UNCHANGED <<runVars, disk, system, historyVars>>

InstallRescue ==
  /\ Goto("rescue", "umount_esp")
  /\ boot' = [boot EXCEPT !.rescue = TRUE]
  /\ UNCHANGED <<runVars, disk, system, historyVars>>

UmountEsp ==
  /\ Goto("umount_esp", "mkfs_data")
  /\ UnmountBoot
  /\ known' = boot.id
  /\ UNCHANGED <<runVars, system, unflushed>>

------------------------------------------------------------------------------
(* install: the data partition, then each slot and its entry *)

MakeData ==
  /\ Goto("mkfs_data", "mkfs_system")
  /\ disk' = [disk EXCEPT !.data = TRUE]
  /\ UNCHANGED <<runVars, boot, system, historyVars>>

MakeSystem ==
  /\ Goto("mkfs_system", "mount_system") /\ system[slot] = None
  /\ disk' = [disk EXCEPT !.image[slot] = "none"]
  /\ UNCHANGED <<runVars, boot, system, historyVars>>

MountSystem ==
  /\ Goto("mount_system", "copy")
  /\ system' = [system EXCEPT ![slot] = disk.image[slot]]
  /\ UNCHANGED <<runVars, disk, boot, historyVars>>

Copy_WriterOnly ==   \* mutant: the exit codes of the reading end are ignored
  /\ Goto("copy", "umount_system")
  /\ \E image \in {"partial", VERSION} : system' = [system EXCEPT ![slot] = image]
  /\ UNCHANGED <<runVars, disk, boot, historyVars>>

(* The program goes on only if tar at either end, pv and the three cp all  *)
(* exit with 0.                                                            *)
Copy ==
  /\ Goto("copy", "umount_system")
  /\ system' = [system EXCEPT ![slot] = VERSION]
  /\ UNCHANGED <<runVars, disk, boot, historyVars>>

(* The only command whose exit code is not looked at.                      *)
UmountSystem ==
  /\ Goto("umount_system", "mount_status")
  /\ \/ /\ disk' = [disk EXCEPT !.image[slot] = system[slot]]
        /\ system' = [system EXCEPT ![slot] = None]
        /\ UNCHANGED unflushed
     \/ /\ unflushed' = unflushed \cup {slot}
        /\ UNCHANGED <<disk, system>>
  /\ UNCHANGED <<runVars, boot, known>>

(* The entries read before are written again, after the file was emptied.  *)
WriteStatus ==
  /\ Goto("write_status", "umount_status")
  /\ boot' = [boot EXCEPT !.status[slot] = VERSION]
  /\ UNCHANGED <<runVars, disk, system, historyVars>>

UmountStatus ==
  /\ at = "umount_status"
  /\ IF slot = "a" THEN at' = "mkfs_system" /\ slot' = "b"
                   ELSE at' = "done" /\ UNCHANGED slot
  /\ UnmountBoot
  /\ UNCHANGED <<passed, machine_id, system, historyVars>>

------------------------------------------------------------------------------
(* Failures.  What the command that is broken off may leave on the disk,   *)
(* and what in the mounted file systems.                                   *)

InterruptedDisk ==
  CASE at = "commit"      -> {disk} \cup {[disk EXCEPT !.table = t] : t \in BOOLEAN}
    [] at = "mkfs_esp"    -> {[disk EXCEPT !.esp = e] : e \in {disk.esp, Broken, NewEsp}}
    [] at = "mkfs_data"   -> {disk, [disk EXCEPT !.data = FALSE]}
    [] at = "mkfs_system" -> {disk, [disk EXCEPT !.image[slot] = "none"]}
    [] OTHER              -> {disk}

InterruptedBoot ==
  CASE at = "grub"         -> {boot, [boot EXCEPT !.loader = TRUE]}
    [] at = "write_status" -> {boot, [boot EXCEPT !.status = NoEntry]}
    [] OTHER               -> {boot}

InterruptedSystem ==
  IF at = "copy" THEN [system EXCEPT ![slot] = "partial"] ELSE system

(* What must not be mounted is, or the partitions do not fit.              *)
Refused ==
  \/ at = "commit" /\ ~Fits
  \/ at = "mkfs_esp" /\ boot # None
  \/ at = "mkfs_system" /\ system[slot] # None

(* The id is in memory alone, or out of reach of the next run.             *)
BeforeId == at \in {"commit", "mkfs_esp", "mount_esp", "grub", "rescue", "umount_esp"}

Commands ==
  {"commit", "mkfs_esp", "mount_esp", "grub", "rescue", "umount_esp", "mkfs_data",
   "mkfs_system", "mount_system", "copy", "mount_status", "write_status", "umount_status"}

(* The program ends with an exception, and cleans nothing up.              *)
Refuse ==
  /\ Refused
  /\ at' = "failed"
  /\ UNCHANGED <<runVars, disk, boot, system, historyVars>>

Fail ==
  /\ at \in Commands /\ ~Refused
  /\ at' = "failed"
  /\ disk' \in InterruptedDisk /\ boot' \in InterruptedBoot
  /\ system' = InterruptedSystem
  /\ known' = IF BeforeId \/ boot # None THEN None ELSE known
  /\ UNCHANGED <<runVars, unflushed>>

EndOfSession ==
  /\ at' = "idle" /\ boot' = None /\ system' = NoEntry
  /\ passed' = None /\ machine_id' = None /\ slot' = "a"

(* Of what was written to a mounted file system any part may be on disk.   *)
PartOf(old, new) ==
  IF new = None THEN {old}
  ELSE [id : {old.id, new.id}, loader : {old.loader, new.loader},
        rescue : {old.rescue, new.rescue}, status : {old.status, new.status}]

PowerFails ==
  /\ EndOfSession
  /\ \E d \in IF Refused THEN {disk} ELSE InterruptedDisk, b \in InterruptedBoot :
       \E esp \in PartOf(d.esp, b), image \in [Slot -> {"none", "partial", "old", VERSION}] :
         /\ \A s \in Slot :
              image[s] \in IF system[s] = None THEN {d.image[s]}
                          ELSE {d.image[s], "partial", InterruptedSystem[s]}
         /\ disk' = [d EXCEPT !.esp = esp, !.image = image]
  /\ known' = IF BeforeId THEN None ELSE known
  /\ UNCHANGED unflushed

Reboot ==
  /\ at \in {"idle", "failed", "done"}
  /\ EndOfSession
  /\ disk' = [disk EXCEPT
       !.esp   = IF boot = None THEN @ ELSE boot,
       !.image = [s \in Slot |-> IF system[s] = None THEN @[s] ELSE system[s]]]
  /\ UNCHANGED historyVars

------------------------------------------------------------------------------
Program ==
  \/ _ensure_machine_id \/ Confirm \/ Commit
  \/ MakeEsp \/ MountEsp \/ InstallGrub \/ InstallRescue \/ UmountEsp
  \/ MakeData \/ MakeSystem \/ MountSystem \/ Copy \/ UmountSystem
  \/ WriteStatus \/ UmountStatus \/ Refuse
Trouble == IdNotRead \/ Decline \/ Fail \/ PowerFails

NextInstaller ==
  \/ Program \/ Trouble \/ Reboot
  \/ \E id \in {None, "given"} : Run(id)

SpecInstaller == InitInstaller /\ [][NextInstaller]_installerVars

(* Fairness.  Commands end.  The technician tries again until a run has    *)
(* finished, and restarts the live system if the run left a system         *)
(* partition mounted, or the ESP while an id is passed.                    *)
LeftMounted ==
  at = "failed" /\ (system # NoEntry \/ (passed # None /\ boot # None))
FairSpecInstaller ==
  /\ SpecInstaller
  /\ WF_installerVars(Program)
  /\ WF_installerVars(at # "done" /\ \E id \in {None, "given"} : Run(id))
  /\ SF_installerVars(LeftMounted /\ Reboot)

------------------------------------------------------------------------------
(* The type of every variable. *)
TypeOKInstaller ==
  /\ at \in Commands \cup {"idle", "identify", "confirm", "umount_system", "done", "failed"}
  /\ passed \in {None, "given"} /\ machine_id \in Id \cup {None} /\ slot \in Slot
  /\ disk.esp \in Esp \cup {Broken} /\ boot \in Esp \cup {None}
  /\ disk.image \in [Slot -> {"none", "partial", "old", VERSION}]
  /\ system \in [Slot -> {None, "none", "partial", "old", VERSION}]
  /\ unflushed \subseteq Slot /\ known \in Id \cup {None}

(* What status.ini says is on a slot is whole on that slot's partition,    *)
(* wherever an installation over an older one was broken off: the update   *)
(* service takes these versions for installed.  A slot that could not be   *)
(* unmounted is recorded all the same.                                     *)
RecordedIsWhole ==
  disk.esp # Broken =>
    \A s \in Slot \ unflushed :
      disk.esp.status[s] # None => disk.image[s] = disk.esp.status[s]

(* A run that reports Done has left all that the first boot relies on: the *)
(* partitions, the loader with the id, the rescue system, and both slots   *)
(* whole and recorded with the same version.                               *)
DoneIsComplete ==
  at = "done" =>
    /\ disk.table /\ disk.data
    /\ disk.esp = [id |-> machine_id, loader |-> TRUE, rescue |-> TRUE,
                   status |-> [s \in Slot |-> VERSION]]
    /\ \A s \in Slot \ unflushed : disk.image[s] = VERSION

(* A disk that the program chose by its size in MiB, rounded down, has room *)
(* for the partitions, counted in sectors, and for both copies of the      *)
(* table: parted does not refuse the layout after the user has confirmed.  *)
ChosenDiskFits == at = "commit" /\ device_path = None => Fits

(* A machine keeps the id it is known by through any number of runs that   *)
(* are given none, finished or broken off; the exceptions are in known.    *)
IdIsKept ==
  [][passed = None /\ known # None => known' \in {known, None}]_installerVars

(* Once commands no longer fail, repeating the run gets the machine        *)
(* installed, whatever the failed runs have left behind.                   *)
InstallsInTheEnd ==
  <>[][~Trouble]_installerVars => []<>(at = "done")
=============================================================================
