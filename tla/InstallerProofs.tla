--------------------------- MODULE InstallerProofs ---------------------------
(* What holds of the installer's choice for every device and every option, *)
(* and of its runs, whatever fails in them and however often it is run.    *)
EXTENDS Installer, TLAPS

Enough(d, a, b, m, s, t) ==
  /\ a \in Nat /\ b \in Nat /\ m \in Nat /\ s \in Nat /\ t \in Nat
  /\ b > 0 /\ m > 0 /\ s > 0
  /\ a > t /\ d.length >= a + b + m + s + s + t + 1

(* The layout in numbers: four adjacent partitions, the first after the      *)
(* alignment.  It fits if the device holds all of them and the backup table. *)
LEMMA LayoutFits ==
  ASSUME NEW d \in Device, NEW sizes \in PartSizes,
         Enough(d, sizeToSectors(d, 8), sizeToSectors(d, sizes.boot),
                sizeToSectors(d, sizes.data), sizeToSectors(d, sizes.system),
                TableSectors(d))
  PROVE  create_partitioning(d, sizes)
<1> DEFINE g == _compute_geometries(d, sizes)
           a == sizeToSectors(d, 8)
           b == sizeToSectors(d, sizes.boot)
           m == sizeToSectors(d, sizes.data)
           s == sizeToSectors(d, sizes.system)
           t == TableSectors(d)
<1>1. d.length \in Nat
  BY DEF Device
<1>2. g = [esp     |-> [start |-> a, end |-> a + b - 1],
           data    |-> [start |-> a + b - 1 + 1, end |-> a + b - 1 + 1 + m - 1],
           systemA |-> [start |-> a + b - 1 + 1 + m - 1 + 1,
                        end   |-> a + b - 1 + 1 + m - 1 + 1 + s - 1],
           systemB |-> [start |-> a + b - 1 + 1 + m - 1 + 1 + s - 1 + 1,
                        end   |-> a + b - 1 + 1 + m - 1 + 1 + s - 1 + 1 + s - 1]]
  BY Zenon DEF _compute_geometries, Geometry, ALIGNMENT_SECTOR_SIZE_MiB
<1>3. Usable(d) = [start |-> 1 + t, end |-> d.length - t - 1]
  BY Zenon DEF Usable
<1> HIDE DEF g, a, b, m, s, t
<1>0. /\ a \in Nat /\ b \in Nat /\ m \in Nat /\ s \in Nat /\ t \in Nat
      /\ b > 0 /\ m > 0 /\ s > 0 /\ a > t /\ d.length >= a + b + m + s + s + t + 1
  BY DEF Enough, a, b, m, s, t
<1>4. g.esp.start = a /\ g.esp.end = a + b - 1
  BY <1>0, <1>2
<1>5. g.data.start = a + b /\ g.data.end = a + b + m - 1
  BY <1>0, <1>2
<1>6. g.systemA.start = a + b + m /\ g.systemA.end = a + b + m + s - 1
  BY <1>0, <1>2
<1>7. g.systemB.start = a + b + m + s /\ g.systemB.end = a + b + m + s + s - 1
  BY <1>0, <1>2
<1>8. DOMAIN g = {"esp", "data", "systemA", "systemB"}
  BY <1>2
<1>9. ASSUME NEW p \in DOMAIN g
      PROVE  g[p].start <= g[p].end /\ Inside(g[p], Usable(d))
  <2>1. Usable(d).start = 1 + t /\ Usable(d).end = d.length - t - 1
    BY <1>3
  <2>2. CASE p = "esp"
    BY <1>0, <1>1, <1>4, <2>1, <2>2 DEF Inside
  <2>3. CASE p = "data"
    BY <1>0, <1>1, <1>5, <2>1, <2>3 DEF Inside
  <2>4. CASE p = "systemA"
    BY <1>0, <1>1, <1>6, <2>1, <2>4 DEF Inside
  <2>5. CASE p = "systemB"
    BY <1>0, <1>1, <1>7, <2>1, <2>5 DEF Inside
  <2> QED
    BY <1>8, <1>9, <2>2, <2>3, <2>4, <2>5
<1>10. Before(g.esp, g.data) /\ Before(g.data, g.systemA) /\ Before(g.systemA, g.systemB)
  BY <1>0, <1>4, <1>5, <1>6, <1>7 DEF Before
<1> QED
  BY <1>9, <1>10, Zenon DEF create_partitioning, g

(* A device the filter lets through has room for the four partitions and   *)
(* both partition tables: the one MiB that total_req_size_mib adds and the *)
(* strict comparison are enough for the backup table, whatever the sector  *)
(* size and however much of the last MiB is missing.                       *)
LEMMA FilterLeavesRoom ==
  ASSUME NEW d \in Device, NEW sizes \in PartSizes, NEW medium,
         device_filter(d, medium, sizes)
  PROVE  create_partitioning(d, sizes)
<1>1. d.length \in Nat /\ sizes.boot \in Nat \ {0} /\ sizes.data \in Nat \ {0}
      /\ sizes.system \in Nat \ {0}
  BY DEF Device, PartSizes
<1>2. CASE d.sectorSize = 512
  <2>1. 2048 = SectorsPerMiB(d) /\ 33 = TableSectors(d)
    BY <1>2 DEF SectorsPerMiB, TableSectors
  <2>2. d.length >= 2048 * (total_req_size_mib(sizes) + 1)
    BY <1>1, <1>2 DEF device_filter, mib_size, bytes, total_req_size_mib, ALIGNMENT_SECTOR_SIZE_MiB
  <2>3. /\ sizeToSectors(d, 8) = 8 * 2048
        /\ sizeToSectors(d, sizes.boot) = sizes.boot * 2048
        /\ sizeToSectors(d, sizes.data) = sizes.data * 2048
        /\ sizeToSectors(d, sizes.system) = sizes.system * 2048
    BY <2>1 DEF sizeToSectors
  <2>4. Enough(d, 8 * 2048, sizes.boot * 2048, sizes.data * 2048, sizes.system * 2048, 33)
    BY <1>1, <2>2 DEF Enough, total_req_size_mib, ALIGNMENT_SECTOR_SIZE_MiB
  <2>5. Enough(d, sizeToSectors(d, 8), sizeToSectors(d, sizes.boot),
               sizeToSectors(d, sizes.data), sizeToSectors(d, sizes.system),
               TableSectors(d))
    BY <2>1, <2>3, <2>4
  <2> QED
    BY <2>5, LayoutFits
<1>3. CASE d.sectorSize = 4096
  <2>1. 256 = SectorsPerMiB(d) /\ 5 = TableSectors(d)
    BY <1>3 DEF SectorsPerMiB, TableSectors
  <2>2. d.length >= 256 * (total_req_size_mib(sizes) + 1)
    BY <1>1, <1>3 DEF device_filter, mib_size, bytes, total_req_size_mib, ALIGNMENT_SECTOR_SIZE_MiB
  <2>3. /\ sizeToSectors(d, 8) = 8 * 256
        /\ sizeToSectors(d, sizes.boot) = sizes.boot * 256
        /\ sizeToSectors(d, sizes.data) = sizes.data * 256
        /\ sizeToSectors(d, sizes.system) = sizes.system * 256
    BY <2>1 DEF sizeToSectors
  <2>4. Enough(d, 8 * 256, sizes.boot * 256, sizes.data * 256, sizes.system * 256, 5)
    BY <1>1, <2>2 DEF Enough, total_req_size_mib, ALIGNMENT_SECTOR_SIZE_MiB
  <2>5. Enough(d, sizeToSectors(d, 8), sizeToSectors(d, sizes.boot),
               sizeToSectors(d, sizes.data), sizeToSectors(d, sizes.system),
               TableSectors(d))
    BY <2>1, <2>3, <2>4
  <2> QED
    BY <2>5, LayoutFits
<1> QED
  BY <1>2, <1>3 DEF SectorSize, Device

(* A device that find_device picks on its own can always be partitioned,   *)
(* and is neither read-only nor the medium the installer runs from.        *)
THEOREM ChosenDeviceFits ==
  ASSUME NEW devices \in SUBSET Device, NEW sizes \in PartSizes, NEW medium,
         NEW d \in find_device(devices, None, medium, sizes)
  PROVE  create_partitioning(d, sizes) /\ ~d.readOnly /\ ~is_boot_device(d, medium)
<1>1. d \in Device /\ device_filter(d, medium, sizes)
  BY DEF find_device
<1> QED
  BY <1>1, FilterLeavesRoom DEF device_filter

------------------------------------------------------------------------------
(* What a run has achieved at each of its commands. *)

Image == {"none", "partial", "old", VERSION}

TypeOKDisk ==
  disk \in [table : BOOLEAN, esp : Esp \cup {Broken}, data : BOOLEAN, image : [Slot -> Image]]

(* An entry is never of a slot that is being written: its image is on the   *)
(* disk and its partition is not mounted.                                   *)
Whole(esp, image, mounted, failed) ==
  \A s \in Slot \ failed :
    esp.status[s] # None => image[s] = esp.status[s] /\ mounted[s] = None

Recorded ==
  /\ disk.esp # Broken => Whole(disk.esp, disk.image, system, unflushed)
  /\ boot # None => Whole(boot, disk.image, system, unflushed) /\ disk.esp # Broken

GrubEsp   == [NewEsp EXCEPT !.loader = TRUE, !.id = machine_id]
FullEsp   == [GrubEsp EXCEPT !.rescue = TRUE]
WithEntries(status) == [FullEsp EXCEPT !.status = status]
Entries   == [s \in Slot |-> IF s = "a" /\ slot = "b" THEN VERSION ELSE None]

InSlot  == {"mkfs_system", "mount_system", "copy", "umount_system", "mount_status"}
Writing == {"write_status", "umount_status"}

EspProgress ==
  /\ at \in {"mount_esp", "grub", "rescue", "umount_esp"} => disk.esp = NewEsp
  /\ at \in {"mount_esp", "mkfs_data"} \cup InSlot => boot = None
  /\ at = "grub" => boot = NewEsp
  /\ at = "rescue" => boot = GrubEsp
  /\ at = "umount_esp" => boot = FullEsp
  /\ at \in {"mkfs_data"} \cup InSlot \cup Writing =>
       disk.esp = WithEntries(Entries)
  /\ at = "write_status" => boot = WithEntries(Entries)
  /\ at = "umount_status" => boot = WithEntries([Entries EXCEPT ![slot] = VERSION])
  /\ at = "done" => disk.esp = WithEntries([s \in Slot |-> VERSION])

DiskProgress ==
  /\ at \in (Commands \ {"commit"}) \cup {"umount_system", "done"} => disk.table
  /\ at \in InSlot \cup Writing \cup {"done"} => disk.data
  /\ at \in (Commands \ (InSlot \cup Writing)) \cup {"identify", "confirm"} => slot = "a"
  /\ at = "umount_system" => system[slot] = VERSION
  /\ at \in {"mount_status"} \cup Writing =>
       slot \in unflushed \/ (disk.image[slot] = VERSION /\ system[slot] = None)

(* Where the machine's id is to be found, as long as it is known.           *)
IdIsFound ==
  known # None =>
    /\ at \notin {"mount_esp", "grub", "rescue", "umount_esp"} =>
         disk.table /\ disk.esp # Broken /\ disk.esp.id = known
    /\ at \in {"idle", "failed", "done", "identify", "confirm", "commit", "mkfs_esp"} =>
         boot = None
    /\ at \in Writing => boot.id = known
    /\ passed = None /\ at \in {"confirm", "commit", "mkfs_esp", "mount_esp", "grub",
                               "rescue", "umount_esp"} => machine_id = known

InvInstaller ==
  TypeOKInstaller /\ TypeOKDisk /\ Recorded /\ EspProgress /\ DiskProgress /\ IdIsFound

(* ESPs are told apart by what is in them.                                  *)
LEMMA SameEsp ==
  ASSUME NEW e \in Esp, NEW f \in Esp,
         e.id = f.id, e.loader = f.loader, e.rescue = f.rescue, e.status = f.status
  PROVE  e = f
BY DEF Esp

LEMMA EspFields ==
  ASSUME machine_id \in Id \cup {None}
  PROVE  /\ NewEsp \in Esp /\ GrubEsp \in Esp /\ FullEsp \in Esp
         /\ NewEsp.status = NoEntry /\ GrubEsp.status = NoEntry /\ FullEsp.status = NoEntry
         /\ NewEsp.id = None /\ GrubEsp.id = machine_id /\ FullEsp.id = machine_id
         /\ FullEsp.loader = TRUE /\ FullEsp.rescue = TRUE
<1>1. NoEntry \in [Slot -> {None, "old", VERSION}]
  BY DEF NoEntry
<1>2. /\ NewEsp \in Esp /\ NewEsp.status = NoEntry /\ NewEsp.id = None
  BY <1>1, Zenon DEF NewEsp, Esp
<1>3. /\ GrubEsp \in Esp /\ GrubEsp.status = NoEntry /\ GrubEsp.id = machine_id
      /\ GrubEsp.loader = TRUE
  BY <1>2 DEF GrubEsp, Esp
<1>4. /\ FullEsp \in Esp /\ FullEsp.status = NoEntry /\ FullEsp.id = machine_id
      /\ FullEsp.loader = TRUE /\ FullEsp.rescue = TRUE
  BY <1>3 DEF FullEsp, Esp
<1> QED BY <1>2, <1>3, <1>4

LEMMA EntryFields ==
  ASSUME machine_id \in Id \cup {None}, NEW status \in [Slot -> {None, "old", VERSION}]
  PROVE  /\ WithEntries(status) \in Esp /\ WithEntries(status).status = status
         /\ WithEntries(status).id = machine_id
         /\ WithEntries(status).loader = TRUE /\ WithEntries(status).rescue = TRUE
BY EspFields DEF WithEntries, Esp

LEMMA SlotEntries ==
  ASSUME slot \in Slot
  PROVE  /\ Entries \in [Slot -> {None, "old", VERSION}] /\ Entries[slot] = None
         /\ slot = "a" => Entries = NoEntry
         /\ slot = "a" => [Entries EXCEPT ![slot] = VERSION]
                         = [s \in Slot |-> IF s = "a" THEN VERSION ELSE None]
         /\ slot = "b" => [Entries EXCEPT ![slot] = VERSION] = [s \in Slot |-> VERSION]
         /\ [Entries EXCEPT ![slot] = VERSION] \in [Slot -> {None, "old", VERSION}]
<1>1. Entries \in [Slot -> {None, "old", VERSION}] /\ Entries[slot] = None
  BY DEF Entries, Slot
<1>2. slot = "a" => Entries = NoEntry
  BY DEF Entries, NoEntry, Slot
<1>3. slot = "a" => [Entries EXCEPT ![slot] = VERSION]
                  = [s \in Slot |-> IF s = "a" THEN VERSION ELSE None]
  BY DEF Entries, Slot
<1>4. slot = "b" => [Entries EXCEPT ![slot] = VERSION] = [s \in Slot |-> VERSION]
  BY DEF Entries, Slot
<1> QED BY <1>1, <1>2, <1>3, <1>4

(* What is known of the two views of the ESP at each command.               *)
LEMMA EspAt ==
  ASSUME InvInstaller
  PROVE  /\ at \in {"mount_esp", "grub", "rescue", "umount_esp"} =>
              disk.esp \in Esp /\ disk.esp.status = NoEntry
         /\ at \in {"grub", "rescue", "umount_esp"} => boot \in Esp /\ boot.status = NoEntry
         /\ at = "umount_esp" => boot.id = machine_id /\ boot = WithEntries(NoEntry)
         /\ at \in {"mkfs_data"} \cup InSlot \cup Writing =>
              /\ disk.esp \in Esp /\ disk.esp.status = Entries /\ disk.esp.id = machine_id
              /\ disk.esp.status[slot] = None
         /\ at = "write_status" =>
              boot \in Esp /\ boot.status = Entries /\ boot.id = machine_id
         /\ at = "umount_status" =>
              /\ boot \in Esp /\ boot.id = machine_id
              /\ boot.status = [Entries EXCEPT ![slot] = VERSION]
<1> USE DEF InvInstaller
<1>1. machine_id \in Id \cup {None} /\ slot \in Slot
  BY DEF TypeOKInstaller
<1>2. NoEntry \in [Slot -> {None, "old", VERSION}]
  BY DEF NoEntry
<1>3. FullEsp = WithEntries(NoEntry)
  <2> DEFINE w == WithEntries(NoEntry)
  <2>1. FullEsp \in Esp /\ FullEsp.status = NoEntry /\ FullEsp.id = machine_id
        /\ FullEsp.loader = TRUE /\ FullEsp.rescue = TRUE
    BY <1>1, EspFields
  <2>2. w \in Esp /\ w.status = NoEntry /\ w.id = machine_id
        /\ w.loader = TRUE /\ w.rescue = TRUE
    BY <1>1, <1>2, EntryFields
  <2> HIDE DEF w
  <2>3. FullEsp.loader = w.loader /\ FullEsp.rescue = w.rescue /\ FullEsp.id = w.id
        /\ FullEsp.status = w.status
    BY <2>1, <2>2
  <2>4. FullEsp = w
    BY <2>1, <2>2, <2>3, SameEsp
  <2> QED BY <2>4 DEF w
<1>4. /\ NewEsp \in Esp /\ GrubEsp \in Esp /\ FullEsp \in Esp
      /\ NewEsp.status = NoEntry /\ GrubEsp.status = NoEntry /\ FullEsp.status = NoEntry
      /\ FullEsp.id = machine_id
  BY <1>1, EspFields
<1>5. /\ WithEntries(Entries) \in Esp /\ WithEntries(Entries).status = Entries
      /\ WithEntries(Entries).id = machine_id /\ Entries[slot] = None
  BY <1>1, EntryFields, SlotEntries
<1> DEFINE next == [Entries EXCEPT ![slot] = VERSION]
<1>6. next \in [Slot -> {None, "old", VERSION}]
  BY <1>1, SlotEntries
<1> HIDE DEF next
<1>7. WithEntries(next) \in Esp /\ WithEntries(next).status = next
      /\ WithEntries(next).id = machine_id
  BY <1>1, <1>6, EntryFields
<1>8. at = "umount_status" => boot = WithEntries(next)
  BY DEF EspProgress, next
<1>9. at = "umount_status" =>
        boot \in Esp /\ boot.id = machine_id /\ boot.status = [Entries EXCEPT ![slot] = VERSION]
  BY <1>7, <1>8 DEF next
<1> QED
  BY <1>3, <1>4, <1>5, <1>9 DEF EspProgress

(* An ESP without entries claims nothing, and one with the entries of      *)
(* another claims no more than that.                                       *)
LEMMA WholeFacts ==
  ASSUME NEW e, NEW image, NEW mounted, NEW failed
  PROVE  /\ e.status = NoEntry => Whole(e, image, mounted, failed)
         /\ \A f : f.status = e.status /\ Whole(e, image, mounted, failed) =>
                  Whole(f, image, mounted, failed)
BY DEF Whole, NoEntry

------------------------------------------------------------------------------
(* One lemma per action. *)

LEMMA InitInvInstaller == InitInstaller => InvInstaller
<1> SUFFICES ASSUME InitInstaller PROVE InvInstaller
  OBVIOUS
<1> USE InstallerAssumption DEF InitInstaller
<1>1. /\ disk.esp \in Esp \cup {Broken} /\ disk.table \in BOOLEAN /\ disk.data \in BOOLEAN
      /\ disk.image \in [Slot -> Image] /\ TypeOKDisk
      /\ disk.esp # Broken => disk.table /\ disk.image = disk.esp.status /\ disk.esp.id = "own"
      /\ disk.table => disk.esp # Broken
  <2>1. CASE disk = ForeignDisk
    BY <2>1 DEF ForeignDisk, Image, TypeOKDisk
  <2>2. CASE disk = OldMachine
    <3>1. OldMachine.esp \in Esp
      BY Zenon DEF OldMachine, Esp, Id, Slot
    <3>2. /\ OldMachine.table = TRUE /\ OldMachine.data = TRUE
          /\ OldMachine.image = [s \in Slot |-> "old"]
          /\ OldMachine.esp.status = [s \in Slot |-> "old"] /\ OldMachine.esp.id = "own"
      BY DEF OldMachine
    <3>3. TypeOKDisk
      BY <2>2, <3>1, Zenon DEF OldMachine, TypeOKDisk, Image
    <3> QED BY <2>2, <3>1, <3>2, <3>3 DEF Image
  <2> QED BY <2>1, <2>2
<1>2. /\ boot = None /\ system = NoEntry /\ known = IF disk.table THEN disk.esp.id ELSE None
      /\ at = "idle" /\ passed = None /\ machine_id = None /\ slot = "a" /\ unflushed = {}
  OBVIOUS
<1>3. disk.table <=> disk.esp # Broken
  BY <1>1
<1>4. TypeOKInstaller
  BY <1>1, <1>2, <1>3 DEF TypeOKInstaller, Image, Slot, NoEntry, Id
<1>5. Recorded
  BY <1>1, <1>2 DEF Recorded, Whole, NoEntry
<1>6. EspProgress /\ DiskProgress
  BY <1>2 DEF EspProgress, DiskProgress, InSlot, Writing, Commands
<1>7. IdIsFound
  BY <1>1, <1>2, <1>3 DEF IdIsFound, Writing
<1> QED BY <1>1, <1>4, <1>5, <1>6, <1>7 DEF InvInstaller

LEMMA _ensure_machine_idKeeps == InvInstaller /\ _ensure_machine_id => InvInstaller'
<1> SUFFICES ASSUME InvInstaller, _ensure_machine_id PROVE InvInstaller'
  OBVIOUS
<1> USE InstallerAssumption
    DEF InvInstaller, TypeOKInstaller, TypeOKDisk, _ensure_machine_id, Goto, UnmountBoot, ConfiguredId, runVars, historyVars
<1>1. TypeOKInstaller' /\ TypeOKDisk'
  BY DEF Esp, Image, Slot, Id, VERSION, Commands, NoEntry
<1>2. Recorded'
  BY DEF Recorded
<1>3. EspProgress'
  BY DEF EspProgress, GrubEsp, FullEsp, WithEntries, Entries, InSlot, Writing
<1>4. DiskProgress'
  BY DEF DiskProgress, InSlot, Writing, Commands
<1>5. IdIsFound'
  BY DEF IdIsFound, EspProgress, InSlot, Writing, Commands
<1> QED BY <1>1, <1>2, <1>3, <1>4, <1>5

LEMMA IdNotReadKeeps == InvInstaller /\ IdNotRead => InvInstaller'
<1> SUFFICES ASSUME InvInstaller, IdNotRead PROVE InvInstaller'
  OBVIOUS
<1> USE InstallerAssumption
    DEF InvInstaller, TypeOKInstaller, TypeOKDisk, IdNotRead, Goto, UnmountBoot, runVars, historyVars
<1>1. TypeOKInstaller' /\ TypeOKDisk'
  BY DEF Esp, Image, Slot, Id, VERSION, Commands, NoEntry
<1>2. Recorded'
  BY DEF Recorded
<1>3. EspProgress'
  BY DEF EspProgress, GrubEsp, FullEsp, WithEntries, Entries, InSlot, Writing
<1>4. DiskProgress'
  BY DEF DiskProgress, InSlot, Writing, Commands
<1>5. IdIsFound'
  BY DEF IdIsFound, EspProgress, InSlot, Writing, Commands
<1> QED BY <1>1, <1>2, <1>3, <1>4, <1>5

LEMMA ConfirmKeeps == InvInstaller /\ Confirm => InvInstaller'
<1> SUFFICES ASSUME InvInstaller, Confirm PROVE InvInstaller'
  OBVIOUS
<1> USE InstallerAssumption
    DEF InvInstaller, TypeOKInstaller, TypeOKDisk, Confirm, Goto, runVars, historyVars
<1>1. TypeOKInstaller' /\ TypeOKDisk'
  BY DEF Esp, Image, Slot, Id, VERSION, Commands, NoEntry
<1>2. Recorded'
  BY DEF Recorded
<1>3. EspProgress'
  BY DEF EspProgress, GrubEsp, FullEsp, WithEntries, Entries, InSlot, Writing
<1>4. DiskProgress'
  BY DEF DiskProgress, InSlot, Writing, Commands
<1>5. IdIsFound'
  BY DEF IdIsFound, EspProgress, InSlot, Writing, Commands
<1> QED BY <1>1, <1>2, <1>3, <1>4, <1>5

LEMMA DeclineKeeps == InvInstaller /\ Decline => InvInstaller'
<1> SUFFICES ASSUME InvInstaller, Decline PROVE InvInstaller'
  OBVIOUS
<1> USE InstallerAssumption
    DEF InvInstaller, TypeOKInstaller, TypeOKDisk, Decline, Goto, runVars, historyVars
<1>1. TypeOKInstaller' /\ TypeOKDisk'
  BY DEF Esp, Image, Slot, Id, VERSION, Commands, NoEntry
<1>2. Recorded'
  BY DEF Recorded
<1>3. EspProgress'
  BY DEF EspProgress, GrubEsp, FullEsp, WithEntries, Entries, InSlot, Writing
<1>4. DiskProgress'
  BY DEF DiskProgress, InSlot, Writing, Commands
<1>5. IdIsFound'
  BY DEF IdIsFound, EspProgress, InSlot, Writing, Commands
<1> QED BY <1>1, <1>2, <1>3, <1>4, <1>5

LEMMA CommitKeeps == InvInstaller /\ Commit => InvInstaller'
<1> SUFFICES ASSUME InvInstaller, Commit PROVE InvInstaller'
  OBVIOUS
<1> USE InstallerAssumption
    DEF InvInstaller, TypeOKInstaller, TypeOKDisk, Commit, Goto, runVars, historyVars
<1>1. TypeOKInstaller' /\ TypeOKDisk'
  BY DEF Esp, Image, Slot, Id, VERSION, Commands, NoEntry
<1>2. Recorded'
  BY DEF Recorded
<1>3. EspProgress'
  BY DEF EspProgress, GrubEsp, FullEsp, WithEntries, Entries, InSlot, Writing
<1>4. DiskProgress'
  BY DEF DiskProgress, InSlot, Writing, Commands
<1>5. IdIsFound'
  BY DEF IdIsFound, EspProgress, InSlot, Writing, Commands
<1> QED BY <1>1, <1>2, <1>3, <1>4, <1>5

LEMMA MakeEspKeeps == InvInstaller /\ MakeEsp => InvInstaller'
<1> SUFFICES ASSUME InvInstaller, MakeEsp PROVE InvInstaller'
  OBVIOUS
<1> USE InstallerAssumption
    DEF InvInstaller, TypeOKInstaller, TypeOKDisk, MakeEsp, Goto, runVars, historyVars
<1>1. TypeOKInstaller' /\ TypeOKDisk'
  BY EspFields DEF Esp, Image, Slot, Id, VERSION, Commands, NoEntry
<1>2. Recorded'
  <2>1. disk'.esp = NewEsp /\ boot = None /\ NewEsp.status = NoEntry
    BY EspFields
  <2> QED BY <2>1, WholeFacts DEF Recorded
<1>3. EspProgress'
  BY DEF EspProgress, GrubEsp, FullEsp, WithEntries, Entries, InSlot, Writing
<1>4. DiskProgress'
  BY DEF DiskProgress, InSlot, Writing, Commands
<1>5. IdIsFound'
  BY DEF IdIsFound, EspProgress, InSlot, Writing, Commands
<1> QED BY <1>1, <1>2, <1>3, <1>4, <1>5

LEMMA MakeDataKeeps == InvInstaller /\ MakeData => InvInstaller'
<1> SUFFICES ASSUME InvInstaller, MakeData PROVE InvInstaller'
  OBVIOUS
<1> USE InstallerAssumption
    DEF InvInstaller, TypeOKInstaller, TypeOKDisk, MakeData, Goto, runVars, historyVars
<1>1. TypeOKInstaller' /\ TypeOKDisk'
  BY DEF Esp, Image, Slot, Id, VERSION, Commands, NoEntry
<1>2. Recorded'
  BY DEF Recorded
<1>3. EspProgress'
  BY DEF EspProgress, GrubEsp, FullEsp, WithEntries, Entries, InSlot, Writing
<1>4. DiskProgress'
  BY DEF DiskProgress, InSlot, Writing, Commands
<1>5. IdIsFound'
  BY DEF IdIsFound, EspProgress, InSlot, Writing, Commands
<1> QED BY <1>1, <1>2, <1>3, <1>4, <1>5

LEMMA RefuseKeeps == InvInstaller /\ Refuse => InvInstaller'
<1> SUFFICES ASSUME InvInstaller, Refuse PROVE InvInstaller'
  OBVIOUS
<1> USE InstallerAssumption
    DEF InvInstaller, TypeOKInstaller, TypeOKDisk, Refuse, Refused, runVars, historyVars
<1>1. TypeOKInstaller' /\ TypeOKDisk'
  BY DEF Esp, Image, Slot, Id, VERSION, Commands, NoEntry
<1>2. Recorded'
  BY DEF Recorded
<1>3. EspProgress'
  BY DEF EspProgress, GrubEsp, FullEsp, WithEntries, Entries, InSlot, Writing
<1>4. DiskProgress'
  BY DEF DiskProgress, InSlot, Writing, Commands
<1>5. IdIsFound'
  BY DEF IdIsFound, EspProgress, InSlot, Writing, Commands
<1> QED BY <1>1, <1>2, <1>3, <1>4, <1>5

LEMMA RebootKeeps == InvInstaller /\ Reboot => InvInstaller'
<1> SUFFICES ASSUME InvInstaller, Reboot PROVE InvInstaller'
  OBVIOUS
<1> USE InstallerAssumption
    DEF InvInstaller, TypeOKInstaller, TypeOKDisk, Reboot, EndOfSession, runVars, historyVars
<1>1. TypeOKInstaller' /\ TypeOKDisk'
  BY DEF Esp, Image, Slot, Id, VERSION, Commands, NoEntry
<1>2. Recorded'
  <2>1. /\ disk'.esp = IF boot = None THEN disk.esp ELSE boot
        /\ \A s \in Slot : system[s] = None => disk'.image[s] = disk.image[s]
    OBVIOUS
  <2>2. /\ disk.esp # Broken => Whole(disk.esp, disk'.image, NoEntry, unflushed)
        /\ boot # None => Whole(boot, disk'.image, NoEntry, unflushed)
    BY <2>1 DEF Recorded, Whole, NoEntry
  <2> QED BY <2>1, <2>2 DEF Recorded
<1>3. EspProgress'
  BY DEF EspProgress, GrubEsp, FullEsp, WithEntries, Entries, InSlot, Writing
<1>4. DiskProgress'
  BY DEF DiskProgress, InSlot, Writing, Commands
<1>5. IdIsFound'
  BY DEF IdIsFound, EspProgress, InSlot, Writing, Commands
<1> QED BY <1>1, <1>2, <1>3, <1>4, <1>5

LEMMA MountEspKeeps == InvInstaller /\ MountEsp => InvInstaller'
<1> SUFFICES ASSUME InvInstaller, MountEsp PROVE InvInstaller'
  OBVIOUS
<1> USE InstallerAssumption DEF InvInstaller, MountEsp, Goto, runVars, historyVars
<1>1. disk.esp \in Esp /\ boot' = disk.esp /\ UNCHANGED <<disk, system>>
  BY EspAt DEF InSlot
<1>2. TypeOKInstaller' /\ TypeOKDisk'
  BY <1>1 DEF TypeOKInstaller, TypeOKDisk, Commands
<1>3. Recorded'
  BY <1>1 DEF Recorded
<1>4. EspProgress'
  <2>1. WithEntries(Entries)' = WithEntries(Entries) /\ NewEsp' = NewEsp
    BY DEF WithEntries, FullEsp, GrubEsp, NewEsp, Entries
  <2> QED BY <2>1 DEF EspProgress, InSlot, Writing
<1>5. DiskProgress'
  BY DEF DiskProgress, InSlot, Writing, Commands
<1>6. IdIsFound'
  BY DEF IdIsFound, InSlot, Writing
<1> QED BY <1>2, <1>3, <1>4, <1>5, <1>6

LEMMA InstallGrubKeeps == InvInstaller /\ InstallGrub => InvInstaller'
<1> SUFFICES ASSUME InvInstaller, InstallGrub PROVE InvInstaller'
  OBVIOUS
<1> USE InstallerAssumption DEF InvInstaller, InstallGrub, Goto, runVars, historyVars
<1>1. /\ boot' = GrubEsp /\ GrubEsp' = GrubEsp
      /\ GrubEsp \in Esp /\ GrubEsp.status = NoEntry /\ disk.esp \in Esp
  BY EspAt, EspFields DEF EspProgress, TypeOKInstaller, GrubEsp
<1>2. TypeOKInstaller' /\ TypeOKDisk'
  BY <1>1 DEF TypeOKInstaller, TypeOKDisk, Commands
<1>3. Recorded'
  BY <1>1, WholeFacts DEF Recorded
<1>4. EspProgress'
  BY <1>1 DEF EspProgress, InSlot, Writing
<1>5. DiskProgress'
  BY DEF DiskProgress, InSlot, Writing, Commands
<1>6. IdIsFound'
  BY DEF IdIsFound, InSlot, Writing
<1> QED BY <1>2, <1>3, <1>4, <1>5, <1>6

LEMMA InstallRescueKeeps == InvInstaller /\ InstallRescue => InvInstaller'
<1> SUFFICES ASSUME InvInstaller, InstallRescue PROVE InvInstaller'
  OBVIOUS
<1> USE InstallerAssumption DEF InvInstaller, InstallRescue, Goto, runVars, historyVars
<1>1. /\ boot' = FullEsp /\ FullEsp' = FullEsp
      /\ FullEsp \in Esp /\ FullEsp.status = NoEntry /\ disk.esp \in Esp
  BY EspAt, EspFields DEF EspProgress, TypeOKInstaller, FullEsp, GrubEsp
<1>2. TypeOKInstaller' /\ TypeOKDisk'
  BY <1>1 DEF TypeOKInstaller, TypeOKDisk, Commands
<1>3. Recorded'
  BY <1>1, WholeFacts DEF Recorded
<1>4. EspProgress'
  BY <1>1 DEF EspProgress, InSlot, Writing
<1>5. DiskProgress'
  BY DEF DiskProgress, InSlot, Writing, Commands
<1>6. IdIsFound'
  BY DEF IdIsFound, InSlot, Writing
<1> QED BY <1>2, <1>3, <1>4, <1>5, <1>6

LEMMA UmountEspKeeps == InvInstaller /\ UmountEsp => InvInstaller'
<1> SUFFICES ASSUME InvInstaller, UmountEsp PROVE InvInstaller'
  OBVIOUS
<1> USE InstallerAssumption DEF InvInstaller, UmountEsp, Goto, UnmountBoot, runVars, historyVars
<1>1. /\ boot \in Esp /\ boot.id = machine_id /\ boot = WithEntries(NoEntry)
      /\ slot = "a" /\ machine_id \in Id \cup {None}
  BY EspAt DEF DiskProgress, Commands, InSlot, Writing, TypeOKInstaller
<1>2. boot' = None /\ disk' = [disk EXCEPT !.esp = boot] /\ known' = machine_id
  BY <1>1
<1>3. disk'.esp = boot /\ disk'.image = disk.image /\ disk'.table = disk.table
  BY <1>2 DEF TypeOKDisk
<1>4. TypeOKInstaller'
  BY <1>1, <1>2, <1>3 DEF TypeOKInstaller, Commands
<1>5. TypeOKDisk'
  BY <1>1, <1>2 DEF TypeOKDisk
<1>6. Recorded'
  BY <1>1, <1>2, <1>3 DEF Recorded
<1>7. EspProgress'
  <2>1. WithEntries(Entries)' = WithEntries(Entries) /\ Entries = NoEntry
    BY <1>1, SlotEntries DEF WithEntries, FullEsp, GrubEsp, Entries, TypeOKInstaller
  <2> QED BY <1>1, <1>2, <1>3, <2>1 DEF EspProgress, InSlot, Writing
<1>8. DiskProgress'
  BY <1>3 DEF DiskProgress, InSlot, Writing, Commands
<1>9. IdIsFound'
  BY <1>1, <1>2, <1>3 DEF IdIsFound, InSlot, Writing, DiskProgress, Commands
<1> QED BY <1>4, <1>5, <1>6, <1>7, <1>8, <1>9

LEMMA MakeSystemKeeps == InvInstaller /\ MakeSystem => InvInstaller'
<1> SUFFICES ASSUME InvInstaller, MakeSystem PROVE InvInstaller'
  OBVIOUS
<1> USE InstallerAssumption DEF InvInstaller, MakeSystem, Goto, runVars, historyVars
<1>1. /\ disk'.esp = disk.esp /\ disk'.table = disk.table /\ disk'.data = disk.data
      /\ disk'.image \in [Slot -> Image]
      /\ \A s \in Slot \ {slot} : disk'.image[s] = disk.image[s]
  BY DEF TypeOKDisk, Image
<1>2. TypeOKInstaller'
  BY <1>1 DEF TypeOKInstaller, Commands, Image
<1>3. TypeOKDisk'
  BY DEF TypeOKDisk, Image
<1>4. Recorded'
  <2>1. disk.esp.status[slot] = None /\ disk.esp # Broken /\ boot = None
    BY EspAt DEF InSlot, EspProgress
  <2>2. Whole(disk.esp, disk.image, system, unflushed)
    BY <2>1 DEF Recorded
  <2>3. Whole(disk.esp, disk'.image, system, unflushed)
    BY <1>1, <2>1, <2>2 DEF Whole
  <2> QED BY <1>1, <2>1, <2>3 DEF Recorded
<1>5. EspProgress'
  <2>1. WithEntries(Entries)' = WithEntries(Entries)
    BY DEF WithEntries, FullEsp, GrubEsp, Entries
  <2> QED BY <1>1, <2>1 DEF EspProgress, InSlot, Writing
<1>6. DiskProgress'
  BY <1>1 DEF DiskProgress, InSlot, Writing, Commands
<1>7. IdIsFound'
  BY <1>1 DEF IdIsFound, InSlot, Writing
<1> QED BY <1>2, <1>3, <1>4, <1>5, <1>6, <1>7

LEMMA MountSystemKeeps == InvInstaller /\ (MountSystem \/ Copy) => InvInstaller'
<1> SUFFICES ASSUME InvInstaller, MountSystem \/ Copy PROVE InvInstaller'
  OBVIOUS
<1> USE InstallerAssumption DEF InvInstaller, MountSystem, Copy, Goto, runVars, historyVars
<1>0. /\ at \in {"mount_system", "copy"} /\ at' \in {"copy", "umount_system"}
      /\ UNCHANGED <<passed, machine_id, slot, disk, boot, unflushed, known>>
  OBVIOUS
<1>1. /\ system' \in [Slot -> Image \cup {None}]
      /\ \A s \in Slot \ {slot} : system'[s] = system[s]
      /\ at' = "umount_system" => system'[slot] = VERSION
  BY DEF TypeOKInstaller, TypeOKDisk, Image
<1>2. TypeOKInstaller' /\ TypeOKDisk'
  BY <1>0, <1>1 DEF TypeOKInstaller, TypeOKDisk, Commands, Image
<1>3. Recorded'
  <2>1. disk.esp.status[slot] = None /\ disk.esp # Broken /\ boot = None
    BY <1>0, EspAt DEF InSlot, EspProgress
  <2>2. Whole(disk.esp, disk.image, system, unflushed)
    BY <2>1 DEF Recorded
  <2>3. Whole(disk.esp, disk.image, system', unflushed)
    BY <1>1, <2>1, <2>2 DEF Whole
  <2> QED BY <1>0, <2>1, <2>3 DEF Recorded
<1>4. EspProgress'
  <2>1. WithEntries(Entries)' = WithEntries(Entries)
    BY <1>0 DEF WithEntries, FullEsp, GrubEsp, Entries
  <2> QED BY <1>0, <2>1 DEF EspProgress, InSlot, Writing
<1>5. DiskProgress'
  BY <1>0, <1>1 DEF DiskProgress, InSlot, Writing, Commands
<1>6. IdIsFound'
  BY <1>0 DEF IdIsFound, InSlot, Writing
<1> QED BY <1>2, <1>3, <1>4, <1>5, <1>6

LEMMA UmountSystemKeeps == InvInstaller /\ UmountSystem => InvInstaller'
<1> SUFFICES ASSUME InvInstaller, UmountSystem PROVE InvInstaller'
  OBVIOUS
<1> USE InstallerAssumption DEF InvInstaller, UmountSystem, Goto, runVars, historyVars
<1>1. system[slot] = VERSION /\ slot \in Slot
  BY DEF DiskProgress, TypeOKInstaller
<1>2. /\ disk'.esp = disk.esp /\ disk'.table = disk.table /\ disk'.data = disk.data
      /\ disk'.image \in [Slot -> Image] /\ system' \in [Slot -> Image \cup {None}]
      /\ \A s \in Slot \ {slot} : disk'.image[s] = disk.image[s] /\ system'[s] = system[s]
      /\ unflushed \subseteq unflushed' /\ unflushed' \subseteq Slot
      /\ slot \in unflushed' \/ (disk'.image[slot] = VERSION /\ system'[slot] = None)
  BY <1>1 DEF TypeOKDisk, TypeOKInstaller, Image
<1>3. TypeOKInstaller'
  BY <1>2 DEF TypeOKInstaller, Commands, Image
<1>4. TypeOKDisk'
  BY <1>1 DEF TypeOKDisk, Image
<1>5. Recorded'
  <2>1. disk.esp.status[slot] = None /\ disk.esp # Broken /\ boot = None
    BY EspAt DEF InSlot, EspProgress
  <2>2. Whole(disk.esp, disk.image, system, unflushed)
    BY <2>1 DEF Recorded
  <2>3. Whole(disk.esp, disk'.image, system', unflushed')
    BY <1>2, <2>1, <2>2 DEF Whole
  <2> QED BY <1>2, <2>1, <2>3 DEF Recorded
<1>6. EspProgress'
  <2>1. WithEntries(Entries)' = WithEntries(Entries)
    BY DEF WithEntries, FullEsp, GrubEsp, Entries
  <2> QED BY <1>2, <2>1 DEF EspProgress, InSlot, Writing
<1>7. DiskProgress'
  BY <1>2 DEF DiskProgress, InSlot, Writing, Commands
<1>8. IdIsFound'
  BY <1>2 DEF IdIsFound, InSlot, Writing
<1> QED BY <1>3, <1>4, <1>5, <1>6, <1>7, <1>8

LEMMA WriteStatusKeeps == InvInstaller /\ WriteStatus => InvInstaller'
<1> SUFFICES ASSUME InvInstaller, WriteStatus PROVE InvInstaller'
  OBVIOUS
<1> USE InstallerAssumption DEF InvInstaller, WriteStatus, Goto, runVars, historyVars
<1> DEFINE next == [Entries EXCEPT ![slot] = VERSION]
<1>1. /\ boot \in Esp /\ boot.status = Entries /\ boot.id = machine_id /\ boot # None
      /\ slot \in Slot /\ machine_id \in Id \cup {None}
  BY EspAt DEF TypeOKInstaller
<1>2. next \in [Slot -> {None, "old", VERSION}] /\ Entries \in [Slot -> {None, "old", VERSION}]
  BY <1>1, SlotEntries
<1>3. boot' = WithEntries(next)
  <2>1. boot = WithEntries(Entries)
    BY DEF EspProgress
  <2>2. boot' = [boot EXCEPT !.status = next]
    BY <1>1 DEF Esp
  <2> QED BY <2>1, <2>2, EspFields, <1>1 DEF WithEntries, Esp
<1> HIDE DEF next
<1>4. boot' \in Esp /\ boot'.status = next /\ boot'.id = machine_id
  BY <1>1, <1>2, <1>3, EntryFields
<1>5. TypeOKInstaller' /\ TypeOKDisk'
  BY <1>4 DEF TypeOKInstaller, TypeOKDisk, Commands
<1>6. Recorded'
  <2>1. Whole(boot, disk.image, system, unflushed) /\ disk.esp # Broken
    BY <1>1 DEF Recorded
  <2>2. slot \in unflushed \/ (disk.image[slot] = VERSION /\ system[slot] = None)
    BY DEF DiskProgress, Writing
  <2>3. Whole(boot', disk.image, system, unflushed)
    BY <1>1, <1>2, <1>4, <2>1, <2>2 DEF Whole, next
  <2> QED BY <2>1, <2>3 DEF Recorded
<1>7. EspProgress'
  <2>1. WithEntries(Entries)' = WithEntries(Entries) /\ WithEntries(next)' = WithEntries(next)
        /\ next' = next
    BY DEF WithEntries, FullEsp, GrubEsp, Entries, next
  <2>2. next' = [Entries' EXCEPT ![slot'] = VERSION]
    BY DEF next
  <2> QED BY <1>3, <2>1, <2>2 DEF EspProgress, InSlot, Writing
<1>8. DiskProgress'
  BY DEF DiskProgress, InSlot, Writing, Commands
<1>9. IdIsFound'
  BY <1>1, <1>4 DEF IdIsFound, InSlot, Writing
<1> QED BY <1>5, <1>6, <1>7, <1>8, <1>9

LEMMA UmountStatusKeeps == InvInstaller /\ UmountStatus => InvInstaller'
<1> SUFFICES ASSUME InvInstaller, UmountStatus PROVE InvInstaller'
  OBVIOUS
<1> USE InstallerAssumption DEF InvInstaller, UmountStatus, UnmountBoot, runVars, historyVars
<1> DEFINE next == [Entries EXCEPT ![slot] = VERSION]
<1>1. /\ boot \in Esp /\ boot # None /\ boot.id = machine_id
      /\ slot \in Slot /\ machine_id \in Id \cup {None} /\ disk.table /\ disk.data
  BY EspAt DEF TypeOKInstaller, DiskProgress, Commands, Writing
<1>2. boot' = None /\ disk' = [disk EXCEPT !.esp = boot] /\ UNCHANGED <<system, unflushed, known>>
  BY <1>1
<1>3. disk'.esp = boot /\ disk'.image = disk.image /\ disk'.table = disk.table
      /\ disk'.data = disk.data
  BY <1>2 DEF TypeOKDisk
<1>4. TypeOKInstaller'
  BY <1>1, <1>2, <1>3 DEF TypeOKInstaller, Commands, Slot
<1>5. TypeOKDisk'
  BY <1>1, <1>2 DEF TypeOKDisk
<1>6. Recorded'
  BY <1>1, <1>2, <1>3 DEF Recorded
<1>7. EspProgress'
  <2>1. boot = WithEntries(next)
    BY DEF EspProgress
  <2>2. CASE slot = "a"
    <3>1. Entries' = next
      BY <2>2, SlotEntries, <1>1 DEF Entries
    <3>2. WithEntries(next) = WithEntries(Entries)'
      BY <3>1 DEF WithEntries, FullEsp, GrubEsp
    <3> QED BY <1>2, <1>3, <2>1, <2>2, <3>2 DEF EspProgress, InSlot, Writing
  <2>3. CASE slot = "b"
    <3>1. next = [s \in Slot |-> VERSION]
      BY <2>3, SlotEntries, <1>1
    <3>2. WithEntries(next) = WithEntries([s \in Slot |-> VERSION])'
      BY <2>3, <3>1 DEF WithEntries, FullEsp, GrubEsp
    <3> QED BY <1>2, <1>3, <2>1, <2>3, <3>2 DEF EspProgress, InSlot, Writing
  <2> QED BY <1>1, <2>2, <2>3 DEF Slot
<1>8. DiskProgress'
  BY <1>1, <1>3 DEF DiskProgress, InSlot, Writing, Commands, Slot
<1>9. IdIsFound'
  BY <1>1, <1>2, <1>3 DEF IdIsFound, InSlot, Writing
<1> QED BY <1>4, <1>5, <1>6, <1>7, <1>8, <1>9

LEMMA RunKeeps == ASSUME InvInstaller, NEW id \in {None, "given"}, Run(id) PROVE InvInstaller'
<1> USE InstallerAssumption DEF InvInstaller, Run, historyVars
<1>1. TypeOKInstaller' /\ TypeOKDisk'
  BY DEF TypeOKInstaller, TypeOKDisk, Slot
<1>2. Recorded'
  BY DEF Recorded
<1>3. EspProgress' /\ DiskProgress'
  BY DEF EspProgress, DiskProgress, InSlot, Writing, Commands
<1>4. IdIsFound'
  BY DEF IdIsFound, Writing
<1> QED BY <1>1, <1>2, <1>3, <1>4

(* What a broken off command leaves.                                        *)
LEMMA InterruptedFacts ==
  ASSUME InvInstaller, NEW d \in IF Refused THEN {disk} ELSE InterruptedDisk,
         NEW b \in InterruptedBoot
  PROVE  /\ d \in [table : BOOLEAN, esp : Esp \cup {Broken}, data : BOOLEAN,
                   image : [Slot -> Image]]
         /\ b \in Esp \cup {None} /\ (b = None <=> boot = None)
         /\ InterruptedSystem \in [Slot -> Image \cup {None}]
         /\ \A s \in Slot : InterruptedSystem[s] = None => system[s] = None
         /\ d.esp # Broken => Whole(d.esp, d.image, InterruptedSystem, unflushed)
         /\ b # None => d.esp # Broken /\ Whole(b, d.image, InterruptedSystem, unflushed)
         /\ ~BeforeId => d.esp = disk.esp /\ d.table = disk.table
         /\ b # None /\ ~BeforeId => b.id = boot.id
<1> USE InstallerAssumption DEF InvInstaller
<1> DEFINE D == [table : BOOLEAN, esp : Esp \cup {Broken}, data : BOOLEAN,
                 image : [Slot -> Image]]
           sys == InterruptedSystem
<1>1. /\ slot \in Slot /\ boot \in Esp \cup {None} /\ disk \in D
      /\ system \in [Slot -> Image \cup {None}]
  BY DEF TypeOKInstaller, TypeOKDisk, Image
<1>2. /\ sys \in [Slot -> Image \cup {None}]
      /\ \A s \in Slot : sys[s] = None => system[s] = None
      /\ \A s \in Slot : at # "copy" \/ s # slot => sys[s] = system[s]
  BY <1>1 DEF InterruptedSystem, Image
<1>3. /\ b \in Esp \cup {None} /\ (b = None <=> boot = None)
      /\ b # None => b.id = boot.id /\ b.status \in {boot.status, NoEntry}
  <2>1. CASE at = "grub"
    <3>1. boot \in Esp
      BY <2>1, EspAt
    <3>2. b \in {boot, [boot EXCEPT !.loader = TRUE]}
      BY <2>1 DEF InterruptedBoot
    <3> QED BY <3>1, <3>2 DEF Esp
  <2>2. CASE at = "write_status"
    <3>1. boot \in Esp
      BY <2>2, EspAt
    <3>2. b \in {boot, [boot EXCEPT !.status = NoEntry]}
      BY <2>2 DEF InterruptedBoot
    <3>3. NoEntry \in [Slot -> {None, "old", VERSION}]
      BY DEF NoEntry
    <3> QED BY <3>1, <3>2, <3>3 DEF Esp
  <2>3. CASE at # "grub" /\ at # "write_status"
    <3>1. b = boot
      BY <2>3 DEF InterruptedBoot
    <3> QED BY <1>1, <3>1
  <2> QED BY <2>1, <2>2, <2>3, Zenon
<1>4. /\ d \in D
      /\ d.esp = disk.esp \/ (at = "mkfs_esp" /\ boot = None /\ d.esp \in {Broken, NewEsp})
      /\ at # "commit" => d.table = disk.table
      /\ \A s \in Slot : at # "mkfs_system" \/ s # slot => d.image[s] = disk.image[s]
  <2>1. CASE d = disk
    BY <1>1, <2>1
  <2>2. CASE d # disk
    <3>1. ~Refused /\ d \in InterruptedDisk
      BY <2>2
    <3>2. CASE at = "commit"
      <4>1. d \in {disk} \cup {[disk EXCEPT !.table = t] : t \in BOOLEAN}
        BY <3>1, <3>2 DEF InterruptedDisk
      <4> QED BY <1>1, <3>2, <4>1
    <3>3. CASE at = "mkfs_esp"
      <4>1. d \in {[disk EXCEPT !.esp = e] : e \in {disk.esp, Broken, NewEsp}}
        BY <3>1, <3>3 DEF InterruptedDisk
      <4>2. boot = None
        BY <3>1, <3>3 DEF Refused
      <4>3. NewEsp \in Esp
        BY EspFields DEF TypeOKInstaller
      <4> QED BY <1>1, <3>3, <4>1, <4>2, <4>3
    <3>4. CASE at = "mkfs_data"
      <4>1. d \in {disk, [disk EXCEPT !.data = FALSE]}
        BY <3>1, <3>4 DEF InterruptedDisk
      <4> QED BY <1>1, <3>4, <4>1
    <3>5. CASE at = "mkfs_system"
      <4>1. d \in {disk, [disk EXCEPT !.image[slot] = "none"]}
        BY <3>1, <3>5 DEF InterruptedDisk
      <4> QED BY <1>1, <3>5, <4>1 DEF Image
    <3>6. CASE at # "commit" /\ at # "mkfs_esp" /\ at # "mkfs_data" /\ at # "mkfs_system"
      BY <2>2, <3>1, <3>6 DEF InterruptedDisk
    <3> QED BY <3>2, <3>3, <3>4, <3>5, <3>6, Zenon
  <2> QED BY <2>1, <2>2
<1>5. at \in InSlot => disk.esp.status[slot] = None /\ boot = None
  BY EspAt DEF EspProgress
<1>6. disk.esp # Broken => Whole(disk.esp, d.image, sys, unflushed)
  BY <1>1, <1>2, <1>4, <1>5 DEF Recorded, Whole, InSlot
<1>7. d.esp # Broken => Whole(d.esp, d.image, sys, unflushed)
  <2>1. NewEsp.status = NoEntry
    BY EspFields DEF TypeOKInstaller
  <2> QED BY <1>4, <1>6, <2>1, WholeFacts
<1>8. boot # None => Whole(boot, d.image, sys, unflushed)
  BY <1>1, <1>2, <1>4, <1>5 DEF Recorded, Whole, InSlot
<1>9. b # None => d.esp # Broken /\ Whole(b, d.image, sys, unflushed)
  BY <1>3, <1>4, <1>8, WholeFacts DEF Recorded
<1>10. ~BeforeId => at # "commit" /\ at # "mkfs_esp"
  BY DEF BeforeId
<1> QED BY <1>2, <1>3, <1>4, <1>7, <1>9, <1>10

LEMMA FailKeeps == InvInstaller /\ Fail => InvInstaller'
<1> SUFFICES ASSUME InvInstaller, Fail PROVE InvInstaller'
  OBVIOUS
<1> USE InstallerAssumption DEF InvInstaller, Fail, runVars
<1>1. /\ disk' \in [table : BOOLEAN, esp : Esp \cup {Broken}, data : BOOLEAN,
                    image : [Slot -> Image]]
      /\ boot' \in Esp \cup {None}
      /\ system' \in [Slot -> Image \cup {None}]
      /\ disk'.esp # Broken => Whole(disk'.esp, disk'.image, system', unflushed)
      /\ boot' # None => disk'.esp # Broken /\ Whole(boot', disk'.image, system', unflushed)
      /\ ~BeforeId => disk'.esp = disk.esp /\ disk'.table = disk.table
      /\ boot' = None <=> boot = None
  BY InterruptedFacts
<1>2. TypeOKInstaller' /\ TypeOKDisk'
  BY <1>1 DEF TypeOKInstaller, TypeOKDisk, Image
<1>3. Recorded'
  BY <1>1 DEF Recorded
<1>4. EspProgress' /\ DiskProgress'
  BY DEF EspProgress, DiskProgress, InSlot, Writing, Commands
<1>5. IdIsFound'
  BY <1>1 DEF IdIsFound, Writing, BeforeId
<1> QED BY <1>2, <1>3, <1>4, <1>5

LEMMA PowerFailsKeeps == InvInstaller /\ PowerFails => InvInstaller'
<1> SUFFICES ASSUME InvInstaller, PowerFails PROVE InvInstaller'
  OBVIOUS
<1> USE InstallerAssumption DEF InvInstaller
<1>1. PICK d \in IF Refused THEN {disk} ELSE InterruptedDisk, b \in InterruptedBoot :
        \E esp \in PartOf(d.esp, b), image \in [Slot -> {"none", "partial", "old", VERSION}] :
          /\ \A s \in Slot :
               image[s] \in IF system[s] = None THEN {d.image[s]}
                           ELSE {d.image[s], "partial", InterruptedSystem[s]}
          /\ disk' = [d EXCEPT !.esp = esp, !.image = image]
  BY DEF PowerFails
<1>2. PICK esp \in PartOf(d.esp, b), image \in [Slot -> {"none", "partial", "old", VERSION}] :
        /\ \A s \in Slot :
             image[s] \in IF system[s] = None THEN {d.image[s]}
                         ELSE {d.image[s], "partial", InterruptedSystem[s]}
        /\ disk' = [d EXCEPT !.esp = esp, !.image = image]
  BY <1>1
<1>3. /\ at' = "idle" /\ boot' = None /\ system' = NoEntry /\ passed' = None
      /\ machine_id' = None /\ slot' = "a" /\ unflushed' = unflushed
      /\ known' = IF BeforeId THEN None ELSE known
  BY DEF PowerFails, EndOfSession
<1>4. /\ d \in [table : BOOLEAN, esp : Esp \cup {Broken}, data : BOOLEAN,
                image : [Slot -> Image]]
      /\ b \in Esp \cup {None} /\ (b = None <=> boot = None)
      /\ \A s \in Slot : InterruptedSystem[s] = None => system[s] = None
      /\ d.esp # Broken => Whole(d.esp, d.image, InterruptedSystem, unflushed)
      /\ b # None => d.esp # Broken /\ Whole(b, d.image, InterruptedSystem, unflushed)
      /\ ~BeforeId => d.esp = disk.esp /\ d.table = disk.table
      /\ b # None /\ ~BeforeId => b.id = boot.id
  BY InterruptedFacts
<1>5. /\ esp \in Esp \cup {Broken}
      /\ b = None => esp = d.esp
      /\ b # None => /\ esp # Broken /\ esp.id \in {d.esp.id, b.id}
                     /\ esp.status \in {d.esp.status, b.status}
  <2>1. CASE b = None
    BY <1>2, <1>4, <2>1 DEF PartOf
  <2>2. CASE b # None
    <3>1. d.esp \in Esp /\ b \in Esp
      BY <1>4, <2>2
    <3>2. esp \in [id : {d.esp.id, b.id}, loader : {d.esp.loader, b.loader},
                   rescue : {d.esp.rescue, b.rescue}, status : {d.esp.status, b.status}]
      BY <1>2, <2>2 DEF PartOf
    <3>3. esp \in Esp
      BY <3>1, <3>2 DEF Esp
    <3> QED BY <2>2, <3>2, <3>3
  <2> QED BY <2>1, <2>2
<1>6. disk'.esp = esp /\ disk'.image = image /\ disk'.table = d.table
  BY <1>2, <1>4
<1>7. TypeOKInstaller'
  BY <1>3, <1>5, <1>6 DEF TypeOKInstaller, Slot, NoEntry
<1>8. TypeOKDisk'
  BY <1>2, <1>4, <1>5 DEF TypeOKDisk, Image
<1>9. Recorded'
  <2>1. d.esp # Broken => Whole(d.esp, image, NoEntry, unflushed)
    BY <1>2, <1>4 DEF Whole, NoEntry
  <2>2. b # None => Whole(b, image, NoEntry, unflushed)
    BY <1>2, <1>4 DEF Whole, NoEntry
  <2>3. esp # Broken => Whole(esp, image, NoEntry, unflushed)
    BY <1>4, <1>5, <2>1, <2>2, WholeFacts
  <2> QED BY <1>3, <1>6, <2>3 DEF Recorded
<1>10. EspProgress' /\ DiskProgress'
  BY <1>3 DEF EspProgress, DiskProgress, InSlot, Writing, Commands
<1>11. IdIsFound'
  <2> SUFFICES ASSUME known' # None
               PROVE  disk'.table /\ disk'.esp # Broken /\ disk'.esp.id = known
    BY <1>3 DEF IdIsFound, Writing
  <2>1. ~BeforeId /\ known # None
    BY <1>3
  <2>2. disk.table /\ disk.esp # Broken /\ disk.esp.id = known
    BY <2>1 DEF IdIsFound, BeforeId
  <2>3. boot # None => boot.id = known
    BY <2>1 DEF IdIsFound, BeforeId, EspProgress, TypeOKInstaller, Commands, InSlot, Writing
  <2> QED BY <1>4, <1>5, <1>6, <2>1, <2>2, <2>3
<1> QED BY <1>7, <1>8, <1>9, <1>10, <1>11

------------------------------------------------------------------------------
LEMMA InstallerStep == InvInstaller /\ [NextInstaller]_installerVars => InvInstaller'
<1> SUFFICES ASSUME InvInstaller, [NextInstaller]_installerVars PROVE InvInstaller'
  OBVIOUS
<1>1. CASE Program
  BY <1>1, _ensure_machine_idKeeps, ConfirmKeeps, CommitKeeps, MakeEspKeeps, MountEspKeeps,
     InstallGrubKeeps, InstallRescueKeeps, UmountEspKeeps, MakeDataKeeps, MakeSystemKeeps,
     MountSystemKeeps, UmountSystemKeeps, WriteStatusKeeps, UmountStatusKeeps, RefuseKeeps
     DEF Program
<1>2. CASE Trouble
  BY <1>2, IdNotReadKeeps, DeclineKeeps, FailKeeps, PowerFailsKeeps DEF Trouble
<1>3. CASE UNCHANGED installerVars
  <2>1. UNCHANGED <<at, passed, machine_id, slot, disk, boot, system, unflushed, known>>
    BY <1>3 DEF installerVars, runVars, historyVars
  <2> QED
    BY <2>1 DEF InvInstaller, TypeOKInstaller, TypeOKDisk, Recorded, EspProgress, DiskProgress,
                IdIsFound, WithEntries, FullEsp, GrubEsp, Entries
<1> QED BY <1>1, <1>2, <1>3, RebootKeeps, RunKeeps DEF NextInstaller

(* The invariant of the installer's runs, for any machine and any options.  *)
THEOREM InstallerInductive == SpecInstaller => []InvInstaller
BY InitInvInstaller, InstallerStep, PTL DEF SpecInstaller

(* Every variable of the installer keeps its type.                          *)
THEOREM TypeCorrectInstaller == SpecInstaller => []TypeOKInstaller
<1>1. InvInstaller => TypeOKInstaller
  BY DEF InvInstaller
<1> QED
  BY InstallerInductive, <1>1, PTL

(* status.ini never claims more than what is on the slots                   *)
(* (install-playos.py), wherever a run was broken off.                      *)
THEOREM RecordsAreTrue == SpecInstaller => []RecordedIsWhole
<1>1. InvInstaller => RecordedIsWhole
  BY DEF InvInstaller, Recorded, Whole, RecordedIsWhole
<1> QED
  BY InstallerInductive, <1>1, PTL

(* "Done" is the end of a complete installation, on a fresh disk as after   *)
(* any number of failed runs.                                               *)
THEOREM DoneMeansInstalled == SpecInstaller => []DoneIsComplete
<1>1. InvInstaller => DoneIsComplete
  <2> SUFFICES ASSUME InvInstaller, at = "done" PROVE DoneIsComplete
    BY DEF DoneIsComplete
  <2> DEFINE all == [s \in Slot |-> VERSION]
             whole == [id |-> machine_id, loader |-> TRUE, rescue |-> TRUE, status |-> all]
             w == WithEntries(all)
  <2>1. disk.esp = w /\ disk.table /\ disk.data
    BY DEF InvInstaller, EspProgress, DiskProgress
  <2>2. machine_id \in Id \cup {None} /\ all \in [Slot -> {None, "old", VERSION}]
    BY DEF InvInstaller, TypeOKInstaller
  <2>3. /\ w \in Esp /\ w.id = machine_id /\ w.loader = TRUE /\ w.rescue = TRUE
        /\ w.status = all
    BY <2>2, EntryFields
  <2>4. /\ whole \in Esp /\ whole.id = machine_id /\ whole.loader = TRUE
        /\ whole.rescue = TRUE /\ whole.status = all
    BY <2>2, Zenon DEF Esp
  <2> HIDE DEF whole, w
  <2>5. w.id = whole.id /\ w.loader = whole.loader /\ w.rescue = whole.rescue
        /\ w.status = whole.status
    BY <2>3, <2>4
  <2>6. w = whole
    BY <2>3, <2>4, <2>5, SameEsp
  <2>7. \A s \in Slot \ unflushed : disk.image[s] = VERSION
    <3>1. disk.esp # Broken /\ \A s \in Slot : disk.esp.status[s] = VERSION /\ VERSION # None
      BY <2>1, <2>3, InstallerAssumption
    <3> QED BY <3>1 DEF InvInstaller, Recorded, Whole
  <2> QED BY <2>1, <2>6, <2>7 DEF DoneIsComplete, whole
<1> QED
  BY InstallerInductive, <1>1, PTL

(* A run without --machine-id keeps the id that can be found on the machine *)
(* (_ensure_machine_id).                                                    *)
THEOREM IdsAreKept == SpecInstaller => IdIsKept
<1>1. InvInstaller /\ [NextInstaller]_installerVars =>
        [passed = None /\ known # None => known' \in {known, None}]_installerVars
  <2> SUFFICES ASSUME InvInstaller, NextInstaller, passed = None, known # None
               PROVE  known' \in {known, None}
    OBVIOUS
  <2>1. CASE UmountEsp
    <3>1. known' = machine_id
      BY <2>1, EspAt DEF UmountEsp, Goto
    <3> QED BY <2>1, <3>1 DEF UmountEsp, Goto, InvInstaller, IdIsFound
  <2>2. CASE Program /\ ~UmountEsp
    BY <2>2 DEF Program, _ensure_machine_id, Confirm, Commit, MakeEsp, MountEsp, InstallGrub,
                InstallRescue, MakeData, MakeSystem, MountSystem, Copy, UmountSystem,
                WriteStatus, UmountStatus, Refuse, historyVars
  <2>3. CASE Trouble
    BY <2>3 DEF Trouble, IdNotRead, Decline, Fail, PowerFails, historyVars
  <2>4. CASE Reboot
    BY <2>4 DEF Reboot, historyVars
  <2>5. ASSUME NEW id \in {None, "given"}, Run(id) PROVE known' = known
    BY <2>5 DEF Run, historyVars
  <2> QED BY <2>1, <2>2, <2>3, <2>4, <2>5 DEF NextInstaller
<1> QED
  BY InstallerInductive, <1>1, PTL DEF SpecInstaller, IdIsKept

(* Whatever disks the machine has and whatever sizes are asked for, a disk  *)
(* the program chose is never refused once the user has confirmed.          *)
THEOREM ChosenDisksFit == SpecInstaller => []ChosenDiskFits
<1>1. ChosenDiskFits
  <2> SUFFICES ASSUME device_path = None, NEW d \in target
               PROVE  create_partitioning(d, part_sizes)
    BY DEF ChosenDiskFits, Fits
  <2>1. d \in find_device(Disks, None, Medium, part_sizes)
    BY DEF target
  <2> QED
    BY <2>1, ChosenDeviceFits, DisksAssumption
<1> QED
  BY <1>1, PTL
=============================================================================
