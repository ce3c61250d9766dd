---------------------------- MODULE Partitioning ----------------------------
(* How the installer chooses a device and lays out its partitions, as pure *)
(* operators.  A device is a record of what the code reads of it: path,    *)
(* sectorSize, length in sectors, readOnly, and prefixes, the paths that    *)
(* its own path begins with.                                               *)
EXTENDS Integers

CONSTANT None   \* no value

ALIGNMENT_SECTOR_SIZE_MiB == 8

SectorSize == {512, 4096}
Device ==
  [path : STRING, sectorSize : SectorSize, length : Nat,
   readOnly : BOOLEAN, prefixes : SUBSET STRING]
SectorsPerMiB(device) == 1048576 \div device.sectorSize

sizeToSectors_Of512(device, mib) == mib * 2048   \* mutant: sectors of 512 bytes
sizeToSectors(device, mib) == mib * SectorsPerMiB(device)
bytes(device) == device.sectorSize * device.length
mib_size(device) == bytes(device) \div 1048576

(* The options, in MiB; a partition of no size is refused by parted. *)
PartSizes == [boot : Nat \ {0}, data : Nat \ {0}, system : Nat \ {0}]

total_req_size_mib(sizes) ==
  ALIGNMENT_SECTOR_SIZE_MiB + sizes.boot + sizes.data + 2 * sizes.system + 1

(* The device mounted on /iso, if lsblk lists one: with it every device is *)
(* left out whose path begins like it.                                     *)
is_boot_device(device, boot_device) ==
  boot_device # None /\ boot_device \in device.prefixes

device_filter(device, boot_device, sizes) ==
  /\ ~is_boot_device(device, boot_device)
  /\ ~device.readOnly
  /\ mib_size(device) > total_req_size_mib(sizes)

(* What find_device may return: the named device, whatever it is, or one   *)
(* of the largest suitable ones; nothing if the set is empty.              *)
find_device(devices, device_path, boot_device, sizes) ==
  IF device_path # None
  THEN {d \in devices : d.path = device_path}
  ELSE LET available == {d \in devices : device_filter(d, boot_device, sizes)}
       IN {d \in available : \A e \in available : bytes(e) <= bytes(d)}

Geometry(start, length) == [start |-> start, end |-> start + length - 1]

_compute_geometries(device, sizes) ==
  LET S(mib)  == sizeToSectors(device, mib)
      esp     == Geometry(S(ALIGNMENT_SECTOR_SIZE_MiB), S(sizes.boot))
      data    == Geometry(esp.end + 1, S(sizes.data))
      systemA == Geometry(data.end + 1, S(sizes.system))
      systemB == Geometry(systemA.end + 1, S(sizes.system))
  IN  [esp |-> esp, data |-> data, systemA |-> systemA, systemB |-> systemB]

(* A GPT keeps a header and 128 entries of 128 bytes at both ends; the     *)
(* first sector holds the protective MBR.                                  *)
TableSectors(device) == 1 + (16384 \div device.sectorSize)
Usable(device) ==
  [start |-> 1 + TableSectors(device), end |-> device.length - TableSectors(device) - 1]

Inside(g, h) == h.start <= g.start /\ g.end <= h.end
Before(g, h) == g.end < h.start

(* parted adds the four partitions one after the other.                    *)
create_partitioning(device, sizes) ==
  LET g == _compute_geometries(device, sizes)
  IN  /\ \A p \in DOMAIN g : g[p].start <= g[p].end /\ Inside(g[p], Usable(device))
      /\ Before(g.esp, g.data) /\ Before(g.data, g.systemA)
      /\ Before(g.systemA, g.systemB)
=============================================================================
