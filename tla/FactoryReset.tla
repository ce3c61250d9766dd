----------------------------- MODULE FactoryReset -----------------------------
(* Wiping persistent data: the page asks systemd to start a service that     *)
(* leaves a file on /boot and reboots; the initial ramdisk of the next boot  *)
(* finds the file and formats the data partition before it is mounted.       *)
(* Power may fail at any point.                                              *)

VARIABLES
  power,     \* the machine: off, in its initial ramdisk, up, or shutting down
  handler,   \* factory_reset, or reboot, of the controller
  service,   \* playos-wipe-persistent-data.service
  marker,    \* .WIPE_PERSISTENT_DATA on /boot, as the running system sees it
  synced,    \* what a power failure leaves of it
  stage,     \* the script of the initial ramdisk
  data,      \* the data partition
  wanted,    \* systemd has accepted the start of service
  broken,    \* mkfs.ext4 has failed
  missed     \* a boot could not look for the marker; all three since data was formatted

system == <<power, handler, service>>
boot == <<marker, synced>>
history == <<wanted, broken, missed>>
disk == <<data, history>>
resetVars == <<system, boot, stage, disk>>

TypeOKReset ==
  /\ power \in {"off", "initrd", "up", "down"}
  /\ handler \in {"idle", "start", "reboot"}
  /\ service \in {"inactive", "queued", "activating", "active"}
  /\ stage \in {"look", "format", "formatting", "remove", "mount"}
  /\ data \in {"user", "fresh", "half"}
  /\ {marker, synced, wanted, broken, missed} \subseteq BOOLEAN
  /\ power # "up" => handler = "idle"

InitReset ==
  /\ power = "off" /\ handler = "idle" /\ service = "inactive"
  /\ marker = FALSE /\ synced = FALSE /\ stage = "look"
  /\ data = "user" /\ wanted = FALSE /\ broken = FALSE /\ missed = FALSE

------------------------------------------------------------------------------
(* The controller.  StartUnit answers when the job is queued.                *)

factory_reset ==
  /\ power = "up" /\ handler = "idle"
  /\ handler' = "start"
  /\ UNCHANGED <<power, service, boot, stage, disk>>

StartWipe ==
  /\ handler = "start" /\ handler' = "reboot" /\ wanted' = TRUE
  /\ service' = IF service \in {"activating", "active"} THEN service ELSE "queued"
  /\ UNCHANGED <<power, boot, stage, data, broken, missed>>

reboot ==
  /\ power = "up" /\ handler = "idle" /\ handler' = "reboot"
  /\ UNCHANGED <<power, service, boot, stage, disk>>

(* Shutting down cancels jobs and kills what is still starting. *)
Reboot ==
  /\ handler = "reboot" /\ handler' = "idle" /\ power' = "down"
  /\ service' = "inactive"
  /\ UNCHANGED <<boot, stage, disk>>

HandlerFails ==
  /\ handler # "idle" /\ handler' = "idle"
  /\ UNCHANGED <<power, service, boot, stage, disk>>

------------------------------------------------------------------------------
(* The service enable-wipe.                                                  *)

StartService ==
  /\ power = "up" /\ service = "queued" /\ service' = "activating"
  /\ UNCHANGED <<power, handler, boot, stage, disk>>

Touch ==
  /\ service = "activating" /\ service' = "active" /\ marker' = TRUE
  /\ UNCHANGED <<power, handler, synced, stage, disk>>

(* /boot is not mounted, or cannot be written to; nobody asks.               *)
ServiceFails ==
  /\ service \in {"queued", "activating"} /\ service' = "inactive"
  /\ UNCHANGED <<power, handler, boot, stage, disk>>

------------------------------------------------------------------------------
(* Writing back, shutting down, losing power.                                *)

Sync ==
  /\ power # "off" /\ synced' = marker
  /\ UNCHANGED <<system, marker, stage, disk>>

(* /boot is unmounted. *)
ShutDown ==
  /\ power = "down" /\ power' = "off" /\ synced' = marker
  /\ UNCHANGED <<handler, service, marker, stage, disk>>

PowerFails ==
  /\ power # "off" /\ power' = "off"
  /\ handler' = "idle" /\ service' = "inactive"
  /\ marker' = synced
  /\ UNCHANGED <<synced, stage, disk>>

(* The system saves something on the data partition.                         *)
SaveData ==
  /\ power = "up" /\ data' = "user"
  /\ UNCHANGED <<system, boot, stage, history>>

------------------------------------------------------------------------------
(* postDeviceCommands                                                        *)

PowerOn ==
  /\ power = "off" /\ power' = "initrd" /\ stage' = "look"
  /\ UNCHANGED <<handler, service, boot, disk>>

(* Mutant: the marker is looked for in the wrong place. *)
LookForMarker_Elsewhere ==
  /\ power = "initrd" /\ stage = "look"
  /\ stage' = "mount"
  /\ UNCHANGED <<system, boot, disk>>

LookForMarker ==
  /\ power = "initrd" /\ stage = "look"
  /\ stage' = IF marker THEN "format" ELSE "mount"
  /\ UNCHANGED <<system, boot, disk>>

(* The exit code of mount is not looked at either: there is no marker under  *)
(* the empty mount point.                                                    *)
BootIsMissing ==
  /\ power = "initrd" /\ stage = "look"
  /\ stage' = "mount" /\ missed' = TRUE
  /\ UNCHANGED <<system, boot, data, wanted, broken>>

(* Mutant: the marker is removed first. *)
StartFormat_MarkerFirst ==
  /\ power = "initrd" /\ stage = "format"
  /\ stage' = "formatting" /\ data' = "half" /\ marker' = FALSE
  /\ UNCHANGED <<system, synced, history>>

StartFormat ==
  /\ power = "initrd" /\ stage = "format"
  /\ stage' = "formatting" /\ data' = "half"
  /\ UNCHANGED <<system, boot, history>>

Formatted ==
  /\ power = "initrd" /\ stage = "formatting"
  /\ stage' = "remove" /\ data' = "fresh"
  /\ wanted' = FALSE /\ broken' = FALSE /\ missed' = FALSE
  /\ UNCHANGED <<system, boot>>

(* The exit code of mkfs.ext4 is not looked at. *)
FormatFails ==
  /\ power = "initrd" /\ stage \in {"format", "formatting"}
  /\ stage' = "remove" /\ broken' = TRUE
  /\ UNCHANGED <<system, boot, data, wanted, missed>>

(* Mutant: the marker stays. *)
RemoveMarker_Kept ==
  /\ power = "initrd" /\ stage = "remove"
  /\ stage' = "mount"
  /\ UNCHANGED <<system, boot, disk>>

RemoveMarker ==
  /\ power = "initrd" /\ stage = "remove"
  /\ stage' = "mount" /\ marker' = FALSE
  /\ UNCHANGED <<system, synced, disk>>

(* /boot is unmounted, then the data partition is mounted and the boot goes  *)
(* on; a half-made file system cannot be mounted.                            *)
Mount ==
  /\ power = "initrd" /\ stage = "mount" /\ data # "half"
  /\ power' = "up" /\ synced' = marker
  /\ UNCHANGED <<handler, service, marker, stage, disk>>

Controller == factory_reset \/ StartWipe \/ reboot \/ Reboot \/ HandlerFails
Service == StartService \/ Touch \/ ServiceFails
Initrd ==
  \/ LookForMarker \/ BootIsMissing
  \/ StartFormat \/ Formatted \/ FormatFails \/ RemoveMarker \/ Mount
NextReset ==
  \/ Controller \/ Service \/ Initrd
  \/ Sync \/ ShutDown \/ PowerFails \/ SaveData \/ PowerOn

SpecReset == InitReset /\ [][NextReset]_resetVars
------------------------------------------------------------------------------
(* What was saved is only ever wiped for a request made after the last wipe: *)
(* a wipe that was interrupted and is repeated costs nothing, and a marker   *)
(* never survives the wipe it asked for, unless a later boot cannot mount    *)
(* /boot and leaves it there.                                                *)
OneWipePerRequest ==
  [][data = "user" /\ data' # "user" => wanted \/ missed]_resetVars

(* A half-made file system is always formatted again at the next boot that   *)
(* finds /boot, unless mkfs.ext4 itself reported failure.                    *)
InterruptedWipeIsRedone ==
  data = "half" /\ ~broken /\ power = "off" => marker

(* From the moment the marker is on the disk the wipe will be done: whenever *)
(* power fails, and whoever asks for a reboot or for another wipe meanwhile, *)
(* the marker is not taken away before the data partition was formatted, as  *)
(* a whole, unless mkfs.ext4 failed; nor does the machine come up with it, unless     *)
(* /boot could not be mounted.                                               *)
PromisedWipeIsDone ==
  [][/\ synced /\ ~synced' => broken \/ (~wanted /\ data # "half")
     /\ power = "initrd" /\ power' = "up" /\ marker => missed]_resetVars

(* A machine that keeps its power and on which mount and mkfs.ext4 work      *)
(* always comes up again, whatever an earlier power failure interrupted.     *)
ComesUp ==
  <>[][~PowerFails /\ ~FormatFails]_resetVars /\ []~(broken \/ missed) =>
    []<>(power = "up" \/ power = "down")
=============================================================================
