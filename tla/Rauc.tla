-------------------------------- MODULE Rauc --------------------------------
(***************************************************************************)
(* The installer daemon RAUC, the boot loader environment it shares with   *)
(* GRUB (/boot/grub/grubenv) and the two system slots.  RAUC itself is not *)
(* part of the repository: its steps follow what the controller's binding  *)
(* (rauc.ml), the boot loader script and the architecture document rely    *)
(* on.  One installation is a sequence of steps, because power may fail or *)
(* the installer may give up between any two of them.                      *)
(***************************************************************************)
EXTENDS Naturals

CONSTANTS
  Version,  \* system versions, ordered like semantic versions
  Torn,     \* the content of a slot whose image is only partly written
  None      \* the absent value of an OCaml option

ASSUME VersionAssumption == Version \subseteq Nat /\ Version # {}
ASSUME TornAssumption == Torn \notin Version
ASSUME NoneAssumption == None \notin Version

VARIABLES
  booted,     \* slot the running system was booted from (rauc.slot=)
  order,      \* first slot of ORDER; the other slot follows it
  try,        \* a_TRY and b_TRY
  ok,         \* a_OK and b_OK
  image,      \* what is really on the two system partitions
  recorded,   \* bundle.version of each slot in RAUC's status file
  installer,  \* the installation in progress, its version and bundle
  completed   \* result of the last Completed signal nobody has consumed

grubenv  == <<order, try, ok>>
slotVars == <<image, recorded>>
raucVars == <<booted, grubenv, slotVars, installer, completed>>

Slot == {"a", "b"}
Other(s) == IF s = "a" THEN "b" ELSE "a"
Inactive == Other(booted)

Phase  == {"idle", "verify", "erase", "write", "record", "activate"}
Idle   == [phase |-> "idle", version |-> None, sound |-> FALSE]
Busy   == installer.phase # "idle"
Result == {"none", "success", "failure"}

TypeOKRauc ==
  /\ booted \in Slot
  /\ order \in Slot
  /\ try \in [Slot -> 0..3]
  /\ ok \in [Slot -> BOOLEAN]
  /\ image \in [Slot -> Version \cup {Torn}]
  /\ recorded \in [Slot -> Version]
  /\ installer \in [phase: Phase, version: Version \cup {None}, sound: BOOLEAN]
  /\ Busy => installer.version \in Version
  /\ completed \in Result

-----------------------------------------------------------------------------
(* What the controller asks of RAUC. *)

(* The first slot of ORDER that RAUC, as patched for PlayOS, takes for     *)
(* bootable: OK is 1 and at most two attempts were used up.                *)
Candidate_Unpatched(s) == ok[s] /\ ~(try[s] > 0)  \* mutant: RAUC as released
Candidate(s) == ok[s] /\ ~(try[s] > 2)
GetPrimary ==
  IF Candidate(order) THEN order
  ELSE IF Candidate(Other(order)) THEN Other(order)
  ELSE "none"

(* The binding's answer: any failure of the call counts as "no primary".   *)
GetPrimaryAnswers == {GetPrimary, "none"}

(* Marks are refused while an installation runs. *)
MarkGood(s) ==
  /\ ~Busy
  /\ ok' = [ok EXCEPT ![s] = TRUE]
  /\ try' = [try EXCEPT ![s] = 0]
  /\ UNCHANGED <<booted, order, slotVars, installer, completed>>

MarkActive(s) ==
  /\ ~Busy
  /\ order' = s
  /\ ok' = [ok EXCEPT ![s] = TRUE]
  /\ try' = [try EXCEPT ![s] = 0]
  /\ UNCHANGED <<booted, slotVars, installer, completed>>

(* The Install call returns at once; the result comes as a Completed       *)
(* signal.  Subscribing to it first discards whatever was signalled before.*)
Install_LateSubscription(v, sound) ==   \* mutant: an earlier signal is still there
  /\ ~Busy
  /\ installer' = [phase |-> "verify", version |-> v, sound |-> sound]
  /\ UNCHANGED <<booted, grubenv, slotVars, completed>>

Install(v, sound) ==
  /\ ~Busy
  /\ installer' = [phase |-> "verify", version |-> v, sound |-> sound]
  /\ completed' = "none"
  /\ UNCHANGED <<booted, grubenv, slotVars>>

-----------------------------------------------------------------------------
(* The steps of an installation, always into the slot that is not booted.  *)

Advance(from, to) ==
  /\ installer.phase = from
  /\ installer' = [installer EXCEPT !.phase = to]

(* The signature is good: the target is marked non-bootable before it is   *)
(* touched.                                                                *)
RaucVerifies ==
  /\ installer.sound
  /\ Advance("verify", "erase")
  /\ ok' = [ok EXCEPT ![Inactive] = FALSE]
  /\ try' = [try EXCEPT ![Inactive] = 0]
  /\ UNCHANGED <<booted, order, slotVars, completed>>

RaucErases ==
  /\ Advance("erase", "write")
  /\ image' = [image EXCEPT ![Inactive] = Torn]
  /\ UNCHANGED <<booted, grubenv, recorded, completed>>

RaucWrites ==
  /\ Advance("write", "record")
  /\ image' = [image EXCEPT ![Inactive] = installer.version]
  /\ UNCHANGED <<booted, grubenv, recorded, completed>>

RaucRecords ==
  /\ Advance("record", "activate")
  /\ recorded' = [recorded EXCEPT ![Inactive] = installer.version]
  /\ UNCHANGED <<booted, grubenv, image, completed>>

RaucActivates ==
  /\ installer.phase = "activate"
  /\ order' = Inactive
  /\ ok' = [ok EXCEPT ![Inactive] = TRUE]
  /\ try' = [try EXCEPT ![Inactive] = 0]
  /\ installer' = Idle
  /\ completed' = "success"
  /\ UNCHANGED <<booted, slotVars>>

(* A bad signature, a device error, a full disk: what was done stays done. *)
RaucFails ==
  /\ Busy
  /\ installer' = Idle
  /\ completed' = "failure"
  /\ UNCHANGED <<booted, grubenv, slotVars>>

(* The daemon dies: the installation stops and no signal is ever sent.     *)
RaucCrashes ==
  /\ Busy
  /\ installer' = Idle
  /\ UNCHANGED <<booted, grubenv, slotVars, completed>>

RaucProgress ==
  RaucVerifies \/ RaucErases \/ RaucWrites \/ RaucRecords \/ RaucActivates
=============================================================================
