---------------------------- MODULE MachineProofs ----------------------------
(***************************************************************************)
(* Proofs about the update service and about the whole machine, for any    *)
(* set of versions.  The service's types and four safety properties follow *)
(* from the inductive invariant IInv; the machine's from MInv, which adds  *)
(* what the slots, the boot attempts and the status page owe each other.   *)
(* The last part shows that the machine implements ABSystem.               *)
(***************************************************************************)
EXTENDS Machine, TLAPS

(* While no orphaned installation is about, RAUC works only for the service*)
(* that waits for it, so nothing a check has read can have changed.        *)
Undisturbed ==
  ~orphaned =>
    /\ Busy => pc = "completed"
    /\ pc = "slot" => seen.status = recorded
    /\ pc \in {"download", "install"} => \A s \in Slot : recorded[s] < target

(* An installation that is waited for is the service's own.                *)
OwnInstallation ==
  pc = "completed" =>
    /\ Busy => installer.version = target /\ completed = "none"
    /\ installer.phase \in {"record", "activate"} => image[Inactive] = target
    /\ installer.phase = "activate" => recorded[Inactive] = target
    /\ completed = "success" => ~Busy

ReadSoFar ==
  /\ pc \in {"status", "slot"} => seen.latest \in Version
  /\ pc = "slot" => seen.status \in [Slot -> Version]
  /\ pc \in {"download", "install", "completed"} => system_status = "NeedsUpdate"

IInv ==
  /\ TypeOK
  /\ ReadSoFar
  /\ Undisturbed
  /\ OwnInstallation
  /\ SuccessMeansInstalled
  /\ VersionInfoIsFresh
  /\ NoCompleteBundleLeft

(* The other slot is a slot, and not the same one.                         *)
LEMMA OtherSlot == \A s \in Slot : Other(s) \in Slot /\ Other(s) # s
BY DEF Slot, Other

(* The verdict is one of the statuses, and NeedsUpdate means that both     *)
(* slots are older than the release.                                       *)
LEMMA Verdict ==
  ASSUME NEW p, NEW b, NEW info \in VersionInfo
  PROVE  /\ evaluate_version_info(p, b, info) \in SystemStatus \ UpdateError
         /\ evaluate_version_info(p, b, info) = "NeedsUpdate" =>
              info.booted < info.latest /\ info.inactive < info.latest
<1>1. info.latest \in Nat /\ info.booted \in Nat /\ info.inactive \in Nat
  BY VersionAssumption DEF VersionInfo
<1>2. evaluate_version_info(p, b, info) \in SystemStatus \ UpdateError
  BY DEF evaluate_version_info, SystemStatus, UpdateError
<1>3. ASSUME evaluate_version_info(p, b, info) = "NeedsUpdate"
      PROVE  ~UpToDateWithLatest(info.booted, info) /\ ~UpToDateWithLatest(info.inactive, info)
  BY <1>3 DEF evaluate_version_info
<1> QED
  BY <1>1, <1>2, <1>3 DEF UpToDateWithLatest

-----------------------------------------------------------------------------
(* The initial states. *)

LEMMA InitHolds == Init => IInv
<1> SUFFICES ASSUME Init PROVE IInv
  OBVIOUS
<1> USE DEF Init, initial_state
<1>1. TypeOK
  <2>1. image \in [Slot -> Version \cup {Torn}]
    OBVIOUS
  <2> QED
    BY <2>1 DEF TypeOK, TypeOKRauc, PC, Checking, SystemStatus, Seen, Unseen, File,
                Phase, Idle, Busy, Result
<1>2. ReadSoFar /\ Undisturbed /\ OwnInstallation
  BY DEF ReadSoFar, Undisturbed, OwnInstallation, Idle, Busy
<1>3. SuccessMeansInstalled /\ VersionInfoIsFresh /\ NoCompleteBundleLeft
  BY DEF SuccessMeansInstalled, VersionInfoIsFresh, NoCompleteBundleLeft, Complete
<1> QED
  BY <1>1, <1>2, <1>3 DEF IInv

-----------------------------------------------------------------------------
(* The steps of a check. *)

LEMMA ReadsHold ==
  IInv /\ (ReadPrimary \/ ReadBooted \/ ReadLatest \/ ReadStatus) => IInv'
<1> SUFFICES ASSUME IInv, ReadPrimary \/ ReadBooted \/ ReadLatest \/ ReadStatus
             PROVE  IInv'
  OBVIOUS
<1> USE DEF IInv, ReadPrimary, ReadBooted, ReadLatest, ReadStatus, ReadOne,
            raucVars, grubenv, slotVars
<1>1. GetPrimaryAnswers \subseteq Slot \cup {"none"}
  BY OtherSlot DEF GetPrimaryAnswers, GetPrimary, TypeOK, TypeOKRauc
<1>2. TypeOKRauc'
  BY DEF TypeOK, TypeOKRauc, Busy
<1>3. seen' \in Seen
  BY <1>1 DEF TypeOK, TypeOKRauc, Seen
<1>4. TypeOK'
  BY <1>2, <1>3 DEF TypeOK, PC, Checking
<1>5. ReadSoFar' /\ Undisturbed' /\ OwnInstallation'
  BY DEF ReadSoFar, Undisturbed, OwnInstallation, Busy, TypeOK, TypeOKRauc, Seen
<1>6. SuccessMeansInstalled' /\ VersionInfoIsFresh' /\ NoCompleteBundleLeft'
  BY DEF SuccessMeansInstalled, VersionInfoIsFresh, NoCompleteBundleLeft, Inactive
<1> QED
  BY <1>4, <1>5, <1>6

(* What the check has read is what RAUC has recorded, unless an orphaned   *)
(* installation disturbed it; so NeedsUpdate speaks of the recorded slots. *)
LEMMA DecideHolds == IInv /\ Decide => IInv'
<1> SUFFICES ASSUME IInv, Decide PROVE IInv'
  OBVIOUS
<1> DEFINE info == [latest |-> seen.latest, booted |-> seen.status[booted],
                    inactive |-> seen.status[Inactive]]
           status == evaluate_version_info(seen.primary, seen.booted, info)
<1> USE DEF IInv, raucVars, grubenv, slotVars
<1>1. booted \in Slot /\ Inactive \in Slot /\ \A s \in Slot : s \in {booted, Inactive}
  BY OtherSlot DEF TypeOK, TypeOKRauc, Slot, Inactive, Other
<1>2. pc = "slot" /\ seen.latest \in Version /\ seen.status \in [Slot -> Version]
  BY DEF Decide, ReadSoFar
<1>3. info \in VersionInfo
  BY <1>1, <1>2 DEF VersionInfo
<1>4. /\ status \in SystemStatus \ UpdateError
      /\ status = "NeedsUpdate" => info.booted < info.latest /\ info.inactive < info.latest
  BY <1>3, Verdict
<1>5. /\ version_info' = info /\ system_status' = status /\ seen' = Unseen
      /\ \/ /\ status = "NeedsUpdate" /\ pc' = "download"
            /\ target' = seen.latest /\ duration' = "none"
         \/ /\ status # "NeedsUpdate" /\ pc' = "sleep"
            /\ target' = None /\ duration' = "check_for_updates"
      /\ UNCHANGED <<raucVars, latest, bundle>>
  BY DEF Decide, EnterSleep
<1>6. orphaned' \in BOOLEAN /\ (~orphaned' => ~Busy /\ seen.status = recorded)
  BY <1>2 DEF Decide, Undisturbed, TypeOK
<1> HIDE DEF info, status
<1>7. TypeOK'
  BY <1>2, <1>3, <1>4, <1>5, <1>6
  DEF TypeOK, TypeOKRauc, Busy, PC, Checking, Duration, SystemStatus, Seen, Unseen
<1>8. ReadSoFar' /\ OwnInstallation'
  BY <1>5 DEF ReadSoFar, OwnInstallation
<1>9. ASSUME ~orphaned', pc' \in {"download", "install"}, NEW s \in Slot
      PROVE  recorded'[s] < target'
  BY <1>1, <1>4, <1>5, <1>6, <1>9 DEF info
<1>10. Undisturbed'
  BY <1>5, <1>6, <1>9 DEF Undisturbed, Busy
<1>11. VersionInfoIsFresh'
  BY <1>5, <1>6 DEF VersionInfoIsFresh, info, Inactive
<1>12. SuccessMeansInstalled' /\ NoCompleteBundleLeft'
  BY <1>2, <1>5 DEF SuccessMeansInstalled, NoCompleteBundleLeft
<1> QED
  BY <1>7, <1>8, <1>10, <1>11, <1>12

LEMMA CheckFailsHolds == IInv /\ CheckFails => IInv'
<1> SUFFICES ASSUME IInv, CheckFails PROVE IInv'
  OBVIOUS
<1> USE DEF IInv, CheckFails, EnterSleep, raucVars, grubenv, slotVars
<1>1. TypeOK'
  BY DEF TypeOK, TypeOKRauc, Busy, PC, Checking, Duration, SystemStatus, UpdateError,
         Seen, Unseen
<1>2. ReadSoFar' /\ Undisturbed' /\ OwnInstallation'
  BY DEF ReadSoFar, Undisturbed, OwnInstallation, Busy, Checking
<1>3. SuccessMeansInstalled' /\ VersionInfoIsFresh' /\ NoCompleteBundleLeft'
  BY DEF SuccessMeansInstalled, VersionInfoIsFresh, NoCompleteBundleLeft, Checking
<1> QED
  BY <1>1, <1>2, <1>3

LEMMA WakeUpHolds == IInv /\ WakeUp => IInv'
<1> SUFFICES ASSUME IInv, WakeUp PROVE IInv'
  OBVIOUS
<1> USE DEF IInv, WakeUp, raucVars, grubenv, slotVars
<1>1. TypeOK'
  BY DEF TypeOK, TypeOKRauc, Busy, PC, Checking
<1>2. ReadSoFar' /\ Undisturbed' /\ OwnInstallation'
  BY DEF ReadSoFar, Undisturbed, OwnInstallation, Busy
<1>3. SuccessMeansInstalled' /\ VersionInfoIsFresh' /\ NoCompleteBundleLeft'
  BY DEF SuccessMeansInstalled, VersionInfoIsFresh, NoCompleteBundleLeft, Inactive
<1> QED
  BY <1>1, <1>2, <1>3

-----------------------------------------------------------------------------
(* Downloads. *)

(* What curl leaves is a file, and a complete one only if it succeeds.     *)
LEMMA CurlFiles ==
  \A f \in File : /\ CurlSucceeds[f] \subseteq File
                  /\ CurlFails[f] \subseteq File
                  /\ f \notin Complete => CurlFails[f] \cap Complete = {}
BY DEF File, CurlSucceeds, CurlFails, Complete

LEMMA DownloadHolds == IInv /\ Download => IInv'
<1> SUFFICES ASSUME IInv, NEW file \in Complete, DownloadAs(file) PROVE IInv'
  BY DEF Download
<1> USE DEF IInv, DownloadAs, raucVars, grubenv, slotVars
<1>1. file \in File
  BY DEF Complete, File
<1>2. TypeOK'
  BY <1>1 DEF TypeOK, TypeOKRauc, Busy, PC
<1>3. ReadSoFar' /\ Undisturbed' /\ OwnInstallation'
  BY DEF ReadSoFar, Undisturbed, OwnInstallation, Busy
<1>4. SuccessMeansInstalled' /\ VersionInfoIsFresh'
  BY DEF SuccessMeansInstalled, VersionInfoIsFresh, Inactive
<1>5. NoCompleteBundleLeft'
  BY DEF NoCompleteBundleLeft, TypeOK
<1> QED
  BY <1>2, <1>3, <1>4, <1>5

LEMMA DownloadFailsHolds == IInv /\ DownloadFails => IInv'
<1> SUFFICES ASSUME IInv, DownloadFails PROVE IInv'
  OBVIOUS
<1> USE DEF IInv, EnterSleep, raucVars, grubenv, slotVars
<1>1. PICK file \in CurlFails[bundle[target]] : bundle' = [bundle EXCEPT ![target] = file]
  BY DEF DownloadFails
<1>2. /\ pc = "download" /\ target \in Version /\ bundle[target] \in File
      /\ bundle[target] \notin Complete
  BY DEF DownloadFails, TypeOK, NoCompleteBundleLeft
<1>3. file \in File \ Complete
  BY <1>2, CurlFiles
<1>4. TypeOK'
  BY <1>1, <1>3
  DEF DownloadFails, TypeOK, TypeOKRauc, Busy, PC, Duration, SystemStatus, UpdateError
<1>5. ReadSoFar' /\ Undisturbed' /\ OwnInstallation'
  BY DEF DownloadFails, ReadSoFar, Undisturbed, OwnInstallation, Busy
<1>6. SuccessMeansInstalled'
  BY DEF DownloadFails, SuccessMeansInstalled
<1>7. VersionInfoIsFresh'
  BY <1>2 DEF DownloadFails, VersionInfoIsFresh, Inactive, ReadSoFar
<1>8. NoCompleteBundleLeft'
  BY <1>1, <1>2, <1>3 DEF NoCompleteBundleLeft, TypeOK
<1> QED
  BY <1>4, <1>5, <1>6, <1>7, <1>8

-----------------------------------------------------------------------------
(* Installations, seen from the service. *)

LEMMA CallInstallHolds == IInv /\ CallInstall => IInv'
<1> SUFFICES ASSUME IInv, CallInstall PROVE IInv'
  OBVIOUS
<1> DEFINE sound == bundle[target] = "whole"
<1> USE DEF IInv, grubenv, slotVars
<1>1. /\ pc = "install" /\ pc' = "completed"
      /\ installer' = [phase |-> "verify", version |-> target, sound |-> sound]
      /\ completed' = "none"
      /\ UNCHANGED <<booted, grubenv, slotVars, latest, duration, target, version_info,
                     system_status, seen, bundle, orphaned>>
  BY DEF CallInstall, Install
<1>2. target \in Version /\ sound \in BOOLEAN
  BY <1>1 DEF TypeOK
<1> HIDE DEF sound
<1>3. TypeOK'
  BY <1>1, <1>2 DEF TypeOK, TypeOKRauc, Busy, PC, Phase, Result
<1>4. ReadSoFar' /\ Undisturbed' /\ OwnInstallation'
  BY <1>1 DEF ReadSoFar, Undisturbed, OwnInstallation, Busy
<1>5. SuccessMeansInstalled' /\ VersionInfoIsFresh' /\ NoCompleteBundleLeft'
  BY <1>1 DEF SuccessMeansInstalled, VersionInfoIsFresh, NoCompleteBundleLeft
<1> QED
  BY <1>3, <1>4, <1>5

LEMMA InstallSucceedsHolds == IInv /\ InstallSucceeds => IInv'
<1> SUFFICES ASSUME IInv, InstallSucceeds PROVE IInv'
  OBVIOUS
<1> USE DEF IInv, InstallSucceeds, Unlink, grubenv, slotVars
<1>1. target \in Version /\ ~Busy
  BY DEF TypeOK, OwnInstallation
<1>2. TypeOK'
  BY <1>1 DEF TypeOK, TypeOKRauc, Busy, PC, Checking, File, Result
<1>3. ReadSoFar' /\ Undisturbed' /\ OwnInstallation'
  BY <1>1 DEF ReadSoFar, Undisturbed, OwnInstallation, Busy
<1>4. SuccessMeansInstalled' /\ VersionInfoIsFresh'
  BY DEF SuccessMeansInstalled, VersionInfoIsFresh
<1>5. NoCompleteBundleLeft'
  BY <1>1 DEF NoCompleteBundleLeft, TypeOK, Complete
<1> QED
  BY <1>2, <1>3, <1>4, <1>5

LEMMA InstallFailsHolds == IInv /\ InstallFails => IInv'
<1> SUFFICES ASSUME IInv, InstallFails PROVE IInv'
  OBVIOUS
<1> USE DEF IInv, InstallFails, EnterSleep, Unlink, grubenv, slotVars
<1>1. target \in Version /\ (~orphaned => ~Busy)
  BY DEF TypeOK, OwnInstallation, Undisturbed
<1>2. TypeOK'
  BY <1>1
  DEF TypeOK, TypeOKRauc, Busy, PC, Duration, SystemStatus, UpdateError, File, Result
<1>3. ReadSoFar' /\ Undisturbed' /\ OwnInstallation'
  BY <1>1 DEF ReadSoFar, Undisturbed, OwnInstallation, Busy
<1>4. SuccessMeansInstalled' /\ VersionInfoIsFresh'
  BY DEF SuccessMeansInstalled, VersionInfoIsFresh
<1>5. NoCompleteBundleLeft'
  BY <1>1 DEF NoCompleteBundleLeft, TypeOK, Complete
<1> QED
  BY <1>2, <1>3, <1>4, <1>5

-----------------------------------------------------------------------------
(* Around the service. *)

LEMMA RestartServiceHolds == IInv /\ RestartService => IInv'
<1> SUFFICES ASSUME IInv, RestartService PROVE IInv'
  OBVIOUS
<1> USE DEF IInv, RestartService, raucVars, grubenv, slotVars
<1>1. TypeOK'
  BY DEF TypeOK, TypeOKRauc, Busy, PC, Checking, SystemStatus, Seen, Unseen, File
<1>2. ReadSoFar' /\ Undisturbed' /\ OwnInstallation'
  BY DEF ReadSoFar, Undisturbed, OwnInstallation, Busy
<1>3. SuccessMeansInstalled' /\ VersionInfoIsFresh' /\ NoCompleteBundleLeft'
  BY DEF SuccessMeansInstalled, VersionInfoIsFresh, NoCompleteBundleLeft, Complete
<1> QED
  BY <1>1, <1>2, <1>3

LEMMA PublishHolds == IInv /\ Publish => IInv'
<1> SUFFICES ASSUME IInv, Publish PROVE IInv'
  OBVIOUS
<1> USE DEF IInv, Publish, raucVars, grubenv, slotVars, serviceVars
<1>1. TypeOK'
  BY DEF TypeOK, TypeOKRauc, Busy
<1>2. ReadSoFar' /\ Undisturbed' /\ OwnInstallation'
  BY DEF ReadSoFar, Undisturbed, OwnInstallation, Busy, Inactive
<1>3. SuccessMeansInstalled' /\ VersionInfoIsFresh' /\ NoCompleteBundleLeft'
  BY DEF SuccessMeansInstalled, VersionInfoIsFresh, NoCompleteBundleLeft, Inactive
<1> QED
  BY <1>1, <1>2, <1>3

(* A mark is refused during an installation and leaves the other slot be.  *)
LEMMA MarkBootedGoodHolds == IInv /\ MarkBootedGood => IInv'
<1> SUFFICES ASSUME IInv, MarkBootedGood PROVE IInv'
  OBVIOUS
<1> USE DEF IInv, MarkBootedGood, MarkGood, slotVars, serviceVars
<1>1. booted \in Slot /\ Inactive \in Slot /\ Inactive # booted
  BY OtherSlot DEF TypeOK, TypeOKRauc, Inactive
<1>2. TypeOK'
  BY <1>1 DEF TypeOK, TypeOKRauc, Busy
<1>3. ReadSoFar' /\ Undisturbed' /\ OwnInstallation'
  BY DEF ReadSoFar, Undisturbed, OwnInstallation, Busy, Inactive
<1>4. SuccessMeansInstalled' /\ VersionInfoIsFresh' /\ NoCompleteBundleLeft'
  BY <1>1
  DEF SuccessMeansInstalled, VersionInfoIsFresh, NoCompleteBundleLeft, Inactive,
      TypeOK, TypeOKRauc
<1> QED
  BY <1>2, <1>3, <1>4

-----------------------------------------------------------------------------
(* The steps of the installer.  Each works on the inactive slot, and while *)
(* the service waits, for the service's own target.                        *)

LEMMA RaucVerifiesHolds ==
  IInv /\ RaucVerifies /\ UNCHANGED <<latest, serviceVars>> => IInv'
<1> SUFFICES ASSUME IInv, RaucVerifies, UNCHANGED <<latest, serviceVars>> PROVE IInv'
  OBVIOUS
<1> USE DEF IInv, RaucVerifies, Advance, slotVars, serviceVars
<1>1. Busy /\ Busy' /\ installer'.phase = "erase" /\ installer'.version = installer.version
  BY DEF Busy, TypeOK, TypeOKRauc
<1>2. TypeOK'
  BY <1>1, OtherSlot DEF TypeOK, TypeOKRauc, Busy, Inactive, Phase
<1>3. ReadSoFar' /\ Undisturbed' /\ OwnInstallation'
  BY <1>1 DEF ReadSoFar, Undisturbed, OwnInstallation
<1>4. SuccessMeansInstalled' /\ VersionInfoIsFresh' /\ NoCompleteBundleLeft'
  BY <1>1
  DEF SuccessMeansInstalled, VersionInfoIsFresh, NoCompleteBundleLeft, OwnInstallation, Inactive
<1> QED
  BY <1>2, <1>3, <1>4

LEMMA RaucErasesHolds ==
  IInv /\ RaucErases /\ UNCHANGED <<latest, serviceVars>> => IInv'
<1> SUFFICES ASSUME IInv, RaucErases, UNCHANGED <<latest, serviceVars>> PROVE IInv'
  OBVIOUS
<1> USE DEF IInv, RaucErases, Advance, grubenv, serviceVars
<1>1. Busy /\ Busy' /\ installer'.phase = "write" /\ installer'.version = installer.version
  BY DEF Busy, TypeOK, TypeOKRauc
<1>2. TypeOK'
  BY <1>1, OtherSlot DEF TypeOK, TypeOKRauc, Busy, Inactive, Phase
<1>3. ReadSoFar' /\ Undisturbed' /\ OwnInstallation'
  BY <1>1 DEF ReadSoFar, Undisturbed, OwnInstallation
<1>4. SuccessMeansInstalled' /\ VersionInfoIsFresh' /\ NoCompleteBundleLeft'
  BY <1>1
  DEF SuccessMeansInstalled, VersionInfoIsFresh, NoCompleteBundleLeft, OwnInstallation, Inactive
<1> QED
  BY <1>2, <1>3, <1>4

LEMMA RaucWritesHolds ==
  IInv /\ RaucWrites /\ UNCHANGED <<latest, serviceVars>> => IInv'
<1> SUFFICES ASSUME IInv, RaucWrites, UNCHANGED <<latest, serviceVars>> PROVE IInv'
  OBVIOUS
<1> USE DEF IInv, RaucWrites, Advance, grubenv, serviceVars
<1>1. Busy /\ Busy' /\ installer'.phase = "record" /\ installer'.version = installer.version
  BY DEF Busy, TypeOK, TypeOKRauc
<1>2. Inactive \in Slot /\ Inactive' = Inactive /\ image'[Inactive] = installer.version
  BY OtherSlot DEF TypeOK, TypeOKRauc, Inactive
<1>3. TypeOK'
  <2>1. installer.version \in Version
    BY <1>1 DEF TypeOK, TypeOKRauc
  <2> QED
    BY <1>1, <1>2, <2>1 DEF TypeOK, TypeOKRauc, Busy, Phase
<1>4. ReadSoFar' /\ Undisturbed' /\ OwnInstallation'
  BY <1>1, <1>2 DEF ReadSoFar, Undisturbed, OwnInstallation
<1>5. SuccessMeansInstalled' /\ VersionInfoIsFresh' /\ NoCompleteBundleLeft'
  BY <1>1
  DEF SuccessMeansInstalled, VersionInfoIsFresh, NoCompleteBundleLeft, OwnInstallation, Inactive
<1> QED
  BY <1>3, <1>4, <1>5

(* The one step that changes what RAUC answers to the service.             *)
LEMMA RaucRecordsHolds ==
  IInv /\ RaucRecords /\ UNCHANGED <<latest, serviceVars>> => IInv'
<1> SUFFICES ASSUME IInv, RaucRecords, UNCHANGED <<latest, serviceVars>> PROVE IInv'
  OBVIOUS
<1> USE DEF IInv, RaucRecords, Advance, grubenv, serviceVars
<1>1. Busy /\ Busy' /\ installer'.phase = "activate" /\ installer'.version = installer.version
  BY DEF Busy, TypeOK, TypeOKRauc
<1>2. Inactive \in Slot /\ Inactive' = Inactive /\ recorded'[Inactive] = installer.version
  BY OtherSlot DEF TypeOK, TypeOKRauc, Inactive
<1>3. TypeOK'
  <2>1. installer.version \in Version
    BY <1>1 DEF TypeOK, TypeOKRauc
  <2> QED
    BY <1>1, <1>2, <2>1 DEF TypeOK, TypeOKRauc, Busy, Phase
<1>4. orphaned \/ pc = "completed"
  BY <1>1 DEF Undisturbed
<1>5. ReadSoFar' /\ Undisturbed'
  BY <1>1, <1>4 DEF ReadSoFar, Undisturbed
<1>6. OwnInstallation'
  BY <1>1, <1>2 DEF OwnInstallation
<1>7. VersionInfoIsFresh'
  BY <1>4 DEF VersionInfoIsFresh
<1>8. SuccessMeansInstalled' /\ NoCompleteBundleLeft'
  BY <1>1 DEF SuccessMeansInstalled, NoCompleteBundleLeft, OwnInstallation
<1> QED
  BY <1>3, <1>5, <1>6, <1>7, <1>8

LEMMA RaucActivatesHolds ==
  IInv /\ RaucActivates /\ UNCHANGED <<latest, serviceVars>> => IInv'
<1> SUFFICES ASSUME IInv, RaucActivates, UNCHANGED <<latest, serviceVars>> PROVE IInv'
  OBVIOUS
<1> USE DEF IInv, RaucActivates, slotVars, serviceVars
<1>1. Busy /\ ~Busy' /\ installer'.phase = "idle"
  BY DEF Busy, Idle
<1>2. Inactive \in Slot /\ Inactive' = Inactive /\ ok'[Inactive] /\ order' = Inactive
  BY OtherSlot DEF TypeOK, TypeOKRauc, Inactive
<1>3. TypeOK'
  BY <1>1, <1>2 DEF TypeOK, TypeOKRauc, Idle, Phase, Result
<1>4. ReadSoFar' /\ Undisturbed' /\ OwnInstallation'
  BY <1>1 DEF ReadSoFar, Undisturbed, OwnInstallation
<1>5. SuccessMeansInstalled'
  BY <1>1, <1>2 DEF SuccessMeansInstalled, OwnInstallation
<1>6. VersionInfoIsFresh' /\ NoCompleteBundleLeft'
  BY <1>2 DEF VersionInfoIsFresh, NoCompleteBundleLeft
<1> QED
  BY <1>3, <1>4, <1>5, <1>6

LEMMA RaucGivesUpHolds ==
  IInv /\ (RaucFails \/ RaucCrashes) /\ UNCHANGED <<latest, serviceVars>> => IInv'
<1> SUFFICES ASSUME IInv, RaucFails \/ RaucCrashes, UNCHANGED <<latest, serviceVars>>
             PROVE  IInv'
  OBVIOUS
<1> USE DEF IInv, RaucFails, RaucCrashes, grubenv, slotVars, serviceVars
<1>1. Busy /\ ~Busy' /\ installer'.phase = "idle"
  BY DEF Busy, Idle
<1>2. TypeOK'
  <2>1. installer' \in [phase: Phase, version: Version \cup {None}, sound: BOOLEAN]
    <3>1. Idle \in [phase: Phase, version: Version \cup {None}, sound: BOOLEAN]
      BY DEF Idle, Phase
    <3> QED
      BY <3>1
  <2>2. completed' \in Result
    BY DEF TypeOK, TypeOKRauc, Result
  <2>3. TypeOKRauc'
    BY <1>1, <2>1, <2>2 DEF TypeOK, TypeOKRauc
  <2> QED
    BY <2>3 DEF TypeOK
<1>3. ReadSoFar' /\ Undisturbed' /\ OwnInstallation'
  BY <1>1 DEF ReadSoFar, Undisturbed, OwnInstallation
<1>4. SuccessMeansInstalled' /\ VersionInfoIsFresh' /\ NoCompleteBundleLeft'
  BY <1>1
  DEF SuccessMeansInstalled, VersionInfoIsFresh, NoCompleteBundleLeft, OwnInstallation, Inactive
<1> QED
  BY <1>2, <1>3, <1>4

-----------------------------------------------------------------------------
(* The invariant is inductive. *)

LEMMA StutterHolds == IInv /\ UNCHANGED vars => IInv'
BY DEF IInv, vars, raucVars, grubenv, slotVars, serviceVars, TypeOK, TypeOKRauc, Busy,
       ReadSoFar, Undisturbed, OwnInstallation, SuccessMeansInstalled,
       VersionInfoIsFresh, NoCompleteBundleLeft, Inactive

LEMMA StepHolds == IInv /\ [Next]_vars => IInv'
<1> SUFFICES ASSUME IInv, [Next]_vars PROVE IInv'
  OBVIOUS
<1>1. CASE ServiceStep
  BY <1>1, ReadsHold, DecideHolds, CheckFailsHolds, WakeUpHolds, DownloadHolds,
     DownloadFailsHolds, CallInstallHolds, InstallSucceedsHolds, InstallFailsHolds
  DEF ServiceStep, Check
<1>2. CASE RestartService
  BY <1>2, RestartServiceHolds
<1>3. CASE Publish
  BY <1>3, PublishHolds
<1>4. CASE RaucStep
  BY <1>4, RaucVerifiesHolds, RaucErasesHolds, RaucWritesHolds, RaucRecordsHolds,
     RaucActivatesHolds, RaucGivesUpHolds
  DEF RaucStep, RaucProgress
<1>5. CASE MarkBootedGood
  BY <1>5, MarkBootedGoodHolds
<1>6. CASE UNCHANGED vars
  BY <1>6, StutterHolds
<1> QED
  BY <1>1, <1>2, <1>3, <1>4, <1>5, <1>6 DEF Next

(* In every state of the update service the inductive invariant holds:     *)
(* while no orphaned installation is about, RAUC only works for the        *)
(* service that waits for it.                                              *)
THEOREM Inductive == Spec => []IInv
<1>1. Init => IInv
  BY InitHolds
<1>2. IInv /\ [Next]_vars => IInv'
  BY StepHolds
<1> QED
  BY <1>1, <1>2, PTL DEF Spec

(* Every variable keeps the type of its counterpart in the code; a service *)
(* that downloads or installs has a version to do it with.                 *)
THEOREM TypeCorrect == Spec => []TypeOK
<1>1. IInv => TypeOK
  BY DEF IInv
<1> QED
  BY <1>1, Inductive, PTL

(* run_step never downloads or installs a release one of the slots already *)
(* holds, however its awaits interleave with releases, marks and RAUC,     *)
(* unless an installation survived a restart of the controller.            *)
THEOREM NeverRedundant == Spec => []NoRedundantInstall
<1>1. IInv => NoRedundantInstall
  BY DEF IInv, Undisturbed, NoRedundantInstall
<1> QED
  BY <1>1, Inductive, PTL

(* When run_step reads success from the Completed signal, its own target   *)
(* is whole on the inactive slot, recorded, and first in ORDER.            *)
THEOREM SuccessIsOwn == Spec => []SuccessMeansInstalled
<1>1. IInv => SuccessMeansInstalled
  BY DEF IInv
<1> QED
  BY <1>1, Inductive, PTL

(* The versions the status page shows are those RAUC has recorded, but for *)
(* the exceptions the property names.                                      *)
THEOREM InfoStaysFresh == Spec => []VersionInfoIsFresh
<1>1. IInv => VersionInfoIsFresh
  BY DEF IInv
<1> QED
  BY <1>1, Inductive, PTL

(* No complete bundle outlives its installation attempt, in whichever way  *)
(* the attempt or the controller ends, so curl never resumes at the end.   *)
THEOREM BundlesAreConsumed == Spec => []NoCompleteBundleLeft
<1>1. IInv => NoCompleteBundleLeft
  BY DEF IInv
<1> QED
  BY <1>1, Inductive, PTL
-----------------------------------------------------------------------------
(* The whole machine.                                                      *)

TypeOfMachine ==
  /\ TypeOKGrub
  /\ health \in HealthState /\ switchOffered \in BOOLEAN
  /\ strikes \in 0..MaxStrikes /\ picked \subseteq Slot

(* Nothing is in memory while the machine is not up.                       *)
AtRest ==
  ~Up => initial_state /\ installer = Idle /\ completed = "none" /\ ~orphaned

(* A slot that an installation has touched is not bootable until its image *)
(* is whole.                                                               *)
TornInv ==
  /\ TornOnlyByChoice
  /\ Up => image[booted] # Torn
  /\ installer.phase \in {"erase", "write", "record", "activate"} => ~ok[Inactive]
  /\ installer.phase \in {"record", "activate"} => image[Inactive] # Torn

(* The slot that GRUB will start has used no more attempts than there were *)
(* boots since a slot was last marked good.                                *)
NextBoot == IF ok[order] THEN order ELSE Other(order)
Alive(s) == ok[s] /\ try[s] <= strikes
StrikesInv ==
  /\ strikes < MaxStrikes =>
       /\ Alive(NextBoot)
       /\ Up => Alive(booted)
       /\ power = "grub" => default = NextBoot
  /\ Up /\ order # booted => try[order] = 0
  /\ MenuAfterThreeStrikes

(* What a check has seen of the other slot being the primary one stays true*)
(* of GRUB until the running slot is marked good.                          *)
Honest == GrubChoice = Inactive \/ (order = booted /\ health = "Good")
HonestInv ==
  /\ Up /\ pc \in {"latest", "status", "slot"} => seen.booted = booted
  /\ pc \notin Checking => seen.primary = "none"
  /\ Up /\ ~orphaned /\ (seen.primary = Inactive \/ system_status = "RebootRequired") => Honest

MInv == IInv /\ TypeOfMachine /\ AtRest /\ TornInv /\ StrikesInv /\ HonestInv
-----------------------------------------------------------------------------
(* The update service's part of the machine.                               *)

(* A service that has just started owes nothing.                           *)
Started == initial_state /\ installer = Idle /\ completed = "none"

LEMMA RestHolds == (TypeOK /\ Started => IInv) /\ (TypeOK' /\ Started' => IInv')
BY DEF Started, IInv, initial_state, ReadSoFar, Undisturbed, OwnInstallation, Idle, Busy,
       SuccessMeansInstalled, VersionInfoIsFresh, NoCompleteBundleLeft, Complete


LEMMA InitMachineHolds == InitMachine => MInv
<1> SUFFICES ASSUME InitMachine PROVE MInv
  OBVIOUS
<1>1. PICK v \in Version \ BadVersion :
        image = [s \in Slot |-> v] /\ recorded = image /\ latest = v
  BY DEF InitMachine
<1>2. /\ initial_state /\ installer = Idle /\ completed = "none" /\ orphaned = FALSE
      /\ booted = "a" /\ order = "a" /\ try = [s \in Slot |-> 0] /\ ok = [s \in Slot |-> TRUE]
      /\ power = "off" /\ default = "none" /\ health = "Pending" /\ switchOffered = FALSE
      /\ strikes = 0 /\ picked = {}
  BY DEF InitMachine
<1>3. TypeOK
  <2>1. TypeOKRauc
    BY <1>1, <1>2 DEF TypeOKRauc, Idle, Busy, Phase, Slot, Result
  <2> QED
    BY <1>1, <1>2, <2>1 DEF TypeOK, initial_state, PC, Checking, SystemStatus, Seen, Unseen,
                            File
<1>4. IInv
  BY <1>2, <1>3, RestHolds DEF Started
<1>5. TypeOfMachine
  <2>1. TypeOKGrub
    BY <1>2 DEF TypeOKGrub, Power, Slot
  <2>2. strikes \in 0..MaxStrikes
    BY <1>2 DEF MaxStrikes
  <2>3. health \in HealthState /\ switchOffered \in BOOLEAN /\ picked \subseteq Slot
    BY <1>2 DEF HealthState
  <2> QED BY <2>1, <2>2, <2>3 DEF TypeOfMachine
<1>9. AtRest
  BY <1>2, Zenon DEF AtRest
<1>6. TornInv
  BY <1>1, <1>2, TornAssumption DEF TornInv, TornOnlyByChoice, Up, Idle
<1>7. StrikesInv
  BY <1>2 DEF StrikesInv, Alive, NextBoot, MaxStrikes, Up, MenuAfterThreeStrikes, Slot
<1>8. HonestInv
  BY <1>2 DEF HonestInv, Up, initial_state, Checking
<1> QED BY <1>4, <1>5, <1>6, <1>7, <1>8, <1>9 DEF MInv

(* The update service's part of every step of the machine.                  *)
LEMMA ServiceHolds == MInv /\ NextMachine => IInv'
<1> SUFFICES ASSUME MInv, NextMachine PROVE IInv'
  OBVIOUS
<1>0. IInv /\ TypeOK /\ TypeOKRauc
  BY DEF MInv, IInv, TypeOK
<1>1. CASE Select
  <2>1. Started'
    BY <1>1 DEF Select, GrubSelects, MInv, AtRest, Up, Started, initial_state, serviceVars
  <2>2. try' \in [Slot -> 0..3]
    <3>1. CASE GrubChoice = "none"
      BY <1>0, <1>1, <3>1 DEF Select, GrubSelects, TypeOKRauc
    <3>2. CASE GrubChoice # "none"
      <4>1. \A n \in 0..3 : Increment(n) \in 0..3
        BY DEF Increment
      <4> QED BY <1>0, <1>1, <3>2, <4>1 DEF Select, GrubSelects, TypeOKRauc
    <3> QED BY <3>1, <3>2
  <2>3. TypeOK'
    BY <1>0, <1>1, <2>2 DEF Select, GrubSelects, TypeOK, TypeOKRauc, Busy, serviceVars, slotVars
  <2> QED BY <2>1, <2>3, RestHolds
<1>2. CASE Boot \/ BootChosen
  <2>1. PICK s \in Slot : BootEntry(s) /\ power \in {"grub", "menu"}
    BY <1>2 DEF Boot, BootDefault, BootChosen, BootByHand, MInv, TypeOfMachine, TypeOKGrub
  <2>2. UNCHANGED <<latest, serviceVars>>
    BY <1>2 DEF Boot, BootChosen
  <2>3. Started'
    BY <2>1, <2>2 DEF BootEntry, MInv, AtRest, Up, Started, initial_state, serviceVars
  <2>4. TypeOK'
    BY <1>0, <2>1, <2>2 DEF BootEntry, TypeOK, TypeOKRauc, Busy, serviceVars, slotVars
  <2> QED BY <2>3, <2>4, RestHolds
<1>3. CASE PowerOff
  <2>1. Started' /\ orphaned' = FALSE
    BY <1>3 DEF PowerOff, Volatile, Started, initial_state
  <2>2. TypeOKRauc'
    BY <1>0, <1>3 DEF PowerOff, Volatile, TypeOKRauc, grubenv, slotVars, Idle, Busy, Phase, Result
  <2>3. TypeOK'
    BY <1>0, <1>3, <2>1, <2>2 DEF PowerOff, TypeOK, Started, initial_state, PC, Checking, SystemStatus,
                                  Seen, Unseen, File
  <2> QED BY <2>1, <2>3, RestHolds
<1>4. CASE UpdateStep \/ InstallerStep \/ RestartController \/ Release
  <2>1. Next
    BY <1>4 DEF UpdateStep, InstallerStep, RestartController, Release, Next
  <2> QED BY <1>0, <2>1, StepHolds
<1>5. CASE CheckHealth
  <2>1. MarkBootedGood \/ UNCHANGED vars
    BY <1>5 DEF CheckHealth, HealthStep, CheckSystem, MarkAsGood, MarkFails, RetryHealth,
                MarkBootedGood, vars
  <2> QED BY <1>0, <2>1, StepHolds DEF Next
<1>6. CASE OpenStatusPage
  BY <1>0, <1>6, StepHolds DEF OpenStatusPage
<1>7. CASE SwitchSlot
  <2> USE <1>0, <1>7 DEF SwitchSlot, MarkActive, serviceVars, slotVars
  <2>1. Inactive \in Slot /\ Inactive' = Inactive
    BY OtherSlot DEF Inactive, TypeOKRauc
  <2>2. TypeOK'
    BY <2>1 DEF TypeOK, TypeOKRauc, Busy
  <2>3. ReadSoFar' /\ Undisturbed' /\ OwnInstallation'
    BY <2>1 DEF IInv, ReadSoFar, Undisturbed, OwnInstallation, Busy
  <2>4. SuccessMeansInstalled' /\ VersionInfoIsFresh' /\ NoCompleteBundleLeft'
    BY <2>1 DEF IInv, SuccessMeansInstalled, VersionInfoIsFresh, NoCompleteBundleLeft, TypeOKRauc
  <2> QED BY <2>2, <2>3, <2>4 DEF IInv
<1> QED BY <1>1, <1>2, <1>3, <1>4, <1>5, <1>6, <1>7 DEF NextMachine

LEMMA MachineTyped == MInv /\ NextMachine => TypeOfMachine' /\ AtRest'
<1> SUFFICES ASSUME MInv, NextMachine PROVE TypeOfMachine' /\ AtRest'
  OBVIOUS
<1>0. /\ TypeOfMachine /\ TypeOKRauc /\ AtRest
      /\ power \in Power /\ default \in Slot \cup {"none"} /\ (power = "grub" <=> default \in Slot)
      /\ strikes \in 0..3 /\ Inactive \in Slot
  BY OtherSlot DEF MInv, IInv, TypeOK, TypeOfMachine, TypeOKGrub, MaxStrikes, Inactive, TypeOKRauc
<1>1. CASE Select
  <2>1. GrubChoice \in Slot \cup {"none"}
    BY <1>0, OtherSlot DEF GrubChoice, TypeOKRauc
  <2>2. strikes' \in 0..3
    BY <1>0, <1>1 DEF Select, MaxStrikes
  <2>3. /\ default' = GrubChoice /\ power' = IF GrubChoice = "none" THEN "menu" ELSE "grub"
        /\ "none" \notin Slot
    BY <1>1 DEF Select, GrubSelects, Slot
  <2>4. TypeOKGrub'
    BY <2>1, <2>3 DEF TypeOKGrub, Power
  <2>5. TypeOfMachine'
    BY <1>0, <1>1, <2>2, <2>4 DEF Select, TypeOfMachine, MaxStrikes
  <2> QED BY <1>0, <1>1, <2>5 DEF Select, GrubSelects, AtRest, Up, initial_state, serviceVars
<1>2. CASE Boot \/ BootChosen
  <2>1. PICK s \in Slot : BootEntry(s) /\ power \in {"grub", "menu"}
    BY <1>0, <1>2 DEF Boot, BootDefault, BootChosen, BootByHand
  <2>2. /\ UNCHANGED <<latest, serviceVars, health, switchOffered, picked>>
        /\ strikes' \in {strikes, MaxStrikes}
    BY <1>2 DEF Boot, BootChosen, userVars
  <2>3. power' \in {"off", "up"} /\ default' = "none"
    BY <2>1 DEF BootEntry
  <2>4. TypeOfMachine'
    BY <1>0, <2>2, <2>3 DEF TypeOfMachine, TypeOKGrub, Power, MaxStrikes, Slot
  <2> QED BY <1>0, <2>1, <2>2, <2>4 DEF BootEntry, AtRest, Up, initial_state, serviceVars
<1>3. CASE PowerOff
  BY <1>0, <1>3 DEF PowerOff, Volatile, TypeOfMachine, TypeOKGrub, Power, Slot, HealthState,
                    AtRest, initial_state
<1>4. CASE UpdateStep \/ Release
  BY <1>0, <1>4 DEF UpdateStep, Release, TypeOfMachine, TypeOKGrub, grubVars, userVars, AtRest,
                    Up, Publish, initial_state, serviceVars, raucVars
<1>5. CASE InstallerStep
  BY <1>0, <1>5 DEF InstallerStep, TypeOfMachine, TypeOKGrub, grubVars, AtRest, Up
<1>6. CASE CheckHealth
  <2>1. health' \in HealthState
    BY <1>0, <1>6 DEF CheckHealth, HealthStep, CheckSystem, MarkAsGood, MarkFails, RetryHealth,
                      SystemStates, HealthState, TypeOfMachine
  <2> QED BY <1>0, <1>6, <2>1 DEF CheckHealth, TypeOfMachine, TypeOKGrub, grubVars, AtRest, Up,
                                  MaxStrikes
<1>7. CASE RestartController
  BY <1>0, <1>7 DEF RestartController, TypeOfMachine, TypeOKGrub, grubVars, userVars, AtRest, Up,
                    HealthState
<1>8. CASE OpenStatusPage
  <2>1. switchOffered' \in BOOLEAN
    BY <1>8 DEF OpenStatusPage, suggests_switch
  <2> QED BY <1>0, <1>8, <2>1 DEF OpenStatusPage, TypeOfMachine, TypeOKGrub, grubVars, AtRest, Up
<1>9. CASE SwitchSlot
  BY <1>0, <1>9 DEF SwitchSlot, PickedBy, TypeOfMachine, TypeOKGrub, grubVars, AtRest, Up
<1> QED BY <1>1, <1>2, <1>3, <1>4, <1>5, <1>6, <1>7, <1>8, <1>9 DEF NextMachine

-----------------------------------------------------------------------------
(* The slots.                                                              *)

(* The update service itself leaves the slots and GRUB's environment alone *)
(* and starts at most an installation.                                     *)
LEMMA ServiceLeavesSlots ==
  ServiceStep => UNCHANGED <<booted, order, try, ok, image, recorded>>
                 /\ (installer' = installer \/ installer'.phase = "verify")
<1> SUFFICES ASSUME ServiceStep PROVE UNCHANGED <<booted, order, try, ok, image, recorded>>
                 /\ (installer' = installer \/ installer'.phase = "verify")
  OBVIOUS
<1> USE DEF raucVars, grubenv, slotVars
<1>1. CASE Check
  BY <1>1 DEF Check, ReadPrimary, ReadBooted, ReadLatest, ReadStatus, ReadOne, Decide, CheckFails
<1>2. CASE WakeUp \/ Download \/ DownloadFails
  BY <1>2 DEF WakeUp, Download, DownloadAs, DownloadFails
<1>3. CASE CallInstall
  BY <1>3 DEF CallInstall, Install
<1>4. CASE InstallSucceeds \/ InstallFails
  BY <1>4 DEF InstallSucceeds, InstallFails
<1> QED BY <1>1, <1>2, <1>3, <1>4 DEF ServiceStep

(* The health check marks the running slot or changes nothing about slots. *)
LEMMA HealthMarks ==
  HealthStep =>
    \/ MarkGood(booted) /\ health = "MarkingAsGood" /\ health' = "Good"
    \/ UNCHANGED raucVars /\ health # "Good" /\ health' # "Good"
<1> SUFFICES ASSUME HealthStep
    PROVE \/ MarkGood(booted) /\ health = "MarkingAsGood" /\ health' = "Good"
          \/ UNCHANGED raucVars /\ health # "Good" /\ health' # "Good"
  OBVIOUS
<1>1. CASE CheckSystem
  <2>1. PICK state \in SystemStates :
          health' = CASE state = "running"  -> "MarkingAsGood"
                      [] state = "starting" -> "Pending"
                      [] state = "degraded" -> "Bad"
    BY <1>1 DEF CheckSystem
  <2>2. state \in {"running", "starting", "degraded"}
    BY DEF SystemStates
  <2> QED BY <1>1, <2>1, <2>2 DEF CheckSystem
<1>2. CASE MarkAsGood
  BY <1>2 DEF MarkAsGood
<1>3. CASE MarkFails \/ RetryHealth
  BY <1>3 DEF MarkFails, RetryHealth
<1> QED BY <1>1, <1>2, <1>3 DEF HealthStep

(* What every step may rely on.                                            *)
LEMMA SlotFacts ==
  MInv => /\ TypeOKRauc /\ booted \in Slot /\ order \in Slot /\ Inactive \in Slot
          /\ Inactive # booted /\ Other(Inactive) = booted /\ Other(booted) = Inactive
          /\ \A s \in Slot : s = booted \/ s = Inactive
BY DEF MInv, IInv, TypeOK, TypeOKRauc, Inactive, Other, Slot

LEMMA TornHolds == MInv /\ NextMachine => TornInv'
<1> SUFFICES ASSUME MInv, NextMachine PROVE TornInv'
  OBVIOUS
<1>0. /\ TornInv /\ AtRest /\ TypeOKRauc /\ booted \in Slot /\ Inactive \in Slot
      /\ Inactive # booted
  BY SlotFacts DEF MInv
<1> USE DEF TornInv, TornOnlyByChoice
<1>1. CASE Select
  BY <1>0, <1>1 DEF Select, GrubSelects, slotVars, Up, Inactive
<1>2. CASE Boot \/ BootChosen
  <2>1. PICK s \in Slot : BootEntry(s) /\ power \in {"grub", "menu"}
    BY <1>2 DEF Boot, BootDefault, BootChosen, BootByHand, MInv, TypeOfMachine, TypeOKGrub
  <2>2. installer'.phase = "idle" /\ UNCHANGED <<ok, image, picked>>
    BY <1>0, <1>2, <2>1 DEF BootEntry, AtRest, Up, Idle, slotVars, Boot, BootChosen, userVars
  <2>3. Up' => image'[booted'] # Torn
    BY <2>1 DEF BootEntry, Up, slotVars
  <2> QED BY <1>0, <2>2, <2>3
<1>3. CASE PowerOff
  BY <1>0, <1>3 DEF PowerOff, Volatile, grubenv, slotVars, Idle, Up
<1>4. CASE UpdateStep
  BY <1>0, <1>4, ServiceLeavesSlots DEF UpdateStep, userVars, grubVars, Up, Inactive
<1>5. CASE InstallerStep
  <2> USE <1>0, <1>5 DEF InstallerStep, grubVars, Up, Inactive, slotVars, grubenv, Advance, TypeOKRauc
  <2>1. CASE RaucVerifies
    BY <2>1 DEF RaucVerifies
  <2>2. CASE RaucErases
    BY <2>2 DEF RaucErases
  <2>3. CASE RaucWrites
    <3>1. installer.version \in Version
      BY <2>3 DEF RaucWrites, Busy
    <3> QED BY <2>3, <3>1, TornAssumption DEF RaucWrites
  <2>4. CASE RaucRecords
    BY <2>4 DEF RaucRecords
  <2>5. CASE RaucActivates
    BY <2>5 DEF RaucActivates, Idle
  <2>6. CASE RaucFails \/ RaucCrashes
    BY <2>6 DEF RaucFails, RaucCrashes, Idle
  <2> QED BY <2>1, <2>2, <2>3, <2>4, <2>5, <2>6 DEF RaucStep, RaucProgress
<1>6. CASE CheckHealth
  <2>1. CASE MarkGood(booted)
    BY <1>0, <1>6, <2>1 DEF CheckHealth, grubVars, Up, Inactive, MarkGood, slotVars, TypeOKRauc
  <2>2. CASE UNCHANGED raucVars
    BY <1>0, <1>6, <2>2 DEF CheckHealth, grubVars, Up, Inactive, raucVars, grubenv, slotVars
  <2> QED BY <1>6, <2>1, <2>2, HealthMarks DEF CheckHealth
<1>7. CASE RestartController \/ Release \/ OpenStatusPage
  BY <1>0, <1>7 DEF RestartController, RestartService, Release, Publish, OpenStatusPage, vars,
                    raucVars, grubenv, slotVars, grubVars, userVars, Up, Inactive
<1>8. CASE SwitchSlot
  <2>1. UNCHANGED <<booted, image, installer, power>> /\ installer.phase = "idle"
    BY <1>8 DEF SwitchSlot, MarkActive, slotVars, grubVars, Busy
  <2>2. ok' = [ok EXCEPT ![Inactive] = TRUE] /\ picked' = PickedBy(Inactive)
    BY <1>8 DEF SwitchSlot, MarkActive
  <2> QED BY <1>0, <2>1, <2>2 DEF PickedBy, Up, Inactive, TypeOKRauc
<1> QED BY <1>1, <1>2, <1>3, <1>4, <1>5, <1>6, <1>7, <1>8 DEF NextMachine

-----------------------------------------------------------------------------
(* The boot attempts.                                                      *)

(* RAUC, as patched, and GRUB agree on which slots are bootable.           *)
LEMMA SameChoice == TypeOKRauc => GetPrimary = GrubChoice
<1> SUFFICES ASSUME TypeOKRauc PROVE GetPrimary = GrubChoice
  OBVIOUS
<1>1. \A s \in Slot : Candidate(s) <=> Selectable(s)
  BY DEF TypeOKRauc, Candidate, Selectable
<1> QED BY <1>1, OtherSlot DEF GetPrimary, GrubChoice, TypeOKRauc

(* With attempts left, GRUB starts the first slot that is marked good.     *)
LEMMA ChoiceWithLivesLeft ==
  MInv /\ strikes < MaxStrikes =>
    GrubChoice = NextBoot /\ NextBoot \in Slot /\ try[NextBoot] \in 0..2
<1> SUFFICES ASSUME MInv, strikes < MaxStrikes
    PROVE GrubChoice = NextBoot /\ NextBoot \in Slot /\ try[NextBoot] \in 0..2
  OBVIOUS
<1>1. NextBoot \in Slot /\ order \in Slot
  BY SlotFacts, OtherSlot DEF NextBoot
<1>2. Alive(NextBoot) /\ try \in [Slot -> 0..3] /\ strikes \in 0..2
  BY SlotFacts DEF MInv, StrikesInv, TypeOKRauc, TypeOfMachine, MaxStrikes
<1>3. try[NextBoot] \in 0..2 /\ Selectable(NextBoot)
  BY <1>1, <1>2 DEF Alive, Selectable
<1>4. GrubChoice = NextBoot
  BY <1>3 DEF GrubChoice, NextBoot, Selectable
<1> QED BY <1>1, <1>3, <1>4

LEMMA StrikesHold == MInv /\ NextMachine => StrikesInv'
<1> SUFFICES ASSUME MInv, NextMachine PROVE StrikesInv'
  OBVIOUS
<1>0. /\ StrikesInv /\ AtRest /\ TypeOKRauc /\ booted \in Slot /\ order \in Slot /\ Inactive \in Slot
      /\ Inactive # booted /\ Other(Inactive) = booted /\ Other(booted) = Inactive
      /\ try \in [Slot -> 0..3] /\ ok \in [Slot -> BOOLEAN] /\ strikes \in 0..3
      /\ order \in {booted, Inactive} /\ MaxStrikes = 3
  BY SlotFacts DEF MInv, TypeOKRauc, TypeOfMachine, MaxStrikes
<1> USE DEF StrikesInv, MenuAfterThreeStrikes
<1>1. CASE Select
  <2>1. ~Up' /\ order' = order /\ ok' = ok /\ power = "off" /\ default' = GrubChoice
    BY <1>1 DEF Select, GrubSelects, Up
  <2>2. CASE strikes < MaxStrikes
    <3>1. GrubChoice = NextBoot /\ NextBoot \in Slot /\ try[NextBoot] \in 0..2 /\ "none" \notin Slot
      BY <2>2, ChoiceWithLivesLeft DEF Slot
    <3>2. /\ power' = "grub" /\ strikes' = strikes + 1
          /\ try' = [try EXCEPT ![NextBoot] = Increment(@)]
      BY <1>1, <2>2, <3>1 DEF Select, GrubSelects
    <3>3. NextBoot' = NextBoot
      BY <2>1 DEF NextBoot
    <3>4. try'[NextBoot] = try[NextBoot] + 1
      BY <1>0, <3>1, <3>2 DEF Increment
    <3>5. Alive(NextBoot)'
      BY <1>0, <2>1, <2>2, <3>1, <3>2, <3>3, <3>4 DEF Alive
    <3> QED BY <1>0, <2>1, <3>1, <3>2, <3>3, <3>5
  <2>3. CASE ~(strikes < MaxStrikes)
    BY <1>0, <1>1, <2>1, <2>3 DEF Select
  <2> QED BY <2>2, <2>3
<1>2. CASE Boot \/ BootChosen
  <2>1. PICK s \in Slot : BootEntry(s) /\ power \in {"grub", "menu"} /\ (Boot => s = default)
                          /\ (Boot => power = "grub")
    <3>1. CASE Boot
      BY <3>1 DEF Boot, BootDefault, MInv, TypeOfMachine, TypeOKGrub
    <3>2. CASE BootChosen /\ ~Boot
      BY <3>2 DEF BootChosen, BootByHand
    <3> QED BY <1>2, <3>1, <3>2
  <2>2. /\ order' = s /\ UNCHANGED <<ok, try>> /\ power' \in {"off", "up"}
        /\ Up' => booted' = s
    BY <2>1 DEF BootEntry, Up
  <2>3. CASE strikes' < MaxStrikes
    <3>1. strikes' = strikes /\ Boot
      BY <1>0, <1>2, <2>3 DEF Boot, BootChosen, userVars
    <3>2. s = NextBoot /\ Alive(s)
      BY <1>0, <2>1, <2>3, <3>1
    <3>3. NextBoot' = s /\ Alive(s)'
      BY <2>2, <3>1, <3>2 DEF NextBoot, Alive
    <3> QED BY <2>2, <3>3 DEF Alive
  <2>4. CASE ~(strikes' < MaxStrikes)
    BY <2>2, <2>4
  <2> QED BY <2>3, <2>4
<1>3. CASE PowerOff
  <2>1. ~Up' /\ power' = "off" /\ UNCHANGED <<order, ok, try, strikes>>
    BY <1>3 DEF PowerOff, grubenv, Up
  <2> QED BY <1>0, <2>1 DEF NextBoot, Alive
<1>4. CASE UpdateStep \/ RestartController \/ Release \/ OpenStatusPage
  <2>1. UNCHANGED <<booted, order, try, ok, power, default, strikes>>
    BY <1>4, ServiceLeavesSlots DEF UpdateStep, RestartController, RestartService, Release, Publish,
       OpenStatusPage, vars, raucVars, grubenv, grubVars, userVars
  <2> QED BY <1>0, <2>1 DEF NextBoot, Alive, Up
<1>5. CASE InstallerStep \/ SwitchSlot
  <2>1. UNCHANGED <<booted, power, default, strikes>> /\ Up /\ Up'
    BY <1>5 DEF InstallerStep, SwitchSlot, RaucStep, RaucProgress, RaucVerifies, RaucErases,
       RaucWrites, RaucRecords, RaucActivates, RaucFails, RaucCrashes, MarkActive, grubVars, Up
  <2>2. power' # "menu" /\ power' # "grub"
    BY <2>1 DEF Up
  <2>3. CASE UNCHANGED <<order, try, ok>>
    BY <1>0, <2>1, <2>3 DEF NextBoot, Alive
  <2>4. CASE order' = order /\ ok' = [ok EXCEPT ![Inactive] = FALSE]
             /\ try' = [try EXCEPT ![Inactive] = 0]
    <3>1. ~ok'[Inactive] /\ ok'[booted] = ok[booted] /\ try'[booted] = try[booted] /\ try'[Inactive] = 0
      BY <1>0, <2>4
    <3>2. strikes < MaxStrikes => Alive(booted)' /\ ok'[booted]
      BY <1>0, <2>1, <3>1 DEF Alive
    <3>3. strikes < MaxStrikes => NextBoot' = booted
      BY <1>0, <2>4, <3>1, <3>2 DEF NextBoot, Other, Slot
    <3> QED BY <1>0, <2>1, <2>2, <2>4, <3>1, <3>2, <3>3 DEF Alive
  <2>5. CASE order' = Inactive /\ ok' = [ok EXCEPT ![Inactive] = TRUE]
             /\ try' = [try EXCEPT ![Inactive] = 0]
    <3>1. ok'[Inactive] /\ ok'[booted] = ok[booted] /\ try'[booted] = try[booted] /\ try'[Inactive] = 0
      BY <1>0, <2>5
    <3>2. NextBoot' = Inactive
      BY <2>5, <3>1 DEF NextBoot
    <3> QED BY <1>0, <2>1, <2>2, <2>5, <3>1, <3>2 DEF Alive
  <2> QED BY <1>5, <2>3, <2>4, <2>5
      DEF InstallerStep, SwitchSlot, RaucStep, RaucProgress, RaucVerifies, RaucErases,
          RaucWrites, RaucRecords, RaucActivates, RaucFails, RaucCrashes, MarkActive, grubenv
<1>6. CASE CheckHealth
  <2>1. UNCHANGED <<power, default>> /\ Up /\ Up' /\ power' # "menu" /\ power' # "grub"
    BY <1>6 DEF CheckHealth, grubVars, Up
  <2>2. CASE MarkGood(booted) /\ health' = "Good"
    <3>1. /\ strikes' = 0 /\ UNCHANGED <<booted, order>>
          /\ ok' = [ok EXCEPT ![booted] = TRUE] /\ try' = [try EXCEPT ![booted] = 0]
      BY <1>6, <2>2 DEF CheckHealth, MarkGood
    <3>2. ok'[booted] /\ try'[booted] = 0 /\ ok'[Inactive] = ok[Inactive] /\ try'[Inactive] = try[Inactive]
      BY <1>0, <3>1
    <3>3. Alive(booted)'
      BY <3>1, <3>2 DEF Alive
    <3>4. order # booted => order = Inactive /\ try'[Inactive] = 0
      BY <1>0, <2>1, <3>2
    <3>5. NextBoot' = booted \/ (NextBoot' = Inactive /\ order = Inactive /\ ok'[Inactive])
      BY <1>0, <3>1, <3>2 DEF NextBoot, Other, Slot
    <3>6. Alive(NextBoot)'
      BY <3>1, <3>2, <3>3, <3>4, <3>5, <1>0 DEF Alive
    <3> QED BY <2>1, <3>1, <3>3, <3>4, <3>6
  <2>3. CASE UNCHANGED raucVars /\ health' # "Good"
    <3>1. UNCHANGED <<booted, order, try, ok, strikes>>
      BY <1>6, <2>3 DEF CheckHealth, raucVars, grubenv
    <3> QED BY <1>0, <2>1, <3>1 DEF NextBoot, Alive
  <2> QED BY <1>6, <2>2, <2>3, HealthMarks DEF CheckHealth
<1> QED BY <1>1, <1>2, <1>3, <1>4, <1>5, <1>6 DEF NextMachine

-----------------------------------------------------------------------------
(* What the status page says of the next boot.                             *)

(* GRUB's choice depends on nothing but its environment.                   *)
LEMMA ChoiceUnchanged ==
  UNCHANGED <<booted, order, try, ok>> => GrubChoice' = GrubChoice /\ Inactive' = Inactive
BY DEF GrubChoice, Selectable, Inactive

LEMMA HonestHolds == MInv /\ NextMachine => HonestInv'
<1> SUFFICES ASSUME MInv, NextMachine PROVE HonestInv'
  OBVIOUS
<1>0. /\ HonestInv /\ AtRest /\ TypeOK /\ TypeOKRauc /\ ReadSoFar /\ Undisturbed
      /\ booted \in Slot /\ order \in Slot /\ Inactive \in Slot
      /\ Inactive # booted /\ Other(Inactive) = booted /\ Other(booted) = Inactive
      /\ try \in [Slot -> 0..3] /\ ok \in [Slot -> BOOLEAN]
      /\ order \in {booted, Inactive} /\ seen \in Seen /\ "none" \notin Slot
  BY SlotFacts DEF MInv, IInv, TypeOKRauc, TypeOK, Slot
<1> USE DEF HonestInv
<1>1. CASE Select
  BY <1>0, <1>1 DEF Select, GrubSelects, serviceVars, Up
<1>2. CASE Boot \/ BootChosen
  <2>1. UNCHANGED serviceVars /\ initial_state
    BY <1>0, <1>2 DEF Boot, BootChosen, BootDefault, BootByHand, AtRest, Up
  <2>2. /\ pc' = "primary" /\ seen'.primary = "none" /\ system_status' = "UpToDate"
        /\ Inactive' # "none"
    BY <2>1 DEF initial_state, Unseen, serviceVars, Inactive, Other
  <2> QED BY <2>2 DEF Checking
<1>3. CASE PowerOff
  BY <1>3 DEF PowerOff, Volatile, Unseen, Checking, Up
<1>4. CASE UpdateStep
  <2>1. /\ UNCHANGED <<booted, order, try, ok, power, health>> /\ Up /\ ServiceStep
        /\ GrubChoice' = GrubChoice /\ Inactive' = Inactive
    BY <1>4, ServiceLeavesSlots, ChoiceUnchanged DEF UpdateStep, grubVars
  <2>2. Honest' = Honest
    BY <2>1 DEF Honest
  <2>3. CASE ReadPrimary
    <3>1. PICK p \in GetPrimaryAnswers : seen' = [seen EXCEPT !.primary = p]
      BY <2>3 DEF ReadPrimary, ReadOne
    <3>2. /\ seen'.primary = p /\ (p = Inactive => GrubChoice = Inactive)
          /\ pc' = "booted" /\ UNCHANGED <<orphaned, system_status>>
      BY <1>0, <2>3, <3>1, SameChoice DEF ReadPrimary, ReadOne, Seen, GetPrimaryAnswers
    <3> QED BY <1>0, <2>1, <2>2, <3>2 DEF Honest, Checking
  <2>4. CASE ReadBooted \/ ReadLatest \/ ReadStatus
    <3>1. /\ seen'.primary = seen.primary /\ pc' \in Checking
          /\ (pc' \in {"latest", "status", "slot"} => seen'.booted = booted)
          /\ UNCHANGED <<orphaned, system_status>>
      BY <1>0, <2>1, <2>4 DEF ReadBooted, ReadLatest, ReadStatus, ReadOne, Seen, Checking
    <3> QED BY <1>0, <2>1, <2>2, <3>1
  <2>5. CASE Decide
    <3> DEFINE info == [latest |-> seen.latest, booted |-> seen.status[booted],
                        inactive |-> seen.status[Inactive]]
               status == evaluate_version_info(seen.primary, seen.booted, info)
    <3>1. /\ pc = "slot" /\ pc' \notin {"latest", "status", "slot"} /\ seen' = Unseen
          /\ system_status' = status
          /\ orphaned' = (orphaned /\ (Busy \/ seen.status # recorded \/ seen.primary # GetPrimary))
      BY <2>5 DEF Decide, EnterSleep
    <3>2. status = "RebootRequired" => seen.primary # "none" /\ seen.primary # seen.booted
      BY DEF evaluate_version_info
    <3>3. seen.primary \in Slot \cup {"none"} /\ seen.booted = booted
      BY <1>0, <2>1, <3>1 DEF Seen
    <3> HIDE DEF status
    <3>4. status = "RebootRequired" => seen.primary = Inactive
      BY <1>0, <3>2, <3>3, SlotFacts
    <3>5. ~orphaned' /\ orphaned => seen.primary = GrubChoice
      BY <1>0, <3>1, SameChoice
    <3>6. ~orphaned' /\ status = "RebootRequired" => Honest
      BY <1>0, <2>1, <3>4, <3>5 DEF Honest
    <3>7. seen'.primary = "none"
      BY <3>1 DEF Unseen
    <3> QED BY <1>0, <2>1, <2>2, <3>1, <3>6, <3>7
  <2>6. CASE CheckFails
    <3>1. pc' = "sleep" /\ seen'.primary = "none" /\ system_status' = "ErrorGettingVersionInfo"
      BY <2>6 DEF CheckFails, EnterSleep, Unseen
    <3> QED BY <1>0, <2>1, <3>1
  <2>7. CASE WakeUp
    <3>1. pc' = "primary" /\ UNCHANGED <<seen, orphaned, system_status>>
      BY <2>7 DEF WakeUp
    <3> QED BY <1>0, <2>1, <2>2, <3>1 DEF Checking
  <2>8. CASE Download \/ DownloadFails \/ CallInstall \/ InstallSucceeds \/ InstallFails
    <3>1. /\ pc \notin Checking /\ pc' \notin {"latest", "status", "slot"} /\ UNCHANGED <<seen, orphaned>>
          /\ (system_status' = system_status \/ system_status' # "RebootRequired")
      BY <2>8 DEF Download, DownloadAs, DownloadFails, CallInstall, InstallSucceeds, InstallFails,
                  EnterSleep, Checking
    <3>2. seen'.primary = "none"
      BY <1>0, <3>1
    <3> QED BY <1>0, <2>1, <2>2, <3>1, <3>2
  <2> QED BY <2>1, <2>3, <2>4, <2>5, <2>6, <2>7, <2>8 DEF ServiceStep, Check
<1>5. CASE InstallerStep
  <2>1. Busy /\ UNCHANGED <<booted, serviceVars>>
    BY <1>5 DEF InstallerStep, RaucStep, RaucProgress, RaucVerifies, RaucErases, RaucWrites,
                RaucRecords, RaucActivates, RaucFails, RaucCrashes, Advance, Busy
  <2>2. UNCHANGED <<pc, seen, system_status, orphaned, power>> /\ Inactive' = Inactive
    BY <1>5, <2>1 DEF serviceVars, Inactive, InstallerStep, grubVars
  <2>3. ~orphaned => pc = "completed" /\ seen.primary = "none" /\ system_status = "NeedsUpdate"
    BY <1>0, <2>1 DEF Undisturbed, ReadSoFar, Checking
  <2> QED BY <1>0, <2>1, <2>2, <2>3 DEF Up
<1>6. CASE CheckHealth
  <2>1. UNCHANGED <<pc, seen, system_status, orphaned, power>>
    BY <1>6 DEF CheckHealth, serviceVars, grubVars
  <2>2. CASE MarkGood(booted) /\ health = "MarkingAsGood" /\ health' = "Good"
    <3>1. /\ UNCHANGED <<booted, order>> /\ Inactive' = Inactive
          /\ ok' = [ok EXCEPT ![booted] = TRUE] /\ try' = [try EXCEPT ![booted] = 0]
      BY <2>2 DEF MarkGood, Inactive
    <3>2. /\ ok'[booted] /\ try'[booted] = 0 /\ ok'[Inactive] = ok[Inactive]
          /\ try'[Inactive] = try[Inactive]
      BY <1>0, <3>1
    <3>3. Honest => Honest'
      <4>1. CASE order = booted
        BY <2>2, <3>1, <4>1 DEF Honest
      <4>2. CASE order = Inactive
        <5>1. Honest => Selectable(Inactive)
          BY <1>0, <4>2 DEF Honest, GrubChoice
        <5>2. Selectable(Inactive) => Selectable(Inactive)'
          BY <3>1, <3>2 DEF Selectable
        <5> QED BY <3>1, <4>2, <5>1, <5>2 DEF Honest, GrubChoice
      <4> QED BY <1>0, <4>1, <4>2
    <3> QED BY <1>0, <2>1, <3>1, <3>3 DEF Up
  <2>3. CASE UNCHANGED raucVars /\ health # "Good"
    <3>1. UNCHANGED <<booted, order>> /\ GrubChoice' = GrubChoice /\ Inactive' = Inactive
      BY <2>3, ChoiceUnchanged DEF raucVars, grubenv
    <3>2. Honest => Honest'
      BY <2>3, <3>1 DEF Honest
    <3> QED BY <1>0, <2>1, <3>1, <3>2 DEF Up
  <2> QED BY <1>6, <2>2, <2>3, HealthMarks DEF CheckHealth
<1>7. CASE RestartController
  <2>1. /\ pc' = "primary" /\ seen'.primary = "none" /\ system_status' = "UpToDate"
        /\ Inactive' # "none"
    BY <1>7 DEF RestartController, RestartService, Unseen, Inactive, Other
  <2> QED BY <2>1 DEF Checking
<1>8. CASE Release \/ OpenStatusPage
  <2>1. UNCHANGED <<booted, order, try, ok, pc, seen, system_status, orphaned, power, health>>
    BY <1>8 DEF Release, Publish, OpenStatusPage, vars, raucVars, grubenv, serviceVars, grubVars
  <2> QED BY <1>0, <2>1, ChoiceUnchanged DEF Honest, Up
<1>9. CASE SwitchSlot
  <2>1. /\ UNCHANGED <<booted, pc, seen, system_status, orphaned, power>> /\ Inactive' = Inactive
        /\ order' = Inactive /\ ok' = [ok EXCEPT ![Inactive] = TRUE]
        /\ try' = [try EXCEPT ![Inactive] = 0]
    BY <1>9 DEF SwitchSlot, MarkActive, serviceVars, grubVars, Inactive
  <2>2. Honest'
    BY <1>0, <2>1 DEF Honest, GrubChoice, Selectable
  <2> QED BY <1>0, <2>1, <2>2 DEF Up
<1> QED BY <1>1, <1>2, <1>3, <1>4, <1>5, <1>6, <1>7, <1>8, <1>9 DEF NextMachine

-----------------------------------------------------------------------------
(* The invariant of the machine is inductive.                              *)

LEMMA MachineStutterHolds == MInv /\ UNCHANGED machineVars => MInv'
<1> SUFFICES ASSUME MInv, UNCHANGED machineVars PROVE MInv'
  OBVIOUS
<1> USE DEF MInv, machineVars, grubVars, userVars
<1>1. IInv'
  BY StutterHolds
<1>2. TypeOfMachine' /\ AtRest'
  BY DEF TypeOfMachine, TypeOKGrub, AtRest, Up, vars, raucVars, serviceVars, initial_state
<1> USE DEF vars, raucVars, grubenv, slotVars, serviceVars
<1>3. TornInv'
  BY DEF TornInv, TornOnlyByChoice, Up, Inactive
<1>4. StrikesInv'
  BY DEF StrikesInv, Alive, NextBoot, Up, MenuAfterThreeStrikes
<1>5. HonestInv'
  BY ChoiceUnchanged DEF HonestInv, Honest, Up
<1> QED BY <1>1, <1>2, <1>3, <1>4, <1>5

LEMMA MachineStepHolds == MInv /\ [NextMachine]_machineVars => MInv'
BY ServiceHolds, MachineTyped, TornHolds, StrikesHold, HonestHolds, MachineStutterHolds DEF MInv

(* In every state of the machine, through power failures, restarts and     *)
(* whatever the user does, the machine's invariant holds.                  *)
THEOREM MachineInductive == SpecMachine => []MInv
<1>1. InitMachine => MInv
  BY InitMachineHolds
<1>2. MInv /\ [NextMachine]_machineVars => MInv'
  BY MachineStepHolds
<1> QED BY <1>1, <1>2, PTL DEF SpecMachine

(* Every variable of the machine keeps its type.                           *)
THEOREM TypeCorrectMachine == SpecMachine => []TypeOKMachine
<1>1. MInv => TypeOKMachine
  BY DEF MInv, IInv, TypeOfMachine, TypeOKMachine
<1> QED BY <1>1, MachineInductive, PTL

(* What RAUC marks before it touches a slot, and in which order, keeps GRUB*)
(* from starting a half-written image on its own account.                  *)
THEOREM TornIsNeverStarted == SpecMachine => []TornOnlyByChoice
<1>1. MInv => TornOnlyByChoice
  BY DEF MInv, TornInv
<1> QED BY <1>1, MachineInductive, PTL

(* The attempts GRUB counts and RAUC gives back never run out before three *)
(* boots in a row were not marked good.                                    *)
THEOREM MenuIsEarned == SpecMachine => []MenuAfterThreeStrikes
<1>1. MInv => MenuAfterThreeStrikes
  BY DEF MInv, StrikesInv
<1> QED BY <1>1, MachineInductive, PTL

(* When the page asks for a reboot, the other slot is what GRUB starts.    *)
THEOREM RebootCallsAreHonest == SpecMachine => []RebootCallIsHonest
<1>1. MInv => RebootCallIsHonest
  <2> SUFFICES ASSUME MInv, Up, system_status = "RebootRequired", ~orphaned,
                      order # booted \/ health # "Good"
               PROVE  GrubChoice = Inactive /\ (image[Inactive] # Torn \/ Inactive \in picked)
    BY DEF RebootCallIsHonest
  <2>1. GrubChoice = Inactive
    BY DEF MInv, HonestInv, Honest
  <2>2. Inactive \in Slot /\ ok[Inactive]
    BY <2>1, SlotFacts DEF GrubChoice, Selectable, Slot
  <2> QED BY <2>1, <2>2 DEF MInv, TornInv, TornOnlyByChoice
<1> QED BY <1>1, MachineInductive, PTL

(* The update service keeps its promises on a machine that loses power and *)
(* restarts, not only on one that stays up.                                *)
THEOREM ServiceSurvivesPower ==
  SpecMachine => [](/\ NoRedundantInstall /\ SuccessMeansInstalled
                    /\ VersionInfoIsFresh /\ NoCompleteBundleLeft)
<1>1. MInv => /\ NoRedundantInstall /\ SuccessMeansInstalled
              /\ VersionInfoIsFresh /\ NoCompleteBundleLeft
  BY DEF MInv, IInv, Undisturbed, NoRedundantInstall
<1> QED BY <1>1, MachineInductive, PTL

-----------------------------------------------------------------------------
(* What RAUC writes.  The service calls it with a version newer than the   *)
(* running one, which no installation can change; and newer than what is   *)
(* recorded of both slots, unless an orphaned installation records another.*)

BootedInv ==
  /\ pc = "slot" => seen.status[booted] = recorded[booted]
  /\ pc \in {"download", "install"} => recorded[booted] < target
  /\ Busy => recorded[booted] < installer.version

NewerInv ==
  ~orphaned /\ installer.phase \in {"verify", "erase", "write", "record"} =>
    \A s \in Slot : recorded[s] < installer.version

ForwardInv == BootedInv /\ NewerInv

WritesNewer ==
  image' # image =>
    /\ recorded[booted] < installer.version
    /\ ~orphaned => recorded[Inactive] < installer.version

(* Whatever leaves the installation and the records alone, or ends it.     *)
LEMMA NewerKept ==
  /\ NewerInv
  /\ recorded' = recorded /\ (installer' = installer \/ installer' = Idle)
  /\ orphaned' = orphaned \/ ~Busy \/ installer' = Idle
  => NewerInv'
BY DEF NewerInv, Idle, Busy

(* The running version is known for good once it was read.                 *)
LEMMA BootedKept ==
  /\ BootedInv
  /\ booted' = booted /\ recorded' = recorded
  /\ installer' = installer \/ installer' = Idle
  /\ pc' = "slot" => (pc = "slot" /\ seen' = seen) \/ seen'.status[booted] = recorded[booted]
  /\ pc' \in {"download", "install"} => pc \in {"download", "install"} /\ target' = target
  => BootedInv'
BY DEF BootedInv, Idle, Busy

LEMMA DecideForward == IInv /\ ForwardInv /\ Decide => ForwardInv'
<1> SUFFICES ASSUME IInv, ForwardInv, Decide PROVE ForwardInv'
  OBVIOUS
<1> DEFINE info == [latest |-> seen.latest, booted |-> seen.status[booted],
                    inactive |-> seen.status[Inactive]]
           status == evaluate_version_info(seen.primary, seen.booted, info)
<1>1. booted \in Slot /\ Inactive \in Slot /\ orphaned \in BOOLEAN
  BY OtherSlot DEF IInv, TypeOK, TypeOKRauc, Inactive
<1>2. pc = "slot" /\ seen.latest \in Version /\ seen.status \in [Slot -> Version]
  BY DEF Decide, IInv, ReadSoFar
<1>3. info \in VersionInfo
  BY <1>1, <1>2 DEF VersionInfo
<1>4. status = "NeedsUpdate" => info.booted < info.latest
  BY <1>3, Verdict
<1>5. /\ UNCHANGED <<booted, recorded, installer>>
      /\ \/ status = "NeedsUpdate" /\ pc' = "download" /\ target' = seen.latest
         \/ pc' = "sleep"
      /\ orphaned' = (orphaned /\ (Busy \/ seen.status # recorded \/ seen.primary # GetPrimary))
  BY DEF Decide, EnterSleep, raucVars, slotVars
<1>6. NewerInv'
  <2>1. ~Busy \/ orphaned' = orphaned
    BY <1>1, <1>5
  <2> QED BY <1>5, <2>1, NewerKept DEF ForwardInv
<1>7. info.booted = recorded[booted] /\ info.latest = seen.latest
  BY <1>2 DEF ForwardInv, BootedInv
<1> HIDE DEF info, status
<1>8. BootedInv'
  BY <1>2, <1>4, <1>5, <1>7 DEF ForwardInv, BootedInv, Busy
<1> QED BY <1>6, <1>8 DEF ForwardInv

LEMMA CallInstallForward == IInv /\ ForwardInv /\ CallInstall => ForwardInv'
<1> SUFFICES ASSUME IInv, ForwardInv, CallInstall PROVE ForwardInv'
  OBVIOUS
<1>1. /\ pc = "install" /\ pc' = "completed" /\ UNCHANGED <<booted, recorded, orphaned>>
      /\ installer' = [phase |-> "verify", version |-> target, sound |-> bundle[target] = "whole"]
  BY DEF CallInstall, Install, slotVars
<1>2. ~orphaned => \A s \in Slot : recorded[s] < target
  BY <1>1 DEF IInv, Undisturbed
<1>3. recorded[booted] < target
  BY <1>1 DEF ForwardInv, BootedInv
<1> QED BY <1>1, <1>2, <1>3 DEF ForwardInv, NewerInv, BootedInv, Busy

LEMMA ServiceForward == IInv /\ ForwardInv /\ ServiceStep => ForwardInv'
<1> SUFFICES ASSUME IInv, ForwardInv, ServiceStep PROVE ForwardInv'
  OBVIOUS
<1>1. CASE Decide
  BY <1>1, DecideForward
<1>2. CASE CallInstall
  BY <1>2, CallInstallForward
<1>3. CASE ServiceStep /\ ~Decide /\ ~CallInstall
  <2>1. UNCHANGED <<booted, recorded, installer, orphaned>>
    BY <1>3 DEF ServiceStep, Check, ReadPrimary, ReadBooted, ReadLatest, ReadStatus, ReadOne,
       CheckFails, WakeUp, Download, DownloadAs, DownloadFails, InstallSucceeds, InstallFails,
       raucVars, grubenv, slotVars
  <2>2. pc' = "slot" => seen'.status[booted] = recorded[booted]
    <3>1. CASE ReadStatus
      BY <3>1 DEF ReadStatus, ReadOne, IInv, TypeOK, Seen
    <3>2. CASE ~ReadStatus
      BY <1>3, <3>2 DEF ServiceStep, Check, ReadPrimary, ReadBooted, ReadLatest, ReadOne,
         CheckFails, WakeUp, Download, DownloadAs, DownloadFails, InstallSucceeds, InstallFails,
         EnterSleep
    <3> QED BY <3>1, <3>2
  <2>3. pc' \in {"download", "install"} => pc \in {"download", "install"} /\ target' = target
    BY <1>3 DEF ServiceStep, Check, ReadPrimary, ReadBooted, ReadLatest, ReadStatus, ReadOne,
       CheckFails, WakeUp, Download, DownloadAs, DownloadFails, InstallSucceeds, InstallFails,
       EnterSleep
  <2> QED BY <2>1, <2>2, <2>3, NewerKept, BootedKept DEF ForwardInv
<1> QED BY <1>1, <1>2, <1>3

LEMMA RaucForward == IInv /\ ForwardInv /\ RaucStep => ForwardInv' /\ WritesNewer
<1> SUFFICES ASSUME IInv, ForwardInv, RaucStep PROVE ForwardInv' /\ WritesNewer
  OBVIOUS
<1>1. /\ UNCHANGED <<orphaned, pc, seen, target>>
      /\ installer \in [phase: Phase, version: Version \cup {None}, sound: BOOLEAN]
      /\ recorded \in [Slot -> Version]
      /\ booted \in Slot /\ Inactive \in Slot /\ Inactive # booted
  BY OtherSlot DEF RaucStep, serviceVars, IInv, TypeOK, TypeOKRauc, Inactive
<1>2. /\ Busy /\ booted' = booted
      /\ installer' = Idle \/ installer'.version = installer.version
  BY <1>1 DEF RaucStep, RaucProgress, RaucVerifies, RaucErases, RaucWrites, RaucRecords,
     RaucActivates, RaucFails, RaucCrashes, Advance, Busy
<1>3. recorded'[booted] = recorded[booted] /\ (pc = "slot" => recorded'[booted] = recorded[booted])
  BY <1>1 DEF RaucStep, RaucProgress, RaucVerifies, RaucErases, RaucWrites, RaucRecords,
     RaucActivates, RaucFails, RaucCrashes, slotVars
<1>4. BootedInv'
  BY <1>1, <1>2, <1>3 DEF ForwardInv, BootedInv, Busy, Idle
<1>5. NewerInv' /\ WritesNewer
  <2> USE DEF ForwardInv, BootedInv, NewerInv, WritesNewer, Advance, grubenv, slotVars
  <2>1. CASE RaucVerifies
    BY <1>1, <2>1 DEF RaucVerifies
  <2>2. CASE RaucErases \/ RaucWrites
    BY <1>1, <1>2, <2>2 DEF RaucErases, RaucWrites
  <2>3. CASE RaucRecords
    BY <1>1, <2>3 DEF RaucRecords
  <2>4. CASE RaucActivates \/ RaucFails \/ RaucCrashes
    BY <1>1, <2>4 DEF RaucActivates, RaucFails, RaucCrashes, Idle
  <2> QED BY <2>1, <2>2, <2>3, <2>4 DEF RaucStep, RaucProgress
<1> QED BY <1>4, <1>5 DEF ForwardInv

LEMMA RestartForward == IInv /\ ForwardInv /\ RestartService => ForwardInv'
<1> SUFFICES ASSUME IInv, ForwardInv, RestartService PROVE ForwardInv'
  OBVIOUS
<1>1. /\ UNCHANGED <<booted, recorded, installer>> /\ orphaned' = (orphaned \/ Busy)
      /\ pc' = "primary"
  BY DEF RestartService, raucVars, slotVars
<1>2. NewerInv'
  <2>1. CASE Busy
    <3>1. orphaned'
      BY <1>1, <2>1 DEF Busy
    <3> QED BY <3>1 DEF NewerInv
  <2> QED BY <1>1, <2>1, NewerKept DEF ForwardInv
<1> QED BY <1>1, <1>2, BootedKept DEF ForwardInv

LEMMA ForwardHolds ==
  IInv /\ ForwardInv /\ [Next]_vars => ForwardInv' /\ WritesNewer
<1> SUFFICES ASSUME IInv, ForwardInv, [Next]_vars PROVE ForwardInv' /\ WritesNewer
  OBVIOUS
<1>1. CASE ServiceStep
  BY <1>1, ServiceForward, ServiceLeavesSlots DEF WritesNewer
<1>2. CASE RestartService
  BY <1>2, RestartForward DEF WritesNewer, RestartService, raucVars, slotVars
<1>3. CASE RaucStep
  BY <1>3, RaucForward
<1>4. CASE Publish \/ MarkBootedGood \/ UNCHANGED vars
  <2>1. UNCHANGED <<image, recorded, installer, orphaned, booted, pc, seen, target>>
    BY <1>4 DEF Publish, MarkBootedGood, MarkGood, vars, raucVars, slotVars, serviceVars
  <2> QED BY <2>1, NewerKept, BootedKept DEF ForwardInv, WritesNewer
<1> QED BY <1>1, <1>2, <1>3, <1>4 DEF Next

(* RAUC never writes a version that is not newer than the running one,     *)
(* whatever the server advertises or withdraws meanwhile and however the   *)
(* controller is restarted in between; nor one that is not newer than what *)
(* the other slot holds, but for an orphaned installation no check has     *)
(* seen the outcome of.                                                    *)
THEOREM OnlyForward == Spec => OnlyNewerIsWritten
<1>1. Init => ForwardInv
  BY DEF Init, initial_state, ForwardInv, BootedInv, NewerInv, Busy, Idle
<1>2. IInv /\ ForwardInv /\ [Next]_vars => ForwardInv' /\ WritesNewer
  BY ForwardHolds
<1>3. WritesNewer => [image' # image =>
                        /\ recorded[booted] < installer.version
                        /\ ~orphaned => recorded[Inactive] < installer.version]_vars
  BY DEF WritesNewer
<1> QED BY <1>1, <1>2, <1>3, Inductive, PTL DEF Spec, OnlyNewerIsWritten

(* A power failure and whoever presses the buttons do not change that:     *)
(* another slot is started only when nothing is left of a check or of an   *)
(* installation.                                                           *)
LEMMA MachineForward ==
  MInv /\ ForwardInv /\ [NextMachine]_machineVars => ForwardInv' /\ WritesNewer
<1> SUFFICES ASSUME MInv, ForwardInv, [NextMachine]_machineVars PROVE ForwardInv' /\ WritesNewer
  OBVIOUS
<1>0. IInv
  BY DEF MInv
<1>1. CASE UpdateStep \/ InstallerStep \/ RestartController \/ Release
  BY <1>0, <1>1, ForwardHolds DEF UpdateStep, InstallerStep, RestartController, Release, Next
<1>2. CASE PowerOff
  <2>1. UNCHANGED <<slotVars, booted>> /\ installer' = Idle /\ pc' = "primary"
    BY <1>2 DEF PowerOff, Volatile
  <2> QED BY <2>1, NewerKept, BootedKept DEF ForwardInv, WritesNewer, slotVars
<1>3. CASE Select \/ Boot \/ BootChosen
  <2>1. UNCHANGED <<slotVars, installer, serviceVars>> /\ ~Up
    BY <1>3 DEF Select, GrubSelects, Boot, BootChosen, BootDefault, BootByHand, BootEntry, Up
  <2>2. pc = "primary" /\ ~Busy
    BY <2>1 DEF MInv, AtRest, initial_state, Idle, Busy
  <2>3. BootedInv'
    BY <2>1, <2>2 DEF BootedInv, Busy, serviceVars
  <2> QED BY <2>1, <2>3, NewerKept DEF ForwardInv, WritesNewer, slotVars, serviceVars
<1>4. CASE CheckHealth \/ OpenStatusPage \/ SwitchSlot \/ UNCHANGED machineVars
  <2>1. UNCHANGED <<slotVars, installer, orphaned, booted, pc, seen, target>>
    BY <1>4, HealthMarks DEF CheckHealth, MarkGood, OpenStatusPage, SwitchSlot, MarkActive,
       machineVars, vars, raucVars, serviceVars
  <2> QED BY <2>1, NewerKept, BootedKept DEF ForwardInv, WritesNewer, slotVars
<1> QED BY <1>1, <1>2, <1>3, <1>4 DEF NextMachine

(* The same on a machine that loses power, restarts its controller and is  *)
(* switched by hand: the running version is never lost sight of.           *)
THEOREM MachineOnlyForward == SpecMachine => OnlyNewerIsWritten
<1>1. InitMachine => ForwardInv
  BY DEF InitMachine, initial_state, ForwardInv, BootedInv, NewerInv, Busy, Idle
<1>2. MInv /\ ForwardInv /\ [NextMachine]_machineVars => ForwardInv' /\ WritesNewer
  BY MachineForward
<1>3. WritesNewer => [image' # image =>
                        /\ recorded[booted] < installer.version
                        /\ ~orphaned => recorded[Inactive] < installer.version]_vars
  BY DEF WritesNewer
<1> QED BY <1>1, <1>2, <1>3, MachineInductive, PTL DEF SpecMachine, OnlyNewerIsWritten

-----------------------------------------------------------------------------
(* A machine nobody interferes with.  Only a boot takes an attempt from a  *)
(* slot, and a slot that holds a good system gets it back before the next. *)

BeingTried(s) == (power = "grub" /\ default = s) \/ (Up /\ booted = s)
CalmInv ==
  /\ picked = {}
  /\ ~Up => health = "Pending"
  /\ Up /\ health = "Good" => try[booted] = 0
  /\ \A s \in Slot :
       ok[s] /\ image[s] \notin BadVersion => try[s] = 0 \/ BeingTried(s)
  /\ MenuMeansNoFallback

LEMMA CalmIsMachine == NextCalm => NextMachine
BY DEF NextCalm, NextMachine, ResetUnhealthy, RebootWhenAsked

LEMMA CalmHolds == MInv /\ CalmInv /\ [NextCalm]_machineVars => CalmInv'
<1> SUFFICES ASSUME MInv, CalmInv, [NextCalm]_machineVars PROVE CalmInv'
  OBVIOUS
<1>0. /\ TornInv /\ TypeOKRauc /\ booted \in Slot /\ order \in Slot /\ Inactive \in Slot
      /\ Inactive # booted /\ try \in [Slot -> 0..3] /\ ok \in [Slot -> BOOLEAN]
      /\ (power = "grub" <=> default \in Slot)
  BY SlotFacts DEF MInv, TypeOKRauc, TypeOfMachine, TypeOKGrub
<1>a. \A s \in Slot : ok[s] => image[s] # Torn
  BY <1>0 DEF CalmInv, TornInv, TornOnlyByChoice
<1> USE DEF CalmInv, MenuMeansNoFallback, FallbackLost, BeingTried
<1>1. CASE Select
  <2>1. /\ power = "off" /\ ~Up /\ ~Up' /\ default' = GrubChoice
        /\ UNCHANGED <<booted, ok, image, health, picked>>
    BY <1>1 DEF Select, GrubSelects, slotVars, Up
  <2>2. \A s \in Slot : ok[s] /\ image[s] \notin BadVersion => try[s] = 0
    BY <2>1
  <2>3. CASE GrubChoice = "none"
    <3>1. UNCHANGED try /\ power' = "menu"
      BY <1>1, <2>3 DEF Select, GrubSelects
    <3>2. \A s \in Slot : ~Selectable(s)
      BY <1>0, <2>3, OtherSlot DEF GrubChoice, Slot, Other
    <3>3. FallbackLost
      BY <2>2, <3>2 DEF Selectable
    <3> QED BY <2>1, <2>2, <3>1, <3>3
  <2>4. CASE GrubChoice # "none"
    <3>1. power' = "grub" /\ try' = [try EXCEPT ![GrubChoice] = Increment(@)]
      BY <1>1, <2>4 DEF Select, GrubSelects
    <3>2. \A s \in Slot : s # GrubChoice => try'[s] = try[s]
      BY <1>0, <3>1
    <3> QED BY <2>1, <2>2, <3>1, <3>2
  <2> QED BY <2>3, <2>4
<1>2. CASE Boot
  <2>1. /\ power = "grub" /\ ~Up /\ UNCHANGED <<try, ok, image, health, picked>>
        /\ \/ image[default] = Torn /\ power' = "off"
           \/ power' = "up" /\ booted' = default
    BY <1>2 DEF Boot, BootDefault, BootEntry, slotVars, userVars, Up
  <2>2. default \in Slot
    BY <1>0, <2>1
  <2>3. power' # "menu" /\ (Up' <=> power' = "up")
    BY <2>1 DEF Up
  <2> QED BY <1>a, <2>1, <2>2, <2>3
<1>3. CASE ResetUnhealthy \/ RebootWhenAsked
  <2>1. /\ Up /\ ~Up' /\ power' = "off" /\ power # "grub" /\ health' = "Pending"
        /\ UNCHANGED <<try, ok, image, picked>>
    BY <1>3 DEF ResetUnhealthy, RebootWhenAsked, PowerOff, Volatile, grubenv, slotVars, Up
  <2>2. image[booted] \in BadVersion \/ try[booted] = 0
    BY <1>3, <2>1 DEF ResetUnhealthy, RebootWhenAsked
  <2> QED BY <2>1, <2>2
<1>4. CASE UpdateStep \/ Release \/ UNCHANGED machineVars
  <2>1. UNCHANGED <<booted, try, ok, image, power, default, health, picked>>
    BY <1>4, ServiceLeavesSlots DEF UpdateStep, Release, Publish, machineVars, vars, raucVars,
       grubenv, slotVars, grubVars, userVars
  <2> QED BY <2>1 DEF Up
<1>5. CASE InstallerStep
  <2>1. /\ UNCHANGED <<booted, power, default, health>> /\ Up /\ Up' /\ power' # "menu"
        /\ picked' = {}
    BY <1>5 DEF InstallerStep, RaucStep, RaucProgress, RaucVerifies, RaucErases,
       RaucWrites, RaucRecords, RaucActivates, RaucFails, RaucCrashes, grubVars, Up
  <2>2. /\ try'[booted] = try[booted] /\ ok'[booted] = ok[booted] /\ image'[booted] = image[booted]
        /\ \/ ~ok'[Inactive] \/ try'[Inactive] = 0
           \/ UNCHANGED <<try, ok, image>>
    <3> USE <1>0 DEF TypeOKRauc, TornInv, grubenv, slotVars, Advance
    <3>1. CASE RaucVerifies \/ RaucActivates
      BY <3>1 DEF RaucVerifies, RaucActivates
    <3>2. CASE RaucErases \/ RaucWrites
      BY <3>2 DEF RaucErases, RaucWrites
    <3>3. CASE RaucRecords \/ RaucFails \/ RaucCrashes
      BY <3>3 DEF RaucRecords, RaucFails, RaucCrashes
    <3> QED BY <1>5, <3>1, <3>2, <3>3 DEF InstallerStep, RaucStep, RaucProgress
  <2> QED BY <2>1, <2>2, SlotFacts
<1>6. CASE CheckHealth
  <2>1. UNCHANGED <<power, default, picked>> /\ Up /\ Up' /\ power' # "menu"
    BY <1>6 DEF CheckHealth, grubVars, Up
  <2>2. CASE MarkGood(booted)
    <3>1. UNCHANGED <<booted, image>> /\ try'[booted] = 0
          /\ ok'[Inactive] = ok[Inactive] /\ try'[Inactive] = try[Inactive]
      BY <1>0, <2>2 DEF MarkGood, slotVars
    <3> QED BY <2>1, <3>1, SlotFacts
  <2>3. CASE UNCHANGED raucVars /\ health' # "Good"
    BY <2>1, <2>3 DEF raucVars, grubenv, slotVars
  <2> QED BY <1>6, <2>2, <2>3, HealthMarks DEF CheckHealth
<1> QED BY <1>1, <1>2, <1>3, <1>4, <1>5, <1>6 DEF NextCalm

(* However many updates turn out bad, and whatever is published while the  *)
(* machine falls back, it does not end at GRUB's menu with a good system   *)
(* still bootable on one of its slots.                                     *)
THEOREM FallbackKeepsAnAttempt == SpecCalm => []MenuMeansNoFallback
<1>1. InitMachine => MInv /\ CalmInv
  BY InitMachineHolds
  DEF InitMachine, CalmInv, MenuMeansNoFallback, BeingTried, Up
<1>2. MInv /\ CalmInv /\ [NextCalm]_machineVars => MInv' /\ CalmInv'
  BY MachineStepHolds, CalmIsMachine, CalmHolds
<1>3. CalmInv => MenuMeansNoFallback
  BY DEF CalmInv
<1> QED BY <1>1, <1>2, <1>3, PTL DEF SpecCalm

-----------------------------------------------------------------------------
(* The machine is an A/B system.                                           *)

Lives == [s \in Slot |-> IF ok[s] THEN 3 - try[s] ELSE 0]

(* What the mapping sees: unchanged marks are unchanged lives.             *)
LEMMA SameSlots ==
  UNCHANGED <<order, try, ok, image, booted, power, default>> => UNCHANGED AB!abVars
BY DEF AB!abVars, Up

LEMMA InitIsAB == InitMachine => AB!InitAB
<1> SUFFICES ASSUME InitMachine PROVE AB!InitAB
  OBVIOUS
<1>1. /\ power = "off" /\ default = "none" /\ order = "a"
      /\ try = [s \in Slot |-> 0] /\ ok = [s \in Slot |-> TRUE]
      /\ \E v \in Version : image = [s \in Slot |-> v]
  BY DEF InitMachine
<1>2. [s \in Slot |-> IF ok[s] THEN 3 - try[s] ELSE 0] = [s \in AB!ASlot |-> AB!MaxLives]
  BY <1>1 DEF AB!ASlot, AB!MaxLives, Slot
<1> QED BY <1>1, <1>2 DEF AB!InitAB, AB!ASlot, Up, Slot

(* A mark gives the slot its lives back or takes them, and leaves the other*)
(* slot be.                                                                *)
LEMMA LivesRestored ==
  TypeOKRauc => \A s \in Slot :
    ok' = [ok EXCEPT ![s] = TRUE] /\ try' = [try EXCEPT ![s] = 0]
      => Lives' = [Lives EXCEPT ![s] = 3]
<1> SUFFICES ASSUME TypeOKRauc, NEW s \in Slot,
                    ok' = [ok EXCEPT ![s] = TRUE], try' = [try EXCEPT ![s] = 0]
             PROVE  Lives' = [Lives EXCEPT ![s] = 3]
  OBVIOUS
<1>1. ok \in [Slot -> BOOLEAN] /\ try \in [Slot -> 0..3]
  BY DEF TypeOKRauc
<1>2. Lives'[s] = 3
  BY <1>1 DEF Lives
<1>3. \A t \in Slot : t # s => Lives'[t] = Lives[t]
  BY <1>1 DEF Lives
<1> QED BY <1>2, <1>3 DEF Lives

LEMMA LivesLost ==
  TypeOKRauc => \A s \in Slot :
    ok' = [ok EXCEPT ![s] = FALSE] /\ try' = [try EXCEPT ![s] = 0]
      => Lives' = [Lives EXCEPT ![s] = 0]
BY DEF Lives, TypeOKRauc

LEMMA StepIsAB == MInv /\ NextMachine => [AB!NextAB]_(AB!abVars)
<1> SUFFICES ASSUME MInv, NextMachine PROVE AB!NextAB \/ UNCHANGED AB!abVars
  OBVIOUS
<1>0. /\ TornInv /\ AtRest /\ TypeOKRauc /\ booted \in Slot /\ order \in Slot /\ Inactive \in Slot
      /\ Inactive # booted /\ try \in [Slot -> 0..3] /\ ok \in [Slot -> BOOLEAN]
      /\ (power = "grub" <=> default \in Slot) /\ default \in Slot \cup {"none"}
      /\ "none" \notin Slot
  BY SlotFacts DEF MInv, TypeOKRauc, TypeOfMachine, TypeOKGrub, Slot
<1>s. AB!ASlot = Slot /\ AB!MaxLives = 3 /\ \A s \in Slot : AB!Opposite(s) = Other(s)
  BY DEF AB!ASlot, AB!MaxLives, AB!Opposite, Slot, Other
<1>1. CASE Select
  <2>1. /\ power = "off" /\ power' \in {"grub", "menu"} /\ default = "none" /\ default' = GrubChoice
        /\ UNCHANGED <<booted, order, ok, image>>
    BY <1>0, <1>1 DEF Select, GrubSelects, slotVars
  <2>2. CASE GrubChoice = "none"
    BY <1>1, <2>1, <2>2 DEF Select, GrubSelects, AB!abVars, Up
  <2>3. CASE GrubChoice # "none"
    <3>0. PICK s \in Slot : s = GrubChoice
      BY <1>0, <2>3, OtherSlot DEF GrubChoice
    <3>1. Selectable(s) /\ (s # order => ~Selectable(order))
      BY <1>0, <2>3, <3>0, OtherSlot DEF GrubChoice
    <3>2. try' = [try EXCEPT ![s] = Increment(@)] /\ default' = s
      BY <1>1, <2>1, <2>3, <3>0 DEF Select, GrubSelects
    <3>3. /\ Lives[s] > 0 /\ (s # order => Lives[order] = 0)
      BY <1>0, <3>1 DEF Lives, Selectable
    <3>4. Lives' = [Lives EXCEPT ![s] = @ - 1]
      <4>1. 3 - Increment(try[s]) = (3 - try[s]) - 1 /\ ok[s]
        BY <1>0, <3>1 DEF Selectable, Increment
      <4> QED BY <1>0, <2>1, <3>1, <3>2, <4>1 DEF Lives
    <3>5. AB!Pay(s)
      <4>1. ~Up /\ ~Up'
        BY <2>1 DEF Up
      <4> QED BY <2>1, <3>2, <3>3, <3>4, <4>1 DEF AB!Pay, Lives
    <3>6. \E t \in AB!ASlot : AB!Pay(t) \/ AB!Start(t)
      BY <3>5, <1>s, Zenon
    <3> QED BY <3>6 DEF AB!NextAB
  <2> QED BY <2>2, <2>3
<1>2. CASE Boot \/ BootChosen
  <2>1. PICK s \in Slot : BootEntry(s) /\ power \in {"grub", "menu"}
    BY <1>0, <1>2 DEF Boot, BootDefault, BootChosen, BootByHand
  <2>2. AB!Start(s)
    BY <2>1 DEF AB!Start, BootEntry, Up, slotVars
  <2> QED BY <2>2, <1>s DEF AB!NextAB
<1>3. CASE PowerOff
  BY <1>3 DEF PowerOff, grubenv, slotVars, AB!NextAB, AB!Stop, Up
<1>4. CASE UpdateStep \/ RestartController \/ Release \/ OpenStatusPage
  <2>1. UNCHANGED <<order, try, ok, image, booted, power, default>>
    BY <1>4, ServiceLeavesSlots DEF UpdateStep, RestartController, RestartService, Release, Publish,
       OpenStatusPage, vars, raucVars, grubenv, slotVars, grubVars, userVars
  <2> QED BY <2>1, SameSlots
<1>5. CASE InstallerStep
  <2>1. UNCHANGED <<booted, power, default>> /\ Up /\ Up' /\ AB!Opposite(booted) = Inactive
    BY <1>5, <1>0, <1>s DEF InstallerStep, RaucStep, RaucProgress, RaucVerifies, RaucErases,
       RaucWrites, RaucRecords, RaucActivates, RaucFails, RaucCrashes, grubVars, Up, Inactive
  <2>2. CASE RaucVerifies
    <3>1. Lives' = [Lives EXCEPT ![Inactive] = 0]
      BY <1>0, <2>2, LivesLost DEF RaucVerifies
    <3> QED BY <1>0, <2>1, <2>2, <3>1 DEF AB!NextAB, AB!Withdraw, RaucVerifies, slotVars, Lives
  <2>3. CASE RaucErases \/ RaucWrites
    <3>1. ~ok[Inactive] /\ UNCHANGED <<order, try, ok>>
      BY <1>0, <2>3 DEF RaucErases, RaucWrites, Advance, TornInv, grubenv
    <3>2. \E c \in Version \cup {Torn} : image' = [image EXCEPT ![Inactive] = c]
      BY <1>0, <2>3 DEF RaucErases, RaucWrites, Advance, TypeOKRauc, Busy
    <3> QED BY <1>0, <2>1, <3>1, <3>2 DEF AB!NextAB, AB!Rewrite
  <2>4. CASE RaucRecords \/ RaucFails \/ RaucCrashes
    BY <2>1, <2>4, SameSlots DEF RaucRecords, RaucFails, RaucCrashes, grubenv, slotVars
  <2>5. CASE RaucActivates
    <3>1. Lives' = [Lives EXCEPT ![Inactive] = 3] /\ order' = Inactive /\ image' = image
          /\ image[Inactive] # Torn
      BY <1>0, <2>5, LivesRestored DEF RaucActivates, slotVars, TornInv
    <3> QED BY <1>0, <1>s, <2>1, <3>1 DEF AB!NextAB, AB!Commit, AB!Prefer, Lives
  <2> QED BY <1>5, <2>2, <2>3, <2>4, <2>5 DEF InstallerStep, RaucStep, RaucProgress
<1>6. CASE CheckHealth
  <2>1. UNCHANGED <<power, default>> /\ Up /\ Up'
    BY <1>6 DEF CheckHealth, grubVars, Up
  <2>2. CASE MarkGood(booted)
    <3>1. Lives' = [Lives EXCEPT ![booted] = 3] /\ UNCHANGED <<booted, order, image>>
      BY <1>0, <2>2, LivesRestored DEF MarkGood, slotVars
    <3> QED BY <1>0, <1>s, <2>1, <3>1 DEF AB!NextAB, AB!Confirm, Lives
  <2>3. CASE UNCHANGED raucVars
    BY <2>1, <2>3, SameSlots DEF raucVars, grubenv, slotVars
  <2> QED BY <1>6, <2>2, <2>3, HealthMarks DEF CheckHealth
<1>7. CASE SwitchSlot
  <2>1. /\ Lives' = [Lives EXCEPT ![Inactive] = 3] /\ order' = Inactive
        /\ UNCHANGED <<booted, image, power, default>> /\ Up /\ Up'
        /\ AB!Opposite(booted) = Inactive
    BY <1>0, <1>s, <1>7, LivesRestored DEF SwitchSlot, MarkActive, slotVars, grubVars, Up, Inactive
  <2> QED BY <1>0, <1>s, <2>1 DEF AB!NextAB, AB!Choose, AB!Prefer, Lives
<1> QED BY <1>1, <1>2, <1>3, <1>4, <1>5, <1>6, <1>7 DEF NextMachine

(* Seen from the boot loader, the machine with all its processes implements*)
(* the A/B scheme: RAUC, GRUB, the health check and the page each take one *)
(* of its steps or none.                                                   *)
THEOREM MachineIsAB == SpecMachine => IsABSystem
<1>1. InitMachine => AB!InitAB
  BY InitIsAB
<1>2. MInv /\ [NextMachine]_machineVars => [AB!NextAB]_(AB!abVars)
  <2>1. CASE NextMachine
    BY <2>1, StepIsAB
  <2>2. CASE UNCHANGED machineVars
    BY <2>2, SameSlots DEF machineVars, vars, raucVars, grubenv, slotVars, grubVars
  <2> QED BY <2>1, <2>2
<1> QED BY <1>1, <1>2, MachineInductive, PTL DEF SpecMachine, IsABSystem, AB!SpecAB
=============================================================================
