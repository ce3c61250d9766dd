------------------------------- MODULE Machine -------------------------------
(***************************************************************************)
(* A whole PlayOS machine: the boot loader, the two slots with RAUC, and   *)
(* the controller with its update service, health check and status page,   *)
(* under power failures and controller restarts.                           *)
(***************************************************************************)
EXTENDS UpdateService, Grub, Health

VARIABLES
  switchOffered,  \* the status page open in the browser offers to switch slots
  strikes,        \* history: boots since a slot was last marked good
  picked          \* history: torn slots the user chose to start from

userVars    == <<switchOffered, strikes, picked>>
machineVars == <<vars, grubVars, health, userVars>>

(* More boots are not told apart; one started by hand weighs as many.      *)
MaxStrikes == 3

(* The type of every variable. *)
TypeOKMachine ==
  /\ TypeOK
  /\ TypeOKGrub
  /\ health \in HealthState
  /\ switchOffered \in BOOLEAN
  /\ strikes \in 0..MaxStrikes
  /\ picked \subseteq Slot

Up == power = "up"

-----------------------------------------------------------------------------
(* The status page. *)

suggests_switch ==
  \/ system_status \in {"OutOfDateVersionSelected", "ReinstallRequired"}
  \/ /\ system_status = "UpToDate"
     /\ version_info # None
     /\ version_info.booted # version_info.inactive

OpenStatusPage ==
  /\ Up
  /\ switchOffered' = suggests_switch
  /\ UNCHANGED <<vars, grubVars, health, strikes, picked>>

PickedBy(s) == picked \cup {t \in {s} : image[t] = Torn}

(* Marks the other slot active, whatever has happened since the page was   *)
(* opened; the reboot that follows is a PowerOff.                          *)
SwitchSlot ==
  /\ Up /\ switchOffered
  /\ MarkActive(Inactive)
  /\ picked' = PickedBy(Inactive)
  /\ UNCHANGED <<latest, serviceVars, grubVars, health, switchOffered, strikes>>

-----------------------------------------------------------------------------
(* Power.  What is in memory is lost; systemd clears the state directory   *)
(* before the controller starts again.                                     *)

Volatile ==
  /\ pc' = "primary" /\ duration' = "none" /\ target' = None
  /\ version_info' = None /\ system_status' = "UpToDate" /\ seen' = Unseen
  /\ bundle' = [v \in Version |-> "absent"]
  /\ orphaned' = FALSE
  /\ installer' = Idle /\ completed' = "none"
  /\ health' = "Pending" /\ switchOffered' = FALSE

PowerOff ==
  /\ power # "off"
  /\ power' = "off" /\ default' = "none"
  /\ Volatile
  /\ UNCHANGED <<booted, grubenv, slotVars, latest, strikes, picked>>

Select ==
  /\ GrubSelects
  /\ strikes' = IF power' = "grub" /\ strikes < MaxStrikes THEN strikes + 1 ELSE strikes
  /\ UNCHANGED <<latest, serviceVars, health, switchOffered, picked>>

Boot ==
  /\ BootDefault
  /\ UNCHANGED <<latest, serviceVars, health, userVars>>

BootChosen ==
  /\ \E s \in Slot : BootByHand(s)
  /\ strikes' = MaxStrikes
  /\ UNCHANGED <<latest, serviceVars, health, switchOffered, picked>>

-----------------------------------------------------------------------------
(* The controller's processes run while the machine is up. *)

UpdateStep ==
  /\ Up
  /\ ServiceStep
  /\ UNCHANGED <<grubVars, health, userVars>>

InstallerStep ==
  /\ Up
  /\ RaucStep
  /\ picked' = {s \in picked : ok'[s]}
  /\ UNCHANGED <<grubVars, health, switchOffered, strikes>>

CheckHealth ==
  /\ Up
  /\ HealthStep
  /\ strikes' = IF health' = "Good" THEN 0 ELSE strikes
  /\ UNCHANGED <<latest, serviceVars, grubVars, switchOffered, picked>>

(* An exception ends the main thread; systemd starts the controller again. *)
RestartController ==
  /\ Up
  /\ RestartService
  /\ health' = "Pending"
  /\ UNCHANGED <<grubVars, userVars>>

Release ==
  /\ Publish
  /\ UNCHANGED <<grubVars, health, userVars>>

(* A machine fresh from the installer, which writes one version to both    *)
(* slots, is switched off.                                                 *)
InitMachine ==
  /\ booted = "a" /\ order = "a"
  /\ try = [s \in Slot |-> 0] /\ ok = [s \in Slot |-> TRUE]
  /\ \E v \in Version \ BadVersion :
       image = [s \in Slot |-> v] /\ recorded = image /\ latest = v
  /\ installer = Idle /\ completed = "none"
  /\ initial_state /\ orphaned = FALSE
  /\ power = "off" /\ default = "none"
  /\ health = "Pending" /\ switchOffered = FALSE
  /\ strikes = 0 /\ picked = {}

NextMachine ==
  \/ Select \/ Boot \/ BootChosen \/ PowerOff
  \/ UpdateStep \/ InstallerStep \/ CheckHealth \/ RestartController
  \/ OpenStatusPage \/ SwitchSlot \/ Release

SpecMachine == InitMachine /\ [][NextMachine]_machineVars

-----------------------------------------------------------------------------
(* Safety. *)

(* GRUB never starts a half-written slot on its own account: whatever the  *)
(* point at which power failed or RAUC gave up, such a slot can only be    *)
(* bootable because the user switched to it afterwards.                    *)
TornOnlyByChoice == \A s \in Slot : image[s] = Torn /\ ok[s] => s \in picked

(* GRUB only gives up and waits at its menu after three boots in a row that*)
(* were not marked good, unless a slot was started by hand among them.     *)
MenuAfterThreeStrikes == power = "menu" => strikes = MaxStrikes

(* When the page asks for a reboot to switch to the new version, GRUB will *)
(* start the other slot and finds a complete image there.  Two exceptions: *)
(* the outcome of an installation that a controller restart orphaned, and  *)
(* a slot on its last attempt that was since marked good.                  *)
RebootCallIsHonest ==
  Up /\ system_status = "RebootRequired" /\ ~orphaned /\ (order # booted \/ health # "Good") =>
    GrubChoice = Inactive /\ (image[Inactive] # Torn \/ Inactive \in picked)

(* Seen from the boot loader, the machine is an A/B system: see ABSystem.  *)
AB == INSTANCE ABSystem WITH
  running <- IF Up THEN booted ELSE "none",
  armed   <- default,
  first   <- order,
  lives   <- [s \in Slot |-> IF ok[s] THEN 3 - try[s] ELSE 0],
  content <- image

IsABSystem == AB!SpecAB

-----------------------------------------------------------------------------
(* A machine nobody interferes with: power stays on, the user resets a     *)
(* system that does not get healthy, and reboots when the page asks for it,*)
(* but not before the running system was marked good: a system that was not*)
(* loses an attempt with every update, and after three it is not started.  *)
(* Everything in the controller may still fail.                            *)

ResetUnhealthy == Up /\ image[booted] \in BadVersion /\ PowerOff
RebootWhenAsked ==
  Up /\ system_status = "RebootRequired" /\ health = "Good" /\ PowerOff

NextCalm ==
  \/ Select \/ Boot \/ ResetUnhealthy \/ RebootWhenAsked
  \/ UpdateStep \/ InstallerStep \/ CheckHealth \/ Release

(* GRUB, Lwt and RAUC keep going; systemd does report a good system as     *)
(* running, and RAUC does take the mark, if asked often enough.            *)
FairnessCalm ==
  /\ WF_machineVars(Select) /\ WF_machineVars(Boot) /\ WF_machineVars(ResetUnhealthy)
  /\ WF_machineVars(UpdateStep) /\ WF_machineVars(InstallerStep)
  /\ WF_machineVars(CheckHealth)
  /\ SF_machineVars(CheckHealth /\ health' = "MarkingAsGood")
  /\ SF_machineVars(CheckHealth /\ health' = "Good")

SpecCalm == InitMachine /\ [][NextCalm]_machineVars /\ FairnessCalm

Healthy == Up /\ image[booted] \notin BadVersion /\ (health = "Good" \/ Busy)
FallbackLost == \A s \in Slot : image[s] \in BadVersion \/ ~ok[s]

(* A bad update costs three boots and is rolled back: the machine always   *)
(* gets back to a good system and marks it, unless RAUC is busy installing *)
(* beside it.  The exception: update.ml installs without asking whether the*)
(* running system is good, so a later release may take the place of the    *)
(* only good system, or be cut short there, and none is left to fall back  *)
(* to.                                                                     *)
RollsBack == []<>Healthy \/ <>[]FallbackLost

(* Such a machine only waits at the menu for a person if no slot it could  *)
(* start holds a good system: however often updates fail, and whatever is  *)
(* published while it falls back, its good system keeps an attempt.        *)
MenuMeansNoFallback == power = "menu" => FallbackLost

-----------------------------------------------------------------------------
(* What a comment of the repository says, and the code does not do.        *)

(* update.ml:93-95: an outdated system running beside an up to date one    *)
(* "was specifically selected for boot".  Nobody selects in SpecCalm.  (An *)
(* update RAUC recorded but could not activate is another matter.)         *)
OutOfDateWasSelected == system_status = "OutOfDateVersionSelected" => ~ok[Inactive]

=============================================================================
