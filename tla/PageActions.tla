----------------------------- MODULE PageActions -----------------------------
(* The actions of the status page that go through systemd, on one machine:   *)
(* the factory reset, the reboot, and the switch of the network watchdog,    *)
(* whose marker lies on the partition that a reset formats.                  *)
EXTENDS WatchdogSwitch, FactoryReset

pageVars == <<resetVars, switchVars>>

InitPage ==
  /\ InitReset
  /\ place = [r \in Request |-> "idle"] /\ undisturbed = FALSE
  /\ disabled = FALSE /\ unit = "stopped" /\ job = "none"

------------------------------------------------------------------------------
(* A step of the reset, and what it means for the watchdog. *)

PageSteady ==
  /\ factory_reset \/ StartWipe \/ reboot \/ HandlerFails \/ Service
     \/ Sync \/ ShutDown \/ PowerOn \/ SaveData
     \/ LookForMarker \/ BootIsMissing \/ StartFormat \/ FormatFails \/ RemoveMarker
  /\ UNCHANGED switchVars

GoesDown == (Reboot \/ PowerFails) /\ SwitchEnds /\ UNCHANGED disabled

(* Formatting takes the marker of the watchdog with it. *)
Wiped == Formatted /\ disabled' = FALSE /\ UNCHANGED <<handlers, unit, job>>

ComesBack == Mount /\ SwitchBoots

(* Handlers of the switch; writing the marker saves data.                    *)
Switches ==
  /\ power = "up" /\ HandlerStep
  /\ IF disabled' # disabled
     THEN SaveData
     ELSE UNCHANGED resetVars

UnitMoves == power = "up" /\ SwitchStep /\ UNCHANGED resetVars

NextPage == PageSteady \/ GoesDown \/ Wiped \/ ComesBack \/ Switches \/ UnitMoves

SpecPage ==
  /\ InitPage /\ [][NextPage]_pageVars
  /\ WF_pageVars(NextPage /\ Initrd /\ ~FormatFails)
  /\ WF_pageVars(NextPage /\ PowerOn) /\ WF_pageVars(NextPage /\ ShutDown)
=============================================================================
