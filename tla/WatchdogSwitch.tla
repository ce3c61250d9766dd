---------------------------- MODULE WatchdogSwitch ----------------------------
(* The switch of the network watchdog on the status page.  What is chosen is *)
(* kept in a marker file that the unit's ConditionPathExists looks for; the  *)
(* unit is started and stopped through systemd, which only queues a job.     *)
(* Handlers of the controller interleave at their awaits.                    *)
EXTENDS FiniteSets

CONSTANT Request    \* enough handlers for those that run at the same time

VARIABLES
  place,     \* where each handler is
  disabled,  \* watchdog_disable_filepath exists
  unit,      \* playos-network-watchdog.service
  job,       \* the job queued for it
  undisturbed \* no handler since the last lone one has failed or met another

handlers == <<place, undisturbed>>
switchVars == <<handlers, disabled, unit, job>>

TypeOKSwitch ==
  /\ place \in [Request -> {"idle", "unlink", "start", "stop", "mark"}]
  /\ disabled \in BOOLEAN /\ undisturbed \in BOOLEAN
  /\ unit \in {"running", "stopped", "failed"}
  /\ job \in {"none", "start", "stop"}

Idle == \A r \in Request : place[r] = "idle"
CondStart == IF disabled THEN "stopped" ELSE "running"

InitSwitch ==
  /\ place = [r \in Request |-> "idle"] /\ undisturbed = TRUE
  /\ disabled \in BOOLEAN /\ unit = CondStart /\ job = "none"

------------------------------------------------------------------------------
(* network_watchdog.ml                                                       *)

Goto(r, p) == place' = [place EXCEPT ![r] = p]
Begin(r, p) == place[r] = "idle" /\ Goto(r, p) /\ undisturbed' = Idle

(* Mutant: the test for the marker is inverted. *)
enable_Inverted(r) ==
  /\ Begin(r, IF disabled THEN "start" ELSE "unlink")
  /\ UNCHANGED <<disabled, unit, job>>

enable(r) ==
  /\ Begin(r, IF disabled THEN "unlink" ELSE "start")
  /\ UNCHANGED <<disabled, unit, job>>

(* If another handler was faster, unlink raises ENOENT: see Fails. *)
Unlink(r) ==
  /\ place[r] = "unlink" /\ disabled
  /\ disabled' = FALSE /\ Goto(r, "start")
  /\ UNCHANGED <<undisturbed, unit, job>>

StartUnit(r) ==
  /\ place[r] = "start"
  /\ job' = "start" /\ Goto(r, "idle")
  /\ UNCHANGED <<undisturbed, disabled, unit>>

disable(r) ==
  /\ Begin(r, "stop")
  /\ UNCHANGED <<disabled, unit, job>>

StopUnit(r) ==
  /\ place[r] = "stop"
  /\ job' = "stop" /\ Goto(r, "mark")
  /\ UNCHANGED <<undisturbed, disabled, unit>>

WriteMarker(r) ==
  /\ place[r] = "mark"
  /\ disabled' = TRUE /\ Goto(r, "idle")
  /\ UNCHANGED <<undisturbed, unit, job>>

(* An exception of a call, or the end of the controller: the rest is not     *)
(* done, and nothing is undone.                                              *)
Fails(r) ==
  /\ place[r] # "idle" /\ Goto(r, "idle") /\ undisturbed' = FALSE
  /\ UNCHANGED <<disabled, unit, job>>

------------------------------------------------------------------------------
(* systemd: jobs, Restart=always, and the condition that a start looks at.   *)

RunStart ==
  /\ job = "start" /\ job' = "none"
  /\ unit' = IF unit = "running" THEN unit ELSE CondStart
  /\ UNCHANGED <<handlers, disabled>>

RunStop ==
  /\ job = "stop" /\ job' = "none" /\ unit' = "stopped"
  /\ UNCHANGED <<handlers, disabled>>

UnitDies ==
  /\ unit = "running" /\ unit' = "failed"
  /\ UNCHANGED <<handlers, disabled, job>>

AutoRestart ==
  /\ unit = "failed" /\ job = "none" /\ job' = "start"
  /\ UNCHANGED <<handlers, disabled, unit>>

SwitchStep == RunStart \/ RunStop \/ UnitDies \/ AutoRestart
HandlerStep ==
  \E r \in Request :
    \/ enable(r) \/ Unlink(r) \/ StartUnit(r)
    \/ disable(r) \/ StopUnit(r) \/ WriteMarker(r) \/ Fails(r)

(* The machine goes down, in whatever way; and it boots. *)
SwitchEnds ==
  /\ place' = [r \in Request |-> "idle"] /\ undisturbed' = FALSE
  /\ unit' = "stopped" /\ job' = "none"
SwitchBoots ==
  /\ undisturbed' = TRUE /\ unit' = CondStart
  /\ UNCHANGED <<place, disabled, job>>

------------------------------------------------------------------------------
(* Once the last handler has answered and systemd is done, the unit runs if  *)
(* and only if the page says so, however often the unit died in between and  *)
(* whatever earlier handlers left behind: a handler that runs alone and does *)
(* not fail repairs a disagreement between the marker and the unit.          *)
SwitchTakesEffect ==
  Idle /\ undisturbed /\ job = "none" /\ unit # "failed" =>
    (unit = "running" <=> ~disabled)
=============================================================================
