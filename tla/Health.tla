------------------------------- MODULE Health -------------------------------
(***************************************************************************)
(* The controller's health check (health.ml): it waits until systemd calls *)
(* the system running and then marks the booted slot good, which gives the *)
(* slot its three boot attempts back.                                      *)
(***************************************************************************)
EXTENDS Rauc

CONSTANT BadVersion   \* versions whose system never gets to "running"

ASSUME BadVersionAssumption == BadVersion \subseteq Version

VARIABLE health

HealthState == {"Pending", "MarkingAsGood", "Good", "Bad"}

(* What systemd may answer, depending on the version that is running.      *)
SystemStates ==
  {"starting", "degraded"} \cup
  (IF image[booted] \in BadVersion THEN {} ELSE {"running"})

CheckSystem ==
  /\ health = "Pending"
  /\ \E state \in SystemStates :
       health' = CASE state = "running"  -> "MarkingAsGood"
                   [] state = "starting" -> "Pending"
                   [] state = "degraded" -> "Bad"
  /\ UNCHANGED raucVars

MarkAsGood_WrongSlot ==   \* mutant: the slot that is not running is marked
  /\ health = "MarkingAsGood"
  /\ MarkGood(Inactive)
  /\ health' = "Good"

MarkAsGood ==
  /\ health = "MarkingAsGood"
  /\ MarkGood(booted)
  /\ health' = "Good"

(* RAUC is busy installing, or does not answer.                            *)
MarkFails ==
  /\ health = "MarkingAsGood"
  /\ health' = "Bad"
  /\ UNCHANGED raucVars

RetryHealth ==
  /\ health = "Bad"
  /\ health' = "Pending"
  /\ UNCHANGED raucVars

HealthStep == CheckSystem \/ MarkAsGood \/ MarkFails \/ RetryHealth
=============================================================================
