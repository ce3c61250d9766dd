--------------------------- MODULE MCUpdateService ---------------------------
(* The update service with two versions, on a healthy machine that has just*)
(* booted version 1.  The slots are interchangeable, so it is enough to    *)
(* boot from a.                                                            *)
EXTENDS UpdateService

TwoVersions == {1, 2}

HealthyInit ==
  /\ Init /\ booted = "a"
  /\ try = [s \in Slot |-> IF s = booted THEN 1 ELSE 0] /\ ok["b"]
  /\ image = [s \in Slot |-> 1] /\ latest = 1
MCFairSpec == HealthyInit /\ [][Next]_vars /\ Fairness
=============================================================================
