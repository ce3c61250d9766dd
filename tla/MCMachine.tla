------------------------------ MODULE MCMachine ------------------------------
(* A machine installed with version 1, and up to three later releases,     *)
(* which may be bad ones.  A release stays once it is out: the runs of     *)
(* UpdateService, and the proofs, also have withdrawals.                   *)
EXTENDS Machine

TwoVersions  == {1, 2}
NoBadVersion == {}
BadUpdate    == {2}
FourVersions == {1, 2, 3, 4}
ThreeBadUpdates == {2, 3, 4}

MCInitMachine == InitMachine /\ latest = 1
MCNextMachine ==
  \/ Select \/ Boot \/ BootChosen \/ PowerOff
  \/ UpdateStep \/ InstallerStep \/ CheckHealth \/ RestartController
  \/ OpenStatusPage \/ SwitchSlot \/ (Release /\ latest' > latest)
MCSpecMachine == MCInitMachine /\ [][MCNextMachine]_machineVars

MCNextCalm == NextCalm /\ latest' >= latest
MCSpecCalm == MCInitMachine /\ [][MCNextCalm]_machineVars /\ FairnessCalm
=============================================================================
