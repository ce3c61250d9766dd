---------------------------- MODULE DurableStatus ----------------------------
(* What RAUC counts on its status file for, and a journal would give it: the *)
(* status is replaced as a whole in one step, what was replaced survives a   *)
(* crash, and a restart finds the last status that was committed, no other.  *)
(* A status may be spoilt once for all; nothing is promised from then on.    *)
EXTENDS Naturals

CONSTANTS Slot, None

VARIABLES
  stored,  \* the status on the disk
  known,   \* the one RAUC works with, None before it has read any
  spoilt

durableVars == <<stored, known, spoilt>>

InitDurable ==
  /\ stored = [s \in Slot |-> 0]
  /\ known = None
  /\ spoilt = FALSE

Read == known = None /\ known' = stored /\ UNCHANGED stored

(* An installation is recorded for a slot; only later ones follow it.        *)
Learn(s) ==
  /\ known # None /\ known' # None
  /\ known' = [known EXCEPT ![s] = known'[s]] /\ known'[s] > known[s]
  /\ UNCHANGED stored

Commit == known # None /\ stored' = known /\ UNCHANGED known
Crash  == known' = None /\ UNCHANGED stored

Sound == Read \/ (\E s \in Slot : Learn(s)) \/ Commit \/ Crash

NextDurable ==
  \/ ~spoilt /\ Sound /\ UNCHANGED spoilt
  \/ spoilt'

SpecDurable == InitDurable /\ [][NextDurable]_durableVars
=============================================================================
