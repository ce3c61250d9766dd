--------------------------- MODULE KeyboardDetector ---------------------------
(* Whether a physical keyboard is plugged in: scanned once when the program  *)
(* starts, and by a thread a second after every event of the device monitor. *)
(* Changes reach the window through a queued signal.                         *)
EXTENDS Sequences, Naturals

CONSTANT MaxSignals  \* bound on the signals that wait for the window
ASSUME DetectorAssumption == MaxSignals \in Nat

VARIABLES
  plugged,    \* a physical keyboard is connected
  available,  \* keyboard_available
  events,     \* the thread has an event to handle
  observer,   \* the thread: not started, running, or ended by an exception
  connected,  \* the window's slot is connected to the signal
  signals,    \* the signals on their way to the window
  unnoticed   \* plugged has changed since the last scan, and no event tells

detectorVars == <<plugged, available, events, observer, connected, signals, unnoticed>>

TypeOKDetector ==
  /\ {plugged, available, events, connected, unnoticed} \subseteq BOOLEAN
  /\ observer \in {"new", "runs", "ended"}
  /\ signals \in Seq(BOOLEAN) /\ Len(signals) <= MaxSignals
  /\ connected => observer # "new"

InitDetector ==
  /\ plugged \in BOOLEAN /\ available = plugged
  /\ events = FALSE /\ observer = "new" /\ connected = FALSE
  /\ signals = <<>> /\ unnoticed = FALSE

Plug ==
  /\ plugged' = ~plugged
  /\ IF observer = "runs" THEN events' = TRUE /\ UNCHANGED unnoticed
                          ELSE unnoticed' = TRUE /\ UNCHANGED events
  /\ UNCHANGED <<available, observer, connected, signals>>

StartObserver ==
  /\ observer = "new" /\ observer' = "runs"
  /\ UNCHANGED <<plugged, available, events, connected, signals, unnoticed>>

ConnectSlot ==
  /\ observer # "new" /\ ~connected /\ connected' = TRUE
  /\ UNCHANGED <<plugged, available, events, observer, signals, unnoticed>>

(* Mutant: the property is set without its signal. *)
_observer_callback_Silent ==
  /\ observer = "runs" /\ events /\ events' = FALSE
  /\ available' = plugged /\ unnoticed' = FALSE
  /\ Len(signals) < MaxSignals
  /\ UNCHANGED <<plugged, observer, connected, signals>>

_observer_callback ==
  /\ observer = "runs" /\ events /\ events' = FALSE
  /\ available' = plugged /\ unnoticed' = FALSE
  /\ Len(signals) < MaxSignals
  /\ signals' = IF plugged # available /\ connected THEN Append(signals, plugged) ELSE signals
  /\ UNCHANGED <<plugged, observer, connected>>

(* A device that is gone when it is opened ends the thread. *)
ScanFails ==
  /\ observer = "runs" /\ events
  /\ observer' = "ended" /\ unnoticed' = TRUE /\ events' = FALSE
  /\ UNCHANGED <<plugged, available, connected, signals>>

Detector == StartObserver \/ _observer_callback \/ ScanFails
=============================================================================
