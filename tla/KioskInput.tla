------------------------------ MODULE KioskInput ------------------------------
(* What a key on the remote control or a keyboard goes through: two event    *)
(* filters, of which the one installed last comes first.  The on-screen      *)
(* keyboard, whose filter is one of them, comes and goes with the physical   *)
(* keyboard.                                                                 *)
EXTENDS LongPress, VirtualKeyboard, KeyboardDetector

CONSTANTS Key, NoKey

(* The key that brings the on-screen keyboard up is in no combination.       *)
ASSUME InputAssumption ==
  "none" \notin Key /\ NoKey \notin Key \cup {"Escape"} /\ "Enter" \notin Tracked

VARIABLES
  held,     \* the keys that are down
  repeats,  \* the key the X server repeats: the last one pressed, while it is down
  before,   \* the activation filter comes before that of LongPress
  started   \* the main window is complete

inputVars == <<longPressVars, keyboardVars, detectorVars, held, repeats, before, started>>
chain == <<held, repeats, before, started>>

TypeOKInput ==
  /\ TypeOKLongPress /\ TypeOKKeyboard /\ TypeOKDetector
  /\ held \subseteq Key /\ repeats \in held \cup {NoKey}
  /\ {before, started} \subseteq BOOLEAN

InitInput ==
  /\ InitLongPress /\ InitKeyboard /\ InitDetector
  /\ held = {} /\ repeats = NoKey /\ before = FALSE /\ started = FALSE

------------------------------------------------------------------------------
(* Events on their way through the filters.                                  *)

Unfired == fired' = {} /\ UNCHANGED <<since, suppressed, used>>

Press(k) ==
  /\ started /\ k \notin held
  /\ held' = held \cup {k} /\ repeats' = k
  /\ IF before
     THEN /\ FilterPress(k, FALSE)
          /\ IF FilterKeepsPress(k, FALSE) THEN Unfired ELSE FirstPress(k)
     ELSE /\ FirstPress(k)
          /\ IF SwallowsPress(k) THEN UNCHANGED keyboardVars ELSE FilterPress(k, FALSE)
  /\ UNCHANGED <<before, started, detectorVars>>

Repeat ==
  /\ started /\ repeats # NoKey
  /\ IF before
     THEN /\ FilterPress(repeats, TRUE)
          /\ IF FilterKeepsPress(repeats, TRUE) THEN Unfired ELSE Repetition(repeats)
     ELSE /\ Repetition(repeats)
          /\ IF SwallowsRepetition(repeats) THEN UNCHANGED keyboardVars
                                            ELSE FilterPress(repeats, TRUE)
  /\ UNCHANGED <<chain, detectorVars>>

(* Mutant: the activation filter keeps every release behind it. *)
LetGo_AllKept(k) ==
  /\ k \in held /\ held' = held \ {k}
  /\ repeats' = IF repeats = k THEN NoKey ELSE repeats
  /\ IF before THEN Unfired ELSE Release(k)
  /\ UNCHANGED <<before, started, keyboardVars, detectorVars>>

LetGo(k) ==
  /\ k \in held /\ held' = held \ {k}
  /\ repeats' = IF repeats = k THEN NoKey ELSE repeats
  /\ IF before /\ FilterKeepsRelease(k) THEN Unfired ELSE Release(k)
  /\ UNCHANGED <<before, started, keyboardVars, detectorVars>>

Time == TimePasses /\ UNCHANGED <<chain, keyboardVars, detectorVars>>

------------------------------------------------------------------------------
(* The window: its start, and the signals of the detector.                   *)

_toggle_virtual_keyboard(physical) ==
  \/ physical /\ present /\ DeleteKeyboard /\ UNCHANGED before
  \/ ~physical /\ ~present /\ CreateKeyboard /\ before' = started
  \/ physical # present /\ UNCHANGED <<keyboardVars, before>>

Starts ==
  /\ connected /\ ~started /\ started' = TRUE
  /\ _toggle_virtual_keyboard(available)
  /\ Unfired /\ UNCHANGED <<held, repeats, detectorVars>>

KeyboardSignal ==
  /\ started /\ signals # <<>> /\ signals' = Tail(signals)
  /\ _toggle_virtual_keyboard(Head(signals))
  /\ Unfired
  /\ UNCHANGED <<held, repeats, started>>
  /\ UNCHANGED <<plugged, available, events, observer, connected, unnoticed>>

Others ==
  /\ Plug \/ Detector \/ ConnectSlot
  /\ Unfired /\ UNCHANGED <<chain, keyboardVars>>
PlatformStep == started /\ InputMethod /\ Unfired /\ UNCHANGED <<chain, detectorVars>>

NextInput ==
  \/ \E k \in Key : Press(k) \/ LetGo(k)
  \/ Repeat \/ Time \/ Starts \/ KeyboardSignal \/ Others \/ PlatformStep

SpecInput == InitInput /\ [][NextInput]_inputVars
------------------------------------------------------------------------------
(* No key is taken for being down that is not: a stale one would turn a      *)
(* later press of another key into a combination.  Whichever filter comes    *)
(* first, and whenever their order changes, presses and releases that reach  *)
(* LongPress match.                                                          *)
NoGhostKeys == DOMAIN since \cup suppressed \subseteq held

(* Holding keys down triggers one action at most: a key whose hold has led   *)
(* to one, or to an ambiguity, counts again only after it has been released  *)
(* and pressed anew.                                                         *)
OneActionPerHold == [][fired' # {} => fired' \cap used = {}]_inputVars

(* The widget and the input method agree, also when the widget was created   *)
(* while the platform wanted a keyboard, and it is on the screen only if the *)
(* user has asked for it since.                                              *)
KeyboardIsAsked ==
  present => (shown <=> visible) /\ (shown => byUser) /\ (state = "WAITING" => ~visible)

(* Once the signals are handled there is an on-screen keyboard if and only   *)
(* if there is no physical one, but for a change the thread has no event of. *)
KeyboardFollows ==
  started /\ ~events /\ signals = <<>> /\ ~unnoticed => (present <=> ~plugged)
=============================================================================
