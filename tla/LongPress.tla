------------------------------ MODULE LongPress ------------------------------
(* Long presses of keys and of key combinations on the remote control.  The  *)
(* filter sees the first press of a key, its repetitions and its release,    *)
(* and remembers since when a key is down.  A combination is named by its    *)
(* set of keys.  Time is discrete.                                           *)
EXTENDS Naturals, FiniteSetsExt

CONSTANTS
  Combination,           \* the tracked combinations
  long_press_delay, combo_compensation

ASSUME LongPressAssumption ==
  /\ \A c \in Combination : IsFiniteSet(c) /\ c # {}
  /\ long_press_delay \in Nat /\ combo_compensation \in 0..long_press_delay

VARIABLES
  since,       \* _key_pressed_since, as the age of the entry
  suppressed,  \* _supress_next_key_events
  fired,       \* the combination emitted by the latest event, {} if none
  used         \* history: keys that were down at a reset, until they are pressed again

longPressVars == <<since, suppressed, fired, used>>

Tracked == UNION Combination
Longest == long_press_delay + 1    \* an age that is no more told apart
TypeOKLongPress ==
  /\ DOMAIN since \subseteq Tracked /\ \A k \in DOMAIN since : since[k] \in 0..Longest
  /\ suppressed \subseteq Tracked
  /\ fired \in Combination \cup {{}}
  /\ used \subseteq Tracked

InitLongPress == since = <<>> /\ suppressed = {} /\ fired = {} /\ used = {}

------------------------------------------------------------------------------
IsLongPressed(k, tolerance) ==
  k \in DOMAIN since /\ since[k] > long_press_delay - tolerance
Active == {c \in Combination : \A k \in c : IsLongPressed(k, combo_compensation)}

(* Whether the filter keeps an event from those behind it: of a press, that  *)
(* is decided once it has had its effect, of a release before.               *)
SwallowsPress(k) == k \in suppressed'
SwallowsRepetition(k) ==
  k \in suppressed' \/ \E c \in Combination : k \in c /\ c \subseteq DOMAIN since'
SwallowsRelease(k) == k \in suppressed

FirstPress(k) ==
  /\ since' = IF k \in Tracked
              THEN [x \in DOMAIN since \cup {k} |-> IF x = k THEN 0 ELSE since[x]]
              ELSE since
  /\ used' = used \ {k}
  /\ fired' = {} /\ UNCHANGED suppressed

(* What a repetition of a key that is down for long leads to: the longest    *)
(* active combination with that key, unless another is as long.              *)
Candidates(k) == IF IsLongPressed(k, 0) THEN {c \in Active : k \in c} ELSE {}
Rivals(k) ==
  LET longest == Max({Cardinality(c) : c \in Candidates(k)})
  IN {c \in Active : Cardinality(c) = longest}

(* Mutant: the state is never reset. *)
Repetition_NoReset(k) ==
  /\ IF Candidates(k) = {}
     THEN fired' = {} /\ UNCHANGED <<since, suppressed, used>>
     ELSE /\ used' = used \cup DOMAIN since /\ UNCHANGED since
          /\ IF Cardinality(Rivals(k)) = 1
             THEN fired' \in Rivals(k) /\ suppressed' = fired'
             ELSE fired' = {} /\ UNCHANGED suppressed

Repetition(k) ==
  IF Candidates(k) = {}
  THEN fired' = {} /\ UNCHANGED <<since, suppressed, used>>
  ELSE /\ since' = <<>> /\ used' = used \cup DOMAIN since
       /\ IF Cardinality(Rivals(k)) = 1
          THEN fired' \in Rivals(k) /\ suppressed' = fired'
          ELSE fired' = {} /\ UNCHANGED suppressed

Release(k) ==
  /\ since' = [x \in DOMAIN since \ {k} |-> since[x]]
  /\ suppressed' = suppressed \ {k}
  /\ fired' = {} /\ UNCHANGED used

TimePasses ==
  /\ \E k \in DOMAIN since : since[k] < Longest
  /\ since' = [k \in DOMAIN since |-> IF since[k] < Longest THEN since[k] + 1 ELSE Longest]
  /\ fired' = {} /\ UNCHANGED <<suppressed, used>>
=============================================================================
