--------------------------- MODULE VirtualKeyboard ---------------------------
(* The on-screen keyboard.  The platform's input method asks for it whenever *)
(* the cursor enters a field; the widget takes it back until the user        *)
(* presses Enter.  The input method is external: its signals arrive at once, *)
(* those of the cursor before those of the visibility.                       *)

VARIABLES
  present,  \* there is a KeyboardWidget, with its ActivationKeyFilter
  state,    \* its ActivationState
  visible,  \* the input method's isVisible
  shown,    \* the widget is on the screen
  skip,     \* _supress_next_key_release
  field,    \* the cursor is in an input field
  byUser    \* history: the user has asked for the keyboard since it was last visible

keyboardVars == <<present, state, visible, shown, skip, field, byUser>>

TypeOKKeyboard ==
  /\ {present, visible, shown, field, byUser} \subseteq BOOLEAN
  /\ state \in {"UNKNOWN", "WAITING", "ACTIVATED"}
  /\ skip \in {"none", "Enter", "Escape"}
  /\ ~present => ~shown /\ state = "UNKNOWN" /\ skip = "none"

InitKeyboard ==
  /\ present = FALSE /\ state = "UNKNOWN" /\ visible = FALSE /\ shown = FALSE
  /\ skip = "none" /\ field = FALSE /\ byUser = FALSE

------------------------------------------------------------------------------
(* Mutant: what the platform has shown meanwhile is not hidden. *)
CreateKeyboard_NotHidden ==
  /\ present' = TRUE /\ UNCHANGED <<state, visible, shown, skip, field, byUser>>

CreateKeyboard ==
  /\ present' = TRUE /\ visible' = FALSE /\ byUser' = FALSE
  /\ UNCHANGED <<state, shown, skip, field>>

DeleteKeyboard ==
  /\ present' = FALSE /\ state' = "UNKNOWN" /\ shown' = FALSE /\ skip' = "none"
  /\ UNCHANGED <<visible, field, byUser>>

------------------------------------------------------------------------------
(* show() has an effect in a field only; _visibleChanged then shows the      *)
(* widget.                                                                   *)
activateKeyboard ==
  /\ state' = "ACTIVATED" /\ byUser' = TRUE
  /\ visible' = field /\ shown' = field
  /\ UNCHANGED <<present, field>>

(* hide() passes through _visibleChanged, too. *)
suspendKeyboard ==
  /\ visible' = FALSE /\ shown' = FALSE /\ state' = "WAITING" /\ byUser' = FALSE
  /\ UNCHANGED <<present, field>>

(* The key on the keyboard itself. *)
HideKeyClicked == present /\ shown /\ suspendKeyboard /\ UNCHANGED skip

------------------------------------------------------------------------------
(* The input method. *)

PlatformShows ==
  /\ field /\ ~visible
  /\ IF ~present THEN visible' = TRUE /\ UNCHANGED <<state, shown, byUser>>
     ELSE IF state = "ACTIVATED"
     THEN visible' = TRUE /\ shown' = TRUE /\ UNCHANGED <<state, byUser>>
     ELSE visible' = FALSE /\ state' = "WAITING" /\ UNCHANGED <<shown, byUser>>
  /\ UNCHANGED <<present, skip, field>>

PlatformHides ==
  /\ visible /\ visible' = FALSE /\ byUser' = FALSE
  /\ state' = "UNKNOWN" /\ shown' = FALSE
  /\ UNCHANGED <<present, skip, field>>

(* Within a field, to another one, or out of all of them.                    *)
MoveCursor ==
  /\ field' \in BOOLEAN
  /\ state' = "UNKNOWN"
  /\ UNCHANGED <<present, visible, shown, skip, byUser>>

InputMethod == PlatformShows \/ PlatformHides \/ MoveCursor \/ HideKeyClicked

------------------------------------------------------------------------------
(* ActivationKeyFilter, an event filter behind or before that of LongPress.  *)

Activates(k) == k = "Enter" /\ state = "WAITING"
Suspends(k) == k = "Escape" /\ visible
FilterPress(k, isAutoRepeat) ==
  IF ~present \/ (isAutoRepeat /\ k = skip) THEN UNCHANGED keyboardVars
  ELSE \/ Activates(k) /\ activateKeyboard /\ skip' = k
       \/ Suspends(k) /\ suspendKeyboard /\ skip' = k
       \/ ~Activates(k) /\ ~Suspends(k) /\ skip' = "none"
          /\ UNCHANGED <<present, state, visible, shown, field, byUser>>

FilterKeepsPress(k, isAutoRepeat) ==
  present /\ ((isAutoRepeat /\ k = skip) \/ Activates(k) \/ Suspends(k))
FilterKeepsRelease(k) == present /\ k = skip
=============================================================================
