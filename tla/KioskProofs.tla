------------------------------ MODULE KioskProofs ------------------------------
(* The browser never ends on a screen without the page and without a retry,  *)
(* and the thread that follows ConnMan's proxy misses no signal, whatever    *)
(* proxies there are and in whatever order handlers, threads and the engine  *)
(* take their steps.  Of the input, which the window does not interact with: *)
(* no filter takes a key for down that is not, no hold counts twice, and the *)
(* on-screen keyboard comes only when it is asked for.                       *)
EXTENDS Kiosk, KioskInput, SequenceTheorems, TLAPS

(* What the thread has just been told is still true, or a signal waits. *)
AnswerIsFresh ==
  monitor = "update" /\ ~signal /\ ~misread /\ ~moved => answer = actual

InvBrowser == TypeOKBrowser /\ NeverStranded
InvProxy == TypeOKProxy /\ AnswerIsFresh /\ ProxyIsKnown
TypeOKWindow ==
  /\ dialog \in {"none", "System Settings", "Network Login"}
  /\ message \in BOOLEAN /\ portalOpen \in BOOLEAN /\ portal \in BOOLEAN
  /\ handler \in {"idle", "opening", "opened"}
  /\ check \in {"sleep", "request", "test", "show"}

InvKiosk == InvBrowser /\ InvProxy /\ TypeOKWindow

LEMMA InvIsTyped == InvKiosk => TypeOKKiosk
BY DEF InvKiosk, InvBrowser, InvProxy, TypeOKWindow, TypeOKKiosk

------------------------------------------------------------------------------
(* The browser by itself. *)

(* load, from wherever it is called, puts a load in flight. *)
LEMMA LoadKeeps == ASSUME InvBrowser, NEW u \in Page, load(u) PROVE InvBrowser'
BY DEF InvBrowser, TypeOKBrowser, NeverStranded, load, Navigate

LEMMA KeysKeep == InvBrowser /\ (reload \/ hard_refresh \/ full_reload) => InvBrowser'
<1> SUFFICES ASSUME InvBrowser PROVE reload \/ hard_refresh \/ full_reload => InvBrowser'
  OBVIOUS
<1>1. CASE reload
  BY <1>1, LoadKeeps DEF reload, InvBrowser, TypeOKBrowser
<1>2. CASE hard_refresh
  BY <1>2 DEF InvBrowser, TypeOKBrowser, NeverStranded, hard_refresh
<1>3. CASE full_reload
  BY <1>3 DEF InvBrowser, TypeOKBrowser, NeverStranded, full_reload
<1> QED BY <1>1, <1>2, <1>3

(* A failure that is reported leaves the timer on, whichever load failed. *)
LEMMA EngineKeeps == InvBrowser /\ Engine => InvBrowser'
<1> SUFFICES ASSUME InvBrowser, Engine PROVE InvBrowser'
  OBVIOUS
<1> USE DEF InvBrowser, TypeOKBrowser, NeverStranded
<1>1. CASE TimerFires
  BY <1>1 DEF TimerFires, Navigate
<1>2. CASE LoadFinished
  BY <1>2 DEF LoadFinished, Report
<1>3. CASE FullReloadContinues
  BY <1>3 DEF FullReloadContinues
<1>4. ASSUME NEW success \in BOOLEAN, StaleLoadFinished(success) PROVE InvBrowser'
  BY <1>4 DEF StaleLoadFinished, Report
<1> QED BY <1>1, <1>2, <1>3, <1>4 DEF Engine

LEMMA BrowserRests == InvBrowser /\ UNCHANGED browserVars => InvBrowser'
BY DEF InvBrowser, TypeOKBrowser, NeverStranded, browserVars

------------------------------------------------------------------------------
(* The thread that follows the proxy. *)

LEMMA MonitorKeeps == InvProxy /\ (Monitor \/ ProxyChanges) => InvProxy'
<1> SUFFICES ASSUME InvProxy, Monitor \/ ProxyChanges PROVE InvProxy'
  OBVIOUS
<1> USE DEF InvProxy, TypeOKProxy, AnswerIsFresh, ProxyIsKnown, Proxies
<1>1. CASE Subscribe
  BY <1>1 DEF Subscribe
<1>2. CASE get_current_proxy
  BY <1>2 DEF get_current_proxy
<1>3. CASE _update
  BY <1>3 DEF _update
<1>4. CASE _on_property_changed
  BY <1>4 DEF _on_property_changed
<1>5. CASE CallRaises
  BY <1>5 DEF CallRaises
<1>6. CASE ProxyIsSet
  BY <1>6 DEF ProxyIsSet, Listening
<1>7. CASE OtherProxyIsSet
  BY <1>7 DEF OtherProxyIsSet, Listening
<1>8. CASE DefaultServiceChanges
  BY <1>8 DEF DefaultServiceChanges
<1> QED BY <1>1, <1>2, <1>3, <1>4, <1>5, <1>6, <1>7, <1>8 DEF Monitor, ProxyChanges

LEMMA ProxyRests == InvProxy /\ UNCHANGED proxyVars => InvProxy'
BY DEF InvProxy, TypeOKProxy, AnswerIsFresh, ProxyIsKnown, proxyVars

------------------------------------------------------------------------------
LEMMA InitInvKiosk == InitKiosk => InvKiosk
BY DEF InitKiosk, InitBrowser, InitProxy, InvKiosk, InvBrowser, InvProxy, TypeOKWindow,
       TypeOKBrowser, NeverStranded, TypeOKProxy, AnswerIsFresh, ProxyIsKnown, Proxies, Page

LEMMA UserStep == InvKiosk /\ User => InvKiosk'
<1> SUFFICES ASSUME InvKiosk, User PROVE InvKiosk'
  OBVIOUS
<1> USE DEF InvKiosk, TypeOKWindow
<1>1. CASE _open_settings
  BY <1>1, LoadKeeps, ProxyRests DEF _open_settings, decorate, Page
<1>2. CASE _close_dialog
  BY <1>2, LoadKeeps, ProxyRests DEF _close_dialog, Page
<1>3. CASE _show_captive_portal
  BY <1>3, LoadKeeps, BrowserRests, ProxyRests DEF _show_captive_portal, Page
<1>4. CASE BrowserKeys
  BY <1>4, KeysKeep, ProxyRests DEF BrowserKeys, windowVars
<1> QED BY <1>1, <1>2, <1>3, <1>4 DEF User

LEMMA HandlerStep == InvKiosk /\ (Handler \/ BrowserEvent) => InvKiosk'
<1> SUFFICES ASSUME InvKiosk, Handler \/ BrowserEvent PROVE InvKiosk'
  OBVIOUS
<1> USE DEF InvKiosk, TypeOKWindow
<1>1. CASE LoadPortal
  BY <1>1, LoadKeeps, ProxyRests DEF LoadPortal, decorate, Page
<1>2. CASE NotePortal
  BY <1>2, BrowserRests, ProxyRests DEF NotePortal
<1>3. CASE BrowserEvent
  BY <1>3, EngineKeeps, ProxyRests DEF BrowserEvent, windowVars
<1> QED BY <1>1, <1>2, <1>3 DEF Handler

LEMMA ThreadStep == InvKiosk /\ (CheckThread \/ ProxyThread) => InvKiosk'
<1> SUFFICES ASSUME InvKiosk, CheckThread \/ ProxyThread PROVE InvKiosk'
  OBVIOUS
<1> USE DEF InvKiosk, TypeOKWindow
<1>1. CASE StartCheck
  BY <1>1, BrowserRests, ProxyRests DEF StartCheck, windowVars
<1>2. CASE Answer
  BY <1>2, BrowserRests, ProxyRests DEF Answer, windowVars
<1>3. CASE _show_captive_portal_message
  BY <1>3, BrowserRests, ProxyRests DEF _show_captive_portal_message, windowVars
<1>4. CASE ShowMessage
  BY <1>4, BrowserRests, ProxyRests DEF ShowMessage
<1>5. CASE ProxyThread
  BY <1>5, BrowserRests, MonitorKeeps DEF ProxyThread, windowVars
<1> QED BY <1>1, <1>2, <1>3, <1>4, <1>5 DEF CheckThread

(* A restart of the program begins with a load and with a thread that has   *)
(* not subscribed yet, so neither half owes anything.                       *)
LEMMA WorldStep == InvKiosk /\ (World \/ _handle_render_process_terminated) => InvKiosk'
<1> SUFFICES ASSUME InvKiosk, World \/ _handle_render_process_terminated PROVE InvKiosk'
  OBVIOUS
<1>1. CASE NetworkChanges /\ UNCHANGED <<windowVars, check, portal, proxyVars>>
  <2>1. InvBrowser'
    BY <1>1 DEF InvKiosk, InvBrowser, TypeOKBrowser, NeverStranded, NetworkChanges
  <2> QED
    BY <1>1, <2>1, ProxyRests DEF InvKiosk, TypeOKWindow, windowVars
<1>2. CASE ProxyChanges /\ UNCHANGED <<browserVars, windowVars, check, portal>>
  BY <1>2, BrowserRests, MonitorKeeps DEF InvKiosk, TypeOKWindow, windowVars
<1>3. CASE portal' = ~portal /\ UNCHANGED <<browserVars, windowVars, check, proxyVars>>
  BY <1>3, BrowserRests, ProxyRests DEF InvKiosk, TypeOKWindow, windowVars
<1>4. CASE _handle_render_process_terminated
  <2>1. InvBrowser'
    BY <1>4 DEF _handle_render_process_terminated, InvKiosk, InvBrowser, TypeOKBrowser,
                NeverStranded, Page
  <2>2. InvProxy'
    BY <1>4 DEF _handle_render_process_terminated, InvKiosk, InvProxy, TypeOKProxy,
                AnswerIsFresh, ProxyIsKnown, Proxies
  <2>3. TypeOKWindow'
    BY <1>4 DEF _handle_render_process_terminated, InvKiosk, TypeOKWindow
  <2> QED
    BY <2>1, <2>2, <2>3 DEF InvKiosk
<1> QED BY <1>1, <1>2, <1>3, <1>4 DEF World

(* The invariant of the window, the browser and the proxy thread together.  *)
THEOREM KioskInductive == SpecKiosk => []InvKiosk
<1>1. InvKiosk /\ NextKiosk => InvKiosk'
  BY UserStep, HandlerStep, ThreadStep, WorldStep DEF NextKiosk
<1>2. InvKiosk /\ UNCHANGED kioskVars => InvKiosk'
  BY BrowserRests, ProxyRests DEF InvKiosk, TypeOKWindow, kioskVars, windowVars
<1> QED
  BY InitInvKiosk, <1>1, <1>2, PTL DEF SpecKiosk

(* Every variable of the kiosk keeps its type. *)
THEOREM TypeCorrectKiosk == SpecKiosk => []TypeOKKiosk
BY KioskInductive, InvIsTyped, PTL

(* A loading page or an error page is never the last word: a load is in     *)
(* flight or the timer will start one, and a full reload never waits in     *)
(* vain for its second stage (browser_widget.py).                           *)
THEOREM BrowserIsNeverStranded == SpecKiosk => []NeverStranded
<1>1. InvKiosk => NeverStranded
  BY DEF InvKiosk, InvBrowser
<1> QED
  BY KioskInductive, <1>1, PTL

(* Whenever the proxy thread waits for signals and none is there, the kiosk *)
(* uses ConnMan's proxy: reading after the subscription, not before it,     *)
(* leaves no gap, and neither do changes of the proxy while one is handled, *)
(* signals of other services, or calls that raise.  The exceptions are those*)
(* of the property: a last call that failed, another default service since. *)
THEOREM ProxyIsFollowed == SpecKiosk => []ProxyIsKnown
<1>1. InvKiosk => ProxyIsKnown
  BY DEF InvKiosk, InvProxy
<1> QED
  BY KioskInductive, <1>1, PTL

------------------------------------------------------------------------------
(* Keys, the two filters and the on-screen keyboard.                         *)

(* What LongPress remembers is of keys that are down, and of none that has   *)
(* had its effect already; of a key that the other filter keeps, if it comes *)
(* first, LongPress knows nothing.                                           *)
KeysMatch ==
  /\ NoGhostKeys
  /\ DOMAIN since \cup suppressed \subseteq Tracked
  /\ DOMAIN since \cap used = {}
  /\ before /\ skip # "none" => skip \notin DOMAIN since \cup suppressed

(* The keyboard's own state; the input method never has a keyboard to show   *)
(* that the user has activated, because it is on the screen already.         *)
KeyboardMatches ==
  /\ visible \in BOOLEAN /\ shown \in BOOLEAN /\ field \in BOOLEAN
  /\ byUser \in BOOLEAN /\ present \in BOOLEAN
  /\ skip \in {"none", "Enter", "Escape"}
  /\ ~present => ~shown /\ state = "UNKNOWN" /\ skip = "none"
  /\ state = "ACTIVATED" => (visible <=> field)
  /\ KeyboardIsAsked

(* Escape repeats only after it has sent the keyboard away, or met none.     *)
EscapeIsOver == repeats = "Escape" /\ present => ~visible

InvInput == KeysMatch /\ KeyboardMatches /\ EscapeIsOver

LEMMA NothingDown == DOMAIN << >> = {}
OBVIOUS

LEMMA InitInvInput == InitInput => InvInput
BY NothingDown, InputAssumption
   DEF InitInput, InitLongPress, InitKeyboard, InvInput, KeysMatch, KeyboardMatches,
       EscapeIsOver, NoGhostKeys, KeyboardIsAsked

------------------------------------------------------------------------------
(* What one filter does to a key, without the other.                         *)

LEMMA FirstPressKeeps ==
  ASSUME NEW k, FirstPress(k), DOMAIN since \cap used = {},
         DOMAIN since \cup suppressed \subseteq Tracked
  PROVE  /\ DOMAIN since' \subseteq DOMAIN since \cup {k}
         /\ DOMAIN since' \cup suppressed' \subseteq Tracked
         /\ suppressed' = suppressed
         /\ DOMAIN since' \cap used' = {}
         /\ fired' = {}
<1>1. CASE k \in Tracked
  <2>1. DOMAIN since' = DOMAIN since \cup {k}
    BY <1>1 DEF FirstPress
  <2> QED BY <1>1, <2>1 DEF FirstPress
<1>2. CASE k \notin Tracked
  BY <1>2 DEF FirstPress
<1> QED BY <1>1, <1>2

LEMMA RepetitionKeeps ==
  ASSUME NEW k, Repetition(k), DOMAIN since \cap used = {}
  PROVE  /\ DOMAIN since' \subseteq DOMAIN since
         /\ suppressed' \subseteq suppressed \cup DOMAIN since
         /\ DOMAIN since' \cap used' = {}
         /\ fired' \subseteq DOMAIN since
<1>1. CASE Candidates(k) = {}
  BY <1>1 DEF Repetition
<1>2. CASE Candidates(k) # {}
  <2>1. DOMAIN since' = {}
    BY <1>2, NothingDown DEF Repetition
  <2>2. ASSUME NEW c \in Rivals(k) PROVE c \subseteq DOMAIN since
    BY DEF Rivals, Active, IsLongPressed
  <2>3. CASE Cardinality(Rivals(k)) = 1
    <3>1. fired' \in Rivals(k) /\ suppressed' = fired'
      BY <1>2, <2>3 DEF Repetition
    <3> QED BY <2>1, <2>2, <3>1
  <2>4. CASE Cardinality(Rivals(k)) # 1
    <3>1. fired' = {} /\ suppressed' = suppressed
      BY <1>2, <2>4 DEF Repetition
    <3> QED BY <2>1, <3>1
  <2> QED BY <2>3, <2>4
<1> QED BY <1>1, <1>2

LEMMA ReleaseKeeps ==
  ASSUME NEW k, Release(k)
  PROVE  /\ DOMAIN since' = DOMAIN since \ {k}
         /\ suppressed' = suppressed \ {k} /\ used' = used /\ fired' = {}
BY DEF Release

LEMMA FilterKeeps ==
  ASSUME KeyboardMatches, NEW k, NEW auto \in BOOLEAN, FilterPress(k, auto)
  PROVE  /\ KeyboardMatches' /\ present' = present
         /\ visible' => visible \/ k = "Enter"
         /\ k = "Escape" /\ ~auto /\ present => ~visible'
         /\ skip' \in {skip, "none", k}
         /\ skip' = k /\ skip # k => Activates(k) \/ Suspends(k) \/ k = "none"
<1> USE DEF KeyboardMatches, KeyboardIsAsked
<1>1. CASE ~present \/ (auto /\ k = skip)
  <2>1. UNCHANGED keyboardVars
    BY <1>1 DEF FilterPress
  <2> QED BY <1>1, <2>1 DEF keyboardVars
<1>2. CASE ~(~present \/ (auto /\ k = skip))
  <2>1. CASE Activates(k) /\ activateKeyboard /\ skip' = k
    BY <1>2, <2>1 DEF Activates, activateKeyboard
  <2>2. CASE Suspends(k) /\ suspendKeyboard /\ skip' = k
    BY <1>2, <2>2 DEF Suspends, suspendKeyboard
  <2>3. CASE /\ ~Activates(k) /\ ~Suspends(k) /\ skip' = "none"
             /\ UNCHANGED <<present, state, visible, shown, field, byUser>>
    BY <1>2, <2>3 DEF Suspends
  <2> QED BY <1>2, <2>1, <2>2, <2>3 DEF FilterPress
<1> QED BY <1>1, <1>2

------------------------------------------------------------------------------
(* Every step. *)

LEMMA PressStep == ASSUME InvInput, NEW k \in Key, Press(k) PROVE InvInput' /\ fired' = {}
<1> USE DEF InvInput
<1>1. k \notin DOMAIN since \cup suppressed
  BY DEF Press, KeysMatch, NoGhostKeys
<1>2. CASE before
  <2>1. FilterPress(k, FALSE)
    BY <1>2 DEF Press
  <2>2. KeyboardMatches' /\ EscapeIsOver'
    BY <2>1, FilterKeeps DEF Press, EscapeIsOver
  <2>3. CASE FilterKeepsPress(k, FALSE)
    <3>1. Unfired
      BY <1>2, <2>3 DEF Press
    <3>2. skip' = k
      BY <2>1, <2>3 DEF FilterPress, FilterKeepsPress, Activates, Suspends
    <3> QED BY <1>1, <2>2, <3>1, <3>2 DEF Press, Unfired, KeysMatch, NoGhostKeys
  <2>4. CASE ~FilterKeepsPress(k, FALSE)
    <3>1. FirstPress(k)
      BY <1>2, <2>4 DEF Press
    <3>2. skip' = "none" \/ ~present
      BY <2>1, <2>4 DEF FilterPress, FilterKeepsPress
    <3>3. skip' = "none"
      BY <2>2, <3>2, <2>1, FilterKeeps DEF KeyboardMatches
    <3> QED BY <1>1, <2>2, <3>1, <3>3, FirstPressKeeps DEF Press, KeysMatch, NoGhostKeys
  <2> QED BY <2>3, <2>4
<1>3. CASE ~before
  <2>1. FirstPress(k) /\ ~SwallowsPress(k)
    BY <1>1, <1>3 DEF Press, FirstPress, SwallowsPress
  <2>2. FilterPress(k, FALSE)
    BY <1>3, <2>1 DEF Press
  <2>3. KeyboardMatches' /\ EscapeIsOver'
    BY <2>2, FilterKeeps DEF Press, EscapeIsOver
  <2> QED BY <1>1, <1>3, <2>1, <2>3, FirstPressKeeps DEF Press, KeysMatch, NoGhostKeys
<1> QED BY <1>2, <1>3 DEF Press

LEMMA RepeatStep == InvInput /\ Repeat => InvInput' /\ fired' \subseteq DOMAIN since
<1> SUFFICES ASSUME InvInput, Repeat PROVE InvInput' /\ fired' \subseteq DOMAIN since
  OBVIOUS
<1> USE DEF InvInput
<1>1. UNCHANGED <<held, repeats, before, started>>
  BY DEF Repeat, chain
<1>2. KeyboardMatches' /\ EscapeIsOver' /\ present' = present
      /\ (before => skip' \in {skip, "none"} \/ skip' = "Enter")
  <2>1. CASE UNCHANGED keyboardVars
    BY <1>1, <2>1 DEF KeyboardMatches, KeyboardIsAsked, EscapeIsOver, keyboardVars
  <2>2. CASE FilterPress(repeats, TRUE)
    BY <1>1, <2>2, FilterKeeps DEF EscapeIsOver, Activates, Suspends, KeyboardMatches
  <2> QED BY <2>1, <2>2 DEF Repeat
<1>3. "Enter" \notin DOMAIN since \cup suppressed
  BY InputAssumption DEF KeysMatch
<1>4. CASE Repetition(repeats)
  BY <1>1, <1>2, <1>3, <1>4, RepetitionKeeps DEF KeysMatch, NoGhostKeys
<1>5. CASE Unfired
  BY <1>1, <1>2, <1>3, <1>5 DEF Unfired, KeysMatch, NoGhostKeys
<1> QED BY <1>4, <1>5 DEF Repeat

(* A release that LongPress never sees is of a key it does not know.         *)
LEMMA LetGoStep == ASSUME InvInput, NEW k \in Key, LetGo(k) PROVE InvInput' /\ fired' = {}
<1> USE DEF InvInput
<1>1. KeyboardMatches' /\ EscapeIsOver'
  BY InputAssumption DEF LetGo, KeyboardMatches, KeyboardIsAsked, EscapeIsOver, keyboardVars
<1>2. CASE before /\ FilterKeepsRelease(k)
  <2>1. k \notin DOMAIN since \cup suppressed
    BY <1>2, InputAssumption DEF FilterKeepsRelease, KeysMatch
  <2> QED BY <1>1, <1>2, <2>1 DEF LetGo, Unfired, KeysMatch, NoGhostKeys, keyboardVars
<1>3. CASE ~(before /\ FilterKeepsRelease(k))
  BY <1>1, <1>3, ReleaseKeeps DEF LetGo, KeysMatch, NoGhostKeys, keyboardVars
<1> QED BY <1>2, <1>3

LEMMA TimeStep == InvInput /\ Time => InvInput' /\ fired' = {}
<1> SUFFICES ASSUME InvInput, Time PROVE InvInput' /\ fired' = {}
  OBVIOUS
<1>1. DOMAIN since' = DOMAIN since
  BY DEF Time, TimePasses
<1> QED
  BY <1>1 DEF Time, TimePasses, chain, InvInput, KeysMatch, NoGhostKeys, KeyboardMatches,
              KeyboardIsAsked, EscapeIsOver, keyboardVars

(* A new keyboard's filter comes first, but it keeps nothing yet.            *)
LEMMA ToggleKeeps ==
  ASSUME InvInput, NEW physical, _toggle_virtual_keyboard(physical), Unfired,
         UNCHANGED <<held, repeats>>
  PROVE  InvInput' /\ fired' = {}
<1> USE DEF InvInput, KeysMatch, NoGhostKeys, KeyboardMatches, KeyboardIsAsked, EscapeIsOver,
            Unfired
<1>1. CASE physical /\ present /\ DeleteKeyboard /\ UNCHANGED before
  BY <1>1 DEF DeleteKeyboard
<1>2. CASE ~physical /\ ~present /\ CreateKeyboard /\ before' = started
  BY <1>2 DEF CreateKeyboard
<1>3. CASE physical # present /\ UNCHANGED <<keyboardVars, before>>
  BY <1>3 DEF keyboardVars
<1> QED BY <1>1, <1>2, <1>3 DEF _toggle_virtual_keyboard

LEMMA PlatformKeeps == InvInput /\ PlatformStep => InvInput' /\ fired' = {}
<1> SUFFICES ASSUME InvInput, PlatformStep PROVE InvInput' /\ fired' = {}
  OBVIOUS
<1> USE DEF InvInput, KeysMatch, NoGhostKeys, KeyboardMatches, KeyboardIsAsked, EscapeIsOver,
            PlatformStep, Unfired, chain
<1>1. CASE PlatformShows
  BY <1>1 DEF PlatformShows
<1>2. CASE PlatformHides
  BY <1>2 DEF PlatformHides
<1>3. CASE MoveCursor
  BY <1>3 DEF MoveCursor
<1>4. CASE HideKeyClicked
  BY <1>4 DEF HideKeyClicked, suspendKeyboard
<1> QED BY <1>1, <1>2, <1>3, <1>4 DEF InputMethod

LEMMA OtherStep == InvInput /\ (Others \/ UNCHANGED inputVars) => InvInput'
BY DEF Others, chain, Unfired, InvInput, KeysMatch, NoGhostKeys, KeyboardMatches,
       KeyboardIsAsked, EscapeIsOver, keyboardVars, inputVars, longPressVars

LEMMA InputStep == InvInput /\ [NextInput]_inputVars => InvInput'
<1> SUFFICES ASSUME InvInput, [NextInput]_inputVars PROVE InvInput'
  OBVIOUS
<1>1. CASE Starts
  BY <1>1, ToggleKeeps DEF Starts
<1>2. CASE KeyboardSignal
  BY <1>2, ToggleKeeps DEF KeyboardSignal
<1> QED
  BY <1>1, <1>2, PressStep, LetGoStep, RepeatStep, TimeStep, PlatformKeeps, OtherStep
     DEF NextInput

(* What fires is long down, and nothing that is down has had its effect.     *)
LEMMA FiresOnce ==
  InvInput /\ [NextInput]_inputVars => (fired' # {} => fired' \cap used = {}) \/ UNCHANGED inputVars
<1> SUFFICES ASSUME InvInput, NextInput PROVE fired' # {} => fired' \cap used = {}
  OBVIOUS
<1>1. CASE Starts
  BY <1>1 DEF Starts, Unfired
<1>2. CASE KeyboardSignal
  BY <1>2 DEF KeyboardSignal, Unfired
<1>3. CASE Repeat
  BY <1>3, RepeatStep DEF InvInput, KeysMatch
<1>4. CASE Others
  BY <1>4 DEF Others, Unfired
<1> QED
  BY <1>1, <1>2, <1>3, <1>4, PressStep, LetGoStep, TimeStep, PlatformKeeps DEF NextInput

(* The invariant of the two filters and the on-screen keyboard.              *)
THEOREM InputInductive == SpecInput => []InvInput
BY InitInvInput, InputStep, PTL DEF SpecInput

(* No key is taken for down that is not (focus_shift's long presses and the  *)
(* on-screen keyboard's filter), however the filters are ordered.            *)
THEOREM KeysAreReal == SpecInput => []NoGhostKeys
<1>1. InvInput => NoGhostKeys
  BY DEF InvInput, KeysMatch
<1> QED
  BY InputInductive, <1>1, PTL

(* The on-screen keyboard agrees with the input method and is on the screen  *)
(* only if the user asked for it (keyboard_widget.py).                       *)
THEOREM KeyboardIsNeverAPest == SpecInput => []KeyboardIsAsked
<1>1. InvInput => KeyboardIsAsked
  BY DEF InvInput, KeyboardMatches
<1> QED
  BY InputInductive, <1>1, PTL

(* A hold leads to one action at most (long_press.py).                       *)
THEOREM HoldsCountOnce == SpecInput => OneActionPerHold
<1>1. InvInput /\ [NextInput]_inputVars => [fired' # {} => fired' \cap used = {}]_inputVars
  BY FiresOnce
<1> QED
  BY InputInductive, <1>1, PTL DEF SpecInput, OneActionPerHold

------------------------------------------------------------------------------
(* The physical keyboard.                                                    *)

(* The last signal on its way tells what the detector holds to be true; with *)
(* none on its way the window has done what that calls for.                  *)
SignalsMatch ==
  /\ signals \in Seq(BOOLEAN) /\ available \in BOOLEAN /\ plugged \in BOOLEAN
  /\ present \in BOOLEAN
  /\ started => connected
  /\ ~connected => signals = << >>
  /\ signals # << >> => signals[Len(signals)] = available
  /\ started /\ signals = << >> => present = ~available
  /\ ~events /\ ~unnoticed => available = plugged

LEMMA LastOfTail ==
  ASSUME NEW s \in Seq(BOOLEAN), s # << >>
  PROVE  /\ Head(s) \in BOOLEAN /\ Tail(s) \in Seq(BOOLEAN)
         /\ Tail(s) = << >> => Head(s) = s[Len(s)]
         /\ Tail(s) # << >> => Tail(s)[Len(Tail(s))] = s[Len(s)]
<1>1. /\ Len(s) \in Nat \ {0} /\ Head(s) \in BOOLEAN /\ Tail(s) \in Seq(BOOLEAN)
      /\ Len(Tail(s)) = Len(s) - 1
      /\ \A i \in 1..Len(Tail(s)) : Tail(s)[i] = s[i + 1]
  BY EmptySeq, HeadTailProperties
<1>2. ASSUME Tail(s) = << >> PROVE Head(s) = s[Len(s)]
  <2>1. Len(s) = 1
    BY <1>1, <1>2, EmptySeq
  <2>2. Head(s) = s[1]
    OBVIOUS
  <2> QED BY <2>1, <2>2
<1>3. ASSUME Tail(s) # << >> PROVE Tail(s)[Len(Tail(s))] = s[Len(s)]
  <2>1. Len(Tail(s)) \in Nat \ {0}
    BY <1>1, <1>3, EmptySeq
  <2>2. Len(Tail(s)) \in 1..Len(Tail(s)) /\ Len(Tail(s)) + 1 = Len(s)
    BY <1>1, <2>1
  <2> QED BY <1>1, <2>2
<1> QED BY <1>1, <1>2, <1>3

LEMMA LastOfAppend ==
  ASSUME NEW s \in Seq(BOOLEAN), NEW b \in BOOLEAN
  PROVE  /\ Append(s, b) \in Seq(BOOLEAN) /\ Append(s, b) # << >>
         /\ Append(s, b)[Len(Append(s, b))] = b
OBVIOUS

(* The window obeys the signal, whether there is a keyboard or not.          *)
LEMMA ToggleObeys ==
  ASSUME NEW physical \in BOOLEAN, present \in BOOLEAN, _toggle_virtual_keyboard(physical)
  PROVE  present' = ~physical
BY DEF _toggle_virtual_keyboard, CreateKeyboard, DeleteKeyboard, keyboardVars

LEMMA InitSignals == InitInput => SignalsMatch
<1> SUFFICES ASSUME InitInput PROVE SignalsMatch
  OBVIOUS
<1>1. signals = << >> /\ << >> \in Seq(BOOLEAN)
  BY DEF InitInput, InitDetector
<1>2. ~started /\ plugged \in BOOLEAN /\ available = plugged /\ present \in BOOLEAN
  BY DEF InitInput, InitDetector, InitKeyboard
<1> QED BY <1>1, <1>2, Zenon DEF SignalsMatch

LEMMA DetectorKeeps == SignalsMatch /\ Others => SignalsMatch'
<1> SUFFICES ASSUME SignalsMatch, Others PROVE SignalsMatch'
  OBVIOUS
<1> USE DEF SignalsMatch, Others, chain, keyboardVars
<1>1. CASE Plug
  BY <1>1 DEF Plug
<1>2. CASE StartObserver
  BY <1>2 DEF StartObserver
<1>3. CASE _observer_callback
  <2>1. CASE plugged # available /\ connected
    <3>1. signals' = Append(signals, plugged) /\ available' = plugged
      BY <1>3, <2>1 DEF _observer_callback
    <3>2. signals' \in Seq(BOOLEAN) /\ signals' # << >> /\ signals'[Len(signals')] = plugged
      BY <3>1, LastOfAppend
    <3> QED BY <1>3, <2>1, <3>1, <3>2 DEF _observer_callback
  <2>2. CASE ~(plugged # available /\ connected)
    BY <1>3, <2>2 DEF _observer_callback
  <2> QED BY <2>1, <2>2
<1>4. CASE ScanFails
  BY <1>4 DEF ScanFails
<1>5. CASE ConnectSlot
  BY <1>5 DEF ConnectSlot
<1> QED BY <1>1, <1>2, <1>3, <1>4, <1>5 DEF Detector

LEMMA WindowFollows == SignalsMatch /\ (Starts \/ KeyboardSignal) => SignalsMatch'
<1> SUFFICES ASSUME SignalsMatch, Starts \/ KeyboardSignal PROVE SignalsMatch'
  OBVIOUS
<1>1. CASE Starts
  <2>1. present' = ~available
    BY <1>1, ToggleObeys DEF Starts, SignalsMatch
  <2> QED BY <1>1, <2>1 DEF Starts, SignalsMatch, detectorVars
<1>2. CASE KeyboardSignal
  <2>1. signals # << >> /\ signals \in Seq(BOOLEAN)
    BY <1>2 DEF KeyboardSignal, SignalsMatch
  <2>2. present' = ~Head(signals)
    BY <1>2, <2>1, LastOfTail, ToggleObeys DEF KeyboardSignal, SignalsMatch
  <2>3. /\ Head(signals) \in BOOLEAN /\ Tail(signals) \in Seq(BOOLEAN)
        /\ Tail(signals) = << >> => Head(signals) = available
        /\ Tail(signals) # << >> => Tail(signals)[Len(Tail(signals))] = available
    BY <2>1, LastOfTail DEF SignalsMatch
  <2> QED BY <1>2, <2>2, <2>3 DEF KeyboardSignal, SignalsMatch
<1> QED BY <1>1, <1>2

(* No key makes a keyboard come or go.                                       *)
LEMMA KeysLeaveSignals ==
  ASSUME SignalsMatch, UNCHANGED <<detectorVars, started, present>>
  PROVE  SignalsMatch'
BY DEF SignalsMatch, detectorVars

LEMMA FilterLeavesPresent == \A k, auto : FilterPress(k, auto) => present' = present
BY DEF FilterPress, keyboardVars, activateKeyboard, suspendKeyboard

LEMMA SignalsStep == SignalsMatch /\ [NextInput]_inputVars => SignalsMatch'
<1> SUFFICES ASSUME SignalsMatch, [NextInput]_inputVars PROVE SignalsMatch'
  OBVIOUS
<1>1. ASSUME NEW k \in Key, Press(k) \/ LetGo(k) PROVE SignalsMatch'
  <2>1. UNCHANGED <<detectorVars, started, present>>
    BY <1>1, FilterLeavesPresent DEF Press, LetGo, keyboardVars
  <2> QED BY <2>1, KeysLeaveSignals
<1>2. CASE Repeat
  <2>1. UNCHANGED <<detectorVars, started, present>>
    BY <1>2, FilterLeavesPresent DEF Repeat, keyboardVars, chain
  <2> QED BY <2>1, KeysLeaveSignals
<1>3. CASE Time \/ UNCHANGED inputVars
  <2>1. UNCHANGED <<detectorVars, started, present>>
    BY <1>3 DEF Time, keyboardVars, chain, inputVars
  <2> QED BY <2>1, KeysLeaveSignals
<1>4. CASE PlatformStep
  <2>1. UNCHANGED <<detectorVars, started, present>>
    BY <1>4 DEF PlatformStep, chain, InputMethod, PlatformShows, PlatformHides, MoveCursor,
                HideKeyClicked, suspendKeyboard
  <2> QED BY <2>1, KeysLeaveSignals
<1> QED
  BY <1>1, <1>2, <1>3, <1>4, DetectorKeeps, WindowFollows DEF NextInput

(* With no signal on its way there is an on-screen keyboard exactly if there *)
(* is no physical one, but for a change that no event has told the thread of *)
(* (keyboard_detector/linux.py, main_widget.py).                             *)
THEOREM KeyboardIsFollowed == SpecInput => []KeyboardFollows
<1>1. SignalsMatch => KeyboardFollows
  BY DEF SignalsMatch, KeyboardFollows
<1> QED
  BY InitSignals, SignalsStep, <1>1, PTL DEF SpecInput

------------------------------------------------------------------------------
(* Types.                                                                    *)

LEMMA TypeInit == InitInput => TypeOKInput
<1> SUFFICES ASSUME InitInput PROVE TypeOKInput
  OBVIOUS
<1>1. TypeOKLongPress
  BY NothingDown DEF InitInput, InitLongPress, TypeOKLongPress
<1>2. TypeOKKeyboard
  BY DEF InitInput, InitKeyboard, TypeOKKeyboard
<1>3. TypeOKDetector
  <2>1. signals = << >> /\ << >> \in Seq(BOOLEAN) /\ Len(<< >>) = 0
    BY EmptySeq DEF InitInput, InitDetector
  <2>2. Len(signals) <= MaxSignals
    BY <2>1, DetectorAssumption
  <2>3. /\ plugged \in BOOLEAN /\ available = plugged /\ events = FALSE /\ observer = "new"
        /\ connected = FALSE /\ unnoticed = FALSE
    BY DEF InitInput, InitDetector
  <2> QED BY <2>1, <2>2, <2>3, Zenon DEF TypeOKDetector
<1> QED BY <1>1, <1>2, <1>3 DEF InitInput, TypeOKInput

LEMMA LongPressTyped ==
  ASSUME TypeOKLongPress, NEW k,
         FirstPress(k) \/ Repetition(k) \/ Release(k) \/ TimePasses \/ Unfired
  PROVE  TypeOKLongPress'
<1> USE LongPressAssumption DEF TypeOKLongPress
<1>1. CASE FirstPress(k)
  <2>1. CASE k \in Tracked
    <3>1. since' = [x \in DOMAIN since \cup {k} |-> IF x = k THEN 0 ELSE since[x]]
      BY <1>1, <2>1 DEF FirstPress
    <3>2. 0 \in 0..Longest
      BY DEF Longest
    <3> QED BY <1>1, <2>1, <3>1, <3>2 DEF FirstPress
  <2>2. CASE k \notin Tracked
    BY <1>1, <2>2 DEF FirstPress
  <2> QED BY <2>1, <2>2
<1>2. CASE Repetition(k)
  <2>1. CASE Candidates(k) = {}
    BY <1>2, <2>1 DEF Repetition
  <2>2. CASE Candidates(k) # {}
    <3>1. DOMAIN since' = {} /\ used' = used \cup DOMAIN since
      BY <1>2, <2>2, NothingDown DEF Repetition
    <3>2. \/ fired' = {} /\ suppressed' = suppressed
          \/ fired' \in Rivals(k) /\ suppressed' = fired'
      BY <1>2, <2>2 DEF Repetition
    <3>3. \A c \in Rivals(k) : c \in Combination /\ c \subseteq DOMAIN since
      BY DEF Rivals, Active, IsLongPressed
    <3> QED BY <3>1, <3>2, <3>3
  <2> QED BY <2>1, <2>2
<1>3. CASE Release(k)
  BY <1>3 DEF Release
<1>4. CASE TimePasses
  <2>1. DOMAIN since' = DOMAIN since
    BY <1>4 DEF TimePasses
  <2>2. ASSUME NEW x \in DOMAIN since PROVE since'[x] \in 0..Longest
    BY <1>4, <2>2 DEF TimePasses, Longest
  <2> QED BY <1>4, <2>1, <2>2 DEF TimePasses
<1>5. CASE Unfired
  BY <1>5 DEF Unfired
<1> QED BY <1>1, <1>2, <1>3, <1>4, <1>5

LEMMA FilterTyped ==
  ASSUME TypeOKKeyboard, NEW k, NEW auto, FilterPress(k, auto)
  PROVE  TypeOKKeyboard'
<1> USE DEF TypeOKKeyboard
<1>1. CASE UNCHANGED keyboardVars
  BY <1>1 DEF keyboardVars
<1>2. CASE present /\ Activates(k) /\ activateKeyboard /\ skip' = k
  BY <1>2 DEF Activates, activateKeyboard
<1>3. CASE present /\ Suspends(k) /\ suspendKeyboard /\ skip' = k
  BY <1>3 DEF Suspends, suspendKeyboard
<1>4. CASE skip' = "none" /\ UNCHANGED <<present, state, visible, shown, field, byUser>>
  BY <1>4
<1> QED BY <1>1, <1>2, <1>3, <1>4 DEF FilterPress

LEMMA KeyboardTyped ==
  ASSUME TypeOKKeyboard, InputMethod \/ \E p : _toggle_virtual_keyboard(p)
  PROVE  TypeOKKeyboard'
<1> USE DEF TypeOKKeyboard
<1>1. CASE PlatformShows
  BY <1>1 DEF PlatformShows
<1>2. CASE PlatformHides
  BY <1>2 DEF PlatformHides
<1>3. CASE MoveCursor
  BY <1>3 DEF MoveCursor
<1>4. CASE HideKeyClicked
  BY <1>4 DEF HideKeyClicked, suspendKeyboard
<1>5. CASE \E p : _toggle_virtual_keyboard(p)
  <2>1. CASE present /\ DeleteKeyboard
    BY <2>1 DEF DeleteKeyboard
  <2>2. CASE ~present /\ CreateKeyboard
    BY <2>2 DEF CreateKeyboard
  <2>3. CASE UNCHANGED keyboardVars
    BY <2>3 DEF keyboardVars
  <2> QED BY <1>5, <2>1, <2>2, <2>3 DEF _toggle_virtual_keyboard
<1> QED BY <1>1, <1>2, <1>3, <1>4, <1>5 DEF InputMethod

LEMMA DetectorTyped ==
  ASSUME TypeOKDetector, Plug \/ Detector \/ ConnectSlot
  PROVE  TypeOKDetector'
<1> USE DEF TypeOKDetector
<1>1. CASE Plug
  BY <1>1 DEF Plug
<1>2. CASE StartObserver
  BY <1>2 DEF StartObserver
<1>3. CASE _observer_callback
  <2>1. CASE plugged # available /\ connected
    <3>1. signals' = Append(signals, plugged) /\ Len(signals) < MaxSignals
      BY <1>3, <2>1 DEF _observer_callback
    <3>2. signals' \in Seq(BOOLEAN) /\ Len(signals') = Len(signals) + 1 /\ Len(signals) \in Nat
      BY <3>1
    <3>3. Len(signals') <= MaxSignals
      BY <3>1, <3>2, DetectorAssumption
    <3> QED BY <1>3, <3>2, <3>3 DEF _observer_callback
  <2>2. CASE ~(plugged # available /\ connected)
    BY <1>3, <2>2 DEF _observer_callback
  <2> QED BY <2>1, <2>2
<1>4. CASE ScanFails
  BY <1>4 DEF ScanFails
<1>5. CASE ConnectSlot
  BY <1>5 DEF ConnectSlot
<1> QED BY <1>1, <1>2, <1>3, <1>4, <1>5 DEF Detector

LEMMA TypeStep == TypeOKInput /\ [NextInput]_inputVars => TypeOKInput'
<1> SUFFICES ASSUME TypeOKInput, [NextInput]_inputVars PROVE TypeOKInput'
  OBVIOUS
<1> USE DEF TypeOKInput
<1>1. UNCHANGED keyboardVars => TypeOKKeyboard'
  BY DEF TypeOKKeyboard, keyboardVars
<1>2. UNCHANGED detectorVars => TypeOKDetector'
  BY DEF TypeOKDetector, detectorVars
<1>3. ASSUME NEW k \in Key, Press(k) PROVE TypeOKInput'
  BY <1>1, <1>2, <1>3, LongPressTyped, FilterTyped DEF Press
<1>4. ASSUME NEW k \in Key, LetGo(k) PROVE TypeOKInput'
  BY <1>1, <1>2, <1>4, LongPressTyped DEF LetGo
<1>5. CASE Repeat
  BY <1>1, <1>2, <1>5, LongPressTyped, FilterTyped DEF Repeat, chain
<1>6. CASE Time
  BY <1>1, <1>2, <1>6, LongPressTyped DEF Time, chain
<1>7. CASE Starts
  <2>1. TypeOKLongPress' /\ TypeOKKeyboard' /\ TypeOKDetector'
    BY <1>2, <1>7, LongPressTyped, KeyboardTyped DEF Starts
  <2>2. before' \in BOOLEAN
    BY <1>7 DEF Starts, _toggle_virtual_keyboard
  <2> QED BY <1>7, <2>1, <2>2 DEF Starts
<1>8. CASE KeyboardSignal
  <2>1. TypeOKLongPress' /\ TypeOKKeyboard'
    BY <1>8, LongPressTyped, KeyboardTyped DEF KeyboardSignal
  <2>2. signals' \in Seq(BOOLEAN) /\ Len(signals') = Len(signals) - 1 /\ Len(signals) \in Nat
    BY <1>8, HeadTailProperties DEF KeyboardSignal, TypeOKDetector
  <2>3. Len(signals') <= MaxSignals
    BY <2>2, DetectorAssumption DEF TypeOKDetector
  <2>4. TypeOKDetector'
    BY <1>8, <2>2, <2>3 DEF KeyboardSignal, TypeOKDetector
  <2>5. before' \in BOOLEAN
    BY <1>8 DEF KeyboardSignal, _toggle_virtual_keyboard
  <2> QED BY <1>8, <2>1, <2>4, <2>5 DEF KeyboardSignal
<1>9. CASE Others
  BY <1>1, <1>9, LongPressTyped, DetectorTyped DEF Others, chain
<1>10. CASE PlatformStep
  BY <1>2, <1>10, LongPressTyped, KeyboardTyped DEF PlatformStep, chain
<1>11. CASE UNCHANGED inputVars
  BY <1>1, <1>2, <1>11 DEF inputVars, longPressVars, TypeOKLongPress
<1> QED
  BY <1>3, <1>4, <1>5, <1>6, <1>7, <1>8, <1>9, <1>10, <1>11 DEF NextInput

(* Every variable of the input keeps its type; the age of a key that is down *)
(* and the signals on their way stay within their bounds.                    *)
THEOREM TypeCorrectInput == SpecInput => []TypeOKInput
BY TypeInit, TypeStep, PTL DEF SpecInput
=============================================================================
