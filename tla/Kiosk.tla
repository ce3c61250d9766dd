-------------------------------- MODULE Kiosk --------------------------------
(* The main window of the kiosk: the browser, which also shows the settings  *)
(* and the login page of a network in a dialog, and the thread that looks    *)
(* for such a page (a captive portal) and then shows a message.  Handlers of *)
(* the window run one at a time; the thread interleaves with them.           *)
EXTENDS BrowserWidget, ProxyMonitor

VARIABLES
  dialog,      \* the title of the dialog, "none" if the browser is undecorated
  message,     \* the message about the portal is open
  portalOpen,  \* _is_captive_portal_open
  handler,     \* how far _show_captive_portal has come
  check,       \* where the thread is
  portal       \* the network asks for a login

windowVars == <<dialog, message, portalOpen, handler>>
kioskVars == <<browserVars, proxyVars, windowVars, check, portal>>

TypeOKKiosk ==
  /\ TypeOKBrowser /\ TypeOKProxy
  /\ dialog \in {"none", "System Settings", "Network Login"}
  /\ {message, portalOpen, portal} \subseteq BOOLEAN
  /\ handler \in {"idle", "opening", "opened"}
  /\ check \in {"sleep", "request", "test", "show"}

InitKiosk ==
  /\ InitBrowser /\ InitProxy
  /\ dialog = "none" /\ message = FALSE /\ portalOpen = FALSE
  /\ handler = "idle" /\ check = "sleep" /\ portal \in BOOLEAN

Ready == handler = "idle"
decorate(title) == dialog' = IF dialog = "none" THEN title ELSE dialog

------------------------------------------------------------------------------
(* Handlers of the window. *)

_open_settings ==
  /\ Ready /\ (dialog = "none" \/ view = "error")   \* a shortcut; the error page's button
  /\ load("settings") /\ decorate("System Settings")
  /\ UNCHANGED <<message, portalOpen, handler, check, portal, proxyVars>>

(* Mutant: the portal is not noted as closed. *)
_close_dialog_StillOpen ==
  /\ Ready /\ dialog # "none"
  /\ dialog' = "none" /\ load("kiosk")
  /\ UNCHANGED <<message, portalOpen, handler, check, portal, proxyVars>>

_close_dialog ==
  /\ Ready /\ dialog # "none"
  /\ dialog' = "none" /\ load("kiosk") /\ portalOpen' = FALSE
  /\ UNCHANGED <<message, handler, check, portal, proxyVars>>

(* The message's button.  An open dialog is closed first; the thread may     *)
(* look at the window between any two of the three steps.                    *)
_show_captive_portal ==
  /\ Ready /\ message
  /\ IF dialog = "none" THEN UNCHANGED <<browserVars, portalOpen>>
                        ELSE load("kiosk") /\ portalOpen' = FALSE
  /\ dialog' = "none" /\ message' = FALSE /\ handler' = "opening"
  /\ UNCHANGED <<check, portal, proxyVars>>

LoadPortal ==
  /\ handler = "opening" /\ handler' = "opened"
  /\ load("portal") /\ decorate("Network Login")
  /\ UNCHANGED <<message, portalOpen, check, portal, proxyVars>>

NotePortal ==
  /\ handler = "opened" /\ handler' = "idle" /\ portalOpen' = TRUE
  /\ UNCHANGED <<browserVars, dialog, message, check, portal, proxyVars>>

BrowserKeys ==
  /\ Ready /\ (reload \/ hard_refresh \/ full_reload)
  /\ UNCHANGED <<windowVars, check, portal, proxyVars>>

User == _open_settings \/ _close_dialog \/ _show_captive_portal \/ BrowserKeys
Handler == LoadPortal \/ NotePortal

BrowserEvent ==
  /\ Ready /\ Engine
  /\ UNCHANGED <<windowVars, check, portal, proxyVars>>

------------------------------------------------------------------------------
(* _check, the thread; a check behind a proxy ends at once.  A request has no*)
(* time-out: it may be answered late or never.                               *)

StartCheck ==
  /\ check = "sleep" /\ known = NoProxy /\ check' = "request"
  /\ UNCHANGED <<browserVars, windowVars, portal, proxyVars>>

Answer ==
  /\ check = "request"
  /\ check' = IF portal THEN "test" ELSE "sleep"
  /\ UNCHANGED <<browserVars, windowVars, portal, proxyVars>>

_show_captive_portal_message ==
  /\ check = "test"
  /\ check' = IF message \/ portalOpen THEN "sleep" ELSE "show"
  /\ UNCHANGED <<browserVars, windowVars, portal, proxyVars>>

ShowMessage ==
  /\ check = "show" /\ check' = "sleep" /\ message' = TRUE
  /\ UNCHANGED <<browserVars, dialog, portalOpen, handler, portal, proxyVars>>

CheckThread == StartCheck \/ Answer \/ _show_captive_portal_message \/ ShowMessage
ProxyThread == Monitor /\ UNCHANGED <<browserVars, windowVars, check, portal>>

------------------------------------------------------------------------------
(* The network, and the end of the renderer, which ends the program: the     *)
(* session starts another.                                                   *)

World ==
  \/ NetworkChanges /\ UNCHANGED <<windowVars, check, portal, proxyVars>>
  \/ ProxyChanges /\ UNCHANGED <<browserVars, windowVars, check, portal>>
  \/ portal' = ~portal /\ UNCHANGED <<browserVars, windowVars, check, proxyVars>>

_handle_render_process_terminated ==
  /\ Ready
  /\ url' = "kiosk" /\ loading' = TRUE /\ stale' = FALSE /\ full' = FALSE
  /\ view' = "loading" /\ timer' = FALSE
  /\ dialog' = "none" /\ message' = FALSE /\ portalOpen' = FALSE /\ check' = "sleep"
  /\ known' \in {actual, NoProxy} /\ answer' = NoProxy
  /\ monitor' = "start" /\ signal' = FALSE /\ misread' = FALSE /\ moved' = FALSE
  /\ UNCHANGED <<handler, portal, actual, online>>

NextKiosk ==
  \/ User \/ Handler \/ BrowserEvent \/ CheckThread \/ ProxyThread
  \/ World \/ _handle_render_process_terminated

SpecKiosk ==
  /\ InitKiosk /\ [][NextKiosk]_kioskVars
  /\ WF_kioskVars(Handler) /\ WF_kioskVars(ProxyThread)
  /\ WF_kioskVars(CheckThread /\ check # "request")
  /\ WF_kioskVars(Ready /\ TimerFires /\ BrowserEvent)
  /\ WF_kioskVars(BrowserEvent /\ (LoadFinished \/ FullReloadContinues))

------------------------------------------------------------------------------

(* Once the network stays and the user keeps still, the page is on the       *)
(* screen and no timer is left to reload it.                                 *)
PageComesBack ==
  <>[][~User /\ UNCHANGED online /\ ~_handle_render_process_terminated]_kioskVars =>
    <>[]((online \/ url = "settings") => view = "loaded" /\ ~timer)

(* "If a captive portal is detected [...], a prompt appears to open it": as  *)
(* long as there is one, and no proxy, the message is shown or the login is  *)
(* on the screen, again and again, whatever the user opens and closes        *)
(* meanwhile.  The exceptions are settings that were opened from the login's *)
(* error page and are left open, since the portal counts as open behind them,*)
(* and a request that never ends.                                            *)
LoginOpen == portalOpen /\ dialog # "none" /\ url = "portal"
SettingsOverLogin == portalOpen /\ dialog # "none" /\ url = "settings"
PortalIsOffered ==
  <>[](portal /\ known = NoProxy) /\ <>[][~_handle_render_process_terminated]_kioskVars =>
    \/ []<>(message \/ LoginOpen)
    \/ <>[]SettingsOverLogin
    \/ <>[](check = "request")
=============================================================================
