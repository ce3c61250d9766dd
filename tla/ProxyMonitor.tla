----------------------------- MODULE ProxyMonitor -----------------------------
(* The kiosk's copy of ConnMan's proxy: read when the program starts, read   *)
(* again by a thread once it listens, and then at every signal.              *)

CONSTANTS ProxyConf, NoProxy

VARIABLES
  actual,   \* the proxy of ConnMan's default service
  known,    \* _proxy, which is also the one set in Qt
  monitor,  \* where the thread is
  answer,   \* what get_current_proxy has returned to it
  signal,   \* a PropertyChanged of a proxy waits to be handled
  misread,  \* history: the last call failed; taken for "no proxy", or for no news
  moved     \* history: another service has become the default one since

proxyVars == <<actual, known, monitor, answer, signal, misread, moved>>

Proxies == ProxyConf \cup {NoProxy}
TypeOKProxy ==
  /\ {actual, known, answer} \subseteq Proxies
  /\ monitor \in {"start", "first", "read", "update", "loop", "dead"}
  /\ {signal, misread, moved} \subseteq BOOLEAN
  /\ signal => monitor \notin {"start", "dead"}

(* The program has called once; no answer counts as no proxy, and with an    *)
(* exception the program would not have started.                             *)
InitProxy ==
  /\ actual \in Proxies /\ known \in {actual, NoProxy} /\ answer = NoProxy
  /\ monitor = "start" /\ signal = FALSE /\ misread = FALSE /\ moved = FALSE

Listening == monitor \notin {"start", "dead"}

(* The proxy of the default service is set. *)
ProxyIsSet ==
  /\ actual' \in Proxies \ {actual}
  /\ signal' = Listening
  /\ UNCHANGED <<known, monitor, answer, misread, moved>>

(* That of another service is, which is signalled all the same. *)
OtherProxyIsSet ==
  /\ signal' = Listening
  /\ UNCHANGED <<actual, known, monitor, answer, misread, moved>>

(* A cable is plugged in, a network lost: the proxy is that of another       *)
(* service, and no Proxy property has changed.                               *)
DefaultServiceChanges ==
  /\ actual' \in Proxies \ {actual} /\ moved' = TRUE
  /\ UNCHANGED <<known, monitor, answer, signal, misread>>

ProxyChanges == ProxyIsSet \/ OtherProxyIsSet \/ DefaultServiceChanges

------------------------------------------------------------------------------
(* _monitor *)

(* Mutant: no update after the monitoring is on. *)
Subscribe_NoUpdate ==
  /\ monitor = "start" /\ monitor' = "loop"
  /\ UNCHANGED <<actual, known, answer, signal, misread, moved>>

Subscribe ==
  /\ monitor = "start" /\ monitor' = "first"
  /\ UNCHANGED <<actual, known, answer, signal, misread, moved>>

(* A call that ConnMan does not answer counts as "no proxy".                 *)
get_current_proxy ==
  /\ monitor \in {"first", "read"} /\ monitor' = "update" /\ moved' = FALSE
  /\ \/ answer' = actual /\ misread' = FALSE
     \/ answer' = NoProxy /\ misread' = TRUE
  /\ UNCHANGED <<actual, known, signal>>

(* A proxy with no valid port, or a service without a state, is an exception.*)
(* It ends a handler without an update, and before the loop the thread.      *)
CallRaises ==
  /\ misread' = TRUE /\ moved' = FALSE
  /\ \/ monitor = "first" /\ monitor' = "dead" /\ signal' = FALSE
     \/ monitor = "read" /\ monitor' = "loop" /\ UNCHANGED signal
  /\ UNCHANGED <<actual, known, answer>>

_update ==
  /\ monitor = "update" /\ monitor' = "loop"
  /\ known' = answer /\ answer' = NoProxy
  /\ UNCHANGED <<actual, signal, misread, moved>>

_on_property_changed ==
  /\ monitor = "loop" /\ signal
  /\ monitor' = "read" /\ signal' = FALSE
  /\ UNCHANGED <<actual, known, answer, misread, moved>>

Monitor ==
  Subscribe \/ get_current_proxy \/ CallRaises \/ _update \/ _on_property_changed
------------------------------------------------------------------------------
(* "Update just after monitoring is on, so that we do not miss any proxy     *)
(* modification": whenever its thread has nothing left to do, the kiosk uses *)
(* ConnMan's proxy.  The exceptions: its last call failed; another service   *)
(* has become the default one since that call, which the kiosk learns only   *)
(* with the next change of a Proxy property; and the thread has died of an   *)
(* exception in its first call.                                              *)
ProxyIsKnown ==
  monitor = "loop" /\ ~signal /\ ~misread /\ ~moved => known = actual
=============================================================================
