--------------------------- MODULE NetworkWatchdog ---------------------------
(* The network watchdog: a loop that requests the check URLs, counts rounds  *)
(* without an answer and restarts ConnMan, and a second thread that notes    *)
(* when a ConnMan setting changed.  Time is discrete: Tick is one unit, a     *)
(* fraction of a second, so that durations need not be whole seconds; the    *)
(* clock by which changes are noted may be set, for instance by NTP.         *)
EXTENDS Integers

CONSTANTS
  NumUrls,              \* length of check_urls
  max_num_failures, check_interval, check_url_timeout, setting_change_delay,
  Second,               \* units of time in a second
  MaxSetBack            \* bound: how far the clock is set back after a change

ASSUME WatchdogAssumption ==
  /\ NumUrls \in Nat \ {0} /\ max_num_failures \in Nat \ {0}
  /\ check_interval \in Nat \ {0} /\ check_url_timeout \in Nat \ {0}
  /\ setting_change_delay \in Nat \ {0} /\ Second \in Nat \ {0} /\ MaxSetBack \in Nat

VARIABLES
  state,      \* State of the loop; the delay keeps the state it comes back to
  remain,     \* remain_attempts of StateOnceConnected, 0 in other states
  at,         \* where the loop is: its top, decided what to run, or in a step of that
  url,        \* the URL being requested
  timer,      \* time left of the request or the sleep
  quiet,      \* time since last_update, as far as it is told apart
  clock,      \* by how much the clock was set forward since then, or (negative) back
  reachable,  \* the URLs that answer within check_url_timeout
  misses,     \* rounds without an answer since the last one; -1 if none since the start
  elapsed,    \* time spent in rounds and naps since the first of those rounds began
  lead,       \* the furthest the clock was set forward since the last change
  raced       \* whether that change came when the loop had already looked

loopVars == <<state, remain, at, url, timer>>
history == <<misses, elapsed>>
noted == <<quiet, clock, lead, raced>>
watchdogVars == <<loopVars, noted, reachable, history>>

Url == 1..NumUrls
LongAgo == setting_change_delay + MaxSetBack
TypeOKWatchdog ==
  /\ state \in {"NEVER_CONNECTED", "ONCE_CONNECTED", "DISCONNECTED"}
  /\ remain \in 0..max_num_failures /\ (remain > 0 <=> state = "ONCE_CONNECTED")
  /\ at \in {"top", "decided", "request", "nap", "delay", "restart"}
  /\ url \in Url
  /\ timer \in Nat
  /\ quiet \in 0..LongAgo
  /\ clock \in -MaxSetBack..setting_change_delay
  /\ reachable \subseteq Url
  /\ misses \in Int /\ misses >= -1
  /\ elapsed \in Nat
  /\ lead \in 0..setting_change_delay /\ raced \in BOOLEAN

(* run: where a process begins; last_update lies in 1970. *)
InitWatchdog ==
  /\ state = "NEVER_CONNECTED" /\ remain = 0
  /\ at = "top" /\ url = 1 /\ timer = 0
  /\ quiet = LongAgo /\ clock = 0 /\ lead = 0 /\ raced = FALSE
  /\ reachable \in SUBSET Url
  /\ misses = -1 /\ elapsed = 0

------------------------------------------------------------------------------
(* The top of the loop: last_update is looked at, and what follows is        *)
(* decided; the monitor thread may note a change between the two.            *)

SinceUpdate == quiet + clock
SettingsChanged == SinceUpdate < setting_change_delay

(* A number of seconds, rounded up to a whole one. *)
math_ceil(t) == t + ((-t) % Second)

run_state_setting_change_delay ==
  /\ at' = "delay" /\ timer' = math_ceil(setting_change_delay - SinceUpdate)
  /\ UNCHANGED raced

override_state_if_connman_properties_changed ==
  /\ at = "top"
  /\ \/ SettingsChanged /\ run_state_setting_change_delay
     \/ ~SettingsChanged /\ at' = "decided" /\ timer' = 0 /\ raced' = FALSE
  /\ UNCHANGED <<state, remain, url, quiet, clock, lead, reachable, history>>

StartRound ==
  /\ at = "decided" /\ state # "DISCONNECTED"
  /\ at' = "request" /\ url' = 1 /\ timer' = check_url_timeout
  /\ elapsed' = IF misses > 0 THEN elapsed ELSE 0
  /\ UNCHANGED <<state, remain, noted, reachable, misses>>

run_state_disconnected ==
  /\ at = "decided" /\ state = "DISCONNECTED"
  /\ at' = "restart"
  /\ UNCHANGED <<state, remain, url, timer, noted, reachable, history>>

(* Mutant: the connection counts as re-established. *)
ConnmanRestarted_Connected ==
  /\ at = "restart"
  /\ state' = "ONCE_CONNECTED" /\ remain' = max_num_failures /\ misses' = 0 /\ at' = "top"
  /\ UNCHANGED <<url, timer, noted, reachable, elapsed>>

(* systemctl restart has returned, whatever its exit code. *)
ConnmanRestarted ==
  /\ at = "restart"
  /\ state' = "NEVER_CONNECTED" /\ at' = "top" /\ misses' = -1
  /\ UNCHANGED <<remain, url, timer, noted, reachable, elapsed>>

------------------------------------------------------------------------------
(* One round of perform_url_checks.                                          *)

(* Mutant: an answer does not give back the attempts used up. *)
CheckSucceeds_AttemptsKept ==
  /\ at = "request" /\ url \in reachable
  /\ state' = "ONCE_CONNECTED" /\ misses' = 0
  /\ remain' = IF state = "ONCE_CONNECTED" THEN remain ELSE max_num_failures
  /\ IF state = "ONCE_CONNECTED" THEN at' = "nap" /\ timer' = check_interval
                                 ELSE at' = "top" /\ timer' = 0
  /\ UNCHANGED <<url, noted, reachable, elapsed>>

(* An answer ends the round; only a connection that was there before sleeps. *)
CheckSucceeds ==
  /\ at = "request" /\ url \in reachable
  /\ state' = "ONCE_CONNECTED" /\ remain' = max_num_failures /\ misses' = 0
  /\ IF state = "ONCE_CONNECTED" THEN at' = "nap" /\ timer' = check_interval
                                 ELSE at' = "top" /\ timer' = 0
  /\ UNCHANGED <<url, noted, reachable, elapsed>>

(* A request that is refused or times out: the next URL is tried.            *)
NextUrl ==
  /\ at = "request" /\ url \notin reachable /\ url < NumUrls
  /\ url' = url + 1 /\ timer' = check_url_timeout
  /\ UNCHANGED <<state, remain, at, noted, reachable, history>>

(* None was left: the round has failed. *)
RoundFails ==
  /\ at = "request" /\ url \notin reachable /\ url = NumUrls
  /\ misses' = IF misses = -1 THEN -1 ELSE misses + 1
  /\ UNCHANGED <<url, noted, reachable, elapsed>>

run_state_never_connected ==
  /\ state = "NEVER_CONNECTED" /\ RoundFails
  /\ at' = "nap" /\ timer' = check_interval
  /\ UNCHANGED <<state, remain>>

(* Mutants: a nap before the loss is reported; none between two attempts.    *)
run_state_once_connected_NapFirst ==
  /\ state = "ONCE_CONNECTED" /\ RoundFails
  /\ remain' = remain - 1 /\ at' = "nap" /\ timer' = check_interval
  /\ state' = IF remain' > 0 THEN state ELSE "DISCONNECTED"
run_state_once_connected_NoNap ==
  /\ state = "ONCE_CONNECTED" /\ RoundFails
  /\ remain' = remain - 1 /\ at' = "top" /\ timer' = 0
  /\ state' = IF remain' > 0 THEN state ELSE "DISCONNECTED"

run_state_once_connected ==
  /\ state = "ONCE_CONNECTED" /\ RoundFails
  /\ remain' = remain - 1
  /\ IF remain' > 0
     THEN state' = state /\ at' = "nap" /\ timer' = check_interval
     ELSE state' = "DISCONNECTED" /\ at' = "top" /\ timer' = 0

(* Mutant: after the delay the next state is run without another look. *)
Wake_NotLooking ==
  /\ at \in {"nap", "delay"} /\ timer = 0
  /\ at' = IF at = "nap" THEN "top" ELSE "decided"
  /\ UNCHANGED <<state, remain, url, timer, noted, reachable, history>>

(* check_sleep and the delay are over: back to the top. *)
Wake ==
  /\ at \in {"nap", "delay"} /\ timer = 0
  /\ at' = "top"
  /\ UNCHANGED <<state, remain, url, timer, noted, reachable, history>>

------------------------------------------------------------------------------
(* Time, the monitor thread, the network and systemd.                        *)

Tick ==
  /\ timer > 0 /\ timer' = timer - 1
  /\ quiet' = IF quiet < LongAgo THEN quiet + 1 ELSE quiet
  /\ elapsed' = IF at = "delay" THEN elapsed ELSE elapsed + 1
  /\ UNCHANGED <<state, remain, at, url, clock, lead, raced, reachable, misses>>

(* A change of a property that is not on the ignore list. *)
_mark_update ==
  /\ quiet' = 0 /\ clock' = 0 /\ lead' = 0
  /\ raced' = (at = "decided")
  /\ UNCHANGED <<loopVars, reachable, history>>

ClockIsSet ==
  /\ clock' \in -MaxSetBack..setting_change_delay
  /\ lead' = IF clock' > lead THEN clock' ELSE lead
  /\ UNCHANGED <<loopVars, quiet, raced, reachable, history>>

NetworkChanges ==
  /\ reachable' \in SUBSET Url
  /\ UNCHANGED <<loopVars, noted, history>>

(* An exception at the top of the loop ends the process, and systemd starts  *)
(* another, which knows of no change.  get_current_proxy raises one for a    *)
(* proxy URL with no valid port or a service without a state; a call that    *)
(* ConnMan does not answer counts as "no proxy".                             *)
Crash ==
  /\ at = "top"
  /\ state' = "NEVER_CONNECTED" /\ remain' = 0 /\ url' = 1 /\ timer' = 0
  /\ quiet' = LongAgo /\ clock' = 0 /\ lead' = 0 /\ raced' = FALSE
  /\ misses' = -1 /\ elapsed' = 0
  /\ UNCHANGED <<at, reachable>>

LoopStep ==
  \/ override_state_if_connman_properties_changed \/ StartRound \/ run_state_disconnected
  \/ ConnmanRestarted \/ CheckSucceeds \/ NextUrl
  \/ run_state_never_connected \/ run_state_once_connected \/ Wake

NextWatchdog == LoopStep \/ Tick \/ _mark_update \/ ClockIsSet \/ NetworkChanges \/ Crash

SpecWatchdog == InitWatchdog /\ [][NextWatchdog]_watchdogVars
FairWatchdog == WF_watchdogVars(LoopStep) /\ WF_watchdogVars(Tick)
FairSpecWatchdog == SpecWatchdog /\ FairWatchdog

------------------------------------------------------------------------------
(* Safety. *)

(* ConnMan is only restarted after an answer, followed by max_num_failures   *)
(* rounds in a row in which no URL answered, whatever delays, changes of     *)
(* settings and restarts of the watchdog came between them.                  *)
RestartNeedsFailures == at = "restart" => misses = max_num_failures

(* What the option settingChangeDelay promises: the watchdog is paused for   *)
(* that long after any change of a setting.  Neither a round of requests nor *)
(* a restart of ConnMan begins sooner, also when the change came in the      *)
(* middle of a round, a nap or an earlier pause, or the clock was set back   *)
(* meanwhile.  The exceptions are a clock that was set forward, which        *)
(* shortens the pause by as much, a change that the loop had no chance to    *)
(* see because it had just looked, and one noted by an earlier process.      *)
Begins(place) == at # place /\ at' = place
ChangesPauseTheWatchdog ==
  [][Begins("request") \/ Begins("restart") =>
       raced \/ quiet + lead >= setting_change_delay]_watchdogVars

(* The loss of a connection is noticed within the time the integration test  *)
(* of the watchdog computes, not counting the delays: every attempt takes    *)
(* one time-out per URL, and there is a nap between two of them.             *)
RoundTime == NumUrls * check_url_timeout
DetectsInTime ==
  state = "DISCONNECTED" =>
    elapsed <= (max_num_failures - 1) * check_interval + max_num_failures * RoundTime

(* Nor is it noticed sooner than the same test allows, which fails when      *)
(* "DISCONNECTED" is reached too soon: between any two of the failed         *)
(* attempts there is a whole nap, whatever delays came between them.         *)
WaitsBetweenAttempts ==
  state = "DISCONNECTED" => elapsed >= (max_num_failures - 1) * check_interval

------------------------------------------------------------------------------
(* Liveness, once neither the network, the settings nor the clock change.    *)

Steady ==
  <>[][UNCHANGED reachable /\ ~_mark_update /\ ~ClockIsSet /\ ~Crash]_watchdogVars

(* With a URL that answers, all attempts are available again and stay so.    *)
Reconnects ==
  Steady /\ <>[](reachable # {}) =>
    <>[](state = "ONCE_CONNECTED" /\ remain = max_num_failures)

(* Without one, ConnMan is restarted at most once more: the watchdog waits   *)
(* for a first connection instead of restarting it over and over.            *)
StopsRestarting ==
  Steady /\ <>[](reachable = {}) => <>[](state = "NEVER_CONNECTED" /\ at # "restart")
=============================================================================
