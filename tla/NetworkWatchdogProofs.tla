------------------------ MODULE NetworkWatchdogProofs ------------------------
(* Proofs about NetworkWatchdog, for any number of URLs and any durations.   *)
EXTENDS NetworkWatchdog, TLAPS

(* Where the loop can be in each state, and for how long. *)
Places ==
  /\ at \in {"top", "decided", "restart"} => timer = 0
  /\ at = "request" => timer <= check_url_timeout
  /\ at = "restart" => state = "DISCONNECTED"
  /\ at \in {"request", "nap"} => state # "DISCONNECTED"

(* The attempts used up are the rounds that failed. *)
Counted ==
  /\ state = "NEVER_CONNECTED" => misses = -1
  /\ state = "ONCE_CONNECTED" => misses = max_num_failures - remain
  /\ state = "DISCONNECTED" => misses = max_num_failures

(* What the failed rounds may have taken, each with the nap after it. *)
Attempt == RoundTime + check_interval
Spent == (IF misses > 0 THEN misses ELSE 0) * Attempt
Budget ==
  /\ at = "request" => elapsed + timer <= Spent + url * check_url_timeout
  /\ misses > 0 /\ at = "nap" => elapsed + timer <= Spent
  /\ misses > 0 /\ at \in {"top", "decided", "delay"} => elapsed <= Spent
  /\ state = "DISCONNECTED" => elapsed + check_interval <= Spent

(* What they must have taken: every attempt but the last has had its nap. *)
Naps == misses * check_interval
Waited ==
  misses >= 0 =>
    /\ at = "nap" => elapsed + timer >= Naps
    /\ at # "nap" /\ state # "DISCONNECTED" => elapsed >= Naps
    /\ state = "DISCONNECTED" => elapsed + check_interval >= Naps

(* What the loop has decided on rests on a look that is not out of date, but *)
(* for a change that came since.                                             *)
Looked ==
  /\ lead >= clock
  /\ at = "decided" => raced \/ quiet + lead >= setting_change_delay

IInvWatchdog == TypeOKWatchdog /\ Places /\ Counted /\ Budget /\ Waited /\ Looked

------------------------------------------------------------------------------
(* Arithmetic of products, kept away from the steps of the loop. *)
LEMMA OneMore ==
  ASSUME NEW m \in Int, NEW k \in Int
  PROVE  /\ (m + 1) * k = m * k + k
         /\ m * k \in Int /\ 0 * k = 0 /\ 1 * k = k
  BY SMT

LEMMA Durations ==
  /\ RoundTime \in Nat /\ Attempt \in Nat
  /\ RoundTime = NumUrls * check_url_timeout
  /\ Attempt = RoundTime + check_interval
  BY WatchdogAssumption DEF RoundTime, Attempt

(* Rounding up makes no duration shorter. *)
LEMMA Ceiling ==
  ASSUME NEW t \in Int
  PROVE  math_ceil(t) \in Int /\ math_ceil(t) >= t
  <1>1. (-t) % Second \in Nat
    BY WatchdogAssumption
  <1> HIDE WatchdogAssumption
  <1> QED BY <1>1 DEF math_ceil

LEMMA LeadGrows ==
  ASSUME NEW q \in Int, NEW a \in Int, NEW b \in Int, NEW d \in Int, b >= a
  PROVE  q + a >= d => q + b >= d
  BY SMT

LEMMA NapsCounted ==
  ASSUME misses \in Int
  PROVE  Naps \in Int /\ (misses = 0 => Naps = 0)
  BY WatchdogAssumption, OneMore DEF Naps

LEMMA InitIInv == InitWatchdog => IInvWatchdog
  <1> SUFFICES ASSUME InitWatchdog PROVE IInvWatchdog
    OBVIOUS
  <1> USE WatchdogAssumption DEF InitWatchdog
  <1>5. raced \in BOOLEAN OBVIOUS
  <1>1. TypeOKWatchdog BY <1>5 DEF TypeOKWatchdog, Url, LongAgo
  <1>2. Places /\ Counted BY DEF Places, Counted
  <1>3. Budget BY DEF Budget
  <1>4. Waited /\ Looked BY DEF Waited, Looked
  <1> QED BY <1>1, <1>2, <1>3, <1>4 DEF IInvWatchdog

LEMMA NextIInv == IInvWatchdog /\ [NextWatchdog]_watchdogVars => IInvWatchdog'
  <1> SUFFICES ASSUME IInvWatchdog, [NextWatchdog]_watchdogVars PROVE IInvWatchdog'
    OBVIOUS
  <1> USE WatchdogAssumption, Durations DEF IInvWatchdog, TypeOKWatchdog, Url, LongAgo, noted
  <1>0. Naps \in Int /\ (misses = 0 => Naps = 0) BY NapsCounted
  <1>1. CASE override_state_if_connman_properties_changed
    <2> USE <1>1 DEF override_state_if_connman_properties_changed,
                     run_state_setting_change_delay, SettingsChanged, SinceUpdate, history
    <2>0. /\ at' \in {"delay", "decided"} /\ timer' \in Nat
          /\ at' = "decided" => timer' = 0
      BY Ceiling
    <2>1. TypeOKWatchdog' BY <2>0
    <2>2. Places' /\ Counted' BY <2>0 DEF Places, Counted
    <2>3. Spent' = Spent BY DEF Spent
    <2>4. Budget' BY <2>0, <2>3 DEF Budget
    <2>5. Naps' = Naps BY DEF Naps
    <2>6. Waited' BY <2>0, <2>5 DEF Waited
    <2>7. Looked' BY <2>0 DEF Looked
    <2> QED BY <2>1, <2>2, <2>4, <2>6, <2>7
  <1>2. CASE StartRound
    <2> USE <1>2 DEF StartRound
    <2>1. TypeOKWatchdog' OBVIOUS
    <2>2. Places' /\ Counted' BY DEF Places, Counted
    <2>3. Spent' = Spent BY DEF Spent
    <2>4. 1 * check_url_timeout = check_url_timeout /\ Spent \in Int
      BY OneMore DEF Spent
    <2>5. misses <= 0 => Spent = 0 BY OneMore DEF Spent
    <2>6. Budget' BY <2>3, <2>4, <2>5 DEF Budget
    <2>7. Naps' = Naps BY DEF Naps
    <2>8. Waited' BY <1>0, <2>7 DEF Waited
    <2>9. Looked' BY DEF Looked
    <2> QED BY <2>1, <2>2, <2>6, <2>8, <2>9
  <1>3. CASE run_state_disconnected
    <2> USE <1>3 DEF run_state_disconnected, history
    <2>1. TypeOKWatchdog' OBVIOUS
    <2>2. Places' /\ Counted' BY DEF Places, Counted
    <2>3. Spent' = Spent /\ Naps' = Naps BY DEF Spent, Naps
    <2>4. Budget' BY <2>3 DEF Budget
    <2>5. Waited' /\ Looked' BY <2>3 DEF Waited, Looked
    <2> QED BY <2>1, <2>2, <2>4, <2>5
  <1>4. CASE ConnmanRestarted
    <2> USE <1>4 DEF ConnmanRestarted
    <2>0. remain = 0 BY DEF Places
    <2>1. TypeOKWatchdog' BY <2>0
    <2>2. Places' /\ Counted' BY DEF Places, Counted
    <2>4. Budget' BY DEF Budget
    <2>5. Waited' /\ Looked' BY DEF Waited, Looked
    <2> QED BY <2>1, <2>2, <2>4, <2>5
  <1>5. CASE CheckSucceeds
    <2> USE <1>5 DEF CheckSucceeds
    <2>1. TypeOKWatchdog' OBVIOUS
    <2>2. Places' /\ Counted' BY DEF Places, Counted
    <2>4. Budget' BY DEF Budget
    <2>5. Naps' = 0 BY OneMore DEF Naps
    <2>6. Waited' /\ Looked' BY <2>5 DEF Waited, Looked
    <2> QED BY <2>1, <2>2, <2>4, <2>6
  <1>6. CASE NextUrl
    <2> USE <1>6 DEF NextUrl, history
    <2>1. TypeOKWatchdog' OBVIOUS
    <2>2. Places' /\ Counted' BY DEF Places, Counted
    <2>3. Spent' = Spent /\ Spent \in Int BY OneMore DEF Spent
    <2>4. url' * check_url_timeout = url * check_url_timeout + check_url_timeout
      BY OneMore
    <2>5. url * check_url_timeout \in Int BY OneMore
    <2>6. Budget' BY <2>3, <2>4, <2>5 DEF Budget
    <2>7. Naps' = Naps BY DEF Naps
    <2>8. Waited' /\ Looked' BY <2>7 DEF Waited, Looked
    <2> QED BY <2>1, <2>2, <2>6, <2>8
  <1>7. CASE run_state_never_connected
    <2> USE <1>7 DEF run_state_never_connected, RoundFails
    <2>1. TypeOKWatchdog' BY DEF Counted
    <2>2. Places' /\ Counted' BY DEF Places, Counted
    <2>4. Budget' BY DEF Budget, Counted
    <2>5. Waited' /\ Looked' BY DEF Waited, Looked, Counted
    <2> QED BY <2>1, <2>2, <2>4, <2>5
  <1>8. CASE run_state_once_connected
    <2> USE <1>8 DEF run_state_once_connected, RoundFails
    <2>1. remain > 0 /\ misses >= 0 /\ misses' = misses + 1 BY DEF Counted
    <2>2. TypeOKWatchdog' BY <2>1
    <2>3. Places' /\ Counted' BY <2>1 DEF Places, Counted
    <2>4. Spent' = Spent + Attempt /\ Spent \in Int
      <3>1. (misses + 1) * Attempt = misses * Attempt + Attempt BY OneMore
      <3>2. Spent = misses * Attempt BY <2>1, OneMore DEF Spent
      <3>3. Spent' = (misses + 1) * Attempt BY <2>1 DEF Spent, Attempt, RoundTime
      <3>4. misses * Attempt \in Int BY OneMore
      <3> QED BY <3>1, <3>2, <3>3, <3>4
    <2>5. elapsed + timer <= Spent + RoundTime BY DEF Budget
    <2>6. elapsed' + check_interval <= Spent' BY <2>4, <2>5
    <2>7. Budget' BY <2>6, <2>4 DEF Budget
    <2>8. Naps' = Naps + check_interval
      <3>1. (misses + 1) * check_interval = Naps + check_interval BY OneMore DEF Naps
      <3> QED BY <2>1, <3>1 DEF Naps
    <2>9. elapsed >= Naps BY <2>1 DEF Waited
    <2>10. Waited' /\ Looked' BY <1>0, <2>8, <2>9 DEF Waited, Looked
    <2> QED BY <2>2, <2>3, <2>7, <2>10
  <1>9. CASE Wake
    <2> USE <1>9 DEF Wake, history
    <2>1. TypeOKWatchdog' OBVIOUS
    <2>2. Places' /\ Counted' BY DEF Places, Counted
    <2>3. Spent' = Spent /\ Naps' = Naps BY DEF Spent, Naps
    <2>4. Budget' BY <2>3 DEF Budget
    <2>5. Waited' /\ Looked' BY <1>0, <2>3 DEF Waited, Looked
    <2> QED BY <2>1, <2>2, <2>4, <2>5
  <1>10. CASE Tick
    <2> USE <1>10 DEF Tick
    <2>1. TypeOKWatchdog' OBVIOUS
    <2>2. Places' /\ Counted' BY DEF Places, Counted
    <2>3. Spent' = Spent /\ Spent \in Int BY OneMore DEF Spent
    <2>4. url * check_url_timeout \in Int BY OneMore
    <2>5. Budget' BY <2>3, <2>4 DEF Budget, Places
    <2>6. Naps' = Naps BY DEF Naps
    <2>7. Waited' BY <1>0, <2>6 DEF Waited
    <2>8. Looked' BY DEF Looked, Places
    <2> QED BY <2>1, <2>2, <2>5, <2>7, <2>8
  <1>11. CASE _mark_update \/ ClockIsSet \/ NetworkChanges
    <2>1. TypeOKWatchdog' /\ Looked'
      <3>1. CASE _mark_update
        <4>1. raced' \in BOOLEAN BY <3>1 DEF _mark_update
        <4>2. TypeOKWatchdog' BY <3>1, <4>1 DEF _mark_update, loopVars, history
        <4>3. at' = "decided" => raced' BY <3>1 DEF _mark_update, loopVars
        <4>4. lead' >= clock' BY <3>1 DEF _mark_update
        <4> QED BY <4>2, <4>3, <4>4 DEF Looked
      <3>3. CASE ClockIsSet
        <4>1. lead' \in 0..setting_change_delay /\ lead' >= clock' /\ lead' >= lead
          BY <3>3 DEF ClockIsSet
        <4>2. TypeOKWatchdog' BY <3>3, <4>1 DEF ClockIsSet, loopVars, history
        <4>3. Looked'
          <5>1. UNCHANGED <<at, raced, quiet>> BY <3>3 DEF ClockIsSet, loopVars
          <5>2. quiet + lead >= setting_change_delay =>
                  quiet + lead' >= setting_change_delay
            <6>1. quiet \in Int /\ lead \in Int /\ setting_change_delay \in Int OBVIOUS
            <6>2. lead' \in Int /\ lead' >= lead BY <4>1
            <6> QED BY <6>1, <6>2, LeadGrows
          <5>3. at' = "decided" /\ ~raced' => quiet' + lead' >= setting_change_delay
            BY <5>1, <5>2, Zenon DEF Looked
          <5> QED BY <4>1, <5>3 DEF Looked
        <4> QED BY <4>2, <4>3
      <3>2. CASE NetworkChanges BY <3>2 DEF NetworkChanges, loopVars, history, Looked
      <3> QED BY <1>11, <3>1, <3>2, <3>3
    <2> USE <1>11 DEF _mark_update, ClockIsSet, NetworkChanges, loopVars, history
    <2>2. Places' /\ Counted' BY DEF Places, Counted
    <2>3. Spent' = Spent /\ Naps' = Naps BY DEF Spent, Naps
    <2>4. Budget' BY <2>3 DEF Budget
    <2>5. Waited' BY <2>3 DEF Waited
    <2> QED BY <2>1, <2>2, <2>4, <2>5
  <1>12. CASE Crash
    <2> USE <1>12 DEF Crash
    <2>0. raced' \in BOOLEAN OBVIOUS
    <2>1. TypeOKWatchdog' BY <2>0
    <2>2. Places' /\ Counted' BY DEF Places, Counted
    <2>4. Budget' BY DEF Budget
    <2>5. Waited' /\ Looked' BY DEF Waited, Looked
    <2> QED BY <2>1, <2>2, <2>4, <2>5
  <1>13. CASE UNCHANGED watchdogVars
    <2> USE <1>13 DEF watchdogVars, loopVars, history
    <2>1. TypeOKWatchdog' OBVIOUS
    <2>2. Places' /\ Counted' BY DEF Places, Counted
    <2>3. Spent' = Spent /\ Naps' = Naps BY DEF Spent, Naps
    <2>4. Budget' BY <2>3 DEF Budget
    <2>5. Waited' /\ Looked' BY <2>3 DEF Waited, Looked
    <2> QED BY <2>1, <2>2, <2>4, <2>5
  <1> QED
    BY <1>1, <1>2, <1>3, <1>4, <1>5, <1>6, <1>7, <1>8, <1>9, <1>10, <1>11, <1>12, <1>13
    DEF NextWatchdog, LoopStep

------------------------------------------------------------------------------
(* The invariant everything else follows from. *)
THEOREM InductiveWatchdog == SpecWatchdog => []IInvWatchdog
  BY InitIInv, NextIInv, PTL DEF SpecWatchdog

(* Types: for all durations and any number of URLs and attempts. *)
THEOREM TypeCorrectWatchdog == SpecWatchdog => []TypeOKWatchdog
  <1>1. IInvWatchdog => TypeOKWatchdog BY DEF IInvWatchdog
  <1> QED BY <1>1, InductiveWatchdog, PTL

(* ConnMan is restarted only after an answer and max_num_failures failed     *)
(* rounds in a row.                                                          *)
THEOREM RestartsAreEarned == SpecWatchdog => []RestartNeedsFailures
  <1>1. IInvWatchdog => RestartNeedsFailures
    BY DEF IInvWatchdog, Places, Counted, RestartNeedsFailures
  <1> QED BY <1>1, InductiveWatchdog, PTL

(* No round and no restart begins within setting_change_delay of a change,   *)
(* whenever it was noted and however the clock was set back since; what the  *)
(* clock was set forward, and a change made after the look, are the          *)
(* exceptions, for all durations, whole seconds or not.                      *)
THEOREM PausesAfterChanges == SpecWatchdog => ChangesPauseTheWatchdog
  <1>1. IInvWatchdog /\ [NextWatchdog]_watchdogVars =>
          [Begins("request") \/ Begins("restart") =>
             raced \/ quiet + lead >= setting_change_delay]_watchdogVars
    <2> SUFFICES ASSUME IInvWatchdog, NextWatchdog,
                        NEW place \in {"request", "restart"}, at # place, at' = place
                 PROVE  raced \/ quiet + lead >= setting_change_delay
      BY DEF Begins
    <2>1. StartRound \/ run_state_disconnected
      BY DEF NextWatchdog, LoopStep, override_state_if_connman_properties_changed,
             run_state_setting_change_delay, ConnmanRestarted, CheckSucceeds, NextUrl,
             run_state_never_connected, run_state_once_connected, Wake, Tick, _mark_update,
             ClockIsSet, NetworkChanges, Crash, loopVars
    <2>2. at = "decided"
      BY <2>1 DEF StartRound, run_state_disconnected
    <2> QED BY <2>2 DEF IInvWatchdog, Looked
  <1> QED BY <1>1, InductiveWatchdog, PTL DEF SpecWatchdog, ChangesPauseTheWatchdog

(* A loss is noticed in time: the bound of the integration test holds for    *)
(* every configuration.                                                      *)
THEOREM LossIsNoticed == SpecWatchdog => []DetectsInTime
  <1>1. IInvWatchdog => DetectsInTime
    <2> SUFFICES ASSUME IInvWatchdog, state = "DISCONNECTED"
                 PROVE  elapsed <= (max_num_failures - 1) * check_interval
                                     + max_num_failures * RoundTime
      BY DEF DetectsInTime
    <2> USE WatchdogAssumption, Durations
    <2>1. misses = max_num_failures BY DEF IInvWatchdog, Counted
    <2>2. elapsed \in Nat BY DEF IInvWatchdog, TypeOKWatchdog
    <2>3. elapsed + check_interval <= max_num_failures * Attempt
      BY <2>1 DEF IInvWatchdog, Budget, Spent
    <2>4. max_num_failures * Attempt
            = max_num_failures * RoundTime + max_num_failures * check_interval
      <3> HIDE Durations
      <3> QED BY Durations
    <2>5. max_num_failures * check_interval
            = (max_num_failures - 1) * check_interval + check_interval
      BY OneMore
    <2> QED BY <2>2, <2>3, <2>4, <2>5, OneMore
  <1> QED BY <1>1, InductiveWatchdog, PTL

(* Nor too early: before "DISCONNECTED" all naps between the attempts have   *)
(* been slept, so that an outage shorter than them is never acted on.        *)
THEOREM OutagesAreWaitedOut == SpecWatchdog => []WaitsBetweenAttempts
  <1>1. IInvWatchdog => WaitsBetweenAttempts
    <2> SUFFICES ASSUME IInvWatchdog, state = "DISCONNECTED"
                 PROVE  elapsed >= (max_num_failures - 1) * check_interval
      BY DEF WaitsBetweenAttempts
    <2> USE WatchdogAssumption
    <2>1. misses = max_num_failures BY DEF IInvWatchdog, Counted
    <2>2. elapsed \in Nat BY DEF IInvWatchdog, TypeOKWatchdog
    <2>3. elapsed + check_interval >= max_num_failures * check_interval
      BY <2>1 DEF IInvWatchdog, Waited, Naps
    <2>4. max_num_failures * check_interval
            = (max_num_failures - 1) * check_interval + check_interval
      BY OneMore
    <2> QED BY <2>2, <2>3, <2>4, OneMore
  <1> QED BY <1>1, InductiveWatchdog, PTL
=============================================================================
