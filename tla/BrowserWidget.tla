---------------------------- MODULE BrowserWidget ----------------------------
(* The browser of the kiosk: one web view behind a loading page and an error *)
(* page, a timer that retries after an error, and the reload in two stages   *)
(* that the page itself may ask for.  The web engine is external: it reports *)
(* the end of the load in flight, and possibly that of one it interrupted.   *)

VARIABLES
  url,      \* _url: what load was last called with
  loading,  \* a load is in flight
  stale,    \* the engine may still report an earlier one
  full,     \* _is_full_reload
  view,     \* the page on the screen
  timer,    \* _reload_timer is active
  online    \* the kiosk's page and the login page answer; the settings always do

browserVars == <<url, loading, stale, full, view, timer, online>>

Page == {"kiosk", "settings", "portal"}
TypeOKBrowser ==
  /\ url \in Page
  /\ view \in {"loading", "error", "loaded"}
  /\ {loading, stale, full, timer, online} \subseteq BOOLEAN

InitBrowser ==
  /\ url = "kiosk" /\ loading = TRUE /\ stale = FALSE /\ full = FALSE
  /\ view = "loading" /\ timer = FALSE /\ online \in BOOLEAN

------------------------------------------------------------------------------
(* setUrl or reload of the web view. *)
Navigate == loading' = TRUE /\ stale' = (stale \/ loading)

load(u) ==
  /\ url' = u /\ view' = "loading" /\ timer' = FALSE
  /\ Navigate
  /\ UNCHANGED <<full, online>>

reload == load(url)

(* The empty page that is loaded first is interrupted at once. *)
full_reload ==
  /\ ~full /\ full' = TRUE
  /\ loading' = TRUE /\ stale' = TRUE
  /\ view' = "loading" /\ timer' = FALSE
  /\ UNCHANGED <<url, online>>

hard_refresh ==
  /\ view' = "loading" /\ timer' = TRUE
  /\ UNCHANGED <<url, loading, stale, full, online>>

TimerFires ==
  /\ timer /\ timer' = FALSE
  /\ Navigate
  /\ UNCHANGED <<url, full, view, online>>

------------------------------------------------------------------------------
(* _load_finished.                                                           *)

(* Mutant: the retry is not scheduled. *)
Report_NoRetry(success) ==
  view' = (IF success THEN "loaded" ELSE "error") /\ timer' = timer

Report(success) == view' = (IF success THEN "loaded" ELSE "error") /\ timer' = (timer \/ ~success)

LoadFinished ==
  /\ loading /\ ~full
  /\ loading' = FALSE /\ stale' = FALSE
  /\ Report(online \/ url = "settings")
  /\ UNCHANGED <<url, full, online>>

StaleLoadFinished(success) ==
  /\ stale /\ ~full /\ stale' = FALSE
  /\ Report(success)
  /\ UNCHANGED <<url, loading, full, online>>

(* The first report of a full reload, whichever load it is about, only       *)
(* starts the reload of the web view.                                        *)
FullReloadContinues ==
  /\ full /\ full' = FALSE /\ loading' = TRUE
  /\ \/ loading /\ stale' = FALSE
     \/ stale /\ stale' = loading
  /\ UNCHANGED <<url, view, timer, online>>

NetworkChanges ==
  /\ online' = ~online
  /\ UNCHANGED <<url, loading, stale, full, view, timer>>

Engine ==
  \/ TimerFires \/ LoadFinished \/ FullReloadContinues
  \/ \E success \in BOOLEAN : StaleLoadFinished(success)

------------------------------------------------------------------------------
(* Whatever order timers, requests of the page and reports of interrupted    *)
(* loads come in, a screen without the page is never the last word: a load   *)
(* is in flight or the timer will start one, and a full reload is never left *)
(* waiting for a report that does not come.                                  *)
NeverStranded == (view # "loaded" => loading \/ timer) /\ (full => loading)
=============================================================================
