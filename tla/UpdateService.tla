---------------------------- MODULE UpdateService ----------------------------
(***************************************************************************)
(* The controller's update service (update.ml, update_client.ml) beside    *)
(* the installer it drives.  run_step is cut at its awaits: between two of *)
(* them a release may be published, the slots may be marked, an            *)
(* installation may make progress, and the controller may be restarted.    *)
(* The machine stays up in this module; Machine adds power, the boot       *)
(* loader, the health check and the user.                                  *)
(***************************************************************************)
EXTENDS Rauc

VARIABLES
  latest,         \* the release the update URL advertises
  pc,             \* the await run_step is suspended at
  duration,       \* payload of Sleeping
  target,         \* payload of Downloading and Installing
  version_info,   \* the versions last seen, None when unclear
  system_status,
  seen,           \* what the version check has read so far
  bundle,         \* the file in the state directory for each version
  orphaned        \* history: an installation survived a controller restart and
                  \* no check has seen its outcome since

serviceVars == <<pc, duration, target, version_info, system_status, seen, bundle, orphaned>>
vars == <<raucVars, latest, serviceVars>>

Checking == {"primary", "booted", "latest", "status", "slot"}
PC == Checking \cup {"sleep", "download", "install", "completed"}

(* The service's process_state, as the controller publishes it.            *)
process_state ==
  IF pc \in Checking THEN "GettingVersionInfo"
  ELSE IF pc = "sleep" THEN "Sleeping"
  ELSE IF pc = "download" THEN "Downloading"
  ELSE "Installing"

Duration == {"http_error_backoff", "install_error_backoff", "check_for_updates"}
UpdateError == {"ErrorGettingVersionInfo", "ErrorDownloading", "ErrorInstalling"}
SystemStatus ==
  {"UpToDate", "NeedsUpdate", "RebootRequired", "OutOfDateVersionSelected",
   "ReinstallRequired"} \cup UpdateError
VersionInfo == [latest: Version, booted: Version, inactive: Version]

(* A bundle file: absent, a true prefix, complete, or with wrong content.  *)
File == {"absent", "part", "whole", "badpart", "badwhole"}

Unseen == [primary |-> "none", booted |-> "none", latest |-> None, status |-> None]
Seen == [primary: Slot \cup {"none"}, booted: Slot \cup {"none"},
         latest: Version \cup {None}, status: [Slot -> Version] \cup {None}]

(* Every variable has the type of its counterpart in the code. *)
TypeOK ==
  /\ TypeOKRauc
  /\ latest \in Version
  /\ pc \in PC
  /\ duration \in Duration \cup {"none"}
  /\ target \in Version \cup {None}
  /\ version_info \in VersionInfo \cup {None}
  /\ system_status \in SystemStatus
  /\ seen \in Seen
  /\ bundle \in [Version -> File]
  /\ orphaned \in BOOLEAN
  /\ pc \in {"download", "install", "completed"} => target \in Version

-----------------------------------------------------------------------------
(* The verdict on the versions found.                                      *)

UpToDateWithLatest(v, info) == v >= info.latest

evaluate_version_info(current_primary, booted_slot, info) ==
  LET bootedUpToDate   == UpToDateWithLatest(info.booted, info)
      inactiveUpToDate == UpToDateWithLatest(info.inactive, info)
  IN IF bootedUpToDate /\ inactiveUpToDate THEN "UpToDate"
     ELSE IF bootedUpToDate \/ inactiveUpToDate
     THEN IF current_primary = "none" THEN "ReinstallRequired"
          ELSE IF bootedUpToDate THEN "UpToDate"
          ELSE IF booted_slot = current_primary THEN "OutOfDateVersionSelected"
          ELSE "RebootRequired"
     ELSE "NeedsUpdate"

-----------------------------------------------------------------------------
(* GettingVersionInfo: five awaits, then one decision. *)

EnterSleep(d) ==
  /\ pc' = "sleep"
  /\ duration' = d
  /\ target' = None

ReadOne(at, next, read) ==
  /\ pc = at
  /\ pc' = next
  /\ seen' = read
  /\ UNCHANGED <<raucVars, latest, duration, target, version_info, system_status,
                 bundle, orphaned>>

ReadPrimary ==
  \E p \in GetPrimaryAnswers : ReadOne("primary", "booted", [seen EXCEPT !.primary = p])
ReadBooted == ReadOne("booted", "latest", [seen EXCEPT !.booted = booted])
ReadLatest == ReadOne("latest", "status", [seen EXCEPT !.latest = latest])
ReadStatus == ReadOne("status", "slot", [seen EXCEPT !.status = recorded])

Decide ==
  LET info   == [latest |-> seen.latest, booted |-> seen.status[booted],
                 inactive |-> seen.status[Inactive]]
      status == evaluate_version_info(seen.primary, seen.booted, info)
  IN /\ pc = "slot"
     /\ version_info' = info
     /\ system_status' = status
     /\ seen' = Unseen
     /\ IF status = "NeedsUpdate"
        THEN pc' = "download" /\ target' = seen.latest /\ duration' = "none"
        ELSE EnterSleep("check_for_updates")
     /\ orphaned' = (orphaned /\ (Busy \/ seen.status # recorded \/ seen.primary # GetPrimary))
     /\ UNCHANGED <<raucVars, latest, bundle>>

(* Any of the calls fails, or a version does not parse.                    *)
CheckFails ==
  /\ pc \in Checking \ {"primary"}
  /\ EnterSleep("http_error_backoff")
  /\ version_info' = None
  /\ system_status' = "ErrorGettingVersionInfo"
  /\ seen' = Unseen
  /\ UNCHANGED <<raucVars, latest, bundle, orphaned>>

WakeUp ==
  /\ pc = "sleep"
  /\ pc' = "primary"
  /\ duration' = "none"
  /\ UNCHANGED <<raucVars, latest, target, version_info, system_status, seen, bundle, orphaned>>

-----------------------------------------------------------------------------
(* Downloading: curl resumes whatever file it finds.  A server answers a   *)
(* request beyond the end of a complete file with an error (416), and an   *)
(* error page may be saved as the file.                                    *)

Complete == {"whole", "badwhole"}
CurlSucceeds == [absent |-> Complete, part |-> Complete, badpart |-> {"badwhole"},
                 whole |-> {}, badwhole |-> {}]
CurlFails == [absent |-> {"absent", "part", "badpart"}, part |-> {"part", "badpart"},
              badpart |-> {"badpart"}, whole |-> {"whole"}, badwhole |-> {"badwhole"}]

DownloadAs(file) ==
  /\ pc = "download"
  /\ file \in CurlSucceeds[bundle[target]]
  /\ bundle' = [bundle EXCEPT ![target] = file]
  /\ pc' = "install"
  /\ UNCHANGED <<raucVars, latest, duration, target, version_info, system_status, seen, orphaned>>

Download == \E file \in Complete : DownloadAs(file)

DownloadFails ==
  /\ pc = "download"
  /\ \E file \in CurlFails[bundle[target]] : bundle' = [bundle EXCEPT ![target] = file]
  /\ EnterSleep("http_error_backoff")
  /\ system_status' = "ErrorDownloading"
  /\ UNCHANGED <<raucVars, latest, version_info, seen, orphaned>>

-----------------------------------------------------------------------------
(* Installing: the bundle is removed however the installation ends.        *)

CallInstall_NotAwaited ==   \* mutant: the result is not waited for
  /\ pc = "install"
  /\ Install(target, bundle[target] = "whole")
  /\ EnterSleep("check_for_updates")
  /\ bundle' = [bundle EXCEPT ![target] = "absent"]
  /\ UNCHANGED <<latest, version_info, system_status, seen, orphaned>>

CallInstall ==
  /\ pc = "install"
  /\ Install(target, bundle[target] = "whole")
  /\ pc' = "completed"
  /\ UNCHANGED <<latest, duration, target, version_info, system_status, seen, bundle, orphaned>>

KeepBundle == UNCHANGED bundle   \* mutant: the file stays
Unlink == bundle' = [bundle EXCEPT ![target] = "absent"]

InstallSucceeds_InfoKept ==   \* mutant: version_info is not unset
  /\ pc = "completed"
  /\ completed = "success"
  /\ completed' = "none"
  /\ pc' = "primary"
  /\ target' = None
  /\ Unlink
  /\ UNCHANGED <<booted, grubenv, slotVars, installer, latest, duration, version_info,
                 system_status, seen, orphaned>>

InstallSucceeds ==
  /\ pc = "completed"
  /\ completed = "success"
  /\ completed' = "none"
  /\ pc' = "primary"
  /\ target' = None
  /\ version_info' = None
  /\ Unlink
  /\ UNCHANGED <<booted, grubenv, slotVars, installer, latest, duration, system_status,
                 seen, orphaned>>

InstallFails_ZeroAwaited ==   \* mutant: a non-zero exit code is passed over
  /\ pc = "install" /\ UNCHANGED completed
  /\ EnterSleep("install_error_backoff")
  /\ system_status' = "ErrorInstalling"
  /\ Unlink
  /\ UNCHANGED <<booted, grubenv, slotVars, installer, latest, version_info, seen, orphaned>>

(* The call is refused (another installation is running, the bus is gone)  *)
(* or the installation reports a non-zero exit code.                       *)
InstallFails ==
  /\ \/ pc = "install" /\ UNCHANGED completed
     \/ pc = "completed" /\ completed = "failure" /\ completed' = "none"
  /\ EnterSleep("install_error_backoff")
  /\ system_status' = "ErrorInstalling"
  /\ Unlink
  /\ UNCHANGED <<booted, grubenv, slotVars, installer, latest, version_info, seen, orphaned>>

-----------------------------------------------------------------------------
(* The service starts afresh: systemd clears the state directory first.    *)
initial_state ==
  /\ pc = "primary"
  /\ duration = "none"
  /\ target = None
  /\ version_info = None
  /\ system_status = "UpToDate"
  /\ seen = Unseen
  /\ bundle = [v \in Version |-> "absent"]

RestartService_FilesKept ==   \* mutant: no ExecStartPre
  /\ pc' = "primary"
  /\ duration' = "none"
  /\ target' = None
  /\ version_info' = None
  /\ system_status' = "UpToDate"
  /\ seen' = Unseen
  /\ orphaned' = (orphaned \/ Busy)
  /\ UNCHANGED <<raucVars, latest, bundle>>

RestartService ==
  /\ pc' = "primary"
  /\ duration' = "none"
  /\ target' = None
  /\ version_info' = None
  /\ system_status' = "UpToDate"
  /\ seen' = Unseen
  /\ bundle' = [v \in Version |-> "absent"]
  /\ orphaned' = (orphaned \/ Busy)
  /\ UNCHANGED <<raucVars, latest>>

(* Around the service: releases appear, RAUC works, the health check marks *)
(* the running slot.                                                       *)
Publish ==
  /\ latest' \in Version \ {latest}
  /\ UNCHANGED <<raucVars, serviceVars>>

RaucStep ==
  /\ RaucProgress \/ RaucFails \/ RaucCrashes
  /\ UNCHANGED <<latest, serviceVars>>

MarkBootedGood ==
  /\ MarkGood(booted)
  /\ UNCHANGED <<latest, serviceVars>>

(* The machine has just booted; the inactive slot may hold the torn image  *)
(* of an installation that was cut short, which RAUC left marked bad.      *)
Init ==
  /\ booted \in Slot
  /\ order = booted
  /\ try \in [Slot -> 0..3] /\ try[booted] > 0
  /\ ok \in [Slot -> BOOLEAN] /\ ok[booted]
  /\ recorded \in [Slot -> Version]
  /\ \/ image = recorded
     \/ ~ok[Inactive] /\ image = [recorded EXCEPT ![Inactive] = Torn]
  /\ installer = Idle
  /\ completed = "none"
  /\ latest \in Version
  /\ initial_state
  /\ orphaned = FALSE

Check == ReadPrimary \/ ReadBooted \/ ReadLatest \/ ReadStatus \/ Decide \/ CheckFails
ServiceStep ==
  \/ Check \/ WakeUp
  \/ Download \/ DownloadFails
  \/ CallInstall \/ InstallSucceeds \/ InstallFails

Next == ServiceStep \/ RestartService \/ Publish \/ RaucStep \/ MarkBootedGood

Spec == Init /\ [][Next]_vars

(* Fairness.  Lwt resumes a ready await; every call to curl, RAUC or the   *)
(* bus returns or fails; an installation ends.                             *)
Fairness ==
  /\ WF_vars(ServiceStep)
  /\ WF_vars(RaucStep)

FairSpec == Spec /\ Fairness

(* Strong fairness of each way to succeed: a transient failure does not    *)
(* hit the same call for ever.  Nothing is assumed of restarts, releases   *)
(* or marks.                                                               *)
Reliability ==
  /\ SF_vars(ReadBooted) /\ SF_vars(ReadLatest) /\ SF_vars(ReadStatus) /\ SF_vars(Decide)
  /\ SF_vars(Download) /\ SF_vars(DownloadAs("whole"))
  /\ SF_vars(CallInstall /\ bundle[target] = "whole")
  /\ SF_vars(RaucVerifies /\ UNCHANGED <<latest, serviceVars>>)
  /\ SF_vars(RaucErases /\ UNCHANGED <<latest, serviceVars>>)
  /\ SF_vars(RaucWrites /\ UNCHANGED <<latest, serviceVars>>)
  /\ SF_vars(RaucRecords /\ UNCHANGED <<latest, serviceVars>>)

-----------------------------------------------------------------------------
(* Safety. *)

(* The service downloads and installs a release only while both slots hold *)
(* older versions, whatever was published or installed since the check;    *)
(* the exception is an installation that survived a controller restart.    *)
NoRedundantInstall ==
  pc \in {"download", "install"} /\ ~orphaned => \A s \in Slot : recorded[s] < target

(* What RAUC writes over the inactive slot is always newer than the        *)
(* running version, whatever was published or withdrawn, and whatever      *)
(* became of the installation before: there is no way back past the        *)
(* running version but the user's.  It is also newer than what the other   *)
(* slot holds, unless an installation survived a controller restart and no *)
(* check has seen its outcome: if its release was withdrawn meanwhile, the *)
(* older one is installed over it.                                         *)
OnlyNewerIsWritten ==
  [][image' # image =>
       /\ recorded[booted] < installer.version
       /\ ~orphaned => recorded[Inactive] < installer.version]_vars

(* The Completed signal the service acts on is that of its own             *)
(* installation: when it reads success, its target is on the inactive slot *)
(* and is what boots next.                                                 *)
SuccessMeansInstalled ==
  pc = "completed" /\ completed = "success" =>
    /\ recorded[Inactive] = target
    /\ image[Inactive] = target
    /\ ok[Inactive] /\ order = Inactive

(* The versions shown to the user are those RAUC has recorded, except      *)
(* during an installation and after a failed one.                          *)
VersionInfoIsFresh ==
  \/ version_info = None \/ orphaned
  \/ pc = "completed" \/ system_status = "ErrorInstalling"
  \/ /\ version_info.booted = recorded[booted]
     /\ version_info.inactive = recorded[Inactive]

(* No complete file survives the installation attempt it was meant for, so *)
(* a later download never resumes at the end of a file.                    *)
NoCompleteBundleLeft ==
  \A v \in Version :
    bundle[v] \in Complete => pc \in {"install", "completed"} /\ v = target

-----------------------------------------------------------------------------
(* Liveness. *)

(* The Completed signal will never come: RAUC died during the installation.*)
Stuck == pc = "completed" /\ ~Busy /\ completed = "none"

(* The service always gets back to checking for updates, unless it waits   *)
(* for an installer that died.                                             *)
ReturnsToCheck == []<>(pc \in Checking) \/ <>[]Stuck

(* A release that stays the latest is eventually on one of the slots, once *)
(* the controller has stopped being restarted, if no call fails for ever.  *)
LatestGetsInstalled ==
  Reliability => \A v \in Version :
    <>[](latest = v) /\ <>[][~RestartService]_vars =>
      <>(\E s \in Slot : recorded[s] >= v) \/ <>[]Stuck
=============================================================================
