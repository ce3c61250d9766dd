# A verification project for PlayOS

PlayOS is the operating system of an unattended kiosk computer.  It keeps two
system partitions (*slots* a and b), boots one of them, and replaces the other
when a new release appears.  Nobody sits in front of it who could repair it, so
this project models what decides **what is written, what is booted, what the
machine fetches and shows, and what its user is told about it**, with the
failures the code has to live with: power, restarts, lost connections, commands
that fail, handlers and threads that overlap.

## 1. Inventory

| Part | Source | State it keeps | Operations | Talks to |
|---|---|---|---|---|
| Update service | `controller/server/update.ml`, `update_client.ml`, `bindings/curl/curl.ml` | `version_info`, `system_status`, `process_state`; bundle files in the state directory | `run_step`: check, sleep, download, install | update server (curl), RAUC (D-Bus) |
| RAUC and its binding | `bindings/rauc/rauc.ml`, the patch in `skeleton/pkgs/rauc` | slot status file, boot loader environment, the installation in progress | get_status, get_primary, get_booted_slot, mark, install | GRUB (through grubenv), the slots |
| Boot loader script | `skeleton/bootloader/grub.cfg` | ORDER, a_TRY, a_OK, b_TRY, b_OK | select, count, save, start an entry | RAUC (through grubenv) |
| Health check | `controller/server/health.ml` | `state` | wait, ask systemd, mark good, retry | systemd, RAUC |
| Status page | `server/gui.ml` (StatusGui), `view/status_page.ml` | none; the page in the browser is a snapshot | show, switch slot, reboot, shut down, factory reset, watchdog switches | all of the above |
| Network watchdog | `base/networking/watchdog/watchdog.py` | `State` and `last_update`, written by a second thread | check URLs, count failures, restart ConnMan, delay | ConnMan (D-Bus signals) |
| Watchdog switches | `bindings/network-watchdog/network_watchdog.ml` | a marker file and a systemd unit | enable, disable, is_disabled | systemd |
| Status file recovery | `base/self-update/recover-from-tmpfile` | status.ini and temporary files on FAT | recover at boot | RAUC |
| Factory reset | `base/volatile-root.nix`, `gui.ml` | the wipe marker, persistent data | request, wipe at boot | systemd |
| ConnMan binding and agent | `bindings/connman/connman.ml` | agents exported on the bus | register, answer questions, report errors, remove | ConnMan |
| Network pages | `gui.ml` (NetworkGui), `server/network.ml`, `view/network_*` | none; forms are snapshots | connect, change, forget a service | ConnMan |
| Kiosk browser | `kiosk/kiosk_browser/{browser_widget,main_widget,dialogable_widget,captive_portal}.py` | page, error page, timer, dialog, portal message | load, retry, full reload, settings, login | the web engine, the portal thread |
| Kiosk input | `long_press.py`, `keyboard_widget.py`, `focus_object_tracker.py`, `keyboard_detector/` | keys held, keyboard state, devices | emit on a long press, show and hide the keyboard | X, the input method, udev |
| Kiosk proxy monitor | `proxy/linux.py`, `proxy-utils/` | a copy of ConnMan's proxy | read, subscribe, follow | ConnMan |
| Installer and rescue | `skeleton/installer/install-playos.py`, `skeleton/bootloader/rescue` | the target disk, what is mounted | choose, partition, format, copy, record | the disk, a technician |
| Deployment | `deployment/deploy-update.py` | a bucket: bundles, `latest`, the manual | sign, upload, publish, verify | S3; the machines in the field |
| Remote maintenance, power management, localization, screen, time and avahi bindings, web client, monitoring, builds | `base/`, `application/`, `bindings/`, `controller/gui`, `testing/` | settings of other programs, or none | single calls, declarations | systemd |

Interactions.  The update service, the health check, the status page and the boot
loader share RAUC's slots and grubenv.  The update service relies on what the
installer recorded and on what the deployment published.  The page's factory reset
formats the partition that holds the watchdog's marker.  The watchdog restarts
ConnMan under the network pages and the kiosk's proxy monitor.

Hard behaviours: an Lwt process suspended at its awaits while others change what
it has read; a D-Bus signal without identity; restarts of the controller while RAUC
keeps working; power failures between the steps of a boot, an installation, a save
or a wipe; counters shared by two programs with different bounds; pages that are
older than the state they act on; handlers that share one agent; event filters
whose order changes; scripts that fail half-way and are run again.
`PROJECT.json` lists each hazard with its line.

What makes each part correct:

* update service: nothing is downloaded or installed twice, and nothing is written
  that is not newer than the running version; the outcome it acts on is its own;
  what it shows is what RAUC recorded; it always returns to checking; the latest
  release is installed in the end;
* boot loader, RAUC, health: a half-written slot is never started automatically;
  a good system is always found again; the menu that waits for a person is the
  last resort; a request to reboot has the effect it announces;
* watchdog: ConnMan is restarted only after the configured number of failures, no
  sooner and no later than they take, and never shortly after a user changed a
  setting; the switch and the unit agree;
* status file recovery, factory reset: a crash at any point is repaired at the
  next boot, and a wipe hits only data whose owner asked for it;
* network pages: overlapping attempts neither mix nor block later ones, and a
  proxy's password goes only where it was typed for;
* kiosk: an error page is always left again, a login page is offered as long as
  the network asks for one, a held key counts for one action, and the on-screen
  keyboard is there when the user asks for it and only then;
* installer: what it records is true, what it calls done is complete, a machine
  keeps its id, and trying again works in the end;
* deployment: `latest` names only what can be had completely; two runs that overlap
  do not leave a mismatch unseen; and what failures and wrong keys have done to the
  channel, a run that follows the procedure repairs.

## 2. Modules

```
Rauc            slots, environment, installation steps, calls of the binding
 ├─ UpdateService   run_step beside RAUC
 ├─ Grub            boot loader script
 └─ Health          health check
      Machine = UpdateService + Grub + Health + power, user, restarts
        └─ implements ABSystem                        (MachineProofs)
NetworkWatchdog     the loop and its monitor thread    (NetworkWatchdogProofs)
WatchdogSwitch ┐
FactoryReset   ┴─ PageActions = both on one machine    (PageActionsProofs)
StatusfileRecovery  RAUC's status file and its repair, (StatusfileRecoveryProofs)
   └─ implements DurableStatus
NetworkPages        agents, settings, proxy passwords  (NetworkPagesProofs)
BrowserWidget ┐
ProxyMonitor  ┴─ Kiosk = both, dialogs, portal thread  ┐
LongPress        ┐                                      ├ (KioskProofs)
VirtualKeyboard  ├─ KioskInput = the chain of filters   ┘
KeyboardDetector ┘
Partitioning ─ Installer   choice and layout; every command of a run
                                                       (InstallerProofs)
Deployment implements ReleaseServer                    (DeploymentProofs)
MCUpdateService, MCMachine, MCStatusfileRecovery,
MCNetworkPages, MCInstaller, MCDeployment              instances for TLC
```

Actions carry the names of functions, or of what a branch of one does.  A
definition marked "mutant" is a plausible mistake in the definition next to it; no
specification uses one.

* **Rauc.** `order`, `try`, `ok` are ORDER, x_TRY, x_OK; `recorded` is
  bundle.version of RAUC's status file, `image` what is really on a partition
  (`Torn` while it is rewritten).  The binding's calls are `GetPrimaryAnswers`
  (every failure counts as "no primary", as in `rauc.ml`), `MarkGood`,
  `MarkActive`, `Install`.  RAUC's side is external and assumed from what the
  code and the architecture document say: the target is marked bad before it is
  touched, then erased, written, recorded, activated; marks are refused during
  an installation; a failure leaves things as they are.
* **UpdateService.** `pc` is `process_state` with the awaits of
  GettingVersionInfo and Installing told apart; `seen` holds the values read so
  far by a check.  One action per await and per outcome.  A bundle file is
  absent, a prefix, complete or wrong; curl resumes it, and a server answers a
  request at the end of a complete file with an error.  `orphaned` is a history
  variable: an installation survived a restart of the controller.
* **Grub.** `GrubSelects` is the script up to `save_env a_TRY b_TRY`, `BootEntry`
  one menu entry up to the kernel; between them power may fail or the user may
  choose.  A torn image panics, and `panic=3` resets.
* **Health.** The four states; systemd never calls a `BadVersion` running.
* **Machine.** Power, user and restarts around the rest.  `Volatile` is what a
  reboot or restart forgets.  `switchOffered` is a page in the browser, as old as
  the user likes.  `strikes` and `picked` are history variables for properties.
* **ABSystem.** The abstract promise: a slot has automatic starts left, pays
  before it starts, is rewritten only while it has none, and gets them back by
  running well, by a committed image or by the user's choice.
* **NetworkWatchdog.** Time is discrete, in units of which there are `Second` in a
  second, since the options are any positive numbers.  `at` is where the loop is,
  `timer` what is left of a request or a sleep, and `Tick` lets one unit pass; an
  action is only possible when its sleep is over, but the loop may also be slow.
  The look at `last_update` and what is then run are two steps, with the place
  "decided" between them: `_mark_update` is the second thread and interleaves with
  everything, and a change that comes there is not seen (`raced`).  `quiet` is the
  time since `last_update`, up to the delay after which it no longer matters; the
  delay is rounded up to whole seconds (`math_ceil`).  Changes are noted by the wall
  clock, which may be set at any moment: `clock` is by how much since the last
  change, `lead` the furthest it was forward.  A request answers within the time-out
  or not at all (the time-out of requests is one for the connection and one for each
  read; the model has one), and the set of URLs that do changes at any moment.
  `misses`, `elapsed`, `lead` and `raced` are history variables.  An exception is
  only possible at the top of the loop, where the proxy is read, and the process
  that follows knows of no change.
* **WatchdogSwitch.** `enable` and `disable` of the binding cut at their awaits,
  for any number of handlers at once.  `unit` and `job` are systemd's: StartUnit
  and StopUnit answer when the job is queued, a start looks at the marker
  (`ConditionPathExists`), and a unit that died is started again.  `undisturbed`
  (history) says that the handlers since the last one that ran alone neither
  failed nor met.
* **FactoryReset.** `handler` is the request of the page, `service` the unit that
  leaves the marker, `stage` the script of the initial ramdisk.  `marker` is what
  the running system sees and `synced` what a power failure leaves.  A shutdown
  cancels jobs and kills what still starts.  The exit codes of mkfs.ext4 and of
  mounting /boot are not looked at, hence `FormatFails` and `BootIsMissing`.
  `broken` and `missed` remember them, `wanted` a request, each since the data was
  last formatted: these are history variables.
* **PageActions.** Both on one machine: the marker of the watchdog lies on the
  partition that a reset formats, handlers end with their machine, and a boot
  starts the watchdog by its condition.  A write of the switch's marker is taken
  as durable at once.
* **StatusfileRecovery.** A save is create, write, rename; a rename is atomic to
  running processes, but a power failure in the middle of one leaves an empty
  target and the temporary file.  `births` orders the temporary files.  The script
  is one action per test and command.  RAUC reads the file once, when it is first
  asked, and saves the whole of what it knows; it is external.  `durable` is a
  history variable: what finished saves have recorded.
* **DurableStatus.** What RAUC counts on: a save replaces the status in one
  durable step, and a restart finds the last one committed.  In the detailed module
  that step is the beginning of the rename.
* **NetworkPages.** `place` is where each handler is between two awaits.
  Connecting exports an agent at a path, registers it, calls Connect and removes
  it however Connect ends.  ConnMan has one agent per client and calls that one,
  for whichever service; its part is external.  Changing a service reads the
  *default* service's proxy to decide whether an unchanged password is kept
  (`make_proxy`), address and name servers are awaits that may fail.  Forgetting
  clears the settings first.  `answered` and `told` (history) say whose agent
  answered which attempt and what ConnMan told about it; `entered` what passwords
  users have typed, for which server and user; `lost` that ConnMan restarted
  between RegisterAgent and Connect.
* **BrowserWidget.** The web engine is external: it reports the end of the load in
  flight, and may report one that it interrupted (`stale`).  `full` is
  `_is_full_reload`, `timer` the reload timer, which the retry and the hard refresh
  share.  `online` says whether pages from the network answer; the settings come
  from the machine itself.
* **ProxyMonitor.** The thread of `proxy/linux.py` cut at its calls.  Signals are
  handled by the thread that runs the main loop.  A proxy is set on the default
  service (`ProxyIsSet`) or on another one (`OtherProxyIsSet`), and both are
  signalled; that another service becomes the default one (`DefaultServiceChanges`)
  is not, as no Proxy has changed.  A call that ConnMan does not answer is taken for
  "no proxy"; an exception (`CallRaises`) ends a handler without an update, and the
  first call, before the loop, with its thread.  `misread` and `moved` remember these
  (history).
* **Kiosk.** The main window: settings and login dialogs, the message about the
  portal, and the thread that looks for one.  Handlers of the window do not
  overlap; the thread runs between any two steps, so `_show_captive_portal` is cut
  where it changes what the thread reads.  A renderer that dies ends the program
  and the session starts another.
* **LongPress, VirtualKeyboard, KeyboardDetector.** One event filter each for long
  presses and for the on-screen keyboard, and the thread that looks for a physical
  keyboard.  Time is discrete in LongPress, and an age saturates above the delay.
  `used` and `byUser` are history variables.
* **KioskInput.** A key event passes both filters, the one installed last first.
  At the start that is LongPress; once a keyboard widget is created again it is the
  widget's filter (`before`).  `repeats` is the key the X server repeats: the last
  one pressed, while it is held.
* **Partitioning.** The choice of the device and the layout in sectors, as pure
  operators on a record of what the code reads of a device.
* **Installer.** One action per command of `install-playos.py`.  `disk` is what is
  durable, `boot` and `system` are what is mounted in the session: a failing
  command ends the program and leaves them so, a power failure keeps any part of
  them, a reboot flushes them.  `Broken` is a boot partition without a readable
  file system.  `known` (history) is the id the machine is known by, `unflushed` a
  slot whose umount failed unseen.
* **Deployment.** One run of `deploy-update.py` per deployer, cut at its commands;
  a command that fails may have had its effect.  Any pair of a key and a certificate
  may be given; RAUC refuses only those that do not belong together
  (`create_signed_rauc_bundle`), so that a run can publish what no machine takes.
  `signature` is the certificate a bundle verifies with.  One machine in the field
  follows the channel.  `broken` and `warned` are history.
* **ReleaseServer.** What the machines rely on: `latest` always names a version
  that can be had completely, and nothing available is taken away.

## 3. Runs

| Run | Shows | Bounds |
|---|---|---|
| update | `OnlyNewerIsWritten`, `SuccessMeansInstalled`, `VersionInfoIsFresh`, `NoCompleteBundleLeft`; `ReturnsToCheck`, `LatestGetsInstalled` | 2 versions that are published and withdrawn at will, from a healthy machine on version 1 that booted a (the slots are interchangeable); the proofs have any number |
| machine_safety | `TornOnlyByChoice`, `MenuAfterThreeStrikes`, `RebootCallIsHonest`, `IsABSystem` | 2 versions, the first on both slots; a release is not withdrawn |
| machine_rollback | `MenuMeansNoFallback`, `RollsBack` | 4 versions, of which 2, 3 and 4 never become healthy: the last good slot can be lost, and a third bad update is the first that would find a good one with its attempts used up (section 6); a release is not withdrawn.  The machine may come to rest, waiting for an installer that died |
| watchdog | `RestartNeedsFailures`, `ChangesPauseTheWatchdog`, `DetectsInTime`, `WaitsBetweenAttempts`, `Reconnects`, `StopsRestarting` | 2 URLs, 3 attempts, interval 2, time-out 1, delay 3, 2 units to a second, a clock set back by at most 2 and forward by at most 3: a first, a middle and a last attempt and URL, a delay that is not a whole number of seconds, and sleeps that overlap in every way |
| page_actions | `SwitchTakesEffect`, `OneWipePerRequest`, `PromisedWipeIsDone`, `ComesUp` | 2 handlers of the switch, so that they can overlap |
| statusfile_recovery | `IsDurable` | 2 slots (interchangeable), 4 saves: two leftovers beside a finished and a running save |
| network | `AttemptsDoNotMix`, `NoAgentStays`, `PasswordsStayHome` | 2 handlers, services, servers and paths, all interchangeable; 1 user and password: what must not mix is where they go |
| kiosk | `ProxyIsKnown`, `PageComesBack`, `PortalIsOffered` | 1 proxy beside none; nothing else is bounded |
| kiosk_input | `NoGhostKeys`, `OneActionPerHold`, `KeyboardIsAsked`, `KeyboardFollows` | 4 keys and 3 combinations: a key in two of them, two of one length at once, a key in none; delay 2, tolerance 1; 2 signals waiting |
| installer | `RecordedIsWhole`, `ChosenDiskFits`, `IdIsKept`, `InstallsInTheEnd` | 4 devices: the medium, a read-only one, one that is a sector too small, and the target, which has sectors of 4096 bytes and just enough of them; a blank or foreign disk or an older installation; any number of runs |
| deployment | `InconsistencyIsReported`, `IsReleaseServer`, `RepairsInTheEnd` | 2 deployers, 2 versions, a switch of keys at the second, so that each can be signed with the right pair and with the wrong one; 2 artifacts |
| out_of_date_advice | a comment of the code base that the code does not keep (section 6) | 2 versions, the second never healthy |

Nothing else is bounded but the signals of the keyboard detector: attempts
saturate in GRUB itself, and `strikes` stops at 3 because more are not told apart.
An installation depends only on which version is newer, so that 2 versions are
enough for the liveness of the update service; the safety properties are proved for
any number (section 4).

Some properties name their exceptions, and these are the places where the code gives
no more:

* update and machine: an orphaned installation (`orphaned` in `OnlyNewerIsWritten`,
  `VersionInfoIsFresh`, `RebootCallIsHonest`), an installer that died (`Stuck`), an
  update installed over the last good system while a bad one runs (`FallbackLost`);
* watchdog: a clock set forward since a change (`lead`), a change that came just after
  the look at the last one (`raced`), a change noted by a process that has ended;
* boot: a RAUC that reads the status file before the script (`blank`), an mkfs.ext4
  that failed (`broken`), a /boot that could not be mounted in the initial ramdisk
  (`missed`);
* kiosk: a call that failed or raised (`misread`), another default service (`moved`),
  an exception in the thread's first call (the place "dead"); settings left open over
  the login (`SettingsOverLogin`), a request that never ends;
* others: a umount that failed (`unflushed`), a ConnMan that restarted between two
  calls (`lost`), a deployment broken off between its last two files (`broken` in
  Deployment).

**Fairness.**

* update: `ServiceStep` is weakly fair, as Lwt resumes a ready await and every
  call to curl and on the bus returns or fails.  `RaucStep` is weakly fair: an
  installation ends in success, failure or the death of the daemon.  The one wait
  without a limit, `E.next completed_e` in `rauc.ml`, is not assumed to end; the
  properties name that exception (`Stuck`).  `LatestGetsInstalled` adds strong
  fairness of each way to succeed: transient faults do not hit the same call for
  ever.
* machine_rollback: the machine is left alone except that its user reboots when
  asked to, but not before the health check has marked the running system good, and
  resets a system that does not come up; systemd reports a good system as running,
  and RAUC takes the mark in the end.
* watchdog: its steps and the passing of time are weakly fair, since requests have
  a time-out and sleeps end.  The properties speak of a network, settings and a clock
  that stop changing.
* page_actions: the script of the initial ramdisk goes on, a machine that is off
  is switched on again, and a shutdown ends; power failures and a failing mount or
  mkfs.ext4 are excluded by the property, not by fairness.
* kiosk: the handlers, the proxy thread and the timer are weakly fair, and a load in
  flight ends, as QtWebEngine has time-outs of its own.  So are the steps of the
  portal thread, but not the end of its request, which has no time-out in the code:
  `PortalIsOffered` names a request that never ends.  `PageComesBack` begins when the
  user keeps still, which includes the keys that reload the page.
* deployment: the machine looks for updates again and again (`Update` is weakly fair).
  Nothing is assumed of the deployers; that somebody begins and ends runs that follow
  the procedure, again and again, is the premise of `RepairsInTheEnd`.
* installer: commands end; the technician tries again until a run has finished
  and restarts the live system when the failed run left a partition mounted.  That
  failures stop is the property's condition.

`NoGhostKeys` depends on the X server repeating only the key pressed last: with any
held key repeating, an Escape that was pressed before the keyboard was shown and
repeats after it would have its release kept from LongPress.

## 4. Proofs

All safety properties of the passing runs, the action properties
`OnlyNewerIsWritten`, `ChangesPauseTheWatchdog`, `OneWipePerRequest`,
`PromisedWipeIsDone`, `OneActionPerHold` and `IdIsKept`, the type of every variable,
and the three refinements are proved for every value of the
constants.  The assumptions are those that the modules state on their constants
(`VersionAssumption`, `WatchdogAssumption`, `StatusAssumption`, `InputAssumption`,
`DetectorAssumption`, `InstallerAssumption`, `DeploymentAssumption` and so on: absent values
are no values, counts are numbers, durations positive).  TLC evaluates each in the run
of its module.  In each proof there is one lemma per action or group of actions,
one theorem that the invariant is inductive, and the properties follow from it.

* **MachineProofs.** First the update service.  None of its properties is
  inductive alone.  `IInv` adds what a check has read so far (`ReadSoFar`); that
  RAUC is idle, or works for the service that waits for it, unless an installation
  was orphaned (`Undisturbed`), which is why what was read is still true when the
  decision is taken; and how far the installation that is waited for has come
  (`OwnInstallation`), which is why a success signal implies a whole image.

  `OnlyForward` has two halves.  `BootedInv`, which knows of no exception: what a
  check has read of the running slot stays true as long as the process lives, for
  only the other slot is ever recorded, and an orphaned installer was called with a
  version that was newer then.  `NewerInv`, without an orphan: between the call and
  the record nothing else changes what is recorded, so the version that was newer
  than the slot's own still is.

  Then the machine, with `MInv`.  `AtRest`: while the machine is not up nothing is
  in memory.  `TornInv`: a slot that an installation has touched is not
  bootable until its image is whole, and the running slot is whole, so only a user
  can make a torn slot bootable.  `StrikesInv`: below three strikes the slot that
  GRUB will start, and the running one, have used no more attempts than there were
  strikes, so GRUB finds one of them; and while another slot than the running one
  is first, it has all its attempts, which is why a health mark, which sets the
  strikes back to none, keeps this true.  `HonestInv`: a primary seen by a check
  is GRUB's choice until the running slot is marked good, because RAUC and GRUB,
  whose bounds differ in form, agree (`SameChoice`), and because only an orphaned
  installation can change the boot order while the service believes RAUC idle.
  `ServiceSurvivesPower` and `MachineOnlyForward` have the service's properties on
  the whole machine.

  `FallbackKeepsAnAttempt` is about the machine left to itself (`SpecCalm`, of which
  no fairness is used).  `CalmInv`: a slot that can be started and holds a good system
  has used no attempt, unless it is the one being started or running; and the running
  one has its attempts back when the health check is done.  That the user waits for
  it is needed: without this, every reboot into an update costs the good system one.

  `MachineIsAB` maps each step of the machine to one of ABSystem or none: a
  selection is `Pay`, an entry `Start`, RAUC's steps `Withdraw`, `Rewrite`,
  `Commit`, a mark `Confirm`, the page's switch `Choose`.  `Rewrite` needs that the
  slot has no start left and `Commit` that it is whole: both are in `TornInv`.
* **NetworkWatchdogProofs.** `IInvWatchdog` says which states of the loop go with
  which place (`Places`); that the attempts used up are the rounds failed since the
  last answer (`Counted`); that each of these rounds has used at most its time-outs
  and one interval (`Budget`) and, but for the last, at least one interval (`Waited`);
  and that past the look either the pause is over or a change came just then
  (`Looked`).  `Looked` holds wherever the clock is set to, since `lead` only grows;
  the others do not depend on the clock.  `Budget` and `Waited` are nonlinear:
  `OneMore` states what one more round adds, so that the steps need linear arithmetic
  only.
* **PageActionsProofs.** `InvReset` relates the marker, what a power failure leaves
  of it and the stage of the script (`MarkerState`): a marker is either asked for
  and still to be obeyed, or left over after the wipe, and then meets no new data.
  `InvPromise` has what keeps a marker that reached the disk: until the wipe is done
  the running system still sees it.  `PageImplementsReset`: the switch, which saves
  data beside it, adds nothing.  `InvSwitch` says for every handler what its place implies for marker, unit and
  job as long as it is undisturbed.
* **StatusfileRecoveryProofs.** `InvFiles` (what the directory can hold),
  `InvPlaces` (what RAUC and the script have in hand) and `InvKept` (where the
  newest finished save is) for any number of slots and saves.  That the script
  picks the newest file rests on `LargestIsMax`, a fact about finite sets.
  `StatusIsDurable` maps each step of RAUC, the script and the power to one of
  DurableStatus or none (`RaucIsDurable`, `ScriptIsDurable`).  The commit is the
  *beginning* of the rename, when the old file may already be gone: only then is every
  later failure and repair a stutter, as `WhatIsStored` says with `InvKept`.
* **NetworkPagesProofs.** `AgentInv`: a handler that connects owns the object at
  its path, a registered agent belongs to the one handler that will remove it, and
  what was answered and told since came through it.  The password property follows
  from an invariant on what is pending and stored.
* **KioskProofs.** `InvBrowser` and `InvProxy` need little beyond the properties
  (`AnswerIsFresh`: what the thread was just told is true or a signal waits).
  `InvInput`: for each key what LongPress believes and which of the two filters
  has seen it (`KeysMatch`), the agreement of widget and input method
  (`KeyboardMatches`), and when a kept Escape is over (`EscapeIsOver`).
  `KeyboardFollows` has an invariant on the queue of signals: its last one, or
  else the widget, agrees with the detector.
* **InstallerProofs.** `ChosenDeviceFits`: on a device that the installer chooses
  itself the table at both ends and four partitions fit and do not overlap, for
  every size, sector size and option; the size in MiB is rounded down, and the
  proof says where the room for it is (`FilterLeavesRoom`).  `ChosenDisksFit` carries
  it to the layout that a run commits.  `InvInstaller`: what is
  recorded is whole (`Recorded`), how far the boot partition and the disk are at
  each command (`EspProgress`, `DiskProgress`), and where the id is (`IdIsFound`).
* **DeploymentProofs.** `InvDeployment` says what a run in its place has uploaded
  (`Progress`); `InvReport` who will still print a warning.  `ImplementsReleaseServer`
  needs that uploads are never undone.

TLC checked the inductive invariants before the proofs were written.

**Only model-checked:** the liveness properties (`ReturnsToCheck`,
`LatestGetsInstalled`, `RollsBack`, `Reconnects`, `StopsRestarting`, `ComesUp`,
`PageComesBack`, `PortalIsOffered`, `InstallsInTheEnd`, `RepairsInTheEnd`), as fairness is out of the
proof system's reach, and `out_of_date_advice`, which is a counterexample.

**Proved without a run of their own:** the types, and what a property of a run
contains already: `NoRedundantInstall` (the decision behind `OnlyNewerIsWritten`),
`NothingLost` (where `IsDurable` finds the status), `InterruptedWipeIsRedone` (part of
`PromisedWipeIsDone`), `NeverStranded` (the state that `PageComesBack` could not
leave); and `DoneIsComplete`, what a run of the installer has left when it reports
Done.

## 5. What is left out

Timings of the update service (30 s, 5 min, 1 h) are only "later"; they order
nothing by themselves.  Unlinking a file and reading or writing grubenv are taken
to succeed and to be atomic.  The order of the two writes is kept; a torn grubenv
block is not modelled.  The rescue entry of the boot menu ends the machine's
history.  A wall clock that jumps under the recovery script, which compares times of
birth, and a partition label lost by an interrupted mkfs.ext4, are outside the
models; the watchdog's clock is in.

In the kiosk, focus, scripts, screens and the position of the keyboard are left
out, and a key event always finds an object with focus, so that no press or
release is lost before the filters.  The message about the portal is not taken back
when the portal goes away, and no property says so.  Of a service's settings the
proxy is modelled; static address and name servers are awaits that may fail.  Two
attempts to connect that run at once draw different paths.  The installer's
commands either have their effect or leave what `InterruptedDisk` and its
neighbours name.  `optimalAlignedConstraint`
(`install-playos.py:145-170`), which may move the ends of a partition by less than an
alignment, is not modelled, nor a uuid on the disk that cannot be parsed (line 368).
The deployment's build and its local files are left out, and so is a run that ends in
its last checks before it has printed anything.

**Not modelled:** remote maintenance (a handler that starts a unit and polls for
two seconds, and keeps nothing), power management (one event loop that shuts
down), the bindings of locale, screen, time and avahi (single reads and writes of
settings), the web client (presentation), monitoring (a configuration file), the
rescue system (a shell), builds and virtual machines (build descriptions and test
tooling).  None of them keeps state that others rely on.

## 6. What the code base says and the code does not do

`update.ml:97` takes an outdated booted slot for a selection of the user.  After a
rolled back update nobody selected it, and the page invites the user to switch to
the version that just failed (run `out_of_date_advice`).

Visible in the models, without runs of their own:

* `default.nix:74` of the watchdog promises a pause of the configured length after a
  change of a setting.  `watchdog.py:261` measures it with the wall clock: set back in
  between, as NTP may do once a connection is there, it makes the pause longer by as
  much, set forward shorter.  Line 189 rounds it up to whole seconds.  A change noted
  after the look at the last one (line 283) does not keep a restart from beginning,
  and a process that is restarted after an exception forgets changes.
  `ChangesPauseTheWatchdog` is what remains.
* An installation that survives a restart of the controller ends unseen by a check
  that is already under way.  If its release is withdrawn meanwhile, the check finds
  the one before to be news, and it is installed over the newer one on the inactive
  slot (`update.ml:156-222`); if not, the same one is installed again.
  `OnlyNewerIsWritten` says that nothing that is not newer
  than the *running* version is ever written.
* The kiosk follows changes of a Proxy property (`linux.py:56`), not a change of the
  default service, though the proxy it uses is that service's; and a proxy without a
  valid port, or a service without a state, raises an exception
  (`proxy_utils/__init__.py:67`, `:103`) that ends the update or, at the start of the
  thread, the thread.
* The button on an error page opens the settings also when that page stands for the
  login (`main_widget.py:163-168`).  The portal counts as open until the dialog is
  closed, so no message offers it meanwhile.
* `captive_portal.py:77` requests without a time-out; a connection that never ends
  ends the checks.
* `watchdog/default.nix:62` computes the worst-case wait with one round of
  time-outs less than `watchdog.py:163` may take; `DetectsInTime` has the integration
  test's formula, which is right.
* `gui.ml:486-490` announces an enabled wipe when its service is only queued; the
  reboot that follows can overtake it, and the machine comes back with its data.
* A single failed GetPrimary call counts as "All systems bad" (`rauc.ml:110`,
  `update.ml:105`).
* The service installs an update without asking whether the running system is good
  (`update.ml:222`).  Two bad releases in a row, or a reset while the fix for a bad one
  is being installed, leave the machine at the boot menu; `RollsBack` says that
  nothing else does.
* Every boot costs an attempt until the health check has given it back
  (`arch/Readme.org:168`).  A user who follows the page's call to reboot before that,
  three updates in a row, uses up those of a good system; a bad update then ends at
  the menu although the fallback is sound.  `MenuMeansNoFallback` assumes that he
  waits, and says that nothing else leads there.
* /boot failing to mount in the initial ramdisk (`volatile-root.nix:107`) is not
  noticed: the machine comes up with its data, and the marker wipes what was saved
  since at the next boot that finds it.
* Nothing orders the recovery of the status file before RAUC, which may have read
  the empty file by then (`base/self-update/default.nix:71`).
* Of two combinations held at once only those with the repeating key compete, so
  the longest one need not be emitted (`long_press.py:31`).
* `gui.ml`: proxy settings that were left alone are refused for a service that is
  not the default one, though a comment says that the password is preserved, since
  the password is looked up at the default service; and a form whose proxy is
  refused has already set address and name servers.
* `connman.ml`: an agent whose registration fails stays exported.
* `deploy-update.py` prints FAIL and exits with 0; a machine that was off when the
  signing key was switched takes no update any more.  A version signed with the wrong
  pair, for instance the new key with the certificate built in (line 138), passes all
  checks of the script and is published; no machine takes it until a run with the
  right pair replaces it (`RepairsInTheEnd`).  `Readme.md:221` and the help
  text at `deploy-update.py:313` differ on which certificate is to be given.
* `install-playos.py:476` promises that an "already configured id will be reused";
  a run whose predecessor left the boot partition mounted, or cannot read it,
  makes up a new one (every exception counts as no id, line 396).  The exit code of
  the umount at line 309 is not looked at.

## 7. Plan

Done: everything in section 2 with its runs and proofs.  What a continuation would
take up, in this order: changes of focus in the kiosk, which move the event
filters; the session script that restarts the kiosk; a clock that is set in
StatusfileRecovery; the settings of a service beside its proxy.
