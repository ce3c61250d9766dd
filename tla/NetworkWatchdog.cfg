SPECIFICATION FairSpecWatchdog
CONSTANTS
  NumUrls = 2
  max_num_failures = 3
  check_interval = 2
  check_url_timeout = 1
  setting_change_delay = 3
  Second = 2
  MaxSetBack = 2
INVARIANTS
  RestartNeedsFailures
  DetectsInTime
  WaitsBetweenAttempts
PROPERTIES
  ChangesPauseTheWatchdog
  Reconnects
  StopsRestarting
