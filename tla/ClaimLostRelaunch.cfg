SPECIFICATION ShowHideSpec
CONSTANTS
  AppIds = {mail}
  Instances = {i1}
  Apps = {x1}
  NoApp = none
  MaxCrashes = 0
  MaxLeaked = 1
  LaunchArgs <- ShowHideArgs
PROPERTY PendingRelaunchIsKept
\* Every object of Apps has been freed: the bound on launches is reached.
CHECK_DEADLOCK FALSE
