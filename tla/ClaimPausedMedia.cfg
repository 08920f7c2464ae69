SPECIFICATION ShowHideSpec
CONSTANTS
  AppIds = {mail}
  Instances = {i1}
  Apps = {x1}
  NoApp = none
  MaxCrashes = 1
  MaxLeaked = 1
  LaunchArgs <- ShowHideArgs
INVARIANT PausedMediaAreStopped
\* Every object of Apps has been freed: the bound on launches is reached.
CHECK_DEADLOCK FALSE
