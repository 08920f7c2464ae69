SPECIFICATION ShowHideSpec
CONSTANTS
  AppIds = {mail}
  Instances = {i1}
  Apps = {x1}
  NoApp = none
  MaxCrashes = 2
  MaxLeaked = 1
  LaunchArgs <- ShowHideArgs
INVARIANTS
  TypeOK
  SuspendedIsHidden
  DomSuspendedIsSuspended
  NoForgottenSuspend
  
PROPERTIES
  PreloadShownByHostOnly
\* Every object of Apps has been freed: the bound on launches is reached.
CHECK_DEADLOCK FALSE
