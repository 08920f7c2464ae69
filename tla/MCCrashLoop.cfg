SPECIFICATION CrashLoopSpec
CONSTANTS
  AppIds = {mail, news}
  Instances = {i1, i2}
  Apps = {x1, x2}
  NoApp = none
  MaxCrashes = 3
  MaxLeaked = 0
  LaunchArgs <- CrashLoopArgs
SYMMETRY Symmetry
INVARIANTS
  RegistryCoherent
  CrashCountsOfRunningApps
PROPERTIES
  CrashLimit
  ImplementsLifecycle
\* Every object of Apps has been freed: the bound on launches is reached.
CHECK_DEADLOCK FALSE
