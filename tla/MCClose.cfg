SPECIFICATION CloseSpec
CONSTANTS
  AppIds = {mail}
  Instances = {i1}
  Apps = {x1}
  NoApp = none
  MaxCrashes = 1
  MaxLeaked = 1
  LaunchArgs <- CloseArgs
INVARIANTS
  ReloadTimerWhileErrorPage
  ClosingMakesProgress
PROPERTIES
  KeepAliveSurvives
  CloseCallbackEnds
