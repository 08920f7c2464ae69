SPECIFICATION MCSpec
CONSTANTS
  AppIds = {mail, photos}
  Relaunched = photos
  Instances = {i1, i2}
  Apps = {x1, x2}
  NoApp = none
  MaxCrashes = 1
  MaxLeaked = 0
  Subscribers = {s1}
  Bad = bad
  Empty = empty
  LaunchArgs <- LunaArgs
  LaunchRequests <- Requests
  ClearRequests <- Clears
SYMMETRY Symmetry
INVARIANTS
  LunaTypeOK
  AnswersHold
  ClearsAllOrNothing
  SubscribersAreCurrent
PROPERTY
  RelaunchIsTaken
\* The one instance of Relaunched has been closed.
CHECK_DEADLOCK FALSE
