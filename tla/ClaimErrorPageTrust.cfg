SPECIFICATION Spec
CONSTANTS
  WebUrls <- MCWebUrls
  Sizes <- MCSizes
  Jsons <- MCJsons
  Languages = {"zh", "es"}
  Scripts = {"Hant"}
  Regions = {"HK", "ES"}
  Tags <- MCTags
  Displays <- MCDisplays
  FileSets <- MCFileSets
  MaxCrashes = 1
  MaxRelaunches = 1
INVARIANT
  ErrorPageIsTrusted
\* A description may be refused, and an app that could not be preloaded is closed.
CHECK_DEADLOCK FALSE
