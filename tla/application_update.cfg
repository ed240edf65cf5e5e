SPECIFICATION FairSpec
CONSTANTS
  Ascending <- MCAscending
  Histories <- MCHistories
  PerPage = 2
  PageLimit = 2
  Builds <- MCBuilds
  Archives <- MCArchives
  Layouts <- MCLayouts
  TempDir <- MCTempDir
  Target <- Linux
  Here <- MCHere
  MaxLaunch = 3
  MaxProgress = 1
  HelpersMayOverlap = FALSE
CHECK_DEADLOCK FALSE
INVARIANTS ReplacementIsSafe FailuresAreTold ReleasesAreTrusted
PROPERTIES InstallationIsKept OutcomeStands UpdatesEnd
