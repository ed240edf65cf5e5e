SPECIFICATION Spec
CONSTANTS
  None = None
  c1 = c1
  g1 = g1
  g2 = g2
  k1 = k1
  f1 = f1
  Path = {f1}
  Command = {c1}
  Groups = {g1, g2}
  Config = {k1}
  Saves <- MCSaves
  Authored <- MCAuthored
  Starter <- MCStarter
  MaxRevision = 2
  MaxEpoch = 2
  MaxDirect = 1
  Files <- MCFiles
  Drafts <- MCDrafts
  Proposals <- MCProposals
  Rosters <- MCRosters
  Lower <- MCLower
  Cut <- MCCut
  Objects <- MCObjects
  Fields = {"hackLevel"}
  Sorted <- MCSorted
  MaxBody = 6
  MaxTerminals = 3
  MaxNodes = 6
  MaxNodeDepth = 3
  MaxRosterEntries = 2
CHECK_DEADLOCK FALSE
INVARIANTS SavedIsInTheFile FailedMutationLeavesNoTrace DocumentsAreSound
PROPERTIES SavedRevisionNeverGoesBack CallersAreAnswered
