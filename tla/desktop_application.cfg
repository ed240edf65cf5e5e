SPECIFICATION Spec
CONSTANTS
  f1 = f1
  f2 = f2
  p1 = p1
  p2 = p2
  File <- TwoFiles
  Config <- TwoConfigs
  Original <- OneNamed
  Budget <- Few
  Cost <- Weights
  Total = 4
  None = None
INVARIANTS StateIsCurrent DocumentsAgree RosterOfOpenDocument ReleasesAreTried
CHECK_DEADLOCK FALSE
