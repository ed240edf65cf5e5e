SPECIFICATION Spec
CONSTANTS
  Session = {s1, s2}
  Connection = {c1, c2}
  Character = {h1, h2}
  Action = {a1}
  RequestId <- TwoRequests
  RequestResultLimit = 1
  Name <- TwoLabels
  MaxInFlight = 1
  MaxEpochs = 2
  MaxRevision = 9
  None = None
SYMMETRY Symmetry
INVARIANTS ClaimsAreConsistent SessionsStayApart
PROPERTIES ControlMovesOnlyExplicitly ReplaysAreFaithful
