CONSTANTS
  t1 = t1
  t2 = t2
  t3 = t3
  g1 = g1
  g2 = g2
  None = None
  Terminal = {t1, t2}
  Group = {g1}
  Locked = {t1}
  Draft <- PairDraft
  Layout <- PairLayout
  MaxRoute = 1
SPECIFICATION Spec
INVARIANT TerminalsAreConsistent
PROPERTIES OutcomesStand RequestsStayDecidable
