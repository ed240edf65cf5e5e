CONSTANTS
  t1 = t1
  t2 = t2
  t3 = t3
  g1 = g1
  g2 = g2
  None = None
  Terminal = {t1, t2, t3}
  Group = {g1, g2}
  Locked = {}
  Draft <- RingDraft
  Layout <- RingLayout
  MaxRoute = 3
SPECIFICATION Spec
PROPERTY RouteCanBeWalkedBack
