SPECIFICATION ContentSpec
SYMMETRY Symmetry
CONSTANTS
  s1 = s1
  s2 = s2
  Key = {k1}
  Text = {t1, tags}
  Blank = Blank
  Markup = {tags}
  Slide = {s1, s2}
  Order <- MCOrder
  Field = {f1}
  Value = {large}
  Default = medium
  Proc = {p1, p2}
  None = None
  MaxCalls = 4
INVARIANTS NoBlankPublished HistoryNumbered PortalTold
CHECK_DEADLOCK FALSE
