SPECIFICATION CalmSpec
SYMMETRY Symmetry
CONSTANTS
  g1 = g1
  g2 = g2
  Category = {g1, g2}
  General = g1
  Slug = {a, b}
  Service = {s1}
  Package = {k1, k2}
  Requirement = {r1}
  Image = {i1, i2}
  Order <- MCOrder
  Subscribed = {k2}
  Branch = {b1, b2}
  Type = {type}
  Name = {n1}
  FieldId = {f1}
  Item = {x1}
  Proc = {p1, p2}
  None = None
  MaxCalls = 4
INVARIANTS CategoryKept LiveImageStored OnePrimary
CHECK_DEADLOCK FALSE
