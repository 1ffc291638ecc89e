SPECIFICATION CalmSpec
SYMMETRY Symmetry
CONSTANTS
  r1 = r1
  r2 = r2
  r3 = r3
  l1 = l1
  l2 = l2
  i1 = i1
  i2 = i2
  s1 = s1
  s2 = s2
  WorkerRange = {r1, r2, r3}
  Location = {l1, l2}
  Industry = {i1, i2}
  Service = {s1, s2}
  Proc = {p1, p2}
  None = None
  Keep = Keep
  Unit = 2
  Stock <- MCStock
  NewRange <- MCNewRange
  RangePatch <- MCRangePatch
  NewRow <- MCNewRow
  RowPatch <- MCRowPatch
  Currency = {"USD"}
  Default = "MXN"
  Ask <- MCAsk
  MaxWorkers = 3
  MaxEdits = 3
  MaxQuotes = 1
INVARIANTS QuotesAddUp RangesDisjoint
PROPERTY QuotedFromList
CHECK_DEADLOCK FALSE
