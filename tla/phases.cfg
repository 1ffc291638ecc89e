SPECIFICATION CalmSpec
CONSTANTS
  Phase = {f1, f2}
  Version = {v1}
  Proc = {p1, p2}
  None = None
  MaxHistory = 3
SYMMETRY Ids
INVARIANTS PhaseTypeOK PhaseVouched
PROPERTIES PhasesAudited PhaseMoves
