SPECIFICATION Spec
CONSTANTS
  c1 = c1
  a1 = a1
  m1 = m1
  adm = adm
  Doc = {d1}
  Actor = {c1, a1}
  RoleOf <- MCRoleOf
  Owner <- MCOwner
  Serves <- MCServes
  Version = {v1}
  Proc = {p1, p2}
  None = None
  LocalUploads = FALSE
  OverrideTo = {}
  MaxHistory = 2
SYMMETRY Ids

PROPERTY GuardedMoveHolds
