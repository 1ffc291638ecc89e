SPECIFICATION Spec
CONSTANTS
  c1 = c1
  a1 = a1
  m1 = m1
  adm = adm
  Doc = {d1}
  Actor = {c1, adm}
  RoleOf <- MCRoleOf
  Owner <- MCOwner
  Serves <- MCServes
  Version = {v1}
  Proc = {p1, p2}
  None = None
  LocalUploads = FALSE
  OverrideTo = {"submitted_to_government"}
  MaxHistory = 3
SYMMETRY Ids
INVARIANTS  OfficialOnRecord
 
