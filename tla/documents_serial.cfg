SPECIFICATION Spec
CONSTANTS
  c1 = c1
  a1 = a1
  m1 = m1
  adm = adm
  Doc = {d1}
  Actor = {c1, m1}
  RoleOf <- MCRoleOf
  Owner <- MCOwner
  Serves <- MCServes
  Version = {v1, v2}
  Proc = {p1}
  None = None
  LocalUploads = TRUE
  OverrideTo = {}
  MaxHistory = 5
SYMMETRY Ids
INVARIANTS TypeOK VersionNosDistinct OfficialFromGovernment FilesOnRecord
PROPERTIES MovesFollowFlow ChainedHistory
