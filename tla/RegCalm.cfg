SPECIFICATION Spec
CONSTANTS
  Users = {admin, u1}
  AdminIds = {admin}
  RoleAdmins = {}
  Names = {n1}
  Members = {m1}
  NoName = NoName
  NoMember = NoMember
  Tasks = {t1, t2}
  Budget <- MCCalm
SYMMETRY MCSymmetry
CHECK_DEADLOCK FALSE
INVARIANTS
  DraftsComplete
  RequestsClosed
  PendingIsAnnounced
PROPERTIES
  ReregistrationConfirmed
  PreferencesKept
