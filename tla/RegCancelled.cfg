SPECIFICATION Spec
CONSTANTS
  Users = {admin, u1}
  AdminIds = {admin}
  RoleAdmins = {}
  Names = {n1, n2}
  Members = {m1}
  NoName = NoName
  NoMember = NoMember
  Tasks = {t1, t2}
  Budget <- MCTwoCommands
SYMMETRY MCSymmetry
CHECK_DEADLOCK FALSE
PROPERTIES
  CancelledStaysCancelled
