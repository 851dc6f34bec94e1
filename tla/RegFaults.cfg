SPECIFICATION FairSpec
CONSTANTS
  Users = {admin, u1}
  AdminIds = {admin}
  RoleAdmins = {u1}
  Names = {n1}
  Members = {m1}
  NoName = NoName
  NoMember = NoMember
  Tasks = {t1, t2}
  Budget <- MCFaults
CHECK_DEADLOCK FALSE
INVARIANTS
  LinksLive
PROPERTIES
  KeepsUserLife
  Announced
