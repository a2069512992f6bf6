SPECIFICATION Spec
CONSTANTS
  a = a
  b = b
  p = p
  manage = manage
  read = read
  Ids <- ThreeIds
  Config = {}
  ConfigAccess <- NoConfig
  Rights <- TwoRights
  UsersManage = manage
  Accesses <- ThreeAccesses
  Passwords <- OnePassword
  Requests <- TwoRequests
  Databases <- Left
  MaxChanges = 2
  Versions <- ThreeVersions
  NoUser = NoUser
  Gone = Gone
  NoOne = NoOne
  Free = Free
SYMMETRY RequestSymmetry
INVARIANT AInv
PROPERTY RevokedStaysOut
PROPERTY ActsWithinRights
