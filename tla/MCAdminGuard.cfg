SPECIFICATION Spec
CONSTANTS
  admin = admin
  user = user
  custom = custom
  Users = {root, ann, bob}
  Roles = {admin, user, custom}
  SystemRoles = {admin, user}
  DefaultRole = user
  AdminRole = admin
  Permissions <- AllPermissions
  Root = root
  Staff = {ann}
  RoleLists <- SomeRoleLists
  PermissionLists <- SomePermissionLists
  Requests = {r1, r2}
  None = None
  MaxRequests = 5
SYMMETRY AnyRequest
INVARIANTS
  TypeOK
  AdminRemains
PROPERTIES
  GrantsAreCovered
  RevokesAreCovered
CHECK_DEADLOCK FALSE
