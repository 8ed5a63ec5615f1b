SPECIFICATION Spec
CONSTANTS
  Families = {f1}
  Tokens = {1, 2, 3}
  Requests = {r1, r2}
  None = None
  REFRESH_TTL = 2
  FAMILY_MAX = 4
  RETENTION = 2
  ACCESS_TTL = 2
  Skews <- SomeSkews
  MaxTime = 7
SYMMETRY AnyRequest
INVARIANTS
  TypeOK
  AbsoluteLifetime
PROPERTIES
  PurgeIsInvisible
CHECK_DEADLOCK FALSE
