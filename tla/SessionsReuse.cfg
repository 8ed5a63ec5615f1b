SPECIFICATION Spec
CONSTANTS
  Users = {u1}
  Families = {1, 2}
  Tokens = {1, 2, 3, 4}
  Requests = {r1, r2, r3}
  None = None
  MaxRequests = 6
INVARIANTS
  ReuseEndsFamily
CHECK_DEADLOCK FALSE
