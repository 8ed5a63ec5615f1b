SPECIFICATION FairSpec
CONSTANTS
  Users = {u1}
  Families = {1, 2, 3, 4}
  Tokens = {1, 2, 3, 4}
  Requests = {r1, r2, r3}
  None = None
  MaxRequests = 4
PROPERTIES
  EveryRequestIsAnswered
CHECK_DEADLOCK FALSE
