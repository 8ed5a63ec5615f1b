SPECIFICATION Spec
CONSTANTS
  Tabs = {t1}
  Slots = {a}
  Sessions = {1, 2}
  Nonces = {1, 2, 3, 4, 5, 6, 7, 8, 9}
  None = None
  MaxCalls = 4
  MaxFailures = 0
  MaxSecrets = 1
PROPERTIES
  AuthFailureIsDefinitive
CHECK_DEADLOCK FALSE
