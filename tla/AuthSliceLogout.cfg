SPECIFICATION AuthSpec
CONSTANTS
  Tabs = {t1}
  Slots = {a, b}
  Sessions = {1, 2}
  Nonces = {1, 2, 3, 4, 5, 6, 7, 8, 9}
  None = None
  MaxCalls = 4
  MaxFailures = 0
  MaxSecrets = 0
INVARIANTS
  NoIdentitySurvivesLogout
CHECK_DEADLOCK FALSE
