SPECIFICATION Spec
CONSTANTS
  Servers = {s1, s2}
  NumMigrations = 2
  NumSeedRows = 2
  MaxCrashes = 2
  MaxDowns = 1
  MaxEdits = 2
  Clients = {1, 2, 3}
  Conns = {c1, c2}
  Free = Free
  MaxArrivals = 3
  Attempts = {1, 2, 3, 4}
  email = email
  Emails = {email}
  EmailOf <- SameEmail
  Address = ip
  AuthMax = 3
  LoginMax = 1
  MaxWindows = 2
  MaxRestarts = 1
  Rows = {u1, u2}
  NoRow = NoRow
  UserCalls = {1, 2}
  MaxClicks = 3
  MaxErrors = 1
  RoleCalls = {1, 2}
  MaxSaves = 3
  MaxRoleErrors = 1
INVARIANTS
  PartsTypeOK
  LedgerMatchesSchema
  ParallelBootsSucceed
  ListeningIsReady
  OnlyAssignmentStalls
  FailuresAreBounded
  ShownListIsCurrent
  OneDeletionAtATime
  ShownRolesAreCurrent
PROPERTIES
  SeedNeverOverwrites
  RefusedForFailures
  ServersListen
  EveryRequestEnds
  ScreensSettle
CHECK_DEADLOCK FALSE
