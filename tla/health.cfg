CONSTANTS
  m1 = m1
  s1 = s1
  s2 = s2
  Unset = Unset
  Accounts = {m1}
  Adapters = {"imap"}
  FailureThreshold = 2
  FailureCap = 4
  OperatorSets = {"ARCHIVED", "READY"}
  Checkers = {s1, s2}
  MaxEdits = 1
  MaxTurns = 1
SPECIFICATION HealthFairSpec
CHECK_DEADLOCK FALSE
INVARIANTS
  HealthTypeOK
  ShowsItsChecks
  
PROPERTIES
  DownIsQuarantined
