CONSTANTS
  s1 = s1
  s2 = s2
  NoValue = NoValue
  Rules = {1, 2}
  Priorities = {1, 2}
  Messages = {1}
  Applicants = {"t1"}
  Parsers = {s1, s2}
  Values = {"a", "b"}
  OtpLike = {"b"}
  Finds <- RuleFinds
  OutputType <- RuleTypes
  Confidence <- RuleConfidence
  Threshold = 90
  MaxResults = 1
  MaxFailures = 1
  MaxParses = 3
  MaxRaises = 1
  Nothing = Nothing
  Addresses = {"u", "u+t"}
  AliasFor = {"u+t"}
  BaseOf <- BaseAddress
  MaxBoxes = 2
  b1 = b1
  Batches = {b1}
  Lines <- BatchLines
  Clients = {s1, s2}
  MaxDeaths = 1
  c1 = c1
  Readers = {c1}
  MaxEvents = 3
  QueueSize = 1
  ReplaySize = 2
  PersistAttempts = 2
  MaxRestarts = 1
  MaxConnects = 2
  Limit = 2
  Window = 2
  MaxClock = 6
  MaxRequests = 7
  Absent = Absent
  Operators = {s1, s2}
  Urls = {"u"}
  Secrets = {"k"}
  Ranks = {10}
  MaxSaves = 3
SPECIFICATION ServicesSpec
SYMMETRY Sessions
CHECK_DEADLOCK FALSE
INVARIANTS
  ParserTypeOK
  BestRulesWin
  ResultsOfOneParse
  ResultOfTask
  RaisesBounded
  DirectoryTypeOK
  OneMailboxPerAddress
  NoOrphans
  CountersMatchRows
  ImportedAsCounted
  NoGap
  AtMostLimitPerWindow
  SettingsHold
