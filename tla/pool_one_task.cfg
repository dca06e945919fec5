CONSTANTS
  t1 = t1
  m1 = m1
  e1 = e1
  e2 = e2
  s1 = s1
  s2 = s2
  w1 = w1
  w2 = w2
  None = None
  Tasks = {t1}
  Mailboxes = {m1}
  Mails = {e1, e2}
  Projects = {}
  Sessions = {s1, s2}
  Loops = {}
  Schedulers = {w1, w2}
  MaxConcurrent = 1
  DailyLimit = 1
  HasCooldown = FALSE
  MaxAttempts = 2
  MaxRevivals = 1
  Handlers = {"create", "cancel", "sync", "dispatch", "recover", "allocate", "release", "abort", "midnight"}
SPECIFICATION Spec
SYMMETRY Symmetry
INVARIANTS
  TypeOK
  CallbackAccounted
  AttemptsBounded
PROPERTIES
  ResultStable
