CONSTANTS
  t1 = t1
  t2 = t2
  t3 = t3
  m1 = m1
  s1 = s1
  w1 = w1
  w2 = w2
  None = None
  Tasks = {t1, t2, t3}
  Mailboxes = {m1}
  Mails = {}
  Projects = {}
  Sessions = {s1}
  Loops = {}
  Schedulers = {w1, w2}
  MaxConcurrent = 1
  DailyLimit = 9
  HasCooldown = FALSE
  MaxAttempts = 1
  MaxRevivals = 1
  Handlers = {"create", "patch", "allocate", "release"}
SPECIFICATION Spec
SYMMETRY Symmetry
CHECK_DEADLOCK FALSE
INVARIANTS
  LeasesCounted
