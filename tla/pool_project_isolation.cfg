CONSTANTS
  t1 = t1
  t2 = t2
  m1 = m1
  p1 = p1
  s1 = s1
  w1 = w1
  None = None
  Tasks = {t1, t2}
  Mailboxes = {m1}
  Mails = {}
  Projects = {p1}
  Sessions = {s1}
  Loops = {}
  Schedulers = {w1}
  MaxConcurrent = 1
  DailyLimit = 9
  HasCooldown = FALSE
  MaxAttempts = 1
  MaxRevivals = 1
  Handlers = {"create", "claim"}
SPECIFICATION Spec
CHECK_DEADLOCK FALSE
PROPERTIES
  ProjectIsolation
