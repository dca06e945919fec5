CONSTANTS
  t1 = t1
  t2 = t2
  m1 = m1
  e1 = e1
  s1 = s1
  s2 = s2
  w1 = w1
  None = None
  Tasks = {t1, t2}
  Mailboxes = {m1}
  Mails = {e1}
  Projects = {}
  Sessions = {s1, s2}
  Loops = {}
  Schedulers = {w1}
  MaxConcurrent = 1
  DailyLimit = 2
  HasCooldown = FALSE
  MaxAttempts = 1
  MaxRevivals = 1
  Handlers = {"create", "cancel", "claim", "sync", "dispatch"}
SPECIFICATION Spec
SYMMETRY Symmetry
INVARIANTS
  MailboxBeforeMail
PROPERTIES
  LeasesBooked
