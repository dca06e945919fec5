CONSTANTS
  t1 = t1
  m1 = m1
  e1 = e1
  s1 = s1
  s2 = s2
  w1 = w1
  None = None
  Tasks = {t1}
  Mailboxes = {m1}
  Mails = {e1}
  Projects = {}
  Sessions = {s1, s2}
  Loops = {s1}
  Schedulers = {w1}
  MaxConcurrent = 1
  DailyLimit = 9
  HasCooldown = TRUE
  MaxAttempts = 2
  MaxRevivals = 1
  Handlers = {"create", "cancel", "claim", "cooldown", "sync", "dispatch", "recover", "health"}
SPECIFICATION FairSpec
PROPERTIES
  WaitingEnds
  CallbackResolves
  CooldownEnds
