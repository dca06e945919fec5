CONSTANTS
  m1 = m1
  w1 = w1
  w2 = w2
  s1 = s1
  c1 = c1
  None = None
  TaskTypes = {"MAIL_SYNC"}
  Mailboxes = {m1}
  LastBucket = 1
  Consumers = {w1, w2}
  Schedulers = {s1}
  Clients = {c1}
  MaxAttempt = 2
  BatchSize = 2
  MaxRetries = 1
SPECIFICATION Spec
CHECK_DEADLOCK FALSE
SYMMETRY Symmetry
INVARIANTS
  TypeOK
  ExclusiveExecution
  JobAttemptsBounded
PROPERTIES
  SuccessKept
