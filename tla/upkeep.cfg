CONSTANTS
  m1 = m1
  s1 = s1
  s2 = s2
  Nobody = Nobody
  Inboxes = {m1}
  Kinds = {"imap", "outlook", "cloudflare"}
  MaxMail = 2
  Cap = 1
  InternetId <- OwnIds
  Workers = {s1, s2}
  MaxCrash = 1
  None = None
  TaskTypes = {"MAIL_SYNC"}
  Consumers = {s1, s2}
  Mailboxes = {m1}
  LastBucket = 2
  Schedulers = {s1}
  Clients = {}
  MaxAttempt = 2
  BatchSize = 2
  MaxRetries = 0
SPECIFICATION UpkeepSpec
CHECK_DEADLOCK FALSE
INVARIANTS
  MailTypeOK
  NothingBehindCursor
  OnePending
PROPERTIES
  MailFetched
  JobEnds
