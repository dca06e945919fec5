CONSTANTS
  m1 = m1
  m2 = m2
  s1 = s1
  Nobody = Nobody
  Inboxes = {m1, m2}
  Kinds = {"imap"}
  MaxMail = 2
  Cap = 1
  InternetId <- OwnIds
  Workers = {s1}
  MaxCrash = 0
SPECIFICATION MailSpec
CHECK_DEADLOCK FALSE
INVARIANTS
  MailKept
