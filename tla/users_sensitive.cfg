\* One person who may give a sensitive field, then a PATCH of something else.
SPECIFICATION Spec
CONSTANTS
  u1 = u1 r1 = r1 r2 = r2 m1 = m1 m2 = m2 s1 = s1 NoMail = NoMail
  Users = {u1}
  Requests = {r1, r2}
  Mails = {m1, m2}
  Phones = {FALSE, TRUE}
  MaxRequests = 2
  Sessions = {s1}
INVARIANT SensitiveStoredEncrypted
CHECK_DEADLOCK FALSE
