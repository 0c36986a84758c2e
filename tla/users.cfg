\* One person, two requests at a time; or the services around the books.
SPECIFICATION MCSpec
CONSTANTS
  u1 = u1 r1 = r1 r2 = r2 m1 = m1 m2 = m2 s1 = s1 NoMail = NoMail
  Users = {u1}
  Requests = {r1, r2}
  Mails = {m1, m2}
  Phones = {FALSE}
  MaxRequests = 5
  Sessions = {s1}
  v1 = v1 v2 = v2 k1 = k1 k2 = k2 x1 = x1 x2 = x2 g1 = g1 g2 = g2 Nil = Nil
  Assets = {1, 2}
  Symbols = {"s1", "s2"}
  Blank = " "
  Calls = {k1, k2}
  MaxMoment = 2
  MaxCalls = 2
  Changes <- MCChanges
  Owners = {v1, v2}
  Notes = {1, 2}
  Slots = {k1, k2}
  Screens = {x1}
  MaxAsked = 3
  People = {v1, v2}
  Admins = {v2}
  SessionIds = {g1, g2}
  Visits = {k1}
  Sockets = {x1, x2}
  MaxMarks = 2
  Thrown <- MCThrown
  Returned <- MCReturned
  LogServices = {TRUE, FALSE}
  MaxRetries = 3
SYMMETRY Symmetry
INVARIANTS AccountsPaired InactiveIsOut DirectoriesAgree CacheAgrees
   MarksKept PresenceHonest AnswersShaped
PROPERTY QuotesHonest
\* No more requests than the bounds allow arrive.
CHECK_DEADLOCK FALSE
