\* Two requests race over one transfer; or two requests for a password, two logins, two
\* runs of the interest job.
SPECIFICATION RacesSpec
CONSTANTS
  Workers = {w1, w2}
  Accounts = {a1, a2}
  Liabilities = {}
  Ids = {t1, t2}
  Types = {}
  MoveAmounts = {}
  TransferAmounts = {1, 2}
  SetValues = {2}
  MaxBalance = 3
  Patched = {a1, a2}
  Links = {a1, a2}
  None = None
  Keep = Keep
  Calls = {c1, c2}
  MaxAttempts = 2
  MaxCodes = 2
  MaxTokens = 2
  MaxResets = 1
  Logins = {l1, l2}
  MaxFailures = 2
  Window = 2
  BlockDuration = 3
  Limit = 2
  Ttl = 2
  LastTime = 4
  MaxLogins = 3
  k1 = k1 k2 = k2
  Savings = {k1, k2}
  Runs = {n1, n2}
  Editors = {e1}
  Terms = {1}
  LastDay = 3
  MaxIncidents = 1
  Opened <- MCOpened
  MinDays <- MCMinDays
SYMMETRY Symmetry
INVARIANTS NeverOverdrawn RacingTransfersWhole
  CodesLimited OnlyNewestUsable LoginsGuarded 
PROPERTIES FreshCommitsConserve NoneForgotten
