\* Two expenses that each switch from one account to the other can wait for each other,
\* or for a transfer or a PATCH; every request ends all the same.
SPECIFICATION FairSpec
CONSTANTS
  Workers = {w1, w2}
  Accounts = {a1, a2}
  Liabilities = {}
  Ids = {t1, t2}
  Types = {"expense"}
  MoveAmounts = {1}
  TransferAmounts = {1}
  SetValues = {1}
  MaxBalance = 1
  Patched = {a1}
  Links = {a1, a2}
  None = None
  Keep = Keep
PROPERTIES RequestsEnd
\* Once the instance's two ids are used and deleted no request can begin.
CHECK_DEADLOCK FALSE
