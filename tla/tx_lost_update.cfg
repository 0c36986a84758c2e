\* Two requests race over the balance of one account.
SPECIFICATION Spec
CONSTANTS
  Workers = {w1, w2}
  Accounts = {a1}
  Liabilities = {}
  Ids = {t1, t2}
  Types = {"income", "expense"}
  MoveAmounts = {1}
  TransferAmounts = {}
  SetValues = {1}
  MaxBalance = 2
  Patched = {}
  Links = {a1, None}
  None = None
  Keep = Keep
SYMMETRY Symmetry
PROPERTIES AdjustsAtomically
