\* Requests on different rows of two accounts: each is one step of Ledger.
SPECIFICATION ApartSpec
CONSTANTS
  Workers = {w1, w2}
  Accounts = {a1, a2}
  Liabilities = {}
  Ids = {t1, t2}
  Types = {"income", "expense"}
  MoveAmounts = {1}
  TransferAmounts = {1}
  SetValues = {1}
  MaxBalance = 2
  Patched = {a1, a2}
  Links = {a1, a2, None}
  None = None
  Keep = Keep
SYMMETRY SymmetryOfAll
PROPERTIES SerialWhenApart
