SPECIFICATION Spec
CONSTANTS
  Accounts = {a1, a2}
  Objectives = {}
  Assets = {}
  Liabilities = {}
  Ids = {i1, i2, i3}
  PayIds = {}
  Types = {"income", "transfer"}
  Amounts = {1, 2}
  SetValues = {1}
  Targets = {0}
  MaxBalance = 2
  None = None
  Keep = Keep
SYMMETRY Symmetry
PROPERTIES BulkRevertsBalances
CHECK_DEADLOCK FALSE
