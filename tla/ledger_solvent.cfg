SPECIFICATION Spec
CONSTANTS
  Accounts = {a1}
  Objectives = {}
  Assets = {}
  Liabilities = {l1}
  Ids = {i1, i2, i3}
  PayIds = {}
  Types = {"income", "transfer"}
  Amounts = {1}
  SetValues <- Overdrawn
  Targets = {0}
  MaxBalance = 2
  None = None
  Keep = Keep
SYMMETRY Symmetry
INVARIANT PairsWhole
PROPERTIES PostingsKeepSolvent ClosedFrozen
CHECK_DEADLOCK FALSE
