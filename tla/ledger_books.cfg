\* Movements, transfers of two amounts and payments of one goal, each through
\* the endpoint of its kind.
SPECIFICATION MCSpec
CONSTANTS
  Accounts = {a1, a2}
  Objectives = {o1}
  Assets = {}
  Liabilities = {}
  Ids = {i1, i2}
  PayIds = {p1}
  Types = {"expense", "transfer"}
  Amounts = {1, 2}
  SetValues = {1}
  Targets = {1}
  MaxBalance = 1
  None = None
  Keep = Keep
  Writers = {w1, w2}
  Readers = {r1, r2}
  Requested = {"summary"}
  MaxChanges = 2
  MaxReads = 2
  Nothing = None
SYMMETRY Symmetry
INVARIANTS LegsAgree AnswersFresh PeriodResolved
PROPERTIES  CompletionFollowsBalance
\* Once the ids are used and the rows are closed no request is left.
CHECK_DEADLOCK FALSE
