SPECIFICATION MCSpec
CONSTANTS
  Requests = {r1,r2}
  Documents = {r1}
  DataUrls = {r2}
  MaxHops = 2
  Caps = {1}
  Budgets = {2}
  Sizes = {1, 3}
  Lengths = {2, None}
  Serial = TRUE
  None = None
INVARIANTS TypeOK NeverWaitsTwice OneVerdict StoppedBeyondCap BudgetConserved CredentialsOnce CredentialsAsked
PROPERTIES EntriesLeave
CHECK_DEADLOCK FALSE
