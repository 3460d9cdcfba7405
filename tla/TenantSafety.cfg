SPECIFICATION TenantSpec
CONSTANTS
  NoSelection = NoSelection
  NoWorker = NoWorker
  Operations = {o1}
  Callers = {c1}
  Amounts = {1}
  TrialBudget = 2
  GrantTokens = 2
  GrantCost = 4
  Rate = 2
  TrialTerm = 1
  TokenTTL = 1
  MaxTime = 2
  Selections = {s1}
  Offered = {"PROFESSIONAL"}
  MaxEvents = 2
  PurgeWorkers = {w1, w2}
  RetentionTerm = 1
  LeaseTerm = 1
INVARIANTS
  BooksAgree
PROPERTIES
  DeletionIsSticky
  RetentionIsKept
