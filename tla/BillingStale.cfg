SPECIFICATION BillingSpec
CONSTANTS
  NoSelection = NoSelection
  Operations = {o1}
  Callers = {c1}
  Amounts = {1}
  TrialBudget = 2
  GrantTokens = 2
  GrantCost = 4
  Rate = 2
  TrialTerm = 1
  TokenTTL = 1
  MaxTime = 0
  Selections = {s1}
  Offered = {"PROFESSIONAL"}
  MaxEvents = 4
INVARIANT
  OlderEventsNeverReactivate
