SPECIFICATION Spec
CONSTANTS
  k1 = k1
  k2 = k2
  s1 = s1
  s2 = s2
  NoOne = NoOne
  Keys = {k1, k2}
  Services = {s1, s2}
  WorkerOf <- OneWorkerId
  Policies <- TwoTriesOrRecovery
  MaxCrashes = 1
  MaxFlushes = 1
SYMMETRY Interchangeable
INVARIANTS
  ScheduledIsPending
  OneMessagePerDelivery
  AuditTellsTheEnd
PROPERTY ImplementsJobLifecycle
