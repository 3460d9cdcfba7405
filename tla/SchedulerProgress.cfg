SPECIFICATION FairSpec
CONSTANTS
  k1 = k1
  k2 = k2
  s1 = s1
  s2 = s2
  NoOne = NoOne
  Keys = {k1, k2}
  Services = {s1}
  WorkerOf <- OneWorkerId
  Policies <- RetriedKinds
  MaxCrashes = 0
  MaxFlushes = 0
PROPERTY EventuallySettled
