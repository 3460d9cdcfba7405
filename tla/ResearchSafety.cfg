SPECIFICATION Spec
CONSTANTS
  wb = wb
  ted = ted
  f1 = f1
  p1 = p1
  p2 = p2
  w1 = w1
  w2 = w2
  NoRun = NoRun
  NoEvent = NoEvent
  Runs = {wb, ted}
  TedRuns = {ted}
  Facts = {f1}
  FactsOf <- SharedFact
  Publishers = {p1}
  Workers = {w1, w2}
  PublishLimit = 2
  MaxOutages = 2
  MaxCrashes = 2
SYMMETRY Interchangeable
INVARIANTS
  LedgerOnce
  OutputIsWhole
  QueuedIsAccountedFor
PROPERTY CompletionPublishedOnce
