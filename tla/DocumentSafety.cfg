SPECIFICATION Spec
CONSTANTS
  r1 = r1
  r2 = r2
  fact = fact
  limit = limit
  wrong = wrong
  f1 = f1
  f2 = f2
  p1 = p1
  p2 = p2
  w1 = w1
  w2 = w2
  m1 = m1
  m2 = m2
  v1 = v1
  v2 = v2
  y1 = y1
  y2 = y2
  NoRun = NoRun
  NoHandoff = NoHandoff
  NoReviewer = NoReviewer
  NoWhy = NoWhy
  Runs = {r1}
  Candidates = {fact, limit}
  CandidatesOf <- BothCandidates
  Facts = {f1, f2}
  FactOf <- OwnFact
  InProfile = {fact}
  Exact = {fact}
  Adverse = {limit}
  Publishers = {p1}
  Workers = {w1, w2}
  Runtimes = {m1, m2}
  Reviewers = {v1, v2}
  Whys = {y1}
  PublishLimit = 5
  MaxHandoffs = 2
  MaxOutages = 1
  MaxCrashes = 1
SYMMETRY Interchangeable
INVARIANTS
  DecidedWhole
  RunAgreesWithHandoff
  ReviewIsAccounted
