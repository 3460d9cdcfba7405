SPECIFICATION PlatformSpec
CONSTANTS
  Operations = {"o1", "o2"}
  Callers = {"c1", "c2"}
  Amounts = {1, 2}
  TrialBudget = 3
  GrantTokens = 3
  GrantCost = 5
  Rate = 2
  TrialTerm = 1
  TokenTTL = 1
  MaxTime = 1
  Documents <- MCDocuments
  Decidable <- MCDecidable
  Contexts <- MCContexts
  Candidates <- MCCandidates
  NoticeIds <- MCNoticeIds
  MaxNotices = 3
  MaxBatches = 2
  Markets = {"m1", "m2"}
  MaxTokens = 3
  Candidate <- MCCandidate
  MaxDays = 3
  Participants = {"p1", "p2", "p3"}
  StudyTasks = {"t1"}
  Assigned <- MCAssigned
  MinSessions = 2
  MinParticipants = 2
  MinPerCondition = 1
  Subjects = {"owner", "other"}
  C4Owner = "owner"
  MaxConversations = 2
  MaxMessages = 2
  MaxToday = 2
  Putters = {1, 2, 3}
  Probers = {1, 2}
  RenewalWindow = 2
  UrgentWindow = 1
  EvidenceDays = 5
  Expiries = {1, 5}
  FrozenDay = 0
  MaxHeads = 2
  MaxComments = 2
  LastDay = 1
  Workers = {"w1", "w2"}
  SourcePages <- MCPages
  MaxReviews = 1
  Releases = {1, 2}
  Files = {"pending", "rotated"}
  MaxPasswords = 2
  Jobs = {"j1", "j2"}
  OpportunityOf <- MCOpportunity
  DocumentFiles <- MCDocumentFiles
  Orders = {"order"}
  Batches <- MCBatches
  MaxFragments = 2
  Deployments <- MCDeployments
  Prices = {"p1", "t1", "t2"}
  MaxStamp = 3
  MaxVersion = 3
  Configs <- MCConfigs
  Reservations = {"r1", "r2"}
  Lifetimes = {1, 2}
  MaxAssertionTTL = 1
  AssertionSkew = 1
  GrantTTL = 1
  GrantSkew = 1
  IdleWindow = 2
  TouchInterval = 1
  AbsoluteWindow = 3
  StepUpUntil = 2
  MaxClock = 4
CHECK_DEADLOCK FALSE
INVARIANTS
  WithinBudget
  AnswerMatchesReservation
  ProcurementHolds
  ContactPolicyHolds
  OrganicSurfaceIsEarned
  StudyIsHonest
  AxentKeepsItsWord
  StoredObjectsCanBeRead
  OutputStandsOnItsSource
  PilotStateAgrees
  ProposalsAreTraceable
  PaidPlanStaysWithinReach
  InvestigationHoldsTogether
PROPERTIES
  SettlementIsFinal
  ImplementsBudget
  VerdictNeverImproves
  AuthorityIsBounded
