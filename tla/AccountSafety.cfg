SPECIFICATION AccountsSpec
CONSTANTS
  Requests = {r1, r2}
  SignupLimit = 1
  CodeCount = 1
  MaxTickets = 2
  MaxSigns = 2
  MaxCreds = 2
  MaxSessions = 3
  MaxChallenges = 2
  Principals = {p1, p2, p3}
  Ops = {o1, o2}
  Calls = {c1, c2}
  OwnerSubjects = {p1, p3}
  Capacities = {1, 3}
  Roles = {"ORG_ADMIN"}
  SeatStates = {"ACTIVE", "SUSPENDED"}
SYMMETRY Interchangeable
CHECK_DEADLOCK FALSE
INVARIANTS
  SessionsAreEarned
  SeatBooksAgree
PROPERTIES
  CloneSignalNeedsOverlap
  OversoldOnlyByRaces
