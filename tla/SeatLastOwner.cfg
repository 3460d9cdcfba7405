SPECIFICATION AccountsSpec
CONSTANTS
  Requests = {r1, r2}
  SignupLimit = 1
  CodeCount = 1
  MaxTickets = 2
  MaxSigns = 2
  MaxCreds = 2
  MaxSessions = 3
  MaxChallenges = 2
  Principals = {p1, p2, p3}
  Ops = {o1, o2}
  Calls = {c1, c2}
  OwnerSubjects = {p1}
  Capacities = {2, 3}
  Roles = {"ORG_ADMIN"}
  SeatStates = {"ACTIVE", "SUSPENDED"}
CHECK_DEADLOCK FALSE
INVARIANT OwnerRemains
