SPECIFICATION AxentSpec
CONSTANTS
  Subjects = {"owner", "other"}
  C4Owner = "owner"
  MaxConversations = 2
  MaxMessages = 1
  MaxToday = 2
CHECK_DEADLOCK FALSE
INVARIANT HeldConversationSurvives
