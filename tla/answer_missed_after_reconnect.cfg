CONSTANTS
  Questions = {q1}
  MaxConversations = 1
  MaxPerWindow = 1
  MaxAttempts = 1
  Faults = {"drop"}
  Moves = {}
SPECIFICATION FairSpec
PROPERTY AnswerShown
CHECK_DEADLOCK FALSE
