CONSTANTS
  Questions = {q1, q2}
  MaxConversations = 2
  MaxPerWindow = 1
  MaxAttempts = 2
  Faults = {"provider"}
  Moves = {}
  r1 = r1  r2 = r2  p1 = p1
SPECIFICATION LiveSpec
INVARIANTS LiveTypeOK ShownIsStored OnePollPerSocket
PROPERTIES ThinkingIsOver LimitEnds   PollsEnd
CHECK_DEADLOCK FALSE
