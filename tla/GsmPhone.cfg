SPECIFICATION Spec
CONSTANTS
  FlowStart = {"INITIALIZATION", "LOCKED"}
  SMS_CALL_HANGUP_SIZE = 1
  MaxOwed = 2
INVARIANTS Configured FlowGoesOn RingsOut
PROPERTY AnswersFriends
