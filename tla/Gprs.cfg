SPECIFICATION FairSpec
CONSTANTS
  OUT_MESSAGE_STACK_SIZE = 2
  Given = {{"APN", "LOGIN", "PSWD"}}
  MaxOther = 1
INVARIANTS OneStep ActiveIsUp
PROPERTY OperationsEnd
