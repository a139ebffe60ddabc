SPECIFICATION Spec
CONSTANTS
  OUT_MESSAGE_STACK_SIZE = 3
  MaxOther = 1
INVARIANTS OneChain Configured OnePoll  NumberIsCallers
