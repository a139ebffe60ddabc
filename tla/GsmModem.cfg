SPECIFICATION FairSpec
CONSTANTS
  c1 = c1
  c2 = c2
  Command = {c1, c2}
  OUT_MESSAGE_STACK_SIZE = 2
  MaxTimer = 4
  MaxOther = 1
  MaxRx = 1
  MaxStarts = 2
INVARIANTS IdsAreTimers HalfLineIsTimed
PROPERTIES  BootEnds
