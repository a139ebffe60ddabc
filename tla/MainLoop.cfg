SPECIFICATION Spec
CONSTANTS
  MICROS_IN_SECOND = 3
  ClockMod = 8
  NetTime = {0, 5}
  MaxFrame = 4
  Horizon = 13
  MaxUpdates = 2
  MaxClients = 2
INVARIANTS UtcFollows OnlineIsElapsed OneClientPerChain
