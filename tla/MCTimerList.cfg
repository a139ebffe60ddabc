SPECIFICATION FairSpec
CONSTANTS
  a1 = a1
  a2 = a2
  a3 = a3
  o1 = o1
  o2 = o2
  Null = Null
  Addr <- ThreeAddr
  Owner <- TwoOwners
  MaxId = 4
  Durations = {1, 2}
  ClockMod = 3
  StartsPerCallback = 1
  StopsHeld = FALSE
INVARIANTS ListShape 
PROPERTIES   EveryTimerEnds
