SPECIFICATION BMFairSpec
CONSTANTS
  Volts <- MCVolts
  AmperPins <- MCAmperPins
  matchRequire = 3
PROPERTIES ThreeInARow LevelIsFound
