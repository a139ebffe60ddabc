SPECIFICATION FairSpec
CONSTANTS
  AUX_MAX_ATTEMPTS = 3
  LaunchWait = 4
  StopWait = 3
  LaunchBlock = 7
  MaxFrame = 2
 
PROPERTIES RunsAreComplete ToldOnceAtTheEnd StopPauseKept WaitingCommandRuns
