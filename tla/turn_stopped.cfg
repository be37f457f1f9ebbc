\* One turn, tried twice.
CONSTANTS
  Dog = {d1}
  MaxTurn = 1
  MaxTry = 2
  MaxRound = 1
  MaxLate = 1
  MaxBusy = 1
SPECIFICATION FairSpec
PROPERTY StopEndsWait
CHECK_DEADLOCK FALSE
