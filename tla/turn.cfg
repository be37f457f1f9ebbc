\* Two turns of two tries and two rounds; one watchdog, one cut-off held up at a time.
CONSTANTS
  Dog = {d1}
  MaxTurn = 2
  MaxTry = 2
  MaxRound = 2
  MaxLate = 1
  MaxBusy = 2
SPECIFICATION FairSpec
INVARIANTS NoLostCut CutIsIts WedgedFails
PROPERTY TurnEnds
CHECK_DEADLOCK FALSE
