\* Two calls deep, two stops from outside, one turn of another task; the loop is fair.
CONSTANTS
  Side = {t1}
  Main = main
  MaxDepth = 2
  MaxCall = 3
  MaxStop = 2
SPECIFICATION FairSpec
INVARIANTS CancelsCounted NoStrayCancel
PROPERTY DeadlineSurfaces StopNotMasked SparesTurns DeadlineComes
CHECK_DEADLOCK FALSE
