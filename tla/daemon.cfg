\* Two frontends that may each reach for the runs three times, and one fault.
CONSTANTS
  Frontend = {f1,f2}
  Word = Word
  MaxDaemon = 2
  MaxHost = 2
  MaxFault = 1
  Attaches = 3
  Tries = 2
SPECIFICATION Spec
SYMMETRY Symmetric
INVARIANTS Reachable SameRuns NoneLost LeftIsLetGo Reaches
CHECK_DEADLOCK FALSE
