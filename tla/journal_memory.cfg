\* Three calls two deep, killed anywhere, and a run picking up the first.
CONSTANTS
  Call = {c1,c2,c3}
  Top = Top
  Digest = {d1}
  Key = {k1}
  Value = {x}
  None = None
  MaxId = 4
  MaxRun = 2
  MaxFault = 0
  MaxDepth = 2
  MaxSeq = 1
SPECIFICATION Spec
SYMMETRY Symmetric
PROPERTY KeepsMemory
CHECK_DEADLOCK FALSE
