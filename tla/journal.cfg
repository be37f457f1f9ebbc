\* Kills between any two writes, one of which may be refused; a second run picks up the first.
CONSTANTS
  Call = {c1,c2,c3}
  Top = Top
  Digest = {d1}
  Key = {k1}
  Value = {x}
  None = None
  MaxId = 4
  MaxRun = 2
  MaxFault = 1
SPECIFICATION Spec
SYMMETRY Symmetric
INVARIANTS StateDurable ParentFirst NoSeqGap JidsDistinct NoneAdopted
CHECK_DEADLOCK FALSE
