\* Two runs and two lines, one conversation of each; no question.
CONSTANTS
  Frontend = {f1}
  a = a
  Agent = {a}
  MaxSession = 1
  AgentOf <- OneAgent
  Role = {}
  Line = {l1,l2}
  Question = {}
  MaxRun = 2
  Chat = FALSE
  AtLarge = AtLarge
  To = {AtLarge,1}
  Afks = {}
  MaxStray = 1
  None = None
SPECIFICATION Spec
SYMMETRY Symmetric
INVARIANTS LinesAccounted InOrder HeardByItsRun OneAtATime
CHECK_DEADLOCK FALSE
