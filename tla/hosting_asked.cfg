\* Two frontends, two runs, and a question and a line that may answer it; no turn is taken.
CONSTANTS
  Frontend = {f1,f2}
  a = a
  Agent = {a}
  MaxSession = 0
  AgentOf <- OneAgent
  Role = {r}
  Line = {l1}
  Question = {q1}
  MaxRun = 2
  Chat = TRUE
  AtLarge = AtLarge
  To = {AtLarge,r}
  Afks = {TRUE,FALSE}
  MaxStray = 1
  None = None
SPECIFICATION FairSpec
INVARIANT PendingIsGoing
PROPERTY Noticed
CHECK_DEADLOCK FALSE
