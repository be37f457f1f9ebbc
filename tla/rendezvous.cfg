\* One meeting; two connections may open, and either half may go at any time.
CONSTANTS
  Conn = {x,y}
  Punching = 1
  Answering = 2
  None = None
SPECIFICATION FairSpec
INVARIANTS Agreement NoneEarly
PROPERTY NoneKept Introduces
CHECK_DEADLOCK FALSE
