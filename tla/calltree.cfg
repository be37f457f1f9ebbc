\* Three calls, a session; what the run waits for is over in time, or it is not.
CONSTANTS
  Call = {c1,c2,c3}
  Top = Top
  Session = {s1}
  None = None
SPECIFICATION FairSpec
INVARIANTS ClosedOnce CalleesFirst NoneLeft AllClosed
PROPERTY RunCloses
CHECK_DEADLOCK FALSE
