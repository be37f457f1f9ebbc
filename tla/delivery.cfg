\* Three frontends, two of which may stop reading and two claim; one record of history is kept.
CONSTANTS
  Frontend = {f1, f2, f3}
  Stuck = {f2, f3}
  Claimant = {f1, f2}
  None = None
  MaxSeq = 3
  MaxClaim = 2
  Kept = 1
  Behind = 4
SPECIFICATION FairSpec
INVARIANTS Current LiveIsExact
PROPERTIES Heeded Implements
CHECK_DEADLOCK FALSE
