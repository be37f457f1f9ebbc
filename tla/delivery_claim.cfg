\* One frontend, one claim.
CONSTANTS
  Frontend = {f1}
  Stuck = {}
  Claimant = {f1}
  None = None
  MaxSeq = 1
  MaxClaim = 1
  Kept = 1
  Behind = 4
SPECIFICATION Spec
INVARIANT ClaimGivenUp
CHECK_DEADLOCK FALSE
