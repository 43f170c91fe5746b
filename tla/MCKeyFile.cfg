SPECIFICATION KeySpec
CONSTANTS
  Proc = {p1, p2, p3}
  MaxKeys = 4
INVARIANTS IdentityWasSaved
PROPERTIES IdentitySettles
