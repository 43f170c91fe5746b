SPECIFICATION FairSpec
CONSTANTS
  Key = {k1, k2}
  MaxFsm = 4
  MaxChanges = 2
INVARIANTS RunningIsKnown
PROPERTIES PeersFollowDirectory
CHECK_DEADLOCK FALSE
