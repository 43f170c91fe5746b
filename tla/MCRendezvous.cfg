SPECIFICATION RdvSpec
CONSTANTS
  a = a
  b = b
  a1 = a1
  a2 = a2
  b1 = b1
  b2 = b2
  Fsm <- MCFsm
  Addr <- MCAddr
  Offers <- MCOffers
  Pub <- MCPub
  Loc <- MCLoc
  NoAddr = NoAddr
  QueueCap = 5
  PunchDur = 4
  KeepaliveEvery = 2
  PongMiss = 6
  RelayedTypes = {"call_me_maybe"}
  HoleLife = 3
  MaxFaults = 1
INVARIANTS LinkReachesPeer TogetherConnects
PROPERTIES PathStays
SYMMETRY MCSwap
