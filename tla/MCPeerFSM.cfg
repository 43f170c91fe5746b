SPECIFICATION FairSpec
CONSTANTS
  a1 = a1
  a2 = a2
  Fsm = {p}
  Addr <- MCAddr
  NoAddr = NoAddr
  Offers <- MCOffers
  QueueCap = 2
  PunchDur = 1
  KeepaliveEvery = 1
  PongMiss = 1
  RelayedTypes = {"call_me_maybe"}
INVARIANTS LeakIsReported
PROPERTIES SilentPathAbandoned KnownEndpointsTried StopTerminates
CHECK_DEADLOCK FALSE
