SPECIFICATION FairSpec
CONSTANTS
  Recip = {r1}
  FirstKey = r1
  Env = {e1, e2, e3}
  Handler = {h1}
  NoHandler = NoHandler
  Depth = 2
  MaxAge = 1
INVARIANTS QueueHoldsNewest
PROPERTIES IsLossyFifo SignalsLeave
