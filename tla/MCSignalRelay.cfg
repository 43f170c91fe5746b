SPECIFICATION Spec
CONSTANTS
  Recip = {r1, r2}
  FirstKey = r1
  Env = {e1, e2}
  Handler = {h1, h2}
  NoHandler = NoHandler
  Depth = 1
  MaxAge = 1
INVARIANTS TypeOK NoLostWakeup CloseOnce
PROPERTIES LossHasCause IsLossyFifo
SYMMETRY MCSymmetry
