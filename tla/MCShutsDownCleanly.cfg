SPECIFICATION Spec
CONSTANTS
  Key = {k1, k2}
  MaxFsm = 4
  MaxChanges = 2
INVARIANTS ShutsDownCleanly
CHECK_DEADLOCK FALSE
