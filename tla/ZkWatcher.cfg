SPECIFICATION FairSpec
CONSTANTS
  Watches = {w1}
  Ephemerals = {e1}
  MaxChanges = 1
  MaxLosses = 2
INVARIANTS ZkInv
PROPERTIES NoReplay RunReturns ChangeDelivered Settles CloseReturns
CHECK_DEADLOCK FALSE
