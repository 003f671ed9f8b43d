CONSTANTS
  Messages = {x1, x2}
  Sentinel = Sentinel
  Loops = {"blocking", "draining", "polling"}
  MaxPending = 3
SPECIFICATION BoundedFairSpec
CHECK_DEADLOCK FALSE
INVARIANTS TypeOK NoStuckJoin FewSentinels
PROPERTIES EndsDrained JoinReturns
