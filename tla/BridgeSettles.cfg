SPECIFICATION FairSpec
CONSTANTS
  w1 = w1
  w2 = w2
  None = None
  Withdrawal = {w1}
  Route <- AnyRoute
  Feed <- AnyFeed
  Poll = {p1, p2}
  Handler = {h1}
  h1 = h1
  p1 = p1
  p2 = p2
  Threshold = 2
  Faults = {"rpc", "send", "timeout", "revert", "drop", "lost", "refuse", "io", "crash", "torn", "relayer", "overlap", "late", "slow"}
  MaxFaults = 3
CHECK_DEADLOCK FALSE
PROPERTY Settles
