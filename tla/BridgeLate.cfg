SPECIFICATION Spec
CONSTANTS
  w1 = w1
  w2 = w2
  None = None
  Withdrawal = {w1}
  Route <- AnyRoute
  Feed <- AnyFeed
  Poll = {p1}
  Handler = {h1}
  h1 = h1
  p1 = p1
  Threshold = 2
  Faults = {"timeout", "late"}
  MaxFaults = 3
CHECK_DEADLOCK FALSE
INVARIANT SettledOnce
