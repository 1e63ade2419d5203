SPECIFICATION Spec
CONSTANTS
  w1 = w1
  w2 = w2
  None = None
  Withdrawal = {w1, w2}
  Route <- BothContracts
  Feed <- FeedOfContract
  Poll = {p1, p2}
  Handler = {h1, h2}
  h1 = h1
  p1 = p1
  p2 = p2
  h2 = h2
  Threshold = 1
  Faults = {"rpc", "send", "timeout", "revert", "drop", "reorg", "lost", "refuse", "io", "crash", "torn", "relayer", "overlap"}
  MaxFaults = 2
CHECK_DEADLOCK FALSE
INVARIANT TypeOK
INVARIANT SettledOnce
INVARIANT FulfilledIsPaid
INVARIANT ListIsComplete
