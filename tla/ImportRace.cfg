\* Two callers, no fault.
SPECIFICATION Spec
CONSTANTS
  m = m
  t = t
  Thread = {m, t}
  Miner = m
  Blocks = {"b1", "r2", "b2"}
  Block <- MCBlock
  Base = "g0"
  Parent <- MCParent
  Height <- MCHeight
  Txs <- MCTxs
  PostState <- MCPostState
  Own <- MCOwn
  BadApply <- MCBadApply
  BadRoot <- MCBadRoot
  FaultSets <- MCNoFaults
  MaxFaults = 0
  None = None
INVARIANT StateIsTheChains
CHECK_DEADLOCK FALSE
