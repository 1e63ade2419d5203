\* One call at a time, under the faults the code recovers from and under all.
SPECIFICATION FairSpec
CONSTANTS
  m = m
  Thread = {m}
  Miner = m
  Blocks = {"b1", "s1", "o2", "r2", "a2", "b3", "d3"}
  Block <- MCBlock
  Base = "g0"
  Parent <- MCParent
  Height <- MCHeight
  Txs <- MCTxs
  PostState <- MCPostState
  Own <- MCOwn
  BadApply <- MCBadApply
  BadRoot <- MCBadRoot
  FaultSets <- MCFaultSets
  MaxFaults = 4
  None = None
INVARIANT TypeOK
INVARIANT StateIsTheChains
INVARIANT HeaderRootsHold
INVARIANT SetsMatchTheChain
INVARIANT NoReplayedTx
INVARIANT ChainIsLinked
PROPERTY StoredBlocksStay
PROPERTY CompletesCalls
CHECK_DEADLOCK FALSE
