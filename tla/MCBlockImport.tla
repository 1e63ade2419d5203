--------------------------- MODULE MCBlockImport ---------------------------
(***************************************************************************)
(* Instances of BlockImport for TLC.  The blocks are strings: the digit is *)
(* the height; b2 extends b1 and so on, o2 is sealed by this node on b1.   *)
(*   r2  header root wrong        a2  cannot be applied                    *)
(*   d3  carries a transaction that b1 already has                         *)
(*   s1  a second valid block of height 1                                  *)
(***************************************************************************)
EXTENDS BlockImport, TLC

CONSTANT Blocks   \* the block names of the instance besides the genesis block

MCBlock == Blocks \cup {"g0"}

MCHeight == [b \in MCBlock |->
  IF b = "g0" THEN 0 ELSE IF b \in {"b1", "s1", "o1"} THEN 1
  ELSE IF b \in {"b2", "o2", "r2", "a2"} THEN 2 ELSE 3]

(* the good block of a height that its children extend *)
Main(h) ==
  IF h = 0 THEN "g0"
  ELSE CHOOSE b \in MCBlock : MCHeight[b] = h /\ b \notin {"s1", "r2", "a2", "d3"}

MCParent == [b \in MCBlock |-> IF b = "g0" THEN "g0" ELSE Main(MCHeight[b] - 1)]

MCTxs == [b \in MCBlock |->
  IF b = "g0" THEN {} ELSE IF b = "d3" THEN {Main(1)} ELSE {b}]

PostStates[b \in MCBlock] ==
  IF b = "g0" THEN << >> ELSE Append(PostStates[MCParent[b]], b)
MCPostState == PostStates

MCOwn == MCBlock \cap {"o1", "o2"}
MCBadRoot == MCBlock \cap {"r2"}
MCBadApply == MCBlock \cap {"a2"}

(* The faults the code recovers from, outside recovery and during it; all. *)
MCFaultSets == {{"crash", "io"}, {"crash", "io", "in_recovery"}, FaultKinds}
MCNoFaults == {{}}
=============================================================================
