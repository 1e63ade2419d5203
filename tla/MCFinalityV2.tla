---------------------------- MODULE MCFinalityV2 ----------------------------
(* Instances of FinalityV2 and its light client for TLC: block trees of one *)
(* or two heights above Base with two siblings at each place, small stakes. *)
EXTENDS LightClient

CONSTANTS n1, n2, f, B0, a1, a2, b1, b2

(* Up to two heights: a1 and a2 on the base, b1 on a1 and b2 on a2. *)
ForkParent == [b \in Block |-> CASE b = b1 -> a1 [] b = b2 -> a2 [] OTHER -> B0]

TreeHeight == [b \in Block |-> CASE b = B0 -> 1 [] b \in {a1, a2} -> 2 [] OTHER -> 3]

(* Equal stakes, so that the tie can make f the proposer; with two honest   *)
(* validators a quorum needs all three.                                     *)
EqualStake == [b \in Block |-> [v \in Honest \cup Faulty |-> 1]]
FaultyProposer == [b \in Block |-> f]

(* Stake moves: n1 proposes on the base, n2 afterwards. *)
TurnStake == [b \in Block |-> [v \in Honest \cup Faulty |->
                  IF v = IF b = B0 THEN n1 ELSE n2 THEN 2 ELSE 1]]
TurnProposer == [b \in Block |-> IF b = B0 THEN n1 ELSE n2]
=============================================================================
