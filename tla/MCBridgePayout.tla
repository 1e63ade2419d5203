--------------------------- MODULE MCBridgePayout ---------------------------
(***************************************************************************)
(* Instances of BridgePayout: small sets of withdrawals, a refund          *)
(* threshold of one or two (five in the code), faults named in the         *)
(* configuration; the loops of one poll, or the same loop of two polls.    *)
(***************************************************************************)
EXTENDS BridgePayout

CONSTANTS w1, w2, p1

AnyRoute == [w \in Withdrawal |-> Routes]
BothContracts == [w \in Withdrawal |-> IF w = w1 THEN {"evm", "large"} ELSE {"xrge"}]

AnyFeed == [r \in Poll |-> Routes]
FeedOfContract == [r \in Poll |-> IF r = p1 THEN {"evm", "large"} ELSE {"xrge"}]
=============================================================================
