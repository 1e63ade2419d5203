------------------------------ MODULE BtcPlan ------------------------------
(***************************************************************************)
(* The arithmetic of a qBTC payout (scripts/btc-relayer-core.ts): which    *)
(* custody outputs it spends, what the network takes, what arrives, and    *)
(* which transactions count as the payout of a withdrawal, for the relayer *)
(* and for the daemon (core/daemon/src/bridge_btc.rs).                     *)
(*                                                                         *)
(* A Bitcoin transaction is what its id commits to: the custody outputs it *)
(* spends, the address it pays and how much, and its output to custody.    *)
(* Each transaction has at most one output to custody, so a custody coin   *)
(* is named by the transaction that made it.  A deposit spends no custody  *)
(* coin; its payment is the depositor's change.                            *)
(***************************************************************************)
EXTENDS Integers, Sequences, FiniteSets, FiniteSetsExt

CONSTANTS
  Dust,          \* DUST
  MaxFee,        \* BTC_MAX_NETWORK_FEE_SATS, QV_BRIDGE_BTC_MAX_NETWORK_FEE_SATS
  DestScriptLen  \* length of the destination's scriptPubKey

P2wpkhScriptLen == 22

VarIntLen(n) == IF n < 253 THEN 1 ELSE IF n <= 65535 THEN 3 ELSE 5

\* Upper bound of the virtual size: nIn inputs, outputs of the given script lengths.
P2wpkhVsize(nIn, lens) ==
  LET out  == FoldFunction(LAMBDA l, a : a + 8 + VarIntLen(l) + l, 0, lens)
      base == 8 + VarIntLen(nIn) + VarIntLen(Len(lens)) + 41 * nIn + out
  IN  (base * 4 + 2 + 108 * nIn + 3) \div 4

FeeForVsize(vsize, rate) == vsize * rate

Coins(ts) == MapThenSumSet(LAMBDA t : t.chg, ts)

(* The coins planPayout takes: largest first, until they cover the debt with no change or with
   change above dust, else all.  Equal coins come in any order. *)
Selections(utxos, sats) ==
  LET largest(P) == \A a \in P, b \in utxos \ P : a.chg >= b.chg
      stops(P)   == Coins(P) = sats \/ Coins(P) > sats + Dust
  IN  {P \in SUBSET utxos :
         /\ largest(P)
         /\ stops(P) \/ P = utxos
         /\ \A c \in P : \A Q \in SUBSET (P \ {c}) : largest(Q) => ~stops(Q)}

(* mutant: custody pays the fee out of its change *)
ShapeFromChange(P, sats, rate, change) ==
  LET fee == FeeForVsize(P2wpkhVsize(Cardinality(P), <<DestScriptLen, P2wpkhScriptLen>>), rate)
  IN  [kind |-> IF fee > MaxFee \/ fee >= change THEN "fee_too_high" ELSE "ok",
       ins |-> P, pay |-> sats, chg |-> change - fee]

\* The plan that spends P: the withdrawer pays the fee and gets a remainder up to dust.
Shape(P, sats, rate, change) ==
  LET lens == IF change > 0 THEN <<DestScriptLen, P2wpkhScriptLen>> ELSE <<DestScriptLen>>
      fee  == FeeForVsize(P2wpkhVsize(Cardinality(P), lens), rate)
      pay  == Coins(P) - change - fee
  IN  [kind |-> IF fee > MaxFee THEN "fee_too_high"
                ELSE IF pay <= Dust THEN "below_minimum_after_fee" ELSE "ok",
       ins |-> P, pay |-> pay, chg |-> change]

Insufficient == [kind |-> "insufficient", ins |-> {}, pay |-> 0, chg |-> 0]

\* planPayout: the plans it may return.
PlanPayout(utxos, sats, rate) ==
  {IF P = {} \/ Coins(P) < sats THEN Insufficient
   ELSE Shape(P, sats, rate, IF Coins(P) - sats <= Dust THEN 0 ELSE Coins(P) - sats) :
     P \in Selections(utxos, sats)}

\* The network fee as a reader of the chain computes it: inputs minus outputs.
TxFee(t) == Coins(t.ins) - t.pay - t.chg

\* payoutSettles: does the relayer take t for the payout of sats to dest?
PayoutSettles(t, dest, sats) ==
  /\ t.ins # {}
  /\ t.to = dest /\ t.pay > 0
  /\ \/ t.pay >= sats
     \/ TxFee(t) <= MaxFee /\ t.pay + TxFee(t) >= sats

\* evaluate_payout: does the daemon?
EvaluatePayout(t, dest, sats) ==
  /\ t.ins # {}
  /\ t.to = dest /\ t.pay # 0
  /\ \/ t.pay >= sats
     \/ TxFee(t) <= MaxFee /\ t.pay + TxFee(t) >= sats
=============================================================================
