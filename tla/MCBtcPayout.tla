---------------------------- MODULE MCBtcPayout ----------------------------
(***************************************************************************)
(* Two equal withdrawals to one address, the case Bitcoin cannot tell      *)
(* apart; two coins that each cover one of them, and a larger third that   *)
(* may arrive at any time; fee rates that are fine, that leave dust and    *)
(* that exceed the cap.                                                    *)
(***************************************************************************)
EXTENDS BtcPayout

MCWithdrawal == {"w1", "w2"}
MCDest == [w \in MCWithdrawal |-> "bc1"]
MCOwed == [w \in MCWithdrawal |-> 2000]

Dep(n) == [ins |-> {}, to |-> "user", pay |-> 1, chg |-> n]
MCFunded   == {Dep(3000), Dep(2300)}
MCDeposit  == MCFunded \cup {Dep(9000)}
MCLegacyTx == {[ins |-> {Dep(2300)}, to |-> "bc1", pay |-> 2000, chg |-> 0]}
MCHighRate == {12, 100}

\* Everything but eviction and what brings a dropped plan back; everything under which the
\* records stay complete, without and with eviction.
MCFaultSets == {FaultKinds \ {"evict", "reject"},
                FaultKinds \ {"evict", "crash"},
                FaultKinds \ {"evict", "file", "io"},
                FaultKinds \ {"reject", "file", "io"}}
=============================================================================
