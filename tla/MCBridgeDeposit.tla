--------------------------- MODULE MCBridgeDeposit ---------------------------
(***************************************************************************)
(* Instances of BridgeDeposit: two deposits of different credits in        *)
(* consecutive blocks, and two of the same credit.                         *)
(***************************************************************************)
EXTENDS BridgeDeposit, TLC

CONSTANTS d1, d2

MCDeposit == {d1, d2}
MCBlock == d1 :> 1 @@ d2 :> 2
MCCredit == d1 :> "c1" @@ d2 :> "c2"
MCTwinCredit == d1 :> "c" @@ d2 :> "c"
MCBrowser == {d1}

MCFaultSets ==
    {{"read", "slow", "relayer", "save"},
     {"overrun", "read"},
     {"browser", "read"},
     {"io", "mint", "crash", "evict", "drop", "slow"},
     {"overlap", "io", "mint", "drop", "slow"},
     {"torn", "stop", "save"}}
MCNoFault == {{}}

=============================================================================
