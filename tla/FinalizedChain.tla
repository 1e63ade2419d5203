---------------------------- MODULE FinalizedChain ----------------------------
(***************************************************************************)
(* What FINALITY_V2 promises to everything built on it (relayers, bridges, *)
(* wallets): there is one finalized chain, and it only ever grows at its   *)
(* end, by one block that extends the last.                                *)
(***************************************************************************)
EXTENDS Integers

CONSTANTS Block, Base, Parent, Height

VARIABLE final     \* the blocks some node holds a proof of, with Base

Init == final = {Base}

Finalize(b) ==
    /\ Parent[b] \in final
    /\ \A c \in final : Height[c] < Height[b]
    /\ final' = final \cup {b}

Next == \E b \in Block : Finalize(b)

Spec == Init /\ [][Next]_final

=============================================================================
