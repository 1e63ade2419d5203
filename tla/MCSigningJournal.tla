-------------------------- MODULE MCSigningJournal --------------------------
(* Instances of SigningJournal for TLC. *)
EXTENDS SigningJournal, TLC

(* Processes that share the directory and are killed, or one that loses power. *)
MCFaultSets == {{"shared", "abort"}, {"power"}}

(* One process that is killed and then loses power. *)
MCAbortAndPower == {{"abort", "power"}}

(* Processes, slots and hashes are interchangeable. *)
Symmetry == Permutations(Proc) \cup Permutations(Slot) \cup Permutations(Hash)
=============================================================================
