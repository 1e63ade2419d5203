------------------------------ MODULE VoteLock ------------------------------
(***************************************************************************)
(* What the signing journal promises (core/finality/src/journal.rs, lines  *)
(* 1-19): a signing slot - one (chain, validator, vote type, height,       *)
(* round) - is locked to at most one block hash, for ever, and only the    *)
(* locked hash is ever signed.  SigningJournal implements this             *)
(* specification.                                                          *)
(***************************************************************************)
CONSTANTS
    Slot,    \* the signing slots
    Hash,    \* the block hashes a vote can name
    NoHash   \* the value of a slot that is not locked

VARIABLES
    locked,  \* locked[s]: the hash slot s is locked to, or NoHash
    signed   \* the <<slot, hash>> pairs a signature exists for

vars == <<locked, signed>>

Init ==
    /\ locked = [s \in Slot |-> NoHash]
    /\ signed = {}

(* Commit::Locked: a free slot is bound to a hash. *)
Lock(s, h) ==
    /\ locked[s] = NoHash
    /\ locked' = [locked EXCEPT ![s] = h]
    /\ UNCHANGED signed

(* A signature over the hash the slot is bound to. *)
Sign(s, h) ==
    /\ locked[s] = h
    /\ signed' = signed \cup {<<s, h>>}
    /\ UNCHANGED locked

Next == \E s \in Slot, h \in Hash : Lock(s, h) \/ Sign(s, h)

Spec == Init /\ [][Next]_vars
=============================================================================
