------------------------------ MODULE FinalityV2 ------------------------------
(***************************************************************************)
(* FINALITY_V2 and Release 2a of the node (core/daemon/src/node.rs with    *)
(* core/finality): the designated proposer seals a block on a FINAL        *)
(* parent, every validator that accepts the block signs one prevote and    *)
(* one precommit for it under its signing journal, precommits of more than *)
(* two thirds of the stake make a finality proof, and the next block       *)
(* carries that proof as its parent_commit certificate.                    *)
(*                                                                         *)
(* A node never reorganises: import_block accepts only a child of its tip. *)
(* It loses its memory when it restarts and keeps its sled trees and its   *)
(* signing journal; a restart without a usable balance snapshot resets the *)
(* chain to genesis and re-imports the stored blocks from memory, so a     *)
(* second crash on the way leaves a shorter chain.                         *)
(*                                                                         *)
(* Blocks are given in advance as a tree (Parent, Height): which of them   *)
(* come to exist is decided by the proposers.  Base is the last block      *)
(* before the activation height; every node has it.  Stake[b] is the       *)
(* validator set for the height after b, the function of accepted history  *)
(* that ValidatorReplay derives, and Proposer[b] the designated proposer   *)
(* of that height.                                                         *)
(***************************************************************************)
EXTENDS Integers, FiniteSets

CONSTANTS
    Honest,         \* validators that run this code
    Faulty,         \* validators that may sign and propose anything
    Block, Base,    \* the blocks that may exist; the last one before activation
    Parent, Height, \* [Block -> Block], [Block -> Nat]
    MaxStake,       \* the largest stake of a validator (a u128 in the code)
    Stake,          \* [Block -> [Validator -> 0 .. MaxStake]]
    Proposer,       \* [Block -> Validator \cup {None}]
    MaxRestarts,    \* bound: restarts in a behaviour
    MaxFailures,    \* bound: failed productions in a behaviour
    None

Validator == Honest \cup Faulty

(* The units of stake that the validators in S hold in the set for the     *)
(* height after p: Weight is their number, so that quorums are sets.       *)
Units(p, S) == {u \in S \X (1 .. MaxStake) : u[2] <= Stake[p][u[1]]}

Weight(p, S) == Cardinality(Units(p, S))

(* Off by one: two thirds are enough. *)
QuorumTwoThirds(p) == (2 * Weight(p, Validator)) \div 3

(* ValidatorSetSnapshot::quorum: strictly more than two thirds. *)
Quorum(p) == (2 * Weight(p, Validator)) \div 3 + 1

ASSUME ValidatorAssumption ==
    /\ Honest \cap Faulty = {}
    /\ IsFiniteSet(Honest)
    /\ IsFiniteSet(Faulty)

ASSUME BlockAssumption ==
    /\ Base \in Block
    /\ Parent \in [Block -> Block]
    /\ Height \in [Block -> Nat]
    /\ \A b \in Block \ {Base} : Height[b] = Height[Parent[b]] + 1
    /\ \A b \in Block \ {Base} : Height[b] > Height[Base]

(* At most a third of the stake of every validator set is faulty. *)
ASSUME StakeAssumption ==
    /\ MaxStake \in Nat
    /\ Stake \in [Block -> [Validator -> 0 .. MaxStake]]
    /\ \A p \in Block : 3 * Weight(p, Faulty) <= Weight(p, Validator)

ASSUME ProposerAssumption == Proposer \in [Block -> Validator \cup {None}]

ASSUME BoundAssumption == MaxRestarts \in Nat /\ MaxFailures \in Nat

ASSUME NoneAssumption ==
    /\ None \notin Block \cup Validator
    /\ None \notin [by : Validator, commit : SUBSET Validator]

VoteType == {"prevote", "precommit"}

VARIABLES
    signed,     \* votes <<validator, type, block>> that exist, signed
    header,     \* header[b] = [by, commit] of a sealed block, or None
    published,  \* sealed blocks that have left their proposer
    stored,     \* store: the accepted chain of each node, as a set of blocks
    tip,        \* store.get_tip()
    journal,    \* finality-signing-journal: slots <<type, block>>, durable
    votes,      \* votes: the precommits in each node's pool, volatile
    jobs,       \* auto_vote_v2 calls under way: <<block, type>> still to sign
    proofs,     \* finality_db: <<block, precommitters>>, one per height
    finalized,  \* finalized_height, volatile
    proposals,  \* proposal_journal: blocks this node sealed, durable
    sealing,    \* the block between journal_proposal and append_block, or None
    phase,      \* "run", or "init" until init returns
    reimport,   \* blocks recover_from_history holds in memory
    restarts,   \* restarts so far
    failures    \* failed productions so far

vars == <<signed, header, published, stored, tip, journal, votes, jobs, proofs,
          finalized, proposals, sealing, phase, reimport, restarts, failures>>
chainVars == <<stored, tip>>
voteVars == <<signed, journal>>
bootVars == <<phase, reimport, restarts>>
sealVars == <<proposals, sealing, failures>>

Init ==
    /\ signed = {}
    /\ header = [b \in Block |-> None]
    /\ published = {}
    /\ stored = [n \in Honest |-> {Base}]
    /\ tip = [n \in Honest |-> Base]
    /\ journal = [n \in Honest |-> {}]
    /\ votes = [n \in Honest |-> {}]
    /\ jobs = [n \in Honest |-> {}]
    /\ proofs = [n \in Honest |-> {}]
    /\ finalized = [n \in Honest |-> 0]
    /\ proposals = [n \in Honest |-> {}]
    /\ sealing = [n \in Honest |-> None]
    /\ phase = [n \in Honest |-> "run"]
    /\ reimport = [n \in Honest |-> {}]
    /\ restarts = 0
    /\ failures = 0

-----------------------------------------------------------------------------
(* Certificates.                                                           *)

(* verify_finality_proof: every vote in Q is a signed precommit for exactly*)
(* this block by a member of its set, and their stake reaches the quorum.  *)
VerifyProof(b, Q) ==
    /\ \A v \in Q : <<v, "precommit", b>> \in signed /\ Stake[Parent[b]][v] > 0
    /\ Weight(Parent[b], Q) >= Quorum(Parent[b])

(* has_verified_finality_proof: a persisted proof that verifies against    *)
(* the block this node stores at that height.                              *)
HasProof(n, b) ==
    /\ b \in stored[n]
    /\ \E pf \in proofs[n] : pf[1] = b /\ VerifyProof(b, pf[2])

Max2(i, j) == IF i > j THEN i ELSE j

Min2(i, j) == IF i < j THEN i ELSE j

(* Keeping only the newest proof. *)
PersistProofOnly(n, b, Q, pool) ==
    /\ proofs' = [proofs EXCEPT ![n] = {<<b, Q>>}]
    /\ finalized' = [finalized EXCEPT ![n] = Max2(@, Height[b])]
    /\ votes' = [votes EXCEPT ![n] = {x \in pool : Height[x[3]] # Height[b]}]

(* persist_verified_finality: the tree is keyed by height, the votes of a  *)
(* final height are dropped from pool.                                     *)
PersistProof(n, b, Q, pool) ==
    /\ proofs' = [proofs EXCEPT ![n] =
            {pf \in @ : Height[pf[1]] # Height[b]} \cup {<<b, Q>>}]
    /\ finalized' = [finalized EXCEPT ![n] = Max2(@, Height[b])]
    /\ votes' = [votes EXCEPT ![n] = {x \in pool : Height[x[3]] # Height[b]}]

(* submit_vote_v2 with try_finalize_block_v2: a precommit of a set member  *)
(* for OUR stored block, in a free slot, of a height that is not yet final.*)
(* (Prevotes are journaled and signed; no decision ever reads one, so the  *)
(* pool leaves them out.)                                                  *)
Intake(n, b, v) ==
    LET pool == votes[n] \cup {<<v, "precommit", b>>}
        Q    == {w \in Validator : <<w, "precommit", b>> \in pool}
    IN  IF /\ b \in stored[n] \ {Base}
           /\ Stake[Parent[b]][v] > 0
           /\ ~HasProof(n, b)
        THEN IF Weight(Parent[b], Q) >= Quorum(Parent[b])
             THEN PersistProof(n, b, Q, pool)
             ELSE votes' = [votes EXCEPT ![n] = pool] /\ UNCHANGED <<proofs, finalized>>
        ELSE UNCHANGED <<votes, proofs, finalized>>

-----------------------------------------------------------------------------
(* Blocks.                                                                 *)

(* Release 2a left out: any parent will do. *)
CommitUnchecked(b) == TRUE

(* check_parent_commit: nothing above Base without a valid certificate of  *)
(* exactly the parent, and no certificate on top of Base.                  *)
CommitOK(b) ==
    IF Parent[b] = Base THEN header[b].commit = {}
                        ELSE VerifyProof(Parent[b], header[b].commit)

(* The guards of import_block: the block extends our tip, comes from the   *)
(* designated proposer and carries the certificate of its parent.          *)
ImportOK(n, b) ==
    /\ b # Base
    /\ header[b] # None
    /\ Parent[b] = tip[n]
    /\ header[b].by = Proposer[Parent[b]]
    /\ CommitOK(b)

(* The certificate a block carries finalizes its parent locally. *)
FinalizeParent(n, b) ==
    IF Parent[b] # Base /\ ~HasProof(n, Parent[b])
    THEN PersistProof(n, Parent[b], header[b].commit, votes[n])
    ELSE UNCHANGED <<votes, proofs, finalized>>

(* append_block, then auto_vote_for_block. *)
AppendBlock(n, b) ==
    /\ stored' = [stored EXCEPT ![n] = @ \cup {b}]
    /\ tip' = [tip EXCEPT ![n] = b]
    /\ jobs' = [jobs EXCEPT ![n] = @ \cup {<<b, "prevote">>}]

(* import_block of a block some peer offers. *)
Import(n, b) ==
    /\ phase[n] = "run"
    /\ b \in published
    /\ ImportOK(n, b)
    /\ FinalizeParent(n, b)
    /\ AppendBlock(n, b)
    /\ UNCHANGED <<voteVars, header, published, sealVars, bootVars>>

(* import_block that fails after check_parent_commit (apply error, state   *)
(* root mismatch, failed append): the block is rolled back, the parent's   *)
(* proof stays.                                                            *)
ImportFails(n, b) ==
    /\ phase[n] = "run"
    /\ b \in published
    /\ ImportOK(n, b)
    /\ FinalizeParent(n, b)
    /\ UNCHANGED <<voteVars, chainVars, jobs, header, published, sealVars, bootVars>>

(* The proposal journal ignored: a restarted proposer seals afresh. *)
PendingNone(n) == {}

(* pending_proposal(tip + 1, tip.hash). *)
Pending(n) == {b \in proposals[n] : Parent[b] = tip[n]}

(* mine_pending up to journal_proposal: the designated proposer seals one  *)
(* block on its final tip and records it for (height, parent).             *)
Seal(n, b) ==
    /\ phase[n] = "run"
    /\ sealing[n] = None
    /\ Pending(n) = {}
    /\ b # Base /\ header[b] = None /\ Parent[b] = tip[n]
    /\ Proposer[tip[n]] = n
    /\ \E Q \in SUBSET Validator :
        /\ IF tip[n] = Base THEN Q = {}
                            ELSE <<tip[n], Q>> \in proofs[n] /\ HasProof(n, tip[n])
        /\ header' = [header EXCEPT ![b] = [by |-> n, commit |-> Q]]
    /\ proposals' = [proposals EXCEPT ![n] = @ \cup {b}]
    /\ sealing' = [sealing EXCEPT ![n] = b]
    /\ UNCHANGED <<voteVars, chainVars, published, votes, jobs, proofs, finalized,
                   bootVars, failures>>

(* mine_pending from append_block on: the block is durable, voted for and  *)
(* handed to the broadcaster.                                              *)
Append(n) ==
    /\ sealing[n] # None
    /\ AppendBlock(n, sealing[n])
    /\ published' = published \cup {sealing[n]}
    /\ sealing' = [sealing EXCEPT ![n] = None]
    /\ UNCHANGED <<voteVars, header, votes, proofs, finalized, proposals, failures, bootVars>>

(* A failure between journal_proposal and append_block: the record is      *)
(* withdrawn with the rollback, and the block, which nobody has seen, is   *)
(* gone.                                                                   *)
SealFails(n) ==
    /\ failures < MaxFailures
    /\ sealing[n] # None
    /\ proposals' = [proposals EXCEPT ![n] = @ \ {sealing[n]}]
    /\ sealing' = [sealing EXCEPT ![n] = None]
    /\ failures' = failures + 1
    /\ header' = [header EXCEPT ![sealing[n]] = None]
    /\ UNCHANGED <<voteVars, chainVars, published, votes, jobs, proofs,
                   finalized, bootVars>>

(* Replaying while the miner is still working on the block. *)
ReplayProposalAlways(n) ==
    /\ reimport[n] = {}
    /\ \E b \in Pending(n) :
        /\ ImportOK(n, b)
        /\ FinalizeParent(n, b)
        /\ AppendBlock(n, b)
        /\ published' = published \cup {b}
    /\ UNCHANGED <<voteVars, header, sealVars, bootVars>>

(* replay_recorded_proposal, from mine_pending or from init once the chain *)
(* is in place.                                                            *)
ReplayProposal(n) ==
    /\ sealing[n] = None
    /\ reimport[n] = {}
    /\ \E b \in Pending(n) :
        /\ ImportOK(n, b)
        /\ FinalizeParent(n, b)
        /\ AppendBlock(n, b)
        /\ published' = published \cup {b}
    /\ UNCHANGED <<voteVars, header, sealVars, bootVars>>

-----------------------------------------------------------------------------
(* Votes and proofs.                                                       *)

(* The journal not consulted. *)
MayLockAlways(n, b, t) == TRUE

(* The signing journal's answer (VoteLock): a slot is free or ours. *)
MayLock(n, b, t) ==
    \A s \in journal[n] : s[1] = t /\ Height[s[2]] = Height[b] => s[2] = b

(* One turn of the loop of auto_vote_v2: lock the slot, sign, take the vote*)
(* in.  A refusal only skips this type; a node outside the set returns.    *)
Vote(n, b, t) ==
    /\ <<b, t>> \in jobs[n]
    /\ jobs' = [jobs EXCEPT ![n] = (@ \ {<<b, t>>}) \cup
            IF t = "prevote" /\ Stake[Parent[b]][n] > 0 THEN {<<b, "precommit">>} ELSE {}]
    /\ IF Stake[Parent[b]][n] > 0 /\ MayLock(n, b, t)
       THEN /\ journal' = [journal EXCEPT ![n] = @ \cup {<<t, b>>}]
            /\ signed' = signed \cup {<<n, t, b>>}
            /\ IF t = "precommit" THEN Intake(n, b, n)
                                  ELSE UNCHANGED <<votes, proofs, finalized>>
       ELSE UNCHANGED <<journal, signed, votes, proofs, finalized>>
    /\ UNCHANGED <<chainVars, header, published, sealVars, bootVars>>

(* Starting below the tip. *)
UnprovedBelowTip(n) ==
    {b \in stored[n] \ {Base, tip[n]} :
        \A c \in stored[n] : Height[c] >= Height[b] => ~HasProof(n, c)}

(* The newest blocks of n without a proof: where resign_recent_votes, the  *)
(* waiting producer and pull_finality_proofs look.                         *)
Unproved(n) ==
    {b \in stored[n] \ {Base} :
        \A c \in stored[n] : Height[c] >= Height[b] => ~HasProof(n, c)}

(* resign_recent_votes, and mine_pending waiting for a certificate.  With  *)
(* its own precommit in the pool the call changes nothing.                 *)
Revote(n, b) ==
    /\ phase[n] = "run"
    /\ b \in Unproved(n)
    /\ <<n, "precommit", b>> \notin votes[n]
    /\ jobs[n] \cap {<<b, "prevote">>, <<b, "precommit">>} = {}
    /\ jobs' = [jobs EXCEPT ![n] = @ \cup {<<b, "prevote">>}]
    /\ UNCHANGED <<voteVars, chainVars, header, published, votes, proofs, finalized,
                   sealVars, bootVars>>

(* receive_gossiped_vote. *)
Deliver(n, v, b) ==
    /\ phase[n] = "run"
    /\ <<v, "precommit", b>> \in signed
    /\ b \in stored[n]
    /\ <<v, "precommit", b>> \notin votes[n]
    /\ Intake(n, b, v)
    /\ UNCHANGED <<voteVars, chainVars, jobs, header, published, sealVars, bootVars>>

(* The precommits that exist for a block. *)
Signers(b) == {v \in Validator : <<v, "precommit", b>> \in signed /\ Stake[Parent[b]][v] > 0}

(* get_persisted_finality_proof: an honest peer serves a proof that verifies,*)
(* a faulty one whatever votes exist.                                       *)
Served(m, b) ==
    IF m \in Honest THEN {pf[2] : pf \in {x \in proofs[m] : x[1] = b /\ HasProof(m, b)}}
                    ELSE {Signers(b)}

(* pull_finality_proofs: whatever a peer serves is verified here again. *)
PullProof(n, b) ==
    /\ phase[n] = "run"
    /\ b \in Unproved(n)
    /\ \E Q \in UNION {Served(m, b) : m \in Validator} :
        /\ VerifyProof(b, Q)
        /\ PersistProof(n, b, Q, votes[n])
    /\ UNCHANGED <<voteVars, chainVars, jobs, header, published, sealVars, bootVars>>

-----------------------------------------------------------------------------
(* Restarts.                                                               *)

(* recover_from_history skipping one block too many. *)
RestartSkips(n, keep) ==
    /\ restarts < MaxRestarts
    /\ restarts' = restarts + 1
    /\ votes' = [votes EXCEPT ![n] = {}]
    /\ jobs' = [jobs EXCEPT ![n] = {}]
    /\ sealing' = [sealing EXCEPT ![n] = None]
    /\ phase' = [phase EXCEPT ![n] = "init"]
    /\ finalized' = [finalized EXCEPT ![n] = 0]
    /\ reimport' = [reimport EXCEPT ![n] = {b \in stored[n] : Height[b] > Height[Base] + 1}]
    /\ stored' = [stored EXCEPT ![n] = {Base}]
    /\ tip' = [tip EXCEPT ![n] = Base]
    /\ UNCHANGED <<voteVars, header, published, proofs, proposals, failures>>

(* The process dies and init begins: memory is lost.  With a balance       *)
(* snapshot of the tip the chain stays as it is (keep); without one        *)
(* recover_from_history takes the blocks into memory and resets the store. *)
Restart(n, keep) ==
    /\ restarts < MaxRestarts
    /\ restarts' = restarts + 1
    /\ votes' = [votes EXCEPT ![n] = {}]
    /\ jobs' = [jobs EXCEPT ![n] = {}]
    /\ sealing' = [sealing EXCEPT ![n] = None]
    /\ phase' = [phase EXCEPT ![n] = "init"]
    /\ finalized' = [finalized EXCEPT ![n] = 0]
    /\ IF keep
       THEN /\ reimport' = [reimport EXCEPT ![n] = {}]
            /\ UNCHANGED chainVars
       ELSE /\ reimport' = [reimport EXCEPT ![n] = stored[n] \ {Base}]
            /\ stored' = [stored EXCEPT ![n] = {Base}]
            /\ tip' = [tip EXCEPT ![n] = Base]
    /\ UNCHANGED <<voteVars, header, published, proofs, proposals, failures>>

(* One import_block of recover_from_history. *)
Reimport(n, b) ==
    /\ phase[n] = "init"
    /\ b \in reimport[n]
    /\ ImportOK(n, b)
    /\ FinalizeParent(n, b)
    /\ AppendBlock(n, b)
    /\ reimport' = [reimport EXCEPT ![n] = @ \ {b}]
    /\ UNCHANGED <<voteVars, header, published, sealVars, phase, restarts>>

(* No default when finality_db is empty. *)
LastKeyOrMinusOne(n) ==
    LET hs == {-1} \cup {Height[pf[1]] : pf \in proofs[n]}
    IN  {h \in hs : \A i \in hs : h >= i}

(* The last key of finality_db, 0 when there is none; as a singleton. *)
LastKey(n) ==
    LET hs == {0} \cup {Height[pf[1]] : pf \in proofs[n]}
    IN  {h \in hs : \A i \in hs : h >= i}

(* The last key of finality_db whatever the tip. *)
StartUncapped(n) ==
    /\ phase[n] = "init"
    /\ reimport[n] = {}
    /\ \A b \in Pending(n) : ~ImportOK(n, b)
    /\ phase' = [phase EXCEPT ![n] = "run"]
    /\ \E h \in LastKey(n) : finalized' = [finalized EXCEPT ![n] = h]
    /\ UNCHANGED <<voteVars, chainVars, header, published, votes, jobs, proofs,
                   sealVars, reimport, restarts>>

(* The end of init: the pending proposal has been replayed, finalized_height*)
(* is the last key of finality_db, but not above the tip.                  *)
Start(n) ==
    /\ phase[n] = "init"
    /\ reimport[n] = {}
    /\ \A b \in Pending(n) : ~ImportOK(n, b)
    /\ phase' = [phase EXCEPT ![n] = "run"]
    /\ \E h \in LastKey(n) : finalized' = [finalized EXCEPT ![n] = Min2(h, Height[tip[n]])]
    /\ UNCHANGED <<voteVars, chainVars, header, published, votes, jobs, proofs,
                   sealVars, reimport, restarts>>

-----------------------------------------------------------------------------
(* Faulty validators: they sign any vote and seal any block that does not  *)
(* exist yet, with every precommit there is or with no certificate at all  *)
(* (VerifyProof grows with the votes, so nothing in between adds to it).   *)

FaultySign(v, b) ==
    /\ header[b] # None
    /\ <<v, "precommit", b>> \notin signed
    /\ signed' = signed \cup {<<v, "precommit", b>>}
    /\ UNCHANGED <<journal, chainVars, header, published, votes, jobs, proofs, finalized,
                   sealVars, bootVars>>

FaultySeal(v, b, Q) ==
    /\ b # Base /\ header[b] = None
    /\ header' = [header EXCEPT ![b] = [by |-> v, commit |-> Q]]
    /\ published' = published \cup {b}
    /\ UNCHANGED <<voteVars, chainVars, votes, jobs, proofs, finalized, sealVars, bootVars>>

-----------------------------------------------------------------------------
NodeNext(n) ==
    \/ \E b \in Block : Import(n, b) \/ ImportFails(n, b) \/ Seal(n, b)
                        \/ Revote(n, b) \/ PullProof(n, b) \/ Reimport(n, b)
    \/ \E b \in Block, t \in VoteType : Vote(n, b, t)
    \/ \E b \in Block, v \in Validator : Deliver(n, v, b)
    \/ Append(n) \/ SealFails(n) \/ ReplayProposal(n) \/ Start(n)
    \/ \E keep \in BOOLEAN : Restart(n, keep)

FaultyNext(v) ==
    \E b \in Block : FaultySign(v, b) \/ \E Q \in {{}, Signers(Parent[b])} : FaultySeal(v, b, Q)

Next == (\E n \in Honest : NodeNext(n)) \/ (\E v \in Faulty : FaultyNext(v))

Spec == Init /\ [][Next]_vars

(* The scheduling of the code: vote calls run to their end, the miner loop,*)
(* the peer sync and the vote gossip are periodic tasks, init ends.  A vote*)
(* is resent only while its signer lacks the proof, a block is fetched from*)
(* a peer that stores it, a proof from a running peer.                     *)
Fairness ==
    \A n \in Honest :
        /\ WF_vars(Append(n) \/ SealFails(n))
        /\ WF_vars(ReplayProposal(n))
        /\ WF_vars(Start(n))
        /\ \A b \in Block :
            /\ WF_vars(Reimport(n, b))
            /\ WF_vars(Revote(n, b))
            /\ WF_vars(\E t \in VoteType : Vote(n, b, t))
            /\ WF_vars(Import(n, b) /\ \E m \in Honest : b \in stored[m] /\ phase[m] = "run")
            /\ WF_vars(PullProof(n, b) /\ \E m \in Honest : HasProof(m, b) /\ phase[m] = "run")
            /\ \A v \in Honest : WF_vars(Deliver(n, v, b) /\ phase[v] = "run" /\ b \in Unproved(v))
        /\ WF_vars(\E b \in Block : Seal(n, b))

FairSpec == Spec /\ Fairness

-----------------------------------------------------------------------------
(* Properties.                                                             *)

(* The types of the stores, pools and journals of every node. *)
TypeOK ==
    /\ signed \subseteq Validator \X VoteType \X Block
    /\ header \in [Block -> [by : Validator, commit : SUBSET Validator] \cup {None}]
    /\ published \subseteq Block
    /\ stored \in [Honest -> SUBSET Block]
    /\ tip \in [Honest -> Block]
    /\ journal \in [Honest -> SUBSET (VoteType \X Block)]
    /\ votes \in [Honest -> SUBSET (Validator \X {"precommit"} \X Block)]
    /\ jobs \in [Honest -> SUBSET (Block \X VoteType)]
    /\ proofs \in [Honest -> SUBSET (Block \X SUBSET Validator)]
    /\ finalized \in [Honest -> Nat]
    /\ proposals \in [Honest -> SUBSET Block]
    /\ sealing \in [Honest -> Block \cup {None}]
    /\ phase \in [Honest -> {"run", "init"}]
    /\ reimport \in [Honest -> SUBSET Block]
    /\ restarts \in 0 .. MaxRestarts
    /\ failures \in 0 .. MaxFailures

(* What finality is for: no two nodes ever hold proofs of different blocks *)
(* at one height, whatever the faulty third signs and proposes and however *)
(* often nodes restart (verify_finality_proof, journal, check_parent_commit)*)
Agreement ==
    \A n, m \in Honest : \A p \in proofs[n], q \in proofs[m] :
        Height[p[1]] = Height[q[1]] => p[1] = q[1]

(* Release 2a: a node only builds on what is final, so every block below   *)
(* its tip has a proof that verifies, also while it recovers.              *)
FinalBelowTip ==
    \A n \in Honest : \A b \in stored[n] \ {Base, tip[n]} : HasProof(n, b)

(* A finalized height above Base that a running node reports has a verified*)
(* proof and is not above the tip, even though init derives it from the    *)
(* keys of finality_db and from a chain that an interrupted recovery may   *)
(* have shortened.  The proof is of the block stored there, except for a   *)
(* tip that was imported in the place of the proved block (three restarts).*)
FinalizedIsProved ==
    \A n \in Honest : phase[n] = "run" /\ finalized[n] > Height[Base] =>
        \E pf \in proofs[n] :
            /\ Height[pf[1]] = finalized[n]
            /\ VerifyProof(pf[1], pf[2])
            /\ finalized[n] <= Height[tip[n]]
            /\ pf[1] \in stored[n] \/ finalized[n] = Height[tip[n]]

(* recover_from_history never meets a block it cannot re-import (it would  *)
(* fail init): the certificates it needs are in the blocks themselves.     *)
RecoveryNeverSticks ==
    \A n \in Honest : reimport[n] # {} => \E b \in reimport[n] : ImportOK(n, b)

(* The proposal journal: an honest proposer never publishes two blocks for *)
(* one (height, parent), across crashes between journal_proposal,          *)
(* append_block and the broadcast.                                         *)
NoSecondProposal ==
    \A b, c \in published :
        /\ header[b].by \in Honest /\ header[b].by = header[c].by
        /\ Parent[b] = Parent[c]
        => b = c

(* The producer's in-flight block still extends the tip when it is appended*)
(* (append_block itself does not look at what is stored at that height).   *)
SealingExtendsTip ==
    \A n \in Honest : sealing[n] # None => Parent[sealing[n]] = tip[n]

(* With honest proposers every node's chain is part of one chain: nobody is*)
(* left on a block that the others will never build on.                    *)
OneChain ==
    \A n, m \in Honest : \A b \in stored[n], c \in stored[m] :
        Height[b] = Height[c] => b = c

(* A verified proof is never lost nor replaced by one for another block. *)
FinalForever ==
    [][\A n \in Honest : \A p \in proofs[n] : \E q \in proofs'[n] : q[1] = p[1]]_vars

(* The whole network implements one growing finalized chain: a proof is    *)
(* first made only for a child of the last block proved anywhere.          *)
FC == INSTANCE FinalizedChain WITH
          final <- {Base} \cup {p[1] : p \in UNION {proofs[n] : n \in Honest}}

ImplementsFinalizedChain == FC!Spec

Top == {b \in Block : \A c \in Block : Height[c] <= Height[b]}

(* With honest validators and finitely many crashes and failed productions,*)
(* every node ends with a finality proof for a block of the last height:   *)
(* the votes, blocks and proofs a restart loses are all made up for by     *)
(* resign_recent_votes, the peer sync and pull_finality_proofs.            *)
EventuallyFinal == \A n \in Honest : <>[](\E b \in Top : HasProof(n, b))

=============================================================================
