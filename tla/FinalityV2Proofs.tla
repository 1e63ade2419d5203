--------------------------- MODULE FinalityV2Proofs ---------------------------
(***************************************************************************)
(* Proofs about FINALITY_V2 for any validators, stakes, block tree and any *)
(* number of restarts and failed productions, as long as the faulty stake  *)
(* is at most a third of every validator set.                              *)
(*                                                                         *)
(* Agreement is not inductive.  CertInv strengthens it: what an honest     *)
(* validator signed is in its journal, a journal holds one block per slot, *)
(* honest validators vote only for blocks whose parent is Base or carries  *)
(* a quorum, and two blocks with quorums at one height are equal.  A step  *)
(* signs only for a block whose parent has its quorum in the state before, *)
(* so when two blocks are compared their parents are already known to be   *)
(* one block, with one validator set: no induction over heights.           *)
(*                                                                         *)
(* In order: quorums and votes, what a step does to the finality proofs    *)
(* and to the stored chain of a node, the proposal journal, and then the   *)
(* theorems.  FinalityV2Recovery goes on from CertInv.                     *)
(***************************************************************************)
EXTENDS FinalityV2, FiniteSetTheorems, TLAPS

(* A block that a quorum of its validator set has precommitted. *)
Certified(b) == \E Q \in SUBSET Validator : VerifyProof(b, Q)

(* A block that may be voted for: above Base, on a parent that is final. *)
Votable(b) == b \in Block \ {Base} /\ (Parent[b] = Base \/ Certified(Parent[b]))

(* Node n holds a proof for b, or b is Base. *)
Proved(n, b) == b = Base \/ \E p \in proofs[n] : p[1] = b

(* The proposal side: every block of an honest proposer is in its journal,
   which holds one block per parent; the block in flight extends the tip,
   is still unpublished, and its parent is proved. *)
ProposalInv ==
    /\ \A b \in Block : header[b] # None /\ header[b].by \in Honest => b \in proposals[header[b].by]
    /\ \A n \in Honest : \A b \in proposals[n] : b # Base /\ header[b] # None /\ header[b].by = n
    /\ \A b \in published : header[b] # None
    /\ \A n \in Honest : \A b, c \in proposals[n] : Parent[b] = Parent[c] => b = c
    /\ \A n \in Honest : sealing[n] # None =>
        /\ sealing[n] \in proposals[n] \ published
        /\ Parent[sealing[n]] = tip[n]
        /\ Proposer[tip[n]] = n
        /\ phase[n] = "run"
        /\ Proved(n, tip[n])

(* The chain of a node: the tip is stored, all below it is proved. *)
ChainInv ==
    \A n \in Honest :
        /\ tip[n] \in stored[n]
        /\ Base \in stored[n]
        /\ \A b \in stored[n] \ {tip[n]} : Proved(n, b)
        /\ \A b \in stored[n] \ {Base} : Votable(b) /\ Proved(n, Parent[b])

(* The voting side. *)
VoteInv ==
    /\ \A n \in Honest, t \in VoteType, b \in Block :
        <<n, t, b>> \in signed => <<t, b>> \in journal[n]
    /\ \A n \in Honest, t \in VoteType : \A b, c \in Block :
        <<t, b>> \in journal[n] /\ <<t, c>> \in journal[n] /\ Height[b] = Height[c] => b = c
    /\ \A n \in Honest, t \in VoteType, b \in Block : <<t, b>> \in journal[n] => Votable(b)
    /\ \A n \in Honest, t \in VoteType, b \in Block : <<b, t>> \in jobs[n] => Votable(b)
    /\ \A n \in Honest, v \in Validator, b \in Block : <<v, "precommit", b>> \in votes[n] =>
        <<v, "precommit", b>> \in signed /\ Stake[Parent[b]][v] > 0

(* The proofs: each is for a block above Base, and verifies. *)
ProofInv ==
    \A n \in Honest : \A p \in proofs[n] : p[1] # Base /\ VerifyProof(p[1], p[2])

(* Two blocks with quorums at one height are equal. *)
CertAgree ==
    \A b, c \in Block \ {Base} : Certified(b) /\ Certified(c) /\ Height[b] = Height[c] => b = c

(* Proofs exist for every height up to the highest proof of a node. *)
ProofsDense ==
    \A n \in Honest : \A p \in proofs[n] : \A h \in (Height[Base] + 1) .. Height[p[1]] :
        \E q \in proofs[n] : Height[q[1]] = h

CertInv == TypeOK /\ ProposalInv /\ ChainInv /\ VoteInv /\ ProofInv /\ CertAgree /\ ProofsDense

-----------------------------------------------------------------------------
(* Quorums.                                                                *)

(* The stake units of a set of validators are finite and lie within the set's. *)
LEMMA UnitsFinite ==
    ASSUME NEW p \in Block, NEW S \in SUBSET Validator
    PROVE  /\ IsFiniteSet(Units(p, S))
           /\ Units(p, S) \subseteq Units(p, Validator)
           /\ Weight(p, S) \in Nat
<1>1. IsFiniteSet(Validator)
  BY ValidatorAssumption, FS_Union, Zenon DEF Validator
<1>2. IsFiniteSet(1 .. MaxStake)
  BY StakeAssumption, FS_Interval
<1>3. IsFiniteSet(S)
  BY <1>1, FS_Subset, Zenon
<1>4. IsFiniteSet(S \X (1 .. MaxStake))
  BY <1>2, <1>3, FS_Product, Zenon
<1>5. IsFiniteSet(Units(p, S))
  BY <1>4, FS_Subset, Units(p, S) \subseteq S \X (1 .. MaxStake), Zenon DEF Units
<1>6. Units(p, S) \subseteq Units(p, Validator)
  BY Zenon DEF Units
<1> QED
  BY <1>5, <1>6, FS_CardinalityType, Zenon DEF Weight

(* Two quorums of one validator set share an honest validator: this is where
   "strictly more than two thirds" of ValidatorSetSnapshot::quorum is used. *)
LEMMA QuorumsMeet ==
    ASSUME NEW p \in Block, NEW Q \in SUBSET Validator, NEW R \in SUBSET Validator,
           Weight(p, Q) >= Quorum(p), Weight(p, R) >= Quorum(p)
    PROVE  \E v \in Honest : v \in Q /\ v \in R
<1>1. SUFFICES ASSUME Q \cap R \subseteq Faulty PROVE FALSE
  BY Zenon DEF Validator
<1> DEFINE T == Weight(p, Validator)  F == Weight(p, Faulty)
           q == Weight(p, Q)  r == Weight(p, R)  m == Cardinality(Units(p, Q) \cap Units(p, R))
<1>2. /\ IsFiniteSet(Units(p, Q)) /\ IsFiniteSet(Units(p, R))
      /\ IsFiniteSet(Units(p, Validator)) /\ IsFiniteSet(Units(p, Faulty))
      /\ Units(p, Q) \cup Units(p, R) \subseteq Units(p, Validator)
      /\ T \in Nat /\ F \in Nat /\ q \in Nat /\ r \in Nat
  BY UnitsFinite, Zenon DEF Validator
<1>3. Units(p, Q) \cap Units(p, R) \subseteq Units(p, Faulty)
  BY <1>1, Zenon DEF Units
<1>4. m \in Nat /\ m <= F
  BY <1>2, <1>3, FS_Subset, FS_CardinalityType, Zenon DEF Weight
<1>5. Cardinality(Units(p, Q) \cup Units(p, R)) = q + r - m
  BY <1>2, FS_Union, Zenon DEF Weight
<1>6. q + r - m <= T
  BY <1>2, <1>5, FS_Subset DEF Weight
<1>7. 3 * F <= T
  BY StakeAssumption, Zenon
<1>8. q >= (2 * T) \div 3 + 1 /\ r >= (2 * T) \div 3 + 1
  BY Zenon DEF Quorum
<1> HIDE DEF T, F, q, r, m
<1> QED
  BY <1>2, <1>4, <1>6, <1>7, <1>8

-----------------------------------------------------------------------------
(* Types.                                                                  *)

(* The initial states have their types. *)
LEMMA TypeInit == Init => TypeOK
  BY BlockAssumption, BoundAssumption DEF Init, TypeOK

(* persist_verified_finality keeps the types. *)
LEMMA PersistType ==
    ASSUME TypeOK, NEW n \in Honest, NEW b \in Block, NEW Q \in SUBSET Validator,
           NEW pool \in SUBSET (Validator \X {"precommit"} \X Block), PersistProof(n, b, Q, pool)
    PROVE  /\ proofs' \in [Honest -> SUBSET (Block \X SUBSET Validator)]
           /\ finalized' \in [Honest -> Nat]
           /\ votes' \in [Honest -> SUBSET (Validator \X {"precommit"} \X Block)]
  BY BlockAssumption DEF TypeOK, PersistProof, Max2

(* So does taking a vote in. *)
LEMMA IntakeType ==
    ASSUME TypeOK, NEW n \in Honest, NEW b \in Block, NEW v \in Validator, Intake(n, b, v)
    PROVE  /\ proofs' \in [Honest -> SUBSET (Block \X SUBSET Validator)]
           /\ finalized' \in [Honest -> Nat]
           /\ votes' \in [Honest -> SUBSET (Validator \X {"precommit"} \X Block)]
<1> DEFINE pool == votes[n] \cup {<<v, "precommit", b>>}
           Q == {w \in Validator : <<w, "precommit", b>> \in pool}
<1>1. pool \in SUBSET (Validator \X {"precommit"} \X Block) /\ Q \in SUBSET Validator
  BY DEF TypeOK
<1>2. \/ PersistProof(n, b, Q, pool)
      \/ votes' = [votes EXCEPT ![n] = pool] /\ UNCHANGED <<proofs, finalized>>
      \/ UNCHANGED <<votes, proofs, finalized>>
  BY Zenon DEF Intake
<1> HIDE DEF pool, Q
<1> QED
  BY <1>1, <1>2, PersistType, Zenon DEF TypeOK

(* And the parent proof that a block brings along. *)
LEMMA FinalizeParentType ==
    ASSUME TypeOK, NEW n \in Honest, NEW b \in Block, header[b] # None, FinalizeParent(n, b)
    PROVE  /\ proofs' \in [Honest -> SUBSET (Block \X SUBSET Validator)]
           /\ finalized' \in [Honest -> Nat]
           /\ votes' \in [Honest -> SUBSET (Validator \X {"precommit"} \X Block)]
<1>1. /\ Parent[b] \in Block /\ header[b].commit \in SUBSET Validator
      /\ votes[n] \in SUBSET (Validator \X {"precommit"} \X Block)
  BY BlockAssumption, Zenon DEF TypeOK
<1> QED
  BY <1>1, PersistType, Zenon DEF FinalizeParent, TypeOK

(* The finalized height that init loads is a height. *)
LEMMA StartType ==
    ASSUME TypeOK, NEW n \in Honest, Start(n)
    PROVE  finalized' \in [Honest -> Nat]
<1>1. PICK h \in LastKey(n) : finalized' = [finalized EXCEPT ![n] = Min2(h, Height[tip[n]])]
  BY Zenon DEF Start
<1>2. h \in Nat /\ Height[tip[n]] \in Nat
  BY BlockAssumption DEF LastKey, TypeOK
<1> QED
  BY <1>1, <1>2, Zenon DEF Min2, TypeOK

(* Every step keeps the types. *)
LEMMA TypeNext == TypeOK /\ [Next]_vars => TypeOK'
<1> SUFFICES ASSUME TypeOK, [Next]_vars PROVE TypeOK'
  BY Zenon
<1> USE BlockAssumption, NoneAssumption, BoundAssumption
<1> USE DEF chainVars, voteVars, bootVars, sealVars, VoteType, Validator
<1>1. ASSUME NEW n \in Honest, NEW b \in Block, Import(n, b) PROVE TypeOK'
  BY <1>1, FinalizeParentType DEF Import, ImportOK, AppendBlock, TypeOK
<1>2. ASSUME NEW n \in Honest, NEW b \in Block, ImportFails(n, b) PROVE TypeOK'
  BY <1>2, FinalizeParentType, Zenon DEF ImportFails, ImportOK, TypeOK
<1>3. ASSUME NEW n \in Honest, NEW b \in Block, Seal(n, b) PROVE TypeOK'
  BY <1>3 DEF Seal, TypeOK
<1>4. ASSUME NEW n \in Honest, NEW b \in Block, Revote(n, b) PROVE TypeOK'
  BY <1>4 DEF Revote, TypeOK
<1>5. ASSUME NEW n \in Honest, NEW b \in Block, PullProof(n, b) PROVE TypeOK'
  <2>1. PICK m \in Validator : \E Q \in Served(m, b) : PersistProof(n, b, Q, votes[n])
    BY <1>5 DEF PullProof
  <2>2. PICK Q \in Served(m, b) : PersistProof(n, b, Q, votes[n])
    BY <2>1, Zenon
  <2>3. Q \in SUBSET Validator /\ votes[n] \in SUBSET (Validator \X {"precommit"} \X Block)
    <3>1. CASE m \in Honest
      <4>1. PICK x \in proofs[m] : Q = x[2]
        BY <2>2, <3>1, Zenon DEF Served
      <4>2. x \in Block \X SUBSET Validator
        BY <3>1, <4>1, Zenon DEF TypeOK
      <4> QED
        BY <4>1, <4>2, Zenon DEF TypeOK
    <3>2. CASE m \notin Honest
      BY <2>2, <3>2, Zenon DEF Served, Signers, TypeOK
    <3> QED
      BY <3>1, <3>2, Zenon
  <2> QED
    BY <1>5, <2>2, <2>3, PersistType, Zenon DEF PullProof, TypeOK
<1>6. ASSUME NEW n \in Honest, NEW b \in Block, Reimport(n, b) PROVE TypeOK'
  BY <1>6, FinalizeParentType DEF Reimport, ImportOK, AppendBlock, TypeOK
<1>7. ASSUME NEW n \in Honest, NEW b \in Block, NEW t \in VoteType, Vote(n, b, t) PROVE TypeOK'
  <2>1. /\ proofs' \in [Honest -> SUBSET (Block \X SUBSET Validator)]
        /\ finalized' \in [Honest -> Nat]
        /\ votes' \in [Honest -> SUBSET (Validator \X {"precommit"} \X Block)]
    BY <1>7, IntakeType, Zenon DEF Vote, TypeOK
  <2>2. jobs' \in [Honest -> SUBSET (Block \X VoteType)]
    BY <1>7 DEF Vote, TypeOK
  <2>3. signed' \subseteq Validator \X VoteType \X Block
    BY <1>7 DEF Vote, TypeOK
  <2>4. journal' \in [Honest -> SUBSET (VoteType \X Block)]
    BY <1>7 DEF Vote, TypeOK
  <2> QED
    BY <1>7, <2>1, <2>2, <2>3, <2>4, Zenon DEF Vote, TypeOK
<1>8. ASSUME NEW n \in Honest, NEW b \in Block, NEW v \in Validator, Deliver(n, v, b) PROVE TypeOK'
  BY <1>8, IntakeType, Zenon DEF Deliver, TypeOK
<1>9. ASSUME NEW n \in Honest, Append(n) PROVE TypeOK'
  BY <1>9 DEF Append, AppendBlock, TypeOK
<1>10. ASSUME NEW n \in Honest, SealFails(n) PROVE TypeOK'
  BY <1>10 DEF SealFails, TypeOK
<1>11. ASSUME NEW n \in Honest, ReplayProposal(n) PROVE TypeOK'
  <2>1. PICK b \in Block : ImportOK(n, b) /\ FinalizeParent(n, b) /\ AppendBlock(n, b)
                            /\ published' = published \cup {b}
    BY <1>11, Zenon DEF ReplayProposal, Pending, TypeOK
  <2> QED
    BY <1>11, <2>1, FinalizeParentType DEF ReplayProposal, ImportOK, AppendBlock, TypeOK
<1>12. ASSUME NEW n \in Honest, Start(n) PROVE TypeOK'
  BY <1>12, StartType, Zenon DEF Start, TypeOK
<1>13. ASSUME NEW n \in Honest, NEW keep \in BOOLEAN, Restart(n, keep) PROVE TypeOK'
  <2>1. /\ stored' \in [Honest -> SUBSET Block]
        /\ tip' \in [Honest -> Block]
        /\ reimport' \in [Honest -> SUBSET Block]
    <3>1. CASE keep
      BY <1>13, <3>1, Zenon DEF Restart, TypeOK
    <3>2. CASE ~keep
      <4>1. stored[n] \ {Base} \in SUBSET Block /\ {Base} \in SUBSET Block
        BY Zenon DEF TypeOK
      <4>2. /\ reimport' = [reimport EXCEPT ![n] = stored[n] \ {Base}]
            /\ stored' = [stored EXCEPT ![n] = {Base}]
            /\ tip' = [tip EXCEPT ![n] = Base]
        BY <1>13, <3>2, Zenon DEF Restart
      <4> QED
        BY <4>1, <4>2, Zenon DEF TypeOK
    <3> QED
      BY <3>1, <3>2, Zenon
  <2> QED
    BY <1>13, <2>1 DEF Restart, TypeOK
<1>14. ASSUME NEW v \in Faulty, NEW b \in Block, FaultySign(v, b) PROVE TypeOK'
  BY <1>14 DEF FaultySign, TypeOK
<1>15. ASSUME NEW v \in Faulty, NEW b \in Block, NEW Q \in {{}, Signers(Parent[b])}, FaultySeal(v, b, Q)
       PROVE  TypeOK'
  BY <1>15, Zenon DEF FaultySeal, Signers, TypeOK
<1>16. CASE UNCHANGED vars
  BY <1>16, Zenon DEF vars, TypeOK
<1> QED
  BY <1>1, <1>2, <1>3, <1>4, <1>5, <1>6, <1>7, <1>8, <1>9, <1>10, <1>11, <1>12, <1>13,
     <1>14, <1>15, <1>16 DEF Next, NodeNext, FaultyNext

-----------------------------------------------------------------------------
(* Votes.                                                                  *)

(* No step removes a vote. *)
LEMMA SignedGrows ==
    ASSUME TypeOK, [Next]_vars
    PROVE  signed \subseteq signed'
<1> USE BlockAssumption
<1> USE DEF voteVars
<1>1. ASSUME NEW n \in Honest, NEW x \in Block, NEW t \in VoteType, Vote(n, x, t)
      PROVE  signed' = signed \cup {<<n, t, x>>} \/ signed' = signed
  BY <1>1, Zenon DEF Vote
<1>2. ASSUME NEW v \in Faulty, NEW x \in Block, FaultySign(v, x)
      PROVE  signed' = signed \cup {<<v, "precommit", x>>}
  BY <1>2, Zenon DEF FaultySign
<1>3. \/ signed' = signed
      \/ \E n \in Honest, x \in Block, t \in VoteType : Vote(n, x, t)
      \/ \E v \in Faulty, x \in Block : FaultySign(v, x)
  <2>1. ASSUME NEW n \in Honest, NEW x \in Block,
               Import(n, x) \/ ImportFails(n, x) \/ Seal(n, x) \/ Revote(n, x) \/ PullProof(n, x) \/ Reimport(n, x)
        PROVE  signed' = signed
    BY <2>1, Zenon DEF Import, ImportFails, Seal, Revote, PullProof, Reimport
  <2>2. ASSUME NEW n \in Honest, NEW x \in Block, NEW v \in Validator, Deliver(n, v, x) PROVE signed' = signed
    BY <2>2, Zenon DEF Deliver
  <2>3. ASSUME NEW n \in Honest, Append(n) \/ SealFails(n) \/ ReplayProposal(n) \/ Start(n)
        PROVE  signed' = signed
    BY <2>3, Zenon DEF Append, SealFails, ReplayProposal, Start
  <2>4. ASSUME NEW n \in Honest, NEW keep \in BOOLEAN, Restart(n, keep) PROVE signed' = signed
    BY <2>4, Zenon DEF Restart
  <2>5. ASSUME NEW v \in Faulty, NEW x \in Block, NEW Q, FaultySeal(v, x, Q) PROVE signed' = signed
    BY <2>5, Zenon DEF FaultySeal
  <2> QED
    BY <2>1, <2>2, <2>3, <2>4, <2>5, Zenon DEF Next, NodeNext, FaultyNext, vars
<1>4. \/ signed' = signed
      \/ \E v \in Validator, x \in Block, t \in VoteType : signed' = signed \cup {<<v, t, x>>}
  BY <1>1, <1>2, <1>3 DEF Validator, VoteType
<1> QED
  BY <1>4, Zenon

(* So certificates stay valid and votable blocks stay votable. *)
LEMMA CertGrows ==
    ASSUME TypeOK, [Next]_vars, NEW b \in Block
    PROVE  /\ \A Q \in SUBSET Validator : VerifyProof(b, Q) => VerifyProof(b, Q)'
           /\ Certified(b) => Certified(b)'
           /\ Votable(b) => Votable(b)'
<1>1. \A c \in Block, Q \in SUBSET Validator : VerifyProof(c, Q) => VerifyProof(c, Q)'
  BY SignedGrows, Zenon DEF VerifyProof, Quorum, Weight, Units
<1>2. \A c \in Block : Certified(c) => Certified(c)'
  BY <1>1, Zenon DEF Certified
<1> QED
  BY <1>1, <1>2, BlockAssumption, Zenon DEF Votable

(* A block that passes check_parent_commit is votable. *)
LEMMA ImportVotable ==
    ASSUME TypeOK, NEW n \in Honest, NEW b \in Block, ImportOK(n, b)
    PROVE  Votable(b)
  BY Zenon DEF ImportOK, CommitOK, Votable, Certified, TypeOK

(* So is the block that the producer has in flight. *)
LEMMA SealingVotable ==
    ASSUME CertInv, NEW n \in Honest, sealing[n] # None
    PROVE  sealing[n] \in Block /\ Votable(sealing[n])
<1> DEFINE b == sealing[n]
<1>1. b \in Block
  BY Zenon DEF CertInv, TypeOK
<1>2. b # Base /\ Proved(n, Parent[b])
  BY <1>1, Zenon DEF CertInv, ProposalInv
<1>3. ASSUME NEW p \in proofs[n], p[1] = Parent[b] PROVE Certified(Parent[b])
  BY <1>3 DEF CertInv, ProofInv, Certified, TypeOK
<1> QED
  BY <1>1, <1>2, <1>3, Zenon DEF Proved, Votable

(* A vote call is for a votable block: it follows an accepted block, or it
   repeats a vote for a stored one. *)
LEMMA JobsVotable ==
    ASSUME CertInv, [Next]_vars, NEW n \in Honest, NEW b \in Block, NEW t \in VoteType,
           <<b, t>> \in jobs'[n]
    PROVE  Votable(b)
<1> USE DEF VoteType
<1>1. TypeOK /\ VoteInv /\ ChainInv
  BY Zenon DEF CertInv
<1>2. ASSUME NEW m \in Honest, NEW c \in Block, AppendBlock(m, c), Votable(c) PROVE Votable(b)
  BY <1>1, <1>2 DEF AppendBlock, VoteInv, TypeOK
<1>3. ASSUME NEW m \in Honest, NEW c \in Block, Import(m, c) \/ Reimport(m, c) PROVE Votable(b)
  BY <1>1, <1>2, <1>3, ImportVotable, Zenon DEF Import, Reimport
<1>4. ASSUME NEW m \in Honest, Append(m) PROVE Votable(b)
  BY <1>2, <1>4, SealingVotable, Zenon DEF Append
<1>5. ASSUME NEW m \in Honest, ReplayProposal(m) PROVE Votable(b)
  <2>1. PICK c \in Block : ImportOK(m, c) /\ AppendBlock(m, c)
    BY <1>1, <1>5, Zenon DEF ReplayProposal, Pending, TypeOK
  <2> QED
    BY <1>1, <1>2, <2>1, ImportVotable, Zenon
<1>6. ASSUME NEW m \in Honest, NEW c \in Block, Revote(m, c) PROVE Votable(b)
  <2>1. Votable(c)
    BY <1>1, <1>6, Zenon DEF Revote, Unproved, ChainInv
  <2> QED
    BY <1>1, <1>6, <2>1 DEF Revote, VoteInv, TypeOK
<1>7. ASSUME NEW m \in Honest, NEW c \in Block, NEW u \in VoteType, Vote(m, c, u) PROVE Votable(b)
  <2>1. Votable(c)
    BY <1>1, <1>7, Zenon DEF Vote, VoteInv
  <2>2. <<b, t>> \in jobs[n] \/ b = c
    BY <1>1, <1>7, Zenon DEF Vote, TypeOK
  <2> QED
    BY <1>1, <2>1, <2>2, Zenon DEF VoteInv
<1>8. ASSUME NEW m \in Honest, NEW keep \in BOOLEAN, Restart(m, keep) PROVE Votable(b)
  BY <1>1, <1>8, Zenon DEF Restart, VoteInv, TypeOK
<1>9. \/ UNCHANGED jobs
      \/ \E m \in Honest, c \in Block : Import(m, c) \/ Reimport(m, c) \/ Revote(m, c)
      \/ \E m \in Honest, c \in Block, u \in VoteType : Vote(m, c, u)
      \/ \E m \in Honest : Append(m) \/ ReplayProposal(m)
      \/ \E m \in Honest, keep \in BOOLEAN : Restart(m, keep)
  BY Zenon DEF Next, NodeNext, FaultyNext, vars, ImportFails, Seal, PullProof, Deliver, SealFails, Start,
         FaultySign, FaultySeal
<1> QED
  BY <1>1, <1>3, <1>4, <1>5, <1>6, <1>7, <1>8, <1>9 DEF VoteInv

(* Only Vote touches a journal; besides it only faulty validators sign. *)
LEMMA VoteVarsStep ==
    ASSUME [Next]_vars
    PROVE  \/ UNCHANGED voteVars
           \/ \E n \in Honest, x \in Block, t \in VoteType : Vote(n, x, t)
           \/ \E v \in Faulty, x \in Block : FaultySign(v, x)
<1>1. ASSUME NEW n \in Honest, NEW x \in Block,
             Import(n, x) \/ ImportFails(n, x) \/ Seal(n, x) \/ Revote(n, x) \/ PullProof(n, x) \/ Reimport(n, x)
      PROVE  UNCHANGED voteVars
  BY <1>1, Zenon DEF Import, ImportFails, Seal, Revote, PullProof, Reimport
<1>2. ASSUME NEW n \in Honest, NEW x \in Block, NEW v \in Validator, Deliver(n, v, x) PROVE UNCHANGED voteVars
  BY <1>2, Zenon DEF Deliver
<1>3. ASSUME NEW n \in Honest, Append(n) \/ SealFails(n) \/ ReplayProposal(n) \/ Start(n)
      PROVE  UNCHANGED voteVars
  BY <1>3, Zenon DEF Append, SealFails, ReplayProposal, Start
<1>4. ASSUME NEW n \in Honest, NEW keep \in BOOLEAN, Restart(n, keep) PROVE UNCHANGED voteVars
  BY <1>4, Zenon DEF Restart
<1>5. ASSUME NEW v \in Faulty, NEW x \in Block, NEW Q, FaultySeal(v, x, Q) PROVE UNCHANGED voteVars
  BY <1>5, Zenon DEF FaultySeal
<1> QED
  BY <1>1, <1>2, <1>3, <1>4, <1>5, Zenon DEF Next, NodeNext, FaultyNext, vars, voteVars

(* What the signing journal gives: honest votes are locked, one per slot,
   and for votable blocks only. *)
LEMMA JournalStep ==
    ASSUME CertInv, [Next]_vars
    PROVE  /\ \A n \in Honest, t \in VoteType, b \in Block :
                <<n, t, b>> \in signed' => <<t, b>> \in journal'[n]
           /\ \A n \in Honest, t \in VoteType : \A b, c \in Block :
                <<t, b>> \in journal'[n] /\ <<t, c>> \in journal'[n] /\ Height[b] = Height[c] => b = c
           /\ \A n \in Honest, t \in VoteType, b \in Block : <<t, b>> \in journal'[n] => Votable(b)
<1>1. TypeOK /\ VoteInv
  BY Zenon DEF CertInv
<1>2. CASE UNCHANGED voteVars
  BY <1>1, <1>2, Zenon DEF voteVars, VoteInv
<1>3. CASE \E v \in Faulty, x \in Block : FaultySign(v, x)
  BY <1>1, <1>3, ValidatorAssumption DEF FaultySign, VoteInv
<1>4. ASSUME NEW m \in Honest, NEW x \in Block, NEW u \in VoteType, Vote(m, x, u)
      PROVE  /\ \A n \in Honest, t \in VoteType, b \in Block :
                <<n, t, b>> \in signed' => <<t, b>> \in journal'[n]
             /\ \A n \in Honest, t \in VoteType : \A b, c \in Block :
                <<t, b>> \in journal'[n] /\ <<t, c>> \in journal'[n] /\ Height[b] = Height[c] => b = c
             /\ \A n \in Honest, t \in VoteType, b \in Block : <<t, b>> \in journal'[n] => Votable(b)
  <2>1. \/ UNCHANGED voteVars
        \/ /\ MayLock(m, x, u)
           /\ journal' = [journal EXCEPT ![m] = @ \cup {<<u, x>>}]
           /\ signed' = signed \cup {<<m, u, x>>}
    BY <1>4, Zenon DEF Vote, voteVars
  <2>2. CASE UNCHANGED voteVars
    BY <1>1, <2>2, Zenon DEF voteVars, VoteInv
  <2>3. CASE /\ MayLock(m, x, u)
             /\ journal' = [journal EXCEPT ![m] = @ \cup {<<u, x>>}]
             /\ signed' = signed \cup {<<m, u, x>>}
    <3>1. \A n \in Honest, t \in VoteType, b \in Block :
            <<t, b>> \in journal'[n] <=> <<t, b>> \in journal[n] \/ (n = m /\ t = u /\ b = x)
      BY <1>1, <2>3, Zenon DEF TypeOK
    <3>2. \A n \in Honest, t \in VoteType, b \in Block :
            <<n, t, b>> \in signed' <=> <<n, t, b>> \in signed \/ (n = m /\ t = u /\ b = x)
      BY <2>3, Zenon
    <3>3. \A b \in Block : <<u, b>> \in journal[m] /\ Height[b] = Height[x] => b = x
      BY <2>3, Zenon DEF MayLock
    <3>4. Votable(x)
      BY <1>1, <1>4, Zenon DEF Vote, VoteInv
    <3> QED
      BY <1>1, <3>1, <3>2, <3>3, <3>4 DEF VoteInv
  <2> QED
    BY <2>1, <2>2, <2>3, Zenon
<1> QED
  BY <1>2, <1>3, <1>4, VoteVarsStep, Zenon

(* A certified block has an honest precommit, hence is votable. *)
LEMMA CertifiedVotable ==
    ASSUME CertInv, [Next]_vars, NEW b \in Block, Certified(b)'
    PROVE  Votable(b)
<1>1. PICK Q \in SUBSET Validator : VerifyProof(b, Q)'
  BY Zenon DEF Certified
<1>2. Parent[b] \in Block /\ Weight(Parent[b], Q) >= Quorum(Parent[b])
  BY <1>1, BlockAssumption, Zenon DEF VerifyProof, Weight, Quorum, Units
<1>3. PICK v \in Honest : v \in Q
  BY <1>2, QuorumsMeet, Zenon
<1>4. <<v, "precommit", b>> \in signed'
  BY <1>1, <1>3, Zenon DEF VerifyProof
<1> QED
  BY <1>3, <1>4, JournalStep, Zenon DEF VoteType

(* Two certificates of one height are for one block: their parents, final
   before this step, agree, so one validator set decides about both. *)
LEMMA CertAgreeStep ==
    ASSUME CertInv, TypeOK', [Next]_vars
    PROVE  CertAgree'
<1> SUFFICES ASSUME NEW b \in Block \ {Base}, NEW c \in Block \ {Base},
                    Certified(b)', Certified(c)', Height[b] = Height[c]
             PROVE  b = c
  BY Zenon DEF CertAgree
<1>1. CertAgree
  BY Zenon DEF CertInv
<1>2. Votable(b) /\ Votable(c)
  BY CertifiedVotable, Zenon
<1>3. Parent[b] = Parent[c]
  <2>1. /\ Parent[b] \in Block /\ Parent[c] \in Block
        /\ Height[Parent[b]] = Height[Parent[c]]
    BY BlockAssumption
  <2>2. CASE Parent[b] = Base \/ Parent[c] = Base
    BY <2>1, <2>2, BlockAssumption
  <2>3. CASE Parent[b] # Base /\ Parent[c] # Base
    BY <1>1, <1>2, <2>1, <2>3, Zenon DEF CertAgree, Votable
  <2> QED
    BY <2>2, <2>3, Zenon
<1>4. PICK Q \in SUBSET Validator : VerifyProof(b, Q)'
  BY Zenon DEF Certified
<1>5. PICK R \in SUBSET Validator : VerifyProof(c, R)'
  BY Zenon DEF Certified
<1>6. /\ Parent[b] \in Block
      /\ Weight(Parent[b], Q) >= Quorum(Parent[b])
      /\ Weight(Parent[b], R) >= Quorum(Parent[b])
  BY <1>3, <1>4, <1>5, BlockAssumption, Zenon DEF VerifyProof, Weight, Quorum, Units
<1>7. PICK v \in Honest : v \in Q /\ v \in R
  BY <1>6, QuorumsMeet, Zenon
<1>8. <<v, "precommit", b>> \in signed' /\ <<v, "precommit", c>> \in signed'
  BY <1>4, <1>5, <1>7, Zenon DEF VerifyProof
<1> QED
  BY <1>7, <1>8, JournalStep, Zenon DEF VoteType

-----------------------------------------------------------------------------
(* Proofs and pools.                                                       *)

(* The pool of n holds signed precommits of set members only. *)
PoolOK(n) ==
    \A v \in Validator, b \in Block : <<v, "precommit", b>> \in votes[n] =>
        <<v, "precommit", b>> \in signed /\ Stake[Parent[b]][v] > 0

(* What a step does to the proofs of all nodes: nothing, or one verified
   proof for a block that its node stores takes the place of its height. *)
ProofsStep ==
    \/ UNCHANGED proofs
    \/ \E n \in Honest, b \in Block, Q \in SUBSET Validator :
        /\ b \in stored[n] \ {Base}
        /\ VerifyProof(b, Q)'
        /\ proofs' = [proofs EXCEPT ![n] = {p \in @ : Height[p[1]] # Height[b]} \cup {<<b, Q>>}]

(* Taking a vote in makes only such changes, and keeps the pools clean. *)
LEMMA IntakeStep ==
    ASSUME CertInv, [Next]_vars, NEW n \in Honest, NEW b \in Block, NEW v \in Validator,
           Intake(n, b, v), <<v, "precommit", b>> \in signed'
    PROVE  ProofsStep /\ \A m \in Honest : PoolOK(m)'
<1> DEFINE pool == votes[n] \cup {<<v, "precommit", b>>}
           Q == {w \in Validator : <<w, "precommit", b>> \in pool}
<1>1. TypeOK /\ VoteInv
  BY Zenon DEF CertInv
<1>2. signed \subseteq signed'
  BY <1>1, SignedGrows, Zenon
<1>3. CASE UNCHANGED <<votes, proofs, finalized>>
  BY <1>1, <1>2, <1>3, Zenon DEF ProofsStep, PoolOK, VoteInv
<1>4. CASE /\ b \in stored[n] \ {Base}
           /\ Stake[Parent[b]][v] > 0
           /\ \/ Weight(Parent[b], Q) >= Quorum(Parent[b]) /\ PersistProof(n, b, Q, pool)
              \/ votes' = [votes EXCEPT ![n] = pool] /\ UNCHANGED <<proofs, finalized>>
  <2>1. \A w \in Validator, c \in Block : <<w, "precommit", c>> \in pool =>
            <<w, "precommit", c>> \in signed' /\ Stake[Parent[c]][w] > 0
    BY <1>1, <1>2, <1>4, Zenon DEF VoteInv
  <2>2. \A m \in Honest : PoolOK(m)'
    <3>1. votes' = [votes EXCEPT ![n] = votes'[n]] /\ votes'[n] \subseteq pool
      BY <1>1, <1>4 DEF PersistProof, TypeOK
    <3> HIDE DEF pool
    <3> QED
      BY <1>1, <1>2, <2>1, <3>1, Zenon DEF PoolOK, VoteInv, TypeOK
  <2>3. ASSUME Weight(Parent[b], Q) >= Quorum(Parent[b]), PersistProof(n, b, Q, pool)
        PROVE  ProofsStep
    <3>1. Q \in SUBSET Validator /\ \A w \in Q : <<w, "precommit", b>> \in signed' /\ Stake[Parent[b]][w] > 0
      BY <2>1, Zenon
    <3>2. PICK R \in SUBSET Validator : R = Q
      BY <3>1, Zenon
    <3>3. VerifyProof(b, R)'
      <4> HIDE DEF Q
      <4> QED
        BY <2>3, <3>1, <3>2, Zenon DEF VerifyProof, Weight, Quorum, Units
    <3>4. proofs' = [proofs EXCEPT ![n] = {p \in @ : Height[p[1]] # Height[b]} \cup {<<b, R>>}]
      <4> HIDE DEF Q
      <4> QED
        BY <2>3, <3>2, Zenon DEF PersistProof
    <3> QED
      BY <1>4, <3>3, <3>4, Zenon DEF ProofsStep
  <2> QED
    BY <1>4, <2>2, <2>3, Zenon DEF ProofsStep
<1> QED
  BY <1>3, <1>4, Zenon DEF Intake

(* So does the certificate a block brings for its parent. *)
LEMMA FinalizeParentStep ==
    ASSUME CertInv, [Next]_vars, NEW n \in Honest, NEW b \in Block,
           ImportOK(n, b), FinalizeParent(n, b)
    PROVE  ProofsStep /\ (\A m \in Honest : PoolOK(m)') /\ Proved(n, Parent[b])'
<1>1. TypeOK /\ VoteInv /\ ChainInv
  BY Zenon DEF CertInv
<1>2. signed \subseteq signed'
  BY <1>1, SignedGrows, Zenon
<1>3. CASE UNCHANGED <<votes, proofs, finalized>> /\ (Parent[b] = Base \/ HasProof(n, Parent[b]))
  <2>1. Proved(n, Parent[b])'
    BY <1>3, Zenon DEF Proved, HasProof
  <2> QED
    BY <1>1, <1>2, <1>3, <2>1, Zenon DEF ProofsStep, PoolOK, VoteInv
<1>4. CASE Parent[b] # Base /\ PersistProof(n, Parent[b], header[b].commit, votes[n])
  <2>1. PICK C \in SUBSET Validator : C = header[b].commit
    BY <1>1, Zenon DEF ImportOK, TypeOK
  <2>2. /\ Parent[b] \in stored[n] \ {Base}
        /\ Parent[b] \in Block
        /\ VerifyProof(Parent[b], C)'
    <3>1. Parent[b] \in stored[n] \ {Base} /\ Parent[b] \in Block
      BY <1>1, <1>4, BlockAssumption, Zenon DEF ImportOK, ChainInv
    <3>2. VerifyProof(Parent[b], C)
      BY <1>4, <2>1, Zenon DEF ImportOK, CommitOK
    <3> QED
      BY <1>1, <2>1, <3>1, <3>2, CertGrows, Zenon
  <2>3. Proved(n, Parent[b])'
    <3>1. <<Parent[b], C>> \in proofs'[n]
      BY <1>1, <1>4, <2>1, Zenon DEF PersistProof, TypeOK
    <3>2. <<Parent[b], C>>[1] = Parent[b]
      BY Zenon
    <3> QED
      BY <3>1, <3>2, Zenon DEF Proved
  <2>4. \A m \in Honest : PoolOK(m)'
    BY <1>1, <1>2, <1>4, Zenon DEF PersistProof, PoolOK, VoteInv, TypeOK
  <2>5. ProofsStep
    BY <1>4, <2>1, <2>2, Zenon DEF ProofsStep, PersistProof
  <2> QED
    BY <2>3, <2>4, <2>5, Zenon
<1> QED
  BY <1>3, <1>4, Zenon DEF FinalizeParent

(* Every step makes only such changes to the proofs and keeps pools clean. *)
LEMMA ProofsNext ==
    ASSUME CertInv, [Next]_vars
    PROVE  ProofsStep /\ \A m \in Honest : PoolOK(m)'
<1> DEFINE Goal == ProofsStep /\ \A m \in Honest : PoolOK(m)'
<1>1. TypeOK /\ VoteInv /\ ChainInv
  BY Zenon DEF CertInv
<1>2. signed \subseteq signed'
  BY <1>1, SignedGrows, Zenon
<1>3. ASSUME UNCHANGED <<votes, proofs>> PROVE Goal
  BY <1>1, <1>2, <1>3, Zenon DEF ProofsStep, PoolOK, VoteInv
<1>4. ASSUME NEW n \in Honest, NEW b \in Block, Import(n, b) \/ ImportFails(n, b) \/ Reimport(n, b)
      PROVE  Goal
  BY <1>4, FinalizeParentStep, Zenon DEF Import, ImportFails, Reimport
<1>5. ASSUME NEW n \in Honest, ReplayProposal(n) PROVE Goal
  <2>1. PICK b \in Block : ImportOK(n, b) /\ FinalizeParent(n, b)
    BY <1>1, <1>5, Zenon DEF ReplayProposal, Pending, TypeOK
  <2> QED
    BY <2>1, FinalizeParentStep, Zenon
<1>6. ASSUME NEW n \in Honest, NEW b \in Block, PullProof(n, b) PROVE Goal
  <2>1. PICK m \in Validator : \E Q \in Served(m, b) : VerifyProof(b, Q) /\ PersistProof(n, b, Q, votes[n])
    BY <1>6, Zenon DEF PullProof
  <2>2. PICK Q \in Served(m, b) : VerifyProof(b, Q) /\ PersistProof(n, b, Q, votes[n])
    BY <2>1, Zenon
  <2>3. Q \in SUBSET Validator
    <3>1. CASE m \in Honest
      <4>1. PICK x \in proofs[m] : Q = x[2]
        BY <2>2, <3>1, Zenon DEF Served
      <4>2. x \in Block \X SUBSET Validator
        BY <1>1, <3>1, <4>1, Zenon DEF TypeOK
      <4> QED
        BY <4>1, <4>2, Zenon
    <3>2. CASE m \notin Honest
      BY <2>2, <3>2, Zenon DEF Served, Signers
    <3> QED
      BY <3>1, <3>2, Zenon
  <2>4. b \in stored[n] \ {Base} /\ VerifyProof(b, Q)'
    BY <1>1, <1>6, <2>2, <2>3, CertGrows, Zenon DEF PullProof, Unproved
  <2>5. ProofsStep
    BY <2>2, <2>3, <2>4, Zenon DEF ProofsStep, PersistProof
  <2>6. \A k \in Honest : PoolOK(k)'
    BY <1>1, <1>2, <2>2, Zenon DEF PersistProof, PoolOK, VoteInv, TypeOK
  <2> QED
    BY <2>5, <2>6, Zenon
<1>7. ASSUME NEW n \in Honest, NEW b \in Block, NEW t \in VoteType, Vote(n, b, t) PROVE Goal
  BY <1>3, <1>7, IntakeStep, Zenon DEF Vote, Validator
<1>8. ASSUME NEW n \in Honest, NEW b \in Block, NEW v \in Validator, Deliver(n, v, b) PROVE Goal
  BY <1>2, <1>8, IntakeStep, Zenon DEF Deliver
<1>9. ASSUME NEW n \in Honest, NEW keep \in BOOLEAN, Restart(n, keep) PROVE Goal
  <2>1. UNCHANGED proofs /\ votes' = [votes EXCEPT ![n] = {}]
    BY <1>9, Zenon DEF Restart
  <2> QED
    BY <1>1, <1>2, <2>1, Zenon DEF ProofsStep, PoolOK, VoteInv, TypeOK
<1>10. ASSUME NEW n \in Honest, NEW b \in Block, Seal(n, b) \/ Revote(n, b) PROVE Goal
  BY <1>3, <1>10, Zenon DEF Seal, Revote
<1>11. ASSUME NEW n \in Honest, Append(n) \/ SealFails(n) \/ Start(n) PROVE Goal
  BY <1>3, <1>11, Zenon DEF Append, SealFails, Start
<1>12. ASSUME NEW v \in Faulty, NEW b \in Block, FaultySign(v, b) PROVE Goal
  BY <1>3, <1>12, Zenon DEF FaultySign
<1>13. ASSUME NEW v \in Faulty, NEW b \in Block, NEW Q, FaultySeal(v, b, Q) PROVE Goal
  BY <1>3, <1>13, Zenon DEF FaultySeal
<1>14. ASSUME UNCHANGED vars PROVE Goal
  BY <1>3, <1>14, Zenon DEF vars
<1> HIDE DEF Goal
<1>15. Goal
  BY <1>4, <1>5, <1>6, <1>7, <1>8, <1>9, <1>10, <1>11, <1>12, <1>13, <1>14, Zenon DEF Next, NodeNext, FaultyNext
<1> QED
  BY <1>15, Zenon DEF Goal

(* Proofs verify, no proof is ever lost or replaced by another block's. *)
LEMMA ProofsKept ==
    ASSUME CertInv, TypeOK', [Next]_vars
    PROVE  /\ ProofInv'
           /\ \A n \in Honest : \A p \in proofs[n] : \E q \in proofs'[n] : q[1] = p[1]
<1>1. TypeOK /\ ProofInv /\ CertAgree'
  BY CertAgreeStep, Zenon DEF CertInv
<1>2. \A n \in Honest : \A p \in proofs[n] :
        p[1] \in Block \ {Base} /\ p[2] \in SUBSET Validator /\ VerifyProof(p[1], p[2])
  BY <1>1 DEF ProofInv, TypeOK
<1>3. \A b \in Block, Q \in SUBSET Validator : VerifyProof(b, Q) => VerifyProof(b, Q)'
  BY <1>1, CertGrows, Zenon
<1>4. CASE UNCHANGED proofs
  BY <1>2, <1>3, <1>4, Zenon DEF ProofInv
<1>5. ASSUME NEW n \in Honest, NEW b \in Block, NEW Q \in SUBSET Validator,
             b \in stored[n] \ {Base}, VerifyProof(b, Q)',
             proofs' = [proofs EXCEPT ![n] = {p \in @ : Height[p[1]] # Height[b]} \cup {<<b, Q>>}]
      PROVE  /\ ProofInv'
             /\ \A m \in Honest : \A p \in proofs[m] : \E q \in proofs'[m] : q[1] = p[1]
  <2>1. proofs'[n] = {p \in proofs[n] : Height[p[1]] # Height[b]} \cup {<<b, Q>>}
    BY <1>1, <1>5, Zenon DEF TypeOK
  <2>2. \A m \in Honest \ {n} : proofs'[m] = proofs[m]
    BY <1>1, <1>5, Zenon DEF TypeOK
  <2>3. <<b, Q>>[1] = b /\ <<b, Q>>[2] = Q
    BY Zenon
  <2>4. ProofInv'
    <3>1. ASSUME NEW m \in Honest, NEW p \in proofs'[m]
          PROVE  p[1] # Base /\ VerifyProof(p[1], p[2])'
      <4>1. CASE p \in proofs[m]
        <5>1. PICK c \in Block, R \in SUBSET Validator : c = p[1] /\ R = p[2]
          BY <1>2, <4>1, Zenon
        <5>2. c # Base /\ VerifyProof(c, R)'
          BY <1>2, <1>3, <4>1, <5>1, Zenon
        <5> QED
          BY <5>1, <5>2, Zenon
      <4>2. CASE p = <<b, Q>>
        BY <1>5, <2>3, <4>2, Zenon
      <4> QED
        BY <2>1, <2>2, <4>1, <4>2, Zenon
    <3> QED
      BY <3>1, Zenon DEF ProofInv
  <2>5. ASSUME NEW m \in Honest, NEW p \in proofs[m] PROVE \E q \in proofs'[m] : q[1] = p[1]
    <3>1. CASE p \in proofs'[m]
      BY <3>1, Zenon
    <3>2. CASE p \notin proofs'[m]
      <4>1. m = n /\ Height[p[1]] = Height[b]
        BY <2>1, <2>2, <3>2, Zenon
      <4>2. Certified(p[1])'
        BY <1>2, <1>3, Zenon DEF Certified
      <4>3. Certified(b)'
        BY <1>5, Zenon DEF Certified
      <4>4. p[1] = b
        BY <1>1, <1>2, <1>5, <4>1, <4>2, <4>3, Zenon DEF CertAgree
      <4> QED
        BY <2>1, <2>3, <4>1, <4>4, Zenon
    <3> QED
      BY <3>1, <3>2, Zenon
  <2> QED
    BY <2>4, <2>5, Zenon
<1> QED
  BY <1>4, <1>5, ProofsNext, Zenon DEF ProofsStep

-----------------------------------------------------------------------------
(* Chains and proposals.                                                   *)

(* A node keeps what it has proved. *)
LEMMA ProvedKept ==
    ASSUME CertInv, TypeOK', [Next]_vars, NEW n \in Honest, NEW b
    PROVE  Proved(n, b) => Proved(n, b)'
  BY ProofsKept DEF Proved

(* Appending a votable child of the tip keeps the chain proved below its tip,
   given that the parent is proved. *)
LEMMA AppendChain ==
    ASSUME CertInv, TypeOK', [Next]_vars, NEW n \in Honest, NEW b \in Block,
           AppendBlock(n, b), Parent[b] = tip[n], Votable(b), Proved(n, Parent[b])'
    PROVE  ChainInv'
<1>1. TypeOK /\ ChainInv
  BY Zenon DEF CertInv
<1>2. \A m \in Honest : \A c : Proved(m, c) => Proved(m, c)'
  BY ProvedKept, Zenon
<1>3. \A c \in Block : Votable(c) => Votable(c)'
  BY <1>1, CertGrows, Zenon
<1>4. ASSUME NEW m \in Honest, m # n
      PROVE  stored'[m] = stored[m] /\ tip'[m] = tip[m]
  BY <1>1, <1>4, Zenon DEF AppendBlock, TypeOK
<1>5. stored'[n] = stored[n] \cup {b} /\ tip'[n] = b
  BY <1>1, Zenon DEF AppendBlock, TypeOK
<1>6. \A m \in Honest : stored[m] \subseteq Block
  BY <1>1, Zenon DEF TypeOK
<1> QED
  BY <1>1, <1>2, <1>3, <1>4, <1>5, <1>6 DEF ChainInv

(* The chain invariant survives every step. *)
LEMMA ChainStep ==
    ASSUME CertInv, TypeOK', [Next]_vars
    PROVE  ChainInv'
<1>1. TypeOK /\ ChainInv /\ ProposalInv
  BY Zenon DEF CertInv
<1>2. \A m \in Honest : \A c : Proved(m, c) => Proved(m, c)'
  BY ProvedKept, Zenon
<1>3. \A c \in Block : Votable(c) => Votable(c)'
  BY <1>1, CertGrows, Zenon
<1>4. \A m \in Honest : stored[m] \subseteq Block
  BY <1>1, Zenon DEF TypeOK
<1>5. ASSUME UNCHANGED chainVars PROVE ChainInv'
  BY <1>1, <1>2, <1>3, <1>4, <1>5, Zenon DEF ChainInv, chainVars
<1>6. ASSUME NEW n \in Honest, NEW b \in Block, Import(n, b) \/ Reimport(n, b) PROVE ChainInv'
  <2>1. ImportOK(n, b) /\ FinalizeParent(n, b) /\ AppendBlock(n, b)
    BY <1>6, Zenon DEF Import, Reimport
  <2> QED
    BY <1>1, <2>1, FinalizeParentStep, ImportVotable, AppendChain, Zenon DEF ImportOK
<1>7. ASSUME NEW n \in Honest, ReplayProposal(n) PROVE ChainInv'
  <2>1. PICK b \in Block : ImportOK(n, b) /\ FinalizeParent(n, b) /\ AppendBlock(n, b)
    BY <1>1, <1>7, Zenon DEF ReplayProposal, Pending, TypeOK
  <2> QED
    BY <1>1, <2>1, FinalizeParentStep, ImportVotable, AppendChain, Zenon DEF ImportOK
<1>8. ASSUME NEW n \in Honest, Append(n) PROVE ChainInv'
  <2>1. PICK b \in Block : b = sealing[n]
    BY <1>1, <1>8, Zenon DEF Append, TypeOK
  <2>2. AppendBlock(n, b) /\ b # None
    BY <1>8, <2>1, Zenon DEF Append
  <2>3. Parent[b] = tip[n] /\ Proved(n, Parent[b])
    BY <1>1, <2>1, <2>2, Zenon DEF ProposalInv
  <2>4. Votable(b)
    BY <2>1, <2>2, SealingVotable, Zenon
  <2> QED
    BY <1>2, <2>2, <2>3, <2>4, AppendChain, Zenon
<1>9. ASSUME NEW n \in Honest, NEW keep \in BOOLEAN, Restart(n, keep) PROVE ChainInv'
  <2>1. CASE keep
    BY <1>5, <1>9, <2>1, Zenon DEF Restart
  <2>2. CASE ~keep
    <3>1. /\ stored' = [stored EXCEPT ![n] = {Base}]
          /\ tip' = [tip EXCEPT ![n] = Base]
      BY <1>9, <2>2, Zenon DEF Restart
    <3>2. \A m \in Honest : Proved(m, Base)'
      BY Zenon DEF Proved
    <3>3. ASSUME NEW m \in Honest, m # n
          PROVE  stored'[m] = stored[m] /\ tip'[m] = tip[m]
      BY <1>1, <3>1, <3>3, Zenon DEF TypeOK
    <3>4. stored'[n] = {Base} /\ tip'[n] = Base
      BY <1>1, <3>1, Zenon DEF TypeOK
    <3> QED
      BY <1>1, <1>2, <1>3, <1>4, <3>2, <3>3, <3>4, Zenon DEF ChainInv
  <2> QED
    BY <2>1, <2>2, Zenon
<1>10. ASSUME NEW n \in Honest, NEW b \in Block,
              ImportFails(n, b) \/ Seal(n, b) \/ Revote(n, b) \/ PullProof(n, b)
       PROVE  ChainInv'
  BY <1>5, <1>10, Zenon DEF ImportFails, Seal, Revote, PullProof
<1>11. ASSUME NEW n \in Honest, NEW b \in Block, NEW t \in VoteType, Vote(n, b, t) PROVE ChainInv'
  BY <1>5, <1>11, Zenon DEF Vote
<1>12. ASSUME NEW n \in Honest, NEW b \in Block, NEW v \in Validator, Deliver(n, v, b) PROVE ChainInv'
  BY <1>5, <1>12, Zenon DEF Deliver
<1>13. ASSUME NEW n \in Honest, SealFails(n) \/ Start(n) PROVE ChainInv'
  BY <1>5, <1>13, Zenon DEF SealFails, Start
<1>14. ASSUME NEW v \in Faulty, NEW b \in Block, FaultySign(v, b) PROVE ChainInv'
  BY <1>5, <1>14, Zenon DEF FaultySign
<1>15. ASSUME NEW v \in Faulty, NEW b \in Block, NEW Q, FaultySeal(v, b, Q) PROVE ChainInv'
  BY <1>5, <1>15, Zenon DEF FaultySeal
<1>16. ASSUME UNCHANGED vars PROVE ChainInv'
  BY <1>5, <1>16, Zenon DEF vars, chainVars
<1> QED
  BY <1>6, <1>7, <1>8, <1>9, <1>10, <1>11, <1>12, <1>13, <1>14, <1>15, <1>16, Zenon DEF Next, NodeNext, FaultyNext


(* No other block reaches the chain of a producer between journal_proposal
   and append_block: it would have to be its own proposal on the same tip. *)
LEMMA NoImportWhileSealing ==
    ASSUME CertInv, NEW n \in Honest, NEW b \in Block, sealing[n] # None, ImportOK(n, b), b \in published
    PROVE  FALSE
<1>1. TypeOK /\ ProposalInv
  BY Zenon DEF CertInv
<1>2. header[b].by = n
  BY <1>1, Zenon DEF ImportOK, ProposalInv
<1>3. b \in proposals[n]
  BY <1>1, <1>2, Zenon DEF ImportOK, ProposalInv
<1> QED
  BY <1>1, <1>3 DEF ImportOK, ProposalInv

(* A sealed header is not None. *)
LEMMA HeaderRecord ==
    ASSUME NEW v \in Validator, NEW Q \in SUBSET Validator
    PROVE  [by |-> v, commit |-> Q] # None /\ [by |-> v, commit |-> Q].by = v
<1>1. [by |-> v, commit |-> Q] \in [by : Validator, commit : SUBSET Validator]
  BY Zenon
<1> QED
  BY <1>1, NoneAssumption, Zenon

(* The proposal journal's invariant survives every step. *)
LEMMA ProposalStep ==
    ASSUME CertInv, TypeOK', [Next]_vars
    PROVE  ProposalInv'
<1>1. TypeOK /\ ProposalInv
  BY Zenon DEF CertInv
<1>2. \A m \in Honest : \A c : Proved(m, c) => Proved(m, c)'
  BY ProvedKept
<1> USE DEF sealVars, bootVars, chainVars
<1>3. ASSUME UNCHANGED <<header, proposals, published, sealing, tip, phase>> PROVE ProposalInv'
  <2>1. ASSUME NEW n \in Honest, sealing'[n] # None PROVE Proved(n, tip[n])'
    <3>1. PICK c : c = tip[n]
      BY Zenon
    <3>2. Proved(n, c)'
      BY <1>1, <1>2, <1>3, <2>1, <3>1, Zenon DEF ProposalInv
    <3> QED
      BY <1>3, <3>1, <3>2, Zenon
  <2> QED
    BY <1>1, <1>3, <2>1, Zenon DEF ProposalInv
<1>4. ASSUME NEW n \in Honest, NEW b \in Block, sealing[n] = None,
             UNCHANGED <<header, proposals, sealing, phase>>, tip' = [tip EXCEPT ![n] = b],
             published' = published \/ (published' = published \cup {b} /\ b \in proposals[n])
      PROVE  ProposalInv'
  <2>1. ASSUME NEW m \in Honest, sealing'[m] # None
        PROVE  /\ m # n /\ tip'[m] = tip[m]
               /\ Proved(m, tip[m])'
    <3>1. m # n /\ tip'[m] = tip[m]
      BY <1>1, <1>4, <2>1, Zenon DEF TypeOK
    <3>2. PICK c : c = tip[m]
      BY Zenon
    <3>3. Proved(m, c)'
      BY <1>1, <1>2, <1>4, <2>1, <3>2, Zenon DEF ProposalInv
    <3> QED
      BY <3>1, <3>2, <3>3, Zenon
  <2> QED
    BY <1>1, <1>4, <2>1 DEF ProposalInv
<1>5. ASSUME NEW n \in Honest, NEW b \in Block, Import(n, b) PROVE ProposalInv'
  <2>1. sealing[n] = None
    BY <1>5, NoImportWhileSealing, Zenon DEF Import
  <2> QED
    BY <1>4, <1>5, <2>1, Zenon DEF Import, AppendBlock
<1>6. ASSUME NEW n \in Honest, NEW b \in Block, Reimport(n, b) PROVE ProposalInv'
  <2>1. sealing[n] = None
    BY <1>1, <1>6, Zenon DEF Reimport, ProposalInv
  <2> QED
    BY <1>4, <1>6, <2>1, Zenon DEF Reimport, AppendBlock
<1>7. ASSUME NEW n \in Honest, ReplayProposal(n) PROVE ProposalInv'
  <2>1. PICK b \in Block : b \in proposals[n] /\ AppendBlock(n, b) /\ published' = published \cup {b}
    BY <1>1, <1>7, Zenon DEF ReplayProposal, Pending, TypeOK
  <2> QED
    BY <1>4, <1>7, <2>1, Zenon DEF ReplayProposal, AppendBlock
<1>8. ASSUME NEW n \in Honest, Append(n) PROVE ProposalInv'
  <2>1. PICK b \in Block : b = sealing[n] /\ b # None
    BY <1>1, <1>8, Zenon DEF Append, TypeOK
  <2>2. /\ UNCHANGED <<header, proposals, phase>>
        /\ tip' = [tip EXCEPT ![n] = b]
        /\ sealing' = [sealing EXCEPT ![n] = None]
        /\ published' = published \cup {b}
    BY <1>8, <2>1, Zenon DEF Append, AppendBlock
  <2>3. b \in proposals[n]
    BY <1>1, <2>1, Zenon DEF ProposalInv
  <2>4. ASSUME NEW m \in Honest, sealing'[m] # None
        PROVE  m # n /\ tip'[m] = tip[m] /\ sealing'[m] = sealing[m] /\ Proved(m, tip[m])'
    <3>1. m # n /\ tip'[m] = tip[m] /\ sealing'[m] = sealing[m]
      BY <1>1, <2>2, <2>4, Zenon DEF TypeOK
    <3>2. PICK c : c = tip[m]
      OBVIOUS
    <3>3. Proved(m, c)'
      BY <1>1, <1>2, <2>4, <3>1, <3>2, Zenon DEF ProposalInv
    <3> QED
      BY <3>1, <3>2, <3>3, Zenon
  <2> QED
    BY <1>1, <2>2, <2>3, <2>4 DEF ProposalInv
<1>9. ASSUME NEW n \in Honest, NEW b \in Block, Seal(n, b) PROVE ProposalInv'
  <2>1. PICK Q \in SUBSET Validator :
            /\ header' = [header EXCEPT ![b] = [by |-> n, commit |-> Q]]
            /\ IF tip[n] = Base THEN Q = {} ELSE <<tip[n], Q>> \in proofs[n] /\ HasProof(n, tip[n])
    BY <1>9, Zenon DEF Seal
  <2>2. /\ header[b] = None /\ b # Base /\ Parent[b] = tip[n] /\ Proposer[tip[n]] = n
        /\ phase[n] = "run"
        /\ \A c \in proposals[n] : Parent[c] # tip[n]
        /\ UNCHANGED <<published, tip, phase, proofs>>
        /\ proposals' = [proposals EXCEPT ![n] = @ \cup {b}]
        /\ sealing' = [sealing EXCEPT ![n] = b]
    BY <1>9, Zenon DEF Seal, Pending
  <2>3. /\ header'[b] # None /\ header'[b].by = n
        /\ \A c \in Block \ {b} : header'[c] = header[c]
    <3>1. header'[b] = [by |-> n, commit |-> Q] /\ \A c \in Block \ {b} : header'[c] = header[c]
      BY <1>1, <2>1, Zenon DEF TypeOK
    <3> QED
      BY <3>1, HeaderRecord, Zenon DEF Validator
  <2>4. /\ proposals'[n] = proposals[n] \cup {b} /\ sealing'[n] = b
        /\ \A m \in Honest \ {n} : proposals'[m] = proposals[m] /\ sealing'[m] = sealing[m]
    BY <1>1, <2>2, Zenon DEF TypeOK
  <2>5. Proved(n, tip[n])'
    <3>1. Proved(n, tip[n])
      BY <2>1, Zenon DEF Proved, HasProof
    <3> QED
      BY <2>2, <3>1, Zenon DEF Proved
  <2>6. \A m \in Honest : sealing[m] # None => Proved(m, tip[m])'
    BY <1>1, <2>2 DEF ProposalInv, Proved
  <2>7. \A m \in Honest : proposals[m] \subseteq Block
    BY <1>1, Zenon DEF TypeOK
  <2>8. b \notin published /\ \A m \in Honest : b \notin proposals[m]
    BY <1>1, <2>2, Zenon DEF ProposalInv
  <2>9. published \subseteq Block
    BY <1>1, Zenon DEF TypeOK
  <2> QED
    BY <1>1, <2>2, <2>3, <2>4, <2>5, <2>6, <2>7, <2>8, <2>9 DEF ProposalInv
<1>10. ASSUME NEW n \in Honest, SealFails(n) PROVE ProposalInv'
  <2>1. PICK b \in Block : b = sealing[n] /\ b # None
    BY <1>1, <1>10 DEF SealFails, TypeOK
  <2>2. /\ UNCHANGED <<published, tip, phase, proofs>>
        /\ header' = [header EXCEPT ![b] = None]
        /\ proposals' = [proposals EXCEPT ![n] = @ \ {b}]
        /\ sealing' = [sealing EXCEPT ![n] = None]
    BY <1>10, <2>1, Zenon DEF SealFails
  <2>3. header'[b] = None /\ \A c \in Block \ {b} : header'[c] = header[c]
    BY <1>1, <2>2, Zenon DEF TypeOK
  <2>4. /\ proposals'[n] = proposals[n] \ {b} /\ sealing'[n] = None
        /\ \A m \in Honest \ {n} : proposals'[m] = proposals[m] /\ sealing'[m] = sealing[m]
    BY <1>1, <2>2, Zenon DEF TypeOK
  <2>5. b \in proposals[n] /\ b \notin published /\ \A m \in Honest \ {n} : b \notin proposals[m]
    BY <1>1, <2>1 DEF ProposalInv
  <2>6. \A m \in Honest : sealing[m] # None => Proved(m, tip[m])'
    BY <1>1, <2>2 DEF ProposalInv, Proved
  <2>7. published \subseteq Block /\ \A m \in Honest : proposals[m] \subseteq Block
    BY <1>1, Zenon DEF TypeOK
  <2> QED
    BY <1>1, <2>2, <2>3, <2>4, <2>5, <2>6, <2>7 DEF ProposalInv
<1>11. ASSUME NEW n \in Honest, NEW keep \in BOOLEAN, Restart(n, keep) PROVE ProposalInv'
  <2>1. /\ UNCHANGED <<header, proposals, published, proofs>>
        /\ sealing' = [sealing EXCEPT ![n] = None]
        /\ phase' = [phase EXCEPT ![n] = "init"]
    BY <1>11, Zenon DEF Restart
  <2>2. \A m \in Honest \ {n} : tip'[m] = tip[m]
    <3>1. CASE keep
      BY <1>11, <3>1, Zenon DEF Restart
    <3>2. CASE ~keep
      BY <1>1, <1>11, <3>2 DEF Restart, TypeOK
    <3> QED
      BY <3>1, <3>2, Zenon
  <2>3. sealing'[n] = None /\ \A m \in Honest \ {n} : sealing'[m] = sealing[m] /\ phase'[m] = phase[m]
    BY <1>1, <2>1, Zenon DEF TypeOK
  <2>4. \A m \in Honest \ {n} : sealing[m] # None => Proved(m, tip[m])'
    BY <1>1, <2>1, <2>2 DEF ProposalInv, Proved
  <2> QED
    BY <1>1, <2>1, <2>2, <2>3, <2>4 DEF ProposalInv
<1>12. ASSUME NEW n \in Honest, Start(n) PROVE ProposalInv'
  <2>1. /\ UNCHANGED <<header, proposals, published, sealing, tip, proofs>>
        /\ phase[n] = "init"
        /\ phase' = [phase EXCEPT ![n] = "run"]
    BY <1>12, Zenon DEF Start
  <2>2. \A m \in Honest : sealing[m] # None => phase'[m] = phase[m] /\ Proved(m, tip[m])'
    BY <1>1, <2>1 DEF ProposalInv, Proved, TypeOK
  <2> QED
    BY <1>1, <2>1, <2>2 DEF ProposalInv
<1>13. ASSUME NEW v \in Faulty, NEW b \in Block, NEW Q \in {{}, Signers(Parent[b])}, FaultySeal(v, b, Q) PROVE ProposalInv'
  <2>1. /\ UNCHANGED <<proposals, sealing, tip, phase, proofs>>
        /\ header[b] = None
        /\ header' = [header EXCEPT ![b] = [by |-> v, commit |-> Q]]
        /\ published' = published \cup {b}
    BY <1>13, Zenon DEF FaultySeal
  <2>2. /\ header'[b] = [by |-> v, commit |-> Q]
        /\ \A c \in Block \ {b} : header'[c] = header[c]
    BY <1>1, <2>1, Zenon DEF TypeOK
  <2>3. header'[b].by = v /\ header'[b] # None
    <3>1. v \in Validator /\ Q \subseteq Validator
      BY Zenon DEF Signers, Validator
    <3> QED
      BY <2>2, <3>1, HeaderRecord, Zenon
  <2>4. b \notin published /\ \A m \in Honest : b \notin proposals[m]
    BY <1>1, <2>1, Zenon DEF ProposalInv
  <2>5. published \subseteq Block /\ \A m \in Honest : proposals[m] \subseteq Block
    BY <1>1, Zenon DEF TypeOK
  <2>6. \A m \in Honest : sealing[m] # None => Proved(m, tip[m])'
    BY <1>1, <2>1 DEF ProposalInv, Proved
  <2> QED
    BY <1>1, <2>1, <2>2, <2>3, <2>4, <2>5, <2>6, ValidatorAssumption DEF ProposalInv
<1>14. ASSUME NEW n \in Honest, NEW b \in Block, ImportFails(n, b) \/ Revote(n, b) \/ PullProof(n, b)
       PROVE  ProposalInv'
  BY <1>3, <1>14, Zenon DEF ImportFails, Revote, PullProof
<1>15. ASSUME NEW n \in Honest, NEW b \in Block, NEW t \in VoteType, Vote(n, b, t) PROVE ProposalInv'
  BY <1>3, <1>15, Zenon DEF Vote
<1>16. ASSUME NEW n \in Honest, NEW b \in Block, NEW v \in Validator, Deliver(n, v, b) PROVE ProposalInv'
  BY <1>3, <1>16, Zenon DEF Deliver
<1>17. ASSUME NEW v \in Faulty, NEW b \in Block, FaultySign(v, b) PROVE ProposalInv'
  BY <1>3, <1>17, Zenon DEF FaultySign
<1>18. ASSUME UNCHANGED vars PROVE ProposalInv'
  BY <1>3, <1>18, Zenon DEF vars
<1> QED
  BY <1>5, <1>6, <1>7, <1>8, <1>9, <1>10, <1>11, <1>12, <1>13, <1>14, <1>15, <1>16, <1>17, <1>18, Zenon
  DEF Next, NodeNext, FaultyNext

(* A new proof is for a child of a proved block, so proofs have no gaps. *)
LEMMA DenseStep ==
    ASSUME CertInv, TypeOK', [Next]_vars
    PROVE  ProofsDense'
<1>1. TypeOK /\ ChainInv /\ ProofsDense
  BY Zenon DEF CertInv
<1>2. CASE UNCHANGED proofs
  BY <1>1, <1>2, Zenon DEF ProofsDense
<1>3. ASSUME NEW n \in Honest, NEW b \in Block, NEW Q \in SUBSET Validator,
             b \in stored[n] \ {Base},
             proofs' = [proofs EXCEPT ![n] = {p \in @ : Height[p[1]] # Height[b]} \cup {<<b, Q>>}]
      PROVE  ProofsDense'
  <2>1. /\ proofs'[n] = {p \in proofs[n] : Height[p[1]] # Height[b]} \cup {<<b, Q>>}
        /\ \A m \in Honest \ {n} : proofs'[m] = proofs[m]
    BY <1>1, <1>3, Zenon DEF TypeOK
  <2>2. <<b, Q>>[1] = b
    BY Zenon
  <2>3. Height[b] = Height[Parent[b]] + 1 /\ Height[Parent[b]] \in Nat /\ Height[Base] \in Nat
    BY <1>3, BlockAssumption, Zenon
  <2>4. Proved(n, Parent[b])
    BY <1>1, <1>3, Zenon DEF ChainInv
  <2>5. \A h \in (Height[Base] + 1) .. Height[Parent[b]] : \E q \in proofs[n] : Height[q[1]] = h
    BY <1>1, <2>3, <2>4 DEF ProofsDense, Proved
  <2>6. ASSUME NEW p \in proofs'[n], NEW h \in (Height[Base] + 1) .. Height[p[1]]
        PROVE  \E q \in proofs'[n] : Height[q[1]] = h
    <3>1. CASE h = Height[b]
      BY <2>1, <2>2, <3>1, Zenon
    <3>2. CASE h # Height[b]
      <4>1. \E q \in proofs[n] : Height[q[1]] = h
        <5>1. CASE p \in proofs[n]
          BY <1>1, <2>6, <5>1, Zenon DEF ProofsDense
        <5>2. CASE p = <<b, Q>>
          BY <2>2, <2>3, <2>5, <2>6, <3>2, <5>2
        <5> QED
          BY <2>1, <5>1, <5>2, Zenon
      <4> QED
        BY <2>1, <3>2, <4>1, Zenon
    <3> QED
      BY <3>1, <3>2, Zenon
  <2> QED
    BY <1>1, <2>1, <2>6 DEF ProofsDense
<1> QED
  BY <1>2, <1>3, ProofsNext, Zenon DEF ProofsStep

(* The voting invariant survives every step. *)
LEMMA VoteStep ==
    ASSUME CertInv, TypeOK', [Next]_vars
    PROVE  VoteInv'
<1>1. TypeOK
  BY Zenon DEF CertInv
<1>2. \A b \in Block : Votable(b) => Votable(b)'
  BY <1>1, CertGrows, Zenon
<1>3. \A n \in Honest, t \in VoteType, b \in Block : <<b, t>> \in jobs'[n] => Votable(b)'
  BY <1>2, JobsVotable, Zenon
<1>4. \A n \in Honest : PoolOK(n)'
  BY ProofsNext, Zenon
<1> QED
  BY <1>2, <1>3, <1>4, JournalStep, Zenon DEF VoteInv, PoolOK

(* The invariant holds initially: nobody has signed, so nothing is certified. *)
LEMMA InitCertInv == Init => CertInv
<1> SUFFICES ASSUME Init PROVE CertInv
  BY Zenon
<1>1. TypeOK
  BY TypeInit, Zenon
<1>2. ProposalInv
  BY Zenon DEF Init, ProposalInv
<1>3. ChainInv
  BY Zenon DEF Init, ChainInv, Proved
<1>4. VoteInv
  BY Zenon DEF Init, VoteInv
<1>5. ProofInv /\ ProofsDense
  BY Zenon DEF Init, ProofInv, ProofsDense
<1>6. ASSUME NEW b \in Block, Certified(b) PROVE FALSE
  <2>1. PICK Q \in SUBSET Validator : VerifyProof(b, Q)
    BY <1>6, Zenon DEF Certified
  <2>2. PICK v \in Honest : v \in Q
    BY <2>1, QuorumsMeet, BlockAssumption, Zenon DEF VerifyProof
  <2> QED
    BY <2>1, <2>2, Zenon DEF VerifyProof, Init
<1> QED
  BY <1>1, <1>2, <1>3, <1>4, <1>5, <1>6, Zenon DEF CertInv, CertAgree

(* The inductive invariant: every step keeps it. *)
LEMMA NextCertInv == CertInv /\ [Next]_vars => CertInv'
<1> SUFFICES ASSUME CertInv, [Next]_vars PROVE CertInv'
  OBVIOUS
<1>1. TypeOK'
  BY TypeNext, Zenon DEF CertInv
<1> QED
  BY <1>1, ProposalStep, ChainStep, VoteStep, ProofsKept, CertAgreeStep, DenseStep, Zenon DEF CertInv

(* It holds throughout. *)
LEMMA CertInvariant == Spec => []CertInv
  BY InitCertInv, NextCertInv, PTL DEF Spec

-----------------------------------------------------------------------------
(* The results.                                                            *)

(* The stores, pools and journals of every node keep their types. *)
THEOREM FinalityTypes == Spec => []TypeOK
<1>1. CertInv => TypeOK
  BY Zenon DEF CertInv
<1> QED
  BY <1>1, CertInvariant, PTL

(* No two nodes ever hold finality proofs of different blocks at one height,
   for any validator sets of which at most a third of the stake is faulty and
   any number of restarts and interrupted recoveries. *)
THEOREM FinalityAgreement == Spec => []Agreement
<1>1. CertInv => Agreement
  <2> SUFFICES ASSUME CertInv, NEW n \in Honest, NEW m \in Honest, NEW p \in proofs[n], NEW q \in proofs[m],
                      Height[p[1]] = Height[q[1]]
               PROVE  p[1] = q[1]
    BY Zenon DEF Agreement
  <2>1. p[1] \in Block \ {Base} /\ q[1] \in Block \ {Base} /\ Certified(p[1]) /\ Certified(q[1])
    BY DEF CertInv, ProofInv, Certified, TypeOK
  <2> QED
    BY <2>1, Zenon DEF CertInv, CertAgree
<1> QED
  BY <1>1, CertInvariant, PTL

(* Release 2a: every block below the tip of a node has a verified proof. *)
THEOREM OnlyTheTipIsNotFinal == Spec => []FinalBelowTip
<1>1. CertInv => FinalBelowTip
  <2> SUFFICES ASSUME CertInv, NEW n \in Honest, NEW b \in stored[n] \ {Base, tip[n]}
               PROVE  HasProof(n, b)
    BY Zenon DEF FinalBelowTip
  <2>1. PICK p \in proofs[n] : p[1] = b
    BY Zenon DEF CertInv, ChainInv, Proved
  <2> QED
    BY <2>1, Zenon DEF CertInv, ProofInv, HasProof
<1> QED
  BY <1>1, CertInvariant, PTL

(* An honest proposer never publishes two blocks on one parent. *)
THEOREM ProposerNeverEquivocates == Spec => []NoSecondProposal
<1>1. CertInv => NoSecondProposal
  BY DEF CertInv, ProposalInv, NoSecondProposal, TypeOK
<1> QED
  BY <1>1, CertInvariant, PTL

(* append_block never replaces a block: the producer's block in flight
   extends the tip of its chain. *)
THEOREM ProducerExtendsItsTip == Spec => []SealingExtendsTip
<1>1. CertInv => SealingExtendsTip
  BY Zenon DEF CertInv, ProposalInv, SealingExtendsTip
<1> QED
  BY <1>1, CertInvariant, PTL

(* A proof once held is held for ever, for the same block. *)
THEOREM FinalityIsForever == Spec => FinalForever
<1>1. CertInv /\ CertInv' /\ [Next]_vars =>
        [\A n \in Honest : \A p \in proofs[n] : \E q \in proofs'[n] : q[1] = p[1]]_vars
  BY ProofsKept, Zenon DEF CertInv
<1> QED
  BY <1>1, CertInvariant, PTL DEF Spec, FinalForever

(* The blocks with a proof somewhere, as the abstract chain sees them. *)
FinalBlocks == {Base} \cup {p[1] : p \in UNION {proofs[n] : n \in Honest}}

(* A step of the network is a step of the finalized chain or none of it: a
   first proof is for a child of the highest block proved anywhere. *)
LEMMA FinalizedChainStep ==
    ASSUME CertInv, TypeOK', [Next]_vars
    PROVE  \/ FinalBlocks' = FinalBlocks
           \/ \E b \in Block : /\ Parent[b] \in FinalBlocks
                               /\ \A c \in FinalBlocks : Height[c] < Height[b]
                               /\ FinalBlocks' = FinalBlocks \cup {b}
<1>1. TypeOK /\ ChainInv /\ ProofInv /\ ProofsDense /\ CertAgree'
  BY CertAgreeStep, Zenon DEF CertInv
<1>2. CASE UNCHANGED proofs
  BY <1>2, Zenon DEF FinalBlocks
<1>3. ASSUME NEW n \in Honest, NEW b \in Block, NEW Q \in SUBSET Validator,
             b \in stored[n] \ {Base}, VerifyProof(b, Q)',
             proofs' = [proofs EXCEPT ![n] = {p \in @ : Height[p[1]] # Height[b]} \cup {<<b, Q>>}]
      PROVE  \/ FinalBlocks' = FinalBlocks
             \/ \E x \in Block : /\ Parent[x] \in FinalBlocks
                                 /\ \A c \in FinalBlocks : Height[c] < Height[x]
                                 /\ FinalBlocks' = FinalBlocks \cup {x}
  <2>1. /\ proofs'[n] = {p \in proofs[n] : Height[p[1]] # Height[b]} \cup {<<b, Q>>}
        /\ \A m \in Honest \ {n} : proofs'[m] = proofs[m]
    BY <1>1, <1>3, Zenon DEF TypeOK
  <2>2. <<b, Q>>[1] = b
    OBVIOUS
  <2>3. FinalBlocks' = FinalBlocks \cup {b}
    <3>1. ASSUME NEW c \in FinalBlocks' PROVE c \in FinalBlocks \cup {b}
      BY <2>1, <2>2, <3>1 DEF FinalBlocks
    <3>2. FinalBlocks \subseteq FinalBlocks'
      BY ProofsKept DEF FinalBlocks
    <3>3. b \in FinalBlocks'
      <4>1. <<b, Q>> \in UNION {proofs'[m] : m \in Honest}
        BY <2>1, Zenon
      <4> QED
        BY <2>2, <4>1, Zenon DEF FinalBlocks
    <3> QED
      BY <3>1, <3>2, <3>3, Zenon
  <2>4. CASE b \in FinalBlocks
    BY <2>3, <2>4, Zenon
  <2>5. CASE b \notin FinalBlocks
    <3>1. Parent[b] \in FinalBlocks
      BY <1>1, <1>3 DEF ChainInv, Proved, FinalBlocks
    <3>2. ASSUME NEW c \in FinalBlocks PROVE Height[c] < Height[b]
      <4>1. CASE c = Base
        BY <1>3, <4>1, BlockAssumption, Zenon
      <4>2. ASSUME NEW m \in Honest, NEW p \in proofs[m], c = p[1] PROVE Height[c] < Height[b]
        <5>1. c \in Block \ {Base} /\ Height[c] \in Nat /\ Height[b] \in Nat /\ Height[Base] \in Nat
              /\ Height[b] >= Height[Base] + 1
          BY <1>1, <1>3, <4>2, BlockAssumption DEF ProofInv, TypeOK
        <5>2. SUFFICES ASSUME Height[c] >= Height[b] PROVE FALSE
          BY <5>1
        <5>3. PICK q \in proofs[m] : Height[q[1]] = Height[b]
          BY <1>1, <4>2, <5>1, <5>2, SMTT(30) DEF ProofsDense
        <5>4. PICK d \in Block \ {Base}, R \in SUBSET Validator : d = q[1] /\ R = q[2]
          BY <1>1, <5>3 DEF ProofInv, TypeOK
        <5>5. VerifyProof(d, R)'
          BY <1>1, <5>3, <5>4, CertGrows, Zenon DEF ProofInv
        <5>6. Certified(d)' /\ Certified(b)'
          BY <1>3, <5>5, Zenon DEF Certified
        <5>7. d = b
          BY <1>1, <1>3, <5>3, <5>4, <5>6, Zenon DEF CertAgree
        <5> QED
          BY <2>5, <5>3, <5>4, <5>7, Zenon DEF FinalBlocks
      <4> QED
        BY <4>1, <4>2, Zenon DEF FinalBlocks
    <3> QED
      BY <2>3, <3>1, <3>2, Zenon
  <2> QED
    BY <2>4, <2>5, Zenon
<1> QED
  BY <1>2, <1>3, ProofsNext, Zenon DEF ProofsStep

(* The network implements the single growing finalized chain. *)
THEOREM FinalityImplementsChain == Spec => ImplementsFinalizedChain
<1>1. Init => FC!Init
  BY DEF Init, FC!Init
<1>2. CertInv /\ CertInv' /\ [Next]_vars => [FC!Next]_(FinalBlocks)
  <2> SUFFICES ASSUME CertInv, CertInv', [Next]_vars PROVE [FC!Next]_(FinalBlocks)
    BY Zenon
  <2>1. TypeOK'
    BY Zenon DEF CertInv
  <2> QED
    BY <2>1, FinalizedChainStep, Zenon DEF FC!Next, FC!Finalize, FinalBlocks
<1> QED
  BY <1>1, <1>2, CertInvariant, PTL DEF Spec, ImplementsFinalizedChain, FC!Spec, FinalBlocks
=============================================================================
