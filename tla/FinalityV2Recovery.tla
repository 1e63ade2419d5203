-------------------------- MODULE FinalityV2Recovery --------------------------
(***************************************************************************)
(* What follows from CertInv for the light clients, and the proofs about   *)
(* recovery, the reported height and, with honest proposers, the single    *)
(* chain (RecoveryInv).                                                    *)
(***************************************************************************)
EXTENDS FinalityV2Proofs, LightClient

(* What the light client accepts has a quorum of its own validator set: the
   certificate it verified is one that a node would have verified. *)
LEMMA AcceptedIsCertified ==
    ASSUME TypeOK, NEW b \in Block, Accepts(b)
    PROVE  Certified(b)
<1>1. PICK m \in Validator : \E N \in Asked(m) : \E q \in Queries(N, m, b, Parent[b]) :
        VerifyTxFinalized(q) = "finalized"
  BY Zenon DEF Accepts
<1>2. PICK N \in Asked(m) : \E q \in Queries(N, m, b, Parent[b]) : VerifyTxFinalized(q) = "finalized"
  BY <1>1, Zenon
<1>3. PICK q \in Queries(N, m, b, Parent[b]) : VerifyTxFinalized(q) = "finalized"
  BY <1>2, Zenon
<1>4. q.block = b /\ q.set = Parent[b]
  BY DEF Queries
<1>5. VerifyFinalityCertificate(b, Parent[b], q.cert)
  BY <1>3, <1>4, Zenon DEF VerifyTxFinalized
<1> DEFINE Q == q.cert.votes
<1>6. VerifyProof(b, Q)
  BY <1>5, Zenon DEF VerifyFinalityCertificate, VerifyProof
<1>7. \A v \in Q : v \in Validator
  <2> SUFFICES ASSUME NEW v \in Q PROVE v \in Validator
    BY Zenon
  <2>1. <<v, "precommit", b>> \in Validator \X VoteType \X Block
    BY <1>6, Zenon DEF VerifyProof, TypeOK
  <2> QED  BY <2>1, Zenon
<1> HIDE DEF Q
<1>8. Q \in SUBSET Validator
  BY <1>7, Zenon
<1> QED  BY <1>6, <1>8, Zenon DEF Certified

(* With the set of the height pinned, no client is told that a block is final
   when a node holds the proof of another block of that height, whatever the
   faulty nodes answer and whichever nodes are asked. *)
THEOREM ClientsAgreeWithNodes == Spec => []ClientSound
<1>1. CertInv => ClientSound
  <2> SUFFICES ASSUME CertInv, NEW b \in Block \ {Base}, Accepts(b),
                      NEW n \in Honest, NEW pf \in proofs[n],
                      pf[1] # b, Height[pf[1]] = Height[b]
               PROVE  FALSE
    BY Zenon DEF ClientSound
  <2>1. Certified(b)
    BY AcceptedIsCertified, Zenon DEF CertInv
  <2>2. pf[1] \in Block \ {Base} /\ Certified(pf[1])
    BY DEF CertInv, ProofInv, Certified, TypeOK
  <2> QED  BY <2>1, <2>2, Zenon DEF CertInv, CertAgree
<1> QED  BY <1>1, CertInvariant, PTL

-----------------------------------------------------------------------------
(* Recovery and the reported height.                                       *)

(* The blocks of a node: those it stores and those that recover_from_history
   still holds in memory. *)
Taken(n) == stored[n] \cup reimport[n]

(* A block that passed import_block, or left its proposer, stays good. *)
Sound(b) == b \in published /\ header[b].by = Proposer[Parent[b]] /\ CommitOK(b)

TakenSound ==
    \A n \in Honest :
        /\ \A b \in Taken(n) \ {Base} : Sound(b)
        /\ sealing[n] # None => CommitOK(sealing[n])

(* The blocks of a node are one chain without gaps: the stored ones end at
   the tip, the ones in memory begin above it, and there are such only in
   init. *)
Linked(n) ==
    /\ \A b, c \in Taken(n) : Height[b] = Height[c] => b = c
    /\ \A b \in Taken(n) \ {Base} : Parent[b] \in Taken(n)
    /\ \A b \in Taken(n) : \A h \in Height[Base] .. Height[b] : \E d \in Taken(n) : Height[d] = h
    /\ \A b \in stored[n] : Height[b] <= Height[tip[n]]
    /\ \A b \in reimport[n] : Height[b] > Height[tip[n]]
    /\ reimport[n] # {} => phase[n] = "init"

(* FinalizedIsProved, of one node and without the verification. *)
Reported(n) ==
    phase[n] = "run" /\ finalized[n] > Height[Base] =>
        \E pf \in proofs[n] :
            /\ Height[pf[1]] = finalized[n]
            /\ finalized[n] <= Height[tip[n]]
            /\ pf[1] \in stored[n] \/ finalized[n] = Height[tip[n]]

RecoveryInv == TakenSound /\ \A n \in Honest : Linked(n) /\ Reported(n)

(* No step touches the header of a published block, or of one that stays in
   its producer's hands. *)
LEMMA HeaderKept ==
    ASSUME CertInv, [Next]_vars, NEW b \in Block,
           b \in published \/ \E m \in Honest : sealing[m] = b /\ sealing'[m] = b
    PROVE  header[b] # None /\ header'[b] = header[b]
<1>1. TypeOK /\ ProposalInv
  BY Zenon DEF CertInv
<1>2. None \notin Block
  BY NoneAssumption, Zenon
<1>3. header[b] # None
  BY <1>1, <1>2 DEF ProposalInv
<1>4. ASSUME UNCHANGED header PROVE header'[b] = header[b]
  BY <1>4, Zenon
<1>5. ASSUME NEW x \in Block, header[x] = None, NEW r, header' = [header EXCEPT ![x] = r]
      PROVE  header'[b] = header[b]
  BY <1>1, <1>3, <1>5, Zenon DEF TypeOK
<1>6. ASSUME NEW n \in Honest, NEW x \in Block, Seal(n, x) PROVE header'[b] = header[b]
  BY <1>5, <1>6, Zenon DEF Seal
<1>7. ASSUME NEW v \in Faulty, NEW x \in Block, NEW Q, FaultySeal(v, x, Q) PROVE header'[b] = header[b]
  BY <1>5, <1>7, Zenon DEF FaultySeal
<1>8. ASSUME NEW n \in Honest, SealFails(n) PROVE header'[b] = header[b]
  <2>1. /\ sealing[n] \in Block
        /\ header' = [header EXCEPT ![sealing[n]] = None]
        /\ sealing' = [sealing EXCEPT ![n] = None]
        /\ sealing[n] \in proposals[n] \ published
    BY <1>1, <1>8, Zenon DEF SealFails, TypeOK, ProposalInv
  <2>2. ASSUME NEW m \in Honest, sealing[m] = b, sealing'[m] = b PROVE b # sealing[n]
    <3>1. m # n
      BY <1>1, <1>2, <2>1, <2>2, Zenon DEF TypeOK
    <3> QED
      BY <1>1, <1>2, <2>1, <2>2, <3>1, SMTT(30) DEF ProposalInv
  <2>3. b # sealing[n]
    BY <2>1, <2>2, Zenon
  <2> QED
    BY <1>1, <2>1, <2>3, Zenon DEF TypeOK
<1>9. ASSUME NEW n \in Honest, NEW x \in Block,
             Import(n, x) \/ ImportFails(n, x) \/ Revote(n, x) \/ PullProof(n, x) \/ Reimport(n, x)
      PROVE  UNCHANGED header
  BY <1>9, Zenon DEF Import, ImportFails, Revote, PullProof, Reimport
<1>10. ASSUME NEW n \in Honest, Append(n) \/ ReplayProposal(n) \/ Start(n) PROVE UNCHANGED header
  BY <1>10, Zenon DEF Append, ReplayProposal, Start
<1>11. ASSUME NEW n \in Honest, NEW x \in Block, NEW t \in VoteType, Vote(n, x, t) PROVE UNCHANGED header
  BY <1>11, Zenon DEF Vote
<1>12. ASSUME NEW n \in Honest, NEW x \in Block, NEW v \in Validator, Deliver(n, v, x) PROVE UNCHANGED header
  BY <1>12, Zenon DEF Deliver
<1>13. ASSUME NEW n \in Honest, NEW keep \in BOOLEAN, Restart(n, keep) PROVE UNCHANGED header
  BY <1>13, Zenon DEF Restart
<1>14. ASSUME NEW v \in Faulty, NEW x \in Block, FaultySign(v, x) PROVE UNCHANGED header
  BY <1>14, Zenon DEF FaultySign
<1>15. ASSUME UNCHANGED vars PROVE UNCHANGED header
  BY <1>15, Zenon DEF vars
<1>16. header'[b] = header[b]
  BY <1>4, <1>6, <1>7, <1>8, <1>9, <1>10, <1>11, <1>12, <1>13, <1>14, <1>15, Zenon DEF Next, NodeNext, FaultyNext
<1> QED
  BY <1>3, <1>16, Zenon

(* A certificate that was good stays good. *)
LEMMA CommitKept ==
    ASSUME CertInv, [Next]_vars, NEW b \in Block, header[b] # None, header'[b] = header[b], CommitOK(b)
    PROVE  CommitOK(b)'
<1>1. TypeOK
  BY Zenon DEF CertInv
<1>2. header[b].commit \in SUBSET Validator /\ Parent[b] \in Block
  BY <1>1, BlockAssumption, Zenon DEF TypeOK
<1>3. VerifyProof(Parent[b], header[b].commit) => VerifyProof(Parent[b], header[b].commit)'
  <2>1. PICK c \in Block, R \in SUBSET Validator : c = Parent[b] /\ R = header[b].commit
    BY <1>2, Zenon
  <2>2. VerifyProof(c, R) => VerifyProof(c, R)'
    BY <1>1, CertGrows, Zenon
  <2>3. R = header'[b].commit
    BY <2>1, Zenon
  <2> QED
    BY <2>1, <2>2, <2>3, Zenon
<1> QED
  BY <1>3, Zenon DEF CommitOK

(* What has left its proposer stays out, and a producer's block in flight
   changes only when it is done or when the next one is sealed. *)
LEMMA PublishedGrows ==
    ASSUME CertInv, [Next]_vars
    PROVE  /\ published \subseteq published'
           /\ \A m \in Honest : \/ sealing'[m] \in {sealing[m], None}
                                \/ \E b \in Block : Seal(m, b) /\ sealing'[m] = b
<1> DEFINE Goal == /\ published \subseteq published'
                   /\ \A m \in Honest : \/ sealing'[m] \in {sealing[m], None}
                                        \/ \E b \in Block : Seal(m, b) /\ sealing'[m] = b
<1>1. TypeOK
  BY Zenon DEF CertInv
<1>2. ASSUME published \subseteq published', UNCHANGED sealing PROVE Goal
  BY <1>2, Zenon
<1>3. ASSUME NEW n \in Honest, published \subseteq published', sealing' = [sealing EXCEPT ![n] = None] PROVE Goal
  BY <1>1, <1>3, Zenon DEF TypeOK
<1>4. ASSUME NEW n \in Honest, NEW b \in Block, Seal(n, b) PROVE Goal
  <2>1. published' = published /\ sealing' = [sealing EXCEPT ![n] = b]
    BY <1>4, Zenon DEF Seal
  <2> QED
    BY <1>1, <1>4, <2>1, Zenon DEF TypeOK
<1>5. ASSUME NEW n \in Honest, NEW b \in Block,
             Import(n, b) \/ ImportFails(n, b) \/ Revote(n, b) \/ PullProof(n, b) \/ Reimport(n, b)
      PROVE  Goal
  BY <1>2, <1>5, Zenon DEF Import, ImportFails, Revote, PullProof, Reimport, sealVars
<1>6. ASSUME NEW n \in Honest, Append(n) \/ SealFails(n) PROVE Goal
  BY <1>3, <1>6, Zenon DEF Append, SealFails
<1>7. ASSUME NEW n \in Honest, ReplayProposal(n) \/ Start(n) PROVE Goal
  BY <1>2, <1>7, Zenon DEF ReplayProposal, Start, sealVars
<1>8. ASSUME NEW n \in Honest, NEW b \in Block, NEW t \in VoteType, Vote(n, b, t) PROVE Goal
  BY <1>2, <1>8, Zenon DEF Vote, sealVars
<1>9. ASSUME NEW n \in Honest, NEW b \in Block, NEW v \in Validator, Deliver(n, v, b) PROVE Goal
  BY <1>2, <1>9, Zenon DEF Deliver, sealVars
<1>10. ASSUME NEW n \in Honest, NEW keep \in BOOLEAN, Restart(n, keep) PROVE Goal
  BY <1>3, <1>10, Zenon DEF Restart
<1>11. ASSUME NEW v \in Faulty, NEW b \in Block, FaultySign(v, b) PROVE Goal
  BY <1>2, <1>11, Zenon DEF FaultySign, sealVars
<1>12. ASSUME NEW v \in Faulty, NEW b \in Block, NEW Q, FaultySeal(v, b, Q) PROVE Goal
  BY <1>2, <1>12, Zenon DEF FaultySeal, sealVars
<1>13. ASSUME UNCHANGED vars PROVE Goal
  BY <1>2, <1>13, Zenon DEF vars
<1> HIDE DEF Goal
<1>14. Goal
  BY <1>4, <1>5, <1>6, <1>7, <1>8, <1>9, <1>10, <1>11, <1>12, <1>13 DEF Next, NodeNext, FaultyNext
<1> QED
  BY <1>14, Zenon DEF Goal

(* So a sound block stays sound. *)
LEMMA SoundKept ==
    ASSUME CertInv, [Next]_vars, NEW b \in Block, Sound(b)
    PROVE  Sound(b)'
<1>1. header[b] # None /\ header'[b] = header[b]
  BY HeaderKept, Zenon DEF Sound
<1>2. CommitOK(b)'
  BY <1>1, CommitKept, Zenon DEF Sound
<1> QED
  BY <1>1, <1>2, PublishedGrows, Zenon DEF Sound

-----------------------------------------------------------------------------
(* What a step does to the chain of a node m: it appends a block, new or from
   memory, *)
Grows(m, b) ==
    /\ b # Base /\ Parent[b] = tip[m] /\ Sound(b)'
    /\ stored'[m] = stored[m] \cup {b} /\ tip'[m] = b /\ phase'[m] = phase[m]
    /\ \/ reimport[m] = {} /\ reimport'[m] = {}
       \/ b \in reimport[m] /\ reimport'[m] = reimport[m] \ {b}

(* or the node begins anew, *)
Restarted(m) ==
    /\ phase'[m] = "init"
    /\ \/ stored'[m] = stored[m] /\ tip'[m] = tip[m] /\ reimport'[m] = {}
       \/ stored'[m] = {Base} /\ tip'[m] = Base /\ reimport'[m] = stored[m] \ {Base}

(* or it leaves the chain alone. *)
Rests(m) == stored'[m] = stored[m] /\ tip'[m] = tip[m] /\ reimport'[m] = reimport[m]

(* Appending is done with a sound block. *)
LEMMA AppendGrows ==
    ASSUME CertInv, RecoveryInv, [Next]_vars, NEW n \in Honest, NEW b \in Block, b # Base,
           AppendBlock(n, b), Parent[b] = tip[n], Sound(b)', UNCHANGED phase,
           \/ reimport[n] = {} /\ UNCHANGED reimport
           \/ b \in reimport[n] /\ reimport' = [reimport EXCEPT ![n] = @ \ {b}]
    PROVE  /\ Grows(n, b)
           /\ \A m \in Honest \ {n} : Rests(m) /\ phase'[m] = phase[m]
<1>1. TypeOK
  BY Zenon DEF CertInv
<1> QED
  BY <1>1, Zenon DEF TypeOK, AppendBlock, Grows, Rests

(* Every step does one of these to every node, or ends its init. *)
LEMMA ChainCases ==
    ASSUME CertInv, RecoveryInv, [Next]_vars, NEW m \in Honest
    PROVE  \/ Rests(m) /\ phase'[m] = phase[m]
           \/ \E b \in Block : Grows(m, b)
           \/ Restarted(m)
           \/ Start(m)
<1> DEFINE Goal == \/ Rests(m) /\ phase'[m] = phase[m]
                   \/ \E b \in Block : Grows(m, b)
                   \/ Restarted(m)
                   \/ Start(m)
<1>1. TypeOK /\ ProposalInv
  BY Zenon DEF CertInv
<1>2. TakenSound /\ \A n \in Honest : reimport[n] # {} => phase[n] = "init"
  BY Zenon DEF RecoveryInv, Linked
<1>3. ASSUME UNCHANGED <<stored, tip, reimport, phase>> PROVE Goal
  BY <1>3, Zenon DEF Rests
<1>4. ASSUME NEW n \in Honest, NEW b \in Block, Import(n, b) PROVE Goal
  <2>1. /\ b # Base /\ AppendBlock(n, b) /\ Parent[b] = tip[n] /\ UNCHANGED <<phase, reimport>>
        /\ phase[n] = "run" /\ Sound(b)
    BY <1>4, Zenon DEF Import, ImportOK, Sound, bootVars
  <2>2. reimport[n] = {}
    BY <1>2, <2>1, Zenon
  <2> QED
    BY <2>1, <2>2, SoundKept, AppendGrows, Zenon
<1>5. ASSUME NEW n \in Honest, NEW b \in Block, Reimport(n, b) PROVE Goal
  <2>1. /\ b # Base /\ AppendBlock(n, b) /\ Parent[b] = tip[n] /\ UNCHANGED phase
        /\ b \in reimport[n] /\ reimport' = [reimport EXCEPT ![n] = @ \ {b}]
    BY <1>5, Zenon DEF Reimport, ImportOK
  <2>2. Sound(b)
    BY <1>2, <2>1, Zenon DEF TakenSound, Taken
  <2> QED
    BY <2>1, <2>2, SoundKept, AppendGrows, Zenon
<1>6. ASSUME NEW n \in Honest, ReplayProposal(n) PROVE Goal
  <2>1. PICK b \in Block : ImportOK(n, b) /\ AppendBlock(n, b) /\ published' = published \cup {b}
    BY <1>1, <1>6, Zenon DEF ReplayProposal, Pending, TypeOK
  <2>2. UNCHANGED <<header, phase, reimport>> /\ reimport[n] = {}
    BY <1>6, Zenon DEF ReplayProposal, bootVars
  <2>3. CommitOK(b)'
    BY <2>1, <2>2, CommitKept, Zenon DEF ImportOK
  <2>4. Sound(b)'
    BY <2>1, <2>2, <2>3, Zenon DEF Sound, ImportOK
  <2> QED
    BY <2>1, <2>2, <2>4, AppendGrows, Zenon DEF ImportOK
<1>7. ASSUME NEW n \in Honest, Append(n) PROVE Goal
  <2>1. PICK b \in Block : b = sealing[n] /\ b # None
    BY <1>1, <1>7, Zenon DEF Append, TypeOK
  <2>2. AppendBlock(n, b) /\ published' = published \cup {b} /\ UNCHANGED <<header, phase, reimport>>
    BY <1>7, <2>1, Zenon DEF Append, bootVars
  <2>3. /\ Parent[b] = tip[n] /\ Proposer[tip[n]] = n /\ phase[n] = "run"
        /\ b # Base /\ header[b] # None /\ header[b].by = n
    BY <1>1, <2>1, Zenon DEF ProposalInv
  <2>4. CommitOK(b)
    BY <1>2, <2>1, Zenon DEF TakenSound
  <2>5. CommitOK(b)'
    BY <2>2, <2>3, <2>4, CommitKept, Zenon
  <2>6. Sound(b)'
    BY <2>2, <2>3, <2>5, Zenon DEF Sound
  <2> QED
    BY <1>2, <2>2, <2>3, <2>6, AppendGrows, Zenon
<1>8. ASSUME NEW n \in Honest, NEW keep \in BOOLEAN, Restart(n, keep) PROVE Goal
  <2>1. CASE keep
    BY <1>1, <1>8, <2>1, Zenon DEF Restart, Restarted, Rests, TypeOK, chainVars
  <2>2. CASE ~keep
    BY <1>1, <1>8, <2>2, SMTT(30) DEF Restart, Restarted, Rests, TypeOK
  <2> QED
    BY <2>1, <2>2, Zenon
<1>9. ASSUME NEW n \in Honest, Start(n) PROVE Goal
  BY <1>1, <1>9, Zenon DEF Start, Rests, TypeOK, chainVars
<1>10. ASSUME NEW n \in Honest, NEW b \in Block,
              ImportFails(n, b) \/ Seal(n, b) \/ Revote(n, b) \/ PullProof(n, b)
       PROVE  Goal
  BY <1>3, <1>10, Zenon DEF ImportFails, Seal, Revote, PullProof, chainVars, bootVars
<1>11. ASSUME NEW n \in Honest, NEW b \in Block, NEW t \in VoteType, Vote(n, b, t) PROVE Goal
  BY <1>3, <1>11, Zenon DEF Vote, chainVars, bootVars
<1>12. ASSUME NEW n \in Honest, NEW b \in Block, NEW v \in Validator, Deliver(n, v, b) PROVE Goal
  BY <1>3, <1>12, Zenon DEF Deliver, chainVars, bootVars
<1>13. ASSUME NEW n \in Honest, SealFails(n) PROVE Goal
  BY <1>3, <1>13, Zenon DEF SealFails, chainVars, bootVars
<1>14. ASSUME NEW v \in Faulty, NEW b \in Block, FaultySign(v, b) PROVE Goal
  BY <1>3, <1>14, Zenon DEF FaultySign, chainVars, bootVars
<1>15. ASSUME NEW v \in Faulty, NEW b \in Block, NEW Q, FaultySeal(v, b, Q) PROVE Goal
  BY <1>3, <1>15, Zenon DEF FaultySeal, chainVars, bootVars
<1>16. ASSUME UNCHANGED vars PROVE Goal
  BY <1>3, <1>16, Zenon DEF vars
<1> HIDE DEF Goal
<1>17. Goal
  BY <1>4, <1>5, <1>6, <1>7, <1>8, <1>9, <1>10, <1>11, <1>12, <1>13, <1>14, <1>15, <1>16
  DEF Next, NodeNext, FaultyNext
<1> QED
  BY <1>17, Zenon DEF Goal

(* The blocks of every node stay sound. *)
LEMMA SoundStep ==
    ASSUME CertInv, RecoveryInv, [Next]_vars
    PROVE  TakenSound'
<1>1. TypeOK /\ ProposalInv /\ ProofInv /\ TakenSound
  BY Zenon DEF CertInv, RecoveryInv
<1>2. ASSUME NEW m \in Honest, NEW b \in Taken(m)' \ {Base} PROVE Sound(b)'
  <2>1. CASE b \in Taken(m)
    <3>1. b \in Block /\ Sound(b)
      BY <1>1, <1>2, <2>1, Zenon DEF TakenSound, Taken, TypeOK
    <3> QED
      BY <3>1, SoundKept, Zenon
  <2>2. CASE Grows(m, b)
    BY <2>2, Zenon DEF Grows
  <2>3. b \in Taken(m) \/ Grows(m, b)
    <3>1. ASSUME NEW x \in Block, Grows(m, x) PROVE b \in Taken(m) \/ b = x
      BY <1>2, <3>1, Zenon DEF Grows, Taken
    <3>2. ASSUME Rests(m) \/ Restarted(m) PROVE b \in Taken(m)
      BY <1>2, <3>2, Zenon DEF Rests, Restarted, Taken
    <3>3. ASSUME Start(m) PROVE b \in Taken(m)
      BY <1>2, <3>3, Zenon DEF Start, Taken, chainVars
    <3> QED
      BY <3>1, <3>2, <3>3, ChainCases, Zenon
  <2> QED
    BY <2>1, <2>2, <2>3, Zenon
<1>3. ASSUME NEW m \in Honest, sealing'[m] # None PROVE CommitOK(sealing[m])'
  <2>1. CASE sealing'[m] = sealing[m]
    <3>1. PICK b \in Block : b = sealing[m]
      BY <1>1, <1>3, <2>1, Zenon DEF TypeOK
    <3>2. CommitOK(b)
      BY <1>1, <1>3, <2>1, <3>1, Zenon DEF TakenSound
    <3>3. header[b] # None /\ header'[b] = header[b]
      BY <2>1, <3>1, HeaderKept, Zenon
    <3>4. CommitOK(b)'
      BY <3>2, <3>3, CommitKept, Zenon
    <3> QED
      BY <2>1, <3>1, <3>4, Zenon
  <2>2. ASSUME NEW b \in Block, Seal(m, b), sealing'[m] = b PROVE CommitOK(sealing[m])'
    <3>1. PICK Q \in SUBSET Validator :
            /\ header' = [header EXCEPT ![b] = [by |-> m, commit |-> Q]]
            /\ IF tip[m] = Base THEN Q = {} ELSE <<tip[m], Q>> \in proofs[m] /\ HasProof(m, tip[m])
      BY <2>2, Zenon DEF Seal
    <3>2. Parent[b] = tip[m] /\ UNCHANGED signed
      BY <2>2, Zenon DEF Seal, voteVars
    <3>3. header'[b].commit = Q
      BY <1>1, <3>1, Zenon DEF TypeOK
    <3>4. tip[m] # Base => VerifyProof(tip[m], Q)
      <4>1. \A c : <<c, Q>>[1] = c /\ <<c, Q>>[2] = Q
        BY Zenon
      <4> QED
        BY <1>1, <3>1, <4>1, Zenon DEF ProofInv
    <3>5. CommitOK(b)'
      BY <3>1, <3>2, <3>3, <3>4, Zenon DEF CommitOK, VerifyProof
    <3> QED
      BY <2>2, <3>5, Zenon
  <2> QED
    BY <1>3, <2>1, <2>2, PublishedGrows, Zenon
<1> QED
  BY <1>2, <1>3, Zenon DEF TakenSound

(* The blocks of every node stay one chain without gaps. *)
LEMMA LinkedStep ==
    ASSUME CertInv, RecoveryInv, [Next]_vars, NEW m \in Honest
    PROVE  Linked(m)'
<1>1. TypeOK /\ Linked(m)
  BY Zenon DEF CertInv, RecoveryInv
<1>2. tip[m] \in stored[m] /\ Base \in stored[m]
  BY Zenon DEF CertInv, ChainInv
<1>3. stored[m] \subseteq Block /\ reimport[m] \subseteq Block /\ tip[m] \in Block
  BY <1>1, Zenon DEF TypeOK
<1>4. Height[Base] \in Nat /\ \A b \in Block : Height[b] \in Nat
  BY BlockAssumption, Zenon
<1>5. ASSUME Rests(m), phase'[m] = phase[m] PROVE Linked(m)'
  BY <1>1, <1>5, Zenon DEF Linked, Taken, Rests
<1>6. ASSUME Start(m) PROVE Linked(m)'
  <2>1. Rests(m) /\ reimport[m] = {}
    BY <1>6, Zenon DEF Start, Rests, chainVars
  <2> QED
    BY <1>1, <2>1, Zenon DEF Linked, Taken, Rests
<1>7. ASSUME NEW b \in Block, Grows(m, b) PROVE Linked(m)'
  <2>1. Height[b] = Height[tip[m]] + 1 /\ Parent[b] = tip[m] /\ b # Base
    BY <1>7, BlockAssumption, Zenon DEF Grows
  <2>2. stored'[m] = stored[m] \cup {b} /\ tip'[m] = b /\ phase'[m] = phase[m]
    BY <1>7, Zenon DEF Grows
  <2>3. CASE reimport[m] = {} /\ reimport'[m] = {}
    <3>1. Taken(m)' = stored[m] \cup {b} /\ Taken(m) = stored[m]
      BY <2>2, <2>3, Zenon DEF Taken
    <3>2. \A c \in stored[m] : Height[c] \in Nat /\ Height[c] < Height[b]
      BY <1>1, <1>3, <1>4, <2>1 DEF Linked
    <3>3. \A c, d \in stored[m] \cup {b} : Height[c] = Height[d] => c = d
      BY <1>1, <1>4, <3>1, <3>2, SMTT(30) DEF Linked
    <3>4. \A c \in (stored[m] \cup {b}) \ {Base} : Parent[c] \in stored[m] \cup {b}
      BY <1>1, <1>2, <2>1, <3>1 DEF Linked
    <3>5. \A c \in stored[m] \cup {b} : \A h \in Height[Base] .. Height[c] :
            \E d \in stored[m] \cup {b} : Height[d] = h
      <4>1. ASSUME NEW h \in Height[Base] .. Height[b] PROVE \E d \in stored[m] \cup {b} : Height[d] = h
        <5>1. h = Height[b] \/ h \in Height[Base] .. Height[tip[m]]
          BY <1>3, <1>4, <2>1, <4>1
        <5> QED
          BY <1>1, <1>2, <3>1, <5>1 DEF Linked
      <4>2. \A c \in stored[m] : \A h \in Height[Base] .. Height[c] : \E d \in stored[m] : Height[d] = h
        BY <1>1, <3>1 DEF Linked
      <4> QED
        BY <4>1, <4>2, Zenon
    <3>6. \A c \in stored'[m] : Height[c] <= Height[tip'[m]]
      BY <1>4, <2>2, <3>2
    <3> QED
      BY <2>3, <3>1, <3>3, <3>4, <3>5, <3>6, Zenon DEF Linked
  <2>4. CASE b \in reimport[m] /\ reimport'[m] = reimport[m] \ {b}
    <3>1. Taken(m)' = Taken(m)
      BY <2>2, <2>4, Zenon DEF Taken
    <3>2. \A c \in stored'[m] : Height[c] <= Height[tip'[m]]
      BY <1>1, <1>3, <1>4, <2>1, <2>2 DEF Linked
    <3>3. ASSUME NEW c \in reimport'[m] PROVE Height[c] > Height[tip'[m]]
      <4>1. c \in reimport[m] /\ c # b /\ Height[c] > Height[tip[m]]
        BY <1>1, <2>4, Zenon DEF Linked
      <4>2. Height[c] # Height[b]
        BY <1>1, <2>4, <4>1, Zenon DEF Linked, Taken
      <4> QED
        BY <1>3, <1>4, <2>1, <2>2, <4>1, <4>2, SMTT(30)
    <3> QED
      BY <1>1, <2>2, <2>4, <3>1, <3>2, <3>3, SMTT(30) DEF Linked
  <2> QED
    BY <1>7, <2>3, <2>4, Zenon DEF Grows
<1>8. ASSUME Restarted(m) PROVE Linked(m)'
  <2>1. Taken(m)' = stored[m] /\ phase'[m] = "init"
    BY <1>2, <1>8, Zenon DEF Restarted, Taken
  <2>2. stored[m] \subseteq Taken(m)
    BY Zenon DEF Taken
  <2>3. ASSUME NEW c \in Taken(m), NEW b \in stored[m], Height[c] <= Height[b] PROVE c \in stored[m]
    <3>1. ASSUME c \in reimport[m] PROVE FALSE
      <4>1. Height[c] > Height[tip[m]] /\ Height[b] <= Height[tip[m]]
        BY <1>1, <3>1, Zenon DEF Linked
      <4>2. Height[c] \in Nat /\ Height[b] \in Nat /\ Height[tip[m]] \in Nat
        BY <1>3, <1>4, <3>1, Zenon
      <4> QED
        BY <2>3, <4>1, <4>2
    <3> QED
      BY <3>1, Zenon DEF Taken
  <2>4. \A b, c \in stored[m] : Height[b] = Height[c] => b = c
    BY <1>1, <2>2, Zenon DEF Linked
  <2>5. ASSUME NEW b \in stored[m] \ {Base} PROVE Parent[b] \in stored[m]
    <3>1. Parent[b] \in Taken(m)
      BY <1>1, <2>2, Zenon DEF Linked
    <3>2. Height[Parent[b]] <= Height[b]
      BY <1>3, BlockAssumption
    <3> QED
      BY <2>3, <3>1, <3>2, Zenon
  <2>6. ASSUME NEW b \in stored[m], NEW h \in Height[Base] .. Height[b]
        PROVE  \E d \in stored[m] : Height[d] = h
    <3>1. PICK d \in Taken(m) : Height[d] = h
      BY <1>1, <2>2, Zenon DEF Linked
    <3>2. Height[d] <= Height[b]
      BY <1>3, <1>4, <3>1
    <3> QED
      BY <2>3, <3>1, <3>2, Zenon
  <2>7. \A b \in stored'[m] : Height[b] <= Height[tip'[m]]
    BY <1>1, <1>4, <1>8 DEF Restarted, Linked
  <2>8. \A b \in reimport'[m] : Height[b] > Height[tip'[m]]
    BY <1>3, <1>8, BlockAssumption, Zenon DEF Restarted
  <2> QED
    BY <2>1, <2>4, <2>5, <2>6, <2>7, <2>8, SMTT(30) DEF Linked
<1> QED
  BY <1>5, <1>6, <1>7, <1>8, ChainCases, Zenon

(* What a step short of a restart does to the finalized height of m: nothing,
   or a proof for a stored block raises it. *)
Raised(m) ==
    \/ finalized'[m] = finalized[m]
    \/ \E b \in stored[m] \ {Base} :
        /\ finalized'[m] = Max2(finalized[m], Height[b])
        /\ \E q \in proofs'[m] : q[1] = b

(* persist_verified_finality does so. *)
LEMMA PersistRaises ==
    ASSUME TypeOK, NEW n \in Honest, NEW b \in stored[n] \ {Base}, NEW Q, NEW pool,
           PersistProof(n, b, Q, pool), NEW m \in Honest
    PROVE  Raised(m)
<1>1. /\ finalized' = [finalized EXCEPT ![n] = Max2(@, Height[b])]
      /\ proofs' = [proofs EXCEPT ![n] = {pf \in @ : Height[pf[1]] # Height[b]} \cup {<<b, Q>>}]
  BY Zenon DEF PersistProof
<1>2. CASE m # n
  BY <1>1, <1>2, Zenon DEF TypeOK, Raised
<1>3. CASE m = n
  <2>1. finalized'[m] = Max2(finalized[m], Height[b]) /\ <<b, Q>> \in proofs'[m]
    BY <1>1, <1>3, Zenon DEF TypeOK
  <2>2. <<b, Q>>[1] = b
    BY Zenon
  <2> QED
    BY <1>3, <2>1, <2>2, Zenon DEF Raised
<1> QED
  BY <1>2, <1>3, Zenon

(* So do a vote taken in and a certificate that finalizes a parent. *)
LEMMA IntakeRaises ==
    ASSUME TypeOK, NEW n \in Honest, NEW b \in Block, NEW v \in Validator, Intake(n, b, v), NEW m \in Honest
    PROVE  Raised(m)
<1> DEFINE pool == votes[n] \cup {<<v, "precommit", b>>}
           Q == {w \in Validator : <<w, "precommit", b>> \in pool}
<1>1. \/ UNCHANGED <<proofs, finalized>>
      \/ b \in stored[n] \ {Base} /\ PersistProof(n, b, Q, pool)
  BY Zenon DEF Intake
<1> HIDE DEF pool, Q
<1> QED
  BY <1>1, PersistRaises, Zenon DEF Raised

LEMMA FinalizeParentRaises ==
    ASSUME CertInv, NEW n \in Honest, NEW b \in Block, ImportOK(n, b), FinalizeParent(n, b), NEW m \in Honest
    PROVE  Raised(m)
<1>1. TypeOK /\ Parent[b] \in stored[n]
  BY Zenon DEF CertInv, ChainInv, ImportOK
<1>2. CASE UNCHANGED <<proofs, finalized>>
  BY <1>2, Zenon DEF Raised
<1>3. CASE Parent[b] # Base /\ PersistProof(n, Parent[b], header[b].commit, votes[n])
  BY <1>1, <1>3, PersistRaises, Zenon
<1> QED
  BY <1>2, <1>3, Zenon DEF FinalizeParent

(* Every step does so, begins an init or ends one. *)
LEMMA FinalizedCases ==
    ASSUME CertInv, [Next]_vars, NEW m \in Honest
    PROVE  Raised(m) \/ phase'[m] = "init" \/ Start(m)
<1> DEFINE Goal == Raised(m) \/ phase'[m] = "init" \/ Start(m)
<1>1. TypeOK /\ VoteInv
  BY Zenon DEF CertInv
<1>2. ASSUME finalized'[m] = finalized[m] PROVE Goal
  BY <1>2, Zenon DEF Raised
<1>3. ASSUME NEW n \in Honest, NEW b \in Block, Import(n, b) \/ ImportFails(n, b) \/ Reimport(n, b) PROVE Goal
  BY <1>3, FinalizeParentRaises, Zenon DEF Import, ImportFails, Reimport
<1>4. ASSUME NEW n \in Honest, ReplayProposal(n) PROVE Goal
  <2>1. PICK b \in Block : ImportOK(n, b) /\ FinalizeParent(n, b)
    BY <1>1, <1>4, Zenon DEF ReplayProposal, Pending, TypeOK
  <2> QED
    BY <2>1, FinalizeParentRaises, Zenon
<1>5. ASSUME NEW n \in Honest, NEW b \in Block, PullProof(n, b) PROVE Goal
  <2>1. b \in stored[n] \ {Base} /\ \E Q : PersistProof(n, b, Q, votes[n])
    BY <1>5, Zenon DEF PullProof, Unproved
  <2> QED
    BY <1>1, <2>1, PersistRaises, Zenon
<1>6. ASSUME NEW n \in Honest, NEW b \in Block, NEW t \in VoteType, Vote(n, b, t) PROVE Goal
  BY <1>1, <1>2, <1>6, IntakeRaises, Zenon DEF Vote, Validator
<1>7. ASSUME NEW n \in Honest, NEW b \in Block, NEW v \in Validator, Deliver(n, v, b) PROVE Goal
  BY <1>1, <1>7, IntakeRaises, Zenon DEF Deliver
<1>8. ASSUME NEW n \in Honest, NEW keep \in BOOLEAN, Restart(n, keep) PROVE Goal
  <2>1. /\ phase' = [phase EXCEPT ![n] = "init"]
        /\ finalized' = [finalized EXCEPT ![n] = 0]
    BY <1>8, Zenon DEF Restart
  <2> QED
    BY <1>1, <1>2, <2>1, Zenon DEF TypeOK
<1>9. ASSUME NEW n \in Honest, Start(n) PROVE Goal
  <2>1. PICK h : finalized' = [finalized EXCEPT ![n] = h]
    BY <1>9, Zenon DEF Start
  <2> QED
    BY <1>1, <1>2, <1>9, <2>1, Zenon DEF TypeOK
<1>10. ASSUME NEW n \in Honest, NEW b \in Block, Seal(n, b) \/ Revote(n, b) PROVE Goal
  BY <1>2, <1>10, Zenon DEF Seal, Revote
<1>11. ASSUME NEW n \in Honest, Append(n) \/ SealFails(n) PROVE Goal
  BY <1>2, <1>11, Zenon DEF Append, SealFails
<1>12. ASSUME NEW v \in Faulty, NEW b \in Block, FaultySign(v, b) PROVE Goal
  BY <1>2, <1>12, Zenon DEF FaultySign
<1>13. ASSUME NEW v \in Faulty, NEW b \in Block, NEW Q, FaultySeal(v, b, Q) PROVE Goal
  BY <1>2, <1>13, Zenon DEF FaultySeal
<1>14. ASSUME UNCHANGED vars PROVE Goal
  BY <1>2, <1>14, Zenon DEF vars
<1> HIDE DEF Goal
<1>15. Goal
  BY <1>3, <1>4, <1>5, <1>6, <1>7, <1>8, <1>9, <1>10, <1>11, <1>12, <1>13, <1>14 DEF Next, NodeNext, FaultyNext
<1> QED
  BY <1>15, Zenon DEF Goal

(* The end of init: the last key of finality_db, capped at the tip, is the
   height of a proof, and below the tip that proof is of the stored block. *)
LEMMA StartReported ==
    ASSUME CertInv, RecoveryInv, NEW m \in Honest, Start(m)
    PROVE  Reported(m)'
<1>1. /\ TypeOK /\ ProofInv /\ CertAgree /\ ProofsDense /\ Linked(m)
      /\ tip[m] \in stored[m] /\ Base \in stored[m]
      /\ \A b \in stored[m] \ {tip[m]} : Proved(m, b)
  BY Zenon DEF CertInv, RecoveryInv, ChainInv
<1>2. PICK h \in LastKey(m) : finalized' = [finalized EXCEPT ![m] = Min2(h, Height[tip[m]])]
  BY Zenon DEF Start
<1>3. finalized'[m] = Min2(h, Height[tip[m]]) /\ UNCHANGED <<stored, tip, proofs>> /\ reimport[m] = {}
  BY <1>1, <1>2, Zenon DEF Start, TypeOK, chainVars
<1>4. \A b \in Block : Height[b] \in Nat
  BY BlockAssumption, Zenon
<1>5. Base \in Block /\ tip[m] \in Block /\ stored[m] \subseteq Block
  BY <1>1, BlockAssumption, Zenon DEF TypeOK
<1>6. Height[Base] <= Height[tip[m]]
  BY <1>1, Zenon DEF Linked
<1>7. \A p \in proofs[m] : p[1] \in Block \ {Base}
  BY <1>1, SMTT(30) DEF ProofInv, TypeOK
<1> SUFFICES ASSUME finalized'[m] > Height[Base]
             PROVE  \E pf \in proofs[m] : /\ Height[pf[1]] = finalized'[m]
                                          /\ finalized'[m] <= Height[tip[m]]
                                          /\ pf[1] \in stored[m] \/ finalized'[m] = Height[tip[m]]
  BY <1>3, Zenon DEF Reported
<1>8. PICK p \in proofs[m] : h = Height[p[1]]
  <2>1. Height[tip[m]] \in Nat /\ Height[Base] \in Nat /\ h \in Nat
    BY <1>2, <1>4, <1>5, <1>7 DEF LastKey
  <2>2. h # 0
    BY <1>3, <2>1 DEF Min2
  <2> QED
    BY <1>2, <2>2, Zenon DEF LastKey
<1>9. h \in Nat /\ Height[tip[m]] \in Nat /\ Height[Base] \in Nat /\ h > Height[Base]
  BY <1>4, <1>5, <1>7, <1>8, BlockAssumption, Zenon
<1>10. CASE h < Height[tip[m]]
  <2>1. finalized'[m] = h
    BY <1>3, <1>9, <1>10, Zenon DEF Min2
  <2>2. PICK b \in stored[m] : Height[b] = h
    BY <1>1, <1>3, <1>9, <1>10, SMTT(30) DEF Linked, Taken
  <2>3. b # Base /\ b # tip[m]
    BY <1>9, <1>10, <2>2, SMTT(30)
  <2>4. PICK q \in proofs[m] : q[1] = b
    BY <1>1, <2>3, Zenon DEF Proved
  <2> QED
    BY <1>9, <1>10, <2>1, <2>2, <2>4
<1>11. CASE ~(h < Height[tip[m]])
  <2>1. finalized'[m] = Height[tip[m]] /\ Height[tip[m]] \in (Height[Base] + 1) .. h
    BY <1>3, <1>6, <1>9, <1>11 DEF Min2
  <2>2. PICK q \in proofs[m] : Height[q[1]] = Height[tip[m]]
    BY <1>1, <1>8, <2>1, Zenon DEF ProofsDense
  <2> QED
    BY <1>9, <2>1, <2>2
<1> QED
  BY <1>10, <1>11, Zenon

(* The height a running node reports stays proved.  When a block is appended
   to a tip that was only reported, its certificate proves that tip. *)
LEMMA ReportedStep ==
    ASSUME CertInv, RecoveryInv, CertInv', [Next]_vars, NEW m \in Honest
    PROVE  Reported(m)'
<1>1. /\ TypeOK /\ Linked(m) /\ Reported(m)
      /\ tip[m] \in stored[m] /\ Base \in stored[m]
  BY Zenon DEF CertInv, RecoveryInv, ChainInv
<1>2. TypeOK' /\ \A b \in stored'[m] \ {tip'[m]} : Proved(m, b)'
  BY Zenon DEF CertInv, ChainInv
<1>3. \A p \in proofs[m] : \E q \in proofs'[m] : q[1] = p[1]
  BY <1>2, ProofsKept, Zenon
<1>4. \A b \in Block : Height[b] \in Nat
  BY BlockAssumption, Zenon
<1>5. stored[m] \subseteq Block /\ tip[m] \in Block /\ Base \in Block /\ finalized[m] \in Nat
  BY <1>1, BlockAssumption, Zenon DEF TypeOK
<1>6. CASE Start(m)
  BY <1>6, StartReported, Zenon
<1>7. CASE Restarted(m) \/ phase'[m] = "init"
  BY <1>7, Zenon DEF Restarted, Reported
<1>8. ASSUME Raised(m), stored[m] \subseteq stored'[m], phase'[m] = phase[m], phase[m] = "run",
             \/ tip'[m] = tip[m]
             \/ /\ tip'[m] \in Block /\ Height[tip'[m]] = Height[tip[m]] + 1
                /\ tip[m] \in stored'[m] \ {tip'[m]}
      PROVE  Reported(m)'
  <2>1. Height[tip[m]] <= Height[tip'[m]] /\ Height[tip[m]] \in Nat /\ Height[tip'[m]] \in Nat
    BY <1>4, <1>5, <1>8
  <2>2. ASSUME NEW b \in stored[m], finalized'[m] = Height[b], NEW q \in proofs'[m], q[1] = b
        PROVE  Reported(m)'
    <3>1. Height[b] <= Height[tip'[m]]
      BY <1>1, <1>4, <1>5, <2>1 DEF Linked
    <3> QED
      BY <1>8, <2>2, <3>1, Zenon DEF Reported
  <2>3. ASSUME finalized'[m] = finalized[m], finalized[m] > Height[Base] PROVE Reported(m)'
    <3>1. PICK pf \in proofs[m] :
            /\ Height[pf[1]] = finalized[m]
            /\ finalized[m] <= Height[tip[m]]
            /\ pf[1] \in stored[m] \/ finalized[m] = Height[tip[m]]
      BY <1>1, <1>8, <2>3, Zenon DEF Reported
    <3>2. PICK q \in proofs'[m] : q[1] = pf[1]
      BY <1>3, Zenon
    <3>3. CASE pf[1] \in stored[m]
      BY <2>2, <2>3, <3>1, <3>2, <3>3, Zenon
    <3>4. CASE finalized[m] = Height[tip[m]] /\ tip'[m] = tip[m]
      BY <2>1, <2>3, <3>1, <3>2, <3>4, Zenon DEF Reported
    <3>5. CASE finalized[m] = Height[tip[m]] /\ tip[m] \in stored'[m] \ {tip'[m]}
      <4>1. PICK r \in proofs'[m] : r[1] = tip[m]
        <5>1. PICK c : c = tip[m]
          BY Zenon
        <5>2. Proved(m, c)'
          BY <1>2, <3>5, <5>1, Zenon
        <5>3. c # Base
          BY <1>4, <1>5, <2>3, <3>5, <5>1
        <5> QED
          BY <5>1, <5>2, <5>3, Zenon DEF Proved
      <4> QED
        BY <1>1, <2>2, <2>3, <3>5, <4>1, Zenon
    <3> QED
      BY <1>8, <3>1, <3>3, <3>4, <3>5, Zenon
  <2>4. ASSUME NEW b \in stored[m] \ {Base}, finalized'[m] = Max2(finalized[m], Height[b]),
               NEW q \in proofs'[m], q[1] = b
        PROVE  Reported(m)'
    <3>1. CASE finalized'[m] = Height[b]
      BY <2>2, <2>4, <3>1, Zenon
    <3>2. CASE finalized'[m] = finalized[m] /\ finalized[m] > Height[b]
      <4>1. Height[b] > Height[Base] /\ Height[b] \in Nat /\ Height[Base] \in Nat
        BY <1>4, <1>5, BlockAssumption, Zenon
      <4> QED
        BY <1>5, <2>3, <3>2, <4>1
    <3> QED
      BY <2>4, <3>1, <3>2, Zenon DEF Max2
  <2>5. CASE finalized'[m] = finalized[m] /\ ~(finalized[m] > Height[Base])
    BY <2>5, Zenon DEF Reported
  <2> QED
    BY <1>8, <2>3, <2>4, <2>5, Zenon DEF Raised
<1>9. CASE Raised(m) /\ Rests(m) /\ phase'[m] = phase[m]
  <2>1. CASE phase[m] = "run"
    BY <1>8, <1>9, <2>1, Zenon DEF Rests
  <2>2. CASE phase[m] # "run"
    BY <1>9, <2>2, Zenon DEF Reported
  <2> QED
    BY <2>1, <2>2, Zenon
<1>10. ASSUME Raised(m), NEW b \in Block, Grows(m, b) PROVE Reported(m)'
  <2>1. /\ Height[b] = Height[tip[m]] + 1 /\ tip'[m] = b
        /\ stored'[m] = stored[m] \cup {b} /\ phase'[m] = phase[m]
    BY <1>10, BlockAssumption, Zenon DEF Grows
  <2>2. tip[m] # b
    BY <1>4, <1>5, <2>1
  <2>3. CASE phase[m] = "run"
    BY <1>1, <1>8, <1>10, <2>1, <2>2, <2>3, Zenon
  <2>4. CASE phase[m] # "run"
    BY <2>1, <2>4, Zenon DEF Reported
  <2> QED
    BY <2>3, <2>4, Zenon
<1> QED
  BY <1>6, <1>7, <1>9, <1>10, ChainCases, FinalizedCases, Zenon

(* The invariant of recovery holds throughout. *)
LEMMA RecoveryInvariant == Spec => [](CertInv /\ RecoveryInv)
<1>1. Init => CertInv /\ RecoveryInv
  <2> SUFFICES ASSUME Init PROVE RecoveryInv
    BY InitCertInv, Zenon
  <2>1. \A n \in Honest : Taken(n) = {Base} /\ tip[n] = Base /\ stored[n] = {Base} /\ reimport[n] = {}
    BY Zenon DEF Init, Taken
  <2>2. Height[Base] \in Nat
    BY BlockAssumption, Zenon
  <2>3. TakenSound
    BY <2>1, Zenon DEF Init, TakenSound
  <2>4. ASSUME NEW n \in Honest PROVE Linked(n)
    <3>1. Taken(n) = {Base} /\ tip[n] = Base /\ stored[n] = {Base} /\ reimport[n] = {}
      BY <2>1, Zenon
    <3>2. \A h \in Height[Base] .. Height[Base] : h = Height[Base]
      BY <2>2
    <3>3. Height[Base] <= Height[Base]
      BY <2>2
    <3>4. \A b \in Taken(n) : \A h \in Height[Base] .. Height[b] : \E d \in Taken(n) : Height[d] = h
      BY <3>1, <3>2, Zenon
    <3>5. \A b \in stored[n] : Height[b] <= Height[tip[n]]
      BY <3>1, <3>3, Zenon
    <3> QED
      BY <3>1, <3>4, <3>5, Zenon DEF Linked
  <2>5. \A n \in Honest : Reported(n)
    BY <2>2 DEF Init, Reported
  <2> QED
    BY <2>3, <2>4, <2>5, Zenon DEF RecoveryInv
<1>2. CertInv /\ RecoveryInv /\ [Next]_vars => (CertInv /\ RecoveryInv)'
  <2> SUFFICES ASSUME CertInv, RecoveryInv, [Next]_vars PROVE (CertInv /\ RecoveryInv)'
    BY Zenon
  <2>1. CertInv'
    BY NextCertInv, Zenon
  <2>2. TakenSound' /\ \A m \in Honest : Linked(m)' /\ Reported(m)'
    BY <2>1, SoundStep, LinkedStep, ReportedStep, Zenon
  <2> QED
    BY <2>1, <2>2, Zenon DEF RecoveryInv
<1> QED
  BY <1>1, <1>2, PTL DEF Spec

(* Whatever blocks recover_from_history holds, the next one passes
   import_block: no sequence of crashes makes init fail. *)
THEOREM RecoveryGoesOn == Spec => []RecoveryNeverSticks
<1>1. CertInv /\ RecoveryInv => RecoveryNeverSticks
  <2> SUFFICES ASSUME CertInv, RecoveryInv, NEW n \in Honest, reimport[n] # {}
               PROVE  \E b \in reimport[n] : ImportOK(n, b)
    BY Zenon DEF RecoveryNeverSticks
  <2>1. TypeOK /\ ProposalInv /\ TakenSound /\ Linked(n) /\ tip[n] \in stored[n] /\ Base \in stored[n]
    BY Zenon DEF CertInv, RecoveryInv, ChainInv
  <2>2. stored[n] \subseteq Block /\ reimport[n] \subseteq Block /\ \A b \in Block : Height[b] \in Nat
    BY <2>1, BlockAssumption, Zenon DEF TypeOK
  <2>3. PICK c \in reimport[n] : TRUE
    BY Zenon
  <2>4. Height[tip[n]] + 1 \in Height[Base] .. Height[c]
    BY <2>1, <2>2 DEF Linked
  <2>5. PICK d \in Taken(n) : Height[d] = Height[tip[n]] + 1
    BY <2>1, <2>3, <2>4, Zenon DEF Linked, Taken
  <2>6. d \notin stored[n]
    BY <2>1, <2>2, <2>5 DEF Linked
  <2>7. d \in reimport[n] /\ d # Base
    BY <2>1, <2>5, <2>6, Zenon DEF Taken
  <2>8. Parent[d] = tip[n]
    <3>1. Height[Parent[d]] = Height[tip[n]]
      BY <2>1, <2>2, <2>5, <2>7, BlockAssumption
    <3> QED
      BY <2>1, <2>5, <2>7, <3>1, Zenon DEF Linked, Taken
  <2>9. Sound(d) /\ header[d] # None
    BY <2>1, <2>5, <2>7, Zenon DEF TakenSound, Sound, ProposalInv
  <2> QED
    BY <2>7, <2>8, <2>9, Zenon DEF ImportOK, Sound
<1> QED
  BY <1>1, RecoveryInvariant, PTL

(* The finalized height a running node reports has a proof that verifies, and
   below the tip it is that of the block stored there. *)
THEOREM ReportedHeightIsProved == Spec => []FinalizedIsProved
<1>1. CertInv /\ RecoveryInv => FinalizedIsProved
  BY Zenon DEF CertInv, ProofInv, RecoveryInv, Reported, FinalizedIsProved
<1> QED
  BY <1>1, RecoveryInvariant, PTL

(* After a step, the parent of every block of a chain was in the chain before. *)
LEMMA ParentWasStored ==
    ASSUME CertInv, RecoveryInv, [Next]_vars, NEW n \in Honest, NEW b \in stored'[n] \ {Base}
    PROVE  b \in Block /\ Parent[b] \in stored[n]
<1>1. TypeOK /\ Linked(n) /\ tip[n] \in stored[n] /\ Base \in stored[n]
  BY Zenon DEF CertInv, RecoveryInv, ChainInv
<1>2. stored[n] \subseteq Block /\ reimport[n] \subseteq Block /\ tip[n] \in Block
  BY <1>1, Zenon DEF TypeOK
<1>3. CASE b \in stored[n]
  <2>1. Parent[b] \in Taken(n)
    BY <1>1, <1>3, Zenon DEF Linked, Taken
  <2>2. Height[Parent[b]] < Height[b] /\ Height[b] <= Height[tip[n]]
    BY <1>1, <1>2, <1>3, BlockAssumption DEF Linked
  <2>3. Parent[b] \notin reimport[n]
    BY <1>1, <1>2, <1>3, <2>2, BlockAssumption DEF Linked
  <2> QED
    BY <1>2, <1>3, <2>1, <2>3, Zenon DEF Taken
<1>4. ASSUME NEW x \in Block, Grows(n, x), b \notin stored[n] PROVE b \in Block /\ Parent[b] \in stored[n]
  BY <1>1, <1>4, Zenon DEF Grows
<1>5. ASSUME Rests(n) \/ Restarted(n) \/ Start(n) PROVE b \in stored[n]
  BY <1>1, <1>5, Zenon DEF Rests, Restarted, Start, chainVars
<1> QED
  BY <1>3, <1>4, <1>5, ChainCases, Zenon

(* Where no faulty validator is ever designated, no node is left on a block
   that the others do not have: the chains of all nodes are parts of one. *)
THEOREM HonestProposersMakeOneChain ==
    ASSUME \A p \in Block : Proposer[p] \notin Faulty
    PROVE  Spec => []OneChain
<1>1. Init => OneChain
  BY DEF Init, OneChain
<1>2. CertInv /\ RecoveryInv /\ (CertInv /\ RecoveryInv)' /\ OneChain /\ [Next]_vars => OneChain'
  <2> SUFFICES ASSUME CertInv, RecoveryInv, CertInv', RecoveryInv', OneChain, [Next]_vars,
                      NEW n \in Honest, NEW m \in Honest,
                      NEW b \in stored'[n], NEW c \in stored'[m], Height[b] = Height[c]
               PROVE  b = c
    BY Zenon DEF OneChain
  <2>1. TypeOK' /\ ProposalInv' /\ TakenSound'
    BY Zenon DEF CertInv, RecoveryInv
  <2>2. b \in Block /\ c \in Block
    BY <2>1, Zenon DEF TypeOK
  <2>3. CASE b = Base \/ c = Base
    BY <2>2, <2>3, BlockAssumption
  <2>4. CASE b # Base /\ c # Base
    <3>1. Parent[b] \in stored[n] /\ Parent[c] \in stored[m]
      BY <2>4, ParentWasStored, Zenon
    <3>2. Height[Parent[b]] = Height[Parent[c]]
      BY <2>2, <2>4, BlockAssumption
    <3>3. Parent[b] = Parent[c]
      BY <3>1, <3>2 DEF OneChain
    <3>4. Sound(b)' /\ Sound(c)'
      BY <2>1, <2>4, Zenon DEF TakenSound, Taken
    <3>5. header'[b].by = header'[c].by /\ header'[b].by \in Honest /\ header'[b] # None /\ header'[c] # None
      <4>1. header'[b].by = Proposer[Parent[b]] /\ header'[c].by = Proposer[Parent[c]]
        BY <3>4, Zenon DEF Sound
      <4>2. header'[b] # None /\ header'[c] # None
        BY <2>1, <3>4, Zenon DEF Sound, ProposalInv
      <4>3. header'[b].by \in Validator
        BY <2>1, <2>2, <4>2, Zenon DEF TypeOK
      <4> QED
        BY <2>2, <3>3, <4>1, <4>2, <4>3, BlockAssumption, Zenon DEF Validator
    <3>6. b \in proposals'[header'[b].by] /\ c \in proposals'[header'[b].by]
      BY <2>1, <2>2, <3>5, Zenon DEF ProposalInv
    <3> QED
      BY <2>1, <3>3, <3>5, <3>6 DEF ProposalInv
  <2> QED
    BY <2>3, <2>4, Zenon
<1> QED
  BY <1>1, <1>2, RecoveryInvariant, PTL DEF Spec

(* A certificate that verifies at a node verifies at a client with the set of
   its height: a set that can reach its quorum is not empty. *)
LEMMA ProofConvincesClient ==
    ASSUME NEW b \in Block, NEW Q \in SUBSET Validator, VerifyProof(b, Q)
    PROVE  VerifyFinalityCertificate(b, Parent[b], [block |-> b, votes |-> Q, totals |-> TRUE])
<1>1. Parent[b] \in Block
  BY BlockAssumption, Zenon
<1>2. /\ IsFiniteSet(Units(Parent[b], Validator))
      /\ Units(Parent[b], Q) \subseteq Units(Parent[b], Validator)
      /\ Weight(Parent[b], Q) \in Nat /\ Weight(Parent[b], Validator) \in Nat
  BY <1>1, UnitsFinite, Zenon
<1>3. Weight(Parent[b], Q) <= Weight(Parent[b], Validator)
  BY <1>2, FS_Subset, Zenon DEF Weight
<1>4. Weight(Parent[b], Validator) > 0
  BY <1>2, <1>3 DEF VerifyProof, Quorum
<1> QED
  BY <1>4, Zenon DEF VerifyProof, VerifyFinalityCertificate

(* What honest nodes hand out as the certificate of a block verifies. *)
LEMMA HonestCertificates ==
    ASSUME CertInv, RecoveryInv, Faulty = {}, NEW m \in Honest, NEW b \in stored[m],
           NEW N \in SUBSET Honest, NEW cert \in Certificates(N, m, b), cert # None
    PROVE  VerifyFinalityCertificate(b, Parent[b], cert)
<1>1. TypeOK /\ ProofInv /\ ProposalInv /\ TakenSound /\ b \in Block
  BY Zenon DEF CertInv, RecoveryInv, TypeOK
<1>2. ASSUME cert \in NextCommits(m, b) PROVE VerifyFinalityCertificate(b, Parent[b], cert)
  <2>1. PICK c \in stored[m] \ {Base} :
          /\ Parent[c] = b /\ b # Base
          /\ cert = [block |-> b, votes |-> header[c].commit, totals |-> TRUE]
    BY <1>2, Zenon DEF NextCommits
  <2>2. Sound(c) /\ c \in Block
    BY <1>1, <2>1, Zenon DEF TakenSound, Taken, TypeOK
  <2>3. VerifyProof(b, header[c].commit)
    BY <2>1, <2>2, Zenon DEF Sound, CommitOK
  <2>4. header[c] # None
    BY <1>1, <2>2, Zenon DEF Sound, ProposalInv
  <2>5. header[c].commit \in SUBSET Validator
    BY <1>1, <2>2, <2>4, Zenon DEF TypeOK
  <2> QED
    BY <1>1, <2>1, <2>3, <2>5, ProofConvincesClient, Zenon
<1>3. ASSUME NEW n \in Honest, cert \in FinalityAnswers(n, b) PROVE VerifyFinalityCertificate(b, Parent[b], cert)
  <2>1. PICK Q \in Served(n, b) : cert = [block |-> b, votes |-> Q, totals |-> TRUE]
    BY <1>3, Zenon DEF FinalityAnswers
  <2>2. PICK pf \in proofs[n] : pf[1] = b /\ pf[2] = Q
    BY <2>1, Zenon DEF Served
  <2>3. VerifyProof(b, Q) /\ Q \in SUBSET Validator
    BY <1>1, <2>2 DEF ProofInv, TypeOK
  <2> QED
    BY <1>1, <2>1, <2>3, ProofConvincesClient, Zenon
<1>4. cert \in NextCommits(m, b) \/ \E n \in Honest : cert \in FinalityAnswers(n, b)
  BY Zenon DEF Certificates
<1> QED
  BY <1>2, <1>3, <1>4, Zenon

(* Honest nodes alone never make a client report invalid data. *)
THEOREM HonestNodesNeverAlarmClients == Spec => []ClientNotAlarmed
<1>1. CASE Faulty # {}
  <2>1. ClientNotAlarmed
    BY <1>1, Zenon DEF ClientNotAlarmed
  <2> QED
    BY <2>1, PTL
<1>2. CASE Faulty = {}
  <2>1. Spec => []OneChain
    BY <1>2, HonestProposersMakeOneChain, Zenon
  <2>2. CertInv /\ RecoveryInv /\ OneChain => ClientNotAlarmed
    <3> SUFFICES ASSUME CertInv, RecoveryInv, OneChain,
                        NEW m \in Honest, NEW b \in stored[m], NEW N \in Asked(m),
                        NEW q \in Queries(N, m, b, Parent[b])
                 PROVE  VerifyTxFinalized(q) # "invalid"
      BY Zenon DEF ClientNotAlarmed
    <3>1. TypeOK /\ ProposalInv /\ TakenSound /\ b \in Block
      BY Zenon DEF CertInv, RecoveryInv, TypeOK
    <3>2. N \in SUBSET Honest
      BY <1>2, Zenon DEF Asked, Validator
    <3>3. /\ q.nodes = N /\ q.primary = m /\ q.height = Height[b] /\ q.block = b
          /\ q.set = Parent[b] /\ q.cert \in Certificates(N, m, b)
          /\ \A n \in N \ {m} : q.answer[n] = CHOOSE y \in BlockAnswers(n, Height[b]) : TRUE
      BY <1>2, <3>2, SMTT(30) DEF Queries
    <3>4. VerifyBlock(b, Height[b])
      BY <3>1, Zenon DEF VerifyBlock, TakenSound, Taken, Sound, ProposalInv
    <3>5. q.cert # None => VerifyFinalityCertificate(b, Parent[b], q.cert)
      BY <1>2, <3>2, <3>3, HonestCertificates, Zenon
    <3>6. ~Conflict(q)
      <4>1. ASSUME NEW n \in N \ {m} PROVE q.answer[n] \in BlockAnswers(n, Height[b])
        <5>1. BlockAnswers(n, Height[b]) # {}
          BY <1>2, Zenon DEF BlockAnswers
        <5> QED
          BY <3>3, <5>1, Zenon
      <4>2. ASSUME NEW n \in N \ {m}, q.answer[n] # None PROVE q.answer[n] = b
        <5>1. q.answer[n] \in stored[n] /\ Height[q.answer[n]] = Height[b]
          BY <1>2, <4>1, <4>2, Zenon DEF BlockAnswers
        <5> QED
          BY <3>2, <5>1, Zenon DEF OneChain
      <4> QED
        BY <3>3, <4>2, Zenon DEF Conflict
    <3>7. q.block # None
      BY <3>1, <3>3, NoneAssumption, Zenon
    <3> QED
      BY <3>3, <3>4, <3>5, <3>6, <3>7, Zenon DEF VerifyTxFinalized
  <2> QED
    BY <2>1, <2>2, RecoveryInvariant, PTL
<1> QED
  BY <1>1, <1>2, Zenon

=============================================================================
