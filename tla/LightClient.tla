----------------------------- MODULE LightClient -----------------------------
(***************************************************************************)
(* The light client (packages/core/src/finality-verify.ts): a program that *)
(* runs no node asks some nodes for a transaction's block, for the         *)
(* certificate of the block and for the block again at every other node,   *)
(* checks hashes, signatures and stake itself, and reports a status.       *)
(*                                                                         *)
(* It keeps no state, so a call is a function of the answers it is given.  *)
(* Queries are the answers the network of FinalityV2 can give: an honest   *)
(* node answers from its stores, a faulty one with anything.  A block      *)
(* stands for its recomputed hash: one that nobody sealed has no valid     *)
(* proposer signature.  The answers of one call are those of one moment.   *)
(***************************************************************************)
EXTENDS FinalityV2

(* /api/finality/:height and the parent_commit of a header: the block the  *)
(* certificate names, the votes in it, and whether the totals written      *)
(* beside them are the sums of those votes and of the set.                 *)
Certificate == [block : Block, votes : SUBSET Validator, totals : BOOLEAN]

(* The quorum left to the node: any vote of a member will do. *)
VerifyFinalityCertificateAnyVote(b, p, cert) ==
    /\ cert.block = b
    /\ Weight(p, Validator) > 0
    /\ \A v \in cert.votes : <<v, "precommit", b>> \in signed /\ Stake[p][v] > 0
    /\ cert.votes # {}
    /\ Parent[b] = p => cert.totals

(* verifyFinalityCertificate against the set for the height after p: every *)
(* vote is a signed precommit for b by a member, and together they reach   *)
(* the quorum.  The totals count only against the set for b's own height.  *)
VerifyFinalityCertificate(b, p, cert) ==
    /\ cert.block = b
    /\ Weight(p, Validator) > 0
    /\ \A v \in cert.votes : <<v, "precommit", b>> \in signed /\ Stake[p][v] > 0
    /\ Weight(p, cert.votes) >= Quorum(p)
    /\ Parent[b] = p => cert.totals

(* verifyBlock: the block of the height asked for, signed by its proposer. *)
VerifyBlock(b, h) == Height[b] = h /\ (b = Base \/ header[b] # None)

(* A node that has no block at the height yet taken for a disagreement. *)
ConflictOrSilent(q) == \E n \in q.nodes \ {q.primary} : q.answer[n] # q.block

(* Another node serves a different block at the height; no block, or one   *)
(* of another height, is no answer.                                        *)
Conflict(q) ==
    \E n \in q.nodes \ {q.primary} :
        q.answer[n] \notin {None, q.block} /\ Height[q.answer[n]] = q.height

Agreeing(q) == {n \in q.nodes : n = q.primary \/ q.answer[n] = q.block}

(* More than half of the nodes asked, the primary among them. *)
Majority(q) == Cardinality(q.nodes) \div 2 + 1

(* verifyTxFinalized: the early returns, in their order.                   *)
VerifyTxFinalized(q) ==
    IF q.block = None THEN "not-found"
    ELSE IF ~VerifyBlock(q.block, q.height) THEN "invalid"
    ELSE IF ~q.holds THEN "not-found"
    ELSE IF q.cert = None \/ q.set = None THEN "included-not-finalized"
    ELSE IF ~VerifyFinalityCertificate(q.block, q.set, q.cert) THEN "invalid"
    ELSE IF Conflict(q) THEN "invalid"
    ELSE IF Cardinality(Agreeing(q)) < Majority(q) \/ ~q.deep
         THEN "included-not-finalized"
    ELSE "finalized"

-----------------------------------------------------------------------------
(* The answers.                                                            *)

(* /api/blocks?from_height=h of node n. *)
BlockAnswers(n, h) ==
    IF n \in Faulty THEN Block \cup {None}
    ELSE IF phase[n] = "run" /\ \E b \in stored[n] : Height[b] = h
         THEN {b \in stored[n] : Height[b] = h}
         ELSE {None}

(* The parent_commit of the block that n serves after b. *)
NextCommits(n, b) ==
    IF n \in Faulty THEN Certificate \cup {None}
    ELSE {[block |-> b, votes |-> header[c].commit, totals |-> TRUE] :
              c \in {x \in stored[n] \ {Base} : phase[n] = "run" /\ Parent[x] = b /\ b # Base}}

(* /api/finality/:height of node n. *)
FinalityAnswers(n, b) ==
    IF n \in Faulty THEN Certificate
    ELSE {[block |-> b, votes |-> Q, totals |-> TRUE] :
              Q \in IF phase[n] = "run" THEN Served(n, b) ELSE {}}

(* The header of the next block only. *)
CertificatesNext(N, m, b) ==
    IF NextCommits(m, b) # {} THEN NextCommits(m, b) ELSE {None}

(* Where the certificate comes from: the next block of the primary m, else *)
(* the first node that serves one, m before the others of N.               *)
Certificates(N, m, b) ==
    LET others == UNION {FinalityAnswers(n, b) : n \in N \ {m}}
    IN  IF NextCommits(m, b) # {} THEN NextCommits(m, b)
        ELSE IF FinalityAnswers(m, b) # {} THEN FinalityAnswers(m, b)
        ELSE IF \E n \in N \cap Honest : FinalityAnswers(n, b) # {} THEN others
        ELSE others \cup {None}

(* The calls about a block b that m serves, N being the nodes asked and p  *)
(* the pinned validator set.                                               *)
Queries(N, m, b, p) ==
    {[nodes |-> N, primary |-> m, height |-> Height[b], block |-> b, set |-> p,
      cert |-> c, answer |-> a, holds |-> TRUE, deep |-> TRUE] :
        c \in Certificates(N, m, b),
        a \in {[n \in N \ {m} |-> IF n \in Faulty THEN x[n]
                                ELSE CHOOSE y \in BlockAnswers(n, Height[b]) : TRUE] :
                x \in [(N \ {m}) \cap Faulty -> Block \cup {None}]}}

(* The nodes given to the call: m alone, or all. *)
Asked(m) == {{m}, Validator}

(* Some call about b ends in finalized. *)
Accepts(b) ==
    VerifyBlock(b, Height[b]) /\ \E m \in Validator : b \in BlockAnswers(m, Height[b]) /\
        \E N \in Asked(m) : \E q \in Queries(N, m, b, Parent[b]) :
            VerifyTxFinalized(q) = "finalized"

-----------------------------------------------------------------------------
(* Properties.                                                             *)

(* Whoever is asked, and whatever the faulty nodes answer: with the set of *)
(* the block's height pinned, verifyTxFinalized never reports a block as   *)
(* finalized while an honest node holds the proof of another block of that *)
(* height.                                                                 *)
ClientSound ==
    \A b \in Block \ {Base} :
        (\E n \in Honest : \E pf \in proofs[n] : pf[1] # b /\ Height[pf[1]] = Height[b])
            => ~Accepts(b)

(* Honest nodes alone never make the client report invalid, in the middle  *)
(* of a restart or of a recovery, with a block at only some of them, or    *)
(* with a certificate that only the next header or one node has.           *)
ClientNotAlarmed ==
    Faulty = {} => \A m \in Honest : \A b \in stored[m] : \A N \in Asked(m) :
        b \in BlockAnswers(m, Height[b]) =>
            \A q \in Queries(N, m, b, Parent[b]) : VerifyTxFinalized(q) # "invalid"

(* In the end a client that asks every node is told of a block of the last *)
(* height that it is finalized, whichever node it asks first.              *)
ClientConfirms ==
    \A m \in Honest : <>[](\E b \in Top : b \in BlockAnswers(m, Height[b]) /\
        \A q \in Queries(Validator, m, b, Parent[b]) : VerifyTxFinalized(q) = "finalized")

=============================================================================
