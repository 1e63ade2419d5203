------------------------- MODULE BlockImportProofs -------------------------
(***************************************************************************)
(* Proofs about block import, production and recovery, for one caller at a *)
(* time and any blocks, heights, fault kinds and number of faults.         *)
(*                                                                         *)
(* LinkInv holds under every fault: the chain is linked up to its tip, the *)
(* block of a call extends the tip until it is stored, and the blocks      *)
(* recovery has still to import ascend above it.                           *)
(* ImportInv holds under the faults the code recovers from: where each     *)
(* copy of the state stands by how far the call has come, which blocks the *)
(* snapshot is right about, header roots and the tx-seen index.            *)
(* RecordInv holds when recoveries are not cut short either: the blocks    *)
(* ahead are acceptable again, so the recorded validator sets stay right.  *)
(***************************************************************************)
EXTENDS BlockImport, TLAPS

(* Before the block of a call can have become part of the chain. *)
Open == {"rules", "capture", "apply", "root", "vals", "append"}
(* After it has. *)
Done == {"record", "vote", "save"}

(* The stored chain reaches up to some height without a gap. *)
Dense == \E n \in 0 .. MaxHeight : \A h \in Heights : (chain[h] # None) <=> h <= n

(* What a call knows about the chain: its block extends the tip until it is
   appended, and is the tip afterwards. *)
CallOnTip ==
  LET c == call[Miner] IN
  /\ c.pc \in Open => c.blk # Base /\ Parent[c.blk] = Tip
  /\ c.pc \in Done => c.blk # Base /\ c.blk = Tip

(* Nothing is being worked on while init loads or rebuilds the index, and
   only recovery has a queue: ascending blocks above what it has done. *)
Booting ==
  /\ phase \in {"load", "index", "pending"} => call[Miner].pc = "idle"
  /\ call[Miner].kind = "mine" /\ call[Miner].pc # "idle" => phase = "run" /\ call[Miner].blk \in Own
  /\ phase # "recover" => queue = << >>
  /\ \A i \in 1 .. Len(queue) :
       /\ queue[i] # Base
       /\ Height[queue[i]] > TipHeight
       /\ call[Miner].pc \in Open => Height[queue[i]] > Height[call[Miner].blk]
       /\ \A j \in 1 .. i - 1 : Height[queue[j]] < Height[queue[i]]

LinkInv == TypeOK /\ Dense /\ ChainIsLinked /\ CallOnTip /\ Booting

-----------------------------------------------------------------------------
(* The tip                                                                 *)

(* A chain without gaps that reaches up to n has its greatest height there. *)
LEMMA Greatest ==
  ASSUME NEW ch, NEW n \in 0 .. MaxHeight, \A h \in Heights : (ch[h] # None) <=> h <= n
  PROVE  n = IF \A h \in Heights : ch[h] = None THEN 0
             ELSE CHOOSE h \in Heights : /\ ch[h] # None
                                         /\ \A g \in Heights : g > h => ch[g] = None
<1>0. MaxHeight \in Nat
  BY BlockAssumption, Zenon
<1>1. CASE n = 0
  BY <1>0, <1>1 DEF Heights
<1>2. CASE n # 0
  <2>1. n \in Heights /\ ch[n] # None
    BY <1>0, <1>2 DEF Heights
  <2>2. \A h \in Heights : (ch[h] # None /\ \A g \in Heights : g > h => ch[g] = None) <=> h = n
    BY <1>0, <2>1 DEF Heights
  <2> QED
    BY Zenon, <2>1, <2>2
<1> QED
  BY <1>1, <1>2, Zenon

(* So every chain of the invariant has a tip. *)
LEMMA TipFacts ==
  ASSUME TypeOK, Dense, ChainIsLinked
  PROVE  /\ TipHeight \in 0 .. MaxHeight
         /\ Tip \in Block /\ Height[Tip] = TipHeight
         /\ Tip = IF TipHeight = 0 THEN Base ELSE chain[TipHeight]
         /\ \A h \in Heights : (chain[h] # None) <=> h <= TipHeight
<1>1. PICK n \in 0 .. MaxHeight : \A h \in Heights : (chain[h] # None) <=> h <= n
  BY Zenon DEF Dense
<1>2. TipHeight = n
  BY <1>1, Greatest, Zenon DEF TipHeight
<1>3. n # 0 => chain[n] \in Block /\ Height[chain[n]] = n
  BY <1>1, BlockAssumption DEF TypeOK, ChainIsLinked, Heights
<1> QED
  BY <1>1, <1>2, <1>3, BlockAssumption, Zenon DEF Tip

(* TipHeight and Tip depend on the chain alone. *)
LEMMA TipKept ==
  ASSUME chain' = chain
  PROVE  TipHeight' = TipHeight /\ Tip' = Tip
<1>1. TipHeight' = TipHeight
  BY DEF TipHeight
<1> QED
  BY <1>1, Zenon DEF Tip

(* A block on the tip is stored one above it, and becomes the tip. *)
LEMMA Appended ==
  ASSUME TypeOK, TypeOK', Dense, ChainIsLinked, NEW b \in Block \ {Base}, Parent[b] = Tip,
         chain' = [chain EXCEPT ![Height[b]] = b]
  PROVE  /\ Dense' /\ ChainIsLinked'
         /\ Height[b] = TipHeight + 1 /\ Height[b] \in Heights
         /\ chain[Height[b]] = None /\ chain'[Height[b]] = b
         /\ TipHeight' = TipHeight + 1 /\ Tip' = b
<1>0. MaxHeight \in Nat /\ None \notin Block
  BY BlockAssumption, Zenon
<1>1. /\ TipHeight \in 0 .. MaxHeight /\ Height[Tip] = TipHeight
      /\ Tip = IF TipHeight = 0 THEN Base ELSE chain[TipHeight]
      /\ \A h \in Heights : (chain[h] # None) <=> h <= TipHeight
  BY TipFacts, Zenon
<1>2. Height[b] = TipHeight + 1 /\ Height[b] \in Heights
  BY <1>0, <1>1, BlockAssumption DEF Heights
<1>3. chain[Height[b]] = None /\ chain'[Height[b]] = b
  BY <1>0, <1>1, <1>2 DEF TypeOK
<1>4. \A h \in Heights : (chain'[h] # None) <=> h <= TipHeight + 1
  BY <1>0, <1>1, <1>2 DEF TypeOK, Heights
<1>5. ChainIsLinked'
  <2> SUFFICES ASSUME NEW h \in Heights, chain'[h] # None
               PROVE  /\ Height[chain'[h]] = h
                      /\ Parent[chain'[h]] = IF h = 1 THEN Base ELSE chain'[h - 1]
    BY Zenon DEF ChainIsLinked
  <2>1. CASE h = Height[b]
    BY <1>0, <1>1, <1>2, <2>1 DEF TypeOK, Heights
  <2>2. CASE h # Height[b]
    <3>1. chain'[h] = chain[h] /\ h <= TipHeight
      BY <1>0, <1>1, <1>2, <1>4, <2>2, Zenon DEF TypeOK, Heights
    <3>2. h # 1 => chain'[h - 1] = chain[h - 1]
      BY <1>0, <1>1, <1>2, <3>1 DEF TypeOK, Heights
    <3> QED
      BY <3>1, <3>2, Zenon DEF ChainIsLinked
  <2> QED
    BY <2>1, <2>2, Zenon
<1>6. TipHeight + 1 \in 0 .. MaxHeight
  BY <1>0, <1>2 DEF Heights
<1>7. Dense'
  BY <1>4, <1>6, Zenon DEF Dense
<1>8. TipHeight' = TipHeight + 1
  <2>1. PICK n : n = TipHeight + 1
    BY Zenon
  <2>2. n \in 0 .. MaxHeight /\ \A h \in Heights : (chain'[h] # None) <=> h <= n
    BY <1>4, <1>6, <2>1, Zenon
  <2>3. n = IF \A h \in Heights : chain'[h] = None THEN 0
            ELSE CHOOSE h \in Heights : /\ chain'[h] # None
                                        /\ \A g \in Heights : g > h => chain'[g] = None
    BY Zenon, <2>2, Greatest
  <2>4. TipHeight' = n
    BY <2>3 DEF TipHeight
  <2> QED
    BY <2>1, <2>4, Zenon
<1> QED
  BY <1>1, <1>2, <1>3, <1>5, <1>7, <1>8 DEF Tip

-----------------------------------------------------------------------------
(* Types                                                                   *)

Calls == [pc : PCs, kind : {"import", "mine", "recover"},
          blk : Block, pre : State \X State \X State]

(* A call that moves on, ends or begins stays a call. *)
LEMMA CallTypes ==
  ASSUME TypeOK, NEW t \in Thread
  PROVE  /\ Idle \in Calls /\ [Idle EXCEPT !.pc = "refused"] \in Calls
         /\ \A pc \in PCs : [call EXCEPT ![t].pc = pc] \in [Thread -> Calls]
         /\ [call EXCEPT ![t] = Idle] \in [Thread -> Calls]
         /\ [call EXCEPT ![t] = [Idle EXCEPT !.pc = "refused"]] \in [Thread -> Calls]
         /\ [x \in Thread |-> Idle] \in [Thread -> Calls]
         /\ call[t] \in Calls
<1>1. << >> \in State /\ Base \in Block
  BY BlockAssumption DEF State
<1>2. Idle \in Calls /\ [Idle EXCEPT !.pc = "refused"] \in Calls
  BY <1>1, Zenon DEF Idle, Calls, PCs
<1>3. call \in [Thread -> Calls]
  BY Zenon DEF TypeOK, Calls
<1>4. \A pc \in PCs : [call EXCEPT ![t].pc = pc] \in [Thread -> Calls]
  BY <1>3, Zenon DEF Calls
<1> QED
  BY <1>2, <1>3, <1>4, Zenon

(* Beginning a call. *)
LEMMA BeginTypes ==
  ASSUME TypeOK, NEW t \in Thread, NEW k \in {"import", "mine", "recover"}, NEW b \in Block, Begin(t, k, b)
  PROVE  /\ call' \in [Thread -> Calls]
         /\ call[t].pc = "idle"
         /\ call'[t].pc = (IF Parent[b] = Tip THEN "rules" ELSE "refused")
         /\ call'[t].kind = k /\ call'[t].blk = b
<1>1. Idle \in Calls /\ call \in [Thread -> Calls]
  BY CallTypes, Zenon DEF TypeOK, Calls
<1> DEFINE c == [Idle EXCEPT !.pc = IF Parent[b] = Tip THEN "rules" ELSE "refused", !.kind = k, !.blk = b]
<1>2. c \in Calls
  BY Zenon, <1>1 DEF Calls, PCs
<1>3. c.pc = (IF Parent[b] = Tip THEN "rules" ELSE "refused") /\ c.kind = k /\ c.blk = b
  BY <1>1, Zenon DEF Calls
<1>4. call' = [call EXCEPT ![t] = c] /\ call[t].pc = "idle"
  BY Zenon DEF Begin
<1> HIDE DEF c
<1> QED
  BY <1>1, <1>2, <1>3, <1>4, Zenon

(* A fault uses one up and leaves the kinds. *)
LEMMA FaultTypes ==
  ASSUME TypeOK, NEW k, Fault(k)
  PROVE  /\ faults' \in [kinds : FaultSets, left : 0 .. MaxFaults]
         /\ faults'.kinds = faults.kinds /\ k \in faults.kinds
         /\ phase = "recover" => "in_recovery" \in faults.kinds
<1>1. faults \in [kinds : FaultSets, left : 0 .. MaxFaults] /\ MaxFaults \in Nat
  BY ThreadAssumption, Zenon DEF TypeOK
<1>2. k \in faults.kinds /\ faults.left > 0 /\ faults' = [faults EXCEPT !.left = @ - 1]
  BY Zenon DEF Fault
<1>3. faults.left - 1 \in 0 .. MaxFaults
  BY <1>1, <1>2
<1>4. faults' \in [kinds : FaultSets, left : 0 .. MaxFaults] /\ faults'.kinds = faults.kinds
  BY <1>1, <1>2, <1>3
<1> QED
  BY <1>2, <1>4, Zenon DEF Fault

(* The chain's transactions and blocks. *)
LEMMA ChainTypes ==
  ASSUME TypeOK, Dense, ChainIsLinked
  PROVE  /\ ChainTxs \subseteq Tx
         /\ StoredBlocks \in Seq(Block) /\ Len(StoredBlocks) = TipHeight
         /\ \A i \in 1 .. TipHeight : i \in Heights /\ StoredBlocks[i] = chain[i] /\ chain[i] \in Block /\ Height[chain[i]] = i
         /\ TipHeight \in Nat
<1>1. /\ TipHeight \in 0 .. MaxHeight
      /\ \A h \in Heights : (chain[h] # None) <=> h <= TipHeight
  BY TipFacts, Zenon
<1>2. \A i \in 1 .. TipHeight : i \in Heights /\ chain[i] \in Block /\ Height[chain[i]] = i
  BY <1>1, BlockAssumption DEF Heights, TypeOK, ChainIsLinked
<1>3. ChainTxs \subseteq Tx
  BY DEF ChainTxs, Tx, TypeOK
<1> QED
  BY <1>1, <1>2, <1>3, BlockAssumption DEF StoredBlocks

(* Every step keeps the types. *)
LEMMA TypeStep ==
  ASSUME LinkInv, [Next]_vars, Thread = {Miner}
  PROVE  TypeOK'
<1>0. TypeOK /\ Dense /\ ChainIsLinked /\ Miner \in Thread
  BY ThreadAssumption, Zenon DEF LinkInv
<1>1. /\ ChainTxs \subseteq Tx /\ StoredBlocks \in Seq(Block) /\ TipHeight \in Nat
      /\ Tip \in Block /\ << >> \in State /\ None \notin Block
  BY <1>0, ChainTypes, TipFacts, BlockAssumption DEF State
<1>2. \A t \in Thread :
        /\ call[t].blk \in Block /\ Txs[call[t].blk] \subseteq Tx /\ Height[call[t].blk] \in Nat
        /\ call[t].pre \in State \X State \X State
        /\ Append(ledger, call[t].blk) \in State /\ Append(stores, call[t].blk) \in State
        /\ Append(vals, call[t].blk) \in State
  BY <1>0, BlockAssumption DEF TypeOK, Tx, State
<1>3. ASSUME EnsureIndex PROVE seen' \subseteq Tx /\ seenTip' \in Int
  BY <1>0, <1>1, <1>3 DEF EnsureIndex, TypeOK
<1>4. ASSUME NEW h \in Nat, RecordSetFor(h) PROVE sets' \in [1 .. MaxHeight + 1 -> State \cup {None}]
  BY Zenon, <1>0, <1>4 DEF RecordSetFor, TypeOK
<1>5. ASSUME Down PROVE ledger' \in State /\ phase' \in Phases /\ queue' \in Seq(Block) /\ call' \in [Thread -> Calls]
  BY <1>0, <1>1, <1>5, CallTypes, Zenon DEF Down, Phases, State
<1> USE DEF state, index
<1>6. ASSUME NEW t \in Thread, CallStep(t) PROVE TypeOK'
  <2>1. CASE Rules(t)
    <3>1. call' \in [Thread -> Calls]
      BY <1>0, <2>1, CallTypes, Zenon DEF Rules, PCs
    <3>2. seen' \subseteq Tx /\ seenTip' \in Int
      BY <1>0, <1>3, <2>1, Zenon DEF Rules, TypeOK
    <3> QED
      BY <1>0, <2>1, <3>1, <3>2, Zenon DEF Rules, TypeOK, Calls
  <2>2. CASE Capture(t)
    <3>1. state \in State \X State \X State
      BY <1>0, Zenon DEF TypeOK
    <3>2. call' \in [Thread -> Calls]
      <4>1. call' = [call EXCEPT ![t] = [call[t] EXCEPT !.pc = "apply", !.pre = state]]
        BY Zenon, <1>0, <2>2 DEF Capture, TypeOK, Calls
      <4>2. [call[t] EXCEPT !.pc = "apply", !.pre = state] \in Calls
        BY Zenon, <1>0, <3>1, CallTypes DEF Calls, PCs
      <4> QED
        BY <1>0, <4>1, <4>2, Zenon DEF TypeOK, Calls
    <3> QED
      BY <1>0, <2>2, <3>2, Zenon DEF Capture, TypeOK, Calls
  <2>3. CASE Apply(t)
    <3>1. call' \in [Thread -> Calls]
      BY Zenon, <1>0, <2>3, CallTypes DEF Apply, PCs
    <3> QED
      BY <1>0, <1>2, <2>3, <3>1, Zenon DEF Apply, TypeOK, Calls
  <2>4. CASE VerifyRoot(t)
    <3>1. call' \in [Thread -> Calls]
      BY <1>0, <2>4, CallTypes, Zenon DEF VerifyRoot, PCs
    <3> QED
      BY <1>0, <2>4, <3>1, Zenon DEF VerifyRoot, TypeOK, Calls
  <2>5. CASE Seal(t)
    <3>1. call' \in [Thread -> Calls]
      BY <1>0, <2>5, CallTypes, Zenon DEF Seal, PCs
    <3>2. root' \in [Own -> State \cup {None}]
      BY Zenon, <1>0, <2>5 DEF Seal, TypeOK
    <3>3. call[t].blk \in Own
      BY <2>5, Zenon DEF Seal, LinkInv, Booting
    <3>4. journal' \subseteq Own
      BY <1>0, <2>5, <3>3, Zenon DEF Seal, TypeOK
    <3> QED
      BY <1>0, <2>5, <3>1, <3>2, <3>4, Zenon DEF Seal, TypeOK, Calls
  <2>6. CASE ApplyValidators(t)
    <3>1. call' \in [Thread -> Calls]
      BY <1>0, <2>6, CallTypes, Zenon DEF ApplyValidators, PCs
    <3> QED
      BY <1>0, <1>2, <2>6, <3>1, Zenon DEF ApplyValidators, TypeOK, Calls
  <2>7. CASE AppendBlock(t)
    <3>1. call' \in [Thread -> Calls]
      BY <1>0, <2>7, CallTypes, Zenon DEF AppendBlock, PCs
    <3>2. chain' \in [Heights -> Block \cup {None}]
      BY Zenon, <1>0, <1>2, <2>7 DEF AppendBlock, TypeOK
    <3> QED
      BY <1>0, <2>7, <3>1, <3>2, Zenon DEF AppendBlock, TypeOK, Calls
  <2>8. CASE Restore(t)
    <3>1. call' \in [Thread -> Calls]
      BY <1>0, <2>8, CallTypes, Zenon DEF Restore
    <3> QED
      BY <1>0, <1>2, <2>8, <3>1, Zenon DEF Restore, Restored, TypeOK, Calls
  <2>9. CASE Refuse(t)
    <3>1. call' \in [Thread -> Calls] /\ ledger' \in State /\ phase' \in Phases /\ queue' \in Seq(Block)
      BY <1>0, <1>5, <2>9, CallTypes, Zenon DEF Refuse, TypeOK
    <3> QED
      BY <1>0, <2>9, <3>1, Zenon DEF Refuse, TypeOK, Calls
  <2>10. CASE Record(t)
    <3>1. call' \in [Thread -> Calls]
      BY <1>0, <2>10, CallTypes, Zenon DEF Record, PCs
    <3> QED
      BY <1>0, <1>2, <2>10, <3>1 DEF Record, TypeOK, Calls
  <2>11. CASE Vote(t)
    <3>1. call' \in [Thread -> Calls]
      BY <1>0, <2>11, CallTypes, Zenon DEF Vote, PCs
    <3>2. sets' \in [1 .. MaxHeight + 1 -> State \cup {None}]
      BY <1>2, <1>4, <2>11 DEF Vote
    <3> QED
      BY <1>0, <2>11, <3>1, <3>2, Zenon DEF Vote, TypeOK, Calls
  <2>12. CASE Save(t)
    <3>1. call' \in [Thread -> Calls]
      BY <1>0, <2>12, CallTypes, Zenon DEF Save
    <3> QED
      BY <1>0, <1>2, <2>12, <3>1, Zenon DEF Save, TypeOK, Calls
  <2> QED
    BY <1>6, <2>1, <2>2, <2>3, <2>4, <2>5, <2>6, <2>7, <2>8, <2>9, <2>10, <2>11, <2>12, Zenon DEF CallStep
<1>7. ASSUME NEW t \in Thread, CallFault(t) PROVE TypeOK'
  <2>1. CASE ApplyValidatorsFails(t)
    <3>1. call' \in [Thread -> Calls]
      BY <1>0, <2>1, CallTypes, Zenon DEF ApplyValidatorsFails, PCs
    <3> QED
      BY <1>0, <2>1, <3>1, FaultTypes, Zenon DEF ApplyValidatorsFails, TypeOK, Calls
  <2>2. CASE AppendFails(t)
    <3>1. call' \in [Thread -> Calls]
      BY <1>0, <2>2, CallTypes, Zenon DEF AppendFails, PCs
    <3> QED
      BY <1>0, <2>2, <3>1, FaultTypes, Zenon DEF AppendFails, TypeOK, Calls
  <2>3. CASE AppendFlushFails(t)
    <3>1. call' \in [Thread -> Calls]
      BY <1>0, <2>3, CallTypes, Zenon DEF AppendFlushFails, PCs
    <3>2. chain' \in [Heights -> Block \cup {None}]
      BY Zenon, <1>0, <1>2, <2>3 DEF AppendFlushFails, TypeOK
    <3> QED
      BY <1>0, <2>3, <3>1, <3>2, FaultTypes, Zenon DEF AppendFlushFails, TypeOK, Calls
  <2>4. CASE RecordLost(t)
    <3>1. call' \in [Thread -> Calls]
      BY <1>0, <2>4, CallTypes, Zenon DEF RecordLost, PCs
    <3> QED
      BY <1>0, <2>4, <3>1, FaultTypes, Zenon DEF RecordLost, TypeOK, Calls
  <2>5. CASE SaveLost(t)
    <3>1. call' \in [Thread -> Calls]
      BY <1>0, <2>5, CallTypes, Zenon DEF SaveLost, PCs
    <3> QED
      BY <1>0, <2>5, <3>1, FaultTypes, Zenon DEF SaveLost, TypeOK, Calls
  <2>6. CASE CrashInSave(t)
    <3>1. snap' \in [height : Nat, ledger : State]
      BY <1>0, <1>2, <2>6, Zenon DEF CrashInSave, TypeOK
    <3> QED
      BY <1>0, <1>5, <2>6, <3>1, FaultTypes, Zenon DEF CrashInSave, TypeOK, Calls
  <2> QED
    BY <1>7, <2>1, <2>2, <2>3, <2>4, <2>5, <2>6, Zenon DEF CallFault
<1>8. ASSUME NEW t \in Thread, NEW b \in Block, BeginImport(t, b) PROVE TypeOK'
  <2>1. call' \in [Thread -> Calls]
    BY <1>0, <1>8, BeginTypes, Zenon DEF BeginImport
  <2> QED
    BY <1>0, <1>8, <2>1, Zenon DEF BeginImport, TypeOK, Calls
<1>9. ASSUME NEW b \in Own, BeginMine(b) PROVE TypeOK'
  <2>1. call' \in [Thread -> Calls]
    BY Zenon, <1>0, <1>9, BeginTypes, BlockAssumption DEF BeginMine
  <2> QED
    BY <1>0, <1>9, <2>1, Zenon DEF BeginMine, TypeOK, Calls
<1>10. ASSUME Boot PROVE TypeOK'
  <2>1. CASE LoadSnapshot
    BY <1>0, <2>1, Zenon DEF LoadSnapshot, TypeOK, Phases
  <2>2. CASE StartRecovery
    BY <1>0, <1>1, <2>2 DEF StartRecovery, TypeOK, Phases
  <2>3. CASE Reimport
    <3>1. Head(queue) \in Block /\ Tail(queue) \in Seq(Block)
      BY <1>0, <2>3 DEF Reimport, TypeOK
    <3>2. call' \in [Thread -> Calls]
      BY Zenon, <1>0, <2>3, <3>1, BeginTypes DEF Reimport
    <3> QED
      BY <1>0, <2>3, <3>1, <3>2, Zenon DEF Reimport, TypeOK, Calls
  <2>4. CASE FinishRecovery
    BY <1>0, <1>1, <2>4, Zenon DEF FinishRecovery, TypeOK, Phases
  <2>5. CASE InitIndex
    BY <1>0, <1>3, <2>5, Zenon DEF InitIndex, TypeOK, Phases
  <2>6. CASE RecoverPending
    <3>1. ASSUME \E b \in journal : Parent[b] = Tip
          PROVE  (CHOOSE b \in journal : Parent[b] = Tip) \in Block
      BY <1>0, <3>1, BlockAssumption, Zenon DEF TypeOK
    <3>2. call' \in [Thread -> Calls]
      BY <1>0, <2>6, <3>1, BeginTypes, Zenon DEF RecoverPending, TypeOK, Calls
    <3> QED
      BY <1>0, <2>6, <3>2, Zenon DEF RecoverPending, TypeOK, Calls, Phases
  <2>7. CASE FinishInit
    <3>1. TipHeight + 1 \in Nat
      BY <1>1
    <3>2. sets' \in [1 .. MaxHeight + 1 -> State \cup {None}]
      BY <1>4, <2>7, <3>1, Zenon DEF FinishInit
    <3> QED
      BY <1>0, <2>7, <3>2, Zenon DEF FinishInit, TypeOK, Phases
  <2> QED
    BY <1>10, <2>1, <2>2, <2>3, <2>4, <2>5, <2>6, <2>7, Zenon DEF Boot
<1>11. CASE Crash
  <2>1. faults' \in [kinds : FaultSets, left : 0 .. MaxFaults]
    BY <1>0, <1>11, FaultTypes, Zenon DEF Crash
  <2> QED
    BY <1>0, <1>5, <1>11, <2>1, Zenon DEF Crash, TypeOK, Calls
<1>12. CASE UNCHANGED vars
  BY <1>0, <1>12, Zenon DEF vars, TypeOK
<1> QED
  BY <1>6, <1>7, <1>8, <1>9, <1>10, <1>11, <1>12, Zenon DEF Next

-----------------------------------------------------------------------------
(* The chain stays linked                                                  *)

(* A step inside a call that stores nothing. *)
LEMMA LinkMoves ==
  ASSUME LinkInv, TypeOK', chain' = chain, phase' = phase, queue' = queue,
         call[Miner].pc # "idle",
         \/ call'[Miner].pc \in {"idle", "refused"} /\ call'[Miner].kind = "import"
         \/ /\ call'[Miner].blk = call[Miner].blk /\ call'[Miner].kind = call[Miner].kind
            /\ call'[Miner].pc \in Open => call[Miner].pc \in Open
            /\ call'[Miner].pc \in Done => call[Miner].pc \in Done
  PROVE  LinkInv'
<1>1. TipHeight' = TipHeight /\ Tip' = Tip
  BY TipKept, Zenon
<1>2. Dense' /\ ChainIsLinked'
  BY Zenon DEF LinkInv, Dense, ChainIsLinked
<1>3. CallOnTip'
  BY <1>1, Zenon DEF LinkInv, CallOnTip, Open, Done
<1>4. Booting'
  BY <1>1, Zenon DEF LinkInv, Booting, Open
<1> QED
  BY <1>2, <1>3, <1>4, Zenon DEF LinkInv

(* The process goes down. *)
LEMMA LinkDown ==
  ASSUME LinkInv, TypeOK', chain' = chain, Down
  PROVE  LinkInv'
<1>1. Dense' /\ ChainIsLinked'
  BY Zenon DEF LinkInv, Dense, ChainIsLinked
<1>2. call'[Miner].pc = "idle" /\ call'[Miner].kind = "import"
  BY ThreadAssumption, Zenon DEF Down, Idle
<1>3. CallOnTip'
  BY <1>2, Zenon DEF CallOnTip, Open, Done
<1>4. Booting'
  BY <1>2 DEF Booting, Down
<1> QED
  BY <1>1, <1>3, <1>4, Zenon DEF LinkInv

(* The block of a call is stored. *)
LEMMA LinkAppends ==
  ASSUME LinkInv, TypeOK', call[Miner].pc = "append",
         chain' = [chain EXCEPT ![Height[call[Miner].blk]] = call[Miner].blk],
         phase' = phase, queue' = queue,
         call'[Miner].pc \in {"record", "restore"},
         call'[Miner].blk = call[Miner].blk, call'[Miner].kind = call[Miner].kind
  PROVE  LinkInv'
<1>0. /\ TypeOK /\ Dense /\ ChainIsLinked /\ call[Miner].blk \in Block \ {Base}
      /\ Parent[call[Miner].blk] = Tip
  BY ThreadAssumption, Zenon DEF LinkInv, CallOnTip, Open, TypeOK
<1>1. /\ Dense' /\ ChainIsLinked' /\ Height[call[Miner].blk] = TipHeight + 1
      /\ TipHeight' = TipHeight + 1 /\ Tip' = call[Miner].blk
  BY Zenon, <1>0, Appended
<1>2. CallOnTip'
  BY <1>0, <1>1, Zenon DEF CallOnTip, Open, Done
<1>3. Booting'
  BY <1>1, Zenon DEF LinkInv, Booting, Open
<1> QED
  BY <1>1, <1>2, <1>3, Zenon DEF LinkInv

(* A call begins, with the queue as it is, outside the phases that have none. *)
LEMMA LinkBegins ==
  ASSUME LinkInv, TypeOK', chain' = chain, queue' = << >>, phase' \in {"finish", "run"},
         NEW k \in {"import", "mine"}, NEW b \in Block \ {Base}, k = "mine" => b \in Own /\ phase' = "run",
         Begin(Miner, k, b)
  PROVE  LinkInv'
<1>1. TipHeight' = TipHeight /\ Tip' = Tip
  BY TipKept, Zenon
<1>2. Dense' /\ ChainIsLinked'
  BY Zenon DEF LinkInv, Dense, ChainIsLinked
<1>3. /\ call'[Miner].pc = (IF Parent[b] = Tip THEN "rules" ELSE "refused")
      /\ call'[Miner].kind = k /\ call'[Miner].blk = b
  BY BeginTypes, ThreadAssumption DEF LinkInv
<1>4. CallOnTip'
  BY <1>1, <1>3, Zenon DEF CallOnTip, Open, Done
<1>5. Booting'
  BY <1>1, <1>3 DEF Booting, Open
<1> QED
  BY <1>2, <1>4, <1>5, Zenon DEF LinkInv

(* Every step keeps the chain linked. *)
LEMMA LinkStep ==
  ASSUME LinkInv, [Next]_vars, Thread = {Miner}
  PROVE  LinkInv'
<1>0. /\ TypeOK' /\ TypeOK /\ Dense /\ ChainIsLinked /\ Miner \in Thread
      /\ call[Miner] \in Calls /\ call \in [Thread -> Calls]
  BY TypeStep, ThreadAssumption, Zenon DEF LinkInv, TypeOK, Calls
<1>1. /\ \A pc \in PCs : LET c == [call EXCEPT ![Miner].pc = pc][Miner] IN
           c.pc = pc /\ c.blk = call[Miner].blk /\ c.kind = call[Miner].kind
      /\ LET c == [call EXCEPT ![Miner] = Idle][Miner] IN c.pc = "idle" /\ c.kind = "import"
      /\ LET c == [call EXCEPT ![Miner] = [Idle EXCEPT !.pc = "refused"]][Miner] IN
           c.pc = "refused" /\ c.kind = "import"
  BY <1>0, Zenon DEF Calls, Idle
<1>2. ASSUME CallStep(Miner) PROVE LinkInv'
  <2>1. CASE Rules(Miner)
    BY <1>1, <2>1, <1>0, LinkMoves DEF Rules, Open, Done, PCs
  <2>2. CASE Capture(Miner)
    <3>1. /\ call'[Miner].pc = "apply" /\ call'[Miner].blk = call[Miner].blk
          /\ call'[Miner].kind = call[Miner].kind
      BY <1>0, <2>2, Zenon DEF Capture, Calls
    <3> QED
      BY <1>0, <2>2, <3>1, LinkMoves, Zenon DEF Capture, Open, Done
  <2>3. CASE Apply(Miner)
    BY <1>1, <2>3, <1>0, LinkMoves DEF Apply, Open, Done, PCs
  <2>4. CASE VerifyRoot(Miner)
    BY <1>1, <2>4, <1>0, LinkMoves DEF VerifyRoot, Open, Done, PCs
  <2>5. CASE Seal(Miner)
    BY <1>1, <2>5, <1>0, LinkMoves DEF Seal, Open, Done, PCs
  <2>6. CASE ApplyValidators(Miner)
    BY <1>1, <2>6, <1>0, LinkMoves, Zenon DEF ApplyValidators, Open, Done, PCs
  <2>7. CASE AppendBlock(Miner)
    BY <1>1, <2>7, <1>0, LinkAppends, Zenon DEF AppendBlock, PCs
  <2>8. CASE Restore(Miner)
    BY <1>1, <2>8, <1>0, LinkMoves, Zenon DEF Restore
  <2>9. CASE Refuse(Miner)
    BY <1>1, <2>9, <1>0, LinkMoves, LinkDown, Zenon DEF Refuse
  <2>10. CASE Record(Miner)
    BY <1>1, <2>10, <1>0, LinkMoves, Zenon DEF Record, Open, Done, PCs
  <2>11. CASE Vote(Miner)
    BY <1>1, <2>11, <1>0, LinkMoves, Zenon DEF Vote, Open, Done, PCs
  <2>12. CASE Save(Miner)
    BY <1>1, <2>12, <1>0, LinkMoves, Zenon DEF Save
  <2> QED
    BY <1>2, <2>1, <2>2, <2>3, <2>4, <2>5, <2>6, <2>7, <2>8, <2>9, <2>10, <2>11, <2>12, Zenon DEF CallStep
<1>3. ASSUME CallFault(Miner) PROVE LinkInv'
  <2>1. CASE ApplyValidatorsFails(Miner)
    BY <1>1, <2>1, <1>0, LinkMoves, Zenon DEF ApplyValidatorsFails, Open, Done, PCs
  <2>2. CASE AppendFails(Miner)
    BY <1>1, <2>2, <1>0, LinkMoves, Zenon DEF AppendFails, Open, Done, PCs
  <2>3. CASE AppendFlushFails(Miner)
    BY <1>1, <2>3, <1>0, LinkAppends, Zenon DEF AppendFlushFails, PCs
  <2>4. CASE RecordLost(Miner)
    BY <1>1, <2>4, <1>0, LinkMoves, Zenon DEF RecordLost, Open, Done, PCs
  <2>5. CASE SaveLost(Miner)
    BY <1>1, <2>5, <1>0, LinkMoves, Zenon DEF SaveLost
  <2>6. CASE CrashInSave(Miner)
    BY <2>6, <1>0, LinkDown, Zenon DEF CrashInSave
  <2> QED
    BY <1>3, <2>1, <2>2, <2>3, <2>4, <2>5, <2>6, Zenon DEF CallFault
<1>4. ASSUME NEW b \in Block, BeginImport(Miner, b) PROVE LinkInv'
  <2>1. b \in Block \ {Base} /\ queue' = << >> /\ phase' = "run" /\ chain' = chain
    BY <1>4, Zenon DEF BeginImport, LinkInv, Booting
  <2> QED
    BY <1>0, <1>4, <2>1, LinkBegins, Zenon DEF BeginImport
<1>5. ASSUME NEW b \in Own, BeginMine(b) PROVE LinkInv'
  <2>1. b \in Block \ {Base} /\ queue' = << >> /\ phase' = "run" /\ chain' = chain
    BY <1>5, BlockAssumption, Zenon DEF BeginMine, LinkInv, Booting
  <2> QED
    BY <1>0, <1>5, <2>1, LinkBegins, Zenon DEF BeginMine
<1>6. ASSUME Boot PROVE LinkInv'
  <2>1. CASE LoadSnapshot
    <3>1. TipHeight' = TipHeight /\ Tip' = Tip
      BY <2>1, TipKept, Zenon DEF LoadSnapshot
    <3> QED
      BY <1>0, <2>1, <3>1, Zenon DEF LoadSnapshot, LinkInv, Dense, ChainIsLinked, CallOnTip, Booting, Open, Done
  <2>2. CASE StartRecovery
    <3>1. /\ TipHeight \in 0 .. MaxHeight /\ MaxHeight \in Nat /\ None \notin Block
          /\ \A h \in Heights : (chain[h] # None) <=> h <= TipHeight
      BY <1>0, TipFacts, BlockAssumption, Zenon
    <3>2. \A h \in Heights : (chain'[h] # None) <=> h <= 0
      BY <2>2, <3>1 DEF StartRecovery, Heights
    <3>3. TipHeight' = 0
      BY <2>2, Zenon DEF StartRecovery, TipHeight
    <3>4. Dense' /\ ChainIsLinked'
      BY <2>2, <3>1, <3>2 DEF StartRecovery, Dense, ChainIsLinked
    <3>5. call'[Miner].pc = "idle"
      BY <2>2, Zenon DEF StartRecovery, LinkInv, Booting
    <3>6. CallOnTip'
      BY <3>5, Zenon DEF CallOnTip, Open, Done
    <3>7. Len(queue') = TipHeight /\ \A i \in 1 .. TipHeight : Height[queue'[i]] = i /\ queue'[i] # Base
      BY <1>0, <2>2, <3>1, BlockAssumption DEF StartRecovery, StoredBlocks, Heights, ChainIsLinked, TypeOK
    <3>8. Booting'
      BY <2>2, <3>1, <3>3, <3>5, <3>7 DEF StartRecovery, Booting, Open
    <3> QED
      BY <1>0, <3>4, <3>6, <3>8, Zenon DEF LinkInv
  <2>3. CASE Reimport
    <3> DEFINE b == Head(queue)
    <3>0. /\ queue \in Seq(Block) /\ queue # << >> /\ Len(queue) \in Nat /\ Len(queue) >= 1
          /\ b = queue[1] /\ b \in Block
          /\ Len(queue') = Len(queue) - 1 /\ \A i \in 1 .. Len(queue') : queue'[i] = queue[i + 1]
      BY <1>0, <2>3 DEF Reimport, TypeOK
    <3>1. TipHeight' = TipHeight /\ Tip' = Tip
      BY SMTT(30), <2>3, TipKept DEF Reimport
    <3>2. Dense' /\ ChainIsLinked'
      BY <1>0, <2>3, Zenon DEF Reimport, Dense, ChainIsLinked
    <3>3. /\ call'[Miner].pc = (IF Parent[b] = Tip THEN "rules" ELSE "refused")
          /\ call'[Miner].kind = "recover" /\ call'[Miner].blk = b
      BY <1>0, <2>3, <3>0, BeginTypes, Zenon DEF Reimport
    <3>4. b # Base
      BY <3>0 DEF LinkInv, Booting
    <3>5. CallOnTip'
      BY <3>1, <3>3, <3>4, Zenon DEF CallOnTip, Open, Done
    <3>6. \A i \in 1 .. Len(queue') :
             /\ queue'[i] # Base /\ Height[queue'[i]] > TipHeight /\ Height[queue'[i]] > Height[b]
             /\ \A j \in 1 .. i - 1 : Height[queue'[j]] < Height[queue'[i]]
      <4> SUFFICES ASSUME NEW i \in 1 .. Len(queue')
                   PROVE  /\ queue'[i] # Base /\ Height[queue'[i]] > TipHeight /\ Height[queue'[i]] > Height[b]
                          /\ \A j \in 1 .. i - 1 : Height[queue'[j]] < Height[queue'[i]]
        BY Zenon
      <4>1. i + 1 \in 1 .. Len(queue) /\ queue'[i] = queue[i + 1] /\ 1 \in 1 .. (i + 1) - 1
        BY <3>0
      <4>2. /\ queue[i + 1] # Base /\ Height[queue[i + 1]] > TipHeight
            /\ \A j \in 1 .. (i + 1) - 1 : Height[queue[j]] < Height[queue[i + 1]]
        BY SMTT(30), <4>1 DEF LinkInv, Booting
      <4>3. \A j \in 1 .. i - 1 : j + 1 \in 1 .. (i + 1) - 1 /\ queue'[j] = queue[j + 1]
        BY <3>0, <4>1
      <4>4. queue[1] \in Block /\ queue[i + 1] \in Block
        BY <3>0, <4>1
      <4> QED
        BY Zenon, <3>0, <4>1, <4>2, <4>3, <4>4, BlockAssumption
    <3>7. Booting'
      BY <2>3, <3>1, <3>3, <3>6, Zenon DEF Booting, Open, Reimport
    <3> QED
      BY <1>0, <3>2, <3>5, <3>7 DEF LinkInv
  <2>4. CASE FinishRecovery
    <3>1. TipHeight' = TipHeight /\ Tip' = Tip
      BY <2>4, TipKept, Zenon DEF FinishRecovery
    <3> QED
      BY <1>0, <2>4, <3>1, Zenon DEF FinishRecovery, LinkInv, Dense, ChainIsLinked, CallOnTip, Booting, Open, Done
  <2>5. CASE InitIndex
    <3>1. TipHeight' = TipHeight /\ Tip' = Tip
      BY <2>5, TipKept, Zenon DEF InitIndex
    <3> QED
      BY <1>0, <2>5, <3>1, Zenon DEF InitIndex, LinkInv, Dense, ChainIsLinked, CallOnTip, Booting, Open, Done
  <2>6. CASE RecoverPending
    <3>1. queue' = << >> /\ phase' = "finish" /\ chain' = chain /\ call[Miner].pc = "idle"
      BY <2>6, Zenon DEF RecoverPending, LinkInv, Booting
    <3>2. CASE \E b \in journal : Parent[b] = Tip
      <4>1. (CHOOSE b \in journal : Parent[b] = Tip) \in Block \ {Base}
        BY <1>0, <3>2, BlockAssumption, Zenon DEF TypeOK
      <4>2. Begin(Miner, "import", CHOOSE b \in journal : Parent[b] = Tip)
        BY <2>6, <3>2, Zenon DEF RecoverPending
      <4> QED
        BY <1>0, <3>1, <4>1, <4>2, LinkBegins, Zenon
    <3>3. CASE ~ \E b \in journal : Parent[b] = Tip
      <4>1. TipHeight' = TipHeight /\ Tip' = Tip
        BY <3>1, TipKept, Zenon
      <4>2. call' = call
        BY <2>6, <3>3, Zenon DEF RecoverPending
      <4> QED
        BY <1>0, <3>1, <4>1, <4>2 DEF LinkInv, Dense, ChainIsLinked, CallOnTip, Booting, Open, Done
    <3> QED
      BY <3>2, <3>3, Zenon
  <2>7. CASE FinishInit
    <3>1. TipHeight' = TipHeight /\ Tip' = Tip
      BY <2>7, TipKept, Zenon DEF FinishInit
    <3> QED
      BY <1>0, <2>7, <3>1, Zenon DEF FinishInit, LinkInv, Dense, ChainIsLinked, CallOnTip, Booting, Open, Done
  <2> QED
    BY <1>6, <2>1, <2>2, <2>3, <2>4, <2>5, <2>6, <2>7, Zenon DEF Boot
<1>7. CASE Crash
  BY <1>0, <1>7, LinkDown, Zenon DEF Crash
<1>8. CASE UNCHANGED vars
  <2>1. TipHeight' = TipHeight /\ Tip' = Tip
    BY <1>8, TipKept, Zenon DEF vars
  <2> QED
    BY <1>0, <1>8, <2>1, Zenon DEF vars, LinkInv, Dense, ChainIsLinked, CallOnTip, Booting
<1> QED
  BY <1>2, <1>3, <1>4, <1>5, <1>6, <1>7, <1>8, Zenon DEF Next

(* A first start: an empty chain. *)
LEMMA LinkInit ==
  ASSUME Init PROVE LinkInv
<1>0. MaxHeight \in Nat /\ None \notin Block /\ Miner \in Thread /\ << >> \in State
  BY BlockAssumption, ThreadAssumption DEF State
<1>1. [x \in Thread |-> Idle] \in [Thread -> Calls]
  BY <1>0, BlockAssumption, Zenon DEF Calls, Idle, PCs
<1>2. faults \in [kinds : FaultSets, left : 0 .. MaxFaults]
  BY ThreadAssumption DEF Init
<1>3. TypeOK
  BY <1>0, <1>1, <1>2, BlockAssumption DEF Init, TypeOK, Calls, Phases, State
<1>4. \A h \in Heights : (chain[h] # None) <=> h <= 0
  BY <1>0 DEF Init, Heights
<1>5. Dense /\ ChainIsLinked
  BY <1>0, <1>4 DEF Init, Dense, ChainIsLinked
<1>6. call[Miner].pc = "idle" /\ call[Miner].kind = "import"
  BY <1>0, Zenon DEF Init, Idle
<1>7. CallOnTip /\ Booting
  BY <1>6 DEF Init, CallOnTip, Booting, Open, Done
<1> QED
  BY <1>3, <1>5, <1>7, Zenon DEF LinkInv

-----------------------------------------------------------------------------
(* What the faults the code recovers from leave intact                     *)

(* The three copies of the state, by how far the call has come. *)
CopiesInv ==
  LET c == call[Miner] IN
  /\ c.pc \notin {"root", "vals", "append", "restore"} =>
       /\ stores = PostState[Tip] /\ vals = PostState[Tip]
       /\ phase = "load" \/ ledger = PostState[Tip]
  /\ c.pc \in {"root", "vals", "append"} =>
       /\ ledger = PostState[c.blk] /\ stores = PostState[c.blk]
       /\ vals = IF c.pc = "append" THEN PostState[c.blk] ELSE PostState[Tip]
  /\ c.pc \in {"apply", "root", "vals", "append", "restore"} =>
       c.pre = <<PostState[Tip], PostState[Tip], PostState[Tip]>>

(* The snapshot is right for the block that is, or that recovery may put
   again, at its height; and init has brought it below the tip. *)
SnapInv ==
  /\ snap.height = 0 => snap.ledger = << >>
  /\ \A h \in Heights : chain[h] # None /\ snap.height = h => snap.ledger = PostState[chain[h]]
  /\ \A i \in 1 .. Len(queue) : snap.height = Height[queue[i]] => snap.ledger = PostState[queue[i]]
  /\ phase = "recover" /\ call[Miner].pc \in Open /\ snap.height = Height[call[Miner].blk] =>
       snap.ledger = PostState[call[Miner].blk]
  /\ phase \notin {"load", "recover"} => snap.height <= TipHeight



(* The fields of a call after each of the ways an action updates it. *)
LEMMA CallFields ==
  ASSUME TypeOK
  PROVE  /\ call[Miner] \in Calls
         /\ \A pc \in PCs : LET c == [call EXCEPT ![Miner].pc = pc][Miner] IN
              /\ c.pc = pc /\ c.blk = call[Miner].blk
              /\ c.kind = call[Miner].kind /\ c.pre = call[Miner].pre
         /\ [call EXCEPT ![Miner] = Idle][Miner].pc = "idle"
         /\ [call EXCEPT ![Miner] = [Idle EXCEPT !.pc = "refused"]][Miner].pc = "refused"
         /\ [t \in Thread |-> Idle][Miner].pc = "idle"
<1>1. call \in [Thread -> Calls] /\ Miner \in Thread
  BY ThreadAssumption, Zenon DEF TypeOK, Calls
<1> QED
  BY <1>1, Zenon DEF Calls, Idle

(* Executing the block of a call on the tip's state gives its post-state. *)
LEMMA Executed ==
  ASSUME LinkInv, call[Miner].pc \in Open
  PROVE  PostState[call[Miner].blk] = Append(PostState[Tip], call[Miner].blk)
BY Zenon, StateAssumption, ThreadAssumption DEF LinkInv, CallOnTip, TypeOK

(* The fault kinds of a behaviour are fixed. *)
LEMMA KindsKept ==
  ASSUME TypeOK, [Next]_vars, Thread = {Miner}
  PROVE  faults'.kinds = faults.kinds
<1>1. \A k : Fault(k) => faults'.kinds = faults.kinds
  BY Zenon DEF Fault, TypeOK
<1>2. CallStep(Miner) => faults' = faults
  BY Zenon DEF CallStep, Rules, Capture, Apply, VerifyRoot, Seal, ApplyValidators, AppendBlock, Restore,
         Refuse, Record, Vote, Save
<1>3. CallFault(Miner) => \E k : Fault(k)
  BY Zenon DEF CallFault, ApplyValidatorsFails, AppendFails, AppendFlushFails, RecordLost, SaveLost, CrashInSave
<1>4. Boot => faults' = faults
  BY Zenon DEF Boot, LoadSnapshot, StartRecovery, Reimport, FinishRecovery, InitIndex, RecoverPending, FinishInit
<1>5. Crash => \E k : Fault(k)
  BY Zenon DEF Crash
<1>6. \A b : BeginImport(Miner, b) \/ BeginMine(b) => faults' = faults
  BY Zenon DEF BeginImport, BeginMine
<1> QED
  BY <1>1, <1>2, <1>3, <1>4, <1>5, <1>6, Zenon DEF Next, vars

(* The faults outside Recoverable do not happen. *)
LEMMA Survivable ==
  ASSUME Recoverable
  PROVE  /\ ~ AppendFlushFails(Miner) /\ ~ RecordLost(Miner) /\ ~ CrashInSave(Miner)
         /\ Crash /\ Thread = {Miner} => ~ Speculating(Miner)
<1>1. \A k : Fault(k) => k \in {"crash", "io", "in_recovery"}
  BY Zenon DEF Fault, Recoverable
<1>2. /\ ~ Fault("io_flush") /\ ~ Fault("io_index") /\ ~ Fault("crash_save") /\ ~ Fault("crash_apply")
  BY <1>1
<1> QED
  BY <1>2, Zenon DEF AppendFlushFails, RecordLost, CrashInSave, Crash

(* Every step keeps the copies of the state together. *)
LEMMA CopiesStep ==
  ASSUME LinkInv, LinkInv', Recoverable, CopiesInv, SnapInv, [Next]_vars, Thread = {Miner}
  PROVE  CopiesInv'
<1>0. /\ TypeOK /\ TypeOK' /\ Tip \in Block /\ PostState[Tip] \in State /\ Height[Tip] = TipHeight
      /\ Tip = (IF TipHeight = 0 THEN Base ELSE chain[TipHeight]) /\ TipHeight \in 0 .. MaxHeight
      /\ \A h \in Heights : (chain[h] # None) <=> h <= TipHeight
      /\ PostState[Base] = << >> /\ MaxHeight \in Nat
  BY TipFacts, StateAssumption, BlockAssumption, Zenon DEF LinkInv, State
<1>1. chain' = chain => Tip' = Tip /\ TipHeight' = TipHeight
  BY TipKept, Zenon
<1> DEFINE c == call[Miner]
           d == call'[Miner]
<1>2. ASSUME CallStep(Miner) PROVE CopiesInv'
  <2>0. phase \in {"recover", "finish", "run"}
    <3>1. c.pc # "idle"
      BY <1>2, Zenon DEF CallStep, Rules, Capture, Apply, VerifyRoot, Seal, ApplyValidators, AppendBlock, Restore,
         Refuse, Record, Vote, Save
    <3>2. phase \notin {"load", "index", "pending"} /\ phase \in Phases
      BY <1>0, <3>1, Zenon DEF LinkInv, Booting, TypeOK
    <3> QED
      BY <3>2, Zenon DEF Phases
  <2>1. CASE Rules(Miner)
    BY <1>0, <1>1, <2>1, CallFields, Zenon DEF Rules, CopiesInv, PCs, state
  <2>2. CASE Capture(Miner)
    <3>1. d.pc = "apply" /\ d.pre = state
      BY <1>0, <2>2, ThreadAssumption DEF Capture, TypeOK
    <3> QED
      BY Zenon, <1>0, <1>1, <2>0, <2>2, <3>1 DEF Capture, CopiesInv, state
  <2>3. CASE Apply(Miner)
    <3>1. /\ c.pc = "apply" /\ UNCHANGED <<chain, vals, phase>>
          /\ d.pc = (IF c.blk \in BadApply THEN "restore" ELSE "root") /\ d.blk = c.blk /\ d.pre = c.pre
      <4>1. (IF c.blk \in BadApply THEN "restore" ELSE "root") \in PCs
        BY Zenon DEF PCs
      <4> QED
        BY <1>0, <2>3, <4>1, CallFields, Zenon DEF Apply
    <3>2. /\ ledger = PostState[Tip] /\ stores = PostState[Tip] /\ vals = PostState[Tip]
          /\ c.pre = <<PostState[Tip], PostState[Tip], PostState[Tip]>>
      BY <2>0, <3>1, Zenon DEF CopiesInv
    <3>3. PostState[c.blk] = Append(PostState[Tip], c.blk)
      BY <3>1, Executed, Zenon DEF Open
    <3>4. ledger' = PostState[c.blk] /\ stores' = PostState[c.blk]
      BY <2>3, <3>2, <3>3, Zenon DEF Apply
    <3> QED
      BY <1>1, <3>1, <3>2, <3>4, Zenon DEF CopiesInv
  <2>4. CASE VerifyRoot(Miner)
    BY <1>0, <1>1, <2>4, CallFields DEF VerifyRoot, CopiesInv, PCs, state
  <2>5. CASE Seal(Miner)
    BY <1>0, <1>1, <2>5, CallFields DEF Seal, CopiesInv, PCs, state
  <2>6. CASE ApplyValidators(Miner)
    <3>1. /\ c.pc = "vals" /\ d.pc = "append" /\ d.blk = c.blk /\ d.pre = c.pre
          /\ UNCHANGED <<chain, ledger, stores, phase>> /\ vals' = Append(vals, c.blk)
      BY <1>0, <2>6, CallFields, Zenon DEF ApplyValidators, PCs
    <3>2. /\ ledger = PostState[c.blk] /\ stores = PostState[c.blk] /\ vals = PostState[Tip]
          /\ c.pre = <<PostState[Tip], PostState[Tip], PostState[Tip]>>
      BY <3>1, Zenon DEF CopiesInv
    <3>3. vals' = PostState[c.blk]
      BY <3>1, <3>2, Executed, Zenon DEF Open
    <3> QED
      BY <1>1, <3>1, <3>2, <3>3, Zenon DEF CopiesInv
  <2>7. CASE AppendBlock(Miner)
    <3>1. d.pc = "record" /\ d.blk = c.blk
      BY <1>0, <2>7, CallFields, Zenon DEF AppendBlock, PCs
    <3>2. Tip' = c.blk
      BY <3>1, Zenon DEF LinkInv, CallOnTip, Done
    <3> QED
      BY <2>7, <3>1, <3>2, Zenon DEF AppendBlock, CopiesInv, state
  <2>8. CASE Restore(Miner)
    BY <1>0, <1>1, <2>8, CallFields DEF Restore, Restored, CopiesInv
  <2>9. CASE Refuse(Miner)
    BY <1>0, <1>1, <2>9, CallFields, Zenon DEF Refuse, Down, CopiesInv
  <2>10. CASE Record(Miner)
    BY <1>0, <1>1, <2>10, CallFields, Zenon DEF Record, CopiesInv, PCs, state
  <2>11. CASE Vote(Miner)
    BY <1>0, <1>1, <2>11, CallFields, Zenon DEF Vote, CopiesInv, PCs, state
  <2>12. CASE Save(Miner)
    BY <1>0, <1>1, <2>12, CallFields, Zenon DEF Save, CopiesInv, state
  <2> QED
    BY <1>2, <2>1, <2>2, <2>3, <2>4, <2>5, <2>6, <2>7, <2>8, <2>9, <2>10, <2>11, <2>12, Zenon DEF CallStep
<1>3. ASSUME CallFault(Miner) PROVE CopiesInv'
  <2>1. CASE ApplyValidatorsFails(Miner)
    BY <1>0, <1>1, <2>1, CallFields, Zenon DEF ApplyValidatorsFails, CopiesInv, PCs, state
  <2>2. CASE AppendFails(Miner)
    BY <1>0, <1>1, <2>2, CallFields, Zenon DEF AppendFails, CopiesInv, PCs, state
  <2>3. CASE SaveLost(Miner)
    BY <1>0, <1>1, <2>3, CallFields, Zenon DEF SaveLost, CopiesInv, state
  <2> QED
    BY <1>0, <1>3, <2>1, <2>2, <2>3, Survivable, Zenon DEF CallFault
<1>4. ASSUME NEW k \in {"import", "mine", "recover"}, NEW b \in Block, Begin(Miner, k, b),
             UNCHANGED <<chain, state>>, phase # "load"
      PROVE  CopiesInv'
  <2>1. c.pc = "idle" /\ d.pc \in {"rules", "refused"}
    BY <1>0, <1>4, BeginTypes, ThreadAssumption, Zenon
  <2> QED
    BY SMTT(30), <1>1, <1>4, <2>1 DEF CopiesInv, state
<1>5. ASSUME NEW b \in Block, BeginImport(Miner, b) PROVE CopiesInv'
  BY <1>4, <1>5, Zenon DEF BeginImport
<1>6. ASSUME NEW b \in Own, BeginMine(b) PROVE CopiesInv'
  BY <1>4, <1>6, BlockAssumption, Zenon DEF BeginMine
<1>7. ASSUME Boot PROVE CopiesInv'
  <2>1. CASE LoadSnapshot
    <3>1. snap.ledger = PostState[Tip]
      <4>1. CASE TipHeight = 0
        BY <1>0, <2>1, <4>1, Zenon DEF LoadSnapshot, SnapInv
      <4>2. CASE TipHeight # 0
        BY <1>0, <2>1, <4>2 DEF LoadSnapshot, SnapInv, Heights
      <4> QED
        BY SMTT(30), <4>1, <4>2
    <3>2. c.pc = "idle"
      BY <2>1, Zenon DEF LoadSnapshot, LinkInv, Booting
    <3> QED
      BY <1>0, <1>1, <2>1, <3>1, <3>2, Zenon DEF LoadSnapshot, CopiesInv
  <2>2. CASE StartRecovery
    <3>1. c.pc = "idle"
      BY <2>2, Zenon DEF StartRecovery, LinkInv, Booting
    <3>2. Tip' = Base
      BY <2>2, Zenon DEF StartRecovery, TipHeight, Tip
    <3> QED
      BY SMTT(30), <1>0, <2>2, <3>1, <3>2 DEF StartRecovery, CopiesInv
  <2>3. CASE Reimport
    <3>1. Head(queue) \in Block
      BY <1>0, <2>3 DEF Reimport, TypeOK
    <3> QED
      BY SMTT(30), <1>4, <2>3, <3>1 DEF Reimport
  <2>4. CASE FinishRecovery
    BY <1>1, <2>4, Zenon DEF FinishRecovery, CopiesInv, state
  <2>5. CASE InitIndex
    BY <1>1, <2>5, Zenon DEF InitIndex, CopiesInv, state
  <2>6. CASE RecoverPending
    <3>1. CASE \E b \in journal : Parent[b] = Tip
      <4>1. (CHOOSE b \in journal : Parent[b] = Tip) \in Block
        <5>1. journal \subseteq Block
          BY <1>0, BlockAssumption, Zenon DEF TypeOK
        <5> QED
          BY <3>1, <5>1, Zenon
      <4> QED
        BY <1>4, <2>6, <3>1, <4>1, Zenon DEF RecoverPending
    <3>2. CASE ~ \E b \in journal : Parent[b] = Tip
      BY <1>1, <2>6, <3>2, Zenon DEF RecoverPending, CopiesInv, state
    <3> QED
      BY <3>1, <3>2, Zenon
  <2>7. CASE FinishInit
    BY <1>1, <2>7, Zenon DEF FinishInit, CopiesInv, state
  <2> QED
    BY <1>7, <2>1, <2>2, <2>3, <2>4, <2>5, <2>6, <2>7, Zenon DEF Boot
<1>8. CASE Crash
  BY <1>0, <1>1, <1>8, CallFields, Survivable, Zenon DEF Crash, Down, CopiesInv, Speculating
<1>9. CASE UNCHANGED vars
  BY <1>1, <1>9, Zenon DEF vars, CopiesInv
<1> QED
  BY <1>2, <1>3, <1>5, <1>6, <1>7, <1>8, <1>9, Zenon DEF Next


(* A step that leaves chain, snapshot, phase and queue alone keeps the
   snapshot right, if the call does not enter the open part. *)
LEMMA SnapKept ==
  ASSUME SnapInv, UNCHANGED <<chain, snap, phase, queue>>,
         \/ call'[Miner].pc \notin Open
         \/ call[Miner].pc \in Open /\ call'[Miner].blk = call[Miner].blk
         \/ phase # "recover"
  PROVE  SnapInv'
<1>1. TipHeight' = TipHeight
  BY TipKept, Zenon
<1> QED
  BY <1>1, Zenon DEF SnapInv

(* Every step keeps the snapshot right. *)
LEMMA SnapStep ==
  ASSUME LinkInv, LinkInv', Recoverable, CopiesInv, SnapInv, [Next]_vars, Thread = {Miner}
  PROVE  SnapInv'
<1>0. /\ TypeOK /\ TypeOK' /\ Tip \in Block /\ Height[Tip] = TipHeight
      /\ Tip = (IF TipHeight = 0 THEN Base ELSE chain[TipHeight]) /\ TipHeight \in 0 .. MaxHeight
      /\ \A h \in Heights : (chain[h] # None) <=> h <= TipHeight
      /\ PostState[Base] = << >> /\ MaxHeight \in Nat
  BY TipFacts, StateAssumption, BlockAssumption, Zenon DEF LinkInv, State
<1>1. chain' = chain => Tip' = Tip /\ TipHeight' = TipHeight
  BY TipKept
<1> DEFINE c == call[Miner]
           d == call'[Miner]
(* the snapshot of the tip, written by save_balance_snapshot or at the end of recovery *)
<1>2. ASSUME snap' = [height |-> TipHeight, ledger |-> PostState[Tip]], UNCHANGED <<chain, queue>>, d.pc \notin Open
      PROVE  SnapInv'
  <2>1. snap'.height = TipHeight /\ snap'.ledger = PostState[Tip]
    BY SMTT(30), <1>2
  <2>2. \A i \in 1 .. Len(queue) : Height[queue[i]] > TipHeight /\ queue[i] \in Block
    BY <1>0 DEF LinkInv, Booting, TypeOK
  <2>3. \A i \in 1 .. Len(queue) : Height[queue[i]] # TipHeight
    BY SMTT(30), <1>0, <2>2, BlockAssumption
  <2> QED
    BY <1>0, <1>1, <1>2, <2>1, <2>3 DEF SnapInv, Heights
(* the process goes down *)
<1>3. ASSUME Down, UNCHANGED <<chain, snap>> PROVE SnapInv'
  <2>1. phase' = "load" /\ queue' = << >>
    BY <1>3, Zenon DEF Down
  <2>2. ~ \E i \in 1 .. Len(queue') : TRUE
    BY <2>1
  <2>3. phase' # "recover"
    BY <2>1, Zenon
  <2> QED
    BY ZenonT(40), <1>3, <2>1, <2>2, <2>3 DEF SnapInv
<1>4. ASSUME CallStep(Miner) PROVE SnapInv'
  <2>1. CASE Rules(Miner)
    BY <1>0, <2>1, CallFields, SnapKept DEF Rules, Open, PCs
  <2>2. CASE Capture(Miner)
    <3>1. d.blk = c.blk
      BY <1>0, <2>2, ThreadAssumption DEF Capture, TypeOK
    <3> QED
      BY <2>2, <3>1, SnapKept, Zenon DEF Capture, Open
  <2>3. CASE Apply(Miner)
    BY <1>0, <2>3, CallFields, SnapKept DEF Apply, Open, PCs
  <2>4. CASE VerifyRoot(Miner)
    BY <1>0, <2>4, CallFields, SnapKept DEF VerifyRoot, Open, PCs
  <2>5. CASE Seal(Miner)
    BY <1>0, <2>5, CallFields, SnapKept DEF Seal, Open, PCs
  <2>6. CASE ApplyValidators(Miner)
    BY <1>0, <2>6, CallFields, SnapKept, Zenon DEF ApplyValidators, Open, PCs
  <2>7. CASE AppendBlock(Miner)
    <3>1. /\ c.pc \in Open /\ d.pc = "record" /\ c.blk \in Block \ {Base} /\ Parent[c.blk] = Tip
          /\ c.blk \in Block
      BY <1>0, <2>7, CallFields, ThreadAssumption, Zenon DEF AppendBlock, LinkInv, CallOnTip, Open, PCs, TypeOK
    <3>2. /\ Height[c.blk] = TipHeight + 1 /\ TipHeight' = TipHeight + 1 /\ Height[c.blk] \in Heights
      BY Zenon, <1>0, <2>7, <3>1, Appended DEF AppendBlock, LinkInv
    <3>3. \A h \in Heights : chain'[h] = IF h = Height[c.blk] THEN c.blk ELSE chain[h]
      BY <1>0, <2>7, Zenon DEF AppendBlock, TypeOK
    <3>4. snap.height = Height[c.blk] => snap.ledger = PostState[c.blk]
      <4>1. CASE phase = "recover"
        BY <3>1, <4>1, Zenon DEF SnapInv
      <4>2. CASE phase # "recover"
        <5>1. phase \notin {"load", "recover"}
          BY SMTT(30), <2>7, <4>2 DEF AppendBlock, LinkInv, Booting
        <5>2. snap.height <= TipHeight /\ snap.height \in Nat /\ TipHeight \in Nat
          <6>1. snap.height <= TipHeight /\ snap \in [height : Nat, ledger : State]
            BY <1>0, <5>1, Zenon DEF SnapInv, TypeOK
          <6> QED
            BY <1>0, <6>1
        <5> QED
          BY <3>2, <5>2
      <4> QED
        BY <4>1, <4>2, Zenon
    <3>5. phase \notin {"load", "recover"} => snap.height <= TipHeight + 1
      BY <1>0 DEF SnapInv, TypeOK
    <3> QED
      BY <2>7, <3>1, <3>2, <3>3, <3>4, <3>5 DEF AppendBlock, SnapInv, Open
  <2>8. CASE Restore(Miner)
    BY <1>0, <2>8, CallFields, SnapKept, Zenon DEF Restore, Open
  <2>9. CASE Refuse(Miner)
    <3>1. CASE phase = "recover"
      BY <1>3, <2>9, <3>1, Zenon DEF Refuse
    <3>2. CASE phase # "recover"
      BY <1>0, <2>9, <3>2, CallFields, SnapKept, Zenon DEF Refuse, Open
    <3> QED
      BY <3>1, <3>2, Zenon
  <2>10. CASE Record(Miner)
    BY <1>0, <2>10, CallFields, SnapKept, Zenon DEF Record, Open, PCs
  <2>11. CASE Vote(Miner)
    BY <1>0, <2>11, CallFields, SnapKept, Zenon DEF Vote, Open, PCs
  <2>12. CASE Save(Miner)
    <3>1. c.blk = Tip /\ phase # "load"
      BY <2>12, Zenon DEF Save, LinkInv, CallOnTip, Booting, Done
    <3>2. ledger = PostState[Tip]
      BY <2>12, <3>1, Zenon DEF Save, CopiesInv
    <3>3. d.pc \notin Open
      BY <1>0, <2>12, CallFields, Zenon DEF Save, Open
    <3>4. snap' = [height |-> TipHeight, ledger |-> PostState[Tip]] /\ UNCHANGED <<chain, queue>>
      BY <1>0, <2>12, <3>1, <3>2, Zenon DEF Save
    <3> QED
      BY <1>2, <3>3, <3>4, Zenon
  <2> QED
    BY <1>4, <2>1, <2>2, <2>3, <2>4, <2>5, <2>6, <2>7, <2>8, <2>9, <2>10, <2>11, <2>12, Zenon DEF CallStep
<1>5. ASSUME CallFault(Miner) PROVE SnapInv'
  <2>1. CASE ApplyValidatorsFails(Miner)
    BY <1>0, <2>1, CallFields, SnapKept, Zenon DEF ApplyValidatorsFails, Open, PCs
  <2>2. CASE AppendFails(Miner)
    BY <1>0, <2>2, CallFields, SnapKept, Zenon DEF AppendFails, Open, PCs
  <2>3. CASE SaveLost(Miner)
    BY <1>0, <2>3, CallFields, SnapKept, Zenon DEF SaveLost, Open
  <2> QED
    BY <1>0, <1>5, <2>1, <2>2, <2>3, Survivable, Zenon DEF CallFault
<1>6. ASSUME NEW b \in Block, BeginImport(Miner, b) PROVE SnapInv'
  BY <1>6, SnapKept, Zenon DEF BeginImport
<1>7. ASSUME NEW b \in Own, BeginMine(b) PROVE SnapInv'
  BY <1>7, SnapKept, Zenon DEF BeginMine
<1>8. ASSUME Boot PROVE SnapInv'
  <2>1. CASE LoadSnapshot
    <3>1. UNCHANGED <<chain, snap, queue, call>> /\ phase' = "index" /\ snap.height = TipHeight
      BY Zenon, <2>1 DEF LoadSnapshot
    <3>2. snap'.height <= TipHeight' /\ phase' # "recover"
      BY <1>0, <1>1, <3>1
    <3> QED
      BY ZenonT(40), <3>1, <3>2 DEF SnapInv
  <2>2. CASE StartRecovery
    <3>1. d.pc = "idle"
      BY <2>2, Zenon DEF StartRecovery, LinkInv, Booting
    <3>2. \A i \in 1 .. Len(queue') : i \in Heights /\ queue'[i] = chain[i] /\ chain[i] # None /\ Height[chain[i]] = i
      BY <1>0, <2>2 DEF StartRecovery, StoredBlocks, Heights, LinkInv, ChainIsLinked
    <3>3. snap' = snap /\ phase' = "recover" /\ \A h \in Heights : chain'[h] = None
      BY <2>2, Zenon DEF StartRecovery
    <3>4. d.pc \notin Open
      BY <3>1, Zenon DEF Open
    <3>5. ASSUME NEW i \in 1 .. Len(queue'), snap'.height = Height[queue'[i]]
          PROVE  snap'.ledger = PostState[queue'[i]]
      <4>1. i \in Heights /\ queue'[i] = chain[i] /\ chain[i] # None /\ snap.height = i
        BY Zenon, <3>2, <3>3, <3>5
      <4> QED
        BY Zenon, <3>3, <4>1 DEF SnapInv
    <3> QED
      BY ZenonT(40), <3>3, <3>4, <3>5 DEF SnapInv
  <2>3. CASE Reimport
    <3>0. /\ queue \in Seq(Block) /\ Len(queue) \in Nat /\ Len(queue) >= 1
          /\ Head(queue) = queue[1] /\ Head(queue) \in Block
          /\ Len(queue') = Len(queue) - 1 /\ \A i \in 1 .. Len(queue') : queue'[i] = queue[i + 1]
      BY <1>0, <2>3 DEF Reimport, TypeOK
    <3>1. d.blk = queue[1]
      BY Zenon, <1>0, <2>3, <3>0, BeginTypes, ThreadAssumption DEF Reimport
    <3>2. \A i \in 1 .. Len(queue') : i + 1 \in 1 .. Len(queue)
      BY <3>0
    <3> QED
      BY <1>1, <2>3, <3>0, <3>1, <3>2 DEF Reimport, SnapInv
  <2>4. CASE FinishRecovery
    BY <1>0, <1>2, <2>4, Zenon DEF FinishRecovery, CopiesInv, Open
  <2>5. CASE InitIndex
    BY <1>1, <2>5, Zenon DEF InitIndex, SnapInv
  <2>6. CASE RecoverPending
    BY SMTT(30), <1>1, <2>6 DEF RecoverPending, SnapInv
  <2>7. CASE FinishInit
    BY <1>1, <2>7, Zenon DEF FinishInit, SnapInv
  <2> QED
    BY SMTT(30), <1>8, <2>1, <2>2, <2>3, <2>4, <2>5, <2>6, <2>7 DEF Boot
<1>9. CASE Crash
  BY SMTT(30), <1>3, <1>9 DEF Crash
<1>10. CASE UNCHANGED vars
  BY SMTT(30), <1>1, <1>10 DEF vars, SnapInv
<1> QED
  BY <1>4, <1>5, <1>6, <1>7, <1>8, <1>9, <1>10, Zenon DEF Next


-----------------------------------------------------------------------------
(* Header roots, the tx-seen index and the recorded validator sets. *)
(* Header roots are post-states, from the root check or the seal on. *)
RootInv ==
  /\ \A h \in Heights : chain[h] # None => HeaderRoot(chain[h]) = PostState[chain[h]]
  /\ call[Miner].pc \in {"vals", "append"} => HeaderRoot(call[Miner].blk) = PostState[call[Miner].blk]

(* The tx-seen index: complete when its marker is the tip, and whenever it is
   relied on; a block that passed the rules has no transaction of the chain. *)
IndexInv ==
  LET c == call[Miner] IN
  /\ seenTip <= TipHeight
  /\ seenTip = TipHeight => ChainTxs \subseteq seen
  /\ phase \notin {"load", "index"} /\ c.pc # "record" => ChainTxs \subseteq seen
  /\ c.pc = "record" => ChainTxs \subseteq seen \cup Txs[c.blk]
  /\ c.pc = "rules" /\ c.kind = "mine" => Txs[c.blk] \cap seen = {}
  /\ c.pc \in {"capture", "apply", "root", "vals", "append"} => Txs[c.blk] \cap ChainTxs = {}
  /\ \A g, h \in Heights : g # h /\ chain[g] # None /\ chain[h] # None =>
       Txs[chain[g]] \cap Txs[chain[h]] = {}

ImportInv == Recoverable => CopiesInv /\ SnapInv /\ RootInv /\ IndexInv

(* Nothing the header roots of stored blocks depend on changes. *)
LEMMA RootKept ==
  ASSUME RootInv, UNCHANGED <<chain, root>>,
         \/ call'[Miner].pc \notin {"vals", "append"}
         \/ call[Miner].pc \in {"vals", "append"} /\ call'[Miner].blk = call[Miner].blk
  PROVE  RootInv'
<1>1. \A b : HeaderRoot(b)' = HeaderRoot(b)
  BY Zenon DEF HeaderRoot
<1> QED
  BY <1>1, Zenon DEF RootInv

(* Every step keeps the header roots. *)
LEMMA RootStep ==
  ASSUME LinkInv, LinkInv', Recoverable, CopiesInv, RootInv, [Next]_vars, Thread = {Miner}
  PROVE  RootInv'
<1>0. /\ TypeOK /\ TypeOK' /\ Miner \in Thread /\ call[Miner].blk \in Block
  BY ThreadAssumption, Zenon DEF LinkInv, TypeOK
<1> DEFINE c == call[Miner]
           d == call'[Miner]
<1>1. ASSUME CallStep(Miner) PROVE RootInv'
  <2>1. CASE Rules(Miner)
    BY <1>0, <2>1, CallFields, RootKept, Zenon DEF Rules, PCs
  <2>2. CASE Capture(Miner)
    <3>1. d.pc = "apply"
      BY <1>0, <2>2 DEF Capture, TypeOK
    <3> QED
      BY <2>2, <3>1, RootKept, Zenon DEF Capture
  <2>3. CASE Apply(Miner)
    BY SMTT(30), <1>0, <2>3, CallFields, RootKept DEF Apply, PCs
  <2>4. CASE VerifyRoot(Miner)
    <3>1. d.pc = "vals" => HeaderRoot(c.blk) = PostState[c.blk]
      BY <1>0, <2>4, CallFields, Zenon DEF VerifyRoot, CopiesInv, PCs
    <3>2. UNCHANGED <<chain, root>> /\ d.blk = c.blk
      BY <1>0, <2>4, CallFields DEF VerifyRoot, PCs
    <3>3. d.pc \in {"vals", "restore"}
      BY SMTT(30), <1>0, <2>4, CallFields DEF VerifyRoot, PCs
    <3> QED
      BY <3>1, <3>2, <3>3, Zenon DEF RootInv, HeaderRoot
  <2>5. CASE Seal(Miner)
    <3>1. c.blk \in Own /\ Parent[c.blk] = Tip /\ c.blk # Base /\ ledger = PostState[c.blk]
      BY <2>5, Zenon DEF Seal, LinkInv, Booting, CallOnTip, CopiesInv, Open
    <3>2. d.blk = c.blk /\ chain' = chain /\ root' = [root EXCEPT ![c.blk] = ledger]
      BY <1>0, <2>5, CallFields DEF Seal, PCs
    <3>3. ASSUME NEW h \in Heights, chain[h] # None PROVE chain[h] # c.blk
      <4>1. Height[chain[h]] = h /\ h <= TipHeight /\ TipHeight \in Nat /\ h \in Nat
        BY <1>0, <3>3, TipFacts, BlockAssumption DEF LinkInv, ChainIsLinked, Heights
      <4>2. Height[c.blk] = TipHeight + 1
        BY SMTT(30), <1>0, <3>1, TipFacts, BlockAssumption DEF LinkInv
      <4> QED
        BY <4>1, <4>2
    <3>4. \A b : HeaderRoot(b)' = IF b = c.blk THEN PostState[c.blk] ELSE HeaderRoot(b)
      BY ZenonT(40), <1>0, <3>1, <3>2 DEF HeaderRoot, TypeOK
    <3> QED
      BY Zenon, <3>2, <3>3, <3>4 DEF RootInv
  <2>6. CASE ApplyValidators(Miner)
    BY <1>0, <2>6, CallFields, RootKept, Zenon DEF ApplyValidators, PCs
  <2>7. CASE AppendBlock(Miner)
    <3>1. d.pc = "record" /\ root' = root
      BY <1>0, <2>7, CallFields, Zenon DEF AppendBlock, PCs
    <3>2. \A h \in Heights : chain'[h] = c.blk \/ chain'[h] = chain[h]
      BY <1>0, <2>7, Zenon DEF AppendBlock, TypeOK
    <3>3. \A b : HeaderRoot(b)' = HeaderRoot(b)
      BY <3>1, Zenon DEF HeaderRoot
    <3>4. HeaderRoot(c.blk) = PostState[c.blk]
      BY <2>7, Zenon DEF AppendBlock, RootInv
    <3> QED
      BY Zenon, <3>1, <3>2, <3>3, <3>4 DEF RootInv
  <2>8. CASE Restore(Miner)
    BY <1>0, <2>8, CallFields, RootKept, Zenon DEF Restore
  <2>9. CASE Refuse(Miner)
    BY <1>0, <2>9, CallFields, RootKept, Zenon DEF Refuse, Down
  <2>10. CASE Record(Miner)
    BY <1>0, <2>10, CallFields, RootKept, Zenon DEF Record, PCs
  <2>11. CASE Vote(Miner)
    BY <1>0, <2>11, CallFields, RootKept, Zenon DEF Vote, PCs
  <2>12. CASE Save(Miner)
    BY <1>0, <2>12, CallFields, RootKept, Zenon DEF Save
  <2> QED
    BY <1>1, <2>1, <2>2, <2>3, <2>4, <2>5, <2>6, <2>7, <2>8, <2>9, <2>10, <2>11, <2>12, Zenon DEF CallStep
<1>2. ASSUME CallFault(Miner) PROVE RootInv'
  <2>1. CASE ApplyValidatorsFails(Miner)
    BY <1>0, <2>1, CallFields, RootKept, Zenon DEF ApplyValidatorsFails, PCs
  <2>2. CASE AppendFails(Miner)
    BY <1>0, <2>2, CallFields, RootKept, Zenon DEF AppendFails, PCs
  <2>3. CASE SaveLost(Miner)
    BY <1>0, <2>3, CallFields, RootKept, Zenon DEF SaveLost
  <2> QED
    BY <1>0, <1>2, <2>1, <2>2, <2>3, Survivable, Zenon DEF CallFault
<1>3. ASSUME NEW k \in {"import", "mine", "recover"}, NEW b \in Block, Begin(Miner, k, b), UNCHANGED <<chain, root>>
      PROVE  RootInv'
  <2>1. d.pc \in {"rules", "refused"}
    BY <1>0, <1>3, BeginTypes, Zenon
  <2> QED
    BY <1>3, <2>1, RootKept, Zenon
<1>4. ASSUME NEW b \in Block, BeginImport(Miner, b) PROVE RootInv'
  BY <1>3, <1>4, Zenon DEF BeginImport
<1>5. ASSUME NEW b \in Own, BeginMine(b) PROVE RootInv'
  BY <1>3, <1>5, BlockAssumption, Zenon DEF BeginMine
<1>6. ASSUME Boot PROVE RootInv'
  <2>1. CASE LoadSnapshot
    BY <2>1, RootKept, Zenon DEF LoadSnapshot
  <2>2. CASE StartRecovery
    <3>1. d.pc = "idle" /\ \A h \in Heights : chain'[h] = None
      BY <2>2, Zenon DEF StartRecovery, LinkInv, Booting
    <3> QED
      BY <3>1, Zenon DEF RootInv
  <2>3. CASE Reimport
    <3>1. Head(queue) \in Block
      BY <1>0, <2>3 DEF Reimport, TypeOK
    <3> QED
      BY <1>3, <2>3, <3>1, Zenon DEF Reimport
  <2>4. CASE FinishRecovery
    BY <2>4, RootKept, Zenon DEF FinishRecovery
  <2>5. CASE InitIndex
    BY <2>5, RootKept, Zenon DEF InitIndex
  <2>6. CASE RecoverPending
    <3>1. CASE \E b \in journal : Parent[b] = Tip
      <4>1. (CHOOSE b \in journal : Parent[b] = Tip) \in Block
        <5>1. journal \subseteq Block
          BY <1>0, BlockAssumption, Zenon DEF TypeOK
        <5> QED
          BY <3>1, <5>1, Zenon
      <4> QED
        BY <1>3, <2>6, <3>1, <4>1, Zenon DEF RecoverPending
    <3>2. CASE ~ \E b \in journal : Parent[b] = Tip
      BY <2>6, <3>2, RootKept, Zenon DEF RecoverPending
    <3> QED
      BY <3>1, <3>2, Zenon
  <2>7. CASE FinishInit
    BY <2>7, RootKept, Zenon DEF FinishInit
  <2> QED
    BY <1>6, <2>1, <2>2, <2>3, <2>4, <2>5, <2>6, <2>7, Zenon DEF Boot
<1>7. CASE Crash
  BY <1>0, <1>7, CallFields, RootKept, Zenon DEF Crash, Down
<1>8. CASE UNCHANGED vars
  BY <1>8, Zenon DEF vars, RootInv, HeaderRoot
<1> QED
  BY <1>1, <1>2, <1>4, <1>5, <1>6, <1>7, <1>8, Zenon DEF Next


(* The part of a call between the rules and the append. *)
Passed == {"capture", "apply", "root", "vals", "append"}

(* Nothing the index is compared with changes. *)
LEMMA IndexKept ==
  ASSUME IndexInv, UNCHANGED <<chain, seen, seenTip>>,
         phase' \in {"load", "index"} \/ (phase \notin {"load", "index"} /\ call[Miner].pc # "record"),
         call'[Miner].pc # "record",
         call'[Miner].pc \in Passed => call[Miner].pc \in Passed /\ call'[Miner].blk = call[Miner].blk,
         call'[Miner].pc = "rules" /\ call'[Miner].kind = "mine" => Txs[call'[Miner].blk] \cap seen = {}
  PROVE  IndexInv'
<1>1. TipHeight' = TipHeight /\ ChainTxs' = ChainTxs
  BY TipKept, Zenon DEF ChainTxs
<1> QED
  BY <1>1, Zenon DEF IndexInv, Passed

(* Every step keeps the index. *)
LEMMA IndexStep ==
  ASSUME LinkInv, LinkInv', Recoverable, IndexInv, [Next]_vars, Thread = {Miner}
  PROVE  IndexInv'
<1>0. /\ TypeOK /\ TypeOK' /\ Miner \in Thread /\ call[Miner].blk \in Block
      /\ TipHeight \in Nat /\ Height[Tip] = TipHeight /\ None \notin Block
  <2>1. TypeOK /\ TypeOK' /\ Miner \in Thread /\ None \notin Block
    BY ThreadAssumption, BlockAssumption, Zenon DEF LinkInv
  <2>2. call[Miner].blk \in Block
    BY <2>1, CallFields, Zenon DEF Calls
  <2>3. TipHeight \in 0 .. MaxHeight /\ Height[Tip] = TipHeight
    BY TipFacts, Zenon DEF LinkInv
  <2>4. TipHeight \in Nat
    BY <2>3
  <2> QED
    BY <2>1, <2>2, <2>3, <2>4, Zenon
<1>1. chain' = chain => TipHeight' = TipHeight /\ ChainTxs' = ChainTxs
  BY TipKept, Zenon DEF ChainTxs
<1> DEFINE c == call[Miner]
           d == call'[Miner]
<1>2. ASSUME EnsureIndex, chain' = chain
      PROVE  /\ seenTip' = TipHeight' /\ ChainTxs' \subseteq seen'
  BY <1>1, <1>2, Zenon DEF EnsureIndex, IndexInv
<1>3. ASSUME CallStep(Miner) PROVE IndexInv'
  <2>0. phase \notin {"load", "index"}
    BY <1>3, Zenon DEF LinkInv, Booting, CallStep, Rules, Capture, Apply, VerifyRoot, Seal, ApplyValidators,
         AppendBlock, Restore, Refuse, Record, Vote, Save
  <2>1. CASE Rules(Miner)
    <3>1. /\ d.pc \in {"refused", "capture"} /\ d.blk = c.blk
          /\ d.pc = "capture" => c.kind = "mine" \/ Txs[c.blk] \cap seen' = {}
      BY <1>0, <2>1, CallFields DEF Rules, PCs
    <3>2. chain' = chain /\ phase' = phase
      BY <2>1, Zenon DEF Rules
    <3>3. seenTip' <= TipHeight' /\ ChainTxs' \subseteq seen'
      <4>1. CASE c.kind = "mine"
        BY <1>1, <2>0, <2>1, <3>2, <4>1, Zenon DEF Rules, IndexInv, index
      <4>2. CASE c.kind # "mine"
        BY <1>0, <1>1, <1>2, <2>1, <3>2, <4>2 DEF Rules
      <4> QED
        BY <4>1, <4>2, Zenon
    <3>4. d.pc = "capture" => Txs[c.blk] \cap seen' = {}
      BY <2>1, <3>1, Zenon DEF Rules, IndexInv, index
    <3>5. \A g, h \in Heights : g # h /\ chain'[g] # None /\ chain'[h] # None => Txs[chain'[g]] \cap Txs[chain'[h]] = {}
      BY <3>2, Zenon DEF IndexInv
    <3> QED
      BY <3>1, <3>3, <3>4, <3>5, Zenon DEF IndexInv
  <2>2. CASE Capture(Miner)
    <3>1. d.pc = "apply" /\ d.blk = c.blk
      BY <1>0, <2>2 DEF Capture, TypeOK
    <3> QED
      BY <2>0, <2>2, <3>1, IndexKept, Zenon DEF Capture, Passed, index
  <2>3. CASE Apply(Miner)
    BY <1>0, <2>0, <2>3, CallFields, IndexKept DEF Apply, PCs, Passed, index
  <2>4. CASE VerifyRoot(Miner)
    BY <1>0, <2>0, <2>4, CallFields, IndexKept DEF VerifyRoot, PCs, Passed, index
  <2>5. CASE Seal(Miner)
    BY <1>0, <2>0, <2>5, CallFields, IndexKept DEF Seal, PCs, Passed, index
  <2>6. CASE ApplyValidators(Miner)
    BY <1>0, <2>0, <2>6, CallFields, IndexKept, Zenon DEF ApplyValidators, PCs, Passed, index
  <2>7. CASE AppendBlock(Miner)
    <3>1. /\ d.pc = "record" /\ d.blk = c.blk /\ UNCHANGED <<seen, seenTip>>
      BY <1>0, <2>7, CallFields, Zenon DEF AppendBlock, PCs, index
    <3>2. c.blk \in Block \ {Base} /\ Parent[c.blk] = Tip
      BY <1>0, <2>7, Zenon DEF AppendBlock, LinkInv, CallOnTip, Open
    <3>3. TipHeight' = TipHeight + 1
      BY ZenonT(40), <1>0, <2>7, <3>2, Appended DEF AppendBlock, LinkInv
    <3>4. \A h \in Heights : chain'[h] = IF h = Height[c.blk] THEN c.blk ELSE chain[h]
      BY <1>0, <2>7, Zenon DEF AppendBlock, TypeOK
    <3>5. ChainTxs' \subseteq ChainTxs \cup Txs[c.blk]
      BY <3>4 DEF ChainTxs
    <3>6. Txs[c.blk] \cap ChainTxs = {} /\ ChainTxs \subseteq seen
      BY <2>0, <2>7, Zenon DEF AppendBlock, IndexInv
    <3>7. \A h \in Heights : chain[h] # None => Txs[chain[h]] \subseteq ChainTxs
      BY Zenon DEF ChainTxs
    <3>8. \A g, h \in Heights : g # h /\ chain'[g] # None /\ chain'[h] # None => Txs[chain'[g]] \cap Txs[chain'[h]] = {}
      <4> SUFFICES ASSUME NEW g \in Heights, NEW h \in Heights, g # h, chain'[g] # None, chain'[h] # None
                   PROVE  Txs[chain'[g]] \cap Txs[chain'[h]] = {}
        BY Zenon
      <4>1. CASE g # Height[c.blk] /\ h # Height[c.blk]
        BY <3>4, <4>1, Zenon DEF IndexInv
      <4>2. CASE g = Height[c.blk]
        BY <3>4, <3>6, <3>7, <4>2, Zenon
      <4>3. CASE h = Height[c.blk]
        BY SMTT(30), <3>4, <3>6, <3>7, <4>3
      <4> QED
        BY <4>1, <4>2, <4>3, Zenon
    <3>9. seenTip' <= TipHeight' /\ seenTip' # TipHeight'
      BY SMTT(30), <1>0, <3>1, <3>3 DEF IndexInv, TypeOK
    <3> QED
      BY <3>1, <3>5, <3>6, <3>8, <3>9, Zenon DEF IndexInv
  <2>8. CASE Restore(Miner)
    BY <1>0, <2>0, <2>8, CallFields, IndexKept, Zenon DEF Restore, Passed, index
  <2>9. CASE Refuse(Miner)
    BY <1>0, <2>0, <2>9, CallFields, IndexKept, Zenon DEF Refuse, Down, Passed, index
  <2>10. CASE Record(Miner)
    <3>1. d.pc = "vote" /\ c.blk = Tip /\ chain' = chain
      BY <1>0, <2>10, CallFields, Zenon DEF Record, PCs, LinkInv, CallOnTip, Done
    <3>2. seenTip' = TipHeight' /\ ChainTxs' \subseteq seen'
      BY <1>0, <1>1, <2>10, <3>1, Zenon DEF Record, IndexInv
    <3> QED
      BY <1>0, <1>1, <3>1, <3>2 DEF IndexInv
  <2>11. CASE Vote(Miner)
    BY <1>0, <2>0, <2>11, CallFields, IndexKept, Zenon DEF Vote, PCs, Passed, index
  <2>12. CASE Save(Miner)
    BY <1>0, <2>0, <2>12, CallFields, IndexKept, Zenon DEF Save, Passed, index
  <2> QED
    BY SMTT(30), <1>3, <2>1, <2>2, <2>3, <2>4, <2>5, <2>6, <2>7, <2>8, <2>9, <2>10, <2>11, <2>12 DEF CallStep
<1>4. ASSUME CallFault(Miner) PROVE IndexInv'
  <2>0. phase \notin {"load", "index"}
    BY <1>4, Zenon DEF LinkInv, Booting, CallFault, ApplyValidatorsFails, AppendFails, AppendFlushFails, RecordLost,
         SaveLost, CrashInSave
  <2>1. CASE ApplyValidatorsFails(Miner)
    BY <1>0, <2>0, <2>1, CallFields, IndexKept, Zenon DEF ApplyValidatorsFails, PCs, Passed, index
  <2>2. CASE AppendFails(Miner)
    BY <1>0, <2>0, <2>2, CallFields, IndexKept, Zenon DEF AppendFails, PCs, Passed, index
  <2>3. CASE SaveLost(Miner)
    BY <1>0, <2>0, <2>3, CallFields, IndexKept, Zenon DEF SaveLost, Passed, index
  <2> QED
    BY <1>0, <1>4, <2>1, <2>2, <2>3, Survivable, Zenon DEF CallFault
<1>5. ASSUME NEW k \in {"import", "mine", "recover"}, NEW b \in Block, Begin(Miner, k, b),
             UNCHANGED <<chain, seen, seenTip>>, phase \notin {"load", "index"},
             k = "mine" => Txs[b] \cap seen = {}
      PROVE  IndexInv'
  <2>1. d.pc \in {"rules", "refused"} /\ c.pc = "idle" /\ d.kind = k /\ d.blk = b
    BY <1>0, <1>5, BeginTypes, Zenon
  <2> QED
    BY <1>5, <2>1, IndexKept, Zenon DEF Passed
<1>6. ASSUME NEW b \in Block, BeginImport(Miner, b) PROVE IndexInv'
  BY <1>5, <1>6, Zenon DEF BeginImport, index
<1>7. ASSUME NEW b \in Own, BeginMine(b) PROVE IndexInv'
  BY <1>5, <1>7, BlockAssumption, Zenon DEF BeginMine, index
<1>8. ASSUME Boot PROVE IndexInv'
  <2>1. CASE LoadSnapshot
    <3>1. d.pc = "idle"
      BY <2>1, Zenon DEF LoadSnapshot, LinkInv, Booting
    <3> QED
      BY SMTT(30), <2>1, <3>1, IndexKept DEF LoadSnapshot, Passed, index
  <2>2. CASE StartRecovery
    <3>1. d.pc = "idle" /\ \A h \in Heights : chain'[h] = None
      BY <2>2, Zenon DEF StartRecovery, LinkInv, Booting
    <3>2. ChainTxs' = {} /\ TipHeight' = 0 /\ seenTip' = -1
      BY SMTT(30), <2>2, <3>1 DEF ChainTxs, TipHeight, StartRecovery
    <3> QED
      BY <3>1, <3>2 DEF IndexInv
  <2>3. CASE Reimport
    <3>1. Head(queue) \in Block
      BY SMTT(30), <1>0, <2>3 DEF Reimport, TypeOK
    <3> QED
      BY <1>5, <2>3, <3>1, Zenon DEF Reimport, index
  <2>4. CASE FinishRecovery
    BY ZenonT(40), <2>4, IndexKept DEF FinishRecovery, Passed, index
  <2>5. CASE InitIndex
    <3>1. d.pc = "idle" /\ chain' = chain
      BY <2>5, Zenon DEF InitIndex, LinkInv, Booting
    <3>2. seenTip' = TipHeight' /\ ChainTxs' \subseteq seen'
      BY <1>2, <2>5, <3>1, Zenon DEF InitIndex
    <3> QED
      BY SMTT(30), <1>0, <1>1, <3>1, <3>2 DEF IndexInv
  <2>6. CASE RecoverPending
    <3>0. UNCHANGED <<chain, seen, seenTip>> /\ phase \notin {"load", "index"} /\ c.pc = "idle"
      BY SMTT(30), <2>6 DEF RecoverPending, LinkInv, Booting, index
    <3>1. CASE \E b \in journal : Parent[b] = Tip
      <4>1. (CHOOSE b \in journal : Parent[b] = Tip) \in Block
        BY <1>0, <3>1, BlockAssumption, Zenon DEF TypeOK
      <4> QED
        BY Zenon, <1>5, <2>6, <3>0, <3>1, <4>1 DEF RecoverPending
    <3>2. CASE ~ \E b \in journal : Parent[b] = Tip
      BY <2>6, <3>0, <3>2, IndexKept, Zenon DEF RecoverPending, Passed
    <3> QED
      BY SMTT(30), <3>1, <3>2
  <2>7. CASE FinishInit
    BY <2>7, IndexKept, Zenon DEF FinishInit, Passed, index
  <2> QED
    BY <1>8, <2>1, <2>2, <2>3, <2>4, <2>5, <2>6, <2>7, Zenon DEF Boot
<1>9. CASE Crash
  <2>1. d.pc = "idle" /\ phase' = "load" /\ UNCHANGED <<chain, seen, seenTip>>
    BY <1>0, <1>9, CallFields, Zenon DEF Crash, Down, index
  <2> QED
    BY <2>1, IndexKept, Zenon DEF Passed
<1>10. CASE UNCHANGED vars
  <2>1. UNCHANGED <<chain, seen, seenTip, phase, call>>
    BY <1>10, Zenon DEF vars
  <2>2. UNCHANGED <<TipHeight, ChainTxs>>
    BY <1>1, <2>1, Zenon
  <2> QED
    BY <2>1, <2>2, Zenon DEF IndexInv
<1> QED
  BY SMTT(30), <1>3, <1>4, <1>6, <1>7, <1>8, <1>9, <1>10 DEF Next

-----------------------------------------------------------------------------
(* The theorems                                                            *)

(* On it the three copies are empty, and the snapshot and the index fit. *)
LEMMA ImportInit ==
  ASSUME Init PROVE ImportInv
<1>0. Miner \in Thread /\ PostState[Base] = << >> /\ MaxHeight \in Nat
  BY ThreadAssumption, StateAssumption, BlockAssumption, Zenon
<1>1. call[Miner].pc = "idle" /\ \A h \in Heights : chain[h] = None
  BY <1>0, Zenon DEF Init, Idle
<1>2. TipHeight = 0 /\ Tip = Base /\ ChainTxs = {}
  BY <1>1, Zenon DEF TipHeight, Tip, ChainTxs
<1>3. CopiesInv
  BY SMTT(30), <1>0, <1>1, <1>2 DEF Init, CopiesInv
<1>4. SnapInv
  BY <1>1, <1>2 DEF Init, SnapInv, Open
<1>5. RootInv
  BY <1>1, Zenon DEF RootInv
<1>6. IndexInv
  BY <1>1, <1>2 DEF Init, IndexInv
<1> QED
  BY <1>3, <1>4, <1>5, <1>6, Zenon DEF ImportInv

(* Every step keeps both invariants; the second only while the kinds of fault
   are those it allows, and those never change. *)
LEMMA ImportStep ==
  ASSUME LinkInv, ImportInv, [Next]_vars, Thread = {Miner}
  PROVE  LinkInv' /\ ImportInv'
<1>1. LinkInv' /\ TypeOK
  BY LinkStep, Zenon DEF LinkInv
<1>2. Recoverable' => Recoverable
  BY <1>1, KindsKept, Zenon DEF Recoverable
<1>3. Recoverable => (CopiesInv /\ SnapInv /\ RootInv /\ IndexInv)'
  BY <1>1, CopiesStep, SnapStep, RootStep, IndexStep, Zenon DEF ImportInv
<1> QED
  BY <1>1, <1>2, <1>3, Zenon DEF ImportInv

(* Both invariants hold throughout. *)
LEMMA ImportInvariant ==
  ASSUME Thread = {Miner}
  PROVE  Spec => [](LinkInv /\ ImportInv)
<1>1. Init => LinkInv /\ ImportInv
  BY LinkInit, ImportInit, Zenon
<1>2. LinkInv /\ ImportInv /\ [Next]_vars => (LinkInv /\ ImportInv)'
  BY ImportStep, Zenon
<1> QED
  BY <1>1, <1>2, PTL DEF Spec

(* Every variable keeps its shape, under every fault of the model. *)
THEOREM TypesHold ==
  ASSUME Thread = {Miner}
  PROVE  Spec => []TypeOK
<1>1. LinkInv => TypeOK
  BY Zenon DEF LinkInv
<1> QED
  BY <1>1, ImportInvariant, PTL

(* The stored chain is linked and has no gap, under every fault of the model:
   crashes and lost writes anywhere, recoveries cut short any number of times. *)
THEOREM ChainStaysLinked ==
  ASSUME Thread = {Miner}
  PROVE  Spec => []ChainIsLinked
<1>1. LinkInv => ChainIsLinked
  BY Zenon DEF LinkInv
<1> QED
  BY <1>1, ImportInvariant, PTL

(* A running node never replaces or drops a stored block: append_block, which
   inserts at the block's height without looking, always finds it free. *)
THEOREM BlocksStay ==
  ASSUME Thread = {Miner}
  PROVE  Spec => StoredBlocksStay
<1>1. ASSUME LinkInv, [Next]_vars, phase = "run", NEW h \in Heights, chain[h] # None
      PROVE  chain'[h] = chain[h]
  <2>1. CASE chain' = chain
    BY SMTT(30), <2>1
  <2>2. ASSUME AppendBlock(Miner) \/ AppendFlushFails(Miner) PROVE chain'[h] = chain[h]
    <3>1. /\ call[Miner].blk \in Block \ {Base} /\ Parent[call[Miner].blk] = Tip
          /\ chain' = [chain EXCEPT ![Height[call[Miner].blk]] = call[Miner].blk]
      BY <1>1, <2>2, ThreadAssumption, Zenon DEF AppendBlock, AppendFlushFails, LinkInv, CallOnTip, Open, TypeOK
    <3>2. TypeOK /\ TypeOK' /\ Dense /\ ChainIsLinked
      BY SMTT(30), <1>1, LinkStep DEF LinkInv
    <3>3. chain[Height[call[Miner].blk]] = None
      BY Zenon, <3>1, <3>2, Appended
    <3> QED
      BY Zenon, <1>1, <3>1, <3>2, <3>3 DEF TypeOK
  <2>3. CallStep(Miner) => chain' = chain \/ AppendBlock(Miner)
    BY Zenon DEF CallStep, Rules, Capture, Apply, VerifyRoot, Seal, ApplyValidators, Restore, Refuse, Record, Vote, Save
  <2>4. CallFault(Miner) => chain' = chain \/ AppendFlushFails(Miner)
    BY Zenon DEF CallFault, ApplyValidatorsFails, AppendFails, RecordLost, SaveLost, CrashInSave
  <2>5. Boot => chain' = chain
    BY <1>1, Zenon DEF Boot, LoadSnapshot, StartRecovery, Reimport, FinishRecovery, InitIndex, RecoverPending, FinishInit
  <2>6. \A b : BeginImport(Miner, b) \/ BeginMine(b) \/ Crash => chain' = chain
    BY Zenon DEF BeginImport, BeginMine, Crash
  <2> QED
    BY <1>1, <2>1, <2>2, <2>3, <2>4, <2>5, <2>6, Zenon DEF Next, vars
<1>2. LinkInv /\ [Next]_vars =>
        [phase = "run" => \A h \in Heights : chain[h] # None => chain'[h] = chain[h]]_vars
  BY <1>1, Zenon
<1> QED
  BY <1>2, ImportInvariant, PTL DEF Spec, StoredBlocksStay

(* At rest the maps, the stores and the validators are those of the stored
   chain, after refused blocks, failed writes, and crashes outside a
   speculative application, however often init has to start again. *)
THEOREM StateFollowsChain ==
  ASSUME Thread = {Miner}
  PROVE  Spec => []StateIsTheChains
<1>1. LinkInv /\ ImportInv => StateIsTheChains
  BY ThreadAssumption, Zenon DEF ImportInv, CopiesInv, StateIsTheChains, Quiet
<1> QED
  BY <1>1, ImportInvariant, PTL

(* Every stored block carries the root of its own post-state. *)
THEOREM RootsHold ==
  ASSUME Thread = {Miner}
  PROVE  Spec => []HeaderRootsHold
<1>1. ImportInv => HeaderRootsHold
  BY Zenon DEF ImportInv, RootInv, HeaderRootsHold
<1> QED
  BY <1>1, ImportInvariant, PTL

(* No transaction is in two stored blocks: the index that
   check_block_tx_uniqueness and mine_pending rely on is complete whenever
   they read it. *)
THEOREM NoReplays ==
  ASSUME Thread = {Miner}
  PROVE  Spec => []NoReplayedTx
<1>1. ImportInv => NoReplayedTx
  BY Zenon DEF ImportInv, IndexInv, NoReplayedTx
<1> QED
  BY <1>1, ImportInvariant, PTL


-----------------------------------------------------------------------------
(* Recoveries that are not cut short                                       *)

Calm == Recoverable /\ "in_recovery" \notin faults.kinds

(* The blocks recover_from_history has read and not yet appended again. *)
Ahead == {queue[i] : i \in 1 .. Len(queue)} \cup
         {b \in {call[Miner].blk} : phase = "recover" /\ call[Miner].pc \in Open}

(* They were blocks of the chain, so import_block accepts each of them again:
   recovery neither refuses nor rolls back. *)
LineInv ==
  LET c == call[Miner] IN
  /\ phase = "recover" => c.pc \notin {"refused", "restore"} /\ seen \subseteq ChainTxs
  /\ \A h \in Heights : chain[h] # None => chain[h] \notin BadApply
  /\ c.pc \in {"root", "vals", "append"} => c.blk \notin BadApply
  /\ \A b \in Ahead : b \notin BadApply /\ HeaderRoot(b) = PostState[b] /\ Txs[b] \cap ChainTxs = {}
  /\ \A a, b \in Ahead : a # b => Txs[a] \cap Txs[b] = {}
  /\ queue # << >> => Parent[queue[1]] = IF c.pc \in Open THEN c.blk ELSE Tip
  /\ \A i \in 1 .. Len(queue) - 1 : Parent[queue[i + 1]] = queue[i]

(* A recorded set is that of the block below it, stored or still ahead, and
   none is recorded beyond those blocks. *)
SetsInv ==
  /\ sets[1] # None => sets[1] = << >>
  /\ \A h \in Heights : chain[h] # None /\ sets[h + 1] # None => sets[h + 1] = PostState[chain[h]]
  /\ \A b \in Ahead : sets[Height[b] + 1] # None => sets[Height[b] + 1] = PostState[b]
  /\ \A h \in 1 .. MaxHeight + 1 :
       sets[h] # None /\ h > TipHeight + 1 => \E b \in Ahead : h <= Height[b] + 1

RecordInv == Calm => LineInv /\ SetsInv


(* The blocks ahead lie above the tip, and there are none outside recovery. *)
LEMMA AheadFacts ==
  ASSUME LinkInv
  PROVE  /\ \A b \in Ahead : /\ b \in Block \ {Base} /\ Height[b] \in Nat /\ Height[b] > TipHeight
                             /\ Height[b] + 1 \in 1 .. MaxHeight + 1
         /\ phase # "recover" => Ahead = {} /\ queue = << >>
         /\ TipHeight \in 0 .. MaxHeight /\ MaxHeight \in Nat /\ Height[Tip] = TipHeight
<1>0. /\ TypeOK /\ TipHeight \in 0 .. MaxHeight /\ MaxHeight \in Nat /\ Tip \in Block /\ Height[Tip] = TipHeight
      /\ call[Miner].blk \in Block
  BY SMTT(30), TipFacts, BlockAssumption, ThreadAssumption DEF LinkInv, TypeOK
<1>1. phase # "recover" => Ahead = {} /\ queue = << >>
  BY SMTT(30) DEF LinkInv, Booting, Ahead
<1>2. ASSUME NEW b \in Ahead
      PROVE  b \in Block \ {Base} /\ Height[b] > TipHeight
  <2>1. CASE \E i \in 1 .. Len(queue) : b = queue[i]
    BY <1>0, <2>1 DEF LinkInv, Booting, TypeOK
  <2>2. CASE b = call[Miner].blk /\ call[Miner].pc \in Open
    BY <1>0, <2>2, BlockAssumption DEF LinkInv, CallOnTip
  <2> QED
    BY <2>1, <2>2, Zenon DEF Ahead
<1>3. \A b \in Block : Height[b] \in Nat /\ Height[b] <= MaxHeight
  BY BlockAssumption, Zenon
<1>4. \A b \in Ahead : Height[b] \in Nat /\ Height[b] + 1 \in 1 .. MaxHeight + 1
  BY <1>0, <1>2, <1>3
<1> QED
  BY SMTT(30), <1>0, <1>1, <1>2, <1>4

(* A step of a call that stores nothing and records no set. *)
LEMMA LineKept ==
  ASSUME LinkInv, LineInv, SetsInv, UNCHANGED <<chain, queue, phase>>,
         phase = "recover" =>
           /\ call'[Miner].pc \in Open <=> call[Miner].pc \in Open
           /\ call[Miner].pc \in Open => call'[Miner].blk = call[Miner].blk
           /\ call'[Miner].pc \notin {"refused", "restore"}
           /\ seen' \subseteq ChainTxs /\ root' = root,
         call'[Miner].pc \in {"root", "vals", "append"} => call'[Miner].blk \notin BadApply
  PROVE  LineInv' /\ Ahead' = Ahead /\ (sets' = sets => SetsInv')
<1>1. UNCHANGED <<TipHeight, Tip, ChainTxs>>
  BY TipKept, Zenon DEF ChainTxs
<1>2. CASE phase = "recover"
  <2>1. Ahead' = Ahead
    BY <1>2, Zenon DEF Ahead
  <2>2. \A b : HeaderRoot(b)' = HeaderRoot(b)
    BY SMTT(30), <1>2 DEF HeaderRoot
  <2>3. LineInv'
    BY SMTT(30), <1>1, <1>2, <2>1, <2>2 DEF LineInv
  <2> QED
    BY SMTT(30), <1>1, <2>1, <2>3 DEF SetsInv
<1>3. CASE phase # "recover"
  <2>1. Ahead = {} /\ queue = << >> /\ Ahead' = {}
    BY ZenonT(40), <1>3, AheadFacts DEF Ahead
  <2>2. LineInv'
    BY <1>1, <1>3, <2>1, Zenon DEF LineInv
  <2> QED
    BY ZenonT(40), <1>1, <2>1, <2>2 DEF SetsInv
<1> QED
  BY <1>2, <1>3, Zenon

(* record_validator_set_for above the tip, when the validators are the tip's. *)
LEMMA SetsRecorded ==
  ASSUME LinkInv, SetsInv, chain' = chain, Ahead' = Ahead, vals = PostState[Tip], RecordSetFor(TipHeight + 1)
  PROVE  SetsInv'
<1>1. UNCHANGED <<TipHeight, Tip>>
  BY SMTT(30), TipKept
<1>2. /\ TipHeight \in 0 .. MaxHeight /\ MaxHeight \in Nat /\ Tip = (IF TipHeight = 0 THEN Base ELSE chain[TipHeight])
      /\ \A h \in Heights : (chain[h] # None) <=> h <= TipHeight
      /\ sets \in [1 .. MaxHeight + 1 -> State \cup {None}]
      /\ PostState[Base] = << >>
  BY ZenonT(40), TipFacts, BlockAssumption, StateAssumption DEF LinkInv, TypeOK
<1>3. CASE sets' = sets
  BY Zenon, <1>1, <1>3 DEF SetsInv
<1>4. CASE sets' = [sets EXCEPT ![TipHeight + 1] = PostState[Tip]]
  <2>1. \A h \in 1 .. MaxHeight + 1 : sets'[h] = IF h = TipHeight + 1 THEN PostState[Tip] ELSE sets[h]
    BY <1>2, <1>4, Zenon
  <2>2. sets'[1] # None => sets'[1] = << >>
    BY SMTT(30), <1>2, <2>1 DEF SetsInv
  <2>3. \A h \in Heights : chain[h] # None /\ sets'[h + 1] # None => sets'[h + 1] = PostState[chain[h]]
    BY SMTT(30), <1>2, <2>1 DEF SetsInv, Heights
  <2>4. \A b \in Ahead : sets'[Height[b] + 1] # None => sets'[Height[b] + 1] = PostState[b]
    BY SMTT(30), <1>2, <2>1, AheadFacts DEF SetsInv
  <2>5. \A h \in 1 .. MaxHeight + 1 : sets'[h] # None /\ h > TipHeight + 1 => \E b \in Ahead : h <= Height[b] + 1
    <3> SUFFICES ASSUME NEW h \in 1 .. MaxHeight + 1, sets'[h] # None, h > TipHeight + 1
                 PROVE  \E b \in Ahead : h <= Height[b] + 1
      BY Zenon
    <3>1. h # TipHeight + 1
      BY <1>2
    <3>2. sets[h] # None
      BY <2>1, <3>1, Zenon
    <3> QED
      BY <3>2, Zenon DEF SetsInv
  <2> QED
    BY <1>1, <2>2, <2>3, <2>4, <2>5, Zenon DEF SetsInv
<1> QED
  BY <1>3, <1>4, Zenon DEF RecordSetFor

(* The process goes down, or init goes on, outside recovery. *)
LEMMA LineOutside ==
  ASSUME LinkInv, LineInv, SetsInv, UNCHANGED <<chain, sets>>,
         phase # "recover" \/ Ahead = {}, phase' # "recover", queue' = << >>,
         call'[Miner].pc \notin {"root", "vals", "append"}
  PROVE  LineInv' /\ SetsInv'
<1>1. UNCHANGED <<TipHeight, Tip, ChainTxs>>
  BY TipKept, Zenon DEF ChainTxs
<1>2. Ahead = {}
  BY AheadFacts, Zenon
<1>3. Ahead' = {}
  BY DEF Ahead
<1> QED
  BY <1>1, <1>2, <1>3 DEF LineInv, SetsInv


(* Every step keeps the line of blocks and the recorded sets. *)
LEMMA LineStep ==
  ASSUME LinkInv, LinkInv', Calm, CopiesInv, RootInv, IndexInv, LineInv, SetsInv, [Next]_vars, Thread = {Miner}
  PROVE  LineInv' /\ SetsInv'
<1> DEFINE c == call[Miner]
           d == call'[Miner]
           Goal == LineInv' /\ SetsInv'
<1>0. /\ TypeOK /\ TypeOK' /\ Miner \in Thread /\ c.blk \in Block /\ Recoverable
      /\ TipHeight \in 0 .. MaxHeight /\ MaxHeight \in Nat /\ Height[Tip] = TipHeight /\ None \notin Block
      /\ \A h \in Heights : (chain[h] # None) <=> h <= TipHeight
  <2>1. TypeOK /\ TypeOK' /\ Miner \in Thread /\ MaxHeight \in Nat /\ None \notin Block /\ Recoverable
    BY ThreadAssumption, BlockAssumption, Zenon DEF LinkInv, Calm
  <2>2. c.blk \in Block
    BY <2>1, CallFields, Zenon DEF Calls
  <2> QED
    BY <2>1, <2>2, TipFacts, Zenon DEF LinkInv
<1>1. phase = "recover" /\ c.pc \in Open =>
        /\ c.blk \in Ahead /\ c.blk \notin BadApply /\ HeaderRoot(c.blk) = PostState[c.blk]
        /\ Txs[c.blk] \cap ChainTxs = {}
  BY Zenon DEF Ahead, LineInv
<1>2. \A k : Fault(k) => phase # "recover"
  BY Zenon DEF Fault, Calm
<1>3. ASSUME CallStep(Miner) PROVE Goal
  <2>1. CASE Rules(Miner)
    <3>1. /\ d.pc \in {"refused", "capture"} /\ d.blk = c.blk
          /\ d.pc = "refused" => c.kind # "mine" /\ Txs[c.blk] \cap seen' # {}
      BY <1>0, <2>1, CallFields DEF Rules, PCs
    <3>2. phase = "recover" => seen' \subseteq ChainTxs
      BY <2>1, Zenon DEF Rules, EnsureIndex, LineInv, index
    <3>3. phase = "recover" => d.pc = "capture" /\ c.pc \in Open
      BY <1>1, <2>1, <3>1, <3>2, Zenon DEF Rules, Open
    <3>4. UNCHANGED <<chain, queue, phase, root, sets>>
      BY <2>1, Zenon DEF Rules
    <3> QED
      BY <3>1, <3>2, <3>3, <3>4, LineKept, Zenon DEF Open
  <2>2. CASE Capture(Miner)
    <3>1. d.pc = "apply" /\ d.blk = c.blk
      BY <1>0, <2>2 DEF Capture, TypeOK
    <3>2. UNCHANGED <<chain, queue, phase, root, sets, seen>> /\ c.pc \in Open
      BY <2>2, Zenon DEF Capture, Open, index
    <3>3. phase = "recover" => seen' \subseteq ChainTxs
      <4>1. phase = "recover" => seen \subseteq ChainTxs
        BY Zenon DEF LineInv
      <4> QED
        BY <3>2, <4>1, Zenon
    <3> QED
      BY <3>1, <3>2, <3>3, LineKept, Zenon DEF Open
  <2>3. CASE Apply(Miner)
    <3>1. d.pc = (IF c.blk \in BadApply THEN "restore" ELSE "root") /\ d.blk = c.blk
      BY <1>0, <2>3, CallFields DEF Apply, PCs
    <3>2. UNCHANGED <<chain, queue, phase, root, sets, seen>> /\ c.pc \in Open
      BY SMTT(30), <2>3 DEF Apply, Open, index
    <3>3. phase = "recover" => seen' \subseteq ChainTxs
      BY <3>2, Zenon DEF LineInv
    <3> QED
      BY <1>1, <3>1, <3>2, <3>3, LineKept, Zenon DEF Open
  <2>4. CASE VerifyRoot(Miner)
    <3>1. d.pc = (IF HeaderRoot(c.blk) = ledger THEN "vals" ELSE "restore") /\ d.blk = c.blk
      BY <1>0, <2>4, CallFields DEF VerifyRoot, PCs
    <3>2. UNCHANGED <<chain, queue, phase, root, sets, seen>> /\ c.pc = "root" /\ c.pc \in Open
      BY <2>4, Zenon DEF VerifyRoot, Open, index
    <3>3. phase = "recover" => seen' \subseteq ChainTxs
      BY <3>2, Zenon DEF LineInv
    <3>4. ledger = PostState[c.blk] /\ c.blk \notin BadApply
      BY SMTT(30), <3>2 DEF CopiesInv, LineInv
    <3> QED
      BY <1>1, <3>1, <3>2, <3>3, <3>4, LineKept, Zenon DEF Open
  <2>5. CASE Seal(Miner)
    <3>1. d.pc \in {"restore", "vals"} /\ d.blk = c.blk
      BY <1>0, <2>5, CallFields DEF Seal, PCs
    <3>2. UNCHANGED <<chain, queue, phase, sets>> /\ phase = "run"
      BY <2>5, Zenon DEF Seal, LinkInv, Booting
    <3>3. c.blk \notin BadApply
      BY <2>5, Zenon DEF Seal, LineInv
    <3> QED
      BY <3>1, <3>2, <3>3, LineKept, Zenon
  <2>6. CASE ApplyValidators(Miner)
    <3>1. d.pc = "append" /\ d.blk = c.blk
      BY <1>0, <2>6, CallFields, Zenon DEF ApplyValidators, PCs
    <3>2. UNCHANGED <<chain, queue, phase, root, sets, seen>> /\ c.pc = "vals" /\ c.pc \in Open
      BY <2>6, Zenon DEF ApplyValidators, Open, index
    <3>3. phase = "recover" => seen' \subseteq ChainTxs
      BY <3>2, Zenon DEF LineInv
    <3>4. c.blk \notin BadApply
      BY <3>2, Zenon DEF LineInv
    <3> QED
      BY <3>1, <3>2, <3>3, <3>4, LineKept, Zenon DEF Open
  <2>7. CASE AppendBlock(Miner)
    <3> DEFINE b == c.blk
    <3>1. /\ d.pc = "record" /\ d.blk = b /\ UNCHANGED <<seen, root, sets, queue, phase>> /\ c.pc = "append"
      BY <1>0, <2>7, CallFields, Zenon DEF AppendBlock, PCs, index
    <3>2. b \in Block \ {Base} /\ Parent[b] = Tip /\ c.pc \in Open
      BY <1>0, <3>1, Zenon DEF LinkInv, CallOnTip, Open
    <3>3. TipHeight' = TipHeight + 1 /\ Tip' = b /\ Height[b] = TipHeight + 1 /\ Height[b] \in Heights
      BY Zenon, <1>0, <2>7, <3>2, Appended DEF AppendBlock, LinkInv
    <3>4. \A h \in Heights : chain'[h] = IF h = Height[b] THEN b ELSE chain[h]
      BY <1>0, <2>7, Zenon DEF AppendBlock, TypeOK
    <3>5. ChainTxs' \subseteq ChainTxs \cup Txs[b] /\ ChainTxs \subseteq ChainTxs'
      <4>1. \A h \in Heights : chain[h] # None => chain'[h] = chain[h]
        BY <1>0, <3>3, <3>4
      <4> QED
        BY <3>4, <4>1 DEF ChainTxs
    <3>6. Ahead' \subseteq Ahead /\ b \notin Ahead'
      <4>1. Ahead' = {queue[i] : i \in 1 .. Len(queue)}
        BY <3>1, Zenon DEF Ahead, Open
      <4>2. \A i \in 1 .. Len(queue) : queue[i] # b
        <5>1. \A i \in 1 .. Len(queue) : Height[queue[i]] > Height[b]
          BY <3>2, Zenon DEF LinkInv, Booting
        <5> QED
          BY <1>0, <3>3, <5>1
      <4> QED
        BY Zenon, <4>1, <4>2 DEF Ahead
    <3>7. Ahead \subseteq Ahead' \cup {b}
      BY <3>1, Zenon DEF Ahead
    <3>8. phase = "recover" \/ Ahead = {}
      BY AheadFacts, Zenon
    <3>9. b \notin BadApply
      BY SMTT(30), <3>1 DEF LineInv
    <3>10. \A x : HeaderRoot(x)' = HeaderRoot(x)
      BY SMTT(30), <3>1 DEF HeaderRoot
    <3>11. LineInv'
      <4>1. phase' = "recover" => d.pc \notin {"refused", "restore"} /\ seen' \subseteq ChainTxs'
        BY Zenon, <3>1, <3>5 DEF LineInv
      <4>2. \A h \in Heights : chain'[h] # None => chain'[h] \notin BadApply
        BY <3>4, <3>9, Zenon DEF LineInv
      <4>3. \A x \in Ahead' : x \notin BadApply /\ HeaderRoot(x)' = PostState[x]
        BY SMTT(30), <3>6, <3>10 DEF LineInv
      <4>4. \A x \in Ahead' : Txs[x] \cap ChainTxs' = {}
        <5> SUFFICES ASSUME NEW x \in Ahead' PROVE Txs[x] \cap ChainTxs' = {}
          BY Zenon
        <5>1. x \in Ahead /\ x # b /\ b \in Ahead
          BY SMTT(30), <1>1, <3>2, <3>6, <3>8
        <5>2. Txs[x] \cap ChainTxs = {} /\ Txs[x] \cap Txs[b] = {}
          BY <5>1, Zenon DEF LineInv
        <5> QED
          BY <3>5, <5>2, Zenon
      <4>5. \A x, y \in Ahead' : x # y => Txs[x] \cap Txs[y] = {}
        BY SMTT(30), <3>6 DEF LineInv
      <4>6. queue' # << >> => Parent[queue'[1]] = Tip'
        BY ZenonT(40), <3>1, <3>2, <3>3 DEF LineInv
      <4>7. \A i \in 1 .. Len(queue') - 1 : Parent[queue'[i + 1]] = queue'[i]
        BY ZenonT(40), <3>1 DEF LineInv
      <4> QED
        BY ZenonT(40), <3>1, <4>1, <4>2, <4>3, <4>4, <4>5, <4>6, <4>7 DEF LineInv, Open
    <3>12. SetsInv'
      <4>1. ASSUME NEW h \in Heights, chain'[h] # None, sets'[h + 1] # None
            PROVE  sets'[h + 1] = PostState[chain'[h]]
        <5>1. CASE h # Height[b]
          BY ZenonT(40), <3>1, <3>4, <4>1, <5>1 DEF SetsInv
        <5>2. CASE h = Height[b]
          <6>1. h + 1 \in 1 .. MaxHeight + 1 /\ h + 1 > TipHeight + 1
            BY SMTT(30), <1>0, <3>3, <5>2 DEF Heights
          <6>2. Ahead # {}
            BY SMTT(30), <3>1, <4>1, <6>1 DEF SetsInv
          <6>3. b \in Ahead
            BY SMTT(30), <1>1, <3>2, <3>8, <6>2
          <6> QED
            BY <3>1, <3>4, <4>1, <5>2, <6>3, Zenon DEF SetsInv
        <5> QED
          BY SMTT(30), <5>1, <5>2
      <4>2. \A x \in Ahead' : sets'[Height[x] + 1] # None => sets'[Height[x] + 1] = PostState[x]
        BY <3>1, <3>6, Zenon DEF SetsInv
      <4>3. ASSUME NEW h \in 1 .. MaxHeight + 1, sets'[h] # None, h > TipHeight' + 1
            PROVE  \E x \in Ahead' : h <= Height[x] + 1
        <5>1. PICK x \in Ahead : h <= Height[x] + 1
          BY <1>0, <3>1, <3>3, <4>3 DEF SetsInv
        <5>2. x # b
          BY <1>0, <3>3, <4>3, <5>1
        <5> QED
          BY SMTT(30), <3>7, <5>1, <5>2
      <4> QED
        BY <3>1, <4>1, <4>2, <4>3, Zenon DEF SetsInv
    <3> QED
      BY <3>11, <3>12, Zenon
  <2>8. CASE Restore(Miner)
    BY <1>0, <2>8, CallFields, LineKept, Zenon DEF Restore, LineInv
  <2>9. CASE Refuse(Miner)
    <3>1. phase # "recover" /\ d.pc = "idle" /\ UNCHANGED <<chain, sets, queue, phase>>
      BY <1>0, <2>9, CallFields, Zenon DEF Refuse, LineInv
    <3> QED
      BY <3>1, LineKept, Zenon
  <2>10. CASE Record(Miner)
    <3>1. d.pc = "vote" /\ c.pc = "record" /\ UNCHANGED <<chain, sets, queue, phase, root>>
      BY <1>0, <2>10, CallFields, Zenon DEF Record, PCs
    <3>2. Txs[c.blk] \subseteq ChainTxs
      <4>1. c.blk = Tip /\ c.blk # Base
        BY SMTT(30), <3>1 DEF LinkInv, CallOnTip, Done
      <4>2. TipHeight \in Heights /\ c.blk = chain[TipHeight] /\ chain[TipHeight] # None
        BY <1>0, <4>1 DEF Tip, Heights
      <4> QED
        BY <4>2, Zenon DEF ChainTxs
    <3>3. phase = "recover" => seen' \subseteq ChainTxs
      BY <2>10, <3>2, Zenon DEF Record, LineInv
    <3> QED
      BY <3>1, <3>3, LineKept, Zenon DEF Open
  <2>11. CASE Vote(Miner)
    <3>1. /\ d.pc = "save" /\ c.pc = "vote" /\ UNCHANGED <<chain, queue, phase, root, seen>>
          /\ RecordSetFor(Height[c.blk] + 1)
      BY SMTT(30), <1>0, <2>11, CallFields DEF Vote, PCs, index
    <3>2. c.blk = Tip /\ Height[c.blk] = TipHeight
      BY SMTT(30), <1>0, <3>1 DEF LinkInv, CallOnTip, Done
    <3>3. phase = "recover" => seen' \subseteq ChainTxs
      BY ZenonT(40), <3>1 DEF LineInv
    <3>4. LineInv' /\ Ahead' = Ahead
      BY ZenonT(40), <3>1, <3>3, LineKept DEF Open
    <3>5. vals = PostState[Tip]
      BY ZenonT(40), <3>1 DEF CopiesInv
    <3>6. RecordSetFor(TipHeight + 1)
      BY ZenonT(40), <3>1, <3>2
    <3> QED
      BY <3>1, <3>4, <3>5, <3>6, SetsRecorded, Zenon
  <2>12. CASE Save(Miner)
    <3>1. d.pc = "idle" /\ c.pc = "save" /\ UNCHANGED <<chain, queue, phase, root, seen, sets>>
      BY <1>0, <2>12, CallFields, Zenon DEF Save, index
    <3>2. phase = "recover" => seen' \subseteq ChainTxs
      BY SMTT(30), <3>1 DEF LineInv
    <3> QED
      BY Zenon, <3>1, <3>2, LineKept DEF Open
  <2> QED
    BY <1>3, <2>1, <2>2, <2>3, <2>4, <2>5, <2>6, <2>7, <2>8, <2>9, <2>10, <2>11, <2>12, Zenon DEF CallStep
<1>4. ASSUME CallFault(Miner) PROVE Goal
  <2>1. CASE ApplyValidatorsFails(Miner)
    BY <1>0, <1>2, <2>1, CallFields, LineKept, Zenon DEF ApplyValidatorsFails, PCs
  <2>2. CASE AppendFails(Miner)
    BY <1>0, <1>2, <2>2, CallFields, LineKept, Zenon DEF AppendFails, PCs
  <2>3. CASE SaveLost(Miner)
    BY <1>0, <1>2, <2>3, CallFields, LineKept, Zenon DEF SaveLost
  <2> QED
    BY Zenon, <1>0, <1>4, <2>1, <2>2, <2>3, Survivable DEF CallFault
<1>5. ASSUME NEW k \in {"import", "mine", "recover"}, NEW b \in Block, Begin(Miner, k, b),
             UNCHANGED <<chain, sets>>, queue' = << >>, phase # "recover", phase' # "recover"
      PROVE  Goal
  <2>1. d.pc \in {"rules", "refused"}
    BY <1>0, <1>5, BeginTypes, Zenon
  <2> QED
    BY SMTT(30), <1>5, <2>1, LineOutside
<1>6. ASSUME NEW b \in Block, BeginImport(Miner, b) PROVE Goal
  <2>1. queue' = << >> /\ phase = "run" /\ phase' = "run"
    BY ZenonT(40), <1>6 DEF BeginImport, LinkInv, Booting
  <2> QED
    BY SMTT(30), <1>5, <1>6, <2>1 DEF BeginImport
<1>7. ASSUME NEW b \in Own, BeginMine(b) PROVE Goal
  <2>1. queue' = << >> /\ phase = "run" /\ phase' = "run" /\ b \in Block
    BY Zenon, <1>7, BlockAssumption DEF BeginMine, LinkInv, Booting
  <2> QED
    BY ZenonT(40), <1>5, <1>7, <2>1 DEF BeginMine
<1>8. ASSUME Boot PROVE Goal
  <2>1. CASE LoadSnapshot
    <3>1. d.pc = "idle" /\ queue' = << >>
      BY ZenonT(40), <2>1 DEF LoadSnapshot, LinkInv, Booting
    <3> QED
      BY ZenonT(40), <2>1, <3>1, LineOutside DEF LoadSnapshot
  <2>2. CASE StartRecovery
    <3>1. d.pc = "idle" /\ \A h \in Heights : chain'[h] = None
      BY SMTT(30), <2>2 DEF StartRecovery, LinkInv, Booting
    <3>2. ChainTxs' = {} /\ TipHeight' = 0 /\ Tip' = Base /\ seen' = {} /\ UNCHANGED <<sets, root>>
      BY SMTT(30), <2>2, <3>1 DEF ChainTxs, TipHeight, Tip, StartRecovery
    <3>3. /\ Len(queue') = TipHeight
          /\ \A i \in 1 .. TipHeight : i \in Heights /\ queue'[i] = chain[i] /\ chain[i] # None /\ Height[chain[i]] = i
      BY <1>0, <2>2 DEF StartRecovery, StoredBlocks, Heights, LinkInv, ChainIsLinked
    <3>4. /\ \A x \in Ahead' : \E i \in 1 .. TipHeight : x = chain[i]
          /\ \A i \in 1 .. TipHeight : chain[i] \in Ahead'
      BY <3>1, <3>3 DEF Ahead, Open
    <3>5. \A x : HeaderRoot(x)' = HeaderRoot(x)
      BY SMTT(30), <3>2 DEF HeaderRoot
    <3>6. LineInv'
      <4>1. \A x \in Ahead' : x \notin BadApply /\ HeaderRoot(x)' = PostState[x]
        <5>1. \A i \in 1 .. TipHeight : chain[i] \notin BadApply /\ HeaderRoot(chain[i]) = PostState[chain[i]]
          BY <3>3, Zenon DEF LineInv, RootInv
        <5>2. \A x \in Ahead' : x \notin BadApply /\ HeaderRoot(x) = PostState[x]
          BY <3>4, <5>1, Zenon
        <5> QED
          BY <3>5, <5>2, Zenon
      <4>2. \A x, y \in Ahead' : x # y => Txs[x] \cap Txs[y] = {}
        BY SMTT(30), <3>3, <3>4 DEF IndexInv
      <4>3. queue' # << >> => Parent[queue'[1]] = Base
        <5>1. ASSUME queue' # << >> PROVE TipHeight # 0
          <6>1. queue' \in Seq(Block)
            BY <1>0, Zenon DEF TypeOK
          <6> QED
            BY <3>3, <5>1, <6>1
        <5>2. TipHeight # 0 => 1 \in 1 .. TipHeight
          BY SMTT(30), <1>0
        <5> QED
          BY <3>3, <5>1, <5>2 DEF LinkInv, ChainIsLinked
      <4>4. \A i \in 1 .. Len(queue') - 1 : Parent[queue'[i + 1]] = queue'[i]
        <5> SUFFICES ASSUME NEW i \in 1 .. TipHeight - 1 PROVE Parent[queue'[i + 1]] = queue'[i]
          BY Zenon, <3>3
        <5>1. i \in 1 .. TipHeight /\ i + 1 \in 1 .. TipHeight /\ i + 1 # 1 /\ (i + 1) - 1 = i
          BY <1>0
        <5>2. queue'[i] = chain[i] /\ queue'[i + 1] = chain[i + 1] /\ chain[i + 1] # None /\ i + 1 \in Heights
          BY <3>3, <5>1, Zenon
        <5>3. Parent[chain[i + 1]] = chain[(i + 1) - 1]
          BY <5>1, <5>2, Zenon DEF LinkInv, ChainIsLinked
        <5> QED
          BY <5>1, <5>2, <5>3, Zenon
      <4> QED
        BY ZenonT(40), <3>1, <3>2, <4>1, <4>2, <4>3, <4>4 DEF LineInv, Open
    <3>7. SetsInv'
      <4>1. \A x \in Ahead' : sets'[Height[x] + 1] # None => sets'[Height[x] + 1] = PostState[x]
        BY <3>2, <3>3, <3>4 DEF SetsInv
      <4>2. ASSUME NEW h \in 1 .. MaxHeight + 1, sets'[h] # None, h > TipHeight' + 1
            PROVE  \E x \in Ahead' : h <= Height[x] + 1
        <5>1. Ahead = {}
          BY <2>2, AheadFacts, Zenon DEF StartRecovery
        <5>2. h <= TipHeight + 1 /\ h > 1
          BY <1>0, <3>2, <4>2, <5>1 DEF SetsInv
        <5>3. h - 1 \in 1 .. TipHeight
          BY <1>0, <5>2
        <5>4. chain[h - 1] \in Ahead' /\ Height[chain[h - 1]] = h - 1
          BY SMTT(30), <3>3, <3>4, <5>3
        <5> QED
          BY <5>4
      <4> QED
        BY ZenonT(40), <3>1, <3>2, <4>1, <4>2 DEF SetsInv
    <3> QED
      BY <3>6, <3>7
  <2>3. CASE Reimport
    <3> DEFINE b == Head(queue)
    <3>0. /\ queue \in Seq(Block) /\ Len(queue) \in Nat /\ Len(queue) >= 1 /\ queue # << >>
          /\ b = queue[1] /\ b \in Block
          /\ Len(queue') = Len(queue) - 1 /\ \A i \in 1 .. Len(queue') : queue'[i] = queue[i + 1]
          /\ UNCHANGED <<chain, sets, root, seen, phase>> /\ phase = "recover"
      BY SMTT(30), <1>0, <2>3 DEF Reimport, TypeOK, index
    <3>1. c.pc = "idle" /\ d.pc = (IF Parent[b] = Tip THEN "rules" ELSE "refused") /\ d.blk = b
      BY ZenonT(40), <1>0, <2>3, <3>0, BeginTypes DEF Reimport
    <3>2. Parent[b] = Tip
      <4>1. queue # << >> => Parent[queue[1]] = IF c.pc \in Open THEN c.blk ELSE Tip
        BY Zenon DEF LineInv
      <4>2. c.pc \notin Open
        BY <3>1, Zenon DEF Open
      <4> QED
        BY <3>0, <4>1, <4>2, Zenon
    <3>3. UNCHANGED <<TipHeight, Tip, ChainTxs>>
      BY <3>0, TipKept, Zenon DEF ChainTxs
    <3>4. d.pc = "rules" /\ d.pc \in Open
      BY <3>1, <3>2, Zenon DEF Open
    <3>5. Ahead' = Ahead
      <4>1. Ahead = {queue[i] : i \in 1 .. Len(queue)}
        BY <3>1, Zenon DEF Ahead, Open
      <4>2. Ahead' = {queue'[i] : i \in 1 .. Len(queue')} \cup {b}
        BY <3>0, <3>1, <3>4, Zenon DEF Ahead
      <4>3. \A i \in 1 .. Len(queue) : i = 1 \/ (i - 1 \in 1 .. Len(queue') /\ queue[i] = queue'[i - 1])
        BY <3>0
      <4>4. \A i \in 1 .. Len(queue') : i + 1 \in 1 .. Len(queue) /\ queue'[i] = queue[i + 1]
        BY <3>0
      <4>5. 1 \in 1 .. Len(queue)
        BY <3>0
      <4>6. ASSUME NEW x \in Ahead PROVE x \in Ahead'
        <5>1. PICK i \in 1 .. Len(queue) : x = queue[i]
          BY <4>1, <4>6, Zenon
        <5>2. CASE i = 1
          BY <3>0, <4>2, <5>1, <5>2, Zenon
        <5>3. CASE i - 1 \in 1 .. Len(queue') /\ queue[i] = queue'[i - 1]
          BY <4>2, <5>1, <5>3, Zenon
        <5> QED
          BY <4>3, <5>2, <5>3, Zenon
      <4>7. ASSUME NEW x \in Ahead' PROVE x \in Ahead
        BY <3>0, <4>1, <4>2, <4>4, <4>5, <4>7, Zenon
      <4> QED
        BY <4>6, <4>7, Zenon
    <3>6. \A x : HeaderRoot(x)' = HeaderRoot(x)
      BY SMTT(30), <3>0 DEF HeaderRoot
    <3>7. queue' # << >> => Parent[queue'[1]] = b
      <4>1. queue' \in Seq(Block)
        BY <1>0 DEF TypeOK
      <4>2. queue' # << >> => 1 \in 1 .. Len(queue') /\ 1 \in 1 .. Len(queue) - 1
        BY SMTT(30), <3>0, <4>1
      <4> QED
        BY <3>0, <4>2, Zenon DEF LineInv
    <3>8. \A i \in 1 .. Len(queue') - 1 : Parent[queue'[i + 1]] = queue'[i]
      <4> SUFFICES ASSUME NEW i \in 1 .. Len(queue') - 1 PROVE Parent[queue'[i + 1]] = queue'[i]
        BY Zenon
      <4>1. i + 1 \in 1 .. Len(queue) - 1 /\ i \in 1 .. Len(queue') /\ i + 1 \in 1 .. Len(queue')
        BY SMTT(30), <3>0
      <4> QED
        BY <3>0, <4>1, Zenon DEF LineInv
    <3>9. LineInv'
      BY ZenonT(40), <3>0, <3>1, <3>3, <3>4, <3>5, <3>6, <3>7, <3>8 DEF LineInv
    <3>10. SetsInv'
      BY ZenonT(40), <3>0, <3>3, <3>5 DEF SetsInv
    <3> QED
      BY <3>9, <3>10
  <2>4. CASE FinishRecovery
    <3>1. Ahead = {}
      BY SMTT(30), <2>4 DEF FinishRecovery, Ahead, Open
    <3> QED
      BY ZenonT(40), <2>4, <3>1, LineOutside DEF FinishRecovery
  <2>5. CASE InitIndex
    <3>1. d.pc = "idle" /\ queue' = << >>
      BY Zenon, <2>5 DEF InitIndex, LinkInv, Booting
    <3> QED
      BY SMTT(30), <2>5, <3>1, LineOutside DEF InitIndex
  <2>6. CASE RecoverPending
    <3>0. queue' = << >> /\ c.pc = "idle" /\ phase # "recover" /\ phase' # "recover" /\ UNCHANGED <<chain, sets>>
      BY ZenonT(40), <2>6 DEF RecoverPending, LinkInv, Booting
    <3>1. CASE \E b \in journal : Parent[b] = Tip
      <4>1. (CHOOSE b \in journal : Parent[b] = Tip) \in Block
        <5>1. journal \subseteq Block
          BY <1>0, BlockAssumption, Zenon DEF TypeOK
        <5> QED
          BY <3>1, <5>1, Zenon
      <4> QED
        BY ZenonT(40), <1>5, <2>6, <3>0, <3>1, <4>1 DEF RecoverPending
    <3>2. CASE ~ \E b \in journal : Parent[b] = Tip
      BY ZenonT(40), <2>6, <3>0, <3>2, LineOutside DEF RecoverPending
    <3> QED
      BY SMTT(30), <3>1, <3>2
  <2>7. CASE FinishInit
    <3>1. /\ c.pc = "idle" /\ UNCHANGED <<chain, queue, call>> /\ RecordSetFor(TipHeight + 1)
          /\ phase = "finish" /\ phase' = "run" /\ queue = << >>
      BY <2>7, Zenon DEF FinishInit, LinkInv, Booting
    <3>2. Ahead = {} /\ Ahead' = {} /\ UNCHANGED <<TipHeight, Tip, ChainTxs>>
      BY SMTT(30), <3>1, TipKept DEF Ahead, ChainTxs
    <3>3. LineInv'
      BY Zenon, <3>1, <3>2 DEF LineInv
    <3>4. vals = PostState[Tip]
      BY <3>1, Zenon DEF CopiesInv
    <3> QED
      BY SMTT(30), <3>1, <3>2, <3>3, <3>4, SetsRecorded
  <2> QED
    BY SMTT(30), <1>8, <2>1, <2>2, <2>3, <2>4, <2>5, <2>6, <2>7 DEF Boot
<1>9. CASE Crash
  <2>1. phase # "recover" /\ d.pc = "idle" /\ phase' = "load" /\ queue' = << >> /\ UNCHANGED <<chain, sets>>
    BY <1>0, <1>2, <1>9, CallFields, Zenon DEF Crash, Down
  <2> QED
    BY <2>1, LineOutside, Zenon
<1>10. CASE UNCHANGED vars
  <2>1. UNCHANGED <<chain, seen, root, phase, call, queue, sets>>
    BY <1>10, Zenon DEF vars
  <2>2. phase = "recover" => seen' \subseteq ChainTxs /\ d.pc \notin {"refused", "restore"}
    BY <2>1, Zenon DEF LineInv
  <2>3. d.pc \in {"root", "vals", "append"} => d.blk \notin BadApply
    BY <2>1, Zenon DEF LineInv
  <2> QED
    BY <2>1, <2>2, <2>3, LineKept, Zenon
<1> QED
  BY SMTT(30), <1>3, <1>4, <1>6, <1>7, <1>8, <1>9, <1>10 DEF Next


(* The set recorded for a height is the one after the block below it, as long
   as no recovery is cut short: recover_from_history then brings back the very
   blocks the records were made for. *)
THEOREM RecordedSetsMatch ==
  ASSUME Thread = {Miner}
  PROVE  Spec => []SetsMatchTheChain
<1> DEFINE Inv == LinkInv /\ ImportInv /\ RecordInv
<1>1. Init => Inv
  <2> SUFFICES ASSUME Init PROVE RecordInv
    BY LinkInit, ImportInit, Zenon
  <2>1. call[Miner].pc = "idle" /\ \A h \in Heights : chain[h] = None
    BY ThreadAssumption, Zenon DEF Init, Idle
  <2>2. Ahead = {} /\ MaxHeight \in Nat
    BY SMTT(30), BlockAssumption DEF Init, Ahead
  <2>3. LineInv
    BY <2>1, <2>2 DEF Init, LineInv
  <2>4. \A h \in 1 .. MaxHeight + 1 : sets[h] = IF h = 1 THEN << >> ELSE None
    BY Zenon DEF Init
  <2>5. TipHeight = 0
    BY <2>1, Zenon DEF TipHeight
  <2>6. SetsInv
    BY <2>1, <2>2, <2>4, <2>5 DEF SetsInv, Heights
  <2> QED
    BY <2>3, <2>6, Zenon DEF RecordInv
<1>2. Inv /\ [Next]_vars => Inv'
  <2> SUFFICES ASSUME LinkInv, ImportInv, RecordInv, [Next]_vars PROVE Inv'
    BY Zenon
  <2>1. LinkInv' /\ ImportInv'
    BY ImportStep, Zenon
  <2>2. Calm' => Calm
    BY KindsKept, Zenon DEF Calm, Recoverable, LinkInv
  <2>3. Calm => LineInv' /\ SetsInv'
    BY <2>1, LineStep, Zenon DEF RecordInv, ImportInv, Calm
  <2> QED
    BY <2>1, <2>2, <2>3, Zenon DEF RecordInv
<1>3. Inv => SetsMatchTheChain
  <2> SUFFICES ASSUME LinkInv, SetsInv, NEW h \in 1 .. TipHeight + 1, sets[h] # None
               PROVE  sets[h] = PostState[IF h = 1 THEN Base ELSE chain[h - 1]]
    BY Zenon DEF SetsMatchTheChain, RecordInv, Calm
  <2>1. /\ TipHeight \in 0 .. MaxHeight /\ MaxHeight \in Nat
        /\ \A g \in Heights : (chain[g] # None) <=> g <= TipHeight
    BY TipFacts, BlockAssumption, Zenon DEF LinkInv
  <2>2. CASE h = 1
    BY <2>2, StateAssumption, Zenon DEF SetsInv
  <2>3. CASE h # 1
    <3>1. h - 1 \in Heights /\ h - 1 <= TipHeight /\ (h - 1) + 1 = h
      BY <2>1, <2>3 DEF Heights
    <3> QED
      BY <2>1, <2>3, <3>1, Zenon DEF SetsInv
  <2> QED
    BY <2>2, <2>3, Zenon
<1> HIDE DEF Inv
<1> QED
  BY <1>1, <1>2, <1>3, PTL DEF Spec

=============================================================================
