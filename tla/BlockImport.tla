---------------------------- MODULE BlockImport ----------------------------
(***************************************************************************)
(* How ONE node turns blocks into state: import_block, mine_pending, the   *)
(* durable stores they write, and init / recover_from_history after a      *)
(* crash (core/daemon/src/node.rs, core/storage/src/chain_store.rs).       *)
(*                                                                         *)
(* Executing a block is abstract: a state is the sequence of blocks whose  *)
(* effects it holds, so a block applied twice, or rolled back too far, is  *)
(* visible.  Three copies of the state are kept apart because the code     *)
(* writes them at different moments:                                       *)
(*   ledger  the balance, token and LP maps: in memory, in the state root; *)
(*   stores  the sled stores apply_balance_block writes: durable at once.  *)
(*           They stand for the ones no root covers (pools, order book,    *)
(*           allowances, multisig wallets, nonces, fees);                  *)
(*   vals    the validator store, written after the root check.            *)
(* The calls hold no common lock: each action is one stretch the code      *)
(* executes under one lock, or one store operation.                        *)
(* Which blocks are proposed and become final is FinalityV2's subject.     *)
(***************************************************************************)
EXTENDS Integers, Sequences, FiniteSets

CONSTANTS
  Thread,      \* callers of import_block: API handlers, the peer-sync task
  Miner,       \* the thread that runs init and then the miner loop
  Block,       \* every block that can exist, with the genesis block
  Base,        \* the genesis block
  Parent,      \* [Block -> Block], prev_hash
  Height,      \* [Block -> Nat]
  Txs,         \* [Block -> SUBSET Tx], the identities of its transactions
  PostState,   \* [Block -> Seq(Block)], executing the chain up to the block
  Own,         \* the blocks this node may seal itself
  BadApply,    \* blocks whose application returns an error
  BadRoot,     \* peers' blocks whose header root is not their post-state
  FaultSets,   \* the sets of fault kinds a behaviour may meet
  MaxFaults,   \* bound on their number
  None

FaultKinds ==
  {"crash",        \* the process dies outside a speculative application
   "crash_apply",  \* the process dies between apply and append
   "crash_save",   \* the process dies inside save_balance_snapshot
   "io",           \* a store write fails before it changes anything
   "io_index",     \* the writes of record_block_tx_hashes are lost
   "io_flush",     \* append_block fails after its first insert
   "in_recovery"}  \* the others may also happen during recover_from_history

Tx == UNION {Txs[b] : b \in Block}
MaxHeight == CHOOSE h \in {Height[b] : b \in Block} :
                \A b \in Block : Height[b] <= h

ASSUME BlockAssumption ==
  /\ Base \in Block /\ None \notin Block
  /\ Parent \in [Block -> Block]
  /\ Height \in [Block -> Nat]
  /\ Height[Base] = 0
  /\ \A b \in Block \ {Base} : Height[b] = Height[Parent[b]] + 1
  /\ Own \subseteq Block \ {Base}
  /\ Own \cap BadRoot = {}
  /\ MaxHeight \in Nat /\ \A b \in Block : Height[b] <= MaxHeight

ASSUME StateAssumption ==
  /\ PostState \in [Block -> Seq(Block)]
  /\ PostState[Base] = << >>
  /\ \A b \in Block \ {Base} : PostState[b] = Append(PostState[Parent[b]], b)
  /\ None \notin Seq(Block)

ASSUME ThreadAssumption ==
  Miner \in Thread /\ FaultSets \subseteq SUBSET FaultKinds /\ MaxFaults \in Nat

VARIABLES
  chain,    \* the chain store, by height
  ledger, stores, vals,
  seen,     \* the tx-seen index: identities of included transactions
  seenTip,  \* its TX_SEEN_INDEXED_TIP_KEY marker
  sets,     \* validator_sets_db: by height, the validator state it recorded
  snap,     \* snapshot_db: [height, ledger]
  root,     \* the header root of each block this node sealed
  journal,  \* the proposal journal: own blocks recorded for their slot
  phase,    \* what init is doing, then "run"
  queue,    \* recover_from_history: the blocks it still has to re-import
  call,     \* by thread, the block it is working on
  faults    \* the fault kinds of this behaviour, and how many are left

state == <<ledger, stores, vals>>
index == <<seen, seenTip>>
vars == <<chain, ledger, stores, vals, seen, seenTip, sets, snap, root,
          journal, phase, queue, call, faults>>

Heights == 1 .. MaxHeight

Idle == [pc |-> "idle", kind |-> "import", blk |-> Base,
         pre |-> << << >>, << >>, << >> >>]

(* get_tip: the block stored at the greatest height *)
TipHeight ==
  IF \A h \in Heights : chain[h] = None THEN 0
  ELSE CHOOSE h \in Heights : /\ chain[h] # None
                              /\ \A g \in Heights : g > h => chain[g] = None
Tip == IF TipHeight = 0 THEN Base ELSE chain[TipHeight]

(* the state root of the block's header; None matches no computed root *)
HeaderRoot(b) == IF b \in Own THEN root[b]
                 ELSE IF b \in BadRoot THEN None
                 ELSE PostState[b]

ChainTxs == UNION {IF chain[h] = None THEN {} ELSE Txs[chain[h]] : h \in Heights}

Init ==
  /\ chain = [h \in Heights |-> None]
  /\ ledger = << >> /\ stores = << >> /\ vals = << >>
  /\ seen = {} /\ seenTip = 0
  /\ sets = [h \in 1 .. MaxHeight + 1 |-> IF h = 1 THEN << >> ELSE None]
  /\ snap = [height |-> 0, ledger |-> << >>]
  /\ root = [b \in Own |-> None]
  /\ journal = {}
  /\ phase = "run"
  /\ queue = << >>
  /\ call = [t \in Thread |-> Idle]
  /\ faults \in [kinds : FaultSets, left : {MaxFaults}]

Fault(k) ==
  /\ k \in faults.kinds /\ faults.left > 0
  /\ phase = "recover" => "in_recovery" \in faults.kinds
  /\ faults' = [faults EXCEPT !.left = @ - 1]

----------------------------------------------------------------------------
(* The start of a call                                                     *)

(* mutant: only a block too far above the tip is refused *)
BeginUpToNextHeight(t, k, b) ==
  /\ call[t].pc = "idle"
  /\ call' = [call EXCEPT ![t] = [Idle EXCEPT !.pc = IF Height[b] <= TipHeight + 1 THEN "rules" ELSE "refused",
                                             !.kind = k, !.blk = b]]

(* a block that does not extend the tip is refused *)
Begin(t, k, b) ==
  /\ call[t].pc = "idle"
  /\ call' = [call EXCEPT ![t] = [Idle EXCEPT !.pc = IF Parent[b] = Tip THEN "rules" ELSE "refused",
                                             !.kind = k, !.blk = b]]

(* import_block of a peer's block, or of this node's own journaled proposal *)
BeginImport(t, b) ==
  /\ phase = "run"
  /\ b # Base /\ (b \in Own => b \in journal)
  /\ Begin(t, "import", b)
  /\ UNCHANGED <<chain, state, index, sets, snap, root, journal, phase, queue, faults>>

(* mine_pending: no proposal is journaled for the slot, and the drained     *)
(* transactions that the index knows are left out                           *)
BeginMine(b) ==
  /\ phase = "run"
  /\ b \in Own /\ Parent[b] = Tip
  /\ \A c \in journal : Parent[c] # Tip
  /\ Txs[b] \cap seen = {}
  /\ Begin(Miner, "mine", b)
  /\ UNCHANGED <<chain, state, index, sets, snap, root, journal, phase, queue, faults>>

(* mutant: the index is only rebuilt when it was never written *)
EnsureIndexIfEmpty ==
  /\ seenTip' = TipHeight
  /\ seen' = IF seenTip >= 0 THEN seen ELSE ChainTxs

(* ensure_tx_seen_index, when the index is rebuilt or found complete *)
EnsureIndex ==
  /\ seenTip' = TipHeight
  /\ seen' = IF seenTip = TipHeight THEN seen ELSE ChainTxs

(* the block rules that read the stores: check_block_tx_uniqueness *)
Rules(t) ==
  LET b == call[t].blk IN
  /\ call[t].pc = "rules"
  /\ IF call[t].kind = "mine" THEN UNCHANGED index ELSE EnsureIndex
  /\ call' = [call EXCEPT ![t].pc =
                IF call[t].kind # "mine" /\ Txs[b] \cap seen' # {} THEN "refused" ELSE "capture"]
  /\ UNCHANGED <<chain, state, sets, snap, root, journal, phase, queue, faults>>

----------------------------------------------------------------------------
(* The speculative part: capture, apply, root, validators, append          *)

(* capture_pre_apply_snapshot *)
Capture(t) ==
  /\ call[t].pc = "capture"
  /\ call' = [call EXCEPT ![t].pc = "apply", ![t].pre = state]
  /\ UNCHANGED <<chain, state, index, sets, snap, root, journal, phase, queue, faults>>

(* apply_balance_block: the maps and the side-effect stores, under the      *)
(* balance lock; a failing block leaves part of its effects behind          *)
Apply(t) ==
  LET b == call[t].blk IN
  /\ call[t].pc = "apply"
  /\ ledger' = Append(ledger, b)
  /\ stores' = Append(stores, b)
  /\ call' = [call EXCEPT ![t].pc = IF b \in BadApply THEN "restore" ELSE "root"]
  /\ UNCHANGED <<chain, vals, index, sets, snap, root, journal, phase, queue, faults>>

(* import_block: compare the header root with the state that was computed *)
VerifyRoot(t) ==
  LET b == call[t].blk IN
  /\ call[t].pc = "root" /\ call[t].kind # "mine"
  /\ call' = [call EXCEPT ![t].pc = IF HeaderRoot(b) = ledger THEN "vals" ELSE "restore"]
  /\ UNCHANGED <<chain, state, index, sets, snap, root, journal, phase, queue, faults>>

(* mutant: the root is taken before the block was applied *)
SealPreState(t) ==
  LET b == call[t].blk IN
  /\ call[t].pc = "root" /\ call[t].kind = "mine"
  /\ root' = [root EXCEPT ![b] = call[t].pre[1]]
  /\ journal' = journal \cup {b}
  /\ call' = [call EXCEPT ![t].pc = "vals"]
  /\ UNCHANGED <<chain, state, index, sets, snap, phase, queue, faults>>

(* mine_pending: stamp the root, sign, journal_proposal (refused when the   *)
(* slot holds another block)                                                *)
Seal(t) ==
  LET b == call[t].blk
      taken == \E c \in journal \ {b} : Parent[c] = Parent[b] IN
  /\ call[t].pc = "root" /\ call[t].kind = "mine"
  /\ root' = [root EXCEPT ![b] = ledger]
  /\ journal' = IF taken THEN journal ELSE journal \cup {b}
  /\ call' = [call EXCEPT ![t].pc = IF taken THEN "restore" ELSE "vals"]
  /\ UNCHANGED <<chain, state, index, sets, snap, phase, queue, faults>>

(* apply_validator_block *)
ApplyValidators(t) ==
  /\ call[t].pc = "vals"
  /\ vals' = Append(vals, call[t].blk)
  /\ call' = [call EXCEPT ![t].pc = "append"]
  /\ UNCHANGED <<chain, ledger, stores, index, sets, snap, root, journal, phase, queue, faults>>

(* a validator-store write fails *)
ApplyValidatorsFails(t) ==
  /\ call[t].pc = "vals" /\ Fault("io")
  /\ call' = [call EXCEPT ![t].pc = "restore"]
  /\ UNCHANGED <<chain, state, index, sets, snap, root, journal, phase, queue>>

(* ChainStore::append_block: insert under the height, index, flush *)
AppendBlock(t) ==
  LET b == call[t].blk IN
  /\ call[t].pc = "append"
  /\ chain' = [chain EXCEPT ![Height[b]] = b]
  /\ call' = [call EXCEPT ![t].pc = "record"]
  /\ UNCHANGED <<state, index, sets, snap, root, journal, phase, queue, faults>>

(* the insert itself fails: nothing is stored *)
AppendFails(t) ==
  /\ call[t].pc = "append" /\ Fault("io")
  /\ call' = [call EXCEPT ![t].pc = "restore"]
  /\ UNCHANGED <<chain, state, index, sets, snap, root, journal, phase, queue>>

(* the insert is made, then the tx index or the flush returns an error *)
AppendFlushFails(t) ==
  LET b == call[t].blk IN
  /\ call[t].pc = "append" /\ Fault("io_flush")
  /\ chain' = [chain EXCEPT ![Height[b]] = b]
  /\ call' = [call EXCEPT ![t].pc = "restore"]
  /\ UNCHANGED <<state, index, sets, snap, root, journal, phase, queue>>

(* mutant: only the maps are restored, not the stores *)
RestoredMapsOnly(t) ==
  /\ ledger' = call[t].pre[1]
  /\ stores' = stores
  /\ vals' = call[t].pre[3]
  /\ journal' = IF call[t].kind = "mine" THEN journal \ {call[t].blk} ELSE journal

(* restore_pre_apply_snapshot, and mine_pending withdraws its record *)
Restored(t) ==
  /\ ledger' = call[t].pre[1]
  /\ stores' = call[t].pre[2]
  /\ vals' = call[t].pre[3]
  /\ journal' = IF call[t].kind = "mine" THEN journal \ {call[t].blk} ELSE journal

Restore(t) ==
  /\ call[t].pc = "restore"
  /\ Restored(t)
  /\ call' = [call EXCEPT ![t] = [Idle EXCEPT !.pc = "refused"]]
  /\ UNCHANGED <<chain, index, sets, snap, root, phase, queue, faults>>

----------------------------------------------------------------------------
(* After the commit point: derived bookkeeping                             *)

(* record_block_tx_hashes *)
Record(t) ==
  LET b == call[t].blk IN
  /\ call[t].pc = "record"
  /\ seen' = seen \cup Txs[b]
  /\ seenTip' = Height[b]
  /\ call' = [call EXCEPT ![t].pc = "vote"]
  /\ UNCHANGED <<chain, state, sets, snap, root, journal, phase, queue, faults>>

(* its writes are lost: the errors are ignored *)
RecordLost(t) ==
  /\ call[t].pc = "record" /\ Fault("io_index")
  /\ call' = [call EXCEPT ![t].pc = "vote"]
  /\ UNCHANGED <<chain, state, index, sets, snap, root, journal, phase, queue>>

(* record_validator_set_for(h): once, and only for the height after the tip *)
RecordSetFor(h) ==
  sets' = IF sets[h] = None /\ h = TipHeight + 1 THEN [sets EXCEPT ![h] = vals] ELSE sets

(* auto_vote_for_block *)
Vote(t) ==
  /\ call[t].pc = "vote"
  /\ RecordSetFor(Height[call[t].blk] + 1)
  /\ call' = [call EXCEPT ![t].pc = "save"]
  /\ UNCHANGED <<chain, state, index, snap, root, journal, phase, queue, faults>>

(* save_balance_snapshot, then the call returns *)
Save(t) ==
  /\ call[t].pc = "save"
  /\ snap' = [height |-> Height[call[t].blk], ledger |-> ledger]
  /\ call' = [call EXCEPT ![t] = Idle]
  /\ UNCHANGED <<chain, state, index, sets, root, journal, phase, queue, faults>>

(* a failed save is logged and the call succeeds *)
SaveLost(t) ==
  /\ call[t].pc = "save" /\ Fault("io")
  /\ call' = [call EXCEPT ![t] = Idle]
  /\ UNCHANGED <<chain, state, index, sets, snap, root, journal, phase, queue>>

----------------------------------------------------------------------------
(* Crash and restart                                                       *)

(* the process is gone: memory is lost, the stores stay *)
Down ==
  /\ ledger' = << >>
  /\ phase' = "load"
  /\ queue' = << >>
  /\ call' = [t \in Thread |-> Idle]

Speculating(t) == call[t].pc \in {"root", "vals", "append", "restore"}

(* Err returned: the caller goes on; during init it ends the process *)
Refuse(t) ==
  /\ call[t].pc = "refused"
  /\ IF phase = "recover"
     THEN Down
     ELSE call' = [call EXCEPT ![t] = Idle] /\ UNCHANGED <<ledger, phase, queue>>
  /\ UNCHANGED <<chain, stores, vals, index, sets, snap, root, journal, faults>>

Crash ==
  /\ phase # "load"
  /\ \/ Fault("crash") /\ \A t \in Thread : ~ Speculating(t)
     \/ Fault("crash_apply") /\ \E t \in Thread : Speculating(t)
  /\ Down
  /\ UNCHANGED <<chain, stores, vals, index, sets, snap, root, journal>>

(* inside save_balance_snapshot: "height" is inserted before "balances" *)
CrashInSave(t) ==
  /\ call[t].pc = "save" /\ Fault("crash_save")
  /\ snap' = [snap EXCEPT !.height = Height[call[t].blk]]
  /\ Down
  /\ UNCHANGED <<chain, stores, vals, index, sets, root, journal>>

(* mutant: reads past the last stored height *)
StoredBlocksPastTip == [i \in Heights |-> chain[i]]

StoredBlocks == [i \in 1 .. TipHeight |-> chain[i]]

(* init: the snapshot is for the tip, the rebuild is skipped *)
LoadSnapshot ==
  /\ phase = "load" /\ snap.height = TipHeight
  /\ ledger' = snap.ledger
  /\ phase' = "index"
  /\ UNCHANGED <<chain, stores, vals, index, sets, snap, root, journal, queue, call, faults>>

(* mutant: the validator trees are not cleared *)
StartRecoveryKeepsValidators ==
  /\ phase = "load" /\ snap.height # TipHeight
  /\ queue' = StoredBlocks
  /\ ledger' = << >> /\ stores' = << >> /\ vals' = vals
  /\ seen' = {} /\ seenTip' = -1
  /\ chain' = [h \in Heights |-> None]
  /\ phase' = "recover"
  /\ UNCHANGED <<sets, snap, root, journal, call, faults>>

(* mutant: the chain store is not reset *)
StartRecoveryKeepsChain ==
  /\ phase = "load" /\ snap.height # TipHeight
  /\ queue' = StoredBlocks
  /\ ledger' = << >> /\ stores' = << >> /\ vals' = << >>
  /\ seen' = {} /\ seenTip' = -1
  /\ phase' = "recover"
  /\ UNCHANGED <<chain, sets, snap, root, journal, call, faults>>

(* recover_from_history: read the chain, clear every derived store, reset   *)
(* the chain to genesis.  A crash before the reset starts it over.          *)
StartRecovery ==
  /\ phase = "load" /\ snap.height # TipHeight
  /\ queue' = StoredBlocks
  /\ ledger' = << >> /\ stores' = << >> /\ vals' = << >>
  /\ seen' = {} /\ seenTip' = -1
  /\ chain' = [h \in Heights |-> None]
  /\ phase' = "recover"
  /\ UNCHANGED <<sets, snap, root, journal, call, faults>>

(* the next stored block goes through import_block *)
Reimport ==
  /\ phase = "recover" /\ queue # << >>
  /\ Begin(Miner, "recover", Head(queue))
  /\ queue' = Tail(queue)
  /\ UNCHANGED <<chain, state, index, sets, snap, root, journal, phase, faults>>

(* persist_snapshot_atomic *)
FinishRecovery ==
  /\ phase = "recover" /\ queue = << >> /\ call[Miner].pc = "idle"
  /\ snap' = [height |-> TipHeight, ledger |-> ledger]
  /\ phase' = "index"
  /\ UNCHANGED <<chain, state, index, sets, root, journal, queue, call, faults>>

(* init: ensure_tx_seen_index *)
InitIndex ==
  /\ phase = "index"
  /\ EnsureIndex
  /\ phase' = "pending"
  /\ UNCHANGED <<chain, state, sets, snap, root, journal, queue, call, faults>>

(* init: recover_pending_proposal re-imports a journaled block of the slot *)
RecoverPending ==
  /\ phase = "pending"
  /\ phase' = "finish"
  /\ IF \E b \in journal : Parent[b] = Tip
     THEN Begin(Miner, "import", CHOOSE b \in journal : Parent[b] = Tip)
     ELSE UNCHANGED call
  /\ UNCHANGED <<chain, state, index, sets, snap, root, journal, queue, faults>>

(* init: record_validator_set_for(tip + 1); the API and the miner start *)
FinishInit ==
  /\ phase = "finish" /\ call[Miner].pc = "idle"
  /\ RecordSetFor(TipHeight + 1)
  /\ phase' = "run"
  /\ UNCHANGED <<chain, state, index, snap, root, journal, queue, call, faults>>

----------------------------------------------------------------------------
CallStep(t) ==
  \/ Rules(t) \/ Capture(t) \/ Apply(t) \/ VerifyRoot(t) \/ Seal(t)
  \/ ApplyValidators(t) \/ AppendBlock(t) \/ Restore(t) \/ Refuse(t)
  \/ Record(t) \/ Vote(t) \/ Save(t)

CallFault(t) ==
  \/ ApplyValidatorsFails(t) \/ AppendFails(t) \/ AppendFlushFails(t)
  \/ RecordLost(t) \/ SaveLost(t) \/ CrashInSave(t)

Boot ==
  \/ LoadSnapshot \/ StartRecovery \/ Reimport \/ FinishRecovery
  \/ InitIndex \/ RecoverPending \/ FinishInit

Next ==
  \/ \E t \in Thread : CallStep(t) \/ CallFault(t)
  \/ \E t \in Thread, b \in Block : BeginImport(t, b)
  \/ \E b \in Own : BeginMine(b)
  \/ Boot
  \/ Crash

Spec == Init /\ [][Next]_vars

(* A call that was started runs on, and init runs to its end.  That a peer  *)
(* offers a block, and that a fault happens, is never promised.             *)
FairSpec == /\ Spec
            /\ \A t \in Thread : WF_vars(CallStep(t))
            /\ WF_vars(Boot)

----------------------------------------------------------------------------
(* Properties                                                              *)

PCs == {"idle", "rules", "capture", "apply", "root", "vals", "append",
        "restore", "record", "vote", "save", "refused"}
Phases == {"load", "recover", "index", "pending", "finish", "run"}
State == Seq(Block)

(* Every variable has the shape the code gives it. *)
TypeOK ==
  /\ chain \in [Heights -> Block \cup {None}]
  /\ ledger \in State /\ stores \in State /\ vals \in State
  /\ seen \subseteq Tx /\ seenTip \in Int
  /\ sets \in [1 .. MaxHeight + 1 -> State \cup {None}]
  /\ snap \in [height : Nat, ledger : State]
  /\ root \in [Own -> State \cup {None}]
  /\ journal \subseteq Own
  /\ phase \in Phases
  /\ queue \in Seq(Block)
  /\ call \in [Thread -> [pc : PCs, kind : {"import", "mine", "recover"},
                         blk : Block, pre : State \X State \X State]]
  /\ faults \in [kinds : FaultSets, left : 0 .. MaxFaults]

(* Neither a death inside a speculative window nor a write that is half done: *)
(* what the code recovers from.                                              *)
Recoverable == faults.kinds \subseteq {"crash", "io", "in_recovery"}

Quiet == phase = "run" /\ \A t \in Thread : call[t].pc = "idle"

(* Whenever no call is in progress, the three copies of the state are what  *)
(* executing the stored chain gives: a rejected block leaves the node       *)
(* exactly as before the attempt, an accepted one is applied once, and a    *)
(* restart ends in the same state whether it loads the snapshot or          *)
(* re-imports (import_block, restore_pre_apply_snapshot, init).             *)
StateIsTheChains ==
  Recoverable /\ Quiet =>
    /\ ledger = PostState[Tip]
    /\ stores = PostState[Tip]
    /\ vals = PostState[Tip]

(* The stored chain has no gap and every block extends the one below it,    *)
(* although append_block inserts at the height without looking.             *)
ChainIsLinked ==
  \A h \in Heights : chain[h] # None =>
     /\ Height[chain[h]] = h
     /\ Parent[chain[h]] = IF h = 1 THEN Base ELSE chain[h - 1]

(* No transaction is in two blocks of the chain (rule C1,                   *)
(* check_block_tx_uniqueness), across restarts and recoveries.              *)
NoReplayedTx ==
  Recoverable => \A g, h \in Heights : g # h /\ chain[g] # None /\ chain[h] # None =>
     Txs[chain[g]] \cap Txs[chain[h]] = {}

(* The root in the header of every stored block is the state after          *)
(* executing the chain up to it, so every other node accepts the block.     *)
HeaderRootsHold ==
  Recoverable => \A h \in Heights : chain[h] # None => HeaderRoot(chain[h]) = PostState[chain[h]]

(* The validator set recorded for a height is the validator state after the *)
(* block below it: record_validator_set_for never sees effects of a block   *)
(* that is still speculative, and its record is not stale.  Not so when a    *)
(* recovery is cut short: recover_from_history shortens the chain and keeps  *)
(* validator_sets_db, a sibling may take the height, and the old record,     *)
(* "immutable", stays.                                                       *)
SetsMatchTheChain ==
  Recoverable /\ "in_recovery" \notin faults.kinds => \A h \in 1 .. TipHeight + 1 :
     sets[h] # None => sets[h] = PostState[IF h = 1 THEN Base ELSE chain[h - 1]]

(* A running node never replaces or drops a block it stored. *)
StoredBlocksStay ==
  [][phase = "run" => \A h \in Heights : chain[h] # None => chain'[h] = chain[h]]_vars

(* A restarted node gets through init again, whatever it finds on disk, and *)
(* every call of import_block and mine_pending returns.                     *)
CompletesCalls ==
  /\ (phase # "run") ~> (phase = "run")
  /\ \A t \in Thread : (call[t].pc # "idle") ~> (call[t].pc = "idle")

============================================================================
