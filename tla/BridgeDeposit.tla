---------------------------- MODULE BridgeDeposit ----------------------------
(***************************************************************************)
(* Deposits from Base to the L1: the daemon's claim handlers around the    *)
(* persisted set of claimed keys (core/storage/src/bridge_claim_store.rs,  *)
(* process_bridge_reclaim, bridge_claim and xrge_bridge_claim of           *)
(* core/daemon/src/main.rs), the mint transaction they submit              *)
(* (core/daemon/src/node.rs), and the deposit watcher of                   *)
(* scripts/bridge-relayer.ts that finds deposits by their events and       *)
(* claims them.                                                            *)
(*                                                                         *)
(* A claim is a request r that runs in the daemon: it looks the key up,    *)
(* checks the deposit on Base, reserves the key in memory, writes the      *)
(* whole set to the shared temporary file, renames it over the store, and  *)
(* submits the mint; when the submission fails it takes the key out again  *)
(* and writes the set once more. Requests come from a poll of the watcher  *)
(* or from a browser. A poll that gives up waiting leaves its request      *)
(* running.                                                                *)
(***************************************************************************)
EXTENDS Integers, FiniteSets, FiniteSetsExt

CONSTANTS
    Deposit,    \* deposits made on Base; also their keys in the claim store
    Block,      \* Block[d]: the block of Base that has deposit d
    Credit,     \* Credit[d]: recipient, amount and token of the mint for d
    Browser,    \* the deposits whose owner may claim them from a browser
    MaxHead,    \* bound: highest block of Base
    Depth,      \* confirmations the daemon and the watcher ask for
    Span,       \* DEPOSIT_MAX_BLOCK_SPAN
    Poll,       \* polls of the watcher that may overlap
    Request,    \* bound: requests the daemon works on at once
    FaultSets,  \* the sets of fault kinds a behaviour may have
    MaxFaults,  \* bound: faults in a behaviour
    None        \* no value

\* The kinds of faults.
Kinds == {"read", "slow", "relayer", "save", "overlap", "io", "mint", "crash",
          "evict", "drop", "torn", "stop", "overrun", "browser"}

ASSUME DepositAssumption ==
    /\ Block \in [Deposit -> 1..MaxHead]
    /\ Browser \subseteq Deposit
    /\ {MaxHead, Depth, MaxFaults} \subseteq Nat
    /\ Span \in Nat \ {0}
    /\ None \notin Deposit \cup Poll /\ None \notin 0..MaxHead /\ None # "tmp"
    /\ IsFiniteSet(Deposit) /\ IsFiniteSet(Request)
    /\ FaultSets \subseteq SUBSET Kinds

VARIABLES
    head,      \* the latest block of Base
    claimed,   \* BridgeClaimStore.claimed, in memory
    disk,      \* contents of bridge_claimed.json
    tmp,       \* contents of bridge_claimed.json.tmp, or None
    req,       \* the requests in the daemon
    nonce,     \* committed nonce of the node's key
    mempool,   \* mint transactions that wait for a block
    chain,     \* mint transactions in blocks this node produced
    watch,     \* depositWatcher of the relayer, in memory
    saved,     \* the watcher's state file
    poll,      \* the polls of the relayer
    stopping,  \* isShuttingDown
    faults     \* kinds a behaviour may have, and how many are left

store == <<claimed, disk, tmp>>
daemon == <<store, req, nonce, mempool, chain>>
relayer == <<watch, saved, poll, stopping>>
vars == <<head, daemon, relayer, faults>>

\* A file of the store: the keys it reads back as, and its length in keys.
File(keys, len) == [keys |-> keys, len |-> len]
Garbled == {None}

\* A request: the caller that waits for it, if any, the set it is writing, the
\* name its open file has now, and whether it is taking its key out again.
Idle == [pc |-> "idle", d |-> None, by |-> None, keys |-> {}, file |-> None, undo |-> FALSE]
Asleep == [pc |-> "idle", todo |-> {}, d |-> None, to |-> 0]
Watcher(last, done, pending) == [last |-> last, done |-> done, pending |-> pending]

Init ==
    /\ head = 0
    /\ claimed = {} /\ disk = File({}, 0) /\ tmp = None
    /\ req = [r \in Request |-> Idle]
    /\ nonce = 0 /\ mempool = {} /\ chain = {}
    /\ watch = Watcher(0, {}, {}) /\ saved = Watcher(0, {}, {})
    /\ poll = [p \in Poll |-> Asleep]
    /\ stopping = FALSE
    /\ \E kinds \in FaultSets : faults = [kinds |-> kinds, left |-> MaxFaults]

Has(kind) == kind \in faults.kinds
Fault(kind) ==
    /\ Has(kind) /\ faults.left > 0
    /\ faults' = [faults EXCEPT !.left = @ - 1]
NoFault == UNCHANGED faults

\* Base produces a block.
Grow ==
    /\ head < MaxHead
    /\ head' = head + 1
    /\ UNCHANGED <<daemon, relayer, faults>>

-----------------------------------------------------------------------------
(***************************************************************************)
(* The watcher's side of a claim (claimOne).                               *)
(***************************************************************************)
(* mutant: a claim that failed is not kept *)
FailedForgotten(d) == watch

Claimed(d) == Watcher(watch.last, watch.done \cup {d}, watch.pending \ {d})
Failed(d) == Watcher(watch.last, watch.done, watch.pending \cup {d})

\* The answer to request r reaches whoever waits for it; a browser, or a poll
\* that stopped waiting, keeps nothing.
Answer(q, r, ok) ==
    LET p == req[r].by  d == req[r].d
    IN  /\ req' = [q EXCEPT ![r] = Idle]
        /\ watch' = IF p = None THEN watch ELSE IF ok THEN Claimed(d) ELSE Failed(d)
        /\ poll' = IF p = None THEN poll ELSE [poll EXCEPT ![p].d = None]
        /\ UNCHANGED <<saved, stopping>>

Arrive(r, d, by) ==
    /\ req[r].pc = "idle"
    /\ req' = [req EXCEPT ![r] = [Idle EXCEPT !.pc = "check", !.d = d, !.by = by]]

-----------------------------------------------------------------------------
(***************************************************************************)
(* The daemon.                                                             *)
(***************************************************************************)
At(r, pc) == req[r].pc = pc
Goto(r, pc) == req' = [req EXCEPT ![r].pc = pc]

\* contains(), then the receipt, its depth and every other check on Base:
\* a failed read and a deposit that is too shallow refuse the claim.
Check(r) ==
    /\ At(r, "check")
    /\ UNCHANGED <<head, store, nonce, mempool, chain>>
    /\ \/ /\ req[r].d \in claimed
          /\ Answer(req, r, TRUE) /\ NoFault
       \/ /\ req[r].d \notin claimed
          /\ head < Block[req[r].d] + Depth
          /\ Answer(req, r, FALSE) /\ NoFault
       \/ /\ req[r].d \notin claimed
          /\ Fault("read")
          /\ Answer(req, r, FALSE)
       \/ /\ req[r].d \notin claimed
          /\ head >= Block[req[r].d] + Depth
          /\ Goto(r, "reserve") /\ NoFault
          /\ UNCHANGED relayer

(* mutant: the key is inserted without looking again *)
ReserveUnchecked(r) ==
    /\ At(r, "reserve")
    /\ claimed' = claimed \cup {req[r].d}
    /\ Goto(r, "snapshot") /\ UNCHANGED relayer
    /\ UNCHANGED <<head, disk, tmp, nonce, mempool, chain, faults>>

\* insert_if_absent under the write lock.
Reserve(r) ==
    /\ At(r, "reserve")
    /\ IF req[r].d \in claimed
       THEN Answer(req, r, TRUE) /\ UNCHANGED claimed
       ELSE /\ claimed' = claimed \cup {req[r].d}
            /\ Goto(r, "snapshot") /\ UNCHANGED relayer
    /\ UNCHANGED <<head, disk, tmp, nonce, mempool, chain, faults>>

\* persist() has no lock of its own: two of them are under way at once when two
\* claims are, which is the kind "overlap".
Persisting(r) == req[r].pc \in {"create", "write", "rename"}

\* The set is copied under the read lock.
Snapshot(r) ==
    /\ At(r, "snapshot")
    /\ Has("overlap") \/ \A q \in Request : ~Persisting(q)
    /\ req' = [req EXCEPT ![r].pc = "create", ![r].keys = claimed]
    /\ UNCHANGED <<head, store, nonce, mempool, chain, relayer, faults>>

\* File::create: a temporary file that is there is truncated, whoever has it open.
Create(r) ==
    /\ At(r, "create")
    /\ tmp' = File(Garbled, 0)
    /\ req' = [req EXCEPT ![r].pc = "write", ![r].file = "tmp"]
    /\ UNCHANGED <<head, claimed, disk, nonce, mempool, chain, relayer, faults>>

\* write_all from the start of an open file: what a longer write left behind
\* stays after a shorter one, and the file no longer parses.
Written(file, keys) ==
    LET len == Cardinality(keys)
    IN  IF file.len <= len THEN File(keys, len) ELSE File(Garbled, file.len)

\* write_all and sync_all; the file may have been renamed, or replaced, since.
Write(r) ==
    /\ At(r, "write")
    /\ tmp' = IF req[r].file = "tmp" THEN Written(tmp, req[r].keys) ELSE tmp
    /\ disk' = IF req[r].file = "disk" THEN Written(disk, req[r].keys) ELSE disk
    /\ req' = [req EXCEPT ![r].pc = "rename", ![r].keys = {}, ![r].file = None]
    /\ UNCHANGED <<head, claimed, nonce, mempool, chain, relayer, faults>>

\* The requests once the temporary file has the name of the store.
Renamed ==
    [r \in Request |-> [req[r] EXCEPT !.file = IF @ = "tmp" THEN "disk" ELSE None]]

(* mutant: the mint does not wait for the key to be written *)
PersistedAnyway(q, r, ok) ==
    IF ~req[r].undo
    THEN req' = [q EXCEPT ![r].pc = "mint"] /\ UNCHANGED relayer
    ELSE Answer(q, r, FALSE)

\* Where request r of q goes on when its persist() is over: to the mint, or,
\* after a reservation that could not be written and after a rollback, to the answer.
Persisted(q, r, ok) ==
    IF ok /\ ~req[r].undo
    THEN req' = [q EXCEPT ![r].pc = "mint"] /\ UNCHANGED relayer
    ELSE Answer(q, r, FALSE)

\* rename() of the temporary name, which another request may have renamed already.
Rename(r) ==
    /\ At(r, "rename")
    /\ IF tmp = None
       THEN Persisted(req, r, FALSE) /\ UNCHANGED <<disk, tmp>>
       ELSE disk' = tmp /\ tmp' = None /\ Persisted(Renamed, r, TRUE)
    /\ UNCHANGED <<head, claimed, nonce, mempool, chain, faults>>

\* A failed file operation: the key stays in memory.
PersistFails(r) ==
    /\ Persisting(r)
    /\ Fault("io")
    /\ Persisted(req, r, FALSE)
    /\ UNCHANGED <<head, store, nonce, mempool, chain>>

\* The mint transactions there are for deposit d.
Mints(d) == {tx \in mempool \cup chain : tx.d = d}

\* submit_bridge_mint_tx: the nonce is the committed one plus one, whatever is in
\* the mempool. It fails on a full mempool, and when a block commits the nonce
\* between its read and accept_tx (the kind "mint").
Mint(r) ==
    /\ At(r, "mint")
    /\ UNCHANGED <<head, store, nonce, chain>>
    /\ \/ /\ mempool' = mempool \cup {[d |-> req[r].d, nonce |-> nonce + 1,
                                       sig |-> Cardinality(Mints(req[r].d))]}
          /\ Answer(req, r, TRUE) /\ NoFault
       \/ /\ Fault("mint")
          /\ Goto(r, "undo")
          /\ UNCHANGED <<mempool, relayer>>

\* remove(): out of memory, then persist(), whose error is ignored.
Undo(r) ==
    /\ At(r, "undo")
    /\ claimed' = claimed \ {req[r].d}
    /\ req' = [req EXCEPT ![r].pc = "snapshot", ![r].undo = TRUE]
    /\ UNCHANGED <<head, disk, tmp, nonce, mempool, chain, relayer, faults>>

\* What the uniqueness rule of blocks tells transactions apart by: everything
\* that is signed, and not the signature (tx_identity).
Identity(tx) == <<Credit[tx.d], tx.nonce>>

\* mine_pending: the mempool is drained, transactions that an earlier block has
\* are dropped, and the transactions of the block are applied one after the other
\* in the order the mempool gives: the last one's nonce is the committed one
\* (apply_balance_block).  With none left there is no block.
Produce ==
    /\ mempool # {}
    /\ LET new == {tx \in mempool : \A old \in chain : Identity(tx) # Identity(old)}
       IN  /\ chain' = chain \cup new
           /\ nonce' \in IF new = {} THEN {nonce} ELSE {tx.nonce : tx \in new}
    /\ mempool' = {}
    /\ UNCHANGED <<head, store, req, relayer, faults>>

\* A transaction with a higher fee takes the place of a mint, whose fee is zero.
Evict ==
    /\ Fault("evict")
    /\ \E tx \in mempool : mempool' = mempool \ {tx}
    /\ UNCHANGED <<head, store, req, nonce, chain, relayer>>

\* The daemon dies and starts again: a store that does not parse reads as empty,
\* the mempool is gone, and whoever waited gets an error.
DaemonCrash ==
    /\ Fault("crash")
    /\ claimed' = disk.keys \ Garbled
    /\ req' = [r \in Request |-> Idle]
    /\ mempool' = {}
    /\ watch' = Watcher(watch.last, watch.done,
                        watch.pending \cup ({poll[p].d : p \in Poll} \ {None}))
    /\ poll' = [p \in Poll |-> [poll[p] EXCEPT !.d = None]]
    /\ UNCHANGED <<head, disk, tmp, nonce, chain, saved, stopping>>

\* The connection of a request nobody waits for is closed, and the server drops
\* its handler where it awaits; a file operation it has begun runs to its end.
Drop(r) ==
    /\ req[r].pc # "idle" /\ req[r].by = None
    /\ Fault("drop")
    /\ req' = [req EXCEPT ![r] = IF Persisting(r) THEN [@ EXCEPT !.undo = TRUE] ELSE Idle]
    /\ UNCHANGED <<head, store, nonce, mempool, chain, relayer>>

\* The owner of a deposit claims it from a browser, as often as they like
\* (the kind "browser").
BrowserClaim(r, d) ==
    /\ Has("browser") /\ Block[d] <= head
    /\ Arrive(r, d, None)
    /\ UNCHANGED <<head, store, nonce, mempool, chain, relayer, faults>>

-----------------------------------------------------------------------------
(***************************************************************************)
(* The deposit watcher (processDeposits).                                  *)
(***************************************************************************)
\* saveDepositState; a failed write is logged and forgotten.
Save(w) ==
    \/ saved' = w /\ NoFault
    \/ Fault("save") /\ UNCHANGED saved

(* mutant: pending deposits are not taken up *)
StartPollNoRetry(p) ==
    /\ poll[p].pc = "idle" /\ ~stopping
    /\ Has("overrun") \/ \A q \in Poll : poll[q].pc = "idle"
    /\ poll' = [poll EXCEPT ![p] = [Asleep EXCEPT !.pc = "retry"]]
    /\ UNCHANGED <<head, daemon, watch, saved, stopping, faults>>

\* setInterval starts a poll whether or not the one before it has ended, which is
\* the kind "overrun". It first takes up the deposits whose claim has not gone through.
StartPoll(p) ==
    /\ poll[p].pc = "idle" /\ ~stopping
    /\ Has("overrun") \/ \A q \in Poll : poll[q].pc = "idle"
    /\ poll' = [poll EXCEPT ![p] = [Asleep EXCEPT !.pc = "retry", !.todo = watch.pending]]
    /\ UNCHANGED <<head, daemon, watch, saved, stopping, faults>>

Waiting(p) == poll[p].d # None

\* The next deposit of a loop: found deposits are skipped when they are on record.
NextClaim(p, r) ==
    /\ poll[p].pc \in {"retry", "found"} /\ ~Waiting(p) /\ ~stopping
    /\ \E d \in Deposit :
          /\ d \in poll[p].todo
          /\ IF poll[p].pc = "found" /\ d \in watch.done \cup watch.pending
             THEN /\ poll' = [poll EXCEPT ![p].todo = @ \ {d}]
                  /\ UNCHANGED req
             ELSE /\ poll' = [poll EXCEPT ![p].todo = @ \ {d}, ![p].d = d]
                  /\ Arrive(r, d, p)
    /\ UNCHANGED <<head, store, nonce, mempool, chain, watch, saved, stopping, faults>>

\* A loop ends when it has no more deposits, or is left on shutdown.
LoopOver(p) == ~Waiting(p) /\ (stopping \/ poll[p].todo = {})

(* mutant: the request still answers to the poll that gave it up *)
TimeoutAttached(p) ==
    /\ Waiting(p)
    /\ Fault("slow")
    /\ watch' = Failed(poll[p].d)
    /\ poll' = [poll EXCEPT ![p].d = None]
    /\ UNCHANGED <<head, store, req, nonce, mempool, chain, saved, stopping>>

\* AbortSignal.timeout: the poll takes the claim for failed, the request goes on.
Timeout(p) ==
    /\ Waiting(p)
    /\ Fault("slow")
    /\ req' = [r \in Request |-> IF req[r].by = p THEN [req[r] EXCEPT !.by = None] ELSE req[r]]
    /\ watch' = Failed(poll[p].d)
    /\ poll' = [poll EXCEPT ![p].d = None]
    /\ UNCHANGED <<head, store, nonce, mempool, chain, saved, stopping>>

EndPoll(p) == poll' = [poll EXCEPT ![p] = Asleep]

\* The range to scan: from the cursor to the confirmed head, capped. A watcher
\* without a cursor starts at the head.
Scan(p) ==
    /\ poll[p].pc = "retry" /\ LoopOver(p)
    /\ UNCHANGED <<head, daemon, stopping>>
    /\ LET safe == head - Depth
           from == watch.last + 1
           to == Min({safe, from + Span - 1})
       IN  \/ Fault("read") /\ EndPoll(p) /\ UNCHANGED <<watch, saved>>
           \/ /\ safe <= 0 \/ (watch.last # None /\ from > safe)
              /\ EndPoll(p) /\ NoFault /\ UNCHANGED <<watch, saved>>
           \/ /\ safe > 0 /\ watch.last = None
              /\ watch' = [watch EXCEPT !.last = safe]
              /\ Save(watch') /\ EndPoll(p)
           \/ /\ safe > 0 /\ watch.last # None /\ from <= safe
              /\ poll' = [poll EXCEPT ![p] =
                    [pc |-> "found", todo |-> {d \in Deposit : Block[d] \in from..to}, d |-> None, to |-> to]]
              /\ NoFault /\ UNCHANGED <<watch, saved>>

\* The cursor moves on, whatever became of the claims.
Finish(p) ==
    /\ poll[p].pc = "found" /\ LoopOver(p)
    /\ watch' = [watch EXCEPT !.last = poll[p].to]
    /\ Save(watch')
    /\ EndPoll(p)
    /\ UNCHANGED <<head, daemon, stopping>>

\* The relayer starts again from its state file; its requests go on in the daemon.
Restart(w) ==
    /\ watch' = w
    /\ poll' = [p \in Poll |-> Asleep]
    /\ req' = [r \in Request |-> [req[r] EXCEPT !.by = None]]
    /\ stopping' = FALSE
    /\ UNCHANGED <<head, store, nonce, mempool, chain>>

\* It dies: between two writes of the file, or in one (writeFileSync writes in
\* place), after which loadDepositState finds nothing it can parse.
RelayerCrash ==
    \/ Fault("relayer") /\ Restart(saved) /\ UNCHANGED saved
    \/ Fault("torn") /\ Restart(Watcher(None, {}, {})) /\ saved' = Watcher(None, {}, {})

\* SIGTERM: the state is saved; withdrawals in flight keep the process alive.
Shutdown ==
    /\ ~stopping /\ Fault("stop")
    /\ saved' = watch
    /\ stopping' = TRUE
    /\ UNCHANGED <<head, daemon, watch, poll>>

Exit ==
    /\ stopping
    /\ Restart(saved)
    /\ UNCHANGED <<saved, faults>>

-----------------------------------------------------------------------------
Handle(r) ==
    \/ Check(r) \/ Reserve(r) \/ Snapshot(r) \/ Create(r) \/ Write(r) \/ Rename(r)
    \/ Mint(r) \/ Undo(r)

Watch(p) ==
    StartPoll(p) \/ (\E r \in Request : NextClaim(p, r)) \/ Scan(p) \/ Finish(p)

Next ==
    \/ Grow \/ Produce \/ Evict \/ DaemonCrash \/ RelayerCrash \/ Shutdown \/ Exit
    \/ \E r \in Request : Handle(r) \/ PersistFails(r) \/ Drop(r)
    \/ \E r \in Request, d \in Browser : BrowserClaim(r, d)
    \/ \E p \in Poll : Watch(p) \/ Timeout(p)

Spec == Init /\ [][Next]_vars

(***************************************************************************)
(* Fairness: Base grows, the node produces blocks, handlers run, the       *)
(* relayer polls. The daemon takes every request: Request is a bound of    *)
(* the model, so a poll that finds it free again and again sends its claim.*)
(***************************************************************************)
FairSpec ==
    /\ Spec
    /\ WF_vars(Grow) /\ WF_vars(Produce) /\ WF_vars(Exit)
    /\ \A r \in Request : WF_vars(Handle(r))
    /\ \A p \in Poll :
          /\ WF_vars(StartPoll(p) \/ Scan(p) \/ Finish(p))
          /\ SF_vars(\E r \in Request : NextClaim(p, r))

-----------------------------------------------------------------------------
Requests ==
    [pc : {"idle", "check", "reserve", "snapshot", "create", "write", "rename", "mint", "undo"},
     d : Deposit \cup {None}, by : Poll \cup {None}, keys : SUBSET Deposit,
     file : {"tmp", "disk", None}, undo : BOOLEAN]
Watchers == [last : 0..MaxHead \cup {None}, done : SUBSET Deposit, pending : SUBSET Deposit]

\* The types of the variables; a poll waits exactly while its request runs.
TypeOK ==
    /\ head \in 0..MaxHead
    /\ claimed \subseteq Deposit
    /\ \A f \in {disk, tmp} \ {None} :
          /\ f.keys \in (SUBSET Deposit) \cup {Garbled}
          /\ f.len \in 0..Cardinality(Deposit)
    /\ req \in [Request -> Requests]
    /\ \A tx \in mempool \cup chain : tx.d \in Deposit /\ tx.nonce \in 1..nonce + 1
    /\ watch \in Watchers /\ saved \in Watchers
    /\ \A p \in Poll :
          /\ poll[p].todo \subseteq Deposit
          /\ Waiting(p) => \E r \in Request : req[r].by = p
          /\ \A r \in Request : req[r].by = p => req[r].d = poll[p].d
    /\ faults.kinds \subseteq Kinds

\* A deposit is minted at most once, however many polls and browsers claim it,
\* and across rollbacks, dropped handlers, failing writes and crashes of both
\* programs. Not claimed where two writes of the store overlap and the daemon
\* then crashes: the older set may have been renamed last.
MintedOnce ==
    ~(Has("overlap") /\ Has("crash")) =>
        \A a, b \in mempool \cup chain : a.d = b.d => a = b

\* The key of every mint is in the file before the mint is submitted and stays
\* there, so a restart knows it (persist: "never a lost nullifier").
NullifierDurable ==
    ~Has("overlap") => \A d \in Deposit : Mints(d) # {} => d \in disk.keys

\* The cursor of the watcher, in memory and in its file, never passes a deposit
\* that is neither claimed nor kept for another attempt ("scanning always moves
\* forward"). Not claimed after a shutdown that leaves the loop, and after a
\* state file that was lost.
NoDepositSkipped ==
    ~(Has("stop") \/ Has("torn")) =>
        \A w \in {watch, saved}, d \in Deposit :
            Block[d] <= w.last => d \in w.done \cup w.pending

\* The faults after which the code itself, without an operator, credits a deposit.
Recoverable == {"read", "slow", "relayer", "save", "overrun", "browser"}

\* Every deposit that is deep enough is minted in a block: failed reads, claims
\* that time out, and a relayer that crashes or cannot save only delay it.
Credited ==
    \A d \in Deposit :
        (head >= Block[d] + Depth /\ faults.kinds \subseteq Recoverable)
            ~> \E tx \in chain : tx.d = d

\* A block is invalid when it has a transaction twice or one that an earlier
\* block has: no two transactions of the blocks this node produces may have one
\* identity (check_block_tx_uniqueness, which importing nodes apply).
TxUnique ==
    \A a, b \in chain : a # b => Identity(a) # Identity(b)

=============================================================================
