---------------------------- MODULE BridgePayout ----------------------------
(***************************************************************************)
(* Withdrawals from RougeChain to Base: tokens are burned in a block, the  *)
(* daemon keeps a payout record, the relayer releases the tokens on Base   *)
(* and has the record marked fulfilled, or after repeated failures has the *)
(* daemon mint the tokens back (refund).                                   *)
(*   daemon    core/storage bridge_withdraw_store, bridge_claim_store,     *)
(*             core/daemon node.rs (records), main.rs (handlers);          *)
(*   relayer   scripts/bridge-relayer.ts, bridge-relayer-core.ts;          *)
(*   Base      contracts RougeBridge (timelock for large amounts) and      *)
(*             BridgeVaultV2 (XRGE): both release an L1 id at most once.   *)
(* The relayer's EVM and XRGE loops run side by side (Promise.all), each   *)
(* on its feed's withdrawals: a process each.  Amounts, tokens and         *)
(* recipients are left out: a withdrawal is an id with a route.  Refunds   *)
(* are those the relayer asks for (AUTO_REFUND=true); submitted mints      *)
(* count as refunds.  Overlapping writes of bridge_claimed.json are in     *)
(* BridgeDeposit, not here.                                                *)
(***************************************************************************)
EXTENDS Integers, Sequences, FiniteSets

CONSTANTS
  Withdrawal,  \* ids of bridge_withdraw transactions
  Route,       \* [Withdrawal -> SUBSET Routes]: the routes each may take
  Poll,        \* loops of the relayer that may run at once, of one poll or more
  Feed,        \* [Poll -> SUBSET Routes]: the routes each of them serves
  Handler,     \* refund requests the daemon can work on at once
  Threshold,   \* WITHDRAWAL_REFUND_THRESHOLD
  Faults,      \* which faults the environment may inject (FaultKinds)
  MaxFaults,   \* bound on their number
  None

Routes == {"evm", "large", "xrge"}   \* large: RougeBridge queues it

FaultKinds ==
  {"rpc",      \* a read of Base fails
   "send",     \* a release call errors, whether or not it was broadcast
   "timeout",  \* the receipt does not arrive in time
   "revert",   \* paused, short of funds, over a cap
   "drop",     \* a transaction leaves the mempool of Base
   "reorg",    \* Base drops a block that is not deep yet
   "lost",     \* a request to the daemon or its answer is lost
   "refuse",   \* submit_bridge_mint_tx returns an error
   "io",       \* writing bridge_withdrawals.json fails
   "io_init",  \* ... in the rebuild after a restart
   "overlap",  \* two requests write it at once
   "crash",    \* the daemon dies
   "torn",     \* the daemon dies inside persist: the file is unreadable
   "relayer",  \* the relayer dies
   "late",     \* Base mines a release after the relayer gave it up
   "slow"}     \* a refund request outlives the relayer's 15 s

Terminal == {"fulfilled", "refunded"}
Rec == [st : {"pending", "failed"} \cup Terminal, attempts : 0..Threshold]

ASSUME BridgeAssumption ==
  /\ Route \in [Withdrawal -> SUBSET Routes] /\ Feed \in [Poll -> SUBSET Routes]
  /\ Threshold \in Nat \ {0}
  /\ Faults \subseteq FaultKinds /\ MaxFaults \in Nat
  /\ None \notin Withdrawal \cup Poll \cup Routes \cup Rec \cup {"queued"}

VARIABLES
  route,      \* of the withdrawals burned in a stored block
  mem, disk,  \* BridgeWithdrawStore: the records in memory and in the file
  degraded,   \* bridge_store_degraded
  keys,       \* BridgeClaimStore: refund nullifiers in memory ...
  keyfile,    \* ... and in bridge_claimed.json
  mints,      \* refund mints submitted
  srv,        \* the refund handlers
  processed,  \* processedL1Txs of the contract
  lock,       \* the timelock request of a large withdrawal
  paid,       \* transfers to the recipient on Base
  deep,       \* payments with the required confirmations
  txs,        \* release transactions sent to Base, in order
  wk,         \* the polls of the relayer
  done,       \* processedTxIds, persisted
  queued,     \* QueuedState, persisted
  faults      \* faults injected so far

daemon == <<route, mem, disk, degraded, keys, keyfile, mints, srv>>
base == <<processed, lock, paid, deep, txs>>
files == <<done, queued>>
vars == <<route, mem, disk, degraded, keys, keyfile, mints, srv, processed,
          lock, paid, deep, txs, wk, done, queued, faults>>

Fresh == [st |-> "pending", attempts |-> 0]
IdlePoll == [pc |-> "idle", w |-> None, tx |-> 0, loop |-> "list", list |-> {}]
IdleHandler == [pc |-> "idle", w |-> None, who |-> None]

Init ==
  /\ route = [w \in Withdrawal |-> None]
  /\ mem = [w \in Withdrawal |-> None] /\ disk = mem
  /\ degraded = FALSE
  /\ keys = {} /\ keyfile = {}
  /\ mints = [w \in Withdrawal |-> 0]
  /\ srv = [h \in Handler |-> IdleHandler]
  /\ processed = {} /\ deep = {}
  /\ lock = [w \in Withdrawal |-> "none"]
  /\ paid = [w \in Withdrawal |-> 0]
  /\ txs = << >>
  /\ wk = [r \in Poll |-> IdlePoll]
  /\ done = {}
  /\ queued = [w \in Withdrawal |-> None]
  /\ faults = 0

burned == {w \in Withdrawal : route[w] # None}
Fault(k) == k \in Faults /\ faults < MaxFaults /\ faults' = faults + 1

----------------------------------------------------------------------------
(* The daemon's records                                                    *)

(* a file that does not parse reads as an empty list *)
Unreadable == [w \in Withdrawal |-> None]

(* persist: the whole list replaces the file, or the write fails and only   *)
(* memory has changed.  The list is copied under the lock and written       *)
(* without it: of two requests at once the older list may be written last,  *)
(* or the two mixed up                                                      *)
Persisted ==
  \/ disk' = mem' /\ UNCHANGED faults
  \/ disk' \in {disk, Unreadable} /\ Fault("overlap")
PersistFails == Fault("io") /\ UNCHANGED disk

(* a block with the withdrawal is stored: persist_bridge_withdraw_results;  *)
(* a record that cannot be written is rolled back and degrades the bridge   *)
Withdraw(w) ==
  /\ w \notin burned
  /\ \E rt \in Route[w] : route' = [route EXCEPT ![w] = rt]
  /\ \/ mem' = [mem EXCEPT ![w] = Fresh] /\ Persisted /\ UNCHANGED degraded
     \/ UNCHANGED mem /\ PersistFails /\ degraded' = TRUE
  /\ UNCHANGED <<keys, keyfile, mints, srv, base, wk, files>>

(* mutant: refunded withdrawals are only recognised by their record *)
PayableByStatus ==
  {w \in Withdrawal : mem[w] # None /\ mem[w].st \notin Terminal}

(* relayer_payable_withdrawals, withhold_refunded *)
Payable ==
  {w \in Withdrawal : mem[w] # None /\ mem[w].st \notin Terminal /\ w \notin keys}

(* mark_fulfilled: a terminal record stays as it is *)
MarkFulfilled(w) ==
  mem' = IF mem[w] = None \/ mem[w].st \in Terminal THEN mem
         ELSE [mem EXCEPT ![w].st = "fulfilled"]

(* record_attempt: whatever the status was *)
RecordAttempt(w) ==
  mem' = [mem EXCEPT ![w] = [st |-> "failed",
            attempts |-> IF mem[w].attempts < Threshold THEN mem[w].attempts + 1
                         ELSE Threshold]]

(* mutant: the rebuild stops at the first record the file has *)
RebuiltIfEmpty(file, add) ==
  [w \in Withdrawal |-> IF w \in add /\ \A v \in Withdrawal : file[v] = None
                        THEN Fresh ELSE file[w]]

(* rebuild_bridge_withdraw_store: add what the file lacks *)
Rebuilt(file, add) ==
  [w \in Withdrawal |-> IF w \in add /\ file[w] = None THEN Fresh ELSE file[w]]

(* the daemon dies and starts again: the withdrawals in stored blocks are   *)
(* added, except what cannot be written; the requests it was serving fail   *)
Restart(file, stored) ==
  \E miss \in SUBSET stored :
    /\ miss # {} => "io_init" \in Faults
    /\ mem' = Rebuilt(file, stored \ miss)
    /\ disk' = mem'
    /\ degraded' = FALSE
    /\ srv' = [h \in Handler |-> IF srv[h].who = None THEN IdleHandler
                                 ELSE [srv[h] EXCEPT !.pc = "no"]]
    /\ keys' = keyfile
    /\ UNCHANGED <<keyfile, mints, base, wk, files>>

Crash == Fault("crash") /\ Restart(disk, burned) /\ UNCHANGED route

Open(w) == mem[w] # None /\ mem[w].st \notin Terminal

(* the places of persist, apart from the record of a new withdrawal: the    *)
(* rebuild of a start, record_attempt, mark_fulfilled and set_status        *)
Persisting ==
  \/ \E w \in burned : disk[w] = None
  \/ \E r \in Poll : LET w == wk[r].w IN
       \/ wk[r].pc = "report" /\ mem[w] # None
       \/ wk[r].pc = "fulfil" /\ w \in deep /\ Open(w)
  \/ \E h \in Handler : \/ srv[h].pc = "vault" /\ srv[h].w \in processed
                        \/ srv[h].pc = "status"

(* inside fs::write: the file is truncated *)
CrashInPersist ==
  /\ Fault("torn")
  /\ \/ Persisting /\ Restart(Unreadable, burned) /\ UNCHANGED route
     \/ \E w \in Withdrawal \ burned :
          /\ \E rt \in Route[w] : route' = [route EXCEPT ![w] = rt]
          /\ Restart(Unreadable, burned \cup {w})

----------------------------------------------------------------------------
(* bridge_withdrawal_refund, one handler                                   *)

Answer(h, pc) ==
  srv' = [srv EXCEPT ![h] = IF @.who = None THEN IdleHandler ELSE [@ EXCEPT !.pc = pc]]
At(h, pc) == srv' = [srv EXCEPT ![h].pc = pc]

(* the record is read, whatever its status is *)
RefundGet(h) ==
  LET w == srv[h].w IN
  /\ srv[h].pc = "get"
  /\ IF mem[w] = None THEN Answer(h, "no")
     ELSE At(h, IF route[w] = "xrge" THEN "vault" ELSE "key")
  /\ UNCHANGED <<route, mem, disk, degraded, keys, keyfile, mints, base, wk, files, faults>>

(* vault_l1tx_processed, for XRGE only: a payout that happened settles the  *)
(* record; if it cannot be read there is no refund                          *)
RefundVault(h) ==
  LET w == srv[h].w IN
  /\ srv[h].pc = "vault"
  /\ \/ /\ w \notin processed /\ At(h, "key")
        /\ UNCHANGED <<mem, disk, faults>>
     \/ /\ w \in processed /\ Answer(h, "no")
        /\ mem' = [mem EXCEPT ![w].st = "fulfilled"]
        /\ Persisted \/ PersistFails
     \/ /\ Fault("rpc") /\ Answer(h, "no")
        /\ UNCHANGED <<mem, disk>>
  /\ UNCHANGED <<route, degraded, keys, keyfile, mints, base, wk, files>>

(* the nullifier is looked up ... *)
RefundContains(h) ==
  /\ srv[h].pc = "key"
  /\ IF srv[h].w \in keys THEN Answer(h, "no") ELSE At(h, "reserve")
  /\ UNCHANGED <<route, mem, disk, degraded, keys, keyfile, mints, base, wk, files, faults>>

(* ... and inserted; a failing write leaves it in memory *)
RefundInsert(h) ==
  /\ srv[h].pc = "reserve"
  /\ keys' = keys \cup {srv[h].w}
  /\ \/ keyfile' = keys' /\ At(h, "mint") /\ UNCHANGED faults
     \/ Fault("io") /\ Answer(h, "no") /\ UNCHANGED keyfile
  /\ UNCHANGED <<route, mem, disk, degraded, mints, base, wk, files>>

(* submit_bridge_mint_tx; when it is refused the nullifier is released *)
RefundMint(h) ==
  LET w == srv[h].w IN
  /\ srv[h].pc = "mint"
  /\ \/ /\ mints' = [mints EXCEPT ![w] = @ + 1] /\ At(h, "status")
        /\ UNCHANGED <<keys, keyfile, faults>>
     \/ /\ Fault("refuse") /\ keys' = keys \ {w} /\ Answer(h, "no")
        /\ keyfile' = keys' \/ ("io" \in Faults /\ UNCHANGED keyfile)
        /\ UNCHANGED mints
  /\ UNCHANGED <<route, mem, disk, degraded, base, wk, files>>

(* set_status Refunded; a failing write is only logged *)
RefundStatus(h) ==
  /\ srv[h].pc = "status"
  /\ mem' = [mem EXCEPT ![srv[h].w].st = "refunded"]
  /\ Persisted \/ PersistFails
  /\ Answer(h, "ok")
  /\ UNCHANGED <<route, degraded, keys, keyfile, mints, base, wk, files>>

HandlerStep(h) ==
  \/ RefundGet(h) \/ RefundVault(h) \/ RefundContains(h)
  \/ RefundInsert(h) \/ RefundMint(h) \/ RefundStatus(h)

----------------------------------------------------------------------------
(* Base: the contracts and the chain they are on                           *)

Pending(w) == \E i \in DOMAIN txs : txs[i].w = w /\ txs[i].st = "pending"

(* releaseETH, releaseERC20, BridgeVaultV2.release: the id is marked, then  *)
(* the amount is sent or queued                                             *)
Mine(i) ==
  LET w == txs[i].w IN
  /\ txs[i].st = "pending"
  /\ w \notin processed
  /\ txs' = [txs EXCEPT ![i].st = "ok"]
  /\ processed' = processed \cup {w}
  /\ IF route[w] = "large"
     THEN lock' = [lock EXCEPT ![w] = "queued"] /\ UNCHANGED paid
     ELSE paid' = [paid EXCEPT ![w] = @ + 1] /\ UNCHANGED lock
  /\ UNCHANGED <<daemon, deep, wk, files, faults>>

(* AlreadyProcessed, or one of the other reverts *)
Revert(i) ==
  /\ txs[i].st = "pending"
  /\ \/ txs[i].w \in processed /\ UNCHANGED faults
     \/ Fault("revert")
  /\ txs' = [txs EXCEPT ![i].st = "reverted"]
  /\ UNCHANGED <<daemon, processed, lock, paid, deep, wk, files>>

Drop(i) ==
  /\ txs[i].st = "pending" /\ Fault("drop")
  /\ txs' = [txs EXCEPT ![i].st = "dropped"]
  /\ UNCHANGED <<daemon, processed, lock, paid, deep, wk, files>>

(* executeTimelock, by the owner *)
ExecuteTimelock(w) ==
  /\ lock[w] = "queued"
  /\ lock' = [lock EXCEPT ![w] = "executed"]
  /\ paid' = [paid EXCEPT ![w] = @ + 1]
  /\ UNCHANGED <<daemon, processed, deep, txs, wk, files, faults>>

(* cancelTimelock, by the guardian *)
CancelTimelock(w) ==
  /\ lock[w] = "queued"
  /\ lock' = [lock EXCEPT ![w] = "cancelled"]
  /\ UNCHANGED <<daemon, processed, paid, deep, txs, wk, files, faults>>

Confirm(w) ==
  /\ paid[w] > 0 /\ w \notin deep
  /\ deep' = deep \cup {w}
  /\ UNCHANGED <<daemon, processed, lock, paid, txs, wk, files, faults>>

(* the block of an immediate release disappears before it is deep *)
Reorg(i) ==
  LET w == txs[i].w IN
  /\ txs[i].st = "ok" /\ lock[w] = "none" /\ w \notin deep
  /\ Fault("reorg")
  /\ txs' = [txs EXCEPT ![i].st = "pending"]
  /\ processed' = processed \ {w}
  /\ paid' = [paid EXCEPT ![w] = @ - 1]
  /\ UNCHANGED <<daemon, lock, deep, wk, files>>

----------------------------------------------------------------------------
(* The relayer: a loop of one call of run()                                *)

Goto(r, pc) == wk' = [wk EXCEPT ![r].pc = pc]

(* mutant: the withdrawal stays in flight *)
LeaveInFlight(r) == wk' = [wk EXCEPT ![r].pc = "next"]

(* the outcome of one withdrawal, inFlightTxIds.delete *)
Leave(r) == wk' = [wk EXCEPT ![r].pc = "next", ![r].w = None, ![r].tx = 0]

(* persistQueued *)
Keep(r, state) == queued' = [queued EXCEPT ![wk[r].w] = state] /\ Leave(r)

Listed(r) == {w \in Payable : route[w] \in Feed[r]}
Queued(r) == {w \in Withdrawal : queued[w] = "queued" /\ route[w] \in Feed[r]}

(* run: nothing happens while the daemon is degraded; a loop that would     *)
(* find nothing is left out                                                 *)
Fetch(r) ==
  /\ wk[r].pc = "idle" /\ ~degraded
  /\ Listed(r) \cup Queued(r) # {}
  /\ wk' = [wk EXCEPT ![r] = [IdlePoll EXCEPT !.pc = "next", !.list = Listed(r)]]
  /\ UNCHANGED <<daemon, base, files, faults>>

InFlight(r, w) == \E q \in Poll \ {r} : wk[q].w = w /\ wk[q].loop = "list"
Skipped(r, w) ==
  w \in done \/ InFlight(r, w) \/ (route[w] # "xrge" /\ queued[w] # None)

(* the loop of processEthWithdrawals or processXrgeWithdrawals; the one of  *)
(* pollQueuedWithdrawals after the first (an XRGE payout is never queued)   *)
NextItem(r) ==
  /\ wk[r].pc = "next"
  /\ \/ \E w \in wk[r].list :
          wk' = [wk EXCEPT ![r].list = @ \ {w},
                           ![r].w = IF wk[r].loop = "list" /\ Skipped(r, w) THEN None ELSE w,
                           ![r].pc = IF wk[r].loop = "queue" THEN "getter"
                                     ELSE IF Skipped(r, w) THEN "next" ELSE "check"]
     \/ /\ wk[r].list = {} /\ wk[r].loop = "list"
        /\ wk' = [wk EXCEPT ![r].loop = "queue", ![r].list = Queued(r)]
     \/ /\ wk[r].list = {} /\ wk[r].loop = "queue"
        /\ wk' = [wk EXCEPT ![r] = IdlePoll]
  /\ UNCHANGED <<daemon, base, files, faults>>

(* processedL1Txs before any release *)
Check(r) ==
  /\ wk[r].pc = "check"
  /\ \/ Goto(r, IF wk[r].w \in processed THEN "reconcile" ELSE "send") /\ UNCHANGED faults
     \/ Fault("rpc") /\ Leave(r)
  /\ UNCHANGED <<daemon, base, files>>

Sent(w) == txs' = Append(txs, [w |-> w, st |-> "pending"])

(* a release call; one that errors is repeated (EVM), or handled as failed *)
Send(r) ==
  LET w == wk[r].w IN
  /\ wk[r].pc = "send"
  /\ \/ /\ Sent(w) /\ UNCHANGED faults
        /\ wk' = [wk EXCEPT ![r].pc = "wait", ![r].tx = Len(txs) + 1]
     \/ /\ Fault("send")
        /\ Sent(w) \/ UNCHANGED txs
        /\ Goto(r, "failure") \/ (route[w] # "xrge" /\ Goto(r, "recheck"))
  /\ UNCHANGED <<daemon, processed, lock, paid, deep, files>>

(* before a repeated send *)
Recheck(r) ==
  /\ wk[r].pc = "recheck"
  /\ \/ Goto(r, IF wk[r].w \in processed THEN "failure" ELSE "send") /\ UNCHANGED faults
     \/ Fault("rpc") /\ Goto(r, "failure")
  /\ UNCHANGED <<daemon, base, files>>

(* waitForReceipt; a receipt that does not come is a failure for EVM, and   *)
(* left to the next poll for XRGE                                           *)
Wait(r) ==
  LET st == txs[wk[r].tx].st
      xrge == route[wk[r].w] = "xrge" IN
  /\ wk[r].pc = "wait"
  /\ \/ st = "ok" /\ Goto(r, IF xrge THEN "fulfil" ELSE "classify") /\ UNCHANGED faults
     \/ st = "reverted" /\ Goto(r, "failure") /\ UNCHANGED faults
     \/ /\ (st = "dropped" /\ UNCHANGED faults) \/ (st = "pending" /\ Fault("timeout"))
        /\ IF xrge THEN Leave(r) ELSE Goto(r, "failure")
  /\ UNCHANGED <<daemon, base, files>>

(* classifyReleaseReceipt: what a successful receipt says *)
Classify(r) ==
  LET w == wk[r].w IN
  /\ wk[r].pc = "classify"
  /\ \/ route[w] = "evm" /\ Goto(r, "fulfil") /\ UNCHANGED <<queued, faults>>
     \/ route[w] = "large" /\ lock[w] = "queued" /\ Keep(r, "queued") /\ UNCHANGED faults
     \/ route[w] = "large" /\ lock[w] # "queued" /\ Keep(r, "ambiguous") /\ UNCHANGED faults
     \/ route[w] = "large" /\ Fault("rpc") /\ Keep(r, "ambiguous")
  /\ UNCHANGED <<daemon, base, done>>

(* reconcileProcessedId, applyReconciliation; the same for the XRGE vault,  *)
(* where nothing is kept                                                    *)
Reconcile(r) ==
  LET w == wk[r].w IN
  /\ wk[r].pc = "reconcile"
  /\ \/ paid[w] > 0 /\ Goto(r, "fulfil") /\ UNCHANGED <<queued, faults>>
     \/ /\ paid[w] = 0 /\ route[w] # "xrge" /\ UNCHANGED faults
        /\ Keep(r, IF lock[w] = "none" THEN "ambiguous" ELSE lock[w])
     \/ paid[w] = 0 /\ route[w] = "xrge" /\ Leave(r) /\ UNCHANGED <<queued, faults>>
     \/ Fault("rpc") /\ Leave(r) /\ UNCHANGED queued
     \/ lock[w] = "queued" /\ Fault("rpc") /\ Keep(r, "ambiguous")
  /\ UNCHANGED <<daemon, base, done>>

(* mutant: a cancelled request is waited for *)
GetterIgnoresCancel(r) ==
  LET w == wk[r].w IN
  /\ wk[r].pc = "getter"
  /\ \/ lock[w] = "executed" /\ Goto(r, "fulfil") /\ UNCHANGED <<queued, faults>>
     \/ lock[w] # "executed" /\ Leave(r) /\ UNCHANGED <<queued, faults>>
  /\ UNCHANGED <<daemon, base, done>>

(* pollQueuedWithdrawals, one entry *)
Getter(r) ==
  LET w == wk[r].w IN
  /\ wk[r].pc = "getter"
  /\ \/ lock[w] = "executed" /\ Goto(r, "fulfil") /\ UNCHANGED <<queued, faults>>
     \/ lock[w] = "cancelled" /\ Keep(r, "cancelled") /\ UNCHANGED faults
     \/ lock[w] = "queued" /\ Leave(r) /\ UNCHANGED <<queued, faults>>
     \/ Fault("rpc") /\ Leave(r) /\ UNCHANGED queued
  /\ UNCHANGED <<daemon, base, done>>

(* mutant: a payment counts as soon as it is mined *)
FulfilAtOnce(r) ==
  LET w == wk[r].w IN
  /\ wk[r].pc = "fulfil"
  /\ paid[w] > 0 /\ Open(w)
  /\ MarkFulfilled(w) /\ Persisted /\ Leave(r)
  /\ done' = done \cup {w} /\ queued' = [queued EXCEPT ![w] = None]
  /\ UNCHANGED <<route, degraded, keys, keyfile, mints, srv, base>>

(* payoutDeepEnough, then bridge_withdrawal_fulfill or xrge_bridge_fulfill: *)
(* the daemon checks payment and depth again                                *)
Fulfil(r) ==
  LET w == wk[r].w IN
  /\ wk[r].pc = "fulfil" /\ Leave(r)
  /\ \/ /\ w \in deep /\ Open(w) /\ MarkFulfilled(w) /\ Persisted
        /\ done' = done \cup {w} /\ queued' = [queued EXCEPT ![w] = None]
     \/ /\ w \in deep /\ Open(w) /\ MarkFulfilled(w) /\ UNCHANGED files
        /\ PersistFails \/ (disk' = mem' /\ Fault("lost"))
     \/ /\ w \notin deep \/ ~Open(w)
        /\ UNCHANGED <<mem, disk, files, faults>>
     \/ Fault("rpc") /\ UNCHANGED <<mem, disk, files>>
  /\ UNCHANGED <<route, degraded, keys, keyfile, mints, srv, base>>

(* handleEvmFailure and the failure branches of processXrgeWithdrawal: only *)
(* an id the contract does not know is reported.  Unless "late", Base has   *)
(* decided every release of the withdrawal by then                          *)
Failure(r) ==
  LET w == wk[r].w IN
  /\ wk[r].pc = "failure"
  /\ "late" \in Faults \/ ~Pending(w)
  /\ \/ w \notin processed /\ Goto(r, "report") /\ UNCHANGED faults
     \/ w \in processed /\ route[w] # "xrge" /\ Goto(r, "reconcile") /\ UNCHANGED faults
     \/ w \in processed /\ route[w] = "xrge" /\ Leave(r) /\ UNCHANGED faults
     \/ Fault("rpc") /\ Leave(r)
  /\ UNCHANGED <<daemon, base, files>>

(* bridge_withdrawal_report_failure: shouldRefund once the count is there *)
Report(r) ==
  LET w == wk[r].w IN
  /\ wk[r].pc = "report"
  /\ \/ /\ (mem[w] = None /\ UNCHANGED faults) \/ Fault("lost")
        /\ Leave(r) /\ UNCHANGED <<mem, disk>>
     \/ /\ mem[w] # None /\ RecordAttempt(w) /\ Persisted
        /\ IF mem'[w].attempts < Threshold THEN Leave(r)
           ELSE Goto(r, IF route[w] = "xrge" THEN "ask" ELSE "guard")
     \/ /\ mem[w] # None /\ RecordAttempt(w) /\ Leave(r)
        /\ PersistFails \/ (disk' = mem' /\ Fault("lost"))
  /\ UNCHANGED <<route, degraded, keys, keyfile, mints, srv, base, files>>

(* guardedRefund: only for an id proven unprocessed *)
Guard(r) ==
  /\ wk[r].pc = "guard"
  /\ \/ wk[r].w \notin processed /\ Goto(r, "ask") /\ UNCHANGED faults
     \/ wk[r].w \in processed /\ Leave(r) /\ UNCHANGED faults
     \/ Fault("rpc") /\ Leave(r)
  /\ UNCHANGED <<daemon, base, files>>

(* refundWithdrawal: the request reaches a handler *)
Ask(r) ==
  /\ wk[r].pc = "ask" /\ Goto(r, "await")
  /\ \E h \in Handler :
       /\ srv[h] = IdleHandler
       /\ srv' = [srv EXCEPT ![h] = [pc |-> "get", w |-> wk[r].w, who |-> r]]
  /\ UNCHANGED <<route, mem, disk, degraded, keys, keyfile, mints, base, files, faults>>

(* its answer; no answer counts as no refund *)
Await(r) ==
  \E h \in Handler :
    /\ wk[r].pc = "await" /\ srv[h].who = r /\ Leave(r)
    /\ \/ /\ srv[h].pc \in {"ok", "no"}
          /\ srv' = [srv EXCEPT ![h] = IdleHandler]
          /\ \/ srv[h].pc = "ok" /\ done' = done \cup {wk[r].w} /\ UNCHANGED faults
             \/ srv[h].pc = "no" /\ UNCHANGED <<done, faults>>
             \/ srv[h].pc = "ok" /\ Fault("lost") /\ UNCHANGED done
       \/ /\ srv[h].pc \notin {"ok", "no"} /\ Fault("slow")
          /\ srv' = [srv EXCEPT ![h].who = None] /\ UNCHANGED done
    /\ UNCHANGED <<route, mem, disk, degraded, keys, keyfile, mints, base, queued>>

(* the relayer dies and starts again; its two files are written at every    *)
(* change.  Unless "slow", a running refund request is finished by then     *)
RelayerCrash ==
  /\ Fault("relayer")
  /\ "slow" \in Faults \/ \A h \in Handler : srv[h].pc \in {"idle", "ok", "no"}
  /\ wk' = [r \in Poll |-> IdlePoll]
  /\ srv' = [h \in Handler |-> IF srv[h].pc \in {"idle", "ok", "no"} THEN IdleHandler
                               ELSE [srv[h] EXCEPT !.who = None]]
  /\ UNCHANGED <<route, mem, disk, degraded, keys, keyfile, mints, base, files>>

PollStep(r) ==
  \/ Fetch(r) \/ NextItem(r) \/ Check(r) \/ Send(r) \/ Recheck(r) \/ Wait(r)
  \/ Classify(r) \/ Reconcile(r) \/ Getter(r) \/ Fulfil(r) \/ Failure(r)
  \/ Report(r) \/ Guard(r) \/ Ask(r) \/ Await(r)

----------------------------------------------------------------------------

Next ==
  \/ \E w \in Withdrawal : Withdraw(w) \/ ExecuteTimelock(w) \/ CancelTimelock(w) \/ Confirm(w)
  \/ \E i \in DOMAIN txs : Mine(i) \/ Revert(i) \/ Drop(i) \/ Reorg(i)
  \/ \E h \in Handler : HandlerStep(h)
  \/ \E r \in Poll : PollStep(r)
  \/ Crash \/ CrashInPersist \/ RelayerCrash

Spec == Init /\ [][Next]_vars

(* Base mines what is in its mempool and grows, the owner or the guardian   *)
(* decides every timelock, and neither a poll nor a handler stops forever   *)
FairSpec ==
  /\ Spec
  /\ \A r \in Poll : WF_vars(PollStep(r))
  /\ \A h \in Handler : WF_vars(HandlerStep(h))
  /\ WF_vars(\E i \in DOMAIN txs : Mine(i) \/ Revert(i))
  /\ \A w \in Withdrawal : WF_vars(Confirm(w)) /\ WF_vars(ExecuteTimelock(w) \/ CancelTimelock(w))

----------------------------------------------------------------------------

Record == {None} \cup Rec
PollPC == {"idle", "next", "check", "send", "recheck", "wait", "classify", "reconcile",
           "getter", "fulfil", "failure", "report", "guard", "ask", "await"}
HandlerPC == {"idle", "get", "vault", "key", "reserve", "mint", "status", "ok", "no"}

(* Types, with what the parts of the state say of each other: a poll works  *)
(* on a withdrawal exactly when it is not between two, it waits for a       *)
(* release it sent itself, and only burned withdrawals have records.        *)
TypeOK ==
  /\ route \in [Withdrawal -> Routes \cup {None}]
  /\ keys \subseteq burned /\ keyfile \subseteq burned
  /\ mem \in [Withdrawal -> Record] /\ disk \in [Withdrawal -> Record]
  /\ degraded \in BOOLEAN
  /\ mints \in [Withdrawal -> Nat] /\ paid \in [Withdrawal -> Nat]
  /\ srv \in [Handler -> [pc : HandlerPC, w : Withdrawal \cup {None}, who : Poll \cup {None}]]
  /\ processed \subseteq burned /\ deep \subseteq processed
  /\ lock \in [Withdrawal -> {"none", "queued", "executed", "cancelled"}]
  /\ \A i \in DOMAIN txs :
       txs[i] \in [w : burned, st : {"pending", "ok", "reverted", "dropped"}]
  /\ \A r \in Poll :
       /\ wk[r].pc \in PollPC /\ wk[r].loop \in {"list", "queue"}
       /\ wk[r].list \subseteq burned /\ wk[r].w \in burned \cup {None}
       /\ wk[r].w = None <=> wk[r].pc \in {"idle", "next"}
       /\ wk[r].pc = "wait" => txs[wk[r].tx].w = wk[r].w
  /\ done \subseteq burned
  /\ queued \in [Withdrawal -> {None, "queued", "cancelled", "ambiguous"}]
  /\ \A w \in Withdrawal \ burned : mem[w] = None

(* A withdrawal is settled at most once: paid on Base at most once, or      *)
(* minted back at most once, and never both.  main.rs withhold_refunded:    *)
(* a refunded withdrawal must never also be paid out.                       *)
SettledOnce == \A w \in Withdrawal : paid[w] + mints[w] <= 1

(* A record the daemon shows as fulfilled stands for a payment that exists  *)
(* on Base, and still does after any reorganisation.                        *)
FulfilledIsPaid ==
  \A w \in Withdrawal : mem[w] # None /\ mem[w].st = "fulfilled" => paid[w] > 0

(* While the daemon answers that its bridge store is healthy, every burned  *)
(* withdrawal has a record: no list the relayer works from has a gap        *)
(* (node.rs bridge_store_degraded, bridge_health).                          *)
ListIsComplete == ~degraded => \A w \in burned : mem[w] # None

(* What the code leaves to the operator: a cancelled or ambiguous release,  *)
(* a refund nullifier without a mint, a degraded store.                     *)
Parked(w) == queued[w] \in {"cancelled", "ambiguous"} \/ w \in keys \/ degraded

(* Every burned withdrawal is paid and booked as paid, or minted back, or   *)
(* ends in one of the states that wait for the operator.                    *)
Settles ==
  \A w \in Withdrawal :
    w \in burned ~> \/ Parked(w)
                    \/ mints[w] > 0
                    \/ paid[w] > 0 /\ (w \in done \/ mem[w].st = "fulfilled")
=============================================================================
