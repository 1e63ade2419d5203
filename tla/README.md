# RougeChain node: TLA+ models, checks and proofs

This directory models the parts of the RougeChain node whose correctness rests on
ordering: votes and certificates, the anti-double-sign journal, the light client that
checks certificates without running a node, block import with its rollback and recovery,
and the bridges: payout of withdrawals on Base and on Bitcoin, and deposits from Base. The
models are checked with TLC on small instances; the main safety properties are also proved
with TLAPS for every value of the constants. `PROJECT.json` lists components, runs, mutants,
hazards, theorems and the source lines behind each definition.

    tlc -workers 2 -config <run>.cfg <MC module>     # one run
    tlapm <module>Proofs.tla                         # the proofs of one module

Paths below are relative to `src/`; `node.rs` and `main.rs` are those of `core/daemon/src`.

## 1. Survey of the system

| Part | State | Operations | What is hard about it | Here |
|---|---|---|---|---|
| Signing journal (`core/finality/src/journal.rs`) | one file per signing slot | `sign_vote` = `commit` + `pqc_sign` | several processes on one directory, kills, power loss | modelled, proved |
| FINALITY_V2 + Release 2a (`node.rs`, `core/finality/src/lib.rs`, `finality_net.rs`) | vote pool, proofs, finalized height, proposal journal | vote, gossip, pull proofs, seal, import, replay a proposal | Byzantine third, siblings, restarts, interrupted recovery | modelled, proved |
| Block import, production, recovery (`node.rs`, `chain_store.rs`) | chain store, ledger maps, about twenty sled stores, validator store, snapshot, tx-seen index | `import_block`, `mine_pending`, `init`, `recover_from_history` | callers without a common lock, rollback of several stores, crash between any two writes | modelled, proved for one caller |
| Withdrawals (`bridge-relayer*.ts`, `main.rs`, `bridge_withdraw_store.rs`, `bridge_claim_store.rs`, two contracts) | payout records, refund nullifiers, relayer files, `processedL1Txs`, timelocks | release, reconcile, queue, fulfil, report, refund | three systems that fail separately; timeouts, reorganisations, lost answers | modelled, proved |
| Light client (`packages/core/src/finality-verify.ts`) | none | `verifyTxFinalized` | answers of nodes that are behind, recovering or faulty | modelled, proved |
| Bitcoin payouts (`btc-bridge-relayer.ts`, `btc-relayer-core.ts`, `bridge_btc.rs`) | one state file, custody coins, payout records | plan, broadcast, re-send, adopt, fulfil | no withdrawal id on Bitcoin; lost broadcasts, eviction, crashes, lost file | modelled, proved |
| Deposits from Base (`bridge-relayer.ts`, `bridge_claim_store.rs`, `main.rs`, `rouge_bridge_deposit.rs`) | claimed keys and their file, mempool, watcher's cursor and file | watch, claim, reserve, persist, mint, roll back | overlapping claims and writes, dropped handlers, timeouts, crashes of two programs | modelled, proved |
| Validator replay (`core/finality/src/validator_replay.rs`) | validator sets by height | replay of staking transactions | must be a function of the chain | its result is a constant |
| Validator store, staking, unbonding | stakes, jail, unbonding queue | stake, unstake, slash, release | height boundaries | planned |
| Legacy BFT, consensus crate | – | – | superseded from the activation height on | – |
| Ledger, fees, nonces, tokens | balance maps | `apply_*` | conservation, rounding | planned |
| Mempool | pending transactions, nonces | admit, drain, evict | admission against a moving state | planned |
| AMM, order book | reserves, orders | swap, add, remove, match | u128 rounding, k never shrinks | planned |
| Shielded pool V2, wallet store | nullifiers, tree, anchors, notes | shield, transfer, unshield, scan | anchor window, pending spends across rescans | planned |
| Shielded V1, rollup | nullifiers, commitments | – | frozen in favour of V2 | – |
| Bitcoin deposits | pending deposits, claim keys | watch, claim | same store and order as deposits from Base | planned |
| Contracts outside the release path | caps, daily window, pause | single transactions | window boundaries | planned |
| WASM machine and its contracts | contract storage | call with fuel | rollback on a trap, share accounting | planned in part |
| Governance, multisig, locks, allowances | keyed stores | applied with a block | covered by "the stores follow the chain" | – |
| Peer sync and gossip | peer lists | fetch, push | its effect is delivery in any order | inside the models |
| Names, mail, messenger, social, push; APIs; CLI; web, extension, SDK; cryptography | – | – | I/O, views, cryptography | – |
| `research/consensus0` | – | – | prototype the node does not run | planned when adopted |

The parts interact as follows. A proposer seals a block and records it in its proposal
journal; every node imports it through `import_block`; the import ends in
`auto_vote_for_block`, which asks the signing journal for a slot before each signature;
precommits of more than two thirds of the stake form a proof; the next block carries it as
`parent_commit`, and `import_block` checks it. A light client takes the certificate from
that header or from a node that has the proof. A stored block with a withdrawal creates a
payout record, from which the relayers for Base and Bitcoin work. Claims of deposits and
refunds of withdrawals go through one claim store, and end in a mint transaction that waits
in the mempool of the node.

## 2. Modules

| Module | Models | Lines |
|---|---|---|
| `VoteLock` | abstract: a slot is locked to one hash, only that hash is signed | 39 |
| `SigningJournal` | the journal's file protocol; implements `VoteLock` | 213 |
| `FinalizedChain` | abstract: one finalized chain that grows at its end | 24 |
| `FinalityV2` | the network of nodes; implements `FinalizedChain` | 584 |
| `LightClient` | a call of the light client, over `FinalityV2` | 148 |
| `BlockImport` | one node: import, production, rollback, crash, recovery | 540 |
| `BridgePayout` | daemon, relayer and Base contracts for withdrawals | 613 |
| `BtcPlan` | coin selection, size, fee and acceptance of a Bitcoin payout, as operators | 84 |
| `BtcPayout` | Bitcoin, the relayer with its state file, the daemon's records | 424 |
| `BridgeDeposit` | claim store, claim handlers, mints, deposit watcher | 503 |
| `MC*` | the instances for TLC | |
| `SigningJournalProofs` | journal proofs | |
| `FinalityV2Proofs`, `FinalityV2Recovery` | finality proofs: quorums, votes, certificates, chains and proposals; recovery and the light client | |
| `BlockImportProofs` | import proofs: chain, copies of the state, snapshot, roots, index, recorded sets | |
| `BridgePayoutProofs` | withdrawal proofs: shapes, contracts, records; refunds | |
| `BtcPayoutProofs`, `BtcCustodyProofs` | Bitcoin payouts: records, types, coins; sums, plans, what an address gets and custody loses | |
| `BridgeDepositProofs` | deposit proofs: mints and nullifiers; the watcher | |

Definitions named in a comment as a mutant, or described as a variant of the next
definition (`QuorumTwoThirds`, `CommitUnchecked`, `PendingNone`, ...), are plausible bugs.
They are not used by the specifications: each shows that a property can fail when put in
place of the definition after it (`mutants` in `PROJECT.json`).

### SigningJournal

`dir` is the journal directory as processes see it, `disk` what a power loss leaves.
`sign_vote` is split where another process can come in: `SignVote` (intent built),
`CommitExisting` (`slot.exists()` early return), `WriteTmp`, `Link` / `LinkExists`
(`hard_link`, or EEXIST and `check_existing`), `SyncDir`, `Sign`. `Abort` is an I/O error or
a kill at any of these points. `Writeback` and `PowerLoss` are the machine. A record is
complete before it can become a slot, so a slot is the hash it names. `faults`, chosen in
`Init` from `FaultSets`, says whether processes overlap, are cut short, or lose power.

### FinalityV2

Blocks are a given tree; which of them come to exist is up to the proposers. `Stake[b]` is
the validator set for the height after `b`, the result of `ValidatorReplay`. A faulty
validator signs any precommit and seals any block. The actions of an honest node:

| Action | Code |
|---|---|
| `Seal`, `Append`, `SealFails` | `mine_pending` before, after and failing between `journal_proposal` and `append_block` |
| `ReplayProposal` | `replay_recorded_proposal`, `recover_pending_proposal` |
| `Import`, `ImportFails` | `import_block`; the proof of the parent stays when the block is refused later on |
| `Vote`, `Revote` | the loop of `auto_vote_v2`; `resign_recent_votes` and the waiting producer |
| `Deliver`, `PullProof` | `receive_gossiped_vote`, `pull_finality_proofs` |
| `Restart`, `Reimport`, `Start` | process death, `recover_from_history`, end of `init` |

The signing journal enters as `MayLock`, i.e. as `VoteLock`, which `SigningJournal` is
shown to implement. Votes and blocks are sets: they are delivered in any order, again, or
never. Prevotes are signed and journaled but no decision of the code reads them, so the
pool holds precommits only. `ImportFails` and `SealFails` are failures before the block is
inserted; the others belong to `BlockImport`.

### LightClient

`verifyTxFinalized` keeps no state, so a call is an operator over a record of answers `q`:
the block of the primary node, the certificate, the validator set, the block each other node
serves. `VerifyTxFinalized` has the early returns of the code in their order;
`VerifyFinalityCertificate` and `VerifyBlock` are the checks. `Queries` are the answers the
network can give in a state of `FinalityV2`: honest nodes answer from their stores, faulty
ones with anything, and `Certificates` takes them in the order of the code (next header of
the primary, then `/api/finality/:height` node by node).

A block stands for its recomputed hash, so encodings are not modelled. The validator set is
the pinned one of the block's height: without a pinned set the client uses the one a node
reports now, and the comment at `finality-verify.ts:623` says what that is worth. The
answers of a call are of one moment. That the transaction is in the block, and the optional
depth, are inputs. An honest node that stored the sibling of a final block makes the client
report `invalid`, as its documentation says ("any conflicting block").

### BlockImport

A state is the sequence of blocks whose effects it holds, so a block applied twice or rolled
back too far is visible. `ledger` (maps, in the state root), `stores` (durable side stores
no root covers) and `vals` (validator store) are separate because the code writes them at
different moments. A call runs through
`rules → capture → apply → root → vals → append → record → vote → save`, or through
`restore` to `refused`; the names are those of the actions. `Down`, `LoadSnapshot`,
`StartRecovery`, `Reimport`, `FinishRecovery`, `InitIndex`, `RecoverPending`, `FinishInit`
are death and `init`. An action is a stretch under one lock, or one store operation. Faults
are enabled by name (`FaultKinds`).

### BridgePayout

Daemon: `mem`/`disk` are the payout records in memory and in `bridge_withdrawals.json`,
`keys`/`keyfile` the refund nullifiers, `srv` the refund handlers, one action per await.
Base: `processed`, `lock`, `paid`, `deep`, `txs`. Relayer: `wk` are the loops of its polls (one
action per RPC or HTTP call), `done` and `queued` its two files. Routes are `evm` (RougeBridge,
paid at once), `large` (RougeBridge, queued behind the timelock) and `xrge` (BridgeVaultV2).
A poll runs the loop over the EVM feed, with the timelock queue after it, beside the one over
the XRGE feed (`Promise.all`): each is a member of `Poll`, and `Feed` says which routes it
works on. Members with disjoint feeds are the loops of one poll, members with the same feed are
overlapping polls.

`persist` copies the list under the lock and writes the file in place without it. The write
replaces the file, or fails (`io`), or meets another one (`overlap`: the older list is written
last, or the file does not parse), or the daemon dies in it (`CrashInPersist`, wherever the
store is written: by a new withdrawal, the rebuild of a start, a failure report, a
fulfilment, or either status change of the refund handler). A file that does not parse is an
empty list (`Unreadable`), which the rebuild fills from the stored blocks.

Left out: amounts, tokens, recipients, nonces of the signer, the reorganisation of a
transaction that queues a timelock, a second party that asks for a refund (operator
endpoint, second relayer), overlapping writes of the nullifier file (see `BridgeDeposit`),
observation mode. The health gate and the list fetch of a poll
are one step. Refunds are those of `AUTO_REFUND=true`; production runs with it off
(`docs/bridge/README.md:58`).

### BtcPlan and BtcPayout

`BtcPlan` has the arithmetic in satoshis: virtual size, fee, the largest-first selection and
its stopping rule, the four outcomes of `planPayout`, and the two judges of a payment,
`payoutSettles` in the relayer and `evaluate_payout` in the daemon. A transaction is what its
id commits to: the custody coins it spends, address and amount, change.

In `BtcPayout`, Bitcoin is `mempool`, `limbo` (broadcast, no longer shown, may still be
mined) and `conf` (depth). The relayer is one loop; `at` is the await it is in, one action
per read, broadcast or request: `Poll`, `Begin`, `Confirmations`, `AskFulfil`, `Known`,
`Scan`, `ReadCoins`, `Plan`, `Send`, `SettleBroadcast`. `mem` and `file` are its state and
the state file; `Put` is `saveState`, whose failure leaves them apart. What was read is used
a step later. `Init` includes the upgrade of an older relayer that stopped in a broadcast.

Left out: pages of the custody history (the scan sees all of it), sweeps and top-ups, dry
run, the cap on a withdrawal (`MaxSats` is 0 in the run) and replacement by fee.

### BridgeDeposit

`claimed`, `disk`, `tmp` are the claim store in memory, its file and the temporary file all
writers share. A file has keys and a length: a shorter write into a longer file leaves
something that does not parse (`Garbled`; keys count as equally long). A claim is a request
that goes through `check → reserve → snapshot → create → write → rename → mint`, and back
through `undo` and a second write when the mint cannot be submitted. `mempool`, `chain` and
`nonce` are the node's mints; a block leaves the nonce of the last mint applied. The watcher has `watch` and `saved` (cursor, done, pending), and
polls that may overlap: `StartPoll`, `NextClaim`, `Timeout`, `Scan`, `Finish`. `Shutdown`,
`Exit`, `RelayerCrash`, `DaemonCrash`, `Drop` (client disconnects), `Evict` are the ends.

Left out: Bitcoin deposits, `DEPOSIT_WATCH_FROM_BLOCK`, reorganisations of Base deeper than
the confirmations, other transactions of the node's key between two mints. The checks of a
receipt are one read that succeeds or refuses.

## 3. Runs

| Run | Instance | Checks |
|---|---|---|
| `Journal` | 3 processes, 3 slots, 2 hashes; overlap and kills, or power losses | `NoDoubleSign`, `IInv` (with `TypeOK` and `DurableBeforeSigned`), `ImplementsVoteLock` |
| `JournalPowerAfterAbort` | kills and power loss together | **violates** `NoDoubleSign` |
| `FinalityFaulty` | 2 honest + 1 faulty proposer (a third), two heights, 2 restarts | `TypeOK`, `Agreement`, `FinalBelowTip`, `FinalizedIsProved`, `RecoveryNeverSticks`, `ClientSound`, `FinalForever`, `ImplementsFinalizedChain` |
| `FinalityTurns` | 2 honest proposers in turn, two heights, 2 restarts, 1 failed production | `NoSecondProposal`, `SealingExtendsTip`, `ClientNotAlarmed`, `EventuallyFinal`, `ClientConfirms` |
| `Import` | one caller; siblings, a bad root, a failing block, a replay over three heights; three sets of fault kinds, 4 faults | `TypeOK`, `StateIsTheChains`, `HeaderRootsHold`, `SetsMatchTheChain`, `NoReplayedTx`, `ChainIsLinked`, `StoredBlocksStay`, `CompletesCalls` |
| `ImportRace` | two callers, no fault | **violates** `StateIsTheChains` |
| `BridgePayout` | 2 withdrawals through both contracts, the two loops of a poll, 2 handlers, 13 fault kinds, 2 faults | `TypeOK`, `SettledOnce`, `FulfilledIsPaid`, `ListIsComplete` |
| `BridgeSettles` | 1 withdrawal on any route, two overlapping polls, 14 fault kinds, 3 faults | `Settles` |
| `BridgeLate` | 1 withdrawal, releases mined after their timeout | **violates** `SettledOnce` |
| `BtcPayout` | 2 equal withdrawals to one address, 2 coins and a third that may arrive, three fee rates, four sets of fault kinds, 2 faults | `TypeOK`, `PaidOnce`, `Backed`, `CoinsApart`, `OnRecord`, `Settles` |
| `BridgeDeposit` | 2 deposits in consecutive blocks, 2 polls, 2 requests, six sets of fault kinds, 2 faults | `TypeOK`, `MintedOnce`, `NullifierDurable`, `NoDepositSkipped`, `Credited` |
| `DepositTwins` | 2 deposits of the same credit, no fault | **violates** `TxUnique` |

`Import`, `BtcPayout`, `BridgeDeposit` and `Journal` choose one of several sets of fault
kinds in `Init`. Where the code recovers from some faults and not from others, a property
names the kinds it excludes, so one run covers both.

Deadlock is not checked where the system may stop for good: the block tree, the number of
restarts and faults, and the set of withdrawals are finite, so every behaviour of these
instances may run out of work. The journal runs check it.

**Bounds.** Two siblings at a height and a faulty third are the case the quorum is made for;
other stakes are left to the proof. Two restarts allow a crash within the recovery from
the first crash, the case `RecoveryNeverSticks` is about; `FinalizedIsProved` has a case that
needs three, which the proof covers. Three heights of blocks let a call fail with something below and above it. Three or four faults
allow a fault, a fault in its repair, and one more. The refund threshold is 5 in the code and
2 in `BridgeSettles`, one failure that is not the last and one that is; in `BridgePayout` it
is 1, so that two faults reach a refund and one more fault in it, while the other loop runs.
Bitcoin amounts are real:
2000 satoshis owed, coins of 2300 (remainder below dust), 3000 and 9000, and fee rates that
are fine, push the payment below dust, and exceed the cap. Two requests and two polls are
what overlapping needs. Numbers of restarts, failed
productions and faults are the only bounds on behaviours (`MaxRestarts`, `MaxFailures`,
`MaxFaults`); the proofs hold for every value of them.

**Symmetry** is used for processes, slots and hashes of the journal, which has no liveness
property.

**Fairness.** `FinalityV2!Fairness`: weak fairness for the steps that the miner loop, the
peer sync, the vote gossip and `init` repeat, each under the condition in which the code
repeats it: a vote is resent only while its signer lacks the proof, blocks and proofs come
from a running peer that has them. `BlockImport!FairSpec`: a call that has started runs on,
`init` runs to its end; nobody promises that a block is offered. `BridgePayout!FairSpec`:
polls (`setInterval`) and handlers go on; Base mines or reverts what is in its mempool and
grows; owner or guardian decide each timelock. `BtcPayout!FairSpec`: the relayer loops, miners take
what they see, blocks are buried; what is in `limbo` need not be mined. `BridgeDeposit!FairSpec`:
Base grows, the node produces blocks, handlers run on, polls start again; a poll that can send
a claim again and again sends it (strong fairness, because the number of requests at once is
a bound of the model and not of the code). Faults are never fair.

### What the violations show

1. `JournalPowerAfterAbort` (`journal.rs:111`). A call that dies between `hard_link` and the
   directory fsync leaves a slot that is visible and not durable. The retry finds it
   (`AlreadyLocked`) and signs without an fsync. After a power loss the slot is free and can
   be signed for another hash. `journal.rs:11` says the slot "survives power loss before any
   signature exists".
2. `ImportRace` (`node.rs:1740`). `import_block` holds no lock from
   `capture_pre_apply_snapshot` to `restore_pre_apply_snapshot`. A call that captures while
   another block is speculatively applied, and rolls back after the other call has, puts
   the effects of a rejected block back. `node.rs:1735` says a rejected block leaves the node
   "exactly as it was".
3. `BridgeLate` (`bridge-relayer-core.ts:1079`). A release whose receipt does not arrive in
   time counts as failed while it is still in the mempool; at the threshold the refund is
   minted, and the release may still be mined. `main.rs:8286`: "A refunded withdrawal must
   never also be paid out on Base or Bitcoin."
4. `DepositTwins` (`node.rs:3142`). Two deposits of one amount and token to one recipient,
   claimed before a block is produced, give two mints with the same nonce, which differ only
   in their randomized signature. `mine_pending` seals both into one block, and
   `check_block_tx_uniqueness` rejects that block on every node that imports it.
   `node.rs:182`: "a block is INVALID if any of its transactions ... appears twice in the
   block".

### Limits of the passing runs

The passing runs, or the conditions in their properties, leave the following out on purpose.
Each can be seen by changing the named run or removing the condition.

- `StateIsTheChains`, `NoReplayedTx`, `HeaderRootsHold` are for `Recoverable` faults. With
  `crash_apply`, a process that dies between apply and append leaves side stores ahead of the
  chain, and a snapshot height that equals the tip hides it (`node.rs:1163`). With
  `crash_save` the snapshot, several inserts, mixes two heights (`node.rs:1263`). With
  `io_flush`, `append_block` fails after its insert (`chain_store.rs:82`). With `io_index`,
  lost index writes are made up for on the next import, but the producer reads the index as it
  is (`node.rs:4286`).
- `SetsMatchTheChain` excludes faults within a recovery: a recorded validator set outlives a
  recovery that ends on the sibling (`node.rs:3327`). With two callers the set for a height is
  read from the live store while another thread may be applying the next block
  (`node.rs:3330`).
- `FinalizedIsProved` allows one case. A proof of `a2` is on disk, an interrupted recovery
  shortens the chain below it, the sibling `a1` is imported, and a third start takes the
  smaller of the last key of `finality_db` and the tip (`node.rs:1229`): the node reports the
  height of `a1`, which is not proved. The number is shown by API and metrics and enters no
  decision.
- `BridgePayout` with `io_init` added violates `ListIsComplete`: a failing rebuild does not
  set the degraded flag of the new process (`node.rs:6407`).
- `BridgePayout` with overlapping polls (`Feed <- AnyFeed`) violates `SettledOnce` once the
  answer to a refund is lost, slow, or cut off by a crash of the daemon: the other poll has the
  withdrawal in its list still. Without those faults overlapping polls are safe on the instance.
- `BridgeSettles` with `Faults = {"timeout", "late", "drop", "rpc", "reorg"}` and five faults
  violates `Settles`: a vault release that is mined late and not deep marks the record
  fulfilled (`main.rs:9535`), and nobody pays again if Base drops it. With `reorg` in the
  place of `late`, `Settles` holds on the instance with four faults.
- `BtcPayout` keeps eviction apart from rejections, from a lost state file and from failing
  writes. A payout whose answer was lost, that is evicted and then rejected when re-sent is
  dropped, a second is signed, and both can be mined (`btc-relayer-core.ts:481`). The same
  happens when an evicted payout is forgotten with the file. Eviction breaks `CoinsApart`: an
  accepted payout reserves no coins (`btc-relayer-core.ts:461`). A failing write breaks
  `OnRecord`: the plan is in memory and is sent in the next cycle (`btc-relayer-core.ts:444`).
- `PaidOnce` and `Backed` are for behaviours in which payouts are `Accounted` for. Either the
  records last (`Kept`: no failing write, no lost file, no eviction together with rejection);
  or nothing is evicted, no dropped plan comes back, and withdrawals to one address are of one
  amount (`Alike`). A plan that was rejected, whose
  removal could not be saved, is in the file when the relayer crashes, and is sent after
  another payout was signed (`Resurrects`, `btc-relayer-core.ts:481`). With a lost file and
  two amounts owed to one address, the smaller debt can adopt the payout of the larger one,
  which is then paid again (`btc-relayer-core.ts:150`).
- `MintedOnce` excludes overlapping writes of the claim store in a behaviour with a crash of
  the daemon: an older set can be renamed last, and the key of a mint is then not in the file
  the daemon starts from (`bridge_claim_store.rs:82`). `NullifierDurable` excludes overlapping
  writes.
- `NoDepositSkipped` excludes a graceful shutdown, which moves the cursor past deposits the
  loop was told to leave (`bridge-relayer.ts:1030`), and a torn watcher file
  (`bridge-relayer.ts:217`).
- `Credited` is for faults the code recovers from. After a failing write of the store, a
  failing mint seen by another claim as "already claimed", a handler dropped between
  reservation and mint, an evicted mint, a torn file or a shutdown, a deposit may wait for an
  operator.

Exposures without a property of their own: `contains` and `insert` of the refund nullifier are
two calls (`main.rs:9571`); an error of the restore itself is dropped (`node.rs:1747`); the
validator store does not flush (`validator_store.rs:70`); the scan for earlier payouts reads
one page of the custody history (`btc-bridge-relayer.ts:220`).

Observations that are not checks: a node that imported the sibling of the certified block
never follows the certified chain, as there is no reorganisation; a height has no fallback
proposer; faulty stake of exactly a third keeps agreement and can stop the chain;
`FINALITY_V2_VOTE_WINDOW` restricts no intake; `eligible_validators_ordered` compares
`jailed_until` with H and the finality set with H-1.

## 4. Proofs

All theorems hold for arbitrary constants within the named assumptions: finite validator
sets with at most a third of the stake of each set faulty, blocks whose height is one above
their parent's, disjoint `None` values. The assumptions are evaluated by TLC in the runs.

**Signing journal** (`SigningJournalProofs`). Any number of processes, slots and hashes, under
`Benign`: power is lost only where processes take turns and no call is cut short; otherwise
they overlap and are killed anywhere. `JournalPowerAfterAbort` shows why the condition is
needed.
- `JournalInvariant`, `JournalNeverDoubleSigns`, `JournalImplementsVoteLock`,
  `SignedSlotsSurvivePowerLoss`.
- `NoDoubleSign` alone is not inductive. `IInv` adds that a signature is for the hash in the
  slot file and that a process past the link (or past `check_existing`) works on that hash;
  and, where power may be lost, that only the slot being synced can be missing on disk
  (`Durable`).

**Finality** (`FinalityV2Proofs`, `FinalityV2Recovery`).
- `FinalityAgreement`, `OnlyTheTipIsNotFinal`, `ProposerNeverEquivocates`,
  `ProducerExtendsItsTip`, `FinalityIsForever`, `FinalityTypes`, and
  `FinalityImplementsChain` (refinement of `FinalizedChain`).
- The invariant is `CertInv`. Its parts: every signature of an honest node is in its journal,
  which has one block per slot (`VoteInv`); whatever a node votes for has a certified parent;
  every proof verifies (`ProofInv`); two certified blocks of a height are equal
  (`CertAgree`); proofs have no gap (`ProofsDense`); chains are proved below the tip
  (`ChainInv`); an honest proposer's journal has one block per parent, and the block in flight
  extends the tip (`ProposalInv`).
- The core is `QuorumsMeet`: two quorums of one set share a unit of stake of an honest
  validator. Stake is counted as a set of units, so this is an argument about cardinalities.
  The validator set depends on the parent, so two blocks at one height are first shown to
  have the same parent, by `CertAgree` one height below.
- `ClientsAgreeWithNodes`: what a light client accepts is a certified block, so `CertAgree`
  applies to it; no assumption on what nodes answer. `HonestNodesNeverAlarmClients`: whatever
  honest nodes hand out verifies, and they agree on the block.
- `RecoveryGoesOn`, `ReportedHeightIsProved`, `HonestProposersMakeOneChain` rest on a second
  invariant, `RecoveryInv`: every block a node has stored or has still to re-import is sound
  on its own (published, sealed, with a certificate of its parent: `TakenSound`); together
  they form an unbroken line whose next block extends the tip (`Linked`); and the reported
  height has its proof (`Reported`). It holds for any number of restarts, within recoveries
  too. The last theorem (`OneChain`, on the instances a consequence of `ClientNotAlarmed`)
  assumes that no faulty validator is the proposer after any block: two children of one block
  are then two proposals of one honest journal.

**Block import** (`BlockImportProofs`). One caller (`Thread = {Miner}`; `ImportRace` shows why),
any block tree, transactions, bad blocks, heights, and number and kinds of faults.
- `TypesHold`, `ChainStaysLinked`, `BlocksStay` under every fault. The invariant is `LinkInv`:
  the chain has no gap below its tip (`Dense`), the block of a call extends the tip until it
  is stored and is the tip afterwards (`CallOnTip`), and the blocks a recovery has still to
  import ascend above both (`Booting`). So the insert of `append_block`, which does not look,
  always finds its height free.
- `StateFollowsChain`, `RootsHold`, `NoReplays` under the faults of `Recoverable`, interrupted
  recoveries included. `StateIsTheChains` speaks of a node at rest; `ImportInv` says where each
  copy of the state stands at every point of a call, and what the rollback will put back
  (`CopiesInv`); that the snapshot is right for whatever block is, or will be again, at its
  height, also when a recovery was cut short below it (`SnapInv`); that header roots are
  post-states from the root check or the seal on (`RootInv`); and that the tx-seen index is
  complete when its marker is the tip and whenever it is read (`IndexInv`).
- `RecordedSetsMatch` when recoveries are not cut short. The blocks a recovery has read were
  accepted once and are accepted again, so it ends on the chain the sets were recorded for
  (`LineInv`), and no set is recorded beyond that chain (`SetsInv`).

**Withdrawals** (`BridgePayoutProofs`).
- `BridgeTypes`: any number of withdrawals, polls, handlers, all faults. The invariant is
  `Shape` (types), `Working` (polls and handlers agree with what they work on), `Contracts`
  (`paid` follows from `processedL1Txs` and the timelock; one successful release per id) and
  `Burnt` (nothing refers to a withdrawal that was not burned).
- `HealthyListIsComplete`: as long as the rebuild on a restart can write.
- `WithdrawalSettledOnce`, `FulfilledRecordsArePaid` under `Orderly`: no two loops
  share a feed (any number of loops side by side, but polls do not overlap), no
  release is mined after the relayer gave it up, no refund outlives its request. Everything
  else may happen: reverts, drops, reorganisations, crashes of both programs, torn files, lost
  requests and answers, failing and overlapping writes. The loops never meet: a withdrawal is
  worked on only by the loop whose feed has its route (`Fed`, `LoopsApart`). The invariant: what
  a loop gives up has no release
  that can still pay; what it is about to send has not been minted back; one refund request
  of a loop at a time, with its nullifier on disk before the mint; only deep payments are booked.
  `BridgeLate` shows that the condition on late releases is needed.

**Bitcoin payouts** (`BtcPayoutProofs`, `BtcCustodyProofs`). Any withdrawals, addresses, amounts, coins,
fee rates and faults, within the conditions of the properties.
- `PayoutsStayOnRecord` (`OnRecord`). The invariant `RecordInv` follows a payout from the
  moment it is signed: outside of a write, memory and file agree; what is being sent is in the
  file; and a rejected payout, which is dropped, was never seen by the network.
- `BtcTypes` (`TypeOK`).
- `PayoutsSpendDifferentCoins` (`CoinsApart`). `Apart` compares what the relayer has in memory,
  what the file may bring back and what Bitcoin has: the coins read for a plan stay free until
  it is signed, since what spends a coin stays visible; a signed payout reserves its coins
  until the network has it; and an entry of the file is one the relayer still has.
- `PlannedPayoutIsAccepted`: for every debt, fee rate and set of coins, what `planPayout` plans
  passes `evaluate_payout`; the two sides cannot disagree about who pays the fee.
- `NoAddressIsPaidTwice` (`PaidOnce`) and `CustodyFallsByTheBurn` (`Backed`) rest on
  `CustodyInv`. A payout is for a burned withdrawal, to its address (`OwnInv`); amounts are
  natural numbers, and where withdrawals are alike any of them can adopt a payout (`SoundInv`);
  at most one payout is off the record, the old relayer's, and its withdrawal waits for an
  operator (`LegacyInv`); an address has no more payouts, made or possible, than debts, and one
  debt without a payout when the relayer is about to sign (`CountInv`); a payout takes from
  custody no more than its debt and the dust (`FitInv`); what is mined spends only what is
  mined at least as deep, and no coin twice (`DepthInv`). For `Backed`, every mined payout is
  charged to a debt of its own, by the records or, without them, by counting; then the sums
  are compared one by one.
- Sums. `Coins` and the size of a transaction are folds. What they compute is proved by
  induction over finite sets (`Smallest`: a set of parts of a finite set has a least member,
  from the well-foundedness of strict inclusion), which needs no operator as a parameter: a
  fold exists and is unique (`AddsExists`, `AddsAgree`), its order does not matter
  (`TotalSplit`), and sums can be split, compared and flattened (`TotalPart`, `TotalCompare`,
  `TotalFlat`).
- Hypotheses beside the assumptions of the module: `NoneIsNoTx`, that `None` is no transaction
  record, which TLC has by construction (a model value) and cannot evaluate.
  `LegacyAssumption`: a payout of the old relayer took no more than any withdrawal to its
  address is owed.

**Deposits** (`BridgeDepositProofs`).
- `DepositsAreMintedOnce`, `NullifiersAreDurable`: any deposits, requests, polls and faults,
  within the conditions of the properties. Two layers: in memory, a request that has reserved
  a key holds it alone, no mint has it and nobody else can reserve it (`Held`); on disk, the
  keys of mints and of the request about to mint are in the file and in what a write under way
  will put there (`Durable`). A crash turns the second into the first, which is why it needs
  writes that do not overlap.
- `DepositTypes` (`TypeOK`), and `NoDepositIsSkipped` (`NoDepositSkipped`) for any number of
  polls and requests. `WatcherInv`: a poll that waits has one request, which is for its deposit
  (`Linked`); below the cursor, in memory and in the file, every deposit is on record; below the
  end of the range a poll has scanned, a deposit is on record or the poll has still to claim it
  (`NoneSkipped`). The last part is what makes overlapping polls safe.

**Only model-checked:** liveness (`EventuallyFinal`, `ClientConfirms`, `CompletesCalls`,
`Settles`, `Credited`), which is outside the prover, and what more than one caller of
`import_block` may do. Every safety invariant, action property and refinement of the passing
runs is proved.

## 5. Not modelled, and plan

1. `ValidatorReplay`: staking, jailing and unbonding by height, shown to give the set that
   `FinalityV2` takes as a constant; boundary heights as operators against a reference.
2. Shielded pool V2 (nullifiers, anchors, tree) and the wallet store that follows it.
3. Ledger arithmetic: AMM swap and liquidity, order book, share accounting of
   `xrge_staking`, checked against rational references over small reserves.
4. Bitcoin deposits and vault caps; composition of `BridgeDeposit` with `BridgePayout` over
   the shared claim store.
5. Mempool with nonces and admission, composed with `BlockImport`.

Not planned: cryptography and circuits, views and APIs, off-chain content, frozen and
superseded protocols. Most of the repository's TypeScript, by lines, is user interface (web
application, extension, site, wallet pages), API clients and the messenger's encryption:
rendering, requests and cryptography, whose state is local to a page. The TypeScript that
decides about money or finality is modelled: both relayers and the light client. The reasons
for each part are in `PROJECT.json`.
