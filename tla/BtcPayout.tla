----------------------------- MODULE BtcPayout -----------------------------
(***************************************************************************)
(* Withdrawals of qBTC: the daemon lists burned withdrawals, the BTC       *)
(* relayer (scripts/btc-bridge-relayer.ts, btc-relayer-core.ts) signs a    *)
(* payout from custody, broadcasts it, waits for depth and has the daemon  *)
(* mark the withdrawal fulfilled.  Everything the relayer knows is in one  *)
(* state file.  Bitcoin carries no withdrawal id: a payout is recognised   *)
(* by its destination and amounts only.                                    *)
(* The relayer is live (not dry-run) and alone ("Run as a SINGLETON").     *)
(***************************************************************************)
EXTENDS BtcPlan

CONSTANTS
  Withdrawal,
  Dest, Owed,     \* [Withdrawal -> ...]: destination address, satoshis burned
  MaxSats,        \* BTC_MAX_WITHDRAW_SATS, 0 for no cap
  Deposit,        \* transactions that may pay custody (sweeps, deposits)
  Funded,         \* those confirmed before the first payout
  LegacyTx,       \* payouts of no more than was owed, sent without a record by an older relayer
  Rate, HighRate, \* the usual fee rate (sat/vB), and the set of rates of a fee spike
  MinConf,        \* QV_BRIDGE_BTC_MIN_CONFIRMATIONS
  MaxRetries,
  FaultSets,      \* the sets of fault kinds a behaviour may meet
  MaxFaults,
  None

FaultKinds ==
  {"read",    \* Esplora or the daemon cannot be read
   "lost",    \* a broadcast, or its answer, is lost
   "reject",  \* the node's policy rejects a broadcast
   "fees",    \* the fee rate spikes
   "reorg",   \* Bitcoin drops a block that is not deep yet
   "evict",   \* a transaction leaves the mempool Esplora shows
   "crash",   \* the relayer dies
   "io",      \* writing the state file fails
   "file"}    \* the relayer dies and its state file is lost

ASSUME BtcAssumption ==
  /\ IsFiniteSet(Withdrawal) /\ \A w \in Withdrawal : Owed[w] \in Nat \ {0}
  /\ MinConf \in Nat \ {0} /\ MaxRetries \in Nat \ {0} /\ MaxSats \in Nat
  /\ Dust \in Nat /\ MaxFee \in Nat /\ DestScriptLen \in Nat /\ HighRate \cup {Rate} \subseteq Nat
  /\ IsFiniteSet(Deposit) /\ Funded \subseteq Deposit /\ \A t \in Deposit : t.ins = {}
  /\ \A t \in LegacyTx : t.ins # {}
  /\ \A t \in Deposit \cup LegacyTx : t.chg \in Nat /\ t # None
  /\ FaultSets \subseteq SUBSET FaultKinds /\ MaxFaults \in Nat

\* An old payout fits every withdrawal to its address, so whichever adopts it.
ASSUME LegacyAssumption ==
  \A t \in LegacyTx, w \in Withdrawal : t.to = Dest[w] => Coins(t.ins) - t.chg <= Owed[w] + Dust

VARIABLES
  born, status, payout,   \* daemon: place in its list, status and payout_tx_hash
  mempool, limbo, conf,   \* Bitcoin: visible, invisible transactions, depth of the mined
  mem, file,              \* STATE and the state file
  at, todo, cur, answer,  \* relayer: where it waits, what is left of the list, the
                          \* withdrawal it works on, what it last read
  faults                  \* the fault kinds of this behaviour, and how many are left

daemon  == <<born, status, payout>>
bitcoin == <<mempool, limbo, conf>>
relayer == <<mem, file, at, todo, cur, answer>>
vars    == <<daemon, bitcoin, relayer, faults>>

NoEntry == [attempts |-> 0, txid |-> None, planned |-> None, review |-> FALSE, legacy |-> FALSE]

Fault(kind) ==
  /\ kind \in faults.kinds /\ faults.left > 0
  /\ faults' = [faults EXCEPT !.left = @ - 1]

-----------------------------------------------------------------------------
(* Bitcoin, as Esplora shows it.  Transactions in limbo were broadcast and are no longer
   shown; a miner may still have them. *)
Mined      == DOMAIN conf
Seen       == mempool \cup Mined
Conflict(t, ts) == {u \in ts : u # t /\ u.ins \cap t.ins # {}}
Spent      == UNION {t.ins : t \in Seen}
Utxos      == {t \in Mined : t.chg > 0} \ Spent   \* getUtxos, confirmed ones

\* Depth of a transaction: 0 in the mempool, None when Esplora has nothing to say.
TxConfirmations(t) == IF t \in Mined THEN conf[t] ELSE IF t \in mempool THEN 0 ELSE None

TxKnown(t) == t \in Seen

\* What the node answers to these bytes, by classifyBroadcastResponse.
Reply(t) == IF TxKnown(t) \/ (t.ins \subseteq Seen /\ Conflict(t, Seen) = {}) THEN "accepted" ELSE "spent"

\* A transaction whose coins come, directly or not, from one of ts cannot stay without it.
With(ts, pool) ==
  LET closed(S) == ts \subseteq S /\ \A u \in pool : u.ins \cap S # {} => u \in S
  IN  {t \in ts \cup pool : \A S \in SUBSET (ts \cup pool) : closed(S) => t \in S}

Mine(t) ==
  /\ t \in mempool \cup limbo
  /\ t.ins \subseteq Mined /\ Conflict(t, Mined) = {}
  /\ conf' = [u \in Mined \cup {t} |-> IF u = t THEN 1 ELSE conf[u]]
  /\ mempool' = (mempool \ {t}) \ With(Conflict(t, mempool), mempool)
  /\ limbo' = (limbo \ {t}) \ With(Conflict(t, limbo), limbo)
  /\ UNCHANGED <<daemon, relayer, faults>>

Bury ==
  /\ \E t \in Mined : conf[t] < MinConf
  /\ conf' = [t \in Mined |-> IF conf[t] < MinConf THEN conf[t] + 1 ELSE MinConf]
  /\ UNCHANGED <<daemon, relayer, faults, mempool, limbo>>

Reorg ==
  /\ Fault("reorg")
  /\ LET tip == {t \in Mined : conf[t] < MinConf}
     IN  /\ tip # {}
         /\ conf' = [t \in Mined \ tip |-> conf[t]]
         /\ mempool' = mempool \cup tip
  /\ UNCHANGED <<daemon, relayer, limbo>>

Evict(t) ==
  /\ Fault("evict")
  /\ t \in mempool
  /\ LET gone == With({t}, mempool) \cap mempool
     IN  mempool' = mempool \ gone /\ limbo' = limbo \cup gone
  /\ UNCHANGED <<daemon, relayer, conf>>

Fund(t) ==
  /\ t \in Deposit \ (Seen \cup limbo)
  /\ mempool' = mempool \cup {t}
  /\ UNCHANGED <<daemon, relayer, faults, limbo, conf>>

-----------------------------------------------------------------------------
(* The daemon. *)
Burned == {w \in Withdrawal : status[w] # "none"}

Burn(w) ==
  /\ status[w] = "none"
  /\ status' = [status EXCEPT ![w] = "pending"]
  /\ born' = [born EXCEPT ![w] = Cardinality(Burned) + 1]
  /\ UNCHANGED <<payout, bitcoin, relayer, faults>>

Listed == {w \in Withdrawal : status[w] = "pending"}

\* verify_btc_payout, mark_fulfilled_unique_payout
Fulfil(w, t) ==
  IF /\ t \in Mined /\ conf[t] >= MinConf
     /\ EvaluatePayout(t, Dest[w], Owed[w])
     /\ \A v \in Withdrawal \ {w} : payout[v] # t
     /\ status[w] = "pending"
  THEN /\ status' = [status EXCEPT ![w] = "fulfilled"]
       /\ payout' = [payout EXCEPT ![w] = t]
  ELSE UNCHANGED <<status, payout>>

-----------------------------------------------------------------------------
(* The relayer: one withdrawal after the other, one await after the other. *)
Leave == at' = "next" /\ todo' = todo \ {cur} /\ cur' = None /\ answer' = None

\* Write the entry of the current withdrawal and save(): when that throws, the loop goes on.
Put(e, next) ==
  /\ mem' = [mem EXCEPT ![cur] = e]
  /\ \/ file' = mem' /\ next /\ UNCHANGED faults
     \/ Fault("io") /\ UNCHANGED file /\ Leave

Poll ==
  /\ at = "next" /\ todo = {} /\ Listed # {}
  /\ todo' = Listed
  /\ UNCHANGED <<daemon, bitcoin, mem, file, at, cur, answer, faults>>

Payable(w) == Owed[w] > Dust /\ (MaxSats > 0 => Owed[w] <= MaxSats)

\* The next one of the list, unless it is not payable or waits for an operator.
Begin(w) ==
  /\ at = "next" /\ w \in todo /\ \A v \in todo : born[w] <= born[v]
  /\ LET e == mem[w]
     IN  IF ~Payable(w) \/ e.review THEN todo' = todo \ {w} /\ UNCHANGED <<at, cur>>
         ELSE /\ cur' = w /\ UNCHANGED todo
              /\ at' = IF e.txid # None THEN "confirmations"
                       ELSE IF e.planned # None THEN "known" ELSE "scan"
  /\ UNCHANGED <<daemon, bitcoin, mem, file, answer, faults>>

ReadFails ==
  /\ at \in {"confirmations", "known", "scan", "build"} /\ Fault("read")
  /\ Leave
  /\ UNCHANGED <<daemon, bitcoin, mem, file>>

\* A payout the network has: wait for depth.  A transaction nobody shows cannot be read.
Confirmations ==
  /\ at = "confirmations"
  /\ LET confs == TxConfirmations(mem[cur].txid)
     IN  IF confs = None \/ confs \in 0..(MinConf - 1) THEN Leave
         ELSE at' = "fulfil" /\ UNCHANGED <<todo, cur, answer>>
  /\ UNCHANGED <<daemon, bitcoin, mem, file, faults>>

AskFulfil ==
  /\ at = "fulfil"
  /\ \/ Fulfil(cur, mem[cur].txid) /\ UNCHANGED faults
     \/ Fault("lost") /\ UNCHANGED <<status, payout>>
  /\ Leave
  /\ UNCHANGED <<born, bitcoin, mem, file>>

(* mutant: the plan is kept beside the transaction *)
AcceptedKeepsPlan(e) == [e EXCEPT !.txid = e.planned]

Accepted(e) == [e EXCEPT !.txid = e.planned, !.planned = None]

(* mutant: a plan the network does not know is waited for, never re-sent *)
KnownWaits ==
  /\ at = "known"
  /\ IF TxKnown(mem[cur].planned)
     THEN Put(Accepted(mem[cur]), Leave)
     ELSE Leave /\ UNCHANGED <<mem, file, faults>>
  /\ UNCHANGED <<daemon, bitcoin>>

\* A signed payout: only ever the same bytes.
Known ==
  /\ at = "known"
  /\ IF TxKnown(mem[cur].planned)
     THEN Put(Accepted(mem[cur]), Leave)
     ELSE at' = "send" /\ UNCHANGED <<mem, file, todo, cur, answer, faults>>
  /\ UNCHANGED <<daemon, bitcoin>>

KnownPayoutTxids == {mem[w].txid : w \in Withdrawal} \cup {mem[w].planned : w \in Withdrawal}

(* mutant: only confirmed payouts are looked at *)
FindConfirmedPayout(w) ==
  {t \in Mined \ KnownPayoutTxids : PayoutSettles(t, Dest[w], Owed[w])}

FindExistingPayout(w) ==
  {t \in Seen \ KnownPayoutTxids : PayoutSettles(t, Dest[w], Owed[w])}

(* Nothing signed yet (health gate passed): adopt a payout already out there, else go on
   to build one.  After the old relayer's crash marker nothing is built. *)
Scan ==
  /\ at = "scan"
  /\ LET e == mem[cur]
         found == FindExistingPayout(cur)
     IN  \/ /\ found # {}
            /\ \E t \in found : Put([e EXCEPT !.txid = t, !.legacy = FALSE], Leave)
         \/ /\ found = {} /\ e.legacy
            /\ Put([e EXCEPT !.review = TRUE], Leave)
         \/ /\ found = {} /\ ~e.legacy
            /\ IF e.attempts >= MaxRetries THEN Leave ELSE at' = "build" /\ UNCHANGED <<todo, cur, answer>>
            /\ UNCHANGED <<mem, file, faults>>
  /\ UNCHANGED <<daemon, bitcoin>>

(* mutant: coins of signed payouts are free until the network has them *)
ReservedNone == {}

ReservedInputs == UNION {mem[v].planned.ins : v \in {v \in Withdrawal \ {cur} : mem[v].planned # None}}

\* buildPayout reads the coins, then the fee rate; what it read is used a step later.
ReadCoins(rate) ==
  /\ at = "build"
  /\ IF rate = Rate THEN UNCHANGED faults ELSE Fault("fees")
  /\ answer' = [coins |-> Utxos \ ReservedInputs, rate |-> rate]
  /\ at' = "plan"
  /\ UNCHANGED <<daemon, bitcoin, mem, file, todo, cur>>

(* mutant: the plan is saved with the outcome of the broadcast only *)
PlanUnsaved ==
  /\ at = "plan"
  /\ \E plan \in PlanPayout(answer.coins, Owed[cur], answer.rate) :
       LET e == mem[cur]
       IN  \/ /\ plan.kind \in {"insufficient", "fee_too_high"}
              /\ Leave /\ UNCHANGED <<mem, file, faults>>
           \/ /\ plan.kind = "below_minimum_after_fee"
              /\ Put([e EXCEPT !.review = TRUE], Leave)
           \/ /\ plan.kind = "ok"
              /\ LET tx == [ins |-> plan.ins, to |-> Dest[cur], pay |-> plan.pay, chg |-> plan.chg]
                 IN  mem' = [mem EXCEPT ![cur] = [e EXCEPT !.planned = tx, !.attempts = @ + 1]]
              /\ at' = "send" /\ answer' = None /\ UNCHANGED <<file, todo, cur, faults>>
  /\ UNCHANGED <<daemon, bitcoin>>

\* Sign and save before anything leaves the machine, or leave the withdrawal.
Plan ==
  /\ at = "plan"
  /\ \E plan \in PlanPayout(answer.coins, Owed[cur], answer.rate) :
       LET e == mem[cur]
       IN  \/ /\ plan.kind \in {"insufficient", "fee_too_high"}
              /\ Leave /\ UNCHANGED <<mem, file, faults>>
           \/ /\ plan.kind = "below_minimum_after_fee"
              /\ Put([e EXCEPT !.review = TRUE], Leave)
           \/ /\ plan.kind = "ok"
              /\ LET tx == [ins |-> plan.ins, to |-> Dest[cur], pay |-> plan.pay, chg |-> plan.chg]
                 IN  Put([e EXCEPT !.planned = tx, !.attempts = @ + 1],
                         at' = "send" /\ answer' = None /\ UNCHANGED <<todo, cur>>)
  /\ UNCHANGED <<daemon, bitcoin>>

\* POST /tx: an accepted transaction is in the mempool, whether or not the answer arrives.
Send ==
  /\ at = "send" /\ at' = "settle"
  /\ LET t == mem[cur].planned
     IN  \/ /\ \/ answer' = Reply(t) /\ UNCHANGED faults
               \/ answer' = "unknown" /\ Fault("lost")
            /\ IF Reply(t) = "accepted" /\ ~TxKnown(t)
               THEN mempool' = mempool \cup {t} /\ limbo' = limbo \ {t} /\ UNCHANGED conf
               ELSE UNCHANGED bitcoin
         \/ answer' = "unknown" /\ Fault("lost") /\ UNCHANGED bitcoin
         \/ answer' = "rejected" /\ Fault("reject") /\ ~TxKnown(t) /\ UNCHANGED bitcoin
  /\ UNCHANGED <<daemon, mem, file, todo, cur>>

SettleBroadcast ==
  /\ at = "settle"
  /\ LET e == mem[cur]
     IN  Put(CASE answer = "accepted" -> Accepted(e)
               [] answer = "unknown"  -> e
               [] answer = "spent"    -> [e EXCEPT !.review = TRUE]
               [] answer = "rejected" -> [e EXCEPT !.planned = None], Leave)
  /\ UNCHANGED <<daemon, bitcoin>>

Crash ==
  /\ \/ Fault("crash") /\ mem' = file
     \/ Fault("file") /\ mem' = [w \in Withdrawal |-> NoEntry]
  /\ file' = mem'
  /\ at' = "next" /\ todo' = {} /\ cur' = None /\ answer' = None
  /\ UNCHANGED <<daemon, bitcoin>>

-----------------------------------------------------------------------------
\* A first start, or the upgrade of a relayer that stopped in a broadcast.
Init ==
  /\ \E old \in SUBSET Withdrawal :
       /\ Cardinality(old) <= 1
       /\ mem = [w \in Withdrawal |-> [NoEntry EXCEPT !.legacy = w \in old]]
       /\ status = [w \in Withdrawal |-> IF w \in old THEN "pending" ELSE "none"]
       /\ born = [w \in Withdrawal |-> IF w \in old THEN 1 ELSE 0]
       /\ \/ mempool = {}
          \/ \E w \in old, t \in LegacyTx : t.to = Dest[w] /\ mempool = {t}
  /\ payout = [w \in Withdrawal |-> None]
  /\ limbo = {} /\ conf = [t \in Funded |-> MinConf]
  /\ file = mem /\ at = "next" /\ todo = {} /\ cur = None /\ answer = None
  /\ faults \in [kinds : FaultSets, left : {MaxFaults}]

Relay ==
  \/ Poll \/ (\E w \in todo : Begin(w)) \/ Confirmations \/ AskFulfil \/ Known \/ Scan \/ ReadCoins(Rate)
  \/ Plan \/ Send \/ SettleBroadcast

Next ==
  \/ \E w \in Withdrawal : Burn(w)
  \/ \E t \in Deposit : Fund(t)
  \/ \E t \in mempool \cup limbo : Mine(t)
  \/ \E t \in mempool : Evict(t)
  \/ Bury \/ Reorg
  \/ Relay \/ ReadFails \/ \E r \in HighRate : ReadCoins(r)
  \/ Crash

Spec == Init /\ [][Next]_vars

(* The relayer loops forever, miners mine what they see. *)
FairSpec ==
  /\ Spec /\ WF_vars(Relay) /\ WF_vars(Bury)
  /\ WF_vars(\E t \in mempool : Mine(t))

-----------------------------------------------------------------------------
(* Types, and where the relayer's record of a withdrawal may be. *)
TypeOK ==
  /\ status \in [Withdrawal -> {"none", "pending", "fulfilled"}]
  /\ at \in {"next", "confirmations", "fulfil", "known", "scan", "build", "plan", "send", "settle"}
  /\ todo \subseteq Burned
  /\ IF at = "next" THEN cur = None ELSE cur \in todo
  /\ mempool \cap Mined = {} /\ limbo \cap Seen = {}
  /\ \A w \in Withdrawal : mem[w].txid = None \/ mem[w].planned = None
  /\ at \in {"send", "settle"} => mem[cur].planned # None

Has(kind) == kind \in faults.kinds

\* The faults under which the state file stays complete.
Kept == ~Has("io") /\ ~Has("file") /\ ~(Has("evict") /\ Has("reject"))

\* A plan that was rejected, whose removal was not saved, comes back with a crash.
Resurrects == Has("reject") /\ Has("io") /\ Has("crash")

\* Withdrawals to one address cannot be told apart, and neither can an old payout to it.
Alike ==
  /\ \A v, w \in Withdrawal : Dest[v] = Dest[w] => Owed[v] = Owed[w]
  /\ \A t \in LegacyTx, w \in Withdrawal : t.to = Dest[w] => PayoutSettles(t, Dest[w], Owed[w])

\* No payout is lost sight of, or any withdrawal to its address can adopt it.
Accounted == Kept \/ (Alike /\ ~Has("evict") /\ ~Resurrects)

(* No address is ever paid by more custody transactions than withdrawals were burned for it,
   whatever is lost, retried, adopted or rebuilt in between: "a lost response or crash cannot
   produce a second, different payment" (btc-bridge-relayer.ts).  Once records are gone, only
   payouts that any withdrawal to the address can adopt are safe. *)
PaidOnce ==
  Accounted =>
    \A d \in Range(Dest) :
      Cardinality({t \in Mined : t.ins # {} /\ t.to = d})
        <= Cardinality({w \in Burned : Dest[w] = d})

(* Custody falls by what was burned and never by more: the withdrawer pays the fee out of the
   debt (planPayout).  Only a remainder below dust, which goes to the destination, is not
   covered by the burn.  Where payouts are lost sight of, a debt may be paid twice. *)
Backed ==
  LET held == Coins(Mined \ UNION {t.ins : t \in Mined})
  IN  Accounted =>
        Coins(Mined \cap Deposit) - held
          <= MapThenSumSet(LAMBDA w : Owed[w] + Dust, Burned)

\* The payout the relayer has signed, sent or adopted for w.
PayoutOf(w) == {mem[w].planned, mem[w].txid} \ {None}

(* The relayer never counts one transaction for two withdrawals and never has two payouts
   that spend one coin, so one cannot cancel the other (reservedInputs, knownPayoutTxids, and
   Esplora hiding what the mempool spends).  Not so once a payout leaves the mempool, or a
   plan that was dropped comes back. *)
CoinsApart ==
  ~Has("evict") /\ ~Resurrects =>
    \A v, w \in Withdrawal : v # w =>
      \A t \in PayoutOf(v), u \in PayoutOf(w) : t # u /\ t.ins \cap u.ins = {}

(* Every payout the network ever saw is in the state file: "Save the signed bytes BEFORE they
   leave this machine".  Unless writing the file fails: the plan then stays in memory only and
   the next cycle broadcasts it; or an evicted payout is rejected and dropped. *)
OnRecord ==
  Kept =>
    \A t \in Seen \cup limbo :
      t.ins # {} /\ t \notin LegacyTx => \E w \in Withdrawal : t \in {file[w].planned, file[w].txid}

\* What only an operator can resolve.
Stuck(w) ==
  LET e == mem[w]
  IN  \/ ~Payable(w) \/ e.review
      \/ e.txid = None /\ e.planned = None /\ e.attempts >= MaxRetries
      \/ e.txid # None /\ e.txid \notin Seen                          \* evicted for good
      \/ e.txid # None /\ \E v \in Withdrawal \ {w} : payout[v] = e.txid  \* lost file, same address

(* Every burned withdrawal is fulfilled or ends in a state that only an operator can resolve:
   the relayer never cycles without progress between signing, sending and waiting. *)
Settles ==
  \A w \in Withdrawal : status[w] = "pending" ~> (status[w] = "fulfilled" \/ []Stuck(w))
=============================================================================
