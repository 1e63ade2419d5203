------------------------- MODULE BridgePayoutProofs -------------------------
(***************************************************************************)
(* What holds of BridgePayout for any number of withdrawals, polls, refund *)
(* handlers and faults, and any refund threshold.                          *)
(***************************************************************************)
EXTENDS BridgePayout, TLAPS

(* The shapes of a release, a poll and a refund handler *)
TxRec == [w : Withdrawal, st : {"pending", "ok", "reverted", "dropped"}]
PollRec == [pc : PollPC, w : Withdrawal \cup {None}, tx : Nat,
            loop : {"list", "queue"}, list : SUBSET Withdrawal]
HandlerRec == [pc : HandlerPC, w : Withdrawal \cup {None}, who : Poll \cup {None}]

(* Each variable has its shape *)
Shape ==
  /\ route \in [Withdrawal -> Routes \cup {None}]
  /\ mem \in [Withdrawal -> Record] /\ disk \in [Withdrawal -> Record]
  /\ degraded \in BOOLEAN
  /\ keys \subseteq Withdrawal /\ keyfile \subseteq Withdrawal
  /\ mints \in [Withdrawal -> Nat] /\ paid \in [Withdrawal -> Nat]
  /\ srv \in [Handler -> HandlerRec]
  /\ processed \subseteq Withdrawal /\ deep \subseteq Withdrawal
  /\ lock \in [Withdrawal -> {"none", "queued", "executed", "cancelled"}]
  /\ txs \in Seq(TxRec)
  /\ wk \in [Poll -> PollRec]
  /\ done \subseteq Withdrawal
  /\ queued \in [Withdrawal -> {None, "queued", "cancelled", "ambiguous"}]

Between == {"idle", "next"}

Refunding == {"vault", "key", "reserve", "mint", "status"}

(* A poll has a withdrawal unless it is between two, and waits for its own  *)
(* release; a handler has one unless it is idle, and its record exists      *)
Working ==
  /\ \A r \in Poll : wk[r].w = None <=> wk[r].pc \in Between
  /\ \A r \in Poll : wk[r].pc = "wait" =>
       wk[r].tx \in DOMAIN txs /\ txs[wk[r].tx].w = wk[r].w
  /\ \A h \in Handler : IF srv[h].pc = "idle" THEN srv[h] = IdleHandler ELSE srv[h].w # None
  /\ \A h \in Handler : srv[h].pc \in Refunding => mem[srv[h].w] # None

(* The books of RougeBridge and BridgeVaultV2: what was paid follows from   *)
(* processedL1Txs and the timelock, and an id has one successful release    *)
Contracts ==
  /\ \A w \in Withdrawal :
       /\ paid[w] = IF w \in processed /\ lock[w] \in {"none", "executed"} THEN 1 ELSE 0
       /\ lock[w] # "none" => w \in processed
       /\ w \in deep => paid[w] = 1
  /\ \A i \in DOMAIN txs : txs[i].st = "ok" => txs[i].w \in processed
  /\ \A i, j \in DOMAIN txs : txs[i].st = "ok" /\ txs[j].st = "ok" /\ txs[i].w = txs[j].w => i = j

(* A sequence with one element replaced is a sequence over the same set.    *)
LEMMA UpdatedSeq ==
  ASSUME NEW S, NEW s \in Seq(S), NEW i \in DOMAIN s, NEW v \in S
  PROVE  [s EXCEPT ![i] = v] \in Seq(S)
OBVIOUS

(* Mine, Revert, Drop and Reorg change the status of one release only.      *)
LEMMA TxUpdate ==
  ASSUME NEW s \in Seq(TxRec), NEW i \in DOMAIN s,
         NEW st \in {"pending", "ok", "reverted", "dropped"}
  PROVE  LET t == [s EXCEPT ![i].st = st] IN
         /\ t \in Seq(TxRec) /\ DOMAIN t = DOMAIN s
         /\ t[i].st = st /\ \A j \in DOMAIN s : t[j].w = s[j].w /\ (j # i => t[j] = s[j])
<1>1. s[i] \in TxRec
  OBVIOUS
<1>2. [s[i] EXCEPT !.st = st] \in TxRec
  BY <1>1, Zenon DEF TxRec
<1>3. [s EXCEPT ![i].st = st] = [s EXCEPT ![i] = [s[i] EXCEPT !.st = st]]
  BY Zenon
<1>4. [s[i] EXCEPT !.st = st].st = st /\ [s[i] EXCEPT !.st = st].w = s[i].w
  BY <1>1, Zenon DEF TxRec
<1> QED
  BY Zenon, <1>2, <1>3, <1>4, UpdatedSeq

(* A release call adds one pending transaction at the end.                  *)
LEMMA TxAppend ==
  ASSUME NEW s \in Seq(TxRec), NEW w \in Withdrawal
  PROVE  LET t == Append(s, [w |-> w, st |-> "pending"]) IN
         /\ t \in Seq(TxRec) /\ DOMAIN t = DOMAIN s \cup {Len(s) + 1}
         /\ Len(s) + 1 \notin DOMAIN s
         /\ t[Len(s) + 1] = [w |-> w, st |-> "pending"]
         /\ \A j \in DOMAIN s : t[j] = s[j]
<1>1. [w |-> w, st |-> "pending"] \in TxRec
  BY Zenon DEF TxRec
<1> QED
  BY <1>1

-----------------------------------------------------------------------------

(* mark_fulfilled, set_status and record_attempt turn a record into a       *)
(* record.                                                                  *)
LEMMA MemUpdate ==
  ASSUME Shape, NEW w \in Withdrawal, mem[w] # None
  PROVE  /\ [mem[w] EXCEPT !.st = "fulfilled"] \in Rec
         /\ [mem[w] EXCEPT !.st = "refunded"] \in Rec
         /\ [st |-> "failed",
             attempts |-> IF mem[w].attempts < Threshold THEN mem[w].attempts + 1
                          ELSE Threshold] \in Rec
<1>1. mem[w] \in Rec
  BY Zenon DEF Shape, Record
<1>2. mem[w].attempts \in 0..Threshold
  BY <1>1, Zenon DEF Rec
<1>3. (IF mem[w].attempts < Threshold THEN mem[w].attempts + 1 ELSE Threshold) \in 0..Threshold
  BY <1>2, BridgeAssumption
<1> QED
  BY <1>1, <1>3, Zenon DEF Rec, Terminal

LEMMA UnreadableFile ==
  Unreadable \in [Withdrawal -> Record] /\ \A w \in Withdrawal : Unreadable[w] = None
BY Zenon DEF Unreadable, Record

(* What Goto and Leave do to the poll that moves, and to the others.        *)
LEMMA WkShape ==
  ASSUME Shape, NEW r \in Poll
  PROVE  /\ \A pc \in PollPC : Goto(r, pc) =>
              /\ wk' \in [Poll -> PollRec]
              /\ wk'[r] = [wk[r] EXCEPT !.pc = pc]
              /\ \A q \in Poll \ {r} : wk'[q] = wk[q]
         /\ Leave(r) => /\ wk' \in [Poll -> PollRec]
                        /\ wk'[r] = [wk[r] EXCEPT !.pc = "next", !.w = None, !.tx = 0]
                        /\ \A q \in Poll \ {r} : wk'[q] = wk[q]
<1>1. wk \in [Poll -> PollRec] /\ wk[r] \in PollRec
  BY Zenon DEF Shape
<1>2. ASSUME NEW pc \in PollPC, Goto(r, pc)
      PROVE  /\ wk' \in [Poll -> PollRec]
             /\ wk'[r] = [wk[r] EXCEPT !.pc = pc]
             /\ \A q \in Poll \ {r} : wk'[q] = wk[q]
  <2>1. [wk[r] EXCEPT !.pc = pc] \in PollRec
    BY <1>1, Zenon DEF PollRec
  <2> QED
    BY <1>1, <1>2, <2>1, Zenon DEF Goto
<1>3. ASSUME Leave(r)
      PROVE  /\ wk' \in [Poll -> PollRec]
             /\ wk'[r] = [wk[r] EXCEPT !.pc = "next", !.w = None, !.tx = 0]
             /\ \A q \in Poll \ {r} : wk'[q] = wk[q]
  <2>1. [wk[r] EXCEPT !.pc = "next", !.w = None, !.tx = 0] \in PollRec
    BY Zenon, <1>1 DEF PollRec, PollPC
  <2>2. wk' = [wk EXCEPT ![r] = [wk[r] EXCEPT !.pc = "next", !.w = None, !.tx = 0]]
    BY Zenon, <1>1, <1>3 DEF Leave
  <2> QED
    BY <1>1, <2>1, <2>2, Zenon
<1> QED
  BY <1>2, <1>3, Zenon

(* The contracts and Base keep the shapes; a reorganisation takes back a    *)
(* payment that was made, so the count stays a natural number.              *)
LEMMA BaseShape ==
  ASSUME Shape, Contracts,
         \/ \E w \in Withdrawal : ExecuteTimelock(w) \/ CancelTimelock(w) \/ Confirm(w)
         \/ \E i \in DOMAIN txs : Mine(i) \/ Revert(i) \/ Drop(i) \/ Reorg(i)
  PROVE  Shape'
<1> USE DEF daemon, files
<1>1. ASSUME NEW w \in Withdrawal, ExecuteTimelock(w) \/ CancelTimelock(w) \/ Confirm(w)
      PROVE  Shape'
  BY <1>1 DEF Shape, ExecuteTimelock, CancelTimelock, Confirm
<1>2. ASSUME NEW i \in DOMAIN txs, Mine(i) \/ Revert(i) \/ Drop(i) \/ Reorg(i)
      PROVE  Shape'
  <2>0. txs \in Seq(TxRec)
    BY Zenon DEF Shape
  <2>1. txs[i].w \in Withdrawal
    <3>1. txs[i] \in TxRec
      BY <2>0
    <3> QED
      BY <3>1, Zenon DEF TxRec
  <2>2. txs' \in Seq(TxRec)
    <3>1. PICK st \in {"pending", "ok", "reverted", "dropped"} : txs' = [txs EXCEPT ![i].st = st]
      BY <1>2, Zenon DEF Mine, Revert, Drop, Reorg
    <3> QED
      BY Zenon, <2>0, <3>1, TxUpdate
  <2>3. CASE Mine(i)
    <3>1. paid' \in [Withdrawal -> Nat] /\ processed' \subseteq Withdrawal
      BY <2>1, <2>3 DEF Shape, Mine
    <3>2. lock' \in [Withdrawal -> {"none", "queued", "executed", "cancelled"}]
      BY Zenon, <2>1, <2>3 DEF Shape, Mine
    <3> QED
      BY <2>2, <2>3, <3>1, <3>2, Zenon DEF Shape, Mine
  <2>4. CASE Revert(i) \/ Drop(i)
    BY <2>2, <2>4, Zenon DEF Shape, Revert, Drop
  <2>5. CASE Reorg(i)
    <3>1. paid[txs[i].w] = 1
      BY <2>1, <2>5, Zenon DEF Reorg, Contracts
    <3> QED
      BY <2>1, <2>2, <2>5, <3>1 DEF Shape, Reorg
  <2> QED
    BY <1>2, <2>3, <2>4, <2>5, Zenon
<1> QED
  BY <1>1, <1>2, Zenon

(* A step of bridge_withdrawal_refund keeps the shapes.                     *)
LEMMA HandlerShape ==
  ASSUME Shape, Working, NEW h \in Handler, HandlerStep(h)
  PROVE  Shape'
<1> DEFINE w == srv[h].w
<1> USE DEF base, files
<1>1. srv[h].pc # "idle" => w \in Withdrawal
  BY Zenon DEF Shape, Working, HandlerRec
<1>2. ASSUME NEW pc \in HandlerPC, At(h, pc) \/ Answer(h, pc)
      PROVE  srv' \in [Handler -> HandlerRec]
  <2>1. srv \in [Handler -> HandlerRec] /\ srv[h] \in HandlerRec
    BY Zenon DEF Shape
  <2>2. [srv[h] EXCEPT !.pc = pc] \in HandlerRec /\ IdleHandler \in HandlerRec
    BY <2>1, Zenon DEF HandlerRec, IdleHandler, HandlerPC
  <2> QED
    BY <1>2, <2>1, <2>2, Zenon DEF At, Answer
<1>3. CASE RefundGet(h)
  <2>1. srv' \in [Handler -> HandlerRec]
    BY <1>2, <1>3, Zenon DEF RefundGet, HandlerPC
  <2> QED
    BY <1>3, <2>1, Zenon DEF RefundGet, Shape
<1>4. ASSUME NEW s \in {"fulfilled", "refunded"}, srv[h].pc \in Refunding,
             mem' = [mem EXCEPT ![w].st = s], Persisted \/ PersistFails
      PROVE  mem' \in [Withdrawal -> Record] /\ disk' \in [Withdrawal -> Record]
  <2>1. w \in Withdrawal /\ mem[w] # None
    BY <1>1, <1>4, Zenon DEF Working, Refunding
  <2>2. mem' \in [Withdrawal -> Record]
    BY Zenon, <2>1, <1>4, MemUpdate DEF Shape, Record
  <2> QED
    BY Zenon, <2>2, <1>4, UnreadableFile DEF Persisted, PersistFails, Shape
<1>5. CASE RefundVault(h)
  <2>1. srv' \in [Handler -> HandlerRec]
    BY <1>2, <1>5, Zenon DEF RefundVault, HandlerPC
  <2>2. mem' \in [Withdrawal -> Record] /\ disk' \in [Withdrawal -> Record]
    BY <1>4, <1>5, Zenon DEF RefundVault, Refunding, Shape
  <2> QED
    BY <1>5, <2>1, <2>2, Zenon DEF RefundVault, Shape
<1>6. CASE RefundContains(h)
  <2>1. srv' \in [Handler -> HandlerRec]
    BY <1>2, <1>6, Zenon DEF RefundContains, HandlerPC
  <2> QED
    BY <1>6, <2>1, Zenon DEF RefundContains, Shape
<1>7. CASE RefundInsert(h)
  <2>1. srv' \in [Handler -> HandlerRec]
    BY <1>2, <1>7, Zenon DEF RefundInsert, HandlerPC
  <2> QED
    BY <1>1, <1>7, <2>1, Zenon DEF RefundInsert, Shape
<1>8. CASE RefundMint(h)
  <2>1. srv' \in [Handler -> HandlerRec]
    BY <1>2, <1>8, Zenon DEF RefundMint, HandlerPC
  <2>2. mints' \in [Withdrawal -> Nat]
    <3>1. srv[h].w \in Withdrawal
      BY <1>1, <1>8, Zenon DEF RefundMint
    <3>2. mints' = mints \/ mints' = [mints EXCEPT ![srv[h].w] = mints[srv[h].w] + 1]
      BY <1>8, Zenon DEF RefundMint
    <3>3. mints \in [Withdrawal -> Nat]
      BY Zenon DEF Shape
    <3> QED
      BY <3>1, <3>2, <3>3
  <2> QED
    BY <1>8, <2>1, <2>2, Zenon DEF RefundMint, Shape
<1>9. CASE RefundStatus(h)
  <2>1. srv' \in [Handler -> HandlerRec]
    BY <1>2, <1>9, Zenon DEF RefundStatus, HandlerPC
  <2>2. mem' \in [Withdrawal -> Record] /\ disk' \in [Withdrawal -> Record]
    BY <1>4, <1>9, Zenon DEF RefundStatus, Refunding
  <2> QED
    BY <1>9, <2>1, <2>2, Zenon DEF RefundStatus, Shape
<1> QED
  BY <1>3, <1>5, <1>6, <1>7, <1>8, <1>9, Zenon DEF HandlerStep

(* rebuild_bridge_withdraw_store yields a list of records.                  *)
LEMMA RestartShape ==
  ASSUME Shape, NEW file \in [Withdrawal -> Record], NEW stored, Restart(file, stored),
         route' \in [Withdrawal -> Routes \cup {None}]
  PROVE  Shape'
<1> USE DEF base, files
<1>1. Fresh \in Record
  BY BridgeAssumption DEF Fresh, Record, Rec
<1>2. mem' \in [Withdrawal -> Record] /\ disk' = mem'
  BY <1>1, Zenon DEF Restart, Rebuilt
<1>3. srv' \in [Handler -> HandlerRec]
  <2>1. \A h \in Handler : [srv[h] EXCEPT !.pc = "no"] \in HandlerRec
    <3>1. "no" \in HandlerPC /\ \A h \in Handler : srv[h] \in HandlerRec
      BY Zenon DEF Shape, HandlerPC
    <3> QED
      BY <3>1, Zenon DEF HandlerRec
  <2>2. IdleHandler \in HandlerRec
    BY Zenon DEF HandlerRec, HandlerPC, IdleHandler
  <2> QED
    BY <2>1, <2>2, Zenon DEF Restart
<1> QED
  BY Zenon, <1>2, <1>3 DEF Restart, Shape

(* What a block with a withdrawal adds to the burned ones.                  *)
LEMMA Burning ==
  ASSUME Shape, NEW w \in Withdrawal \ burned, NEW rt \in Route[w],
         route' = [route EXCEPT ![w] = rt]
  PROVE  /\ route' \in [Withdrawal -> Routes \cup {None}]
         /\ burned' = burned \cup {w}
         /\ \A v \in burned : route'[v] = route[v]
<1>1. rt \in Routes /\ rt # None
  BY BridgeAssumption, Zenon
<1>2. route \in [Withdrawal -> Routes \cup {None}]
  BY Zenon DEF Shape
<1>3. /\ route' \in [Withdrawal -> Routes \cup {None}]
      /\ route'[w] = rt /\ \A v \in Withdrawal \ {w} : route'[v] = route[v]
  BY <1>1, <1>2, Zenon
<1> QED
  BY <1>1, <1>3, Zenon DEF burned

(* The daemon dies with the file it wrote last or with an unreadable one,   *)
(* and starts again from the withdrawals of the blocks that are stored.     *)
LEMMA Crashed ==
  ASSUME Shape, Crash \/ CrashInPersist
  PROVE  /\ \E file \in {disk, Unreadable} : Restart(file, burned')
         /\ route' \in [Withdrawal -> Routes \cup {None}]
         /\ burned \subseteq burned' /\ \A v \in burned : route'[v] = route[v]
<1>1. CASE UNCHANGED route
  <2>1. burned' = burned /\ route' \in [Withdrawal -> Routes \cup {None}]
    BY <1>1, Zenon DEF burned, Shape
  <2>2. \E file \in {disk, Unreadable} : Restart(file, burned)
    <3>1. ASSUME NEW w \in Withdrawal \ burned, NEW rt \in Route[w], route' = [route EXCEPT ![w] = rt]
          PROVE  FALSE
      <4>1. burned' = burned \cup {w}
        BY <3>1, Burning, Zenon
      <4> QED
        BY <2>1, <4>1, Zenon
    <3> QED
      BY <3>1, Zenon DEF Crash, CrashInPersist
  <2> QED
    BY <1>1, <2>1, <2>2, Zenon
<1>2. CASE \E w \in Withdrawal \ burned :
             /\ \E rt \in Route[w] : route' = [route EXCEPT ![w] = rt]
             /\ Restart(Unreadable, burned \cup {w})
  BY <1>2, Burning, Zenon
<1> QED
  BY <1>1, <1>2, Zenon DEF Crash, CrashInPersist

(* A new withdrawal and the crashes keep the shapes.                        *)
LEMMA DaemonShape ==
  ASSUME Shape, (\E w \in Withdrawal : Withdraw(w)) \/ Crash \/ CrashInPersist \/ RelayerCrash
  PROVE  Shape'
<1> USE DEF base, files
<1>0. Fresh \in Record
  BY BridgeAssumption DEF Fresh, Record, Rec
<1>1. ASSUME NEW w \in Withdrawal, Withdraw(w)
      PROVE  Shape'
  <2>1. route' \in [Withdrawal -> Routes \cup {None}]
    BY <1>1, Burning, Zenon DEF Withdraw
  <2>2. mem' = [mem EXCEPT ![w] = Fresh] \/ mem' = mem
    BY <1>1, Zenon DEF Withdraw
  <2>3. mem' \in [Withdrawal -> Record]
    BY Zenon, <1>0, <2>2 DEF Shape
  <2>4. disk' \in [Withdrawal -> Record] /\ degraded' \in BOOLEAN
    BY Zenon, <1>1, <2>3, UnreadableFile DEF Withdraw, Shape, Persisted, PersistFails
  <2> QED
    BY <1>1, <2>1, <2>3, <2>4, Zenon DEF Withdraw, Shape
<1>2. CASE Crash \/ CrashInPersist
  <2>1. disk \in [Withdrawal -> Record] /\ Unreadable \in [Withdrawal -> Record]
    BY UnreadableFile, Zenon DEF Shape
  <2> QED
    BY <1>2, <2>1, Crashed, RestartShape, Zenon
<1>4. CASE RelayerCrash
  <2>1. wk' \in [Poll -> PollRec]
    BY <1>4, Zenon DEF RelayerCrash, IdlePoll, PollRec, PollPC
  <2>2. \A h \in Handler : [srv[h] EXCEPT !.who = None] \in HandlerRec
    BY Zenon DEF Shape, HandlerRec
  <2>3. IdleHandler \in HandlerRec
    BY Zenon DEF HandlerRec, HandlerPC, IdleHandler
  <2>4. srv' \in [Handler -> HandlerRec]
    BY <1>4, <2>2, <2>3, Zenon DEF RelayerCrash
  <2> QED
    BY <1>4, <2>1, <2>4, Zenon DEF RelayerCrash, Shape
<1> QED
  BY <1>1, <1>2, <1>4, Zenon

(* A step of a poll keeps the shapes; what it keeps as queued is never an   *)
(* executed timelock.                                                       *)
LEMMA PollShape ==
  ASSUME Shape, Working, Contracts, NEW r \in Poll, PollStep(r)
  PROVE  Shape'
<1> DEFINE w == wk[r].w
<1> USE DEF base, files, daemon
<1>0. wk[r].pc \notin Between => w \in Withdrawal
  BY Zenon DEF Shape, Working, PollRec
<1>1. CASE Fetch(r)
  <2>1. [IdlePoll EXCEPT !.pc = "next", !.list = Listed(r)] \in PollRec
    BY Zenon DEF IdlePoll, PollRec, PollPC, Payable, Listed
  <2>2. wk' \in [Poll -> PollRec]
    BY <1>1, <2>1, Zenon DEF Fetch, Shape
  <2> QED
    BY <1>1, <2>2, Zenon DEF Fetch, Shape
<1>2. CASE NextItem(r)
  <2>1. wk' \in [Poll -> PollRec]
    <3>1. wk \in [Poll -> PollRec] /\ wk[r] \in PollRec
      BY Zenon DEF Shape
    <3>2. ASSUME NEW v \in wk[r].list, NEW x \in {None, v}, NEW pc \in {"getter", "next", "check"},
                 wk' = [wk EXCEPT ![r].list = @ \ {v}, ![r].w = x, ![r].pc = pc]
          PROVE  wk' \in [Poll -> PollRec]
      <4>1. [wk[r] EXCEPT !.list = @ \ {v}, !.w = x, !.pc = pc] \in PollRec
        BY Zenon, <3>1 DEF PollRec, PollPC
      <4> QED
        BY <3>1, <3>2, <4>1, Zenon
    <3>3. ASSUME wk' = [wk EXCEPT ![r].loop = "queue", ![r].list = Queued(r)]
          PROVE  wk' \in [Poll -> PollRec]
      <4>1. [wk[r] EXCEPT !.loop = "queue", !.list = Queued(r)] \in PollRec
        BY Zenon, <3>1 DEF PollRec, Queued
      <4> QED
        BY <3>1, <3>3, <4>1, Zenon
    <3>4. IdlePoll \in PollRec
      BY Zenon DEF IdlePoll, PollRec, PollPC
    <3> QED
      BY Zenon, <1>2, <3>1, <3>2, <3>3, <3>4 DEF NextItem
  <2> QED
    BY Zenon, <1>2, <2>1 DEF NextItem, Shape
<1>3. CASE Check(r) \/ Recheck(r) \/ Wait(r) \/ Failure(r) \/ Guard(r)
  <2>1. wk' \in [Poll -> PollRec]
    BY Zenon, <1>3, WkShape DEF Check, Recheck, Wait, Failure, Guard, PollPC
  <2> QED
    BY <1>3, <2>1, Zenon DEF Check, Recheck, Wait, Failure, Guard, Shape
<1>4. CASE Send(r)
  <2>1. w \in Withdrawal
    BY <1>0, <1>4, Zenon DEF Send, Between
  <2>2. txs' \in Seq(TxRec)
    <3>1. txs \in Seq(TxRec)
      BY Zenon DEF Shape
    <3>2. txs' = txs \/ txs' = Append(txs, [w |-> w, st |-> "pending"])
      BY <1>4, Zenon DEF Send, Sent
    <3> QED
      BY <2>1, <3>1, <3>2, TxAppend
  <2>3. wk' \in [Poll -> PollRec]
    <3>1. wk \in [Poll -> PollRec] /\ wk[r] \in PollRec /\ Len(txs) + 1 \in Nat
      BY DEF Shape
    <3>2. [wk[r] EXCEPT !.pc = "wait", !.tx = Len(txs) + 1] \in PollRec
      BY Zenon, <3>1 DEF PollRec, PollPC
    <3>3. ASSUME wk' = [wk EXCEPT ![r].pc = "wait", ![r].tx = Len(txs) + 1]
          PROVE  wk' \in [Poll -> PollRec]
      BY <3>1, <3>2, <3>3, Zenon
    <3> QED
      BY Zenon, <1>4, <3>3, WkShape DEF Send, PollPC
  <2> QED
    BY <1>4, <2>2, <2>3, Zenon DEF Send, Shape
<1>5. CASE Classify(r) \/ Reconcile(r) \/ Getter(r)
  <2>1. w \in Withdrawal
    BY <1>0, <1>5, Zenon DEF Classify, Reconcile, Getter, Between
  <2>2. wk' \in [Poll -> PollRec]
    BY Zenon, <1>5, WkShape DEF Classify, Reconcile, Getter, Keep, PollPC
  <2>3. lock[w] \in {"none", "queued", "executed", "cancelled"}
    BY <2>1, Zenon DEF Shape
  <2>4. lock[w] = "executed" => paid[w] = 1
    BY <2>1, Zenon DEF Contracts
  <2>5. queued' = queued \/ \E s \in {"queued", "cancelled", "ambiguous"} : queued' = [queued EXCEPT ![w] = s]
    BY <1>5, <2>3, <2>4 DEF Classify, Reconcile, Getter, Keep
  <2>6. queued' \in [Withdrawal -> {None, "queued", "cancelled", "ambiguous"}]
    BY Zenon, <2>1, <2>5 DEF Shape
  <2> QED
    BY <1>5, <2>2, <2>6, Zenon DEF Classify, Reconcile, Getter, Shape
<1>6. CASE Fulfil(r)
  <2>1. w \in Withdrawal
    BY <1>0, <1>6, Zenon DEF Fulfil, Between
  <2>2. wk' \in [Poll -> PollRec]
    BY Zenon, <1>6, WkShape DEF Fulfil
  <2>3. mem' = mem \/ (Open(w) /\ MarkFulfilled(w))
    BY <1>6, Zenon DEF Fulfil
  <2>4. mem' \in [Withdrawal -> Record]
    BY ZenonT(40), <2>1, <2>3, MemUpdate DEF Open, MarkFulfilled, Shape, Record
  <2>5. disk' \in [Withdrawal -> Record]
    BY <1>6, <2>4, UnreadableFile, Zenon DEF Fulfil, Shape, Persisted, PersistFails
  <2>6. /\ done' \subseteq Withdrawal
        /\ queued' \in [Withdrawal -> {None, "queued", "cancelled", "ambiguous"}]
    BY Zenon, <1>6, <2>1 DEF Fulfil, Shape
  <2> QED
    BY <1>6, <2>2, <2>4, <2>5, <2>6, Zenon DEF Fulfil, Shape
<1>7. CASE Report(r)
  <2>1. w \in Withdrawal
    BY <1>0, <1>7, Zenon DEF Report, Between
  <2>2. wk' \in [Poll -> PollRec]
    BY Zenon, <1>7, WkShape DEF Report, PollPC
  <2>3. mem' = mem \/ (mem[w] # None /\ RecordAttempt(w))
    BY <1>7, Zenon DEF Report
  <2>4. mem' \in [Withdrawal -> Record]
    BY Zenon, <2>1, <2>3, MemUpdate DEF RecordAttempt, Shape, Record
  <2>5. disk' \in [Withdrawal -> Record]
    BY <1>7, <2>4, UnreadableFile, Zenon DEF Report, Shape, Persisted, PersistFails
  <2> QED
    BY <1>7, <2>2, <2>4, <2>5, Zenon DEF Report, Shape
<1>8. CASE Ask(r)
  <2>1. w \in Withdrawal
    BY <1>0, <1>8, Zenon DEF Ask, Between
  <2>2. wk' \in [Poll -> PollRec]
    BY Zenon, <1>8, WkShape DEF Ask, PollPC
  <2>3. srv' \in [Handler -> HandlerRec]
    BY <1>8, <2>1 DEF Ask, Shape, HandlerRec, HandlerPC
  <2> QED
    BY <1>8, <2>2, <2>3, Zenon DEF Ask, Shape
<1>9. CASE Await(r)
  <2>1. PICK h \in Handler : Await(r)!(h)
    BY <1>9, Zenon DEF Await
  <2>2. w \in Withdrawal
    BY <1>0, <2>1, Zenon DEF Between
  <2>3. wk' \in [Poll -> PollRec]
    BY Zenon, <2>1, WkShape
  <2>4. IdleHandler \in HandlerRec /\ [srv[h] EXCEPT !.who = None] \in HandlerRec
    BY Zenon DEF Shape, IdleHandler, HandlerRec, HandlerPC
  <2>5. srv' \in [Handler -> HandlerRec]
    BY Zenon, <2>1, <2>4 DEF Shape
  <2>6. done' \subseteq Withdrawal
    BY <2>1, <2>2, Zenon DEF Shape
  <2> QED
    BY <2>1, <2>3, <2>5, <2>6, Zenon DEF Shape
<1> QED
  BY <1>1, <1>2, <1>3, <1>4, <1>5, <1>6, <1>7, <1>8, <1>9, Zenon DEF PollStep

-----------------------------------------------------------------------------

(* Every release transaction is one of a withdrawal.                        *)
LEMMA TxFacts ==
  ASSUME Shape
  PROVE  txs \in Seq(TxRec) /\ \A i \in DOMAIN txs : txs[i] \in TxRec /\ txs[i].w \in Withdrawal
<1>1. txs \in Seq(TxRec)
  BY Zenon DEF Shape
<1>2. \A i \in DOMAIN txs : txs[i] \in TxRec
  BY <1>1
<1> QED
  BY <1>1, <1>2, Zenon DEF TxRec

(* Every step keeps the books of the contracts: processedL1Txs lets a       *)
(* second release of an id revert, so there is at most one successful       *)
(* release of each, and the payment is what that release and the timelock   *)
(* say.                                                                     *)
LEMMA ContractsStep ==
  ASSUME Shape, Working, Contracts, Next
  PROVE  Contracts'
<1> USE DEF daemon, files, base
<1>1. ASSUME UNCHANGED base
      PROVE  Contracts'
  BY <1>1, Zenon DEF Contracts
<1>2. ASSUME NEW w \in Withdrawal, ExecuteTimelock(w) \/ CancelTimelock(w) \/ Confirm(w)
      PROVE  Contracts'
  <2>1. UNCHANGED <<txs, processed>>
    BY <1>2, Zenon DEF ExecuteTimelock, CancelTimelock, Confirm
  <2>2. CASE ExecuteTimelock(w)
    BY <2>1, <2>2 DEF ExecuteTimelock, Contracts, Shape
  <2>3. CASE CancelTimelock(w)
    BY <2>1, <2>3, Zenon DEF CancelTimelock, Contracts, Shape
  <2>4. CASE Confirm(w)
    BY <2>1, <2>4 DEF Confirm, Contracts, Shape
  <2> QED
    BY <1>2, <2>2, <2>3, <2>4, Zenon
<1>3. ASSUME NEW i \in DOMAIN txs, Mine(i)
      PROVE  Contracts'
  <2> DEFINE w == txs[i].w
  <2>1. w \in Withdrawal /\ w \notin processed /\ paid[w] = 0 /\ lock[w] = "none" /\ w \notin deep
    BY <1>3, TxFacts DEF Mine, Contracts
  <2>2. /\ DOMAIN txs' = DOMAIN txs /\ txs'[i].st = "ok"
        /\ \A j \in DOMAIN txs : txs'[j].w = txs[j].w /\ (j # i => txs'[j] = txs[j])
    BY Zenon, <1>3, TxFacts, TxUpdate DEF Mine
  <2>3. \A j \in DOMAIN txs : txs[j].st = "ok" => txs[j].w # w
    BY <2>1, Zenon DEF Contracts
  <2>4. /\ \A j \in DOMAIN txs' : txs'[j].st = "ok" => txs'[j].w \in processed'
        /\ \A j, k \in DOMAIN txs' :
             txs'[j].st = "ok" /\ txs'[k].st = "ok" /\ txs'[j].w = txs'[k].w => j = k
    BY <1>3, <2>2, <2>3 DEF Mine, Contracts
  <2>5. \A v \in Withdrawal :
          /\ paid'[v] = IF v \in processed' /\ lock'[v] \in {"none", "executed"} THEN 1 ELSE 0
          /\ lock'[v] # "none" => v \in processed'
          /\ v \in deep' => paid'[v] = 1
    BY <1>3, <2>1 DEF Mine, Contracts, Shape
  <2> QED
    BY <2>4, <2>5, Zenon DEF Contracts
<1>4. ASSUME NEW i \in DOMAIN txs, Revert(i) \/ Drop(i)
      PROVE  Contracts'
  <2>1. txs' = [txs EXCEPT ![i].st = "reverted"] \/ txs' = [txs EXCEPT ![i].st = "dropped"]
    BY <1>4, Zenon DEF Revert, Drop
  <2>2. txs \in Seq(TxRec)
    BY TxFacts, Zenon
  <2>3. /\ DOMAIN txs' = DOMAIN txs /\ txs'[i].st # "ok"
        /\ \A j \in DOMAIN txs : txs'[j].w = txs[j].w /\ (j # i => txs'[j] = txs[j])
    <3>1. CASE txs' = [txs EXCEPT ![i].st = "reverted"]
      BY Zenon, <2>2, <3>1, TxUpdate
    <3>2. CASE txs' = [txs EXCEPT ![i].st = "dropped"]
      BY Zenon, <2>2, <3>2, TxUpdate
    <3> QED
      BY <2>1, <3>1, <3>2, Zenon
  <2>4. UNCHANGED <<processed, lock, paid, deep>>
    BY <1>4, Zenon DEF Revert, Drop
  <2> QED
    BY <2>3, <2>4, Zenon DEF Contracts
<1>5. ASSUME NEW i \in DOMAIN txs, Reorg(i)
      PROVE  Contracts'
  <2> DEFINE w == txs[i].w
  <2>1. w \in Withdrawal /\ paid[w] = 1 /\ lock[w] = "none" /\ w \notin deep
    BY <1>5, TxFacts, Zenon DEF Reorg, Contracts
  <2>2. /\ DOMAIN txs' = DOMAIN txs /\ txs'[i].st = "pending"
        /\ \A j \in DOMAIN txs : txs'[j].w = txs[j].w /\ (j # i => txs'[j] = txs[j])
    BY Zenon, <1>5, TxFacts, TxUpdate DEF Reorg
  <2>3. \A j \in DOMAIN txs : txs'[j].st = "ok" => txs[j].st = "ok" /\ txs[j].w # w
    BY <1>5, <2>2, Zenon DEF Contracts, Reorg
  <2>4. /\ \A j \in DOMAIN txs' : txs'[j].st = "ok" => txs'[j].w \in processed'
        /\ \A j, k \in DOMAIN txs' :
             txs'[j].st = "ok" /\ txs'[k].st = "ok" /\ txs'[j].w = txs'[k].w => j = k
    BY <1>5, <2>2, <2>3 DEF Reorg, Contracts
  <2>5. \A v \in Withdrawal :
          /\ paid'[v] = IF v \in processed' /\ lock'[v] \in {"none", "executed"} THEN 1 ELSE 0
          /\ lock'[v] # "none" => v \in processed'
          /\ v \in deep' => paid'[v] = 1
    BY <1>5, <2>1 DEF Reorg, Contracts, Shape
  <2> QED
    BY <2>4, <2>5 DEF Contracts
<1>6. ASSUME NEW r \in Poll, Send(r)
      PROVE  Contracts'
  <2>1. wk[r].w \in Withdrawal
    BY Zenon, <1>6 DEF Send, Between, Working, Shape, PollRec
  <2>2. UNCHANGED <<processed, lock, paid, deep>>
    BY <1>6, Zenon DEF Send
  <2>3. CASE txs' = txs
    BY <2>2, <2>3, Zenon DEF Contracts
  <2>4. CASE Sent(wk[r].w)
    <3>1. /\ DOMAIN txs' = DOMAIN txs \cup {Len(txs) + 1} /\ Len(txs) + 1 \notin DOMAIN txs
          /\ txs'[Len(txs) + 1].st = "pending"
          /\ \A j \in DOMAIN txs : txs'[j] = txs[j]
      BY <2>1, <2>4, TxFacts, TxAppend DEF Sent
    <3>2. \A j \in DOMAIN txs' : txs'[j].st = "ok" => j \in DOMAIN txs /\ txs'[j] = txs[j]
      BY <3>1, Zenon
    <3> QED
      BY <2>2, <3>2 DEF Contracts
  <2> QED
    BY <1>6, <2>3, <2>4, Zenon DEF Send
<1>7. ASSUME NEW r \in Poll, PollStep(r), ~Send(r)
      PROVE  UNCHANGED base
  BY Zenon, <1>7 DEF PollStep, Fetch, NextItem, Check, Recheck, Wait, Classify, Reconcile, Getter,
              Fulfil, Failure, Report, Guard, Ask, Await
<1>8. ASSUME (\E w \in Withdrawal : Withdraw(w)) \/ (\E h \in Handler : HandlerStep(h))
             \/ Crash \/ CrashInPersist \/ RelayerCrash
      PROVE  UNCHANGED base
  BY Zenon, <1>8 DEF Withdraw, Crash, CrashInPersist, RelayerCrash, Restart, HandlerStep, RefundGet,
              RefundVault, RefundContains, RefundInsert, RefundMint, RefundStatus
<1> QED
  BY <1>1, <1>2, <1>3, <1>4, <1>5, <1>6, <1>7, <1>8, Zenon DEF Next

(* Every step keeps the shapes.                                             *)
LEMMA ShapeStep ==
  ASSUME Shape, Working, Contracts, Next
  PROVE  Shape'
BY BaseShape, HandlerShape, DaemonShape, PollShape, Zenon DEF Next

-----------------------------------------------------------------------------

(* Only a restart can lose a record: no handler removes one from the store. *)
LEMMA MemKept ==
  ASSUME Shape, Working,
         \/ \E w \in Withdrawal : Withdraw(w)
         \/ \E h \in Handler : HandlerStep(h)
         \/ \E r \in Poll : PollStep(r)
  PROVE  \A w \in Withdrawal : mem[w] # None => mem'[w] # None
<1> USE DEF daemon, files, base
<1>1. ASSUME NEW w \in Withdrawal, Withdraw(w)
      PROVE  \A v \in Withdrawal : mem[v] # None => mem'[v] # None
  <2>1. Fresh # None
    BY BridgeAssumption DEF Fresh, Rec
  <2> QED
    BY <1>1, <2>1, Zenon DEF Withdraw, Shape
<1>2. ASSUME NEW h \in Handler, HandlerStep(h)
      PROVE  \A w \in Withdrawal : mem[w] # None => mem'[w] # None
  <2>1. srv[h].w \in Withdrawal
    BY <1>2, SMTT(30) DEF Working, Shape, HandlerRec, HandlerStep, RefundGet, RefundVault, RefundContains,
                RefundInsert, RefundMint, RefundStatus
  <2>2. mem' = mem \/ \E st \in {"fulfilled", "refunded"} : mem' = [mem EXCEPT ![srv[h].w].st = st]
    BY <1>2, Zenon DEF HandlerStep, RefundGet, RefundVault, RefundContains, RefundInsert, RefundMint, RefundStatus
  <2>3. mem[srv[h].w] # None => /\ [mem[srv[h].w] EXCEPT !.st = "fulfilled"] # None
                                /\ [mem[srv[h].w] EXCEPT !.st = "refunded"] # None
    BY Zenon, <2>1, MemUpdate, BridgeAssumption
  <2> QED
    BY <2>1, <2>2, <2>3, Zenon DEF Shape
<1>3. ASSUME NEW r \in Poll, PollStep(r)
      PROVE  \A w \in Withdrawal : mem[w] # None => mem'[w] # None
  <2>1. ASSUME ~Fulfil(r), ~Report(r)
        PROVE  UNCHANGED mem
    BY Zenon, <1>3, <2>1 DEF PollStep, Fetch, NextItem, Check, Send, Recheck, Wait, Classify, Reconcile, Getter,
                      Failure, Guard, Ask, Await
  <2>2. ASSUME Fulfil(r) \/ Report(r)
        PROVE  \A w \in Withdrawal : mem[w] # None => mem'[w] # None
    <3>1. wk[r].w \in Withdrawal
      BY Zenon, <2>2 DEF Fulfil, Report, Working, Shape, PollRec, Between
    <3>2. \/ mem' = mem
          \/ Open(wk[r].w) /\ MarkFulfilled(wk[r].w)
          \/ mem[wk[r].w] # None /\ RecordAttempt(wk[r].w)
      BY Zenon, <2>2 DEF Fulfil, Report
    <3>3. CASE Open(wk[r].w) /\ MarkFulfilled(wk[r].w)
      <4>1. [mem[wk[r].w] EXCEPT !.st = "fulfilled"] # None
        BY Zenon, <3>1, <3>3, MemUpdate, BridgeAssumption DEF Open
      <4>2. mem' = mem \/ mem' = [mem EXCEPT ![wk[r].w] = [mem[wk[r].w] EXCEPT !.st = "fulfilled"]]
        BY <3>3, Zenon DEF MarkFulfilled
      <4> QED
        BY <3>1, <4>1, <4>2, Zenon DEF Shape
    <3>4. CASE mem[wk[r].w] # None /\ RecordAttempt(wk[r].w)
      BY Zenon, <3>1, <3>4, MemUpdate, BridgeAssumption DEF RecordAttempt, Shape
    <3> QED
      BY <3>2, <3>3, <3>4, Zenon
  <2> QED
    BY <2>1, <2>2, Zenon
<1> QED
  BY <1>1, <1>2, <1>3, Zenon

(* Every step keeps polls and handlers consistent with what they work on.   *)
LEMMA WorkingStep ==
  ASSUME Shape, Working, Contracts, Next
  PROVE  Working'
<1> USE DEF daemon, files, base
<1> DEFINE Pc(r) == wk[r].w = None <=> wk[r].pc \in Between
           Tx(r) == wk[r].pc = "wait" => wk[r].tx \in DOMAIN txs /\ txs[wk[r].tx].w = wk[r].w
           Hw(h) == IF srv[h].pc = "idle" THEN srv[h] = IdleHandler ELSE srv[h].w # None
           Hm(h) == srv[h].pc \in Refunding => mem[srv[h].w] # None
<1>0. /\ \A r \in Poll : Pc(r) /\ Tx(r)
      /\ \A h \in Handler : Hw(h) /\ Hm(h)
  BY Zenon DEF Working
<1>00. SUFFICES (\A r \in Poll : Pc(r)' /\ Tx(r)') /\ (\A h \in Handler : Hw(h)' /\ Hm(h)')
  BY Zenon DEF Working
<1> HIDE DEF Working
<1>1. ASSUME UNCHANGED wk,
             UNCHANGED txs \/ \A j \in DOMAIN txs : j \in DOMAIN txs' /\ txs'[j].w = txs[j].w
      PROVE  \A r \in Poll : Pc(r)' /\ Tx(r)'
  BY <1>0, <1>1, Zenon
<1>2. ASSUME UNCHANGED srv, \A w \in Withdrawal : mem[w] # None => mem'[w] # None
      PROVE  \A h \in Handler : Hw(h)' /\ Hm(h)'
  <2>1. \A h \in Handler : srv[h].pc \in Refunding => srv[h].w \in Withdrawal
    BY <1>0, Zenon DEF Shape, HandlerRec, Refunding
  <2> QED
    BY <1>0, <1>2, <2>1, Zenon
<1>3. ASSUME NEW w \in Withdrawal, ExecuteTimelock(w) \/ CancelTimelock(w) \/ Confirm(w)
      PROVE  UNCHANGED <<wk, txs, srv, mem>>
  BY <1>3, Zenon DEF ExecuteTimelock, CancelTimelock, Confirm
<1>4. ASSUME NEW i \in DOMAIN txs, Mine(i) \/ Revert(i) \/ Drop(i) \/ Reorg(i)
      PROVE  UNCHANGED <<wk, srv, mem>> /\ \A j \in DOMAIN txs : j \in DOMAIN txs' /\ txs'[j].w = txs[j].w
  <2>1. PICK st \in {"pending", "ok", "reverted", "dropped"} : txs' = [txs EXCEPT ![i].st = st]
    BY <1>4, Zenon DEF Mine, Revert, Drop, Reorg
  <2>2. DOMAIN txs' = DOMAIN txs /\ \A j \in DOMAIN txs : txs'[j].w = txs[j].w
    BY <2>1, TxFacts, TxUpdate
  <2> QED
    BY <1>4, <2>2, Zenon DEF Mine, Revert, Drop, Reorg
<1>5. ASSUME NEW w \in Withdrawal, Withdraw(w)
      PROVE  UNCHANGED <<wk, txs, srv>> /\ \A v \in Withdrawal : mem[v] # None => mem'[v] # None
  BY Zenon, <1>5, MemKept DEF Withdraw
<1>6. ASSUME NEW h \in Handler, HandlerStep(h)
      PROVE  /\ UNCHANGED <<wk, txs>>
             /\ \A g \in Handler : Hw(g)' /\ Hm(g)'
  <2>1. UNCHANGED <<wk, txs>>
    BY <1>6, Zenon DEF HandlerStep, RefundGet, RefundVault, RefundContains, RefundInsert, RefundMint, RefundStatus
  <2>2. srv \in [Handler -> HandlerRec] /\ mem \in [Withdrawal -> Record]
    BY Zenon DEF Shape
  <2>3. \A g \in Handler : srv[g].pc # "idle" => srv[g].w \in Withdrawal
    BY <1>0, <2>2, Zenon DEF HandlerRec
  <2>4. srv[h].pc # "idle"
    BY <1>6, Zenon DEF HandlerStep, RefundGet, RefundVault, RefundContains, RefundInsert, RefundMint, RefundStatus
  <2>5. \A w \in Withdrawal : mem[w] # None => mem'[w] # None
    BY <1>6, MemKept, Zenon
  <2>6. ASSUME NEW pc \in {"no", "ok"}, Answer(h, pc)
        PROVE  \A g \in Handler : Hw(g)' /\ Hm(g)'
    <3>1. /\ srv'[h] = IdleHandler \/ (srv'[h].pc = pc /\ srv'[h].w = srv[h].w)
          /\ \A g \in Handler \ {h} : srv'[g] = srv[g]
      BY <2>2, <2>6, Zenon DEF Answer, HandlerRec
    <3>2. Hw(h)' /\ Hm(h)'
      BY <3>1, <2>4, <1>0 DEF IdleHandler, Refunding
    <3> QED
      BY <1>0, <2>3, <2>5, <3>1, <3>2, Zenon DEF Refunding
  <2>7. ASSUME NEW pc \in Refunding, At(h, pc), mem[srv[h].w] # None
        PROVE  \A g \in Handler : Hw(g)' /\ Hm(g)'
    <3>1. /\ srv'[h].pc = pc /\ srv'[h].w = srv[h].w
          /\ \A g \in Handler \ {h} : srv'[g] = srv[g]
      BY <2>2, <2>7, Zenon DEF At, HandlerRec
    <3>2. Hw(h)' /\ Hm(h)'
      BY <3>1, <2>3, <2>4, <2>5, <2>7, <1>0, Zenon DEF Refunding
    <3> QED
      BY <1>0, <2>3, <2>5, <3>1, <3>2, Zenon DEF Refunding
  <2>8. srv[h].pc \in Refunding => mem[srv[h].w] # None
    BY <1>0, Zenon
  <2> HIDE DEF Hw, Hm
  <2>9. CASE RefundGet(h)
    BY <2>6, <2>7, <2>9, Zenon DEF RefundGet, Refunding
  <2>10. CASE RefundVault(h) \/ RefundContains(h)
    BY <2>6, <2>7, <2>8, <2>10, Zenon DEF RefundVault, RefundContains, Refunding
  <2>11. CASE RefundInsert(h) \/ RefundMint(h)
    BY <2>6, <2>7, <2>8, <2>11, Zenon DEF RefundInsert, RefundMint, Refunding
  <2>12. CASE RefundStatus(h)
    BY <2>6, <2>12, Zenon DEF RefundStatus
  <2> QED
    BY <1>6, <2>1, <2>9, <2>10, <2>11, <2>12, Zenon DEF HandlerStep
<1>7. ASSUME NEW file, NEW stored, Restart(file, stored)
      PROVE  /\ UNCHANGED <<wk, txs>>
             /\ \A h \in Handler : Hw(h)' /\ Hm(h)'
  <2>1. \A h \in Handler : srv'[h] = IF srv[h].who = None THEN IdleHandler
                                     ELSE [srv[h] EXCEPT !.pc = "no"]
    BY <1>7, Zenon DEF Restart
  <2>2. \A h \in Handler : srv'[h] = IdleHandler \/ (srv'[h].pc = "no" /\ srv'[h].w = srv[h].w /\ srv[h].who # None)
    BY Zenon, <2>1 DEF Shape, HandlerRec
  <2>3. \A h \in Handler : Hw(h)' /\ Hm(h)'
    BY <1>0, <2>2 DEF IdleHandler, Refunding
  <2> QED
    BY <1>7, <2>3, Zenon DEF Restart
<1>8. ASSUME RelayerCrash
      PROVE  /\ \A r \in Poll : Pc(r)' /\ Tx(r)'
             /\ \A h \in Handler : Hw(h)' /\ Hm(h)'
  <2>1. \A r \in Poll : wk'[r] = IdlePoll
    BY <1>8, Zenon DEF RelayerCrash
  <2>2. \A r \in Poll : Pc(r)' /\ Tx(r)'
    BY <2>1, SMTT(30) DEF IdlePoll, Between
  <2>3. UNCHANGED mem
    BY <1>8, Zenon DEF RelayerCrash
  <2>4. \A h \in Handler : \/ srv'[h] = IdleHandler
                           \/ srv[h].pc # "idle" /\ srv'[h].pc = srv[h].pc /\ srv'[h].w = srv[h].w
    BY <1>8, Zenon DEF RelayerCrash, Shape, HandlerRec
  <2>5. \A h \in Handler : Hw(h)' /\ Hm(h)'
    BY <1>0, <2>3, <2>4 DEF IdleHandler, Refunding
  <2> QED
    BY <2>2, <2>5, Zenon
<1>9. ASSUME NEW r \in Poll, PollStep(r)
      PROVE  (\A q \in Poll : Pc(q)' /\ Tx(q)') /\ (\A h \in Handler : Hw(h)' /\ Hm(h)')
  <2>1. wk \in [Poll -> PollRec] /\ wk[r] \in PollRec
    BY Zenon DEF Shape
  <2>2. ASSUME UNCHANGED txs, Leave(r)
        PROVE  \A q \in Poll : Pc(q)' /\ Tx(q)'
    <3>1. wk'[r].pc = "next" /\ wk'[r].w = None /\ \A q \in Poll \ {r} : wk'[q] = wk[q]
      BY ZenonT(40), <2>1, <2>2, WkShape DEF PollRec
    <3> QED
      BY <1>0, <2>2, <3>1, Zenon DEF Between
  <2>3. ASSUME wk[r].pc \notin Between, UNCHANGED txs, NEW pc \in PollPC \ (Between \cup {"wait"}), Goto(r, pc)
        PROVE  \A q \in Poll : Pc(q)' /\ Tx(q)'
    <3>0. pc \in PollPC
      BY <2>3, Zenon
    <3>1. wk'[r].pc = pc /\ wk'[r].w = wk[r].w /\ \A q \in Poll \ {r} : wk'[q] = wk[q]
      <4>1. wk'[r] = [wk[r] EXCEPT !.pc = pc] /\ \A q \in Poll \ {r} : wk'[q] = wk[q]
        BY Zenon, <2>3, <3>0, WkShape
      <4> QED
        BY <2>1, <4>1, Zenon DEF PollRec
    <3> QED
      BY <1>0, <2>3, <3>1 DEF Between
  <2>4. CASE Send(r)
    <3>0. wk[r].w \in Withdrawal /\ txs \in Seq(TxRec)
      BY <1>0, <2>1, <2>4, TxFacts, Zenon DEF Send, PollRec, Between
    <3>1. ASSUME txs' = txs
          PROVE  \A q \in Poll : Pc(q)' /\ Tx(q)'
      <4>1. CASE Sent(wk[r].w)
        BY <3>0, <3>1, <4>1, TxAppend, Zenon DEF Sent
      <4>2. CASE ~Sent(wk[r].w)
        <5>1. wk[r].pc \notin Between /\ (Goto(r, "failure") \/ Goto(r, "recheck"))
          BY <2>4, <4>2, Zenon DEF Send, Between
        <5> QED
          BY <2>3, <3>1, <5>1, Zenon DEF PollPC, Between
      <4> QED
        BY <4>1, <4>2, Zenon
    <3>2. CASE Sent(wk[r].w)
      <4>1. /\ DOMAIN txs' = DOMAIN txs \cup {Len(txs) + 1}
            /\ txs'[Len(txs) + 1].w = wk[r].w /\ \A j \in DOMAIN txs : txs'[j] = txs[j]
        BY <3>0, <3>2, TxAppend DEF Sent
      <4>2. \A q \in Poll \ {r} : wk'[q] = wk[q]
        BY Zenon, <2>1, <2>4, WkShape DEF Send, PollPC
      <4>3. wk'[r].w = wk[r].w /\ wk'[r].pc \notin Between
            /\ (wk'[r].pc = "wait" => wk'[r].tx = Len(txs) + 1)
        BY <2>1, <2>4 DEF Send, Goto, PollRec, Between
      <4> QED
        BY <1>0, <2>4, <4>1, <4>2, <4>3 DEF Send, Between
    <3>3. \A h \in Handler : Hw(h)' /\ Hm(h)'
      BY <1>2, <2>4, Zenon DEF Send
    <3> QED
      BY <2>4, <3>1, <3>2, <3>3, Zenon DEF Send
  <2>5. CASE Fetch(r)
    <3>1. wk'[r].pc = "next" /\ wk'[r].w = None /\ \A q \in Poll \ {r} : wk'[q] = wk[q]
      BY <2>1, <2>5, Zenon DEF Fetch, IdlePoll
    <3>2. UNCHANGED <<txs, srv, mem>>
      BY <2>5, Zenon DEF Fetch
    <3> QED
      BY <1>0, <3>1, <3>2, Zenon DEF Between
  <2>6. CASE NextItem(r)
    <3>1. UNCHANGED <<txs, srv, mem>>
      BY Zenon, <2>6 DEF NextItem
    <3>2. \A q \in Poll \ {r} : wk'[q] = wk[q]
      BY Zenon, <2>1, <2>6 DEF NextItem
    <3>3. Pc(r)' /\ Tx(r)'
      <4>1. ASSUME NEW v \in wk[r].list,
                   wk' = [wk EXCEPT ![r].list = @ \ {v},
                           ![r].w = IF wk[r].loop = "list" /\ Skipped(r, v) THEN None ELSE v,
                           ![r].pc = IF wk[r].loop = "queue" THEN "getter"
                                     ELSE IF Skipped(r, v) THEN "next" ELSE "check"]
            PROVE  Pc(r)' /\ Tx(r)'
        <5>1. v # None /\ wk[r].loop \in {"list", "queue"}
          BY <2>1, BridgeAssumption, Zenon DEF PollRec
        <5>2. /\ wk'[r].w = IF wk[r].loop = "list" /\ Skipped(r, v) THEN None ELSE v
              /\ wk'[r].pc = IF wk[r].loop = "queue" THEN "getter"
                             ELSE IF Skipped(r, v) THEN "next" ELSE "check"
          BY <2>1, <4>1, Zenon DEF PollRec
        <5> QED
          BY <5>1, <5>2, Zenon DEF Between
      <4>2. ASSUME NEW l, wk' = [wk EXCEPT ![r].loop = "queue", ![r].list = l]
            PROVE  Pc(r)' /\ Tx(r)'
        <5>1. wk'[r].pc = wk[r].pc /\ wk'[r].w = wk[r].w
          BY <2>1, <4>2, Zenon DEF PollRec
        <5> QED
          BY Zenon, <1>0, <2>6, <5>1 DEF Between, NextItem
      <4>3. ASSUME wk' = [wk EXCEPT ![r] = IdlePoll]
            PROVE  Pc(r)' /\ Tx(r)'
        BY <2>1, <4>3, Zenon DEF IdlePoll, Between
      <4> HIDE DEF Pc, Tx
      <4> QED
        BY Zenon, <2>6, <4>1, <4>2, <4>3 DEF NextItem
    <3> QED
      BY <1>0, <3>1, <3>2, <3>3, Zenon
  <2>7. CASE Check(r) \/ Recheck(r) \/ Wait(r) \/ Failure(r) \/ Guard(r)
    <3>1. UNCHANGED <<txs, srv, mem>> /\ wk[r].pc \notin Between
      BY <2>7, Zenon DEF Check, Recheck, Wait, Failure, Guard, Between
    <3>2. Leave(r) \/ \E pc \in PollPC \ (Between \cup {"wait"}) : Goto(r, pc)
      BY <2>7, Zenon DEF Check, Recheck, Wait, Failure, Guard, Between, PollPC
    <3> QED
      BY <1>2, <2>2, <2>3, <3>1, <3>2, Zenon
  <2>8. CASE Classify(r) \/ Reconcile(r) \/ Getter(r)
    <3>1. UNCHANGED <<txs, srv, mem>> /\ wk[r].pc \notin Between
      BY <2>8, Zenon DEF Classify, Reconcile, Getter, Between
    <3>2. Leave(r) \/ \E pc \in PollPC \ (Between \cup {"wait"}) : Goto(r, pc)
      BY <2>8, Zenon DEF Classify, Reconcile, Getter, Keep, Between, PollPC
    <3> QED
      BY <1>2, <2>2, <2>3, <3>1, <3>2
  <2>9. CASE Fulfil(r) \/ Report(r)
    <3>1. UNCHANGED <<txs, srv>> /\ wk[r].pc \notin Between
      BY <2>9, Zenon DEF Fulfil, Report, Between
    <3>2. Leave(r) \/ \E pc \in PollPC \ (Between \cup {"wait"}) : Goto(r, pc)
      BY <2>9, Zenon DEF Fulfil, Report, Between, PollPC
    <3>3. \A w \in Withdrawal : mem[w] # None => mem'[w] # None
      BY <1>9, MemKept, Zenon
    <3> QED
      BY <1>2, <2>2, <2>3, <3>1, <3>2, <3>3, Zenon
  <2>10. CASE Ask(r)
    <3>1. UNCHANGED <<txs, mem>> /\ wk[r].pc \notin Between /\ Goto(r, "await")
      BY <2>10, Zenon DEF Ask, Between
    <3>2. \A q \in Poll : Pc(q)' /\ Tx(q)'
      BY <2>3, <3>1, Zenon DEF PollPC, Between
    <3>3. \A h \in Handler : srv'[h] = srv[h] \/ srv'[h] = [pc |-> "get", w |-> wk[r].w, who |-> r]
      BY <2>10, Zenon DEF Ask, Shape
    <3>4. wk[r].w # None
      BY <1>0, <3>1, Zenon
    <3> QED
      BY <1>0, <3>1, <3>2, <3>3, <3>4 DEF Refunding
  <2>11. CASE Await(r)
    <3>1. UNCHANGED <<txs, mem>> /\ Leave(r)
      BY <2>11, Zenon DEF Await
    <3>2. \A h \in Handler : srv'[h] = IdleHandler \/ (srv'[h].pc = srv[h].pc /\ srv'[h].w = srv[h].w)
      <4>1. PICK g \in Handler : srv' = [srv EXCEPT ![g] = IdleHandler] \/ srv' = [srv EXCEPT ![g].who = None]
        BY <2>11, Zenon DEF Await
      <4>2. srv \in [Handler -> HandlerRec]
        BY Zenon DEF Shape
      <4> QED
        BY <4>1, <4>2 DEF HandlerRec
    <3>3. \A h \in Handler : srv[h].pc = "idle" => srv'[h] = IdleHandler
      BY <1>0, <2>11, BridgeAssumption DEF Await, Shape, IdleHandler
    <3> QED
      BY <1>0, <2>2, <3>1, <3>2, <3>3 DEF IdleHandler, Refunding
  <2> QED
    BY Zenon, <1>9, <2>4, <2>5, <2>6, <2>7, <2>8, <2>9, <2>10, <2>11 DEF PollStep
<1> HIDE DEF Pc, Tx, Hw, Hm
<1> QED
  BY Zenon, <1>1, <1>2, <1>3, <1>4, <1>5, <1>6, <1>7, <1>8, <1>9, Crashed DEF Next

(* The invariant holds initially.                                           *)
LEMMA BridgeInit ==
  ASSUME Init
  PROVE  Shape /\ Working /\ Contracts
<1>1. << >> \in Seq(TxRec) /\ DOMAIN << >> = {}
  OBVIOUS
<1>2. IdlePoll \in PollRec /\ IdleHandler \in HandlerRec
  BY Zenon DEF IdlePoll, IdleHandler, PollRec, HandlerRec, PollPC, HandlerPC
<1>3. Shape
  BY Zenon, <1>1, <1>2 DEF Init, Shape, Record
<1>4. Working
  BY <1>1, Zenon DEF Init, Working, IdlePoll, IdleHandler, Between, Refunding
<1>5. Contracts
  BY <1>1, Zenon DEF Init, Contracts
<1> QED
  BY <1>3, <1>4, <1>5, Zenon

(* The invariant survives stuttering.                                       *)
LEMMA BridgeStutter ==
  ASSUME UNCHANGED vars, Shape, Working, Contracts
  PROVE  Shape' /\ Working' /\ Contracts'
BY Zenon DEF vars, Shape, Working, Contracts

(* The inductive invariant: shapes, what polls and handlers work on, and    *)
(* the books of the contracts, under every fault and for any number of      *)
(* polls.                                                                   *)
THEOREM BridgeInvariant == Spec => [](Shape /\ Working /\ Contracts)
<1>1. Shape /\ Working /\ Contracts /\ [Next]_vars => (Shape /\ Working /\ Contracts)'
  BY ShapeStep, WorkingStep, ContractsStep, BridgeStutter, Zenon
<1> QED
  BY <1>1, BridgeInit, PTL DEF Spec

-----------------------------------------------------------------------------

(* While bridge_health reports a healthy store, relayer_payable_withdrawals *)
(* reads a list without a gap: every burned withdrawal has a record, if the *)
(* rebuild on a restart (rebuild_bridge_withdraw_store) can write what it   *)
(* adds.                                                                    *)
THEOREM HealthyListIsComplete ==
  ASSUME "io_init" \notin Faults
  PROVE  Spec => []ListIsComplete
<1> USE DEF daemon, files, base
<1>1. Init => ListIsComplete
  BY Zenon DEF Init, ListIsComplete, burned
<1>2. ASSUME Shape, Working, Contracts, ListIsComplete, [Next]_vars
      PROVE  ListIsComplete'
  <2>1. ASSUME UNCHANGED <<route, degraded>>, \A w \in Withdrawal : mem[w] # None => mem'[w] # None
        PROVE  ListIsComplete'
    BY <1>2, <2>1, Zenon DEF ListIsComplete, burned
  <2>2. Fresh # None
    BY BridgeAssumption DEF Fresh, Rec
  <2>3. ASSUME NEW w \in Withdrawal, Withdraw(w)
        PROVE  ListIsComplete'
    <3>1. \A v \in Withdrawal : mem[v] # None => mem'[v] # None
      BY <1>2, <2>3, MemKept, Zenon
    <3>2. degraded' \/ (mem'[w] = Fresh /\ degraded' = degraded)
      BY <1>2, <2>3, Zenon DEF Withdraw, Shape
    <3>3. \A v \in Withdrawal : route'[v] # None => v = w \/ route[v] # None
      BY <1>2, <2>3, Zenon DEF Withdraw, Shape
    <3> QED
      BY <1>2, <2>2, <3>1, <3>2, <3>3, Zenon DEF ListIsComplete, burned
  <2>4. ASSUME NEW file, Restart(file, burned')
        PROVE  ListIsComplete'
    <3>1. mem' = Rebuilt(file, burned' \ {})
      BY <2>4, Zenon DEF Restart
    <3>2. \A w \in burned' : w \in Withdrawal
      BY Zenon DEF burned
    <3> QED
      BY <2>2, <3>1, <3>2, Zenon DEF Rebuilt, ListIsComplete
  <2>5. ASSUME NEW w \in Withdrawal, ExecuteTimelock(w) \/ CancelTimelock(w) \/ Confirm(w)
        PROVE  ListIsComplete'
    BY <2>1, <2>5, Zenon DEF ExecuteTimelock, CancelTimelock, Confirm
  <2>6. ASSUME NEW i \in DOMAIN txs, Mine(i) \/ Revert(i) \/ Drop(i) \/ Reorg(i)
        PROVE  ListIsComplete'
    BY <2>1, <2>6, Zenon DEF Mine, Revert, Drop, Reorg
  <2>7. ASSUME NEW h \in Handler, HandlerStep(h)
        PROVE  ListIsComplete'
    <3>1. UNCHANGED <<route, degraded>>
      BY <2>7, Zenon DEF HandlerStep, RefundGet, RefundVault, RefundContains, RefundInsert, RefundMint, RefundStatus
    <3> QED
      BY <1>2, <2>1, <2>7, <3>1, MemKept, Zenon
  <2>8. ASSUME NEW r \in Poll, PollStep(r)
        PROVE  ListIsComplete'
    <3>1. UNCHANGED <<route, degraded>>
      BY Zenon, <2>8 DEF PollStep, Fetch, NextItem, Check, Send, Recheck, Wait, Classify, Reconcile, Getter,
                  Fulfil, Failure, Report, Guard, Ask, Await
    <3> QED
      BY <1>2, <2>1, <2>8, <3>1, MemKept, Zenon
  <2>9. CASE RelayerCrash \/ UNCHANGED vars
    BY <2>1, <2>9, Zenon DEF RelayerCrash, vars
  <2> QED
    BY Zenon, <1>2, <2>3, <2>4, <2>5, <2>6, <2>7, <2>8, <2>9, Crashed DEF Next
<1> QED
  BY <1>1, <1>2, BridgeInvariant, PTL DEF Spec

-----------------------------------------------------------------------------

(* the parts of the state speak of burned withdrawals only *)
Burnt ==
  /\ keys \subseteq burned /\ keyfile \subseteq burned
  /\ processed \subseteq burned /\ done \subseteq burned
  /\ \A i \in DOMAIN txs : txs[i].w \in burned
  /\ \A r \in Poll : wk[r].list \subseteq burned /\ wk[r].w \in burned \cup {None}
  /\ \A h \in Handler : srv[h].w \in burned \cup {None}
  /\ \A w \in Withdrawal \ burned : mem[w] = None /\ disk[w] = None /\ queued[w] = None

(* A stored block with a withdrawal adds it to the burned ones.             *)
LEMMA BurntWithdraw ==
  ASSUME Shape, Burnt, NEW w \in Withdrawal, Withdraw(w)
  PROVE  Burnt'
<1> USE DEF base, files
<1>1. burned \subseteq burned' /\ w \in burned'
  BY Burning, Zenon DEF Withdraw
<1>2. \A v \in Withdrawal \ burned' : mem'[v] = None /\ disk'[v] = None
  <2>1. \A v \in Withdrawal \ burned' : mem'[v] = mem[v]
    BY <1>1 DEF Withdraw, Shape
  <2>2. disk' \in {disk, mem', Unreadable}
    BY Zenon DEF Withdraw, Persisted, PersistFails
  <2> QED
    BY <1>1, <2>1, <2>2, UnreadableFile, Zenon DEF Burnt
<1> QED
  BY <1>1, <1>2, Zenon DEF Withdraw, Burnt

(* No step makes the daemon, Base or the relayer know a withdrawal that was *)
(* not burned.                                                              *)
LEMMA BurntStep ==
  ASSUME Shape, Working, Contracts, Burnt, Next
  PROVE  Burnt'
<1> USE DEF base, files, daemon
<1>1. ASSUME NEW w \in Withdrawal, ExecuteTimelock(w) \/ CancelTimelock(w) \/ Confirm(w)
      PROVE  Burnt'
  BY <1>1, Zenon DEF ExecuteTimelock, CancelTimelock, Confirm, Burnt, burned
<1>2. ASSUME NEW i \in DOMAIN txs, Mine(i) \/ Revert(i) \/ Drop(i) \/ Reorg(i)
      PROVE  Burnt'
  <2>1. PICK st \in {"pending", "ok", "reverted", "dropped"} : txs' = [txs EXCEPT ![i].st = st]
    BY <1>2, Zenon DEF Mine, Revert, Drop, Reorg
  <2>2. DOMAIN txs' = DOMAIN txs /\ \A j \in DOMAIN txs : txs'[j].w = txs[j].w
    BY <2>1, TxFacts, TxUpdate
  <2>3. processed' \subseteq processed \cup {txs[i].w}
    BY <1>2, Zenon DEF Mine, Revert, Drop, Reorg
  <2>4. UNCHANGED <<daemon, wk, files>>
    BY <1>2, Zenon DEF Mine, Revert, Drop, Reorg
  <2> QED
    BY <2>2, <2>3, <2>4, Zenon DEF Burnt, burned
<1>3. ASSUME NEW h \in Handler, HandlerStep(h)
      PROVE  Burnt'
  <2>1. UNCHANGED <<route, base, wk, files>>
    BY <1>3, Zenon DEF HandlerStep, RefundGet, RefundVault, RefundContains, RefundInsert, RefundMint, RefundStatus
  <2>2. burned' = burned
    BY <2>1, Zenon DEF burned
  <2>3. srv[h].w \in Withdrawal /\ srv[h].w \in burned
    BY <1>3 DEF Burnt, Working, Shape, HandlerRec, HandlerStep, RefundGet, RefundVault, RefundContains,
                RefundInsert, RefundMint, RefundStatus
  <2>4. keys' \subseteq burned /\ keyfile' \subseteq burned
    BY <1>3, <2>3, Zenon DEF Burnt, HandlerStep, RefundGet, RefundVault, RefundContains, RefundInsert,
                      RefundMint, RefundStatus
  <2>5. \A g \in Handler : srv'[g].w \in {srv[g].w, None}
    <3>1. \E pc \in HandlerPC : At(h, pc) \/ Answer(h, pc)
      BY <1>3, Zenon DEF HandlerStep, RefundGet, RefundVault, RefundContains, RefundInsert, RefundMint,
                  RefundStatus, HandlerPC
    <3>2. srv \in [Handler -> HandlerRec]
      BY Zenon DEF Shape
    <3> QED
      BY <3>1, <3>2 DEF At, Answer, HandlerRec, IdleHandler
  <2>6. \A v \in Withdrawal \ burned : mem'[v] = None /\ disk'[v] = None
    <3>1. mem' = mem \/ \E st \in {"fulfilled", "refunded"} : mem' = [mem EXCEPT ![srv[h].w].st = st]
      BY <1>3, Zenon DEF HandlerStep, RefundGet, RefundVault, RefundContains, RefundInsert, RefundMint, RefundStatus
    <3>2. disk' \in {disk, mem', Unreadable}
      BY <1>3, Zenon DEF HandlerStep, RefundGet, RefundVault, RefundContains, RefundInsert, RefundMint,
                  RefundStatus, Persisted, PersistFails
    <3>3. \A v \in Withdrawal \ burned : mem'[v] = mem[v]
      BY <2>3, <3>1 DEF Shape
    <3> QED
      BY <3>2, <3>3, UnreadableFile, Zenon DEF Burnt
  <2> QED
    BY Zenon, <2>1, <2>2, <2>4, <2>5, <2>6 DEF Burnt
<1>4. ASSUME NEW file, Restart(file, burned'), burned \subseteq burned',
             \A v \in Withdrawal \ burned : file[v] = None
      PROVE  Burnt'
  <2>1. UNCHANGED <<keyfile, base, wk, files>> /\ keys' = keyfile
    BY <1>4, Zenon DEF Restart
  <2>2. \A v \in Withdrawal \ burned' : mem'[v] = None /\ disk'[v] = None
    BY <1>4, Zenon DEF Restart, Rebuilt
  <2>3. \A h \in Handler : srv'[h].w \in {srv[h].w, None}
    BY <1>4 DEF Restart, Shape, HandlerRec, IdleHandler
  <2> QED
    BY <1>4, <2>1, <2>2, <2>3, Zenon DEF Burnt
<1>5. CASE Crash \/ CrashInPersist
  BY <1>4, <1>5, Crashed, UnreadableFile, Zenon DEF Burnt
<1>6. CASE RelayerCrash
  <2>1. UNCHANGED <<route, mem, disk, keys, keyfile, base, files>> /\ burned' = burned
    BY <1>6, Zenon DEF RelayerCrash, burned
  <2>2. \A r \in Poll : wk'[r].list = {} /\ wk'[r].w = None
    BY <1>6, Zenon DEF RelayerCrash, IdlePoll
  <2>3. \A h \in Handler : srv'[h].w \in {srv[h].w, None}
    BY <1>6, Zenon DEF RelayerCrash, Shape, HandlerRec, IdleHandler
  <2> QED
    BY <2>1, <2>2, <2>3, Zenon DEF Burnt
<1>7. ASSUME NEW r \in Poll, PollStep(r)
      PROVE  Burnt'
  <2>1. UNCHANGED <<route, keys, keyfile, processed>> /\ burned' = burned
    BY Zenon, <1>7 DEF PollStep, Fetch, NextItem, Check, Send, Recheck, Wait, Classify, Reconcile, Getter,
                Fulfil, Failure, Report, Guard, Ask, Await, burned
  <2>2. wk \in [Poll -> PollRec] /\ wk[r] \in PollRec
    BY Zenon DEF Shape
  <2>3. wk[r].pc \notin Between => wk[r].w \in burned /\ wk[r].w \in Withdrawal
    BY <2>2, Zenon DEF Burnt, Working, PollRec
  <2>4. ASSUME Leave(r) \/ \E pc \in PollPC : Goto(r, pc)
        PROVE  \A q \in Poll : wk'[q].list = wk[q].list /\ wk'[q].w \in {wk[q].w, None}
    BY <2>2, <2>4 DEF Leave, Goto, PollRec
  <2>5. CASE Fetch(r)
    <3>1. Listed(r) \subseteq burned
      BY Zenon DEF Listed, Payable, Burnt
    <3>2. /\ \A q \in Poll \ {r} : wk'[q] = wk[q]
          /\ wk'[r].list = Listed(r) /\ wk'[r].w = None
      BY <2>2, <2>5, Zenon DEF Fetch, IdlePoll
    <3>3. \A q \in Poll : wk'[q].list \subseteq burned /\ wk'[q].w \in burned \cup {None}
      BY <3>1, <3>2, Zenon DEF Burnt
    <3>4. UNCHANGED <<txs, srv, mem, disk, files>>
      BY <2>5, Zenon DEF Fetch
    <3> QED
      BY <2>1, <3>3, <3>4, Zenon DEF Burnt
  <2>6. CASE NextItem(r)
    <3>1. Queued(r) \subseteq burned
      BY BridgeAssumption, Zenon DEF Burnt, Queued
    <3>2. \A q \in Poll \ {r} : wk'[q] = wk[q]
      BY Zenon, <2>2, <2>6 DEF NextItem
    <3>3. /\ wk'[r].list \subseteq wk[r].list \cup Queued(r)
          /\ wk'[r].w \in wk[r].list \cup {None, wk[r].w}
      <4> DEFINE Goal == /\ wk'[r].list \subseteq wk[r].list \cup Queued(r)
                         /\ wk'[r].w \in wk[r].list \cup {None, wk[r].w}
      <4>1. ASSUME NEW v \in wk[r].list,
                   wk' = [wk EXCEPT ![r].list = @ \ {v},
                           ![r].w = IF wk[r].loop = "list" /\ Skipped(r, v) THEN None ELSE v,
                           ![r].pc = IF wk[r].loop = "queue" THEN "getter"
                                     ELSE IF Skipped(r, v) THEN "next" ELSE "check"]
            PROVE  Goal
        <5>1. /\ wk'[r].w = IF wk[r].loop = "list" /\ Skipped(r, v) THEN None ELSE v
              /\ wk'[r].list = wk[r].list \ {v}
          BY <2>2, <4>1, Zenon DEF PollRec
        <5> QED
          BY <5>1, Zenon
      <4>2. ASSUME wk' = [wk EXCEPT ![r].loop = "queue", ![r].list = Queued(r)]
            PROVE  Goal
        BY <2>2, <4>2, Zenon DEF PollRec
      <4>3. ASSUME wk' = [wk EXCEPT ![r] = IdlePoll]
            PROVE  Goal
        BY <2>2, <4>3, Zenon DEF IdlePoll
      <4> HIDE DEF Goal
      <4>4. Goal
        BY Zenon, <2>6, <4>1, <4>2, <4>3 DEF NextItem
      <4> QED
        BY <4>4, Zenon DEF Goal
    <3> QED
      BY Zenon, <2>1, <2>6, <3>1, <3>2, <3>3 DEF NextItem, Burnt
  <2>7. CASE Check(r) \/ Recheck(r) \/ Wait(r) \/ Failure(r) \/ Guard(r)
    <3>1. Leave(r) \/ \E pc \in PollPC : Goto(r, pc)
      BY <2>7, Zenon DEF Check, Recheck, Wait, Failure, Guard, PollPC
    <3>2. UNCHANGED <<txs, srv, mem, disk, files>>
      BY <2>7, Zenon DEF Check, Recheck, Wait, Failure, Guard
    <3> QED
      BY <2>1, <2>4, <3>1, <3>2, Zenon DEF Burnt
  <2>8. CASE Send(r)
    <3>1. wk[r].w \in burned /\ wk[r].w \in Withdrawal
      BY <2>3, <2>8, Zenon DEF Send, Between
    <3>2. \A i \in DOMAIN txs' : txs'[i].w \in burned
      <4>1. CASE txs' = txs
        BY <4>1, Zenon DEF Burnt
      <4>2. CASE Sent(wk[r].w)
        <5>1. /\ DOMAIN txs' = DOMAIN txs \cup {Len(txs) + 1}
              /\ txs'[Len(txs) + 1].w = wk[r].w /\ \A j \in DOMAIN txs : txs'[j] = txs[j]
          BY <3>1, <4>2, TxFacts, TxAppend DEF Sent
        <5> QED
          BY <3>1, <5>1, Zenon DEF Burnt
      <4> QED
        BY <2>8, <4>1, <4>2, Zenon DEF Send
    <3>3. \A q \in Poll : wk'[q].list = wk[q].list /\ wk'[q].w = wk[q].w
      BY <2>2, <2>8 DEF Send, Goto, PollRec
    <3>4. UNCHANGED <<srv, mem, disk, files>>
      BY <2>8, Zenon DEF Send
    <3> QED
      BY <2>1, <3>2, <3>3, <3>4, Zenon DEF Burnt
  <2>9. CASE Classify(r) \/ Reconcile(r) \/ Getter(r)
    <3>1. wk[r].w \in burned /\ wk[r].w \in Withdrawal
      BY <2>3, <2>9, Zenon DEF Classify, Reconcile, Getter, Between
    <3>2. Leave(r) \/ \E pc \in PollPC : Goto(r, pc)
      BY <2>9, Zenon DEF Classify, Reconcile, Getter, Keep, PollPC
    <3>3. \A w \in Withdrawal \ burned : queued'[w] = queued[w]
      BY <2>9, <3>1, Zenon DEF Classify, Reconcile, Getter, Keep, Shape
    <3>4. UNCHANGED <<txs, srv, mem, disk, done>>
      BY Zenon, <2>9 DEF Classify, Reconcile, Getter
    <3> QED
      BY <2>1, <2>4, <3>2, <3>3, <3>4, Zenon DEF Burnt
  <2>10. CASE Fulfil(r)
    <3>1. wk[r].w \in burned /\ wk[r].w \in Withdrawal
      BY <2>3, <2>10, Zenon DEF Fulfil, Between
    <3>2. Leave(r) /\ UNCHANGED <<txs, srv>>
      BY <2>10, Zenon DEF Fulfil
    <3>3. \A w \in Withdrawal \ burned : mem'[w] = mem[w] /\ queued'[w] = queued[w]
      BY <2>10, <3>1, Zenon DEF Fulfil, MarkFulfilled, Shape
    <3>4. (disk' \in {disk, mem', Unreadable}) /\ done' \subseteq burned
      BY <2>10, <3>1, Zenon DEF Fulfil, Persisted, PersistFails, Burnt
    <3> QED
      BY Zenon, <2>1, <2>4, <3>2, <3>3, <3>4, UnreadableFile DEF Burnt
  <2>11. CASE Report(r)
    <3>1. wk[r].w \in burned /\ wk[r].w \in Withdrawal
      BY <2>3, <2>11, Zenon DEF Report, Between
    <3>2. (Leave(r) \/ \E pc \in PollPC : Goto(r, pc)) /\ UNCHANGED <<txs, srv, files>>
      BY <2>11, Zenon DEF Report, PollPC
    <3>3. \A w \in Withdrawal \ burned : mem'[w] = mem[w]
      BY <2>11, <3>1, Zenon DEF Report, RecordAttempt, Shape
    <3>4. disk' \in {disk, mem', Unreadable}
      BY <2>11, Zenon DEF Report, Persisted, PersistFails
    <3> QED
      BY <2>1, <2>4, <3>2, <3>3, <3>4, UnreadableFile, Zenon DEF Burnt
  <2>12. CASE Ask(r)
    <3>1. wk[r].w \in burned
      BY <2>3, <2>12, Zenon DEF Ask, Between
    <3>2. Goto(r, "await") /\ UNCHANGED <<txs, mem, disk, files>>
      BY <2>12, Zenon DEF Ask
    <3>3. \A h \in Handler : srv'[h].w \in {srv[h].w, wk[r].w}
      BY <2>12 DEF Ask, Shape
    <3>4. \E pc \in PollPC : Goto(r, pc)
      BY <3>2, Zenon DEF PollPC
    <3> QED
      BY <2>1, <2>4, <3>1, <3>2, <3>3, <3>4, Zenon DEF Burnt
  <2>13. CASE Await(r)
    <3>1. Leave(r) /\ UNCHANGED <<txs, mem, disk, queued>> /\ wk[r].pc = "await"
      BY <2>13, Zenon DEF Await
    <3>2. done' \subseteq done \cup {wk[r].w} /\ wk[r].w \in burned
      BY <2>3, <2>13, <3>1, Zenon DEF Await, Between
    <3>3. PICK g \in Handler : srv' = [srv EXCEPT ![g] = IdleHandler] \/ srv' = [srv EXCEPT ![g].who = None]
      BY <2>13, Zenon DEF Await
    <3>4. \A h \in Handler : srv'[h].w \in {srv[h].w, None}
      <4>1. srv \in [Handler -> HandlerRec]
        BY Zenon DEF Shape
      <4> QED
        BY <3>3, <4>1 DEF HandlerRec, IdleHandler
    <3> QED
      BY <2>1, <2>4, <3>1, <3>2, <3>4, Zenon DEF Burnt
  <2> QED
    BY <1>7, <2>5, <2>6, <2>7, <2>8, <2>9, <2>10, <2>11, <2>12, <2>13, Zenon DEF PollStep
<1> QED
  BY <1>1, <1>2, <1>3, <1>5, <1>6, <1>7, BurntWithdraw, Zenon DEF Next

(* Type correctness: every part of the bridge keeps its shape, speaks only  *)
(* of withdrawals burned in a block, and a poll of the relayer waits for a  *)
(* release it sent itself.                                                  *)
THEOREM BridgeTypes == Spec => []TypeOK
<1>1. Init => Burnt
  <2>1. DOMAIN << >> = {}
    OBVIOUS
  <2> QED
    BY <2>1 DEF Init, Burnt, IdlePoll, IdleHandler
<1>2. Burnt /\ UNCHANGED vars => Burnt'
  BY Zenon DEF Burnt, burned, vars
<1>3. Shape /\ Working /\ Contracts /\ Burnt /\ [Next]_vars => Burnt'
  BY <1>2, BurntStep, Zenon
<1>4. ASSUME Shape, Working, Contracts, Burnt
      PROVE  TypeOK
  <2>1. \A i \in DOMAIN txs : txs[i] \in [w : burned, st : {"pending", "ok", "reverted", "dropped"}]
    BY <1>4, TxFacts, Zenon DEF TxRec, Burnt
  <2>2. deep \subseteq processed
    BY <1>4, SMTT(30) DEF Contracts, Shape
  <2>3. \A r \in Poll : wk[r].pc \in PollPC /\ wk[r].loop \in {"list", "queue"}
    BY <1>4, Zenon DEF Shape, PollRec
  <2> QED
    BY <1>4, <2>1, <2>2, <2>3, Zenon DEF Shape, Working, Burnt, TypeOK, Between, HandlerRec
<1> QED
  BY <1>1, <1>3, <1>4, BridgeInvariant, PTL DEF Spec
-----------------------------------------------------------------------------
(* a loop of the relayer works on the withdrawals of its feed *)
Fed ==
  \A r \in Poll :
    /\ \A w \in wk[r].list : w \in burned /\ route[w] \in Feed[r]
    /\ wk[r].pc \notin Between => wk[r].w \in burned /\ route[wk[r].w] \in Feed[r]

(* What a step of a loop does to its list and to its withdrawal, and that   *)
(* it leaves the other loops alone.                                         *)
LEMMA PollMoves ==
  ASSUME Shape, Working, NEW r \in Poll, PollStep(r)
  PROVE  /\ \A q \in Poll \ {r} : wk'[q] = wk[q]
         /\ wk'[r].list \subseteq wk[r].list \cup Listed(r) \cup Queued(r)
         /\ wk'[r].pc \notin Between =>
              wk'[r].w \in wk[r].list \/ (wk[r].pc \notin Between /\ wk'[r].w = wk[r].w)
         /\ route' = route
<1> USE DEF base, files, daemon
<1> DEFINE Others == \A q \in Poll \ {r} : wk'[q] = wk[q]
           List == wk'[r].list \subseteq wk[r].list \cup Listed(r) \cup Queued(r)
           Item == wk'[r].pc \notin Between =>
                     wk'[r].w \in wk[r].list \/ (wk[r].pc \notin Between /\ wk'[r].w = wk[r].w)
<1>1. wk \in [Poll -> PollRec] /\ wk[r] \in PollRec
  BY Zenon DEF Shape
<1>2. ASSUME Leave(r)
      PROVE  Others /\ List /\ Item
  <2>1. wk'[r] = [wk[r] EXCEPT !.pc = "next", !.w = None, !.tx = 0] /\ Others
    BY <1>2, WkShape, Zenon
  <2>2. wk'[r].list = wk[r].list /\ wk'[r].pc = "next"
    BY <1>1, <2>1, Zenon DEF PollRec
  <2> QED
    BY <2>1, <2>2, Zenon DEF Between
<1>3. ASSUME NEW pc \in PollPC, Goto(r, pc), wk[r].pc \notin Between
      PROVE  Others /\ List /\ Item
  <2>1. wk'[r] = [wk[r] EXCEPT !.pc = pc] /\ Others
    BY <1>3, WkShape, Zenon
  <2>2. wk'[r].list = wk[r].list /\ wk'[r].w = wk[r].w
    BY <1>1, <2>1, Zenon DEF PollRec
  <2> QED
    BY <1>3, <2>1, <2>2, Zenon
<1>4. CASE Fetch(r)
  <2>1. wk'[r].list = Listed(r) /\ wk'[r].pc = "next" /\ Others
    BY <1>1, <1>4, Zenon DEF Fetch, IdlePoll
  <2> QED
    BY <1>4, <2>1, Zenon DEF Fetch, Between
<1>5. CASE NextItem(r)
  <2>1. ASSUME NEW v \in wk[r].list,
               wk' = [wk EXCEPT ![r].list = @ \ {v},
                       ![r].w = IF wk[r].loop = "list" /\ Skipped(r, v) THEN None ELSE v,
                       ![r].pc = IF wk[r].loop = "queue" THEN "getter"
                                 ELSE IF Skipped(r, v) THEN "next" ELSE "check"]
        PROVE  Others /\ List /\ Item
    <3>1. /\ wk'[r].w = IF wk[r].loop = "list" /\ Skipped(r, v) THEN None ELSE v
          /\ wk'[r].pc = IF wk[r].loop = "queue" THEN "getter"
                         ELSE IF Skipped(r, v) THEN "next" ELSE "check"
          /\ wk'[r].list = wk[r].list \ {v} /\ wk[r].loop \in {"list", "queue"}
      BY <1>1, <2>1, Zenon DEF PollRec
    <3>2. Others
      BY <1>1, <2>1, Zenon
    <3>3. wk'[r].pc \notin Between => wk'[r].w = v
      BY <3>1, Zenon DEF Between
    <3> QED
      BY <3>1, <3>2, <3>3, Zenon
  <2>2. ASSUME wk' = [wk EXCEPT ![r].loop = "queue", ![r].list = Queued(r)], wk[r].pc = "next"
        PROVE  Others /\ List /\ Item
    <3>1. wk'[r].list = Queued(r) /\ wk'[r].pc = "next"
      BY <1>1, <2>2, Zenon DEF PollRec
    <3>2. Others
      BY <1>1, <2>2, Zenon
    <3> QED
      BY <3>1, <3>2, Zenon DEF Between
  <2>3. ASSUME wk' = [wk EXCEPT ![r] = IdlePoll]
        PROVE  Others /\ List /\ Item
    BY <1>1, <2>3, Zenon DEF IdlePoll, Between
  <2> HIDE DEF Others, List, Item
  <2>4. (Others /\ List /\ Item) /\ route' = route
    BY Zenon, <1>5, <2>1, <2>2, <2>3 DEF NextItem
  <2> QED
    BY <2>4, Zenon DEF Others, List, Item
<1>6. CASE Send(r)
  <2>1. /\ wk'[r].w = wk[r].w /\ wk'[r].list = wk[r].list /\ wk[r].pc = "send"
    BY <1>1, <1>6 DEF Send, Goto, PollRec
  <2>2. Others /\ route' = route
    BY Zenon, <1>1, <1>6 DEF Send, Goto
  <2> QED
    BY <2>1, <2>2, Zenon DEF Between
<1>7. CASE \/ Check(r) \/ Recheck(r) \/ Wait(r) \/ Classify(r) \/ Reconcile(r) \/ Getter(r)
           \/ Fulfil(r) \/ Failure(r) \/ Report(r) \/ Guard(r) \/ Ask(r) \/ Await(r)
  <2>1. wk[r].pc \notin Between /\ route' = route
    BY Zenon, <1>7 DEF Check, Recheck, Wait, Classify, Reconcile, Getter, Fulfil, Failure, Report,
                Guard, Ask, Await, Between
  <2>2. Leave(r) \/ \E pc \in PollPC : Goto(r, pc)
    BY Zenon, <1>7 DEF Check, Recheck, Wait, Classify, Reconcile, Getter, Fulfil, Failure, Report,
                Guard, Ask, Await, Keep, PollPC
  <2> HIDE DEF Others, List, Item
  <2>3. Others /\ List /\ Item
    BY <1>2, <1>3, <2>1, <2>2, Zenon
  <2> QED
    BY <2>1, <2>3, Zenon DEF Others, List, Item
<1> QED
  BY <1>4, <1>5, <1>6, <1>7, Zenon DEF PollStep

(* A withdrawal keeps its route, so a loop stays within its feed.           *)
LEMMA FedStep ==
  ASSUME Shape, Working, Contracts, Fed, [Next]_vars
  PROVE  Fed'
<1> USE DEF base, files, daemon
<1>1. ASSUME UNCHANGED wk, \A v \in burned : v \in burned' /\ route'[v] = route[v]
      PROVE  Fed'
  BY <1>1, Zenon DEF Fed
<1>2. ASSUME UNCHANGED <<wk, route>>
      PROVE  Fed'
  BY <1>2, Zenon DEF Fed, burned
<1>3. ASSUME NEW w \in Withdrawal, Withdraw(w)
      PROVE  Fed'
  BY <1>1, <1>3, Burning, Zenon DEF Withdraw
<1>4. CASE Crash \/ CrashInPersist
  BY <1>1, <1>4, Crashed, Zenon DEF Restart
<1>5. CASE RelayerCrash
  <2>1. \A r \in Poll : wk'[r].list = {} /\ wk'[r].pc = "idle"
    BY <1>5, Zenon DEF RelayerCrash, IdlePoll
  <2> QED
    BY <2>1, Zenon DEF Fed, Between
<1>6. ASSUME NEW r \in Poll, PollStep(r)
      PROVE  Fed'
  <2>1. /\ \A q \in Poll \ {r} : wk'[q] = wk[q]
        /\ wk'[r].list \subseteq wk[r].list \cup Listed(r) \cup Queued(r)
        /\ wk'[r].pc \notin Between =>
             wk'[r].w \in wk[r].list \/ (wk[r].pc \notin Between /\ wk'[r].w = wk[r].w)
        /\ route' = route
    BY <1>6, PollMoves, Zenon
  <2>2. \A w \in Listed(r) \cup Queued(r) : w \in burned /\ route[w] \in Feed[r]
    BY BridgeAssumption, Zenon DEF Listed, Queued, Payable, burned
  <2>3. burned' = burned
    BY <2>1, Zenon DEF burned
  <2> QED
    BY <2>1, <2>2, <2>3, Zenon DEF Fed
<1>7. ASSUME NEW w \in Withdrawal, ExecuteTimelock(w) \/ CancelTimelock(w) \/ Confirm(w)
      PROVE  Fed'
  BY <1>2, <1>7, Zenon DEF ExecuteTimelock, CancelTimelock, Confirm
<1>8. ASSUME NEW i \in DOMAIN txs, Mine(i) \/ Revert(i) \/ Drop(i) \/ Reorg(i)
      PROVE  Fed'
  BY <1>2, <1>8, Zenon DEF Mine, Revert, Drop, Reorg
<1>9. ASSUME NEW h \in Handler, HandlerStep(h)
      PROVE  Fed'
  <2>1. UNCHANGED <<wk, route>>
    BY <1>9, Zenon DEF HandlerStep, RefundGet, RefundVault, RefundContains, RefundInsert, RefundMint, RefundStatus
  <2> QED
    BY <1>2, <2>1, Zenon
<1>10. CASE UNCHANGED vars
  BY <1>2, <1>10, Zenon DEF vars
<1> QED
  BY <1>3, <1>4, <1>5, <1>6, <1>7, <1>8, <1>9, <1>10, Zenon DEF Next

(***************************************************************************)
(* A withdrawal is settled once, on one chain: for any number of           *)
(* withdrawals, any threshold and any faults, as long as polls do not      *)
(* overlap, Base has decided a release when the relayer gives it up, and   *)
(* the daemon decides a refund within the relayer's timeout.  The EVM and  *)
(* the XRGE loop of a poll run side by side.                               *)
(***************************************************************************)

(* Loops that run at once have different feeds, so polls do not overlap; a  *)
(* release is decided when it is given up, a refund within the timeout      *)
Orderly ==
  /\ \A p, q \in Poll : p # q => Feed[p] \cap Feed[q] = {}
  /\ "late" \notin Faults /\ "slow" \notin Faults

(* no release of the withdrawal has paid, and none can any more *)
Dead(w) ==
  /\ w \notin processed
  /\ \A i \in DOMAIN txs : txs[i].w = w => txs[i].st \in {"reverted", "dropped"}

GivenUp == {"report", "guard", "ask", "await"}
Sending == {"check", "send", "recheck"}

(* A poll gives up only what is dead, and sends only what was not minted    *)
PollInv ==
  \A r \in Poll :
    /\ wk[r].pc \in GivenUp => Dead(wk[r].w)
    /\ wk[r].pc \notin Between => wk[r].w \notin wk[r].list
    /\ wk[r].pc \in Sending => mints[wk[r].w] = 0
    /\ wk[r].loop = "list" => \A w \in wk[r].list : mints[w] = 0

(* A loop has one refund request at a time, for the withdrawal it waits     *)
(* for; the nullifier is on disk before the mint                            *)
HandlerInv ==
  /\ \A h \in Handler : srv[h].pc # "idle" =>
       /\ srv[h].who \in Poll
       /\ wk[srv[h].who].pc = "await" /\ wk[srv[h].who].w = srv[h].w
  /\ \A h, g \in Handler :
       srv[h].pc # "idle" /\ srv[g].pc # "idle" /\ srv[h].who = srv[g].who => h = g
  /\ \A h \in Handler : srv[h].pc \in {"reserve", "mint"} => mints[srv[h].w] = 0
  /\ \A h \in Handler : srv[h].pc = "mint" => srv[h].w \in keys \cap keyfile

(* A mint is the only one, its nullifier is in memory and on disk, and Base *)
(* will not pay                                                             *)
MintInv ==
  \A w \in Withdrawal : mints[w] # 0 =>
    mints[w] = 1 /\ w \in keys /\ w \in keyfile /\ Dead(w)

(* Only deep payments are booked, in memory and in the file *)
FulfilInv ==
  \A w \in Withdrawal :
    /\ mem[w] # None /\ mem[w].st = "fulfilled" => w \in deep
    /\ disk[w] # None /\ disk[w].st = "fulfilled" => w \in deep

RInv == PollInv /\ HandlerInv /\ MintInv /\ FulfilInv

-----------------------------------------------------------------------------

(* Two loops that run at once work on different withdrawals.                *)
LEMMA LoopsApart ==
  ASSUME Orderly, Fed, NEW p \in Poll, NEW q \in Poll, p # q, wk[p].pc \notin Between
  PROVE  /\ wk[p].w \notin wk[q].list
         /\ wk[q].pc \notin Between => wk[q].w # wk[p].w
<1>1. Feed[p] \cap Feed[q] = {}
  BY Zenon DEF Orderly
<1>2. route[wk[p].w] \in Feed[p] /\ route[wk[p].w] \notin Feed[q]
  BY <1>1, Zenon DEF Fed
<1> QED
  BY <1>2, Zenon DEF Fed

(* Base cannot revive a release that was given up.                          *)
LEMMA BaseRefund ==
  ASSUME Shape, Working, Contracts, RInv,
         \/ \E w \in Withdrawal : ExecuteTimelock(w) \/ CancelTimelock(w) \/ Confirm(w)
         \/ \E i \in DOMAIN txs : Mine(i) \/ Revert(i) \/ Drop(i) \/ Reorg(i)
  PROVE  RInv'
<1> USE DEF daemon, files
<1>1. UNCHANGED <<wk, srv, mints, keys, keyfile, mem, disk>>
  BY Zenon DEF ExecuteTimelock, CancelTimelock, Confirm, Mine, Revert, Drop, Reorg
<1>2. deep \subseteq deep'
  BY Zenon DEF ExecuteTimelock, CancelTimelock, Confirm, Mine, Revert, Drop, Reorg
<1>3. \A w \in Withdrawal : Dead(w) => Dead(w)'
  <2>1. ASSUME NEW v \in Withdrawal, ExecuteTimelock(v) \/ CancelTimelock(v) \/ Confirm(v)
        PROVE  UNCHANGED <<processed, txs>>
    BY <2>1, Zenon DEF ExecuteTimelock, CancelTimelock, Confirm
  <2>2. ASSUME NEW i \in DOMAIN txs, Mine(i) \/ Revert(i) \/ Drop(i) \/ Reorg(i),
               NEW w \in Withdrawal, Dead(w)
        PROVE  Dead(w)'
    <3>0. txs \in Seq(TxRec)
      BY TxFacts, Zenon
    <3>1. CASE Mine(i)
      <4>1. txs[i].w # w
        BY <2>2, <3>1, Zenon DEF Dead, Mine
      <4>2. DOMAIN txs' = DOMAIN txs /\ \A j \in DOMAIN txs : txs'[j].w = txs[j].w /\ (j # i => txs'[j] = txs[j])
        BY <3>0, <3>1, TxUpdate DEF Mine
      <4>3. processed' = processed \cup {txs[i].w}
        BY <3>1, Zenon DEF Mine
      <4> QED
        BY <2>2, <4>1, <4>2, <4>3, Zenon DEF Dead
    <3>2. CASE Reorg(i)
      <4>1. txs[i].w # w
        BY <2>2, <3>2, Zenon DEF Dead, Reorg
      <4>2. DOMAIN txs' = DOMAIN txs /\ \A j \in DOMAIN txs : txs'[j].w = txs[j].w /\ (j # i => txs'[j] = txs[j])
        BY <3>0, <3>2, TxUpdate DEF Reorg
      <4>3. processed' = processed \ {txs[i].w}
        BY <3>2, Zenon DEF Reorg
      <4> QED
        BY <2>2, <4>1, <4>2, <4>3, Zenon DEF Dead
    <3>3. CASE Revert(i)
      <4>1. DOMAIN txs' = DOMAIN txs /\ txs'[i].st = "reverted"
            /\ \A j \in DOMAIN txs : txs'[j].w = txs[j].w /\ (j # i => txs'[j] = txs[j])
        BY Zenon, <3>0, <3>3, TxUpdate DEF Revert
      <4>2. processed' = processed
        BY <3>3, Zenon DEF Revert
      <4> QED
        BY <2>2, <4>1, <4>2, Zenon DEF Dead
    <3>4. CASE Drop(i)
      <4>1. DOMAIN txs' = DOMAIN txs /\ txs'[i].st = "dropped"
            /\ \A j \in DOMAIN txs : txs'[j].w = txs[j].w /\ (j # i => txs'[j] = txs[j])
        BY Zenon, <3>0, <3>4, TxUpdate DEF Drop
      <4>2. processed' = processed
        BY <3>4, Zenon DEF Drop
      <4> QED
        BY <2>2, <4>1, <4>2, Zenon DEF Dead
    <3> QED
      BY <2>2, <3>1, <3>2, <3>3, <3>4, Zenon
  <2> QED
    BY <2>1, <2>2, Zenon DEF Dead
<1>4. \A r \in Poll : wk[r].pc \in GivenUp => wk[r].w \in Withdrawal
  BY Zenon DEF Working, Shape, PollRec, GivenUp, Between
<1>5. PollInv'
  BY <1>1, <1>3, <1>4, Zenon DEF RInv, PollInv
<1>6. HandlerInv'
  BY <1>1, Zenon DEF RInv, HandlerInv
<1>7. MintInv'
  BY <1>1, <1>3, Zenon DEF RInv, MintInv
<1>8. FulfilInv'
  BY <1>1, <1>2, Zenon DEF RInv, FulfilInv
<1> QED
  BY <1>5, <1>6, <1>7, <1>8, Zenon DEF RInv

(* Crashes of daemon and relayer, an unreadable bridge_withdrawals.json     *)
(* included, keep the invariant: the nullifier of a minted refund is on     *)
(* disk.                                                                    *)
LEMMA CrashRefund ==
  ASSUME Shape, Working, Contracts, RInv, Orderly,
         (\E w \in Withdrawal : Withdraw(w)) \/ Crash \/ CrashInPersist \/ RelayerCrash
  PROVE  RInv'
<1> USE DEF base, files
<1>1. UNCHANGED <<mints, keyfile, processed, txs, deep>>
  BY Zenon DEF Withdraw, Crash, CrashInPersist, RelayerCrash, Restart
<1>2. \A w \in Withdrawal : Dead(w)' <=> Dead(w)
  BY <1>1, Zenon DEF Dead
<1>3. Fresh # None /\ Fresh.st = "pending"
  BY BridgeAssumption DEF Fresh, Rec
<1>4. \A r \in Poll : wk[r].pc \in GivenUp => wk[r].w \in Withdrawal
  BY Zenon DEF Working, Shape, PollRec, GivenUp, Between
<1>5. ASSUME NEW w \in Withdrawal, Withdraw(w)
      PROVE  RInv'
  <2>1. UNCHANGED <<wk, srv, keys>>
    BY <1>5, Zenon DEF Withdraw
  <2>2. mem' = mem \/ mem' = [mem EXCEPT ![w] = Fresh]
    BY <1>5, Zenon DEF Withdraw
  <2>3. disk' \in {disk, mem', Unreadable}
    BY <1>5, Zenon DEF Withdraw, Persisted, PersistFails
  <2>4. FulfilInv'
    <3>1. \A v \in Withdrawal : mem'[v] = mem[v] \/ mem'[v] = Fresh
      BY <1>5, <2>2, Zenon DEF Shape
    <3> QED
      BY <1>1, <1>3, <2>3, <3>1, UnreadableFile, Zenon DEF RInv, FulfilInv
  <2> QED
    BY <1>1, <1>2, <1>4, <2>1, <2>4, Zenon DEF RInv, PollInv, HandlerInv, MintInv
<1>6. ASSUME NEW file \in [Withdrawal -> Record], NEW stored, Restart(file, stored),
             \A w \in Withdrawal : file[w] # None /\ file[w].st = "fulfilled" => w \in deep
      PROVE  RInv'
  <2>1. UNCHANGED wk /\ keys' = keyfile
    BY <1>6, Zenon DEF Restart
  <2>2. FulfilInv'
    <3>1. disk' = mem' /\ \A w \in Withdrawal : mem'[w] = file[w] \/ mem'[w] = Fresh
      BY <1>6, Zenon DEF Restart, Rebuilt
    <3> QED
      BY <1>1, <1>3, <1>6, <3>1, Zenon DEF FulfilInv
  <2>3. \A h \in Handler : srv'[h] = IdleHandler \/
                            (srv[h].who # None /\ srv'[h].pc = "no" /\ srv'[h].w = srv[h].w /\ srv'[h].who = srv[h].who)
    BY <1>6 DEF Restart, Shape, HandlerRec
  <2>4. \A h \in Handler : srv'[h].pc # "idle" => srv[h].pc # "idle" /\ srv'[h].pc = "no"
                                                  /\ srv'[h].w = srv[h].w /\ srv'[h].who = srv[h].who
    BY <2>3 DEF Working, IdleHandler
  <2>5. HandlerInv'
    BY <2>1, <2>4 DEF RInv, HandlerInv
  <2>6. PollInv'
    BY <1>1, <1>2, <1>4, <2>1, Zenon DEF RInv, PollInv
  <2>7. MintInv'
    BY <1>1, <1>2, <2>1, Zenon DEF RInv, MintInv
  <2> QED
    BY <2>2, <2>5, <2>6, <2>7, Zenon DEF RInv
<1>7. CASE Crash \/ CrashInPersist
  <2>1. disk \in [Withdrawal -> Record] /\ Unreadable \in [Withdrawal -> Record]
    BY UnreadableFile, Zenon DEF Shape
  <2>2. \A w \in Withdrawal : disk[w] # None /\ disk[w].st = "fulfilled" => w \in deep
    BY Zenon DEF RInv, FulfilInv
  <2> QED
    BY <1>6, <1>7, <2>1, <2>2, Crashed, UnreadableFile, Zenon
<1>9. CASE RelayerCrash
  <2>1. UNCHANGED <<keys, mem, disk>> /\ \A r \in Poll : wk'[r] = IdlePoll
    BY <1>9, Zenon DEF RelayerCrash
  <2>2. \A h \in Handler : srv'[h] = IdleHandler
    BY <1>9, Zenon DEF RelayerCrash, Orderly
  <2>3. PollInv'
    BY <2>1 DEF PollInv, IdlePoll, GivenUp, Sending, Between
  <2>4. HandlerInv'
    BY <2>2 DEF HandlerInv, IdleHandler
  <2>5. MintInv'
    BY <1>1, <1>2, <2>1, Zenon DEF RInv, MintInv
  <2>6. FulfilInv'
    BY <1>1, <2>1, Zenon DEF RInv, FulfilInv
  <2> QED
    BY <2>3, <2>4, <2>5, <2>6, Zenon DEF RInv
<1> QED
  BY <1>5, <1>7, <1>9, Zenon

(* A step of bridge_withdrawal_refund keeps the invariant: it mints only    *)
(* for a withdrawal without a live release, and only once.                  *)
LEMMA HandlerRefund ==
  ASSUME Shape, Working, Contracts, Fed, RInv, Orderly, NEW h \in Handler, HandlerStep(h)
  PROVE  RInv'
<1> DEFINE w == srv[h].w
           r == srv[h].who
<1> USE DEF base, files
<1>1. UNCHANGED <<wk, processed, txs, deep>>
  BY Zenon DEF HandlerStep, RefundGet, RefundVault, RefundContains, RefundInsert, RefundMint, RefundStatus
<1>2. \A v \in Withdrawal : Dead(v)' <=> Dead(v)
  BY <1>1, Zenon DEF Dead
<1>3. srv[h].pc \notin {"idle", "ok", "no"}
  BY Zenon DEF HandlerStep, RefundGet, RefundVault, RefundContains, RefundInsert, RefundMint, RefundStatus
<1>4. w \in Withdrawal /\ r \in Poll /\ r # None /\ wk[r].pc = "await" /\ wk[r].w = w
  BY <1>3, BridgeAssumption DEF RInv, HandlerInv, Working, Shape, HandlerRec
<1>5. Dead(w) /\ w \notin wk[r].list
  BY <1>4, Zenon DEF RInv, PollInv, GivenUp, Between
<1>6. \A q \in Poll \ {r} : w \notin wk[q].list /\ (wk[q].pc \notin Between => wk[q].w # w)
  BY <1>4, LoopsApart, Zenon DEF Between
<1>7. \A g \in Handler \ {h} : srv[g].pc # "idle" => srv[g].w \in Withdrawal \ {w}
  <2> SUFFICES ASSUME NEW g \in Handler \ {h}, srv[g].pc # "idle" PROVE srv[g].w \in Withdrawal \ {w}
    BY Zenon
  <2>1. /\ srv[g].who \in Poll /\ wk[srv[g].who].pc = "await" /\ wk[srv[g].who].w = srv[g].w
        /\ srv[g].who # r
    BY <1>3, Zenon DEF RInv, HandlerInv
  <2>2. srv[g].w \in Withdrawal
    BY Zenon DEF Working, Shape, HandlerRec
  <2> QED
    BY <1>6, <2>1, <2>2, Zenon DEF Between
<1>8. srv \in [Handler -> HandlerRec] /\ srv[h] \in HandlerRec /\ mem \in [Withdrawal -> Record]
      /\ mints \in [Withdrawal -> Nat]
  BY Zenon DEF Shape
(* the handler goes on or answers; the other requests are for other withdrawals *)
<1>9. ASSUME NEW pc \in HandlerPC \ {"idle"}, At(h, pc) \/ Answer(h, pc),
             pc \in {"reserve", "mint"} => mints'[w] = 0,
             pc = "mint" => w \in keys' /\ w \in keyfile',
             \A v \in Withdrawal \ {w} : mints'[v] = mints[v],
             \A v \in (keys \cap keyfile) \ {w} : v \in keys' \cap keyfile'
      PROVE  HandlerInv'
  <2>1. /\ srv'[h].pc = pc /\ srv'[h].w = w /\ srv'[h].who = r
        /\ \A g \in Handler \ {h} : srv'[g] = srv[g]
    BY <1>4, <1>8, <1>9, Zenon DEF At, Answer, HandlerRec
  <2>2. ASSUME NEW g \in Handler
        PROVE  /\ srv'[g].pc # "idle" =>
                    /\ srv'[g].who \in Poll
                    /\ wk'[srv'[g].who].pc = "await" /\ wk'[srv'[g].who].w = srv'[g].w
               /\ srv'[g].pc \in {"reserve", "mint"} => mints'[srv'[g].w] = 0
               /\ srv'[g].pc = "mint" => srv'[g].w \in keys' \cap keyfile'
    <3>1. CASE g = h
      BY <1>1, <1>4, <1>9, <2>1, <3>1, Zenon
    <3>2. CASE g # h
      <4>1. srv'[g] = srv[g]
        BY <2>1, <3>2, Zenon
      <4>2. srv[g].pc \in {"reserve", "mint"} => mints'[srv[g].w] = 0
        BY <1>7, <1>9, <3>2, Zenon DEF RInv, HandlerInv
      <4>3. srv[g].pc = "mint" => srv[g].w \in keys' \cap keyfile'
        BY <1>7, <1>9, <3>2, Zenon DEF RInv, HandlerInv
      <4> QED
        BY <1>1, <4>1, <4>2, <4>3, Zenon DEF RInv, HandlerInv
    <3> QED
      BY <3>1, <3>2, Zenon
  <2>3. \A g \in Handler : srv'[g].pc # "idle" => srv[g].pc # "idle" /\ srv'[g].who = srv[g].who
    BY <1>3, <2>1, Zenon
  <2>4. \A f, g \in Handler :
          srv'[f].pc # "idle" /\ srv'[g].pc # "idle" /\ srv'[f].who = srv'[g].who => f = g
    <3>1. \A f, g \in Handler :
            srv[f].pc # "idle" /\ srv[g].pc # "idle" /\ srv[f].who = srv[g].who => f = g
      BY Zenon DEF RInv, HandlerInv
    <3> QED
      BY <2>3, <3>1
  <2> QED
    BY <2>2, <2>4, Zenon DEF HandlerInv
<1>10. ASSUME UNCHANGED mints
       PROVE  PollInv'
  <2>1. \A q \in Poll : wk[q].pc \in GivenUp => wk[q].w \in Withdrawal
    BY Zenon DEF Working, Shape, PollRec, GivenUp, Between
  <2> QED
    BY <1>1, <1>2, <1>10, <2>1, Zenon DEF RInv, PollInv
<1>11. ASSUME UNCHANGED <<mints, keys, keyfile>>
       PROVE  MintInv'
  BY <1>2, <1>11, Zenon DEF RInv, MintInv
<1>12. ASSUME UNCHANGED <<mem, disk>>
       PROVE  FulfilInv'
  BY <1>1, <1>12, Zenon DEF RInv, FulfilInv
<1>13. CASE RefundGet(h)
  <2>1. HandlerInv'
    <3>1. UNCHANGED <<mints, keys, keyfile>> /\ \E pc \in {"no", "vault", "key"} : At(h, pc) \/ Answer(h, pc)
      BY <1>13, Zenon DEF RefundGet
    <3> QED
      BY <1>9, <3>1, Zenon DEF HandlerPC
  <2> QED
    BY <1>10, <1>11, <1>12, <1>13, <2>1, Zenon DEF RefundGet, RInv
<1>14. CASE RefundVault(h)
  <2>1. UNCHANGED <<mints, keys, keyfile, mem, disk>>
    BY <1>5, <1>14, Zenon DEF RefundVault, Dead
  <2>2. HandlerInv'
    <3>1. \E pc \in {"no", "key"} : At(h, pc) \/ Answer(h, pc)
      BY <1>14, Zenon DEF RefundVault
    <3> QED
      BY <1>9, <2>1, <3>1, Zenon DEF HandlerPC
  <2> QED
    BY <1>10, <1>11, <1>12, <2>1, <2>2, Zenon DEF RInv
<1>15. CASE RefundContains(h)
  <2>1. UNCHANGED <<mints, keys, keyfile, mem, disk>>
    BY <1>15, Zenon DEF RefundContains
  <2>2. w \notin keys => mints[w] = 0
    BY <1>4, Zenon DEF RInv, MintInv
  <2>3. HandlerInv'
    BY <1>9, <1>15, <2>1, <2>2, Zenon DEF RefundContains, HandlerPC
  <2> QED
    BY <1>10, <1>11, <1>12, <2>1, <2>3 DEF RInv
<1>16. CASE RefundInsert(h)
  <2>1. UNCHANGED <<mints, mem, disk>> /\ keys \subseteq keys' /\ (keyfile' = keyfile \/ keyfile' = keys')
    BY <1>16, Zenon DEF RefundInsert
  <2>2. mints[w] = 0
    BY <1>16, Zenon DEF RefundInsert, RInv, HandlerInv
  <2>3. HandlerInv'
    BY <1>9, <1>16, <2>1, <2>2, Zenon DEF RefundInsert, HandlerPC
  <2>4. MintInv'
    BY <1>2, <2>1, Zenon DEF RInv, MintInv
  <2> QED
    BY <1>10, <1>12, <2>1, <2>3, <2>4, Zenon DEF RInv
<1>17. CASE RefundMint(h)
  <2>1. mints[w] = 0 /\ w \in keys /\ w \in keyfile
    BY <1>17, Zenon DEF RefundMint, RInv, HandlerInv
  <2>2. UNCHANGED <<mem, disk>>
    BY <1>17, Zenon DEF RefundMint
  <2>3. HandlerInv'
    <3>1. \A v \in Withdrawal \ {w} : mints'[v] = mints[v]
      BY <1>8, <1>17, Zenon DEF RefundMint
    <3>2. \A v \in (keys \cap keyfile) \ {w} : v \in keys' \cap keyfile'
      BY <1>17, Zenon DEF RefundMint
    <3>3. At(h, "status") \/ Answer(h, "no")
      BY <1>17, Zenon DEF RefundMint
    <3> QED
      BY <1>9, <3>1, <3>2, <3>3, Zenon DEF HandlerPC
  <2>4. CASE UNCHANGED mints
    <3>1. keys' = keys \ {w} \/ keys' = keys
      BY <1>17, Zenon DEF RefundMint
    <3>2. keyfile' = keyfile \/ keyfile' = keys'
      BY <1>17, Zenon DEF RefundMint
    <3>3. MintInv'
      BY <1>2, <2>1, <2>4, <3>1, <3>2, Zenon DEF RInv, MintInv
    <3> QED
      BY <1>10, <1>12, <2>2, <2>3, <2>4, <3>3, Zenon DEF RInv
  <2>5. CASE mints' = [mints EXCEPT ![w] = @ + 1] /\ UNCHANGED <<keys, keyfile>>
    <3>1. mints'[w] = 1 /\ \A v \in Withdrawal \ {w} : mints'[v] = mints[v]
      BY <1>4, <1>8, <2>1, <2>5
    <3>2. MintInv'
      BY <1>2, <1>5, <2>1, <2>5, <3>1, Zenon DEF RInv, MintInv
    <3>3. ASSUME NEW q \in Poll
          PROVE  /\ wk[q].list \subseteq Withdrawal /\ (wk[q].pc \notin Between => wk[q].w \in Withdrawal)
                 /\ wk[q].pc \in Sending => wk[q].w # w
                 /\ w \notin wk[q].list
      <4>1. wk[q].list \subseteq Withdrawal /\ (wk[q].pc \notin Between => wk[q].w \in Withdrawal)
        BY Zenon DEF Shape, Working, PollRec
      <4>2. CASE q = r
        BY <1>4, <1>5, <4>1, <4>2, Zenon DEF Sending
      <4>3. CASE q # r
        BY <1>6, <4>1, <4>3, Zenon DEF Sending, Between
      <4> QED
        BY <4>2, <4>3, Zenon
    <3>4. \A q \in Poll : wk[q].pc \in GivenUp \cup Sending => wk[q].pc \notin Between
      BY Zenon DEF GivenUp, Sending, Between
    <3>5. PollInv'
      BY <1>1, <1>2, <3>1, <3>3, <3>4, Zenon DEF RInv, PollInv
    <3> QED
      BY <1>12, <2>2, <2>3, <3>2, <3>5, Zenon DEF RInv
  <2> QED
    BY <1>17, <2>4, <2>5, Zenon DEF RefundMint
<1>18. CASE RefundStatus(h)
  <2>1. UNCHANGED <<mints, keys, keyfile>>
    BY <1>18, Zenon DEF RefundStatus
  <2>2. HandlerInv'
    <3>1. Answer(h, "ok")
      BY <1>18, Zenon DEF RefundStatus
    <3> QED
      BY <1>9, <2>1, <3>1, Zenon DEF HandlerPC
  <2>3. mem[w] # None
    BY <1>18, Zenon DEF RefundStatus, Working, Refunding
  <2>4. mem[w] \in Rec
    BY <1>4, <1>8, <2>3, Zenon DEF Record
  <2>5. mem'[w].st = "refunded" /\ \A v \in Withdrawal \ {w} : mem'[v] = mem[v]
    BY <1>4, <1>8, <1>18, <2>4, Zenon DEF RefundStatus, Rec
  <2>6. disk' \in {disk, mem', Unreadable}
    BY <1>18, Zenon DEF RefundStatus, Persisted, PersistFails
  <2>7. FulfilInv'
    BY <1>1, <2>5, <2>6, UnreadableFile, Zenon DEF RInv, FulfilInv
  <2> QED
    BY <1>10, <1>11, <2>1, <2>2, <2>7, Zenon DEF RInv
<1> QED
  BY <1>13, <1>14, <1>15, <1>16, <1>17, <1>18, Zenon DEF HandlerStep

(* A step of a poll keeps the invariant: it releases nothing that was       *)
(* minted back, and gives up only what Base will not pay.                   *)
LEMMA PollRefund ==
  ASSUME Shape, Working, Contracts, Fed, RInv, Orderly, NEW r \in Poll, PollStep(r)
  PROVE  RInv'
<1> DEFINE w == wk[r].w
<1> USE DEF base, files, daemon
<1>1. UNCHANGED <<mints, keys, keyfile, processed, deep>>
  BY Zenon DEF PollStep, Fetch, NextItem, Check, Send, Recheck, Wait, Classify, Reconcile, Getter,
         Fulfil, Failure, Report, Guard, Ask, Await
<1>2. \A q \in Poll \ {r} : wk'[q] = wk[q]
  BY PollMoves, Zenon
<1>3. wk \in [Poll -> PollRec] /\ wk[r] \in PollRec
  BY Zenon DEF Shape
<1>4. wk[r].pc \notin Between => w \in Withdrawal
  BY <1>3, Zenon DEF Working, PollRec
<1>5. ASSUME UNCHANGED txs
      PROVE  \A v : Dead(v)' <=> Dead(v)
  BY <1>1, <1>5, Zenon DEF Dead
<1>6. ASSUME UNCHANGED txs
      PROVE  MintInv'
  BY <1>1, <1>5, <1>6, Zenon DEF RInv, MintInv
<1>7. ASSUME UNCHANGED <<mem, disk>>
      PROVE  FulfilInv'
  BY <1>1, <1>7, Zenon DEF RInv, FulfilInv
<1>8. ASSUME wk[r].pc # "await"
      PROVE  \A h \in Handler : srv[h].pc # "idle" => srv[h].who # r
  BY <1>8, Zenon DEF RInv, HandlerInv
<1>9. ASSUME wk[r].pc # "await", UNCHANGED srv
      PROVE  HandlerInv'
  BY <1>1, <1>2, <1>8, <1>9, Zenon DEF RInv, HandlerInv
<1>10. ASSUME UNCHANGED txs, Leave(r)
       PROVE  PollInv'
  <2>1. wk'[r].pc = "next" /\ wk'[r].list = wk[r].list /\ wk'[r].loop = wk[r].loop
    <3>1. wk'[r] = [wk[r] EXCEPT !.pc = "next", !.w = None, !.tx = 0]
      BY Zenon, <1>10, WkShape
    <3> QED
      BY <1>3, <3>1, Zenon DEF PollRec
  <2> QED
    BY <1>1, <1>2, <1>5, <1>10, <2>1, Zenon DEF RInv, PollInv, GivenUp, Sending, Between
<1>11. ASSUME UNCHANGED txs, wk[r].pc \notin Between, NEW pc \in PollPC, Goto(r, pc),
              pc \in Sending => wk[r].pc \in Sending,
              pc \in GivenUp => Dead(w)
       PROVE  PollInv'
  <2>1. wk'[r].pc = pc /\ wk'[r].w = w /\ wk'[r].list = wk[r].list /\ wk'[r].loop = wk[r].loop
    <3>1. wk'[r] = [wk[r] EXCEPT !.pc = pc]
      BY Zenon, <1>11, WkShape
    <3> QED
      BY <1>3, <3>1, Zenon DEF PollRec
  <2> QED
    BY <1>1, <1>2, <1>5, <1>11, <2>1, Zenon DEF RInv, PollInv
<1>12. wk[r].pc \in GivenUp => Dead(w)
  BY Zenon DEF RInv, PollInv
<1>24. ASSUME UNCHANGED txs, wk'[r].pc \notin GivenUp,
              wk'[r].pc \notin Between => wk'[r].w \notin wk'[r].list,
              wk'[r].pc \in Sending => mints[wk'[r].w] = 0,
              wk'[r].loop = "list" => \A v \in wk'[r].list : mints[v] = 0
       PROVE  PollInv'
  BY <1>1, <1>2, <1>5, <1>24, Zenon DEF RInv, PollInv
<1>25. ASSUME NEW h \in Handler, \A g \in Handler \ {h} : srv'[g] = srv[g] /\ (srv[g].pc # "idle" => srv[g].who # r),
              srv'[h].pc \notin {"reserve", "mint"},
              srv'[h].pc # "idle" => srv'[h].who = r /\ wk'[r].pc = "await" /\ wk'[r].w = srv'[h].w
       PROVE  HandlerInv'
  <2>1. \A g \in Handler \ {h} : srv'[g].pc # "idle" =>
           /\ srv'[g].who \in Poll
           /\ wk'[srv'[g].who].pc = "await" /\ wk'[srv'[g].who].w = srv'[g].w
    <3> SUFFICES ASSUME NEW g \in Handler \ {h}, srv'[g].pc # "idle"
                 PROVE  /\ srv'[g].who \in Poll
                        /\ wk'[srv'[g].who].pc = "await" /\ wk'[srv'[g].who].w = srv'[g].w
      BY Zenon
    <3>1. srv'[g] = srv[g] /\ srv[g].pc # "idle" /\ srv[g].who # r
      BY <1>25, Zenon
    <3>2. srv[g].who \in Poll /\ wk[srv[g].who].pc = "await" /\ wk[srv[g].who].w = srv[g].w
      BY <3>1, Zenon DEF RInv, HandlerInv
    <3>3. wk'[srv[g].who] = wk[srv[g].who]
      BY <1>2, <3>1, <3>2, Zenon
    <3> QED
      BY <3>1, <3>2, <3>3, Zenon
  <2>2. \A g \in Handler \ {h} :
          /\ srv'[g].pc \in {"reserve", "mint"} => mints'[srv'[g].w] = 0
          /\ srv'[g].pc = "mint" => srv'[g].w \in keys' \cap keyfile'
    BY <1>1, <1>25, Zenon DEF RInv, HandlerInv
  <2>3. \A f, g \in Handler :
          srv'[f].pc # "idle" /\ srv'[g].pc # "idle" /\ srv'[f].who = srv'[g].who => f = g
    <3>1. \A f, g \in Handler :
            srv[f].pc # "idle" /\ srv[g].pc # "idle" /\ srv[f].who = srv[g].who => f = g
      BY Zenon DEF RInv, HandlerInv
    <3> QED
      BY <1>25, <3>1
  <2>4. srv'[h].pc # "idle" =>
           /\ srv'[h].who \in Poll
           /\ wk'[srv'[h].who].pc = "await" /\ wk'[srv'[h].who].w = srv'[h].w
    BY <1>25, Zenon
  <2>5. \A g \in Handler : srv'[g].pc # "idle" =>
           /\ srv'[g].who \in Poll
           /\ wk'[srv'[g].who].pc = "await" /\ wk'[srv'[g].who].w = srv'[g].w
    BY <2>1, <2>4, Zenon
  <2>6. srv'[h].pc \notin {"reserve", "mint"} /\ srv'[h].pc # "mint"
    BY <1>25, Zenon
  <2>7. \A g \in Handler : srv'[g].pc \in {"reserve", "mint"} => mints'[srv'[g].w] = 0
    BY <2>2, <2>6, Zenon
  <2>8. \A g \in Handler : srv'[g].pc = "mint" => srv'[g].w \in keys' \cap keyfile'
    BY <2>2, <2>6, Zenon
  <2> QED
    BY <2>3, <2>5, <2>7, <2>8, Zenon DEF HandlerInv
<1> HIDE DEF w
<1>13. CASE Fetch(r)
  <2>1. UNCHANGED <<txs, srv, mem, disk>> /\ wk[r].pc # "await"
    BY <1>13, Zenon DEF Fetch
  <2>2. wk'[r].pc = "next" /\ wk'[r].list = Listed(r)
    BY <1>3, <1>13, Zenon DEF Fetch, IdlePoll
  <2>3. \A v \in Listed(r) : mints[v] = 0
    BY Zenon DEF Listed, Payable, RInv, MintInv
  <2>4. PollInv'
    BY <1>24, <2>1, <2>2, <2>3, Zenon DEF GivenUp, Sending, Between
  <2> QED
    BY <1>6, <1>7, <1>9, <2>1, <2>4, Zenon DEF RInv
<1>14. CASE NextItem(r)
  <2>1. UNCHANGED <<txs, srv, mem, disk>> /\ wk[r].pc # "await"
    BY Zenon, <1>14 DEF NextItem
  <2>2. ASSUME NEW v \in wk[r].list,
               wk' = [wk EXCEPT ![r].list = @ \ {v},
                       ![r].w = IF wk[r].loop = "list" /\ Skipped(r, v) THEN None ELSE v,
                       ![r].pc = IF wk[r].loop = "queue" THEN "getter"
                                 ELSE IF Skipped(r, v) THEN "next" ELSE "check"]
        PROVE  PollInv'
    <3>1. /\ wk'[r].w = IF wk[r].loop = "list" /\ Skipped(r, v) THEN None ELSE v
          /\ wk'[r].pc = IF wk[r].loop = "queue" THEN "getter"
                         ELSE IF Skipped(r, v) THEN "next" ELSE "check"
          /\ wk'[r].list = wk[r].list \ {v} /\ wk'[r].loop = wk[r].loop
          /\ wk[r].loop \in {"list", "queue"}
      BY <1>3, <2>2, Zenon DEF PollRec
    <3>2. wk[r].loop = "list" => \A u \in wk[r].list : mints[u] = 0
      BY Zenon DEF RInv, PollInv
    <3>3. /\ wk'[r].pc \in {"getter", "next", "check"}
          /\ wk'[r].pc \notin Between => wk'[r].w = v
          /\ wk'[r].pc = "check" => wk[r].loop = "list"
      BY <3>1, Zenon DEF Between
    <3> QED
      BY Zenon, <1>24, <2>1, <2>2, <3>1, <3>2, <3>3 DEF GivenUp, Sending, Between
  <2>3. ASSUME NEW l, wk' = [wk EXCEPT ![r].loop = "queue", ![r].list = l], wk[r].pc = "next"
        PROVE  PollInv'
    <3>1. wk'[r].pc = "next" /\ wk'[r].loop = "queue"
      BY <1>3, <2>3, Zenon DEF PollRec
    <3> QED
      BY <1>24, <2>1, <3>1, Zenon DEF GivenUp, Sending, Between
  <2>4. ASSUME wk' = [wk EXCEPT ![r] = IdlePoll]
        PROVE  PollInv'
    <3>1. wk'[r].pc = "idle" /\ wk'[r].list = {}
      BY <1>3, <2>4 DEF IdlePoll
    <3> QED
      BY <1>24, <2>1, <3>1, Zenon DEF GivenUp, Sending, Between
  <2>5. PollInv'
    BY Zenon, <1>14, <2>2, <2>3, <2>4 DEF NextItem
  <2> QED
    BY <1>6, <1>7, <1>9, <2>1, <2>5 DEF RInv
<1>15. CASE Send(r)
  <2>1. UNCHANGED <<srv, mem, disk>> /\ wk[r].pc = "send"
    BY <1>15, Zenon DEF Send
  <2>2. w \in Withdrawal /\ mints[w] = 0 /\ txs \in Seq(TxRec)
    BY <1>4, <2>1, TxFacts, Zenon DEF RInv, PollInv, Sending, Between, w
  <2>3. \A v \in Withdrawal \ {w} : Dead(v) => Dead(v)'
    <3>1. CASE txs' = txs
      BY <1>5, <3>1, Zenon
    <3>2. CASE Sent(w)
      <4>1. /\ DOMAIN txs' = DOMAIN txs \cup {Len(txs) + 1}
            /\ txs'[Len(txs) + 1].w = w /\ \A j \in DOMAIN txs : txs'[j] = txs[j]
        BY <2>2, <3>2, TxAppend DEF Sent
      <4> QED
        BY <1>1, <4>1, Zenon DEF Dead
    <3> QED
      BY <1>15, <3>1, <3>2, Zenon DEF Send, w
  <2>4. MintInv'
    BY <1>1, <2>2, <2>3, Zenon DEF RInv, MintInv
  <2>5. /\ wk'[r].pc \in {"wait", "failure", "recheck"} /\ wk'[r].w = wk[r].w
        /\ wk'[r].list = wk[r].list /\ wk'[r].loop = wk[r].loop
    BY <1>3, <1>15 DEF Send, Goto, PollRec
  <2>6. PollInv'
    <3>1. ASSUME NEW q \in Poll \ {r}, wk[q].pc \in GivenUp
          PROVE  Dead(wk[q].w)'
      <4>1. wk[q].pc \notin Between /\ wk[q].w \in Withdrawal
        BY <3>1, Zenon DEF Working, Shape, PollRec, GivenUp, Between
      <4>2. wk[q].w # w
        BY <2>1, <4>1, LoopsApart, Zenon DEF Between, w
      <4>3. wk'[q].w = wk[q].w
        BY <1>2, Zenon
      <4> QED
        BY <2>3, <3>1, <4>1, <4>2, <4>3, Zenon DEF RInv, PollInv, Dead
    <3> QED
      BY <1>1, <1>2, <2>1, <2>2, <2>5, <3>1, Zenon DEF RInv, PollInv, GivenUp, Sending, Between, w
  <2> QED
    BY <1>7, <1>9, <2>1, <2>4, <2>6, Zenon DEF RInv
<1>16. CASE Check(r) \/ Recheck(r) \/ Wait(r)
  <2>1. UNCHANGED <<txs, srv, mem, disk>> /\ wk[r].pc \in {"check", "recheck", "wait"}
    BY <1>16, Zenon DEF Check, Recheck, Wait
  <2>2. Leave(r) \/ (\E pc \in {"reconcile", "failure", "fulfil", "classify"} : Goto(r, pc))
        \/ (wk[r].pc \in Sending /\ Goto(r, "send"))
    BY <1>16, Zenon DEF Check, Recheck, Wait, Sending
  <2>3. PollInv'
    BY <1>10, <1>11, <2>1, <2>2, Zenon DEF Sending, GivenUp, Between, PollPC
  <2> QED
    BY <1>6, <1>7, <1>9, <2>1, <2>3, Zenon DEF RInv
<1>17. CASE Classify(r) \/ Reconcile(r) \/ Getter(r)
  <2>1. UNCHANGED <<txs, srv, mem, disk>> /\ wk[r].pc \in {"classify", "reconcile", "getter"}
    BY <1>17, Zenon DEF Classify, Reconcile, Getter
  <2>2. Leave(r) \/ Goto(r, "fulfil")
    BY <1>17, Zenon DEF Classify, Reconcile, Getter, Keep
  <2>3. PollInv'
    BY <1>10, <1>11, <2>1, <2>2, Zenon DEF Sending, GivenUp, Between, PollPC
  <2> QED
    BY <1>6, <1>7, <1>9, <2>1, <2>3, Zenon DEF RInv
<1>18. CASE Fulfil(r)
  <2>1. UNCHANGED <<txs, srv>> /\ wk[r].pc = "fulfil" /\ Leave(r)
    BY <1>18, Zenon DEF Fulfil
  <2>2. w \in Withdrawal
    BY <1>4, <2>1, Zenon DEF Between
  <2>3. mem' = mem \/ (w \in deep /\ mem' = [mem EXCEPT ![w].st = "fulfilled"])
    BY <1>18, Zenon DEF Fulfil, MarkFulfilled, w
  <2>4. disk' \in {disk, mem', Unreadable}
    BY <1>18, Zenon DEF Fulfil, Persisted, PersistFails
  <2>5. FulfilInv'
    <3>1. mem' = mem \/ (w \in deep /\ \A v \in Withdrawal \ {w} : mem'[v] = mem[v])
      BY <2>2, <2>3 DEF Shape
    <3> QED
      BY <1>1, <2>2, <2>4, <3>1, UnreadableFile, Zenon DEF RInv, FulfilInv
  <2> QED
    BY <1>6, <1>9, <1>10, <2>1, <2>5, Zenon DEF RInv
<1>19. CASE Failure(r)
  <2>1. UNCHANGED <<txs, srv, mem, disk>> /\ wk[r].pc = "failure"
    BY <1>19, Zenon DEF Failure
  <2>2. Leave(r) \/ Goto(r, "reconcile") \/ (w \notin processed /\ Goto(r, "report"))
    BY <1>19, Zenon DEF Failure, w
  <2>3. w \notin processed => Dead(w)
    <3>1. ~Pending(w)
      BY <1>19, Zenon DEF Failure, Orderly, w
    <3>2. \A i \in DOMAIN txs : txs[i].st \in {"pending", "ok", "reverted", "dropped"}
      BY TxFacts, Zenon DEF TxRec
    <3> QED
      BY <3>1, <3>2, Zenon DEF Dead, Pending, Contracts
  <2>4. PollInv'
    BY <1>10, <1>11, <2>1, <2>2, <2>3, Zenon DEF Sending, GivenUp, Between, PollPC
  <2> QED
    BY <1>6, <1>7, <1>9, <2>1, <2>4, Zenon DEF RInv
<1>20. CASE Report(r)
  <2>1. UNCHANGED <<txs, srv>> /\ wk[r].pc = "report"
    BY <1>20, Zenon DEF Report
  <2>2. w \in Withdrawal /\ Dead(w)
    BY <1>4, <1>12, <2>1, Zenon DEF Between, GivenUp
  <2>3. mem' = mem \/ RecordAttempt(w)
    BY <1>20, Zenon DEF Report, w
  <2>4. disk' \in {disk, mem', Unreadable}
    BY <1>20, Zenon DEF Report, Persisted, PersistFails
  <2>5. FulfilInv'
    <3>1. mem' = mem \/ (mem'[w].st = "failed" /\ \A v \in Withdrawal \ {w} : mem'[v] = mem[v])
      BY <2>2, <2>3 DEF RecordAttempt, Shape
    <3> QED
      BY <1>1, <2>4, <3>1, UnreadableFile, Zenon DEF RInv, FulfilInv
  <2>6. Leave(r) \/ Goto(r, "ask") \/ Goto(r, "guard")
    BY <1>20, Zenon DEF Report
  <2>7. PollInv'
    BY <1>10, <1>11, <2>1, <2>2, <2>6, Zenon DEF Sending, GivenUp, Between, PollPC
  <2> QED
    BY <1>6, <1>9, <2>1, <2>5, <2>7, Zenon DEF RInv
<1>21. CASE Guard(r)
  <2>1. UNCHANGED <<txs, srv, mem, disk>> /\ wk[r].pc = "guard"
    BY <1>21, Zenon DEF Guard
  <2>2. Dead(w) /\ (Leave(r) \/ Goto(r, "ask"))
    BY <1>12, <1>21, Zenon DEF Guard, GivenUp
  <2>3. PollInv'
    BY <1>10, <1>11, <2>1, <2>2, Zenon DEF Sending, GivenUp, Between, PollPC
  <2> QED
    BY <1>6, <1>7, <1>9, <2>1, <2>3, Zenon DEF RInv
<1>22. CASE Ask(r)
  <2>1. UNCHANGED <<txs, mem, disk>> /\ wk[r].pc = "ask" /\ Goto(r, "await")
    BY <1>22, Zenon DEF Ask
  <2>2. Dead(w)
    BY <1>12, <2>1, Zenon DEF GivenUp
  <2>3. PollInv'
    BY <1>10, <1>11, <2>1, <2>2, Zenon DEF Sending, GivenUp, Between, PollPC
  <2>4. wk'[r].pc = "await" /\ wk'[r].w = wk[r].w
    BY <1>3, <2>1, Zenon DEF Goto, PollRec
  <2>5. PICK h \in Handler : srv' = [srv EXCEPT ![h] = [pc |-> "get", w |-> wk[r].w, who |-> r]]
    BY Zenon, <1>22 DEF Ask
  <2>6. \A g \in Handler \ {h} : srv'[g] = srv[g] /\ (srv[g].pc # "idle" => srv[g].who # r)
    BY <1>8, <2>1, <2>5, Zenon DEF Shape
  <2>7. srv'[h] = [pc |-> "get", w |-> wk[r].w, who |-> r]
    BY <2>5, Zenon DEF Shape
  <2>8. srv'[h].pc = "get" /\ srv'[h].w = wk[r].w /\ srv'[h].who = r
    BY <2>7
  <2>9. HandlerInv'
    BY <1>25, <2>4, <2>6, <2>8, Zenon
  <2> QED
    BY <1>6, <1>7, <2>1, <2>3, <2>9, Zenon DEF RInv
<1>23. CASE Await(r)
  <2>1. PICK h \in Handler :
          /\ wk[r].pc = "await" /\ srv[h].who = r /\ Leave(r)
          /\ srv[h].pc \in {"ok", "no"} /\ srv' = [srv EXCEPT ![h] = IdleHandler]
    BY <1>23, Zenon DEF Await, Fault, Orderly
  <2>2. UNCHANGED <<txs, mem, disk>>
    BY <1>23, Zenon DEF Await
  <2>3. srv'[h].pc = "idle" /\ \A g \in Handler \ {h} : srv'[g] = srv[g] /\ (srv[g].pc # "idle" => srv[g].who # r)
    BY <2>1, Zenon DEF Shape, RInv, HandlerInv, IdleHandler
  <2>4. HandlerInv'
    BY <1>25, <2>3, Zenon
  <2> QED
    BY <1>6, <1>7, <1>10, <2>1, <2>2, <2>4, Zenon DEF RInv
<1> QED
  BY <1>13, <1>14, <1>15, <1>16, <1>17, <1>18, <1>19, <1>20, <1>21, <1>22, <1>23, Zenon DEF PollStep

(* The invariant holds initially.                                           *)
LEMMA RefundInit ==
  ASSUME Init
  PROVE  RInv
<1>1. DOMAIN << >> = {}
  OBVIOUS
<1> QED
  BY <1>1, Zenon DEF Init, RInv, PollInv, HandlerInv, MintInv, FulfilInv, IdlePoll, IdleHandler,
              GivenUp, Sending, Between

(* The invariant survives stuttering.                                       *)
LEMMA RefundStutter ==
  ASSUME RInv, UNCHANGED vars
  PROVE  RInv'
BY Zenon DEF vars, RInv, PollInv, HandlerInv, MintInv, FulfilInv, Dead

(* The inductive invariant behind the two theorems below.                   *)
THEOREM RefundInvariant ==
  ASSUME Orderly
  PROVE  Spec => [](Shape /\ Working /\ Contracts /\ Fed /\ RInv)
<1>1. Shape /\ Working /\ Contracts /\ Fed /\ RInv /\ [Next]_vars => Fed' /\ RInv'
  BY BaseRefund, CrashRefund, HandlerRefund, PollRefund, RefundStutter, FedStep, Zenon DEF Next
<1>2. Init => Fed
  <2>1. Init => \A r \in Poll : wk[r].list = {} /\ wk[r].pc = "idle"
    BY DEF Init, IdlePoll
  <2> QED
    BY <2>1, Zenon DEF Fed, Between
<1> QED
  BY <1>1, <1>2, BridgeInvariant, RefundInit, PTL DEF Spec

(* A withdrawal is paid on Base once or minted back once, and never both    *)
(* (main.rs withhold_refunded), whatever fails, crashes or is lost in       *)
(* between.                                                                 *)
THEOREM WithdrawalSettledOnce ==
  ASSUME Orderly
  PROVE  Spec => []SettledOnce
<1>1. Shape /\ Contracts /\ RInv => SettledOnce
  <2> SUFFICES ASSUME Shape, Contracts, RInv, NEW w \in Withdrawal
               PROVE  paid[w] + mints[w] <= 1
    BY Zenon DEF SettledOnce
  <2>1. paid[w] \in {0, 1} /\ mints[w] \in {0, 1}
    BY Zenon DEF Shape, Contracts, RInv, MintInv
  <2>2. mints[w] = 1 => paid[w] = 0
    BY Zenon DEF Contracts, RInv, MintInv, Dead
  <2> QED
    BY <2>1, <2>2
<1> QED
  BY <1>1, RefundInvariant, PTL

(* A record that bridge_withdrawal_fulfill or the vault check marked        *)
(* fulfilled stands for a payment on Base that no reorganisation removes.   *)
THEOREM FulfilledRecordsArePaid ==
  ASSUME Orderly
  PROVE  Spec => []FulfilledIsPaid
<1>1. Shape /\ Contracts /\ RInv => FulfilledIsPaid
  BY DEF FulfilledIsPaid, Shape, Contracts, RInv, FulfilInv
<1> QED
  BY <1>1, RefundInvariant, PTL
=============================================================================
