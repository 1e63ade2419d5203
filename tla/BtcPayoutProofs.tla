-------------------------- MODULE BtcPayoutProofs --------------------------
(***************************************************************************)
(* Proofs about the payouts of qBTC withdrawals, for any withdrawals,      *)
(* coins, fee rates and faults.                                            *)
(*                                                                         *)
(* Records: every payout that reached Bitcoin is in the state file         *)
(* (RecordInv).  Types.                                                    *)
(* Coins: no two payouts of the relayer spend one coin (ApartInv).         *)
(* Transactions: whom a payout is for (OwnInv, LegacyInv) and what a block *)
(* holds (DepthInv), for BtcCustodyProofs.                                 *)
(***************************************************************************)
EXTENDS BtcPayout, TLAPS

Fields == {"attempts", "txid", "planned", "review", "legacy"}

Shapes ==
  /\ todo \subseteq Withdrawal
  /\ at # "next" => cur \in Withdrawal
  /\ mem = [w \in Withdrawal |-> mem[w]] /\ file = [w \in Withdrawal |-> file[w]]
  /\ \A w \in Withdrawal : mem[w] = [f \in Fields |-> mem[w][f]]
  /\ \A w \in Withdrawal : file[w] = [f \in Fields |-> file[w][f]]
  /\ faults = [kinds |-> faults.kinds, left |-> faults.left]

\* Where the relayer is says what it has signed for the withdrawal it works on.
Located ==
  /\ at \in {"scan", "build", "plan"} => mem[cur].txid = None /\ mem[cur].planned = None
  /\ at \in {"known", "send", "settle"} => mem[cur].txid = None
  /\ at = "settle" => answer \in {"accepted", "unknown", "spent", "rejected"}

Broadcast(t) == t \in Seen \cup limbo /\ t.ins # {} /\ t \notin LegacyTx

Recorded(t) == \E w \in Withdrawal : mem[w].planned = t \/ mem[w].txid = t

(* The inductive invariant: the file is what the relayer has in memory; every payout that was
   broadcast is there; nothing is invisible unless the mempool evicts; what the network
   rejected it does not have. *)
RecordInv ==
  /\ Shapes /\ Located
  /\ Kept => /\ file = mem
             /\ Has("evict") \/ limbo = {}
             /\ \A t : Broadcast(t) => Recorded(t)
             /\ at = "settle" /\ answer = "rejected" => ~Has("evict") /\ ~Broadcast(mem[cur].planned)

\* A fault is counted; the kinds of a behaviour never change.
LEMMA FaultKeepsKinds ==
  ASSUME Shapes, NEW k, Fault(k)
  PROVE  /\ k \in faults.kinds /\ faults'.kinds = faults.kinds
         /\ faults' = [kinds |-> faults'.kinds, left |-> faults'.left]
BY Zenon DEF Shapes, Fault

(* A step of Bitcoin or of the daemon that broadcasts no payout leaves the invariant alone. *)
LEMMA OutsideStep ==
  ASSUME RecordInv, UNCHANGED relayer,
         faults'.kinds = faults.kinds, faults' = [kinds |-> faults'.kinds, left |-> faults'.left],
         Has("evict") \/ limbo' \subseteq limbo,
         \A t : Broadcast(t)' => Broadcast(t)
  PROVE  RecordInv'
<1>1. Kept' = Kept /\ Has("evict")' = Has("evict")
  BY Zenon DEF Kept, Has
<1>2. Shapes' /\ Located'
  BY Zenon DEF RecordInv, Shapes, Located, relayer
<1>3. ASSUME Kept PROVE \A t : Broadcast(t)' => Recorded(t)'
  BY <1>3, Zenon DEF RecordInv, Recorded, relayer
<1>4. ASSUME Kept PROVE file' = mem' /\ (Has("evict") \/ limbo' = {})
  BY <1>4, Zenon DEF RecordInv, relayer
<1>5. ASSUME Kept, at = "settle", answer = "rejected"
      PROVE  ~Has("evict") /\ ~Broadcast(mem[cur].planned)'
  <2>1. ~Has("evict") /\ ~Broadcast(mem[cur].planned)
    BY <1>5, Zenon DEF RecordInv
  <2>2. mem' = mem /\ cur' = cur
    BY Zenon DEF relayer
  <2> QED
    BY <2>1, <2>2, Zenon DEF Broadcast, Seen, Mined
<1> QED
  BY <1>1, <1>2, <1>3, <1>4, <1>5, Zenon DEF RecordInv, relayer

(* A step of the relayer between two broadcasts keeps the invariant, if the entry it writes
   still names every payout of the withdrawal that was broadcast, and is saved. *)
LEMMA RelayerStep ==
  ASSUME RecordInv, UNCHANGED bitcoin,
         faults'.kinds = faults.kinds, faults' = [kinds |-> faults'.kinds, left |-> faults'.left],
         todo' \subseteq todo, at' # "next" => cur' \in Withdrawal, at' # "settle", Located',
         \/ mem' = mem /\ file' = file
         \/ /\ cur \in Withdrawal
            /\ \E e : /\ mem' = [mem EXCEPT ![cur] = e]
                      /\ e = [f \in Fields |-> e[f]]
                      /\ file' = mem' \/ (file' = file /\ ~Kept)
                      /\ Kept => \A t : Broadcast(t) /\ (mem[cur].planned = t \/ mem[cur].txid = t)
                                    => e.planned = t \/ e.txid = t
  PROVE  RecordInv'
<1>1. Kept' = Kept /\ Has("evict")' = Has("evict")
  BY Zenon DEF Kept, Has
<1>2. Shapes'
  <2>1. CASE mem' = mem /\ file' = file
    BY <2>1, Zenon DEF RecordInv, Shapes
  <2>2. CASE cur \in Withdrawal /\ (file' = mem' \/ file' = file)
               /\ \E e : mem' = [mem EXCEPT ![cur] = e] /\ e = [f \in Fields |-> e[f]]
    <3>1. PICK e : mem' = [mem EXCEPT ![cur] = e] /\ e = [f \in Fields |-> e[f]]
      BY <2>2, Zenon
    <3>2. mem' = [w \in Withdrawal |-> IF w = cur THEN e ELSE mem[w]]
      BY <3>1, <2>2, Zenon DEF RecordInv, Shapes
    <3>3. \A w \in Withdrawal : mem'[w] = [f \in Fields |-> mem'[w][f]]
      BY <3>1, <3>2 DEF RecordInv, Shapes
    <3>4. mem' = [w \in Withdrawal |-> mem'[w]]
      BY <3>2, Zenon
    <3>5. /\ file' = [w \in Withdrawal |-> file'[w]]
          /\ \A w \in Withdrawal : file'[w] = [f \in Fields |-> file'[w][f]]
      <4>1. CASE file' = mem'
        BY <4>1, <3>3, <3>4, Zenon
      <4>2. CASE file' = file
        BY <4>2, Zenon DEF RecordInv, Shapes
      <4> QED
        BY <4>1, <4>2, <2>2, Zenon
    <3>6. todo' \subseteq Withdrawal
      BY Zenon DEF RecordInv, Shapes
    <3> QED
      BY <3>3, <3>4, <3>5, <3>6, Zenon DEF Shapes
  <2> QED
    BY <2>1, <2>2, Zenon
<1>3. \A t : Broadcast(t)' = Broadcast(t)
  BY Zenon DEF Broadcast, Seen, Mined, bitcoin
<1>4. ASSUME Kept PROVE file' = mem'
  BY <1>4, Zenon DEF RecordInv
<1>5. ASSUME Kept, NEW t, Broadcast(t) PROVE Recorded(t)'
  <2>1. PICK w \in Withdrawal : mem[w].planned = t \/ mem[w].txid = t
    BY <1>5, Zenon DEF RecordInv, Recorded
  <2>2. mem'[w].planned = t \/ mem'[w].txid = t
    BY <1>5, <2>1, Zenon DEF RecordInv, Shapes
  <2> QED
    BY <2>1, <2>2, Zenon DEF Recorded
<1>6. ASSUME Kept PROVE Has("evict") \/ limbo' = {}
  BY <1>6, Zenon DEF RecordInv, bitcoin
<1> QED
  BY <1>1, <1>2, <1>3, <1>4, <1>5, <1>6, Zenon DEF RecordInv

\* Writing the entry and leaving the withdrawal, whether or not the write fails.
LEMMA PutLeave ==
  ASSUME RecordInv, UNCHANGED bitcoin, at # "next",
         NEW e, e = [f \in Fields |-> e[f]], Put(e, Leave),
         Kept => \A t : Broadcast(t) /\ (mem[cur].planned = t \/ mem[cur].txid = t)
                          => e.planned = t \/ e.txid = t
  PROVE  RecordInv'
<1>1. Leave /\ mem' = [mem EXCEPT ![cur] = e]
  BY Zenon DEF Put
<1>2. /\ faults'.kinds = faults.kinds
      /\ faults' = [kinds |-> faults'.kinds, left |-> faults'.left]
      /\ file' = mem' \/ (file' = file /\ ~Kept)
  <2>1. CASE file' = mem' /\ UNCHANGED faults
    BY <2>1, Zenon DEF RecordInv, Shapes
  <2>2. CASE Fault("io") /\ UNCHANGED file
    BY <2>2, FaultKeepsKinds, Zenon DEF RecordInv, Kept, Has
  <2> QED
    BY <2>1, <2>2, Zenon DEF Put
<1>3. cur \in Withdrawal /\ Located'
  BY <1>1, Zenon DEF RecordInv, Shapes, Leave, Located
<1> QED
  BY <1>1, <1>2, <1>3, RelayerStep, Zenon DEF Leave

LEMMA InitRecord ==
  ASSUME Init PROVE RecordInv
<1>1. PICK old \in SUBSET Withdrawal :
        mem = [w \in Withdrawal |-> [NoEntry EXCEPT !.legacy = w \in old]]
  BY Zenon DEF Init
<1>2. \A w \in Withdrawal : mem[w] = [f \in Fields |-> mem[w][f]]
  BY <1>1, Zenon DEF NoEntry, Fields
<1>3. Shapes
  <2>1. mem = [w \in Withdrawal |-> mem[w]] /\ file = mem
    BY <1>1, Zenon DEF Init
  <2>2. faults = [kinds |-> faults.kinds, left |-> faults.left]
    BY Zenon DEF Init
  <2>3. todo = {} /\ at = "next"
    BY Zenon DEF Init
  <2>4. \A w \in Withdrawal : file[w] = [f \in Fields |-> file[w][f]]
    BY <1>2, <2>1, Zenon
  <2>5. file = [w \in Withdrawal |-> file[w]]
    BY <2>1, Zenon
  <2> QED
    BY <1>2, <2>1, <2>2, <2>3, <2>4, <2>5, Zenon DEF Shapes
<1>4. \A t : ~Broadcast(t)
  <2>1. mempool \subseteq LegacyTx /\ limbo = {}
    BY Zenon DEF Init
  <2>2. Mined \subseteq Deposit
    BY BtcAssumption, Zenon DEF Init, Mined
  <2> QED
    BY <2>1, <2>2, BtcAssumption, Zenon DEF Broadcast, Seen
<1> QED
  BY <1>3, <1>4, Zenon DEF Init, RecordInv, Located

\* Steps of Bitcoin: nothing is broadcast that was not.
LEMMA BitcoinKeepsRecord ==
  ASSUME RecordInv,
         (\E t \in Deposit : Fund(t)) \/ (\E t \in mempool \cup limbo : Mine(t))
           \/ (\E t \in mempool : Evict(t)) \/ Bury \/ Reorg
  PROVE  RecordInv'
<1>0. Shapes
  BY Zenon DEF RecordInv
<1>1. ASSUME NEW t \in Deposit, Fund(t) PROVE RecordInv'
  <2>1. \A u : Broadcast(u)' => Broadcast(u)
    BY <1>1, BtcAssumption, Zenon DEF Fund, Broadcast, Seen, Mined
  <2> QED
    BY <1>0, <1>1, <2>1, OutsideStep, Zenon DEF Fund, Shapes
<1>2. ASSUME NEW t \in mempool \cup limbo, Mine(t) PROVE RecordInv'
  <2>1. DOMAIN conf' = Mined \cup {t} /\ mempool' \subseteq mempool /\ limbo' \subseteq limbo
    BY <1>2, Zenon DEF Mine
  <2>2. \A u : Broadcast(u)' => Broadcast(u)
    BY <1>2, <2>1, Zenon DEF Broadcast, Seen, Mined
  <2> QED
    BY <1>0, <1>2, <2>1, <2>2, OutsideStep, Zenon DEF Mine, Shapes
<1>3. ASSUME NEW t \in mempool, Evict(t) PROVE RecordInv'
  <2>1. Seen' \cup limbo' \subseteq Seen \cup limbo
    BY <1>3, Zenon DEF Evict, Seen, Mined
  <2>2. \A u : Broadcast(u)' => Broadcast(u)
    BY <2>1, Zenon DEF Broadcast
  <2>3. Has("evict") /\ Fault("evict")
    BY <1>3, Zenon DEF Evict, Fault, Has
  <2> QED
    BY <1>0, <1>3, <2>2, <2>3, FaultKeepsKinds, OutsideStep, Zenon DEF Evict
<1>4. ASSUME Bury PROVE RecordInv'
  <2>1. DOMAIN conf' = Mined
    BY <1>4, Zenon DEF Bury
  <2>2. \A u : Broadcast(u)' => Broadcast(u)
    BY <1>4, <2>1, Zenon DEF Bury, Broadcast, Seen, Mined
  <2> QED
    BY <1>0, <1>4, <2>2, OutsideStep, Zenon DEF Bury, Shapes
<1>5. ASSUME Reorg PROVE RecordInv'
  <2>1. Seen' \subseteq Seen
    BY <1>5, Zenon DEF Reorg, Seen, Mined
  <2>2. \A u : Broadcast(u)' => Broadcast(u)
    BY <1>5, <2>1, Zenon DEF Broadcast, Reorg
  <2> QED
    BY <1>0, <1>5, <2>2, FaultKeepsKinds, OutsideStep, Zenon DEF Reorg
<1> QED
  BY <1>1, <1>2, <1>3, <1>4, <1>5, Zenon

\* Steps of the relayer that write nothing.
LEMMA ReadingKeepsRecord ==
  ASSUME RecordInv,
         Poll \/ (\E w \in todo : Begin(w)) \/ ReadFails \/ Confirmations \/ AskFulfil
           \/ (\E r : ReadCoins(r)) \/ (\E w \in Withdrawal : Burn(w))
  PROVE  RecordInv'
<1>0. Shapes
  BY Zenon DEF RecordInv
<1>1. CASE Poll
  <2>1. Kept' = Kept /\ Has("evict")' = Has("evict") /\ (\A t : Broadcast(t)' = Broadcast(t) /\ Recorded(t)' = Recorded(t))
    BY <1>1, Zenon DEF Poll, Kept, Has, Broadcast, Recorded, Seen, Mined, bitcoin
  <2>2. Shapes' /\ Located'
    BY <1>1, Zenon DEF Poll, RecordInv, Shapes, Located, Listed
  <2>3. at' # "settle" /\ file' = file /\ mem' = mem /\ limbo' = limbo
    BY <1>1, Zenon DEF Poll, bitcoin
  <2> QED
    BY <2>1, <2>2, <2>3, Zenon DEF RecordInv
<1>2. ASSUME NEW w \in todo, Begin(w) PROVE RecordInv'
  <2>1. Located' /\ at' # "settle" /\ (at' # "next" => cur' \in Withdrawal) /\ todo' \subseteq todo
    BY <1>0, <1>2, Zenon DEF Begin, Located, Shapes
  <2> QED
    BY <1>0, <1>2, <2>1, RelayerStep, Zenon DEF Begin, Shapes
<1>3. CASE ReadFails
  <2>1. Located' /\ at' # "settle" /\ at' = "next" /\ todo' \subseteq todo
    BY <1>3, Zenon DEF ReadFails, Leave, Located
  <2> QED
    BY <1>0, <1>3, <2>1, FaultKeepsKinds, RelayerStep, Zenon DEF ReadFails
<1>4. CASE Confirmations
  <2>1. Located' /\ at' # "settle" /\ (at' # "next" => cur' \in Withdrawal) /\ todo' \subseteq todo
    BY <1>0, <1>4, Zenon DEF Confirmations, Leave, Located, Shapes
  <2> QED
    BY <1>0, <1>4, <2>1, RelayerStep, Zenon DEF Confirmations, Shapes
<1>5. CASE AskFulfil
  <2>1. Located' /\ at' # "settle" /\ at' = "next" /\ todo' \subseteq todo
    BY <1>5, Zenon DEF AskFulfil, Leave, Located
  <2>2. faults'.kinds = faults.kinds /\ faults' = [kinds |-> faults'.kinds, left |-> faults'.left]
    BY <1>0, <1>5, FaultKeepsKinds, Zenon DEF AskFulfil, Shapes
  <2> QED
    BY <1>0, <1>5, <2>1, <2>2, RelayerStep, Zenon DEF AskFulfil
<1>6. ASSUME NEW r, ReadCoins(r) PROVE RecordInv'
  <2>1. Located' /\ at' # "settle" /\ cur' \in Withdrawal /\ todo' \subseteq todo
    BY <1>0, <1>6, Zenon DEF ReadCoins, Located, Shapes, RecordInv
  <2>2. faults'.kinds = faults.kinds /\ faults' = [kinds |-> faults'.kinds, left |-> faults'.left]
    BY <1>0, <1>6, FaultKeepsKinds, Zenon DEF ReadCoins, Shapes
  <2> QED
    BY <1>0, <1>6, <2>1, <2>2, RelayerStep, Zenon DEF ReadCoins
<1>7. ASSUME NEW w \in Withdrawal, Burn(w) PROVE RecordInv'
  <2>1. \A u : Broadcast(u)' => Broadcast(u)
    BY <1>7, Zenon DEF Burn, Broadcast, Seen, Mined, bitcoin
  <2> QED
    BY <1>0, <1>7, <2>1, OutsideStep, Zenon DEF Burn, bitcoin, Shapes
<1> QED
  BY <1>1, <1>2, <1>3, <1>4, <1>5, <1>6, <1>7, Zenon

\* Steps of the relayer that write the entry of a withdrawal.
LEMMA WritingKeepsRecord ==
  ASSUME RecordInv, Known \/ Scan \/ Plan \/ SettleBroadcast PROVE RecordInv'
<1>0. Shapes /\ Located
  BY Zenon DEF RecordInv
<1> DEFINE e == mem[cur]
<1>1. at # "next" => e = [f \in Fields |-> e[f]]
  BY <1>0, Zenon DEF Shapes
<1>2. CASE Known
  <2>1. CASE TxKnown(e.planned)
    <3>1. Put(Accepted(e), Leave) /\ UNCHANGED bitcoin /\ at = "known"
      BY <1>2, <2>1, Zenon DEF Known
    <3>2. /\ Accepted(e) = [f \in Fields |-> Accepted(e)[f]]
          /\ Accepted(e).txid = e.planned /\ Accepted(e).planned = None /\ e.txid = None
      BY <1>0, <1>1, <3>1, Zenon DEF Accepted, Fields, Located
    <3> QED
      BY <3>1, <3>2, PutLeave, Zenon
  <2>2. CASE ~TxKnown(e.planned)
    <3>1. Located' /\ at' # "settle" /\ cur' \in Withdrawal
      BY <1>0, <1>2, <2>2, Zenon DEF Known, Located, Shapes
    <3> QED
      BY <1>0, <1>2, <2>2, <3>1, RelayerStep, Zenon DEF Known, Shapes
  <2> QED
    BY <2>1, <2>2, Zenon
<1>3. CASE Scan
  <2>1. at = "scan" /\ UNCHANGED bitcoin /\ e.txid = None /\ e.planned = None
    BY <1>0, <1>3, Zenon DEF Scan, Located
  <2>2. ASSUME NEW t, Put([e EXCEPT !.txid = t, !.legacy = FALSE], Leave) PROVE RecordInv'
    <3> DEFINE n == [e EXCEPT !.txid = t, !.legacy = FALSE]
    <3>1. n = [f \in Fields |-> n[f]] /\ n.planned = e.planned
      BY <1>1, <2>1, Zenon DEF Fields
    <3> QED
      BY <2>1, <2>2, <3>1, PutLeave, Zenon
  <2>3. ASSUME Put([e EXCEPT !.review = TRUE], Leave) PROVE RecordInv'
    <3> DEFINE n == [e EXCEPT !.review = TRUE]
    <3>1. n = [f \in Fields |-> n[f]] /\ n.planned = e.planned
      BY <1>1, <2>1, Zenon DEF Fields
    <3> QED
      BY <2>1, <2>3, <3>1, PutLeave, Zenon
  <2>4. ASSUME UNCHANGED <<mem, file, faults>>,
               Leave \/ (at' = "build" /\ UNCHANGED <<todo, cur, answer>>)
        PROVE  RecordInv'
    <3>1. Located' /\ at' # "settle" /\ (at' # "next" => cur' \in Withdrawal) /\ todo' \subseteq todo
      BY <1>0, <2>1, <2>4, Zenon DEF Leave, Located, Shapes
    <3> QED
      BY <1>0, <2>1, <2>4, <3>1, RelayerStep, Zenon DEF Shapes
  <2> QED
    BY <1>3, <2>2, <2>3, <2>4, Zenon DEF Scan
<1>4. CASE Plan
  <2>1. at = "plan" /\ UNCHANGED bitcoin /\ e.txid = None /\ e.planned = None /\ cur \in Withdrawal
    BY <1>0, <1>4, Zenon DEF Plan, Located, Shapes
  <2>2. ASSUME Leave, UNCHANGED <<mem, file, faults>> PROVE RecordInv'
    <3>1. Located' /\ at' = "next" /\ todo' \subseteq todo
      BY <2>2, Zenon DEF Leave, Located
    <3> QED
      BY <1>0, <2>1, <2>2, <3>1, RelayerStep, Zenon DEF Shapes
  <2>3. ASSUME Put([e EXCEPT !.review = TRUE], Leave) PROVE RecordInv'
    <3> DEFINE n == [e EXCEPT !.review = TRUE]
    <3>1. n = [f \in Fields |-> n[f]] /\ n.planned = e.planned
      BY <1>1, <2>1, Zenon DEF Fields
    <3> QED
      BY <2>1, <2>3, <3>1, PutLeave, Zenon
  <2>4. ASSUME NEW tx, Put([e EXCEPT !.planned = tx, !.attempts = @ + 1],
                           at' = "send" /\ answer' = None /\ UNCHANGED <<todo, cur>>)
        PROVE  RecordInv'
    <3> DEFINE n == [e EXCEPT !.planned = tx, !.attempts = @ + 1]
    <3>1. n = [f \in Fields |-> n[f]] /\ n.txid = None
      BY <1>1, <2>1, Zenon DEF Fields
    <3>2. CASE mem' = [mem EXCEPT ![cur] = n] /\ Fault("io") /\ UNCHANGED file /\ Leave
      <4>1. Put(n, Leave)
        BY <3>2, Zenon DEF Put
      <4> QED
        BY <2>1, <3>1, <4>1, PutLeave, Zenon
    <3>3. CASE /\ mem' = [mem EXCEPT ![cur] = n] /\ file' = mem' /\ UNCHANGED faults
               /\ at' = "send" /\ answer' = None /\ UNCHANGED <<todo, cur>>
      <4>1. mem'[cur] = n
        BY <1>0, <2>1, <3>3, Zenon DEF Shapes
      <4>2. Located'
        BY <3>1, <3>3, <4>1, Zenon DEF Located
      <4> HIDE DEF n
      <4> QED
        BY <1>0, <2>1, <3>1, <3>3, <4>2, RelayerStep, Zenon DEF Shapes
    <3> QED
      BY <2>4, <3>2, <3>3, Zenon DEF Put
  <2> QED
    BY <1>4, <2>2, <2>3, <2>4, Zenon DEF Plan
<1>5. CASE SettleBroadcast
  <2>1. /\ at = "settle" /\ UNCHANGED bitcoin /\ e.txid = None
        /\ answer \in {"accepted", "unknown", "spent", "rejected"}
    BY <1>0, <1>5, Zenon DEF SettleBroadcast, Located
  <2>2. CASE answer = "accepted"
    <3>1. Put(Accepted(e), Leave)
      BY <1>5, <2>2, Zenon DEF SettleBroadcast
    <3>2. /\ Accepted(e) = [f \in Fields |-> Accepted(e)[f]]
          /\ Accepted(e).txid = e.planned /\ Accepted(e).planned = None
      BY <1>1, <2>1, Zenon DEF Accepted, Fields
    <3> QED
      BY <2>1, <3>1, <3>2, PutLeave, Zenon
  <2>3. CASE answer = "unknown"
    <3>1. Put(e, Leave)
      BY <1>5, <2>3, Zenon DEF SettleBroadcast
    <3> QED
      BY <1>1, <2>1, <3>1, PutLeave, Zenon
  <2>4. CASE answer = "spent"
    <3> DEFINE n == [e EXCEPT !.review = TRUE]
    <3>1. Put(n, Leave)
      BY <1>5, <2>4, Zenon DEF SettleBroadcast
    <3>2. n = [f \in Fields |-> n[f]] /\ n.planned = e.planned /\ n.txid = e.txid
      BY <1>1, <2>1, Zenon DEF Fields
    <3> QED
      BY <2>1, <3>1, <3>2, PutLeave, Zenon
  <2>5. CASE answer = "rejected"
    <3> DEFINE n == [e EXCEPT !.planned = None]
    <3>1. Put(n, Leave)
      BY <1>5, <2>5, Zenon DEF SettleBroadcast
    <3>2. n = [f \in Fields |-> n[f]] /\ n.txid = e.txid
      BY <1>1, <2>1, Zenon DEF Fields
    <3>3. Kept => ~Broadcast(e.planned)
      BY <2>1, <2>5, Zenon DEF RecordInv
    <3> QED
      BY <2>1, <3>1, <3>2, <3>3, PutLeave, Zenon
  <2> QED
    BY <2>1, <2>2, <2>3, <2>4, <2>5, Zenon
<1> QED
  BY <1>2, <1>3, <1>4, <1>5, Zenon

\* The broadcast itself: what reaches the network was saved before.
LEMMA SendKeepsRecord ==
  ASSUME RecordInv, Send PROVE RecordInv'
<1> DEFINE t == mem[cur].planned
<1>0. Shapes /\ Located /\ at = "send" /\ cur \in Withdrawal
  BY Zenon DEF RecordInv, Send, Shapes
<1>1. UNCHANGED <<mem, file, todo, cur>> /\ at' = "settle"
  BY Zenon DEF Send
<1>2. faults'.kinds = faults.kinds /\ faults' = [kinds |-> faults'.kinds, left |-> faults'.left]
  BY <1>0, FaultKeepsKinds, Zenon DEF Send, Shapes
<1>3. Kept' = Kept /\ Has("evict")' = Has("evict")
  BY <1>2, Zenon DEF Kept, Has
<1>4. answer' \in {"accepted", "unknown", "spent", "rejected"}
  BY Zenon DEF Send, Reply
<1>5. Shapes' /\ Located'
  BY <1>0, <1>1, <1>2, <1>4, Zenon DEF Shapes, Located
<1>6. limbo' \subseteq limbo /\ conf' = conf /\ mempool' \subseteq mempool \cup {t}
  BY Zenon DEF Send, bitcoin
<1>7. \A u : Broadcast(u)' => Broadcast(u) \/ u = t
  BY <1>6, Zenon DEF Broadcast, Seen, Mined
<1>8. ASSUME Kept PROVE \A u : Broadcast(u)' => Recorded(u)'
  <2>1. \A u : Broadcast(u)' => Recorded(u)
    BY <1>0, <1>7, <1>8, Zenon DEF RecordInv, Recorded
  <2> QED
    BY <1>1, <2>1, Zenon DEF Recorded
<1>9. ASSUME Kept, answer' = "rejected" PROVE ~Has("evict") /\ ~Broadcast(mem[cur].planned)'
  <2>1. Fault("reject") /\ ~TxKnown(t) /\ UNCHANGED bitcoin
    BY <1>9, Zenon DEF Send, Reply
  <2>2. ~Has("evict") /\ limbo = {}
    BY <1>9, <2>1, Zenon DEF Fault, Kept, Has, RecordInv
  <2>3. ~Broadcast(t)
    BY <2>1, <2>2, Zenon DEF Broadcast, TxKnown
  <2>4. Broadcast(mem[cur].planned)' = Broadcast(t)
    BY <1>1, <2>1, Zenon DEF Broadcast, Seen, Mined, bitcoin
  <2> QED
    BY <2>2, <2>3, <2>4, Zenon
<1>10. Kept => file' = mem' /\ (Has("evict") \/ limbo' = {})
  BY <1>1, <1>6, Zenon DEF RecordInv
<1> QED
  BY <1>1, <1>3, <1>5, <1>8, <1>9, <1>10, Zenon DEF RecordInv

\* The relayer restarts from the file, which is all it had in memory.
LEMMA CrashKeepsRecord ==
  ASSUME RecordInv, Crash PROVE RecordInv'
<1>0. Shapes
  BY Zenon DEF RecordInv
<1>1. faults'.kinds = faults.kinds /\ faults' = [kinds |-> faults'.kinds, left |-> faults'.left]
  BY <1>0, FaultKeepsKinds, Zenon DEF Crash
<1>2. Kept' = Kept /\ Has("evict")' = Has("evict")
  BY <1>1 DEF Kept, Has
<1>3. file' = mem' /\ at' = "next" /\ todo' = {} /\ UNCHANGED bitcoin
  BY Zenon DEF Crash
<1>4. Kept => mem' = mem
  BY Zenon DEF Crash, Fault, Kept, Has, RecordInv
<1>5. Shapes'
  <2>1. CASE mem' = file
    BY <1>0, <1>1, <1>3, <2>1, Zenon DEF Shapes
  <2>2. CASE mem' = [w \in Withdrawal |-> NoEntry]
    <3>1. NoEntry = [f \in Fields |-> NoEntry[f]]
      BY Zenon DEF NoEntry, Fields
    <3>2. mem' = [w \in Withdrawal |-> mem'[w]] /\ file' = [w \in Withdrawal |-> file'[w]]
      BY <1>3, <2>2, Zenon
    <3>3. \A w \in Withdrawal : mem'[w] = NoEntry /\ file'[w] = NoEntry
      BY <1>3, <2>2, Zenon
    <3>4. /\ \A w \in Withdrawal : mem'[w] = [f \in Fields |-> mem'[w][f]]
          /\ \A w \in Withdrawal : file'[w] = [f \in Fields |-> file'[w][f]]
      BY <3>1, <3>3, Zenon
    <3> QED
      BY <1>1, <1>3, <3>2, <3>4, Zenon DEF Shapes
  <2> QED
    BY <2>1, <2>2, Zenon DEF Crash
<1>6. ASSUME Kept PROVE \A t : Broadcast(t)' => Recorded(t)'
  <2>1. \A t : Broadcast(t)' = Broadcast(t) /\ Recorded(t)' = Recorded(t)
    BY <1>3, <1>4, <1>6, Zenon DEF Broadcast, Recorded, Seen, Mined, bitcoin
  <2> QED
    BY <1>6, <2>1, Zenon DEF RecordInv
<1>7. Kept => Has("evict") \/ limbo' = {}
  BY <1>3, Zenon DEF RecordInv, bitcoin
<1> QED
  BY <1>2, <1>3, <1>5, <1>6, <1>7, Zenon DEF RecordInv, Located

LEMMA RecordInvHolds == Spec => []RecordInv
<1>1. Init => RecordInv
  BY InitRecord, Zenon
<1>2. ASSUME RecordInv, [Next]_vars PROVE RecordInv'
  <2>1. CASE UNCHANGED vars
    <3>1. \A u : Broadcast(u)' => Broadcast(u)
      BY <2>1, Zenon DEF vars, bitcoin, Broadcast, Seen, Mined
    <3>2. UNCHANGED relayer /\ faults' = faults /\ limbo' \subseteq limbo
      BY <2>1, Zenon DEF vars, bitcoin
    <3>3. faults = [kinds |-> faults.kinds, left |-> faults.left]
      BY <1>2, Zenon DEF RecordInv, Shapes
    <3>4. faults'.kinds = faults.kinds /\ faults' = [kinds |-> faults'.kinds, left |-> faults'.left]
      BY <3>2, <3>3, Zenon
    <3> QED
      BY <1>2, <3>1, <3>2, <3>4, OutsideStep, Zenon
  <2>2. CASE (\E t \in Deposit : Fund(t)) \/ (\E t \in mempool \cup limbo : Mine(t))
             \/ (\E t \in mempool : Evict(t)) \/ Bury \/ Reorg
    BY <1>2, <2>2, BitcoinKeepsRecord, Zenon
  <2>3. CASE Poll \/ (\E w \in todo : Begin(w)) \/ ReadFails \/ Confirmations \/ AskFulfil
             \/ (\E r : ReadCoins(r)) \/ (\E w \in Withdrawal : Burn(w))
    BY <1>2, <2>3, ReadingKeepsRecord, Zenon
  <2>4. CASE Known \/ Scan \/ Plan \/ SettleBroadcast
    BY <1>2, <2>4, WritingKeepsRecord, Zenon
  <2>5. CASE Send
    BY <1>2, <2>5, SendKeepsRecord, Zenon
  <2>6. CASE Crash
    BY <1>2, <2>6, CrashKeepsRecord, Zenon
  <2> QED
    BY <1>2, <2>1, <2>2, <2>3, <2>4, <2>5, <2>6, Zenon DEF Next, Relay
<1> QED
  BY <1>1, <1>2, PTL DEF Spec

(* Every payout that reached the network is in the relayer's state file, for every set of
   withdrawals, coins, fee rates and faults (OnRecord): "Save the signed bytes BEFORE they leave
   this machine". *)
THEOREM PayoutsStayOnRecord == Spec => []OnRecord
<1>1. RecordInv => OnRecord
  <2>1. SUFFICES ASSUME RecordInv, Kept, NEW t \in Seen \cup limbo, t.ins # {}, t \notin LegacyTx
                 PROVE  \E w \in Withdrawal : t \in {file[w].planned, file[w].txid}
    BY Zenon DEF OnRecord, Kept
  <2> QED
    BY <2>1, Zenon DEF RecordInv, Broadcast, Recorded
<1> QED
  BY <1>1, RecordInvHolds, PTL

-----------------------------------------------------------------------------
(* A signed transaction is not the mark of an absent one.  TLC's model values are no records;
   the proofs that a plan is a plan need it said. *)
NoneIsNoTx == \A ins, to, pay, chg : [ins |-> ins, to |-> to, pay |-> pay, chg |-> chg] # None

Single(e) == e.txid = None \/ e.planned = None

BitcoinTypes == mempool \cap Mined = {} /\ limbo \cap Seen = {}

DaemonTypes ==
  /\ status \in [Withdrawal -> {"none", "pending", "fulfilled"}]
  /\ todo \subseteq Burned

RelayerTypes ==
  /\ at \in {"next", "confirmations", "fulfil", "known", "scan", "build", "plan", "send", "settle"}
  /\ IF at = "next" THEN cur = None ELSE cur \in todo
  /\ \A w \in Withdrawal : Single(mem[w]) /\ Single(file[w])
  /\ at \in {"known", "send", "settle"} => mem[cur].planned # None

LEMMA BitcoinTypesKept ==
  ASSUME BitcoinTypes, [Next]_vars
  PROVE  BitcoinTypes'
<1>1. CASE UNCHANGED bitcoin
  BY <1>1, Zenon DEF BitcoinTypes, Seen, Mined, bitcoin
<1>2. ASSUME NEW t \in Deposit, Fund(t) PROVE BitcoinTypes'
  BY <1>2, Zenon DEF Fund, BitcoinTypes, Seen, Mined
<1>3. ASSUME NEW t \in mempool \cup limbo, Mine(t) PROVE BitcoinTypes'
  <2>1. /\ DOMAIN conf' = Mined \cup {t} /\ mempool' \subseteq mempool \ {t} /\ limbo' \subseteq limbo \ {t}
    BY <1>3, Zenon DEF Mine
  <2> QED
    BY <2>1, Zenon DEF BitcoinTypes, Seen, Mined
<1>4. ASSUME NEW t \in mempool, Evict(t) PROVE BitcoinTypes'
  <2>1. PICK gone \in SUBSET mempool : mempool' = mempool \ gone /\ limbo' = limbo \cup gone /\ conf' = conf
    BY <1>4, Zenon DEF Evict
  <2> QED
    BY <2>1, Zenon DEF BitcoinTypes, Seen, Mined
<1>5. ASSUME Bury PROVE BitcoinTypes'
  <2>1. DOMAIN conf' = Mined /\ UNCHANGED <<mempool, limbo>>
    BY <1>5, Zenon DEF Bury
  <2> QED
    BY <2>1, Zenon DEF BitcoinTypes, Seen, Mined
<1>6. ASSUME Reorg PROVE BitcoinTypes'
  <2>1. PICK tip \in SUBSET Mined : DOMAIN conf' = Mined \ tip /\ mempool' = mempool \cup tip /\ limbo' = limbo
    BY <1>6, Zenon DEF Reorg
  <2> QED
    BY <2>1, Zenon DEF BitcoinTypes, Seen, Mined
<1>7. ASSUME Send PROVE BitcoinTypes'
  <2>1. \/ UNCHANGED bitcoin
        \/ \E t : ~TxKnown(t) /\ mempool' = mempool \cup {t} /\ limbo' = limbo \ {t} /\ UNCHANGED conf
    BY <1>7, Zenon DEF Send
  <2>2. ASSUME NEW t, ~TxKnown(t), mempool' = mempool \cup {t}, limbo' = limbo \ {t}, UNCHANGED conf
        PROVE  BitcoinTypes'
    BY <2>2, Zenon DEF BitcoinTypes, Seen, Mined, TxKnown
  <2> QED
    BY <1>1, <2>1, <2>2, Zenon
<1>8. CASE \/ UNCHANGED vars \/ (\E w \in Withdrawal : Burn(w)) \/ Poll \/ (\E w \in todo : Begin(w))
           \/ Confirmations \/ AskFulfil \/ Known \/ Scan \/ (\E r : ReadCoins(r)) \/ Plan
           \/ SettleBroadcast \/ ReadFails \/ Crash
  <2>1. UNCHANGED bitcoin
    BY <1>8, Zenon DEF vars, Burn, Poll, Begin, Confirmations, AskFulfil, Known, Scan, ReadCoins, Plan,
                SettleBroadcast, ReadFails, Crash
  <2> QED
    BY <1>1, <2>1, Zenon
<1> QED
  BY <1>2, <1>3, <1>4, <1>5, <1>6, <1>7, <1>8, Zenon DEF Next, Relay

\* What the steps of the relayer do to its list.
LEMMA ListSteps ==
  ASSUME [Next]_vars
  PROVE  \/ todo' \subseteq todo /\ UNCHANGED status
         \/ Poll \/ AskFulfil \/ \E w \in Withdrawal : Burn(w)
<1>1. CASE \/ UNCHANGED vars \/ (\E t \in Deposit : Fund(t)) \/ (\E t \in mempool \cup limbo : Mine(t))
           \/ (\E t \in mempool : Evict(t)) \/ Bury \/ Reorg
  BY <1>1, Zenon DEF vars, daemon, relayer, Fund, Mine, Evict, Bury, Reorg
<1>2. CASE (\E w \in todo : Begin(w)) \/ Confirmations \/ (\E r : ReadCoins(r)) \/ ReadFails \/ Send \/ Crash
  BY <1>2, Zenon DEF daemon, Begin, Confirmations, ReadCoins, ReadFails, Send, Crash, Leave
<1>3. CASE Known \/ Scan \/ Plan \/ SettleBroadcast
  <2>1. todo' = todo \/ todo' = todo \ {cur}
    BY <1>3, Zenon DEF Known, Scan, Plan, SettleBroadcast, Put, Leave
  <2>2. UNCHANGED status
    BY <1>3, Zenon DEF daemon, Known, Scan, Plan, SettleBroadcast
  <2> QED
    BY <2>1, <2>2, Zenon
<1> QED
  BY <1>1, <1>2, <1>3, Zenon DEF Next, Relay

LEMMA DaemonTypesKept ==
  ASSUME Shapes, DaemonTypes, [Next]_vars
  PROVE  DaemonTypes'
<1>1. CASE todo' \subseteq todo /\ UNCHANGED status
  BY <1>1, Zenon DEF DaemonTypes, Burned
<1>2. CASE Poll
  <2>1. todo' = Listed /\ UNCHANGED status
    BY <1>2, Zenon DEF Poll, daemon
  <2>2. Listed \subseteq Burned
    BY Zenon DEF Listed, Burned
  <2> QED
    BY <2>1, <2>2, Zenon DEF DaemonTypes, Burned
<1>3. ASSUME NEW w \in Withdrawal, Burn(w) PROVE DaemonTypes'
  <2>1. todo' = todo /\ status' = [status EXCEPT ![w] = "pending"]
    BY <1>3, Zenon DEF Burn, relayer
  <2> QED
    BY <2>1, Zenon DEF DaemonTypes, Burned
<1>4. CASE AskFulfil
  <2>1. todo' \subseteq todo /\ (UNCHANGED status \/ status' = [status EXCEPT ![cur] = "fulfilled"])
    BY <1>4, Zenon DEF AskFulfil, Leave, Fulfil
  <2> QED
    BY <2>1, Zenon DEF DaemonTypes, Burned
<1> QED
  BY <1>1, <1>2, <1>3, <1>4, ListSteps, Zenon

\* A step that writes no entry, or leaves the withdrawal with an entry of one payout at most.
LEMMA RelayerTypesStep ==
  ASSUME RelayerTypes, Shapes,
         \/ at' = "next" /\ cur' = None
         \/ /\ at' \in {"confirmations", "fulfil", "known", "scan", "build", "plan", "send", "settle"}
            /\ cur' \in todo'
            /\ at' \in {"known", "send", "settle"} => mem'[cur'].planned # None,
         \/ mem' = mem
         \/ cur \in Withdrawal /\ \E e : Single(e) /\ mem' = [mem EXCEPT ![cur] = e],
         file' = file \/ file' = mem'
  PROVE  RelayerTypes'
<1>1. \A w \in Withdrawal : Single(mem'[w])
  BY Zenon DEF RelayerTypes, Shapes
<1>2. \A w \in Withdrawal : Single(mem'[w]) /\ Single(file'[w])
  BY <1>1, Zenon DEF RelayerTypes
<1>3. at' = "next" => cur' = None
  BY Zenon
<1> QED
  BY <1>2, <1>3, Zenon DEF RelayerTypes, Single

LEMMA PutLeaveTypes ==
  ASSUME RelayerTypes, Shapes, at # "next", NEW e, Single(e), Put(e, Leave)
  PROVE  RelayerTypes'
<1>1. mem' = [mem EXCEPT ![cur] = e] /\ (file' = file \/ file' = mem') /\ Leave
  BY Zenon DEF Put
<1>2. cur \in Withdrawal /\ at' = "next" /\ cur' = None
  BY <1>1, Zenon DEF Shapes, Leave
<1> QED
  BY <1>1, <1>2, RelayerTypesStep, Zenon

LEMMA RelayerTypesKept ==
  ASSUME NoneIsNoTx, RecordInv, RelayerTypes, [Next]_vars
  PROVE  RelayerTypes'
<1>0. Shapes /\ Located
  BY Zenon DEF RecordInv
<1> DEFINE e == mem[cur]
<1>1. at # "next" => cur \in todo /\ cur \in Withdrawal /\ Single(e) /\ e = [f \in Fields |-> e[f]]
  BY <1>0, Zenon DEF RelayerTypes, Shapes
<1>2. ASSUME UNCHANGED <<mem, file>>, Leave PROVE RelayerTypes'
  BY <1>0, <1>2, RelayerTypesStep, Zenon DEF Leave
<1>3. CASE \/ UNCHANGED vars \/ (\E t \in Deposit : Fund(t)) \/ (\E t \in mempool \cup limbo : Mine(t))
           \/ (\E t \in mempool : Evict(t)) \/ Bury \/ Reorg \/ (\E w \in Withdrawal : Burn(w))
  <2>1. UNCHANGED relayer
    BY <1>3, Zenon DEF vars, Fund, Mine, Evict, Bury, Reorg, Burn
  <2> QED
    BY <2>1, Zenon DEF relayer, RelayerTypes
<1>4. CASE Poll
  <2>1. at = "next" /\ UNCHANGED <<mem, file, at, cur>>
    BY <1>4, Zenon DEF Poll
  <2>2. at' = "next" /\ cur' = None
    BY <2>1, Zenon DEF RelayerTypes
  <2> QED
    BY <1>0, <2>1, <2>2, RelayerTypesStep, Zenon
<1>5. ASSUME NEW w \in todo, Begin(w) PROVE RelayerTypes'
  <2>1. UNCHANGED <<mem, file>> /\ at = "next" /\ cur = None
    BY <1>5, Zenon DEF Begin, RelayerTypes
  <2>2. \/ at' = "next" /\ cur' = None
        \/ /\ cur' = w /\ todo' = todo
           /\ at' \in {"confirmations", "known", "scan"} /\ (at' = "known" => mem[w].planned # None)
    BY <1>5, <2>1, Zenon DEF Begin
  <2>3. \/ at' = "next" /\ cur' = None
        \/ /\ at' \in {"confirmations", "fulfil", "known", "scan", "build", "plan", "send", "settle"}
           /\ cur' \in todo' /\ (at' \in {"known", "send", "settle"} => mem'[cur'].planned # None)
    BY <2>1, <2>2
  <2> QED
    BY <1>0, <2>1, <2>3, RelayerTypesStep, Zenon
<1>6. CASE ReadFails \/ AskFulfil
  BY <1>2, <1>6, Zenon DEF ReadFails, AskFulfil
<1>7. ASSUME UNCHANGED <<mem, file, todo, cur>>, at # "next", at' \in {"fulfil", "build", "plan"}
      PROVE  RelayerTypes'
  <2>1. /\ at' \in {"confirmations", "fulfil", "known", "scan", "build", "plan", "send", "settle"}
        /\ cur' \in todo' /\ ~(at' \in {"known", "send", "settle"})
    BY <1>1, <1>7, Zenon
  <2> QED
    BY <1>0, <1>7, <2>1, RelayerTypesStep, Zenon
<1>8. CASE Confirmations \/ \E r : ReadCoins(r)
  <2>1. /\ at # "next" /\ UNCHANGED <<mem, file>>
        /\ Leave \/ (at' \in {"fulfil", "build", "plan"} /\ UNCHANGED <<todo, cur>>)
    BY <1>8, Zenon DEF Confirmations, ReadCoins
  <2> QED
    BY <1>2, <1>7, <2>1, Zenon
<1>9. ASSUME UNCHANGED <<mem, file, todo, cur>>, at \in {"known", "send"}, at' \in {"send", "settle"}
      PROVE  RelayerTypes'
  <2>1. /\ at' \in {"confirmations", "fulfil", "known", "scan", "build", "plan", "send", "settle"}
        /\ cur' \in todo' /\ mem'[cur'].planned # None
    BY <1>1, <1>9, Zenon DEF RelayerTypes
  <2> QED
    BY <1>0, <1>9, <2>1, RelayerTypesStep, Zenon
<1>10. CASE Send
  <2>1. UNCHANGED <<mem, file, todo, cur>> /\ at = "send" /\ at' = "settle"
    BY <1>10, Zenon DEF Send
  <2> QED
    BY <1>9, <2>1, Zenon
<1>11. CASE Known
  <2>1. at = "known"
    BY <1>11, Zenon DEF Known
  <2>2. Single(Accepted(e))
    BY <1>1, <2>1, Zenon DEF Accepted, Single, Fields
  <2>3. \/ Put(Accepted(e), Leave)
        \/ at' = "send" /\ UNCHANGED <<mem, file, todo, cur>>
    BY <1>11, Zenon DEF Known
  <2>4. CASE at' = "send" /\ UNCHANGED <<mem, file, todo, cur>>
    BY <1>9, <2>1, <2>4, Zenon
  <2>5. at # "next"
    BY <2>1, Zenon
  <2> QED
    BY <1>0, <2>2, <2>3, <2>4, <2>5, PutLeaveTypes, Zenon
<1>12. CASE Scan
  <2>0. at = "scan"
    BY <1>12, Zenon DEF Scan
  <2>1. at # "next" /\ e.txid = None /\ e.planned = None
    BY <1>0, <2>0, Zenon DEF Located
  <2>2. ASSUME NEW t, Put([e EXCEPT !.txid = t, !.legacy = FALSE], Leave) PROVE RelayerTypes'
    <3>1. Single([e EXCEPT !.txid = t, !.legacy = FALSE])
      BY <1>1, <2>1, Zenon DEF Single, Fields
    <3> QED
      BY <1>0, <2>1, <2>2, <3>1, PutLeaveTypes, Zenon
  <2>3. ASSUME Put([e EXCEPT !.review = TRUE], Leave) PROVE RelayerTypes'
    <3>1. Single([e EXCEPT !.review = TRUE])
      BY <1>1, <2>1, Zenon DEF Single, Fields
    <3> QED
      BY <1>0, <2>1, <2>3, <3>1, PutLeaveTypes, Zenon
  <2>4. ASSUME at' = "build", UNCHANGED <<mem, file, todo, cur>> PROVE RelayerTypes'
    BY <1>7, <2>1, <2>4, Zenon
  <2> QED
    BY <1>2, <1>12, <2>2, <2>3, <2>4, Zenon DEF Scan
<1>13. CASE Plan
  <2>0. at = "plan"
    BY <1>13, Zenon DEF Plan
  <2>1. at # "next" /\ e.txid = None /\ e.planned = None
    BY <1>0, <2>0, Zenon DEF Located
  <2>2. ASSUME Put([e EXCEPT !.review = TRUE], Leave) PROVE RelayerTypes'
    <3>1. Single([e EXCEPT !.review = TRUE])
      BY <1>1, <2>1 DEF Single, Fields
    <3> QED
      BY <1>0, <2>1, <2>2, <3>1, PutLeaveTypes, Zenon
  <2>3. ASSUME NEW tx, tx # None,
               Put([e EXCEPT !.planned = tx, !.attempts = @ + 1],
                   at' = "send" /\ answer' = None /\ UNCHANGED <<todo, cur>>)
        PROVE  RelayerTypes'
    <3> DEFINE n == [e EXCEPT !.planned = tx, !.attempts = @ + 1]
    <3>1. Single(n) /\ n.planned = tx
      BY <1>1, <2>1, Zenon DEF Single, Fields
    <3> HIDE DEF n
    <3>2. /\ mem' = [mem EXCEPT ![cur] = n] /\ (file' = file \/ file' = mem')
          /\ Leave \/ (at' = "send" /\ UNCHANGED <<todo, cur>>)
      BY <2>3, Zenon DEF Put, n
    <3>3. mem'[cur] = n
      BY <1>0, <1>1, <2>1, <3>2, Zenon DEF Shapes
    <3>4. \/ at' = "next" /\ cur' = None
          \/ /\ at' \in {"confirmations", "fulfil", "known", "scan", "build", "plan", "send", "settle"}
             /\ cur' \in todo' /\ mem'[cur'].planned # None
      BY <1>1, <2>1, <2>3, <3>1, <3>2, <3>3, Zenon DEF Leave
    <3> QED
      BY <1>0, <1>1, <2>1, <3>1, <3>2, <3>4, RelayerTypesStep, Zenon
  <2>4. \/ Leave /\ UNCHANGED <<mem, file>>
        \/ Put([e EXCEPT !.review = TRUE], Leave)
        \/ \E ins, to, pay, chg :
             Put([e EXCEPT !.planned = [ins |-> ins, to |-> to, pay |-> pay, chg |-> chg], !.attempts = @ + 1],
                 at' = "send" /\ answer' = None /\ UNCHANGED <<todo, cur>>)
    BY <1>13, Zenon DEF Plan
  <2> QED
    BY <1>2, <2>2, <2>3, <2>4, Zenon DEF NoneIsNoTx
<1>14. CASE SettleBroadcast
  <2>0. at = "settle"
    BY <1>14, Zenon DEF SettleBroadcast
  <2>1. at # "next" /\ e.txid = None /\ answer \in {"accepted", "unknown", "spent", "rejected"}
    BY <1>0, <2>0, Zenon DEF Located
  <2>2. Single(Accepted(e)) /\ Single(e) /\ Single([e EXCEPT !.review = TRUE]) /\ Single([e EXCEPT !.planned = None])
    BY <1>1, <2>1, Zenon DEF Accepted, Single, Fields
  <2>3. \/ Put(Accepted(e), Leave) \/ Put(e, Leave)
        \/ Put([e EXCEPT !.review = TRUE], Leave) \/ Put([e EXCEPT !.planned = None], Leave)
    BY <1>14, <2>1, Zenon DEF SettleBroadcast
  <2> QED
    BY <1>0, <2>1, <2>2, <2>3, PutLeaveTypes, Zenon
<1>15. CASE Crash
  <2>1. at' = "next" /\ cur' = None /\ file' = mem' /\ (mem' = file \/ mem' = [w \in Withdrawal |-> NoEntry])
    BY <1>15, Zenon DEF Crash
  <2>2. NoEntry.txid = None
    BY Zenon DEF NoEntry
  <2>3. \A w \in Withdrawal : Single(mem'[w])
    BY <2>1, <2>2, Zenon DEF RelayerTypes, Single
  <2> QED
    BY <2>1, <2>3, Zenon DEF RelayerTypes, Single
<1> QED
  BY <1>3, <1>4, <1>5, <1>6, <1>8, <1>10, <1>11, <1>12, <1>13, <1>14, <1>15, Zenon DEF Next, Relay

LEMMA TypesInit ==
  ASSUME Init
  PROVE  BitcoinTypes /\ DaemonTypes /\ RelayerTypes
<1>1. PICK old \in SUBSET Withdrawal :
        /\ mem = [w \in Withdrawal |-> [NoEntry EXCEPT !.legacy = w \in old]]
        /\ status = [w \in Withdrawal |-> IF w \in old THEN "pending" ELSE "none"]
  BY Zenon DEF Init
<1>2. BitcoinTypes
  <2>1. Mined \subseteq Deposit /\ mempool \subseteq LegacyTx /\ limbo = {}
    BY BtcAssumption, Zenon DEF Init, Mined
  <2> QED
    BY <2>1, BtcAssumption, Zenon DEF BitcoinTypes
<1>3. DaemonTypes
  BY <1>1, Zenon DEF Init, DaemonTypes
<1>4. RelayerTypes
  BY <1>1, Zenon DEF Init, RelayerTypes, Single, NoEntry
<1> QED
  BY <1>2, <1>3, <1>4, Zenon

(* The variables keep their types; a transaction is in one place of Bitcoin; a withdrawal has a
   plan or a transaction, never both; and whenever the relayer sends or settles it has signed
   (processBtcWithdrawal). *)
THEOREM BtcTypes ==
  ASSUME NoneIsNoTx PROVE Spec => []TypeOK
<1> DEFINE Types == BitcoinTypes /\ DaemonTypes /\ RelayerTypes
<1>1. Init => Types
  BY TypesInit, Zenon
<1>2. RecordInv /\ Types /\ [Next]_vars => Types'
  BY BitcoinTypesKept, DaemonTypesKept, RelayerTypesKept, Zenon DEF RecordInv
<1>3. Types => TypeOK
  BY Zenon DEF TypeOK, BitcoinTypes, DaemonTypes, RelayerTypes, Single
<1> HIDE DEF Types
<1> QED
  BY <1>1, <1>2, <1>3, RecordInvHolds, PTL DEF Spec

-----------------------------------------------------------------------------
(* No two payouts of the relayer spend one coin. *)
Payouts(e) == {e.planned, e.txid} \ {None}

\* Two transactions that are not one spend no coin together.
Compatible(t, u) == t # u => t.ins \cap u.ins = {}

Steady == ~Has("evict") /\ ~Resurrects

(* The inductive invariant.  What Esplora shows it goes on showing, so the coins read for a plan
   are still free when it is signed; a signed payout keeps its coins until the network has it;
   and what the file may bring back is what the relayer still has. *)
Apart ==
  /\ limbo = {}
  /\ \A t, u \in Seen : Compatible(t, u)
  /\ \A w \in Withdrawal : /\ mem[w].txid # None => mem[w].txid \in Seen
                           /\ file[w].txid # None => file[w].txid \in Seen
  /\ \A w \in Withdrawal : \A t \in Payouts(mem[w]) : t.ins # {} /\ \A u \in Seen : Compatible(t, u)
  /\ \A v, w \in Withdrawal : v # w =>
       \A t \in Payouts(mem[v]), u \in Payouts(mem[w]) : t.ins \cap u.ins = {}
  /\ at = "plan" => answer.coins \cap (Spent \cup ReservedInputs) = {}
  /\ at = "settle" /\ answer = "accepted" => mem[cur].planned \in Seen
  /\ at = "settle" /\ answer = "rejected" => Has("reject")
  /\ Has("crash") => \A w \in Withdrawal : Payouts(file[w]) \subseteq Payouts(mem[w])

ApartInv == Steady => Apart

\* Without a transaction to start from there is no package.
LEMMA WithNothing == \A pool : With({}, pool) = {}
<1> SUFFICES ASSUME NEW pool, NEW t \in With({}, pool) PROVE FALSE
  BY Zenon
<1>1. \A S \in SUBSET ({} \cup pool) : {} \subseteq S /\ (\A u \in pool : u.ins \cap S # {} => u \in S) => t \in S
  BY Zenon DEF With
<1>2. \A u \in pool : u.ins \cap {} # {} => u \in {}
  BY Zenon
<1> QED
  BY <1>1, <1>2, Zenon

\* A step of Bitcoin: it shows what it showed, and payments to custody besides.
LEMMA OutsideApart ==
  ASSUME Apart, UNCHANGED relayer, faults'.kinds = faults.kinds, limbo' = {},
         Seen \subseteq Seen', \A t \in Seen' \ Seen : t.ins = {}
  PROVE  Apart'
<1>1. UNCHANGED <<mem, file, at, cur, answer>> /\ \A k : Has(k)' <=> Has(k)
  BY Zenon DEF relayer, Has
<1>2. \A t, u \in Seen' : Compatible(t, u)
  BY Zenon DEF Apart, Compatible
<1>3. \A w \in Withdrawal : /\ mem'[w].txid # None => mem'[w].txid \in Seen'
                            /\ file'[w].txid # None => file'[w].txid \in Seen'
  BY <1>1, Zenon DEF Apart
<1>4. \A w \in Withdrawal : \A t \in Payouts(mem'[w]) : t.ins # {} /\ \A u \in Seen' : Compatible(t, u)
  BY <1>1, Zenon DEF Apart, Compatible
<1>5. \A v, w \in Withdrawal : v # w =>
        \A t \in Payouts(mem'[v]), u \in Payouts(mem'[w]) : t.ins \cap u.ins = {}
  BY <1>1, Zenon DEF Apart
<1>6. Spent' = Spent
  BY Zenon DEF Spent
<1>7. ReservedInputs' = ReservedInputs
  BY <1>1, Zenon DEF ReservedInputs
<1>8. at' = "plan" => answer'.coins \cap (Spent' \cup ReservedInputs') = {}
  BY <1>1, <1>6, <1>7, Zenon DEF Apart
<1>9. /\ at' = "settle" /\ answer' = "accepted" => mem'[cur'].planned \in Seen'
      /\ at' = "settle" /\ answer' = "rejected" => Has("reject")'
      /\ Has("crash")' => \A w \in Withdrawal : Payouts(file'[w]) \subseteq Payouts(mem'[w])
  BY <1>1, Zenon DEF Apart
<1> QED
  BY <1>2, <1>3, <1>4, <1>5, <1>8, <1>9, Zenon DEF Apart, Payouts, Compatible

LEMMA BitcoinKeepsApart ==
  ASSUME Shapes, Apart, ~Has("evict"),
         \/ UNCHANGED vars \/ (\E w \in Withdrawal : Burn(w)) \/ (\E t \in Deposit : Fund(t))
         \/ (\E t \in mempool \cup limbo : Mine(t)) \/ (\E t \in mempool : Evict(t)) \/ Bury \/ Reorg
  PROVE  Apart'
<1>0. limbo = {}
  BY Zenon DEF Apart
<1>1. UNCHANGED relayer /\ faults'.kinds = faults.kinds
  <2>1. UNCHANGED faults \/ \E k : Fault(k)
    BY Zenon DEF vars, Burn, Fund, Mine, Evict, Bury, Reorg
  <2>2. UNCHANGED relayer
    BY Zenon DEF vars, Burn, Fund, Mine, Evict, Bury, Reorg
  <2> QED
    BY <2>1, <2>2, FaultKeepsKinds, Zenon
<1>2. CASE UNCHANGED bitcoin
  BY <1>0, <1>1, <1>2, OutsideApart, Zenon DEF bitcoin, Seen, Mined
<1>3. ASSUME NEW t \in Deposit, Fund(t) PROVE Apart'
  <2>1. Seen' = Seen \cup {t} /\ limbo' = limbo /\ t.ins = {}
    BY <1>3, BtcAssumption, Zenon DEF Fund, Seen, Mined
  <2> QED
    BY <1>0, <1>1, <2>1, OutsideApart, Zenon
<1>4. ASSUME NEW t \in mempool \cup limbo, Mine(t) PROVE Apart'
  <2>1. t \in mempool /\ t \in Seen
    BY <1>0, <1>4, Zenon DEF Seen
  <2>2. Conflict(t, mempool) = {}
    BY <2>1, Zenon DEF Conflict, Apart, Compatible, Seen
  <2>3. With(Conflict(t, mempool), mempool) = {}
    BY <2>2, WithNothing, Zenon
  <2>4. mempool' = mempool \ {t} /\ limbo' \subseteq limbo /\ DOMAIN conf' = Mined \cup {t}
    BY <1>4, <2>3, Zenon DEF Mine
  <2>5. Seen' = Seen /\ limbo' = {}
    BY <1>0, <2>1, <2>4, Zenon DEF Seen, Mined
  <2> QED
    BY <1>1, <2>5, OutsideApart, Zenon
<1>5. ASSUME NEW t \in mempool, Evict(t) PROVE Apart'
  BY <1>5, Zenon DEF Evict, Fault, Has
<1>6. CASE Bury
  <2>1. DOMAIN conf' = Mined /\ UNCHANGED <<mempool, limbo>>
    BY <1>6, Zenon DEF Bury
  <2>2. Seen' = Seen /\ limbo' = {}
    BY <1>0, <2>1, Zenon DEF Seen, Mined
  <2> QED
    BY <1>1, <2>2, OutsideApart, Zenon
<1>7. CASE Reorg
  <2>1. PICK tip \in SUBSET Mined : DOMAIN conf' = Mined \ tip /\ mempool' = mempool \cup tip /\ limbo' = limbo
    BY <1>7, Zenon DEF Reorg
  <2>2. Seen' = Seen /\ limbo' = {}
    BY <1>0, <2>1, Zenon DEF Seen, Mined
  <2> QED
    BY <1>1, <2>2, OutsideApart, Zenon
<1> QED
  BY <1>2, <1>3, <1>4, <1>5, <1>6, <1>7, Zenon DEF vars, Burn

\* A step of the relayer: it writes no entry, or one whose payouts keep apart.
LEMMA RelayerApart ==
  ASSUME Shapes, Apart, UNCHANGED bitcoin, faults'.kinds = faults.kinds,
         at' = "plan" => answer'.coins \cap (Spent \cup ReservedInputs') = {}, at' # "settle",
         \/ mem' = mem /\ file' = file
         \/ /\ cur \in Withdrawal
            /\ \E e : /\ mem' = [mem EXCEPT ![cur] = e]
                      /\ e.txid # None => e.txid \in Seen
                      /\ \A t \in Payouts(e) : t.ins # {} /\ \A u \in Seen : Compatible(t, u)
                      /\ \A t \in Payouts(e), v \in Withdrawal \ {cur} :
                           \A u \in Payouts(mem[v]) : t.ins \cap u.ins = {}
                      /\ \/ file' = mem'
                         \/ file' = file /\ (Has("crash") => Payouts(mem[cur]) \subseteq Payouts(e))
  PROVE  Apart'
<1>1. Seen' = Seen /\ Spent' = Spent /\ limbo' = {} /\ \A k : Has(k)' <=> Has(k)
  BY Zenon DEF bitcoin, Seen, Mined, Spent, Has, Apart
<1>2. at' = "plan" => answer'.coins \cap (Spent' \cup ReservedInputs') = {}
  BY <1>1, Zenon
<1>3. CASE mem' = mem /\ file' = file
  <2>1. /\ \A w \in Withdrawal : /\ mem'[w].txid # None => mem'[w].txid \in Seen'
                                 /\ file'[w].txid # None => file'[w].txid \in Seen'
        /\ \A w \in Withdrawal : \A t \in Payouts(mem'[w]) : t.ins # {} /\ \A u \in Seen' : Compatible(t, u)
        /\ \A v, w \in Withdrawal : v # w =>
             \A t \in Payouts(mem'[v]), u \in Payouts(mem'[w]) : t.ins \cap u.ins = {}
        /\ Has("crash")' => \A w \in Withdrawal : Payouts(file'[w]) \subseteq Payouts(mem'[w])
    BY <1>1, <1>3 DEF Apart
  <2> QED
    BY <1>1, <1>2, <2>1, Zenon DEF Apart, Payouts, Compatible
<1>4. ASSUME cur \in Withdrawal, NEW e, mem' = [mem EXCEPT ![cur] = e],
             e.txid # None => e.txid \in Seen,
             \A t \in Payouts(e) : t.ins # {} /\ \A u \in Seen : Compatible(t, u),
             \A t \in Payouts(e), v \in Withdrawal \ {cur} :
               \A u \in Payouts(mem[v]) : t.ins \cap u.ins = {},
             \/ file' = mem'
             \/ file' = file /\ (Has("crash") => Payouts(mem[cur]) \subseteq Payouts(e))
      PROVE  Apart'
  <2>1. mem'[cur] = e /\ \A w \in Withdrawal \ {cur} : mem'[w] = mem[w]
    BY <1>4, Zenon DEF Shapes
  <2>2. \A w \in Withdrawal : mem'[w].txid # None => mem'[w].txid \in Seen
    BY <1>4, <2>1, Zenon DEF Apart
  <2>3. \A w \in Withdrawal : file'[w].txid # None => file'[w].txid \in Seen
    BY <1>4, <2>2, Zenon DEF Apart
  <2>4. \A w \in Withdrawal : \A t \in Payouts(mem'[w]) : t.ins # {} /\ \A u \in Seen : Compatible(t, u)
    BY <1>4, <2>1, Zenon DEF Apart
  <2>5. ASSUME NEW v \in Withdrawal, NEW w \in Withdrawal, v # w,
               NEW t \in Payouts(mem'[v]), NEW u \in Payouts(mem'[w])
        PROVE  t.ins \cap u.ins = {}
    <3>1. CASE v = cur
      BY <1>4, <2>1, <2>5, <3>1, Zenon
    <3>2. CASE w = cur
      <4>1. u.ins \cap t.ins = {}
        BY <1>4, <2>1, <2>5, <3>2, Zenon
      <4> QED
        BY <4>1, Zenon
    <3>3. CASE v # cur /\ w # cur
      BY <2>1, <2>5, <3>3, Zenon DEF Apart
    <3> QED
      BY <3>1, <3>2, <3>3, Zenon
  <2>6. ASSUME Has("crash"), NEW w \in Withdrawal PROVE Payouts(file'[w]) \subseteq Payouts(mem'[w])
    <3>1. CASE file' = mem'
      BY <3>1, Zenon
    <3>2. CASE file' = file /\ Payouts(mem[cur]) \subseteq Payouts(e)
      <4>1. Payouts(file[w]) \subseteq Payouts(mem[w])
        BY <2>6, Zenon DEF Apart
      <4>2. Payouts(mem[w]) \subseteq Payouts(mem'[w])
        BY <2>1, <3>2, Zenon
      <4> QED
        BY <3>2, <4>1, <4>2, Zenon
    <3> QED
      BY <1>4, <2>6, <3>1, <3>2, Zenon
  <2>7. \A t, u \in Seen' : Compatible(t, u)
    BY <1>1, Zenon DEF Apart
  <2>8. /\ \A w \in Withdrawal : /\ mem'[w].txid # None => mem'[w].txid \in Seen'
                                 /\ file'[w].txid # None => file'[w].txid \in Seen'
        /\ \A w \in Withdrawal : \A t \in Payouts(mem'[w]) : t.ins # {} /\ \A u \in Seen' : Compatible(t, u)
        /\ \A v, w \in Withdrawal : v # w =>
             \A t \in Payouts(mem'[v]), u \in Payouts(mem'[w]) : t.ins \cap u.ins = {}
        /\ Has("crash")' => \A w \in Withdrawal : Payouts(file'[w]) \subseteq Payouts(mem'[w])
    BY <1>1, <2>2, <2>3, <2>4, <2>5, <2>6, Zenon
  <2> QED
    BY <1>1, <1>2, <2>7, <2>8, Zenon DEF Apart, Payouts, Compatible
<1> QED
  BY <1>3, <1>4, Zenon

\* An entry is written and the withdrawal left. The write can fail: then the file has an older
\* entry, whose payouts the relayer still has if it may crash.
LEMMA PutLeaveApart ==
  ASSUME Shapes, Apart, Steady, UNCHANGED bitcoin, at # "next", NEW e, Put(e, Leave),
         e.txid # None => e.txid \in Seen,
         \A t \in Payouts(e) : t.ins # {} /\ \A u \in Seen : Compatible(t, u),
         \A t \in Payouts(e), v \in Withdrawal \ {cur} : \A u \in Payouts(mem[v]) : t.ins \cap u.ins = {},
         Has("reject") \/ Payouts(mem[cur]) \subseteq Payouts(e)
  PROVE  Apart'
<1>1. Leave /\ mem' = [mem EXCEPT ![cur] = e] /\ (file' = mem' \/ (file' = file /\ Has("io")))
      /\ (UNCHANGED faults \/ \E k : Fault(k))
  BY Zenon DEF Put, Fault, Has
<1>2. faults'.kinds = faults.kinds
  BY <1>1, FaultKeepsKinds, Zenon
<1>3. cur \in Withdrawal /\ at' = "next"
  BY <1>1, Zenon DEF Shapes, Leave
<1>4. file' = mem' \/ (file' = file /\ (Has("crash") => Payouts(mem[cur]) \subseteq Payouts(e)))
  BY <1>1, Zenon DEF Steady, Resurrects
<1>5. at' # "plan" /\ at' # "settle"
  BY <1>3, Zenon
<1> QED
  BY <1>1, <1>2, <1>3, <1>4, <1>5, RelayerApart, Zenon

\* The payouts of entries.
LEMMA EntryPayouts ==
  ASSUME NEW e, e = [f \in Fields |-> e[f]]
  PROVE  /\ Payouts([e EXCEPT !.review = TRUE]) = Payouts(e) /\ [e EXCEPT !.review = TRUE].txid = e.txid
         /\ e.txid = None => /\ Payouts(Accepted(e)) = Payouts(e) /\ Accepted(e).txid = e.planned
                             /\ Payouts([e EXCEPT !.planned = None]) = {}
                             /\ [e EXCEPT !.planned = None].txid = None
         /\ \A t : e.planned = None =>
              LET n == [e EXCEPT !.txid = t, !.legacy = FALSE] IN Payouts(n) = {t} \ {None} /\ n.txid = t
         /\ \A t : e.txid = None =>
              LET n == [e EXCEPT !.planned = t, !.attempts = @ + 1]
              IN  Payouts(n) = {t} \ {None} /\ n.txid = None /\ n.planned = t
<1>1. /\ [e EXCEPT !.review = TRUE].txid = e.txid /\ [e EXCEPT !.review = TRUE].planned = e.planned
      /\ Accepted(e).txid = e.planned /\ Accepted(e).planned = None
      /\ [e EXCEPT !.planned = None].txid = e.txid /\ [e EXCEPT !.planned = None].planned = None
  BY Zenon DEF Fields, Accepted
<1>2. ASSUME NEW t
      PROVE  /\ [e EXCEPT !.txid = t, !.legacy = FALSE].txid = t
             /\ [e EXCEPT !.txid = t, !.legacy = FALSE].planned = e.planned
             /\ [e EXCEPT !.planned = t, !.attempts = @ + 1].txid = e.txid
             /\ [e EXCEPT !.planned = t, !.attempts = @ + 1].planned = t
  BY Zenon DEF Fields
<1> HIDE DEF Fields
<1> QED
  BY <1>1, <1>2, Zenon DEF Payouts

LEMMA SignedPayouts ==
  ASSUME NEW e, e = [f \in Fields |-> e[f]], e.txid = None, NEW t
  PROVE  Payouts([e EXCEPT !.planned = t, !.attempts = @ + 1]) = {t} \ {None}
<1>1. /\ [e EXCEPT !.planned = t, !.attempts = @ + 1].txid = None
      /\ [e EXCEPT !.planned = t, !.attempts = @ + 1].planned = t
  BY Zenon DEF Fields
<1> QED
  BY <1>1, Zenon DEF Payouts

\* The coins of a plan are some of those that were read.
LEMMA PlannedCoins ==
  ASSUME NEW coins, NEW sats, NEW rate, NEW plan \in PlanPayout(coins, sats, rate), plan.kind = "ok"
  PROVE  plan.ins \subseteq coins /\ plan.ins # {}
<1>1. PICK P \in SUBSET coins :
        plan = IF P = {} \/ Coins(P) < sats THEN Insufficient
               ELSE Shape(P, sats, rate, IF Coins(P) - sats <= Dust THEN 0 ELSE Coins(P) - sats)
  BY Zenon DEF PlanPayout, Selections
<1>2. ~(P = {} \/ Coins(P) < sats)
  BY <1>1, Zenon DEF Insufficient
<1>3. plan = Shape(P, sats, rate, IF Coins(P) - sats <= Dust THEN 0 ELSE Coins(P) - sats)
  BY <1>1, <1>2, Zenon
<1>4. \A change : Shape(P, sats, rate, change).ins = P
  BY Zenon DEF Shape
<1> QED
  BY <1>2, <1>3, <1>4, Zenon

\* Steps of the relayer that write nothing.
LEMMA ReadingKeepsApart ==
  ASSUME Shapes, Apart,
         \/ Poll \/ (\E w \in todo : Begin(w)) \/ ReadFails \/ Confirmations \/ AskFulfil
         \/ \E r : ReadCoins(r)
  PROVE  Apart'
<1>1. UNCHANGED <<bitcoin, mem, file>> /\ faults'.kinds = faults.kinds
  <2>1. UNCHANGED faults \/ \E k : Fault(k)
    BY Zenon DEF Poll, Begin, ReadFails, Confirmations, AskFulfil, ReadCoins
  <2>2. UNCHANGED <<bitcoin, mem, file>>
    BY Zenon DEF Poll, Begin, ReadFails, Confirmations, AskFulfil, ReadCoins
  <2> QED
    BY <2>1, <2>2, FaultKeepsKinds, Zenon
<1>2. CASE Poll \/ (\E w \in todo : Begin(w)) \/ ReadFails \/ Confirmations \/ AskFulfil
  <2>1. at' \in {"next", "confirmations", "known", "scan", "fulfil"}
    BY <1>2, Zenon DEF Poll, Begin, ReadFails, Confirmations, AskFulfil, Leave
  <2>2. at' # "plan" /\ at' # "settle"
    BY <2>1, Zenon
  <2> QED
    BY <1>1, <2>2, RelayerApart, Zenon
<1>3. ASSUME NEW r, ReadCoins(r) PROVE Apart'
  <2>1. at' = "plan" /\ answer' = [coins |-> Utxos \ ReservedInputs, rate |-> r] /\ cur' = cur
    BY <1>3, Zenon DEF ReadCoins
  <2>2. ReservedInputs' = ReservedInputs
    BY <1>1, <2>1, Zenon DEF ReservedInputs
  <2>3. answer'.coins = Utxos \ ReservedInputs
    BY <2>1, Zenon
  <2>4. answer'.coins \cap (Spent \cup ReservedInputs') = {}
    BY <2>2, <2>3, Zenon DEF Utxos
  <2>5. at' # "settle"
    BY <2>1, Zenon
  <2> QED
    BY <1>1, <2>4, <2>5, RelayerApart, Zenon
<1> QED
  BY <1>2, <1>3, Zenon

\* An entry that has the payouts the withdrawal had.
LEMMA SamePayoutsApart ==
  ASSUME Shapes, Apart, Steady, UNCHANGED bitcoin, at # "next", NEW e, Put(e, Leave),
         e.txid # None => e.txid \in Seen, Payouts(e) = Payouts(mem[cur])
  PROVE  Apart'
<1>1. cur \in Withdrawal
  BY Zenon DEF Shapes
<1>2. \A t \in Payouts(e) : t.ins # {} /\ \A u \in Seen : Compatible(t, u)
  BY <1>1, Zenon DEF Apart
<1>3. \A t \in Payouts(e), v \in Withdrawal \ {cur} : \A u \in Payouts(mem[v]) : t.ins \cap u.ins = {}
  BY <1>1, Zenon DEF Apart
<1> QED
  BY <1>2, <1>3, PutLeaveApart, Zenon

\* A payout the scan adopts is shown by Esplora and in no other entry.
LEMMA ScanKeepsApart ==
  ASSUME Shapes, Located, Apart, Steady, Scan PROVE Apart'
<1> DEFINE e == mem[cur]
<1>0. at = "scan" /\ UNCHANGED bitcoin
  BY Zenon DEF Scan
<1>1. at # "next" /\ cur \in Withdrawal /\ e.txid = None /\ e.planned = None /\ e = [f \in Fields |-> e[f]]
  BY <1>0, Zenon DEF Located, Shapes
<1>2. Payouts(e) = {}
  BY <1>1, Zenon DEF Payouts
<1>3. ASSUME NEW t \in FindExistingPayout(cur), Put([e EXCEPT !.txid = t, !.legacy = FALSE], Leave)
      PROVE  Apart'
  <2> DEFINE n == [e EXCEPT !.txid = t, !.legacy = FALSE]
  <2>1. t \in Seen /\ t \notin KnownPayoutTxids /\ t.ins # {}
    BY Zenon DEF FindExistingPayout, PayoutSettles
  <2>2. Payouts(n) = {t} \ {None} /\ n.txid = t
    BY <1>1, EntryPayouts, Zenon
  <2>3. \A u \in Seen : Compatible(t, u)
    BY <2>1, Zenon DEF Apart
  <2>4. ASSUME NEW v \in Withdrawal, NEW u \in Payouts(mem[v]) PROVE t.ins \cap u.ins = {}
    <3>1. u # t
      BY <2>1, Zenon DEF KnownPayoutTxids, Payouts
    <3>2. Compatible(u, t)
      BY <2>1, Zenon DEF Apart
    <3> QED
      BY <3>1, <3>2, Zenon DEF Compatible
  <2> HIDE DEF n
  <2>5. n.txid # None => n.txid \in Seen
    BY <2>1, <2>2, Zenon
  <2>6. \A a \in Payouts(n) : a.ins # {} /\ \A u \in Seen : Compatible(a, u)
    BY <2>1, <2>2, <2>3, Zenon
  <2>7. \A a \in Payouts(n), v \in Withdrawal \ {cur} : \A u \in Payouts(mem[v]) : a.ins \cap u.ins = {}
    BY <2>2, <2>4, Zenon
  <2>8. Put(n, Leave) /\ Payouts(mem[cur]) \subseteq Payouts(n)
    BY <1>2, <1>3, Zenon DEF n
  <2> QED
    BY <1>0, <1>1, <2>5, <2>6, <2>7, <2>8, PutLeaveApart, Zenon
<1>4. ASSUME Put([e EXCEPT !.review = TRUE], Leave) PROVE Apart'
  <2>1. Payouts([e EXCEPT !.review = TRUE]) = Payouts(e) /\ [e EXCEPT !.review = TRUE].txid = None
    BY <1>1, EntryPayouts, Zenon
  <2> QED
    BY <1>0, <1>1, <1>4, <2>1, SamePayoutsApart, Zenon
<1>5. ASSUME at' = "next" \/ at' = "build", UNCHANGED <<mem, file, faults>> PROVE Apart'
  <2>1. at' # "plan" /\ at' # "settle" /\ faults'.kinds = faults.kinds
    BY <1>5, Zenon
  <2> QED
    BY <1>0, <1>5, <2>1, RelayerApart, Zenon
<1> QED
  BY <1>3, <1>4, <1>5, Zenon DEF Scan, Leave

\* A plan spends coins that nothing Esplora shows spends and no other plan reserves.
LEMMA PlanKeepsApart ==
  ASSUME NoneIsNoTx, Shapes, Located, Apart, Steady, Plan PROVE Apart'
<1> DEFINE e == mem[cur]
<1>0. at = "plan" /\ UNCHANGED bitcoin
  BY Zenon DEF Plan
<1>1. at # "next" /\ cur \in Withdrawal /\ e.txid = None /\ e.planned = None /\ e = [f \in Fields |-> e[f]]
  BY <1>0, Zenon DEF Located, Shapes
<1>2. Payouts(e) = {}
  BY <1>1, Zenon DEF Payouts
<1>3. ASSUME NEW tx, tx # None, tx.ins # {}, tx.ins \subseteq answer.coins,
             Put([e EXCEPT !.planned = tx, !.attempts = @ + 1],
                 at' = "send" /\ answer' = None /\ UNCHANGED <<todo, cur>>)
      PROVE  Apart'
  <2> DEFINE n == [e EXCEPT !.planned = tx, !.attempts = @ + 1]
  <2>1. Payouts(n) = {tx} \ {None} /\ n.txid = None
    BY <1>1, EntryPayouts, Zenon
  <2>2. tx.ins \cap (Spent \cup ReservedInputs) = {}
    BY <1>0, <1>3, Zenon DEF Apart
  <2>3. ASSUME NEW u \in Seen PROVE tx.ins \cap u.ins = {}
    BY <2>2, Zenon DEF Spent
  <2>4. ASSUME NEW v \in Withdrawal \ {cur}, NEW u \in Payouts(mem[v]) PROVE tx.ins \cap u.ins = {}
    <3>1. CASE u = mem[v].txid
      <4>1. u \in Seen
        BY <3>1, Zenon DEF Apart, Payouts
      <4> QED
        BY <2>3, <4>1, Zenon
    <3>2. CASE u = mem[v].planned
      <4>1. mem[v].planned # None
        BY <3>2, Zenon DEF Payouts
      <4>2. u.ins \subseteq ReservedInputs
        BY <3>2, <4>1, Zenon DEF ReservedInputs
      <4> QED
        BY <2>2, <4>2, Zenon
    <3> QED
      BY <3>1, <3>2, Zenon DEF Payouts
  <2> HIDE DEF n
  <2>5. \A a \in Payouts(n) : a.ins # {} /\ \A u \in Seen : Compatible(a, u)
    BY <1>3, <2>1, <2>3, Zenon DEF Compatible
  <2>6. \A a \in Payouts(n), v \in Withdrawal \ {cur} : \A u \in Payouts(mem[v]) : a.ins \cap u.ins = {}
    BY <2>1, <2>4, Zenon
  <2>7. /\ mem' = [mem EXCEPT ![cur] = n] /\ (file' = mem' \/ file' = file)
        /\ at' = "send" \/ at' = "next"
    BY <1>3, Zenon DEF Put, n, Leave
  <2>8. faults'.kinds = faults.kinds
    <3>1. UNCHANGED faults \/ \E k : Fault(k)
      BY <1>3, Zenon DEF Put
    <3> QED
      BY <3>1, FaultKeepsKinds, Zenon
  <2>9. at' # "plan" /\ at' # "settle"
    BY <2>7, Zenon
  <2>10. Payouts(mem[cur]) \subseteq Payouts(n)
    BY <1>2, Zenon
  <2> QED
    BY <1>0, <1>1, <2>1, <2>5, <2>6, <2>7, <2>8, <2>9, <2>10, RelayerApart, Zenon
<1>4. ASSUME Put([e EXCEPT !.review = TRUE], Leave) PROVE Apart'
  <2>1. Payouts([e EXCEPT !.review = TRUE]) = Payouts(e) /\ [e EXCEPT !.review = TRUE].txid = None
    BY <1>1, EntryPayouts, Zenon
  <2> QED
    BY <1>0, <1>1, <1>4, <2>1, SamePayoutsApart, Zenon
<1>5. ASSUME at' = "next", UNCHANGED <<mem, file, faults>> PROVE Apart'
  <2>1. at' # "plan" /\ at' # "settle" /\ faults'.kinds = faults.kinds
    BY <1>5, Zenon
  <2> QED
    BY <1>0, <1>5, <2>1, RelayerApart, Zenon
<1>6. PICK plan \in PlanPayout(answer.coins, Owed[cur], answer.rate) :
        \/ Leave /\ UNCHANGED <<mem, file, faults>>
        \/ Put([e EXCEPT !.review = TRUE], Leave)
        \/ /\ plan.kind = "ok"
           /\ Put([e EXCEPT !.planned = [ins |-> plan.ins, to |-> Dest[cur], pay |-> plan.pay, chg |-> plan.chg],
                            !.attempts = @ + 1],
                  at' = "send" /\ answer' = None /\ UNCHANGED <<todo, cur>>)
  BY Zenon DEF Plan
<1>7. CASE /\ plan.kind = "ok"
           /\ Put([e EXCEPT !.planned = [ins |-> plan.ins, to |-> Dest[cur], pay |-> plan.pay, chg |-> plan.chg],
                            !.attempts = @ + 1],
                  at' = "send" /\ answer' = None /\ UNCHANGED <<todo, cur>>)
  <2> DEFINE tx == [ins |-> plan.ins, to |-> Dest[cur], pay |-> plan.pay, chg |-> plan.chg]
  <2>1. plan.ins \subseteq answer.coins /\ plan.ins # {}
    BY <1>6, <1>7, PlannedCoins, Zenon
  <2>2. tx # None
    BY Zenon DEF NoneIsNoTx
  <2>3. tx.ins = plan.ins
    BY Zenon
  <2>4. Put([e EXCEPT !.planned = tx, !.attempts = @ + 1],
            at' = "send" /\ answer' = None /\ UNCHANGED <<todo, cur>>)
    BY <1>7, Zenon
  <2> HIDE DEF tx
  <2>5. tx.ins \subseteq answer.coins /\ tx.ins # {}
    BY <2>1, <2>3, Zenon
  <2> QED
    BY <1>3, <2>2, <2>4, <2>5, Zenon
<1> QED
  BY <1>4, <1>5, <1>6, <1>7, Zenon DEF Leave

\* What the network has stays with the withdrawal; a plan it rejected is dropped.
LEMMA SettlingKeepsApart ==
  ASSUME Shapes, Located, Apart, Steady, Known \/ SettleBroadcast PROVE Apart'
<1> DEFINE e == mem[cur]
<1>0. UNCHANGED bitcoin /\ (at = "known" \/ at = "settle")
  BY Zenon DEF Known, SettleBroadcast
<1>1. at # "next" /\ cur \in Withdrawal /\ e.txid = None /\ e = [f \in Fields |-> e[f]]
  BY <1>0, Zenon DEF Located, Shapes
<1>2. /\ Payouts(Accepted(e)) = Payouts(e) /\ Accepted(e).txid = e.planned
      /\ Payouts([e EXCEPT !.planned = None]) = {} /\ [e EXCEPT !.planned = None].txid = None
      /\ Payouts([e EXCEPT !.review = TRUE]) = Payouts(e) /\ [e EXCEPT !.review = TRUE].txid = None
  BY <1>1, EntryPayouts, Zenon
<1>3. ASSUME Put(Accepted(e), Leave), e.planned \in Seen PROVE Apart'
  BY <1>0, <1>1, <1>2, <1>3, SamePayoutsApart, Zenon
<1>4. ASSUME Put(e, Leave) PROVE Apart'
  BY <1>0, <1>1, <1>4, SamePayoutsApart, Zenon
<1>5. ASSUME Put([e EXCEPT !.review = TRUE], Leave) PROVE Apart'
  BY <1>0, <1>1, <1>2, <1>5, SamePayoutsApart, Zenon
<1>6. ASSUME Put([e EXCEPT !.planned = None], Leave), Has("reject") PROVE Apart'
  <2> DEFINE n == [e EXCEPT !.planned = None]
  <2>1. Payouts(n) = {} /\ n.txid = None /\ Put(n, Leave)
    BY <1>2, <1>6, Zenon
  <2> HIDE DEF n
  <2>2. /\ \A t \in Payouts(n) : t.ins # {} /\ \A u \in Seen : Compatible(t, u)
        /\ \A t \in Payouts(n), v \in Withdrawal \ {cur} : \A u \in Payouts(mem[v]) : t.ins \cap u.ins = {}
    BY <2>1, Zenon
  <2> QED
    BY <1>0, <1>1, <1>6, <2>1, <2>2, PutLeaveApart, Zenon
<1>7. CASE Known
  <2>1. CASE TxKnown(e.planned)
    BY <1>3, <1>7, <2>1, Zenon DEF Known, TxKnown
  <2>2. CASE ~TxKnown(e.planned)
    <3>1. at' = "send" /\ UNCHANGED <<mem, file, faults>>
      BY <1>7, <2>2, Zenon DEF Known
    <3>2. at' # "plan" /\ at' # "settle" /\ faults'.kinds = faults.kinds
      BY <3>1, Zenon
    <3> QED
      BY <1>0, <3>1, <3>2, RelayerApart, Zenon
  <2> QED
    BY <2>1, <2>2, Zenon
<1>8. CASE SettleBroadcast
  <2>1. at = "settle" /\ answer \in {"accepted", "unknown", "spent", "rejected"}
    BY <1>8, Zenon DEF SettleBroadcast, Located
  <2>2. CASE answer = "accepted"
    <3>1. Put(Accepted(e), Leave) /\ e.planned \in Seen
      BY <1>8, <2>1, <2>2, Zenon DEF SettleBroadcast, Apart
    <3> QED
      BY <1>3, <3>1, Zenon
  <2>3. CASE answer = "unknown"
    BY <1>4, <1>8, <2>3, Zenon DEF SettleBroadcast
  <2>4. CASE answer = "spent"
    BY <1>5, <1>8, <2>4, Zenon DEF SettleBroadcast
  <2>5. CASE answer = "rejected"
    <3>1. Put([e EXCEPT !.planned = None], Leave) /\ Has("reject")
      BY <1>8, <2>1, <2>5, Zenon DEF SettleBroadcast, Apart
    <3> QED
      BY <1>6, <3>1, Zenon
  <2> QED
    BY <2>1, <2>2, <2>3, <2>4, <2>5, Zenon
<1> QED
  BY <1>7, <1>8, Zenon

\* The network takes a payout only when nothing it has spends the same coins.
LEMMA SendKeepsApart ==
  ASSUME Shapes, Located, RelayerTypes, Apart, Send PROVE Apart'
<1> DEFINE t == mem[cur].planned
<1>0. at = "send" /\ cur \in Withdrawal /\ t # None /\ mem[cur].txid = None
  BY Zenon DEF Send, Shapes, Located, RelayerTypes
<1>1. UNCHANGED <<mem, file, todo, cur>> /\ at' = "settle"
  BY Zenon DEF Send
<1>2. faults'.kinds = faults.kinds
  <2>1. UNCHANGED faults \/ \E k : Fault(k)
    BY Zenon DEF Send
  <2> QED
    BY <2>1, FaultKeepsKinds, Zenon
<1>3. \A k : Has(k)' <=> Has(k)
  BY <1>2, Zenon DEF Has
<1>4. t \in Payouts(mem[cur]) /\ Payouts(mem[cur]) = {t}
  BY <1>0, Zenon DEF Payouts
<1>5. \/ Seen' = Seen
      \/ Seen' = Seen \cup {t} /\ Conflict(t, Seen) = {}
  <2>1. CASE Reply(t) = "accepted" /\ ~TxKnown(t)
    <3>1. Conflict(t, Seen) = {}
      BY <2>1, Zenon DEF Reply
    <3>2. UNCHANGED bitcoin \/ (mempool' = mempool \cup {t} /\ UNCHANGED conf)
      BY <2>1, Zenon DEF Send
    <3> QED
      BY <3>1, <3>2, Zenon DEF Seen, Mined, bitcoin
  <2>2. CASE ~(Reply(t) = "accepted" /\ ~TxKnown(t))
    <3>1. UNCHANGED bitcoin
      BY <2>2, Zenon DEF Send
    <3> QED
      BY <3>1, Zenon DEF Seen, Mined, bitcoin
  <2> QED
    BY <2>1, <2>2, Zenon
<1>6. limbo' = {}
  <2>1. limbo' \subseteq limbo
    BY Zenon DEF Send, bitcoin
  <2> QED
    BY <2>1, Zenon DEF Apart
<1>7. Seen \subseteq Seen' /\ Seen' \subseteq Seen \cup {t}
  BY <1>5, Zenon
<1>8. t \in Seen' => \A u \in Seen : Compatible(t, u) /\ Compatible(u, t)
  <2>1. t \in Seen => \A u \in Seen : Compatible(t, u) /\ Compatible(u, t)
    BY Zenon DEF Apart
  <2>2. Conflict(t, Seen) = {} => \A u \in Seen : Compatible(t, u) /\ Compatible(u, t)
    BY Zenon DEF Conflict, Compatible
  <2> QED
    BY <1>5, <2>1, <2>2, Zenon
<1>9. \A a, u \in Seen' : Compatible(a, u)
  <2>1. \A a, u \in Seen : Compatible(a, u)
    BY Zenon DEF Apart
  <2> QED
    BY <1>7, <1>8, <2>1 DEF Compatible
<1>10. \A w \in Withdrawal : /\ mem'[w].txid # None => mem'[w].txid \in Seen'
                             /\ file'[w].txid # None => file'[w].txid \in Seen'
  BY <1>1, <1>7, Zenon DEF Apart
<1>11. ASSUME NEW w \in Withdrawal, NEW a \in Payouts(mem[w])
       PROVE  a.ins # {} /\ \A u \in Seen' : Compatible(a, u)
  <2>1. a.ins # {} /\ \A u \in Seen : Compatible(a, u)
    BY Zenon DEF Apart
  <2>2. Compatible(a, t)
    <3>1. CASE w = cur
      BY <1>4, <3>1, Zenon DEF Compatible
    <3>2. CASE w # cur
      <4>1. a.ins \cap t.ins = {}
        BY <1>0, <1>4, <3>2, Zenon DEF Apart
      <4> QED
        BY <4>1, Zenon DEF Compatible
    <3> QED
      BY <3>1, <3>2, Zenon
  <2> QED
    BY <1>7, <2>1, <2>2, Zenon
<1>12. answer' = "accepted" => t \in Seen'
  <2>1. ASSUME answer' = "accepted" PROVE Reply(t) = "accepted"
    BY <2>1, Zenon DEF Send
  <2>2. ASSUME answer' = "accepted", ~TxKnown(t) PROVE mempool' = mempool \cup {t}
    BY <2>1, <2>2, Zenon DEF Send
  <2> QED
    BY <1>7, <2>2, Zenon DEF TxKnown, Seen
<1>13. answer' = "rejected" => Has("reject")
  BY Zenon DEF Send, Reply, Fault, Has
<1>14. at' # "plan"
  BY <1>1, Zenon
<1>15. /\ \A w \in Withdrawal : \A a \in Payouts(mem'[w]) : a.ins # {} /\ \A u \in Seen' : Compatible(a, u)
       /\ \A v, w \in Withdrawal : v # w =>
            \A a \in Payouts(mem'[v]), u \in Payouts(mem'[w]) : a.ins \cap u.ins = {}
       /\ Has("crash")' => \A w \in Withdrawal : Payouts(file'[w]) \subseteq Payouts(mem'[w])
  <2>1. \A w \in Withdrawal : \A a \in Payouts(mem'[w]) : a.ins # {} /\ \A u \in Seen' : Compatible(a, u)
    BY <1>1, <1>11, Zenon
  <2>2. \A v, w \in Withdrawal : v # w =>
          \A a \in Payouts(mem'[v]), u \in Payouts(mem'[w]) : a.ins \cap u.ins = {}
    BY <1>1, Zenon DEF Apart
  <2>3. Has("crash")' => \A w \in Withdrawal : Payouts(file'[w]) \subseteq Payouts(mem'[w])
    BY <1>1, <1>3, Zenon DEF Apart
  <2> QED
    BY <2>1, <2>2, <2>3, Zenon
<1>16. /\ answer' = "accepted" => mem'[cur'].planned \in Seen'
       /\ answer' = "rejected" => Has("reject")'
  BY <1>1, <1>3, <1>12, <1>13, Zenon
<1> QED
  BY <1>6, <1>9, <1>10, <1>14, <1>15, <1>16, Zenon DEF Apart, Payouts, Compatible

\* The file brings back payouts the relayer still has, or nothing.
LEMMA CrashKeepsApart ==
  ASSUME Shapes, Apart, Crash PROVE Apart'
<1>1. /\ UNCHANGED bitcoin /\ file' = mem' /\ at' = "next"
      /\ (Has("crash") /\ mem' = file) \/ mem' = [w \in Withdrawal |-> NoEntry]
      /\ \E k : Fault(k)
  BY Zenon DEF Crash, Fault, Has
<1>2. Seen' = Seen /\ limbo' = {} /\ \A k : Has(k)' <=> Has(k)
  <2>1. faults'.kinds = faults.kinds
    BY <1>1, FaultKeepsKinds, Zenon
  <2> QED
    BY <1>1, <2>1, Zenon DEF bitcoin, Seen, Mined, Has, Apart
<1>3. at' # "plan" /\ at' # "settle"
  BY <1>1, Zenon
<1>4. \A w \in Withdrawal : /\ Payouts(mem'[w]) \subseteq Payouts(mem[w])
                            /\ mem'[w].txid # None => mem'[w].txid \in Seen
  <2>1. CASE Has("crash") /\ mem' = file
    BY <2>1, Zenon DEF Apart
  <2>2. CASE mem' = [w \in Withdrawal |-> NoEntry]
    BY <2>2, Zenon DEF NoEntry, Payouts
  <2> QED
    BY <1>1, <2>1, <2>2, Zenon
<1>5. /\ \A t, u \in Seen' : Compatible(t, u)
      /\ \A w \in Withdrawal : \A t \in Payouts(mem'[w]) : t.ins # {} /\ \A u \in Seen' : Compatible(t, u)
  BY <1>2, <1>4, Zenon DEF Apart
<1>6. \A v, w \in Withdrawal : v # w =>
        \A t \in Payouts(mem'[v]), u \in Payouts(mem'[w]) : t.ins \cap u.ins = {}
  BY <1>4, Zenon DEF Apart
<1>7. \A w \in Withdrawal : /\ mem'[w].txid # None => mem'[w].txid \in Seen'
                            /\ file'[w].txid # None => file'[w].txid \in Seen'
                            /\ Payouts(file'[w]) \subseteq Payouts(mem'[w])
  BY <1>1, <1>2, <1>4, Zenon
<1> QED
  BY <1>2, <1>3, <1>5, <1>6, <1>7, Zenon DEF Apart, Payouts, Compatible

LEMMA InitApart ==
  ASSUME Init PROVE Apart
<1>1. PICK old \in SUBSET Withdrawal :
        /\ mem = [w \in Withdrawal |-> [NoEntry EXCEPT !.legacy = w \in old]]
        /\ mempool = {} \/ \E t \in LegacyTx : mempool = {t}
  BY Zenon DEF Init
<1>2. limbo = {} /\ Mined = Funded /\ file = mem /\ at = "next"
  BY Zenon DEF Init, Mined
<1>3. \A w \in Withdrawal : mem[w].txid = None /\ Payouts(mem[w]) = {}
  BY <1>1, Zenon DEF NoEntry, Payouts
<1>4. \A t \in Mined : t.ins = {}
  BY <1>2, BtcAssumption, Zenon
<1>5. \A t, u \in Seen : Compatible(t, u)
  BY <1>1, <1>4, Zenon DEF Seen, Compatible
<1>6. at # "plan" /\ at # "settle"
  BY <1>2, Zenon
<1> QED
  BY <1>2, <1>3, <1>5, <1>6, Zenon DEF Apart

LEMMA KindsAreFixed ==
  ASSUME Shapes, [Next]_vars PROVE \A k : Has(k)' <=> Has(k)
<1>1. UNCHANGED faults \/ \E k : Fault(k)
  BY Zenon DEF vars, Next, Relay, Burn, Fund, Mine, Evict, Bury, Reorg, ReadFails, ReadCoins, Crash, Poll,
               Begin, Confirmations, AskFulfil, Known, Scan, Plan, Send, SettleBroadcast, Put
<1>2. faults'.kinds = faults.kinds
  BY <1>1, FaultKeepsKinds, Zenon
<1> QED
  BY <1>2, Zenon DEF Has

LEMMA NextKeepsApart ==
  ASSUME NoneIsNoTx, RecordInv, RelayerTypes, ApartInv, [Next]_vars PROVE ApartInv'
<1>0. Shapes /\ Located
  BY Zenon DEF RecordInv
<1>1. \A k : Has(k)' <=> Has(k)
  BY <1>0, KindsAreFixed, Zenon
<1>2. SUFFICES ASSUME Steady PROVE Apart'
  BY <1>1, Zenon DEF ApartInv, Steady, Resurrects
<1>3. Apart /\ ~Has("evict")
  BY <1>2, Zenon DEF ApartInv, Steady
<1>4. CASE \/ UNCHANGED vars \/ (\E w \in Withdrawal : Burn(w)) \/ (\E t \in Deposit : Fund(t))
           \/ (\E t \in mempool \cup limbo : Mine(t)) \/ (\E t \in mempool : Evict(t)) \/ Bury \/ Reorg
  BY <1>0, <1>3, <1>4, BitcoinKeepsApart, Zenon
<1>5. CASE \/ Poll \/ (\E w \in todo : Begin(w)) \/ ReadFails \/ Confirmations \/ AskFulfil
           \/ \E r : ReadCoins(r)
  BY <1>0, <1>3, <1>5, ReadingKeepsApart, Zenon
<1>6. CASE Known \/ SettleBroadcast
  BY <1>0, <1>2, <1>3, <1>6, SettlingKeepsApart, Zenon
<1>7. CASE Scan
  BY <1>0, <1>2, <1>3, <1>7, ScanKeepsApart, Zenon
<1>8. CASE Plan
  BY <1>0, <1>2, <1>3, <1>8, PlanKeepsApart, Zenon
<1>9. CASE Send
  BY <1>0, <1>3, <1>9, SendKeepsApart, Zenon
<1>10. CASE Crash
  BY <1>0, <1>3, <1>10, CrashKeepsApart, Zenon
<1> QED
  BY <1>4, <1>5, <1>6, <1>7, <1>8, <1>9, <1>10, Zenon DEF Next, Relay

(* Whatever is lost, retried, adopted, reorganised or restored from the file, the relayer never
   has two payouts that spend one coin and never counts one transaction for two withdrawals, as
   long as the mempool evicts nothing and no dropped plan comes back (CoinsApart):
   reservedInputs, knownPayoutTxids and Esplora's view of the mempool are enough together. *)
THEOREM PayoutsSpendDifferentCoins ==
  ASSUME NoneIsNoTx PROVE Spec => []CoinsApart
<1> DEFINE Inv == RelayerTypes /\ ApartInv
<1>1. Init => Inv
  BY TypesInit, InitApart, Zenon DEF ApartInv
<1>2. RecordInv /\ Inv /\ [Next]_vars => Inv'
  BY RelayerTypesKept, NextKeepsApart, Zenon
<1>3. Inv => CoinsApart
  <2> SUFFICES ASSUME Apart, NEW v \in Withdrawal, NEW w \in Withdrawal, v # w,
                      NEW t \in Payouts(mem[v]), NEW u \in Payouts(mem[w])
               PROVE  t # u /\ t.ins \cap u.ins = {}
    BY Zenon DEF CoinsApart, PayoutOf, Payouts, ApartInv, Steady
  <2>1. t.ins # {} /\ t.ins \cap u.ins = {}
    BY Zenon DEF Apart
  <2>2. t # u
    BY <2>1, Zenon
  <2> QED
    BY <2>1, <2>2, Zenon
<1> HIDE DEF Inv
<1> QED
  BY <1>1, <1>2, <1>3, RecordInvHolds, PTL DEF Spec

-----------------------------------------------------------------------------
(* Transactions. *)
\* What the network has, what the entries have, in memory and in the file.
Net   == Seen \cup limbo
Hopes == UNION {Payouts(mem[w]) : w \in Withdrawal}
Saved == UNION {Payouts(file[w]) : w \in Withdrawal}

\* A payout is for a withdrawal that was burned, to its address.
OwnInv ==
  /\ \A t \in Net : t # None
  /\ \A w \in Withdrawal : \A t \in Payouts(mem[w]) \cup Payouts(file[w]) :
       t.ins # {} /\ t.to = Dest[w] /\ w \in Burned

\* Payouts nobody has on record.
Strays == {t \in Net : t.ins # {}} \ Hopes

(* While the records are complete: at most one payout is not on record, the old relayer's, and
   as long as it is not, its withdrawal still waits for an operator. *)
LegacyInv ==
  /\ limbo = {} \/ Has("evict")
  /\ \A v, w \in Withdrawal : mem[v].legacy /\ mem[w].legacy => v = w
  /\ \A w \in Withdrawal : mem[w].legacy => w \in Burned /\ Payouts(mem[w]) = {}
  /\ \A t, u \in Strays : t = u
  /\ \A t \in Strays : \E w \in Withdrawal : mem[w].legacy /\ t.to = Dest[w]
  /\ at \in {"build", "plan"} => ~mem[cur].legacy
  /\ at = "settle" /\ answer = "rejected" => mem[cur].planned \notin Net

\* The steps, by what they do to the transactions there are and to the entries.
Outside == UNCHANGED relayer /\ Net' \subseteq Net \cup Deposit /\ (limbo' \subseteq limbo \/ Has("evict"))

Quiet == UNCHANGED <<bitcoin, mem, file>> /\ at' \notin {"build", "plan", "settle"}

GoesOn ==
  /\ at = "scan" /\ at' = "build" /\ FindExistingPayout(cur) = {} /\ ~mem[cur].legacy
  /\ UNCHANGED <<daemon, bitcoin, mem, file, cur>>

Adopts(e) == at = "scan" /\ ~e.legacy /\ \E t \in FindExistingPayout(cur) : Payouts(e) = {t} \ {None}

Signs(e) ==
  /\ at = "plan" /\ e.legacy = mem[cur].legacy
  /\ \E plan \in PlanPayout(answer.coins, Owed[cur], answer.rate) :
       /\ plan.kind = "ok"
       /\ Payouts(e) = {[ins |-> plan.ins, to |-> Dest[cur], pay |-> plan.pay, chg |-> plan.chg]}

Keeps(e) ==
  /\ e.legacy = mem[cur].legacy
  /\ \/ Payouts(e) = Payouts(mem[cur])
     \/ Payouts(e) = {} /\ at = "settle" /\ answer = "rejected"

Writes(e) ==
  /\ cur \in Withdrawal /\ UNCHANGED <<daemon, bitcoin>>
  /\ mem' = [mem EXCEPT ![cur] = e] /\ (file' = mem' \/ file' = file)
  /\ at' \notin {"build", "plan", "settle"}
  /\ Adopts(e) \/ Signs(e) \/ Keeps(e)

LEMMA OutsideMoves ==
  ASSUME \/ UNCHANGED vars \/ (\E w \in Withdrawal : Burn(w)) \/ (\E t \in Deposit : Fund(t))
         \/ (\E t \in mempool \cup limbo : Mine(t)) \/ (\E t \in mempool : Evict(t)) \/ Bury \/ Reorg
  PROVE  Outside
<1>1. UNCHANGED relayer
  BY Zenon DEF vars, Burn, Fund, Mine, Evict, Bury, Reorg
<1>2. CASE UNCHANGED bitcoin
  BY <1>1, <1>2, Zenon DEF Outside, bitcoin, Net, Seen, Mined
<1>3. ASSUME NEW t \in Deposit, Fund(t) PROVE Outside
  BY <1>1, <1>3, Zenon DEF Outside, Fund, Net, Seen, Mined
<1>4. ASSUME NEW t \in mempool \cup limbo, Mine(t) PROVE Outside
  <2>1. mempool' \subseteq mempool /\ limbo' \subseteq limbo /\ DOMAIN conf' = Mined \cup {t}
    BY <1>4, Zenon DEF Mine
  <2> QED
    BY <1>1, <2>1, Zenon DEF Outside, Net, Seen, Mined
<1>5. ASSUME NEW t \in mempool, Evict(t) PROVE Outside
  <2>1. /\ mempool' \subseteq mempool /\ limbo' \subseteq limbo \cup mempool /\ conf' = conf /\ Has("evict")
    BY <1>5, Zenon DEF Evict, Fault, Has
  <2> QED
    BY <1>1, <2>1, Zenon DEF Outside, Net, Seen, Mined
<1>6. CASE Bury
  <2>1. DOMAIN conf' = Mined /\ UNCHANGED <<mempool, limbo>>
    BY <1>6, Zenon DEF Bury
  <2> QED
    BY <1>1, <2>1, Zenon DEF Outside, Net, Seen, Mined
<1>7. CASE Reorg
  <2>1. PICK tip \in SUBSET Mined : DOMAIN conf' = Mined \ tip /\ mempool' = mempool \cup tip /\ limbo' = limbo
    BY <1>7, Zenon DEF Reorg
  <2> QED
    BY <1>1, <2>1, Zenon DEF Outside, Net, Seen, Mined
<1> QED
  BY <1>2, <1>3, <1>4, <1>5, <1>6, <1>7, Zenon DEF vars, Burn

LEMMA PutLeaveMoves ==
  ASSUME at # "next", Shapes, UNCHANGED <<daemon, bitcoin>>, NEW e, Put(e, Leave), Adopts(e) \/ Keeps(e)
  PROVE  Writes(e)
<1>1. mem' = [mem EXCEPT ![cur] = e] /\ (file' = mem' \/ file' = file) /\ at' = "next" /\ cur \in Withdrawal
  BY Zenon DEF Put, Leave, Shapes
<1>2. at' \notin {"build", "plan", "settle"}
  BY <1>1, Zenon
<1> QED
  BY <1>1, <1>2, Zenon DEF Writes

LEMMA WritingMoves ==
  ASSUME NoneIsNoTx, Shapes, Located, Known \/ Scan \/ Plan \/ SettleBroadcast
  PROVE  Quiet \/ GoesOn \/ \E e : Writes(e)
<1> DEFINE e == mem[cur]
<1>1. at \in {"known", "scan", "plan", "settle"} /\ UNCHANGED <<daemon, bitcoin>>
  BY Zenon DEF Known, Scan, Plan, SettleBroadcast
<1>2. at # "next" /\ cur \in Withdrawal /\ e.txid = None /\ e = [f \in Fields |-> e[f]]
  BY <1>1, Zenon DEF Located, Shapes
<1>3. /\ Payouts(Accepted(e)) = Payouts(e) /\ Payouts([e EXCEPT !.planned = None]) = {}
      /\ Payouts([e EXCEPT !.review = TRUE]) = Payouts(e)
  BY <1>2, EntryPayouts, Zenon
<1>3a. ASSUME NEW t PROVE Payouts([e EXCEPT !.planned = t, !.attempts = @ + 1]) = {t} \ {None}
  BY <1>2, SignedPayouts, Zenon
<1>4. /\ Accepted(e).legacy = e.legacy /\ [e EXCEPT !.planned = None].legacy = e.legacy
      /\ [e EXCEPT !.review = TRUE].legacy = e.legacy
      /\ \A t : /\ [e EXCEPT !.txid = t, !.legacy = FALSE].legacy = FALSE
                /\ [e EXCEPT !.planned = t, !.attempts = @ + 1].legacy = e.legacy
  BY <1>2, Zenon DEF Accepted, Fields
<1>5. Keeps(Accepted(e)) /\ Keeps(e) /\ Keeps([e EXCEPT !.review = TRUE])
      /\ (at = "settle" /\ answer = "rejected" => Keeps([e EXCEPT !.planned = None]))
  BY <1>3, <1>4, Zenon DEF Keeps
<1>6. ASSUME NEW n, Put(n, Leave), Adopts(n) \/ Keeps(n) PROVE \E x : Writes(x)
  BY <1>1, <1>2, <1>6, PutLeaveMoves, Zenon
<1>7. ASSUME at' = "next" \/ at' = "send", UNCHANGED <<mem, file>> PROVE Quiet
  <2>1. at' \notin {"build", "plan", "settle"}
    BY <1>7, Zenon
  <2> QED
    BY <1>1, <1>7, <2>1, Zenon DEF Quiet
<1>8. CASE Known
  BY <1>5, <1>6, <1>7, <1>8, Zenon DEF Known, Leave
<1>9. CASE Scan
  <2>1. at = "scan" /\ e.planned = None
    BY <1>9, Zenon DEF Scan, Located
  <2>2. ASSUME NEW t \in FindExistingPayout(cur), Put([e EXCEPT !.txid = t, !.legacy = FALSE], Leave)
        PROVE  \E x : Writes(x)
    <3> DEFINE n == [e EXCEPT !.txid = t, !.legacy = FALSE]
    <3>1. Payouts(n) = {t} \ {None}
      BY <1>2, <2>1, EntryPayouts, Zenon
    <3>2. Adopts(n)
      BY <1>4, <2>1, <3>1, Zenon DEF Adopts
    <3> QED
      BY <1>6, <2>2, <3>2, Zenon
  <2>3. CASE FindExistingPayout(cur) = {} /\ ~e.legacy /\ UNCHANGED <<mem, file, faults>>
             /\ IF e.attempts >= MaxRetries THEN Leave ELSE at' = "build" /\ UNCHANGED <<todo, cur, answer>>
    BY <1>1, <1>7, <2>1, <2>3, Zenon DEF GoesOn, Leave
  <2> QED
    BY <1>5, <1>6, <1>9, <2>2, <2>3, Zenon DEF Scan
<1>10. CASE Plan
  <2>1. at = "plan"
    BY <1>10, Zenon DEF Plan
  <2>2. ASSUME NEW plan \in PlanPayout(answer.coins, Owed[cur], answer.rate), plan.kind = "ok",
               NEW tx, tx = [ins |-> plan.ins, to |-> Dest[cur], pay |-> plan.pay, chg |-> plan.chg],
               Put([e EXCEPT !.planned = tx, !.attempts = @ + 1],
                   at' = "send" /\ answer' = None /\ UNCHANGED <<todo, cur>>), tx # None
        PROVE  \E x : Writes(x)
    <3> DEFINE n == [e EXCEPT !.planned = tx, !.attempts = @ + 1]
    <3>0. n.legacy = e.legacy
      BY <1>4, Zenon
    <3>1. Payouts(n) = {tx} \ {None}
      BY <1>3a, Zenon
    <3>2. mem' = [mem EXCEPT ![cur] = n] /\ (file' = mem' \/ file' = file) /\ (at' = "send" \/ at' = "next")
      BY <2>2, Zenon DEF Put, Leave
    <3> HIDE DEF n
    <3>3. Payouts(n) = {tx}
      BY <2>2, <3>1, Zenon
    <3>4. Signs(n)
      BY <2>1, <2>2, <3>0, <3>3, Zenon DEF Signs
    <3>5. at' \notin {"build", "plan", "settle"}
      BY <3>2, Zenon
    <3> QED
      BY <1>1, <1>2, <3>2, <3>4, <3>5, Zenon DEF Writes
  <2> QED
    BY <1>5, <1>6, <1>7, <1>10, <2>2, Zenon DEF Plan, Leave, NoneIsNoTx
<1>11. CASE SettleBroadcast
  <2>1. at = "settle" /\ answer \in {"accepted", "unknown", "spent", "rejected"}
    BY <1>11, Zenon DEF SettleBroadcast, Located
  <2>2. \/ Put(Accepted(e), Leave) \/ Put(e, Leave) \/ Put([e EXCEPT !.review = TRUE], Leave)
        \/ answer = "rejected" /\ Put([e EXCEPT !.planned = None], Leave)
    BY <1>11, <2>1, Zenon DEF SettleBroadcast
  <2> QED
    BY <1>5, <1>6, <2>1, <2>2, Zenon
<1> QED
  BY <1>8, <1>9, <1>10, <1>11, Zenon

LEMMA Moves ==
  ASSUME NoneIsNoTx, Shapes, Located, [Next]_vars
  PROVE  \/ Outside \/ Quiet \/ GoesOn \/ (\E e : Writes(e)) \/ (\E r \in HighRate \cup {Rate} : ReadCoins(r))
         \/ Send \/ Crash
<1>1. CASE \/ UNCHANGED vars \/ (\E w \in Withdrawal : Burn(w)) \/ (\E t \in Deposit : Fund(t))
           \/ (\E t \in mempool \cup limbo : Mine(t)) \/ (\E t \in mempool : Evict(t)) \/ Bury \/ Reorg
  BY <1>1, OutsideMoves, Zenon
<1>2. CASE Poll \/ (\E w \in todo : Begin(w)) \/ ReadFails \/ Confirmations \/ AskFulfil
  <2>1. UNCHANGED <<bitcoin, mem, file>> /\ at' \in {"next", "confirmations", "known", "scan", "fulfil"}
    BY <1>2, Zenon DEF Poll, Begin, ReadFails, Confirmations, AskFulfil, Leave
  <2>2. at' \notin {"build", "plan", "settle"}
    BY <2>1, Zenon
  <2> QED
    BY <2>1, <2>2, Zenon DEF Quiet
<1>3. CASE Known \/ Scan \/ Plan \/ SettleBroadcast
  BY <1>3, WritingMoves, Zenon
<1>4. CASE \E r \in HighRate \cup {Rate} : ReadCoins(r)
  BY <1>4, Zenon
<1>5. CASE Send \/ Crash
  BY <1>5, Zenon
<1> QED
  BY <1>1, <1>2, <1>3, <1>4, <1>5, Zenon DEF Next, Relay

LEMMA BurnedGrows ==
  ASSUME Shapes, DaemonTypes, [Next]_vars PROVE Burned \subseteq Burned'
<1>1. CASE UNCHANGED status
  BY <1>1, Zenon DEF Burned
<1>2. ASSUME NEW w \in Withdrawal, Burn(w) PROVE Burned \subseteq Burned'
  <2>1. status' = [status EXCEPT ![w] = "pending"]
    BY <1>2, Zenon DEF Burn
  <2> QED
    BY <2>1, Zenon DEF DaemonTypes, Burned
<1>3. CASE AskFulfil
  <2>1. UNCHANGED status \/ status' = [status EXCEPT ![cur] = "fulfilled"]
    BY <1>3, Zenon DEF AskFulfil, Fulfil
  <2> QED
    BY <2>1, Zenon DEF DaemonTypes, Burned
<1> QED
  BY <1>1, <1>2, <1>3, ListSteps, Zenon DEF Poll, daemon

\* Debts do not go away.

LEMMA SendNet ==
  ASSUME Shapes, RelayerTypes, Send
  PROVE  /\ UNCHANGED <<daemon, mem, file, cur>> /\ at = "send" /\ at' = "settle" /\ cur \in Withdrawal
         /\ Net' \subseteq Net \cup {mem[cur].planned} /\ limbo' \subseteq limbo
         /\ mem[cur].planned # None /\ mem[cur].planned \in Payouts(mem[cur])
<1>1. UNCHANGED <<daemon, mem, file, cur>> /\ at = "send" /\ at' = "settle"
  BY Zenon DEF Send
<1>2. cur \in Withdrawal /\ mem[cur].planned # None
  BY <1>1, Zenon DEF Shapes, RelayerTypes
<1>3. limbo' \subseteq limbo /\ conf' = conf /\ mempool' \subseteq mempool \cup {mem[cur].planned}
  BY Zenon DEF Send, bitcoin
<1>4. Net' \subseteq Net \cup {mem[cur].planned}
  BY <1>3, Zenon DEF Net, Seen, Mined
<1> QED
  BY <1>1, <1>2, <1>3, <1>4, Zenon DEF Payouts

LEMMA CrashEntries ==
  ASSUME Crash
  PROVE  /\ UNCHANGED <<daemon, bitcoin>> /\ at' = "next" /\ file' = mem'
         /\ (mem' = file /\ Has("crash")) \/ (Has("file") /\ \A w \in Withdrawal : mem'[w] = NoEntry)
         /\ Payouts(NoEntry) = {} /\ NoEntry.legacy = FALSE
<1>1. /\ UNCHANGED <<daemon, bitcoin>> /\ at' = "next" /\ file' = mem'
      /\ (mem' = file /\ Has("crash")) \/ (Has("file") /\ mem' = [w \in Withdrawal |-> NoEntry])
  BY Zenon DEF Crash, Fault, Has
<1>2. Payouts(NoEntry) = {} /\ NoEntry.legacy = FALSE
  BY Zenon DEF Payouts, NoEntry
<1> QED
  BY <1>1, <1>2, Zenon

LEMMA WritesEntries ==
  ASSUME Shapes, NEW e, Writes(e)
  PROVE  mem'[cur] = e /\ \A w \in Withdrawal \ {cur} : mem'[w] = mem[w]
<1>1. cur \in Withdrawal /\ mem' = [mem EXCEPT ![cur] = e]
  BY Zenon DEF Writes
<1> QED
  BY <1>1, Zenon DEF Shapes

LEMMA OwnKept ==
  ASSUME NoneIsNoTx, Shapes, Located, DaemonTypes, RelayerTypes, OwnInv, [Next]_vars
  PROVE  OwnInv'
<1>1. ASSUME \A t \in Net' : t \in Net \/ t # None,
             \A w \in Withdrawal : \A t \in Payouts(mem'[w]) \cup Payouts(file'[w]) :
               \/ t \in Payouts(mem[w]) \cup Payouts(file[w])
               \/ t.ins # {} /\ t.to = Dest[w] /\ w \in Burned
      PROVE  OwnInv'
  <2>1. \A t \in Net' : t # None
    BY <1>1, Zenon DEF OwnInv
  <2>2. \A w \in Withdrawal : \A t \in Payouts(mem'[w]) \cup Payouts(file'[w]) :
          t.ins # {} /\ t.to = Dest[w] /\ w \in Burned'
    BY <1>1, BurnedGrows, Zenon DEF OwnInv
  <2> QED
    BY <2>1, <2>2, Zenon DEF OwnInv, Payouts
<1>2. ASSUME UNCHANGED <<mem, file>> PROVE \A w \in Withdrawal : mem'[w] = mem[w] /\ file'[w] = file[w]
  BY <1>2, Zenon
<1>3. ASSUME UNCHANGED bitcoin PROVE Net' = Net
  BY <1>3, Zenon DEF bitcoin, Net, Seen, Mined
<1>4. CASE Outside
  <2>1. \A t \in Net' : t \in Net \/ t # None
    BY <1>4, BtcAssumption, Zenon DEF Outside
  <2> QED
    BY <1>1, <1>2, <1>4, <2>1, Zenon DEF Outside, relayer
<1>5. CASE Quiet \/ GoesOn \/ \E r \in HighRate \cup {Rate} : ReadCoins(r)
  <2>1. UNCHANGED <<bitcoin, mem, file>>
    BY <1>5, Zenon DEF Quiet, GoesOn, ReadCoins
  <2> QED
    BY <1>1, <1>2, <1>3, <2>1, Zenon
<1>6. CASE Send
  BY <1>1, <1>2, <1>6, SendNet, Zenon
<1>7. CASE Crash
  <2>1. Net' = Net
    BY <1>3, <1>7, CrashEntries, Zenon
  <2>2. \A w \in Withdrawal : Payouts(mem'[w]) \cup Payouts(file'[w]) \subseteq Payouts(file[w])
    BY <1>7, CrashEntries, Zenon
  <2> QED
    BY <1>1, <2>1, <2>2, Zenon
<1>8. ASSUME NEW e, Writes(e) PROVE OwnInv'
  <2>1. cur \in Withdrawal /\ UNCHANGED bitcoin /\ (file' = mem' \/ file' = file)
    BY <1>8, Zenon DEF Writes
  <2>2. at \in {"scan", "plan"} => cur \in Burned
    BY Zenon DEF RelayerTypes, DaemonTypes
  <2>3. ASSUME NEW t \in Payouts(e)
        PROVE  t \in Payouts(mem[cur]) \/ (t.ins # {} /\ t.to = Dest[cur] /\ cur \in Burned)
    <3>1. CASE Adopts(e)
      <4>1. PICK u \in FindExistingPayout(cur) : Payouts(e) = {u} \ {None} /\ at = "scan"
        BY <3>1, Zenon DEF Adopts
      <4>2. t = u /\ cur \in Burned
        BY <2>2, <4>1, Zenon
      <4> QED
        BY <4>2, Zenon DEF FindExistingPayout, PayoutSettles
    <3>2. CASE Signs(e)
      <4>1. PICK plan \in PlanPayout(answer.coins, Owed[cur], answer.rate) :
              /\ plan.kind = "ok" /\ at = "plan"
              /\ Payouts(e) = {[ins |-> plan.ins, to |-> Dest[cur], pay |-> plan.pay, chg |-> plan.chg]}
        BY <3>2, Zenon DEF Signs
      <4>2. plan.ins # {} /\ cur \in Burned
        <5>1. cur \in Burned
          BY <2>2, <4>1, Zenon
        <5> QED
          BY <4>1, <5>1, PlannedCoins, Zenon
      <4>3. t.ins = plan.ins /\ t.to = Dest[cur]
        BY <4>1
      <4> QED
        BY <4>2, <4>3, Zenon
    <3>3. CASE Keeps(e)
      BY <3>3, Zenon DEF Keeps
    <3> QED
      BY <1>8, <3>1, <3>2, <3>3, Zenon DEF Writes
  <2>4. \A w \in Withdrawal : mem'[w] = mem[w] \/ (w = cur /\ mem'[w] = e)
    BY <1>8, WritesEntries, Zenon
  <2>5. ASSUME NEW w \in Withdrawal, NEW t \in Payouts(mem'[w])
        PROVE  t \in Payouts(mem[w]) \cup Payouts(file[w]) \/ (t.ins # {} /\ t.to = Dest[w] /\ w \in Burned)
    BY <2>3, <2>4, Zenon
  <2>6. \A w \in Withdrawal : file'[w] = mem'[w] \/ file'[w] = file[w]
    BY <2>1, Zenon
  <2> QED
    BY <1>1, <1>3, <2>1, <2>5, <2>6, Zenon
<1> QED
  BY <1>4, <1>5, <1>6, <1>7, <1>8, Moves, Zenon

LEMMA InitOwn ==
  ASSUME Init PROVE OwnInv
<1>1. PICK old \in SUBSET Withdrawal :
        /\ mem = [w \in Withdrawal |-> [NoEntry EXCEPT !.legacy = w \in old]]
        /\ mempool = {} \/ \E t \in LegacyTx : mempool = {t}
  BY Zenon DEF Init
<1>2. limbo = {} /\ Mined = Funded /\ file = mem
  BY Zenon DEF Init, Mined
<1>3. \A w \in Withdrawal : Payouts(mem[w]) \cup Payouts(file[w]) = {}
  BY <1>1, <1>2, Zenon DEF NoEntry, Payouts
<1>4. \A t \in Net : t # None
  BY <1>1, <1>2, BtcAssumption, Zenon DEF Net, Seen
<1> QED
  BY <1>3, <1>4, Zenon DEF OwnInv

\* A step that leaves old markers or clears them, and no payout without a record.
LEMMA LegacyStep ==
  ASSUME Shapes, DaemonTypes, LegacyInv, [Next]_vars,
         \A w \in Withdrawal : mem'[w].legacy => mem[w].legacy /\ Payouts(mem'[w]) = {},
         Strays' \subseteq Strays,
         Strays' = {} \/ \A w \in Withdrawal : mem[w].legacy => mem'[w].legacy,
         limbo' = {} \/ Has("evict"),
         at' \in {"build", "plan"} => ~mem'[cur'].legacy,
         at' = "settle" /\ answer' = "rejected" => mem'[cur'].planned \notin Net'
  PROVE  LegacyInv'
<1>1. limbo' = {} \/ Has("evict")'
  BY KindsAreFixed, Zenon
<1>2. \A v, w \in Withdrawal : mem'[v].legacy /\ mem'[w].legacy => v = w
  BY Zenon DEF LegacyInv
<1>3. \A w \in Withdrawal : mem'[w].legacy => w \in Burned' /\ Payouts(mem'[w]) = {}
  BY BurnedGrows, Zenon DEF LegacyInv
<1>4. \A t, u \in Strays' : t = u
  BY Zenon DEF LegacyInv
<1>5. \A t \in Strays' : \E w \in Withdrawal : mem'[w].legacy /\ t.to = Dest[w]
  BY Zenon DEF LegacyInv
<1> QED
  BY <1>1, <1>2, <1>3, <1>4, <1>5, Zenon DEF LegacyInv, Payouts

LEMMA LegacyKept ==
  ASSUME NoneIsNoTx, RecordInv, DaemonTypes, RelayerTypes, OwnInv, Kept, LegacyInv, [Next]_vars
  PROVE  LegacyInv'
<1>0. Shapes /\ Located /\ file = mem
  BY Zenon DEF RecordInv
<1>1. ASSUME UNCHANGED mem
      PROVE  /\ Hopes' = Hopes
             /\ \A w \in Withdrawal : mem'[w].legacy => mem[w].legacy /\ Payouts(mem'[w]) = {}
             /\ \A w \in Withdrawal : mem[w].legacy => mem'[w].legacy
  BY <1>1, Zenon DEF Hopes, LegacyInv
<1>2. ASSUME UNCHANGED bitcoin
      PROVE  Net' = Net /\ (limbo' = {} \/ Has("evict"))
  BY <1>2, Zenon DEF bitcoin, Net, Seen, Mined, LegacyInv
<1>3. Strays' = {t \in Net' : t.ins # {}} \ Hopes' /\ Strays = {t \in Net : t.ins # {}} \ Hopes
  BY Zenon DEF Strays
<1>4. ASSUME UNCHANGED <<bitcoin, mem>>, at' # "settle", at' \in {"build", "plan"} => ~mem[cur].legacy /\ cur' = cur
      PROVE  LegacyInv'
  <2>1. Strays' \subseteq Strays
    BY <1>1, <1>2, <1>3, <1>4, Zenon
  <2>2. at' \in {"build", "plan"} => ~mem'[cur'].legacy
    BY <1>4, Zenon
  <2> QED
    BY <1>0, <1>1, <1>2, <1>4, <2>1, <2>2, LegacyStep, Zenon
<1>5. CASE Outside
  <2>1. UNCHANGED <<mem, at, cur, answer>> /\ Net' \subseteq Net \cup Deposit
    BY <1>5, Zenon DEF Outside, relayer
  <2>2. limbo' = {} \/ Has("evict")
    BY <1>5, Zenon DEF Outside, LegacyInv
  <2>3. Strays' \subseteq Strays
    BY <1>1, <1>3, <2>1, BtcAssumption, Zenon
  <2>4. at' \in {"build", "plan"} => ~mem'[cur'].legacy
    BY <2>1, Zenon DEF LegacyInv
  <2>5. ASSUME at' = "settle", answer' = "rejected" PROVE mem'[cur'].planned \notin Net'
    <3>1. cur \in Withdrawal /\ mem[cur].planned # None
      BY <1>0, <2>1, <2>5, Zenon DEF Shapes, RelayerTypes
    <3>2. mem[cur].planned \in Payouts(mem[cur])
      BY <3>1, Zenon DEF Payouts
    <3>3. mem[cur].planned.ins # {}
      BY <3>1, <3>2, Zenon DEF OwnInv
    <3>4. mem[cur].planned \notin Net
      BY <2>1, <2>5, Zenon DEF LegacyInv
    <3> QED
      BY <2>1, <3>3, <3>4, BtcAssumption, Zenon
  <2> QED
    BY <1>0, <1>1, <2>1, <2>2, <2>3, <2>4, <2>5, LegacyStep, Zenon
<1>6. CASE Quiet
  <2>1. UNCHANGED <<bitcoin, mem>> /\ at' # "settle" /\ at' \notin {"build", "plan"}
    BY <1>6, Zenon DEF Quiet
  <2> QED
    BY <1>4, <2>1, Zenon
<1>7. CASE GoesOn
  <2>1. UNCHANGED <<bitcoin, mem, cur>> /\ at' # "settle" /\ ~mem[cur].legacy
    BY <1>7, Zenon DEF GoesOn
  <2> QED
    BY <1>4, <2>1, Zenon
<1>8. ASSUME NEW r \in HighRate \cup {Rate}, ReadCoins(r) PROVE LegacyInv'
  <2>1. UNCHANGED <<bitcoin, mem, cur>> /\ at' # "settle" /\ at = "build"
    BY <1>8, Zenon DEF ReadCoins
  <2>2. ~mem[cur].legacy
    BY <2>1, Zenon DEF LegacyInv
  <2> QED
    BY <1>4, <2>1, <2>2, Zenon
<1>9. CASE Send
  <2>1. /\ UNCHANGED <<mem, cur>> /\ at' = "settle" /\ cur \in Withdrawal /\ limbo' \subseteq limbo
        /\ Net' \subseteq Net \cup {mem[cur].planned} /\ mem[cur].planned \in Payouts(mem[cur])
    BY <1>0, <1>9, SendNet, Zenon
  <2>2. mem[cur].planned \in Hopes
    BY <2>1, Zenon DEF Hopes
  <2>3. Strays' \subseteq Strays
    BY <1>1, <1>3, <2>1, <2>2, Zenon
  <2>4. limbo' = {} \/ Has("evict")
    BY <2>1, Zenon DEF LegacyInv
  <2>5. ASSUME answer' = "rejected" PROVE mem'[cur'].planned \notin Net'
    <3>1. Fault("reject") /\ ~TxKnown(mem[cur].planned) /\ UNCHANGED bitcoin
      BY <1>9, <2>5, Zenon DEF Send, Reply
    <3>2. limbo = {}
      BY <3>1, Zenon DEF Fault, Kept, Has, LegacyInv
    <3>3. mem[cur].planned \notin Net
      BY <3>1, <3>2, Zenon DEF TxKnown, Net
    <3> QED
      BY <1>2, <2>1, <3>1, <3>3, Zenon
  <2>6. at' \notin {"build", "plan"}
    BY <2>1, Zenon
  <2> QED
    BY <1>0, <1>1, <2>1, <2>3, <2>4, <2>5, <2>6, LegacyStep, Zenon
<1>10. CASE Crash
  <2>1. UNCHANGED <<bitcoin, mem>> /\ at' = "next"
    BY <1>0, <1>10, CrashEntries, Zenon DEF Kept
  <2>2. at' # "settle" /\ at' \notin {"build", "plan"}
    BY <2>1, Zenon
  <2> QED
    BY <1>4, <2>1, <2>2, Zenon
<1>11. ASSUME NEW e, Writes(e) PROVE LegacyInv'
  <2>1. cur \in Withdrawal /\ UNCHANGED bitcoin /\ at' # "settle" /\ at' \notin {"build", "plan"}
    BY <1>11, Zenon DEF Writes
  <2>2. mem'[cur] = e /\ \A w \in Withdrawal \ {cur} : mem'[w] = mem[w]
    BY <1>0, <1>11, WritesEntries, Zenon
  <2>3. Hopes \subseteq Hopes' \cup Payouts(mem[cur]) /\ Payouts(e) \subseteq Hopes'
    BY <2>1, <2>2, Zenon DEF Hopes, Payouts
  <2>4. ASSUME e.legacy => mem[cur].legacy /\ Payouts(e) = {}, Strays' \subseteq Strays,
               Strays' = {} \/ e.legacy = mem[cur].legacy
        PROVE  LegacyInv'
    <3>1. \A w \in Withdrawal : mem'[w].legacy => mem[w].legacy /\ Payouts(mem'[w]) = {}
      BY <2>2, <2>4, Zenon DEF LegacyInv
    <3>2. Strays' = {} \/ \A w \in Withdrawal : mem[w].legacy => mem'[w].legacy
      BY <2>2, <2>4, Zenon
    <3> QED
      BY <1>0, <1>2, <2>1, <2>4, <3>1, <3>2, LegacyStep, Zenon
  <2>5. CASE Adopts(e)
    <3>1. PICK t \in FindExistingPayout(cur) : Payouts(e) = {t} \ {None} /\ at = "scan" /\ ~e.legacy
      BY <2>5, Zenon DEF Adopts
    <3>2. t \in Seen /\ t \notin KnownPayoutTxids /\ t.ins # {}
      BY <3>1, Zenon DEF FindExistingPayout, PayoutSettles
    <3>3. t \in Net /\ t # None /\ t \notin Hopes
      BY <3>2 DEF Net, OwnInv, KnownPayoutTxids, Hopes, Payouts
    <3>4. Payouts(mem[cur]) = {}
      BY <1>0, <3>1, Zenon DEF Located, Payouts
    <3>5. t \in Strays /\ t \in Hopes'
      BY <1>3, <2>3, <3>1, <3>2, <3>3, Zenon
    <3>6. Strays' \subseteq Strays
      BY <1>2, <1>3, <2>1, <2>3, <3>4, Zenon
    <3>7. Strays' = {}
      BY <1>3, <3>5, <3>6 DEF LegacyInv
    <3> QED
      BY <2>4, <3>1, <3>6, <3>7, Zenon
  <2>6. CASE Signs(e)
    <3>1. at = "plan" /\ e.legacy = mem[cur].legacy
      BY <2>6, Zenon DEF Signs
    <3>2. Payouts(mem[cur]) = {} /\ ~mem[cur].legacy
      BY <1>0, <3>1, Zenon DEF Located, Payouts, LegacyInv
    <3>3. Strays' \subseteq Strays
      BY <1>2, <1>3, <2>1, <2>3, <3>2, Zenon
    <3> QED
      BY <2>4, <3>1, <3>2, <3>3, Zenon
  <2>7. CASE Keeps(e) /\ Payouts(e) = Payouts(mem[cur])
    <3>1. Strays' \subseteq Strays
      BY <1>2, <1>3, <2>1, <2>3, <2>7, Zenon
    <3> QED
      BY <2>1, <2>4, <2>7, <3>1, Zenon DEF Keeps, LegacyInv
  <2>8. CASE Keeps(e) /\ Payouts(e) = {} /\ at = "settle" /\ answer = "rejected"
    <3>1. mem[cur].planned \notin Net
      BY <2>8, Zenon DEF LegacyInv
    <3>2. Payouts(mem[cur]) \subseteq {mem[cur].planned}
      BY <1>0, <2>8, Zenon DEF Located, Payouts
    <3>3. Strays' \subseteq Strays
      BY <1>2, <1>3, <2>1, <2>3, <3>1, <3>2, Zenon
    <3> QED
      BY <2>4, <2>8, <3>3, <2>1, Zenon DEF Keeps
  <2> QED
    BY <1>11, <2>5, <2>6, <2>7, <2>8, Zenon DEF Writes, Keeps
<1> QED
  BY <1>0, <1>5, <1>6, <1>7, <1>8, <1>9, <1>10, <1>11, Moves, Zenon

(* What is mined: a block has the coins its transactions spend, each spent once, and a
   transaction is no deeper than the coins it spends. *)
DepthInv ==
  /\ \A t \in Net : t.ins = {} => t \in Deposit
  /\ \A t \in Mined : conf[t] \in Nat \ {0} /\ conf[t] <= MinConf /\ t.ins \subseteq Mined
  /\ \A t \in Mined : \A u \in t.ins : conf[t] <= conf[u]
  /\ \A t, u \in Mined : t # u => t.ins \cap u.ins = {}

LEMMA DepthSame ==
  ASSUME DepthInv, conf' = conf, \A t \in Net' : t.ins = {} => t \in Deposit
  PROVE  DepthInv'
BY Zenon DEF DepthInv, Mined

LEMMA DepthMined ==
  ASSUME BitcoinTypes, DepthInv, NEW t \in mempool \cup limbo, Mine(t)
  PROVE  DepthInv'
<1>1. /\ t.ins \subseteq Mined /\ Conflict(t, Mined) = {}
      /\ conf' = [u \in Mined \cup {t} |-> IF u = t THEN 1 ELSE conf[u]]
      /\ mempool' \subseteq mempool /\ limbo' \subseteq limbo
  BY Zenon DEF Mine
<1>2. t \notin Mined /\ Mined' = Mined \cup {t}
  BY <1>1, Zenon DEF BitcoinTypes, Mined, Seen
<1>3. conf'[t] = 1 /\ \A u \in Mined : conf'[u] = conf[u] /\ u # t
  BY <1>1, <1>2, Zenon
<1>4. \A u \in Net' : u.ins = {} => u \in Deposit
  BY <1>1, <1>2, Zenon DEF DepthInv, Net, Seen
<1>5. \A u \in Mined' : conf'[u] \in Nat \ {0} /\ conf'[u] <= MinConf /\ u.ins \subseteq Mined'
  BY <1>1, <1>2, <1>3, BtcAssumption DEF DepthInv
<1>6. ASSUME NEW s \in Mined', NEW u \in s.ins PROVE conf'[s] <= conf'[u]
  <2>1. CASE s = t
    BY <1>1, <1>3, <2>1 DEF DepthInv
  <2>2. CASE s \in Mined
    BY <1>3, <2>2, Zenon DEF DepthInv
  <2> QED
    BY <1>2, <2>1, <2>2, Zenon
<1>7. ASSUME NEW s \in Mined', NEW u \in Mined', s # u PROVE s.ins \cap u.ins = {}
  <2>1. \A v \in Mined : v.ins \cap t.ins = {}
    BY <1>1, <1>3, Zenon DEF Conflict
  <2> QED
    BY <1>2, <1>7, <2>1, Zenon DEF DepthInv
<1> QED
  BY <1>4, <1>5, <1>6, <1>7, Zenon DEF DepthInv

LEMMA DepthBuried ==
  ASSUME DepthInv, Bury
  PROVE  DepthInv'
<1>1. conf' = [t \in Mined |-> IF conf[t] < MinConf THEN conf[t] + 1 ELSE MinConf] /\ UNCHANGED <<mempool, limbo>>
  BY Zenon DEF Bury
<1>2. Mined' = Mined
  BY <1>1, Zenon DEF Mined
<1>3. Net' = Net
  BY <1>1, <1>2, Zenon DEF Net, Seen
<1>4. \A t \in Mined : conf'[t] \in Nat \ {0} /\ conf'[t] <= MinConf /\ t.ins \subseteq Mined
  BY <1>1, BtcAssumption DEF DepthInv
<1>5. ASSUME NEW t \in Mined, NEW u \in t.ins PROVE conf'[t] <= conf'[u]
  <2>1. /\ conf[t] \in Nat /\ conf[u] \in Nat /\ conf[t] <= conf[u] /\ conf[u] <= MinConf /\ u \in Mined
        /\ conf[t] <= MinConf /\ MinConf \in Nat
    BY BtcAssumption, Zenon DEF DepthInv
  <2>2. /\ conf'[t] = IF conf[t] < MinConf THEN conf[t] + 1 ELSE MinConf
        /\ conf'[u] = IF conf[u] < MinConf THEN conf[u] + 1 ELSE MinConf
    BY <1>1, <2>1, Zenon
  <2> QED
    BY <2>1, <2>2
<1> QED
  BY <1>2, <1>3, <1>4, <1>5, Zenon DEF DepthInv

LEMMA DepthReorg ==
  ASSUME DepthInv, Reorg
  PROVE  DepthInv'
<1> DEFINE tip == {t \in Mined : conf[t] < MinConf}
<1>1. conf' = [t \in Mined \ tip |-> conf[t]] /\ mempool' = mempool \cup tip /\ limbo' = limbo
  BY Zenon DEF Reorg
<1>2. Mined' = Mined \ tip /\ \A t \in Mined' : t \in Mined /\ conf'[t] = conf[t] /\ ~(conf[t] < MinConf)
  BY <1>1, Zenon DEF Mined
<1>3. Net' \subseteq Net
  BY <1>1, <1>2, Zenon DEF Net, Seen
<1>4. ASSUME NEW t \in Mined', NEW u \in t.ins PROVE u \in Mined' /\ conf'[t] <= conf'[u]
  <2>1. /\ t \in Mined /\ u \in Mined /\ conf[t] \in Nat /\ conf[u] \in Nat /\ conf[t] <= conf[u]
        /\ ~(conf[t] < MinConf) /\ MinConf \in Nat
    BY <1>2, BtcAssumption, Zenon DEF DepthInv
  <2>2. u \notin tip
    BY <2>1
  <2>3. u \in Mined'
    BY <1>2, <2>1, <2>2, Zenon
  <2> QED
    BY <1>2, <2>1, <2>3, Zenon
<1>5. \A t \in Mined' : conf'[t] \in Nat \ {0} /\ conf'[t] <= MinConf /\ t.ins \subseteq Mined'
  BY <1>2, <1>4, Zenon DEF DepthInv
<1>6. \A t, u \in Mined' : t # u => t.ins \cap u.ins = {}
  BY <1>2, Zenon DEF DepthInv
<1>7. \A t \in Net' : t.ins = {} => t \in Deposit
  BY <1>3, Zenon DEF DepthInv
<1> QED
  BY <1>4, <1>5, <1>6, <1>7, Zenon DEF DepthInv

LEMMA DepthKept ==
  ASSUME NoneIsNoTx, Shapes, Located, RelayerTypes, BitcoinTypes, OwnInv, DepthInv, [Next]_vars
  PROVE  DepthInv'
<1>1. ASSUME UNCHANGED conf, Net' \subseteq Net \cup Deposit PROVE DepthInv'
  <2>1. \A t \in Net' : t.ins = {} => t \in Deposit
    BY <1>1, Zenon DEF DepthInv
  <2> QED
    BY <1>1, <2>1, DepthSame, Zenon
<1>2. ASSUME UNCHANGED bitcoin PROVE DepthInv'
  <2>1. UNCHANGED conf /\ Net' = Net
    BY <1>2, Zenon DEF bitcoin, Net, Seen, Mined
  <2> QED
    BY <1>1, <2>1, Zenon
<1>3. CASE Outside
  <2>1. CASE UNCHANGED conf
    BY <1>1, <1>3, <2>1, Zenon DEF Outside
  <2>2. CASE conf' # conf
    <3>1. (\E t \in mempool \cup limbo : Mine(t)) \/ Bury \/ Reorg
      BY <2>2, Zenon DEF Next, Relay, vars, bitcoin, Burn, Fund, Evict, Poll, Begin, Confirmations, AskFulfil,
         Known, Scan, ReadCoins, Plan, Send, SettleBroadcast, ReadFails, Crash
    <3> QED
      BY <3>1, DepthMined, DepthBuried, DepthReorg, Zenon
  <2> QED
    BY <2>1, <2>2, Zenon
<1>4. CASE Quiet \/ GoesOn \/ (\E e : Writes(e)) \/ (\E r \in HighRate \cup {Rate} : ReadCoins(r)) \/ Crash
  <2>1. UNCHANGED bitcoin
    BY <1>4, Zenon DEF Quiet, GoesOn, Writes, ReadCoins, Crash
  <2> QED
    BY <1>2, <2>1, Zenon
<1>5. CASE Send
  <2>1. conf' = conf
    BY <1>5, Zenon DEF Send, bitcoin
  <2>2. /\ Net' \subseteq Net \cup {mem[cur].planned} /\ cur \in Withdrawal
        /\ mem[cur].planned \in Payouts(mem[cur])
    BY <1>5, SendNet, Zenon
  <2>3. mem[cur].planned.ins # {}
    BY <2>2, Zenon DEF OwnInv
  <2>4. \A t \in Net' : t.ins = {} => t \in Deposit
    BY <2>2, <2>3, Zenon DEF DepthInv
  <2> QED
    BY <2>1, <2>4, DepthSame, Zenon
<1> QED
  BY <1>3, <1>4, <1>5, Moves, Zenon

LEMMA InitDepth ==
  ASSUME Init PROVE DepthInv
<1>1. mempool = {} \/ \E t \in LegacyTx : mempool = {t}
  BY Zenon DEF Init
<1>2. limbo = {} /\ Mined = Funded /\ conf = [t \in Funded |-> MinConf]
  BY Zenon DEF Init, Mined
<1>3. \A t \in Funded : conf[t] = MinConf /\ t.ins = {} /\ t \in Deposit
  BY <1>2, BtcAssumption, Zenon
<1>4. \A t \in Net : t.ins = {} => t \in Deposit
  BY <1>1, <1>2, <1>3, BtcAssumption, Zenon DEF Net, Seen
<1> QED
  BY <1>2, <1>3, <1>4, BtcAssumption DEF DepthInv
=============================================================================
