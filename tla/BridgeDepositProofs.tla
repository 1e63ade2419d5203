------------------------ MODULE BridgeDepositProofs ------------------------
(***************************************************************************)
(* A deposit is minted at most once, for any number of deposits, requests, *)
(* polls and faults, unless two writes of the claim store overlap in a     *)
(* behaviour in which the daemon also crashes.                             *)
(*                                                                         *)
(* The argument has two layers. In memory, a request that has reserved a   *)
(* key and not given it up holds it alone: the key is claimed, no other    *)
(* request holds it, and no mint has it (Held). On disk, when writes do    *)
(* not overlap, the keys of mints, and of the request that is about to     *)
(* mint, are in the file, and in whatever a write under way puts in its    *)
(* place (Durable). A crash turns the second into the first.               *)
(*                                                                         *)
(* The watcher's cursor passes no deposit that is not on record: what a    *)
(* poll has read is its own snapshot of the watcher until it is saved      *)
(* (WatchInv).                                                             *)
(***************************************************************************)
EXTENDS BridgeDeposit, FiniteSetTheorems, TLAPS

Txs == mempool \cup chain

\* Request r has reserved its key and not begun to give it up.
Holds(r) ==
    /\ req[r].pc \in {"snapshot", "create", "write", "rename", "mint", "undo"}
    /\ ~req[r].undo

\* The types the argument needs.
Shapes ==
    /\ req \in [Request -> Requests]
    /\ faults \in [kinds : FaultSets, left : Int]
    /\ \A tx \in Txs : tx.d \in Deposit
    /\ \A r \in Request : req[r].pc # "idle" => req[r].d \in Deposit
    /\ \A r \in Request : req[r].pc \in {"mint", "undo"} => ~req[r].undo

\* A key is held by one request, or has one mint, or neither.
Held ==
    /\ \A tx \in Txs : tx.d \in claimed
    /\ \A a, b \in Txs : a.d = b.d => a = b
    /\ \A r \in Request : Holds(r) => req[r].d \in claimed
    /\ \A r \in Request, tx \in Txs : Holds(r) => tx.d # req[r].d
    /\ \A q, r \in Request : Holds(q) /\ Holds(r) /\ req[q].d = req[r].d => q = r

\* The key of a mint, or of a request that has only the mint left to do.
Spent(d) ==
    \/ \E tx \in Txs : tx.d = d
    \/ \E r \in Request : req[r].pc = "mint" /\ req[r].d = d

\* What a request is writing, or has written, has the spent keys and its own.
Durable ==
    /\ \A d : Spent(d) => d \in disk.keys
    /\ \A q, r \in Request : Persisting(q) /\ Persisting(r) => q = r
    /\ \A r \in Request : req[r].pc = "write" => req[r].file = "tmp" /\ tmp = File(Garbled, 0)
    /\ \A r \in Request : req[r].pc \in {"create", "write"} =>
          \A d : Spent(d) \/ (Holds(r) /\ d = req[r].d) => d \in req[r].keys
    /\ \A r \in Request : req[r].pc = "rename" =>
          \A d : Spent(d) \/ (Holds(r) /\ d = req[r].d) => d \in tmp.keys

DepositInv ==
    /\ Shapes
    /\ ~(Has("overlap") /\ Has("crash")) => Held
    /\ ~Has("overlap") => Durable

-----------------------------------------------------------------------------
\* A step that, for request r, at most changes who waits for it, brings it to a
\* point where it holds nothing, or makes it give its key up.
Calm(r) ==
    \/ req'[r].pc \in {"idle", "check", "reserve"}
    \/ /\ req'[r].pc = req[r].pc /\ req'[r].d = req[r].d
       /\ req'[r].keys = req[r].keys /\ req'[r].file = req[r].file
       /\ req'[r].undo = req[r].undo \/ (Persisting(r) /\ req'[r].undo)

\* The files, the claimed keys and the kinds of faults stay, mints only go.
StoreStays ==
    /\ claimed' = claimed /\ disk' = disk /\ tmp' = tmp
    /\ mempool' \cup chain' \subseteq mempool \cup chain
    /\ faults' \in [kinds : FaultSets, left : Int] /\ faults'.kinds = faults.kinds

\* A step that is calm for every request keeps the invariant.
LEMMA CalmStep ==
    ASSUME DepositInv, StoreStays,
           req' \in [Request -> Requests],
           \A r \in Request : req'[r].pc # "idle" => req'[r].d \in Deposit,
           \A r \in Request : Calm(r)
    PROVE  DepositInv'
<1>1. Txs' \subseteq Txs
  BY Zenon DEF StoreStays, Txs
<1>2. \A r \in Request : Holds(r)' => Holds(r) /\ req'[r].d = req[r].d
  BY Zenon DEF Calm, Holds, Persisting
<1>3. \A d : Spent(d)' => Spent(d)
  BY <1>1, Zenon DEF Spent, Calm
<1>4. \A r \in Request : Persisting(r)' =>
         /\ Persisting(r) /\ req'[r].pc = req[r].pc
         /\ req'[r].keys = req[r].keys /\ req'[r].file = req[r].file
  BY Zenon DEF Calm, Persisting
<1>5. Shapes'
  <2>1. \A tx \in Txs' : tx.d \in Deposit
    BY <1>1, Zenon DEF DepositInv, Shapes
  <2>2. \A r \in Request : req'[r].pc \in {"mint", "undo"} => ~req'[r].undo
    BY Zenon DEF DepositInv, Shapes, Calm, Persisting
  <2> QED BY <2>1, <2>2, Zenon DEF Shapes, StoreStays
<1>6. \A k : Has(k)' <=> Has(k)
  BY Zenon DEF Has, StoreStays
<1>7. ASSUME Held PROVE Held'
  <2>1. claimed' = claimed
    BY Zenon DEF StoreStays
  <2> QED BY <1>1, <1>2, <1>7, <2>1, Zenon DEF Held
<1>8. ASSUME Durable PROVE Durable'
  <2>1. disk' = disk /\ tmp' = tmp
    BY Zenon DEF StoreStays
  <2>2. \A d : Spent(d)' => d \in disk'.keys
    BY <1>3, <1>8, <2>1, Zenon DEF Durable
  <2>3. \A q, r \in Request : Persisting(q)' /\ Persisting(r)' => q = r
    BY <1>4, <1>8, Zenon DEF Durable
  <2>4. ASSUME NEW r \in Request, req'[r].pc = "write"
        PROVE  req'[r].file = "tmp" /\ tmp' = File(Garbled, 0)
    BY <1>4, <1>8, <2>1, <2>4, Zenon DEF Durable, Persisting
  <2>5. ASSUME NEW r \in Request, req'[r].pc \in {"create", "write"},
               NEW d, Spent(d)' \/ (Holds(r)' /\ d = req'[r].d)
        PROVE  d \in req'[r].keys
    <3>1. req[r].pc \in {"create", "write"} /\ req'[r].keys = req[r].keys
      BY <1>4, <2>5, Zenon DEF Persisting
    <3>2. Spent(d) \/ (Holds(r) /\ d = req[r].d)
      BY <1>2, <1>3, <2>5, Zenon
    <3> QED BY <1>8, <3>1, <3>2, Zenon DEF Durable
  <2>6. ASSUME NEW r \in Request, req'[r].pc = "rename",
               NEW d, Spent(d)' \/ (Holds(r)' /\ d = req'[r].d)
        PROVE  d \in tmp'.keys
    <3>1. req[r].pc = "rename"
      BY <1>4, <2>6, Zenon DEF Persisting
    <3>2. Spent(d) \/ (Holds(r) /\ d = req[r].d)
      BY <1>2, <1>3, <2>6, Zenon
    <3> QED BY <1>8, <2>1, <3>1, <3>2, Zenon DEF Durable
  <2> QED BY <2>2, <2>3, <2>4, <2>5, <2>6, Zenon DEF Durable, File, Garbled
<1> QED BY <1>5, <1>6, <1>7, <1>8, Zenon DEF DepositInv

\* A request that is answered, and the others, are calm.
LEMMA AnswerIsCalm ==
    ASSUME DepositInv, NEW r \in Request, NEW ok, Answer(req, r, ok)
    PROVE  /\ req' \in [Request -> Requests]
           /\ \A q \in Request : req'[q].pc # "idle" => req'[q].d \in Deposit
           /\ \A q \in Request : Calm(q)
<1>1. req' = [req EXCEPT ![r] = Idle]
  BY Zenon DEF Answer
<1>2. Idle \in Requests
  BY Zenon DEF Idle, Requests
<1>3. \A q \in Request : req'[q] = IF q = r THEN Idle ELSE req[q]
  BY <1>1, Zenon DEF DepositInv, Shapes
<1> QED BY <1>1, <1>2, <1>3, Zenon DEF DepositInv, Shapes, Calm, Idle

\* A fault keeps the kinds there are.
LEMMA FaultKeepsKinds ==
    ASSUME Shapes, NEW kind, Fault(kind)
    PROVE  /\ faults' \in [kinds : FaultSets, left : Int] /\ faults'.kinds = faults.kinds
           /\ Has(kind)
BY DEF Shapes, Fault, Has

\* Steps that leave the requests alone.
LEMMA OutsideKeeps ==
    ASSUME DepositInv, UNCHANGED <<store, req>>,
           mempool' \cup chain' \subseteq mempool \cup chain,
           UNCHANGED faults \/ \E kind : Fault(kind)
    PROVE  DepositInv'
<1>1. Shapes
  BY Zenon DEF DepositInv
<1>2. StoreStays
  <2>1. faults' \in [kinds : FaultSets, left : Int] /\ faults'.kinds = faults.kinds
    BY <1>1, FaultKeepsKinds, Zenon DEF Shapes
  <2> QED BY <2>1, Zenon DEF StoreStays, store
<1>3. \A r \in Request : Calm(r)
  BY Zenon DEF Calm
<1> QED BY <1>1, <1>2, <1>3, CalmStep, Zenon DEF Shapes

\* A claim arrives, from a poll or a browser.
LEMMA ArriveKeeps ==
    ASSUME DepositInv, NEW r \in Request, NEW d \in Deposit, NEW by \in Poll \cup {None},
           Arrive(r, d, by), UNCHANGED <<store, mempool, chain, faults>>
    PROVE  DepositInv'
<1> DEFINE new == [Idle EXCEPT !.pc = "check", !.d = d, !.by = by]
<1>1. new \in Requests /\ new.pc = "check" /\ new.d = d
  BY Zenon DEF Idle, Requests
<1>2. req' = [req EXCEPT ![r] = new]
  BY Zenon DEF Arrive
<1> HIDE DEF new
<1>3. \A q \in Request : req'[q] = IF q = r THEN new ELSE req[q]
  BY <1>2, Zenon DEF DepositInv, Shapes
<1>4. req' \in [Request -> Requests]
  BY <1>1, <1>2, Zenon DEF DepositInv, Shapes
<1>5. \A q \in Request : Calm(q)
  BY <1>1, <1>3, Zenon DEF Calm
<1>6. \A q \in Request : req'[q].pc # "idle" => req'[q].d \in Deposit
  BY <1>1, <1>3, Zenon DEF DepositInv, Shapes
<1>7. StoreStays
  BY Zenon DEF StoreStays, store, DepositInv, Shapes
<1> QED BY <1>4, <1>5, <1>6, <1>7, CalmStep, Zenon

\* Nobody waits any longer for some of the requests.
LEMMA DetachKeeps ==
    ASSUME DepositInv, NEW S \in SUBSET Request,
           req' = [r \in Request |-> IF r \in S THEN [req[r] EXCEPT !.by = None] ELSE req[r]],
           UNCHANGED <<store, mempool, chain>>,
           UNCHANGED faults \/ \E kind : Fault(kind)
    PROVE  DepositInv'
<1>1. Shapes
  BY Zenon DEF DepositInv
<1>2. ASSUME NEW r \in Request
      PROVE  /\ req'[r] \in Requests
             /\ req'[r].pc = req[r].pc /\ req'[r].d = req[r].d /\ req'[r].keys = req[r].keys
             /\ req'[r].file = req[r].file /\ req'[r].undo = req[r].undo
  <2>1. req[r] \in Requests
    BY <1>1, Zenon DEF Shapes
  <2>2. req'[r] = req[r] \/ req'[r] = [req[r] EXCEPT !.by = None]
    BY Zenon
  <2> QED BY <2>1, <2>2, Zenon DEF Requests
<1>3. req' \in [Request -> Requests]
  <2>1. DOMAIN req' = Request /\ req' = [r \in DOMAIN req' |-> req'[r]]
    BY Zenon
  <2> QED BY <1>2, <2>1, Zenon
<1>4. StoreStays
  <2>1. faults' \in [kinds : FaultSets, left : Int] /\ faults'.kinds = faults.kinds
    BY <1>1, FaultKeepsKinds, Zenon DEF Shapes
  <2> QED BY <2>1, Zenon DEF StoreStays, store
<1>5. \A r \in Request : Calm(r)
  BY <1>2, Zenon DEF Calm
<1>6. \A r \in Request : req'[r].pc # "idle" => req'[r].d \in Deposit
  BY <1>1, <1>2, Zenon DEF Shapes
<1> QED BY <1>3, <1>4, <1>5, <1>6, CalmStep, Zenon

\* A request is answered, and the store is as it was.
LEMMA AnswerKeeps ==
    ASSUME DepositInv, NEW r \in Request, NEW ok, Answer(req, r, ok),
           UNCHANGED <<store, mempool, chain>>,
           UNCHANGED faults \/ \E kind : Fault(kind)
    PROVE  DepositInv'
<1>1. Shapes
  BY Zenon DEF DepositInv
<1>2. StoreStays
  <2>1. faults' \in [kinds : FaultSets, left : Int] /\ faults'.kinds = faults.kinds
    BY <1>1, FaultKeepsKinds, Zenon DEF Shapes
  <2> QED BY <2>1, Zenon DEF StoreStays, store
<1> QED BY <1>2, AnswerIsCalm, CalmStep, Zenon

\* The server drops a handler.
LEMMA DropKeeps ==
    ASSUME DepositInv, NEW r \in Request, Drop(r)
    PROVE  DepositInv'
<1>1. Shapes
  BY Zenon DEF DepositInv
<1> DEFINE new == IF Persisting(r) THEN [req[r] EXCEPT !.undo = TRUE] ELSE Idle
<1>2. req[r] \in Requests /\ (req[r].pc # "idle" => req[r].d \in Deposit)
  BY <1>1, Zenon DEF Shapes
<1>3. /\ new \in Requests
      /\ ~Persisting(r) => new = Idle
      /\ Persisting(r) => /\ new.pc = req[r].pc /\ new.d = req[r].d /\ new.keys = req[r].keys
                          /\ new.file = req[r].file /\ new.undo
  BY <1>2, Zenon DEF Idle, Requests
<1>4. req' = [req EXCEPT ![r] = new]
  BY Zenon DEF Drop
<1> HIDE DEF new
<1>5. \A q \in Request : req'[q] = IF q = r THEN new ELSE req[q]
  BY <1>1, <1>4, Zenon DEF Shapes
<1>6. req' \in [Request -> Requests]
  BY <1>1, <1>3, <1>4, Zenon DEF Shapes
<1>7. \A q \in Request : Calm(q)
  BY <1>3, <1>5 DEF Calm, Idle
<1>8. \A q \in Request : req'[q].pc # "idle" => req'[q].d \in Deposit
  BY <1>1, <1>2, <1>3, <1>5 DEF Shapes, Idle, Persisting
<1>9. StoreStays
  BY <1>1, FaultKeepsKinds, Zenon DEF Drop, StoreStays, store
<1> QED BY <1>6, <1>7, <1>8, <1>9, CalmStep, Zenon

-----------------------------------------------------------------------------
\* The requests after a step in which only r moves, to record new.
LEMMA OneMoves ==
    ASSUME Shapes, NEW r \in Request, NEW new \in Requests, req' = [req EXCEPT ![r] = new],
           new.d = req[r].d, req[r].pc # "idle"
    PROVE  /\ req' \in [Request -> Requests]
           /\ req'[r] = new
           /\ \A q \in Request \ {r} : req'[q] = req[q]
           /\ \A q \in Request : req'[q].pc # "idle" => req'[q].d \in Deposit
BY Zenon DEF Shapes

\* The record of a request that goes on to pc.
LEMMA GotoMoves ==
    ASSUME Shapes, NEW r \in Request, NEW pc, Goto(r, pc), req[r].pc # "idle",
           pc \in {"check", "reserve", "snapshot", "create", "write", "rename", "mint", "undo"}
    PROVE  /\ req' \in [Request -> Requests]
           /\ req'[r].pc = pc /\ req'[r].d = req[r].d /\ req'[r].keys = req[r].keys
           /\ req'[r].file = req[r].file /\ req'[r].undo = req[r].undo
           /\ \A q \in Request \ {r} : req'[q] = req[q]
           /\ \A q \in Request : req'[q].pc # "idle" => req'[q].d \in Deposit
<1> DEFINE new == [req[r] EXCEPT !.pc = pc]
<1>1. req[r] \in Requests
  BY Zenon DEF Shapes
<1>2. /\ new \in Requests
      /\ new.pc = pc /\ new.d = req[r].d /\ new.keys = req[r].keys
      /\ new.file = req[r].file /\ new.undo = req[r].undo
  BY <1>1, Zenon DEF Requests
<1>3. req' = [req EXCEPT ![r] = new]
  BY Zenon DEF Goto
<1> HIDE DEF new
<1> QED BY <1>2, <1>3, OneMoves, Zenon

\* contains() and the checks on Base.
LEMMA CheckKeeps ==
    ASSUME DepositInv, NEW r \in Request, Check(r)
    PROVE  DepositInv'
<1>1. UNCHANGED <<store, mempool, chain>>
  BY Zenon DEF Check
<1>2. CASE \E ok \in BOOLEAN : Answer(req, r, ok) /\ (UNCHANGED faults \/ Fault("read"))
  BY <1>1, <1>2, AnswerKeeps, Zenon
<1>3. CASE Goto(r, "reserve") /\ NoFault
  <2>1. Shapes /\ req[r].pc # "idle"
    BY Zenon DEF DepositInv, Check, At
  <2>2. StoreStays
    BY <1>1, <1>3, <2>1, Zenon DEF StoreStays, store, Shapes, NoFault
  <2>3. \A q \in Request : Calm(q)
    BY <1>3, <2>1, GotoMoves DEF Calm
  <2> QED BY <1>3, <2>1, <2>2, <2>3, GotoMoves, CalmStep, Zenon
<1> QED BY <1>2, <1>3, Zenon DEF Check, NoFault

\* The key is reserved: nobody holds it and no mint has it.
LEMMA ReserveKeeps ==
    ASSUME DepositInv, NEW r \in Request, Reserve(r)
    PROVE  DepositInv'
<1>1. Shapes /\ req[r].pc = "reserve"
  BY Zenon DEF DepositInv, Reserve, At
<1>2. CASE req[r].d \in claimed
  BY <1>2, AnswerKeeps, Zenon DEF Reserve, store
<1>3. CASE req[r].d \notin claimed
  <2>1. /\ claimed' = claimed \cup {req[r].d} /\ Goto(r, "snapshot")
        /\ UNCHANGED <<disk, tmp, mempool, chain, faults>>
    BY <1>3, Zenon DEF Reserve
  <2>2. /\ req' \in [Request -> Requests]
        /\ req'[r].pc = "snapshot" /\ req'[r].d = req[r].d
        /\ \A q \in Request \ {r} : req'[q] = req[q]
        /\ \A q \in Request : req'[q].pc # "idle" => req'[q].d \in Deposit
    BY <1>1, <2>1, GotoMoves, Zenon
  <2>3. Txs' = Txs /\ \A k : Has(k)' <=> Has(k)
    BY <2>1, Zenon DEF Txs, Has
  <2>4. Shapes'
    BY <1>1, <2>1, <2>2, <2>3, Zenon DEF Shapes
  <2>5. \A q \in Request : Holds(q)' => (Holds(q) /\ req'[q] = req[q]) \/ q = r
    BY <2>2, Zenon DEF Holds
  <2>6. ASSUME Held PROVE Held'
    <3>1. \A tx \in Txs : tx.d # req[r].d
      BY <1>3, <2>6, Zenon DEF Held
    <3>2. \A q \in Request : Holds(q) => req[q].d # req[r].d
      BY <1>3, <2>6, Zenon DEF Held
    <3> QED BY <2>1, <2>2, <2>3, <2>5, <2>6, <3>1, <3>2, Zenon DEF Held
  <2>7. ASSUME Durable PROVE Durable'
    <3>1. \A d : Spent(d)' => Spent(d)
      BY <1>1, <2>2, <2>3, Zenon DEF Spent
    <3>2. \A q \in Request : req'[q].pc \in {"create", "write", "rename"} => q # r /\ req'[q] = req[q]
      BY <2>2, Zenon
    <3>3. \A q \in Request : Persisting(q)' => Persisting(q) /\ req'[q] = req[q] /\ (Holds(q)' => Holds(q))
      BY <3>2, Zenon DEF Persisting, Holds
    <3>4. \A q, p \in Request : Persisting(q)' /\ Persisting(p)' => q = p
      BY <2>7, <3>3, Zenon DEF Durable
    <3> QED BY <2>1, <2>7, <3>1, <3>2, <3>3, <3>4, Zenon DEF Durable, Persisting, File, Garbled
  <2> QED BY <2>3, <2>4, <2>6, <2>7, Zenon DEF DepositInv
<1> QED BY <1>2, <1>3, Zenon

\* A step of a write neither claims, nor mints, nor gives a key to a request.
LEMMA HeldStays ==
    ASSUME Held, claimed' = claimed, Txs' = Txs,
           \A q \in Request : Holds(q)' => Holds(q) /\ req'[q].d = req[q].d
    PROVE  Held'
BY Zenon DEF Held

\* The set is copied.
LEMMA SnapshotKeeps ==
    ASSUME DepositInv, NEW r \in Request, Snapshot(r), claimed \in SUBSET Deposit
    PROVE  DepositInv'
<1>1. Shapes /\ req[r].pc = "snapshot"
  BY Zenon DEF DepositInv, Snapshot, At
<1> DEFINE new == [req[r] EXCEPT !.pc = "create", !.keys = claimed]
<1>2. /\ new \in Requests
      /\ new.pc = "create" /\ new.d = req[r].d /\ new.keys = claimed /\ new.undo = req[r].undo
  BY <1>1, Zenon DEF Shapes, Requests
<1>3. req' = [req EXCEPT ![r] = new]
  BY Zenon DEF Snapshot
<1> HIDE DEF new
<1>4. /\ req' \in [Request -> Requests] /\ req'[r] = new
      /\ \A q \in Request \ {r} : req'[q] = req[q]
      /\ \A q \in Request : req'[q].pc # "idle" => req'[q].d \in Deposit
  BY <1>1, <1>2, <1>3, OneMoves, Zenon
<1>5. UNCHANGED <<claimed, disk, tmp, faults>> /\ Txs' = Txs /\ \A k : Has(k)' <=> Has(k)
  BY Zenon DEF Snapshot, store, Txs, Has
<1>6. Shapes'
  BY <1>1, <1>2, <1>4, <1>5, Zenon DEF Shapes
<1>7. \A q \in Request : (Holds(q)' <=> Holds(q)) /\ req'[q].d = req[q].d
  BY <1>1, <1>2, <1>4, Zenon DEF Holds
<1>8. \A d : Spent(d)' => Spent(d)
  BY <1>1, <1>2, <1>4, <1>5, Zenon DEF Spent
<1>9. ASSUME ~Has("overlap"), Held, Durable PROVE Durable'
  <2>1. \A q \in Request : ~Persisting(q)
    BY <1>9, Zenon DEF Snapshot
  <2>2. \A q \in Request : Persisting(q)' => q = r
    BY <1>4, <2>1, Zenon DEF Persisting
  <2>3. \A q \in Request : req'[q].pc \notin {"write", "rename"} /\ (req'[q].pc = "create" => q = r)
    BY <1>2, <1>4, <2>1, Zenon DEF Persisting
  <2>4. \A d : Spent(d) => d \in claimed
    <3>1. \A q \in Request : req[q].pc = "mint" => Holds(q)
      BY <1>1, Zenon DEF Shapes, Holds
    <3> QED BY <1>9, <3>1 DEF Spent, Held
  <2>5. Holds(r) => req[r].d \in claimed
    BY <1>9, Zenon DEF Held
  <2>6. \A d : Spent(d)' \/ (Holds(r)' /\ d = req'[r].d) => d \in req'[r].keys
    BY <1>2, <1>4, <1>7, <1>8, <2>4, <2>5, Zenon
  <2>7. \A d : Spent(d)' => d \in disk'.keys
    BY <1>5, <1>8, <1>9, Zenon DEF Durable
  <2> QED BY <2>2, <2>3, <2>6, <2>7, Zenon DEF Durable
<1>10. ASSUME Held PROVE Held'
  BY <1>5, <1>7, <1>10, HeldStays, Zenon
<1> QED BY <1>5, <1>6, <1>9, <1>10, Zenon DEF DepositInv

\* The temporary file is created, or truncated.
LEMMA CreateKeeps ==
    ASSUME DepositInv, NEW r \in Request, Create(r)
    PROVE  DepositInv'
<1>1. Shapes /\ req[r].pc = "create"
  BY Zenon DEF DepositInv, Create, At
<1> DEFINE new == [req[r] EXCEPT !.pc = "write", !.file = "tmp"]
<1>2. /\ new \in Requests
      /\ new.pc = "write" /\ new.d = req[r].d /\ new.keys = req[r].keys
      /\ new.file = "tmp" /\ new.undo = req[r].undo
  BY <1>1, Zenon DEF Shapes, Requests
<1>3. req' = [req EXCEPT ![r] = new]
  BY Zenon DEF Create
<1> HIDE DEF new
<1>4. /\ req' \in [Request -> Requests] /\ req'[r] = new
      /\ \A q \in Request \ {r} : req'[q] = req[q]
      /\ \A q \in Request : req'[q].pc # "idle" => req'[q].d \in Deposit
  BY <1>1, <1>2, <1>3, OneMoves, Zenon
<1>5. /\ UNCHANGED <<claimed, disk, faults>> /\ tmp' = File(Garbled, 0)
      /\ Txs' = Txs /\ \A k : Has(k)' <=> Has(k)
  BY Zenon DEF Create, Txs, Has
<1>6. Shapes'
  BY <1>1, <1>2, <1>4, <1>5, Zenon DEF Shapes
<1>7. \A q \in Request : (Holds(q)' <=> Holds(q)) /\ req'[q].d = req[q].d
  BY <1>1, <1>2, <1>4, Zenon DEF Holds
<1>8. \A d : Spent(d)' => Spent(d)
  BY <1>1, <1>2, <1>4, <1>5, Zenon DEF Spent
<1>9. ASSUME Durable PROVE Durable'
  <2>1. \A q \in Request : Persisting(q)' => q = r
    BY <1>1, <1>4, <1>9, Zenon DEF Durable, Persisting
  <2>2. \A q \in Request : req'[q].pc \notin {"create", "rename"} /\ (req'[q].pc = "write" => q = r)
    BY <1>2, <1>4, <2>1, Zenon DEF Persisting
  <2>3. \A d : Spent(d)' \/ (Holds(r)' /\ d = req'[r].d) => d \in req'[r].keys
    BY <1>1, <1>2, <1>4, <1>7, <1>8, <1>9, Zenon DEF Durable
  <2>4. \A d : Spent(d)' => d \in disk'.keys
    BY <1>5, <1>8, <1>9, Zenon DEF Durable
  <2>5. req'[r].file = "tmp"
    BY <1>2, <1>4, Zenon
  <2> QED BY <1>5, <2>1, <2>2, <2>3, <2>4, <2>5, Zenon DEF Durable, File, Garbled
<1>10. ASSUME Held PROVE Held'
  BY <1>5, <1>7, <1>10, HeldStays, Zenon
<1> QED BY <1>5, <1>6, <1>9, <1>10, Zenon DEF DepositInv

\* The set is written: without another write, to a file that was empty.
LEMMA WriteKeeps ==
    ASSUME DepositInv, NEW r \in Request, Write(r)
    PROVE  DepositInv'
<1>1. Shapes /\ req[r].pc = "write" /\ req[r].keys \in SUBSET Deposit
  BY Zenon DEF DepositInv, Write, At, Shapes, Requests
<1> DEFINE new == [req[r] EXCEPT !.pc = "rename", !.keys = {}, !.file = None]
<1>2. /\ new \in Requests
      /\ new.pc = "rename" /\ new.d = req[r].d /\ new.undo = req[r].undo
  BY <1>1, Zenon DEF Shapes, Requests
<1>3. req' = [req EXCEPT ![r] = new]
  BY Zenon DEF Write
<1> HIDE DEF new
<1>4. /\ req' \in [Request -> Requests] /\ req'[r] = new
      /\ \A q \in Request \ {r} : req'[q] = req[q]
      /\ \A q \in Request : req'[q].pc # "idle" => req'[q].d \in Deposit
  BY <1>1, <1>2, <1>3, OneMoves, Zenon
<1>5. UNCHANGED <<claimed, faults>> /\ Txs' = Txs /\ \A k : Has(k)' <=> Has(k)
  BY Zenon DEF Write, Txs, Has
<1>6. Shapes'
  BY <1>1, <1>2, <1>4, <1>5, Zenon DEF Shapes
<1>7. \A q \in Request : (Holds(q)' <=> Holds(q)) /\ req'[q].d = req[q].d
  BY <1>1, <1>2, <1>4, Zenon DEF Holds
<1>8. \A d : Spent(d)' => Spent(d)
  BY <1>1, <1>2, <1>4, <1>5, Zenon DEF Spent
<1>9. ASSUME Durable PROVE Durable'
  <2>1. req[r].file = "tmp" /\ tmp = File(Garbled, 0)
    BY <1>1, <1>9, Zenon DEF Durable
  <2>2. Cardinality(req[r].keys) \in Nat
    BY <1>1, DepositAssumption, FS_Subset, FS_CardinalityType, Zenon
  <2>3. tmp'.keys = req[r].keys /\ disk' = disk
    <3>1. tmp' = Written(tmp, req[r].keys) /\ disk' = disk
      BY <2>1, Zenon DEF Write
    <3>2. tmp.len <= Cardinality(req[r].keys)
      BY <2>1, <2>2 DEF File
    <3> QED BY <3>1, <3>2, Zenon DEF Written, File
  <2>4. \A q \in Request : Persisting(q)' => q = r
    BY <1>1, <1>4, <1>9, Zenon DEF Durable, Persisting
  <2>5. \A q \in Request : req'[q].pc \notin {"create", "write"} /\ (req'[q].pc = "rename" => q = r)
    BY <1>2, <1>4, <2>4, Zenon DEF Persisting
  <2>6. \A d : Spent(d)' \/ (Holds(r)' /\ d = req'[r].d) => d \in tmp'.keys
    BY <1>1, <1>2, <1>4, <1>7, <1>8, <1>9, <2>3, Zenon DEF Durable
  <2>7. \A d : Spent(d)' => d \in disk'.keys
    BY <1>8, <1>9, <2>3, Zenon DEF Durable
  <2> QED BY <2>4, <2>5, <2>6, <2>7, Zenon DEF Durable
<1>10. ASSUME Held PROVE Held'
  BY <1>5, <1>7, <1>10, HeldStays, Zenon
<1> QED BY <1>5, <1>6, <1>9, <1>10, Zenon DEF DepositInv

\* The temporary file takes the place of the store, and the request is about to
\* mint, or is answered.
LEMMA RenameKeeps ==
    ASSUME DepositInv, NEW r \in Request, Rename(r)
    PROVE  DepositInv'
<1>1. Shapes /\ req[r].pc = "rename" /\ req[r] \in Requests
  BY Zenon DEF DepositInv, Rename, At, Shapes
<1>2. CASE tmp = None
  <2>1. Answer(req, r, FALSE) /\ UNCHANGED <<store, mempool, chain, faults>>
    BY <1>2, Zenon DEF Rename, Persisted, store
  <2> QED BY <2>1, AnswerKeeps, Zenon
<1>3. CASE tmp # None
  <2>1. /\ disk' = tmp /\ UNCHANGED <<claimed, faults>>
        /\ Txs' = Txs /\ \A k : Has(k)' <=> Has(k)
    BY <1>3, Zenon DEF Rename, Txs, Has
  <2>2. \/ req' = [Renamed EXCEPT ![r].pc = "mint"] /\ ~req[r].undo
        \/ req' = [Renamed EXCEPT ![r] = Idle]
    BY <1>3, Zenon DEF Rename, Persisted, Answer
  <2>3. /\ Renamed \in [Request -> Requests]
        /\ \A q \in Request : /\ Renamed[q].pc = req[q].pc /\ Renamed[q].d = req[q].d
                              /\ Renamed[q].keys = req[q].keys /\ Renamed[q].undo = req[q].undo
    <3>1. ASSUME NEW q \in Request
          PROVE  /\ Renamed[q] \in Requests
                 /\ Renamed[q].pc = req[q].pc /\ Renamed[q].d = req[q].d
                 /\ Renamed[q].keys = req[q].keys /\ Renamed[q].undo = req[q].undo
      <4>1. req[q] \in Requests
        BY <1>1, Zenon DEF Shapes
      <4>2. PICK f \in {"disk", None} : Renamed[q] = [req[q] EXCEPT !.file = f]
        BY Zenon DEF Renamed
      <4> QED BY <4>1, <4>2, Zenon DEF Requests
    <3>2. Renamed = [q \in Request |-> Renamed[q]]
      BY Zenon DEF Renamed
    <3>3. Renamed \in [Request -> Requests]
      BY <3>1, <3>2, Zenon
    <3> QED BY <3>1, <3>3, Zenon
  <2>4. /\ req' \in [Request -> Requests]
        /\ \A q \in Request \ {r} :
              /\ req'[q].pc = req[q].pc /\ req'[q].d = req[q].d
              /\ req'[q].keys = req[q].keys /\ req'[q].undo = req[q].undo
        /\ \/ req'[r].pc = "mint" /\ req'[r].d = req[r].d /\ ~req'[r].undo /\ Holds(r)
           \/ req'[r].pc = "idle"
    <3>1. CASE req' = [Renamed EXCEPT ![r].pc = "mint"] /\ ~req[r].undo
      <4> DEFINE new == [Renamed[r] EXCEPT !.pc = "mint"]
      <4>1. Renamed[r] \in Requests
        BY <2>3, Zenon
      <4>2. new \in Requests /\ new.pc = "mint" /\ new.d = req[r].d /\ new.undo = req[r].undo
        BY <2>3, <4>1, Zenon DEF Requests
      <4>3. req' = [Renamed EXCEPT ![r] = new]
        BY <3>1, Zenon
      <4>4. Holds(r)
        BY <1>1, <3>1, Zenon DEF Holds
      <4> HIDE DEF new
      <4> QED BY <2>3, <3>1, <4>2, <4>3, <4>4, Zenon
    <3>2. CASE req' = [Renamed EXCEPT ![r] = Idle]
      <4>1. Idle \in Requests /\ Idle.pc = "idle"
        BY Zenon DEF Idle, Requests
      <4> QED BY <2>3, <3>2, <4>1, Zenon
    <3> QED BY <2>2, <3>1, <3>2, Zenon
  <2>5. Shapes'
    BY <1>1, <2>1, <2>4, Zenon DEF Shapes
  <2>6. \A q \in Request : Holds(q)' => Holds(q) /\ req'[q].d = req[q].d
    BY <2>4, Zenon DEF Holds
  <2>7. ASSUME Durable PROVE Durable'
    <3>1. \A q \in Request : ~Persisting(q)'
      BY <1>1, <2>4, <2>7, Zenon DEF Durable, Persisting
    <3>2. \A d : Spent(d)' => Spent(d) \/ (Holds(r) /\ d = req[r].d)
      BY <1>1, <2>1, <2>4, Zenon DEF Spent
    <3>3. \A d : Spent(d)' => d \in disk'.keys
      BY <1>1, <2>1, <2>7, <3>2, Zenon DEF Durable
    <3> QED BY <3>1, <3>3, Zenon DEF Durable, Persisting
  <2>8. ASSUME Held PROVE Held'
    BY <2>1, <2>6, <2>8, HeldStays, Zenon
  <2> QED BY <2>1, <2>5, <2>7, <2>8, Zenon DEF DepositInv
<1> QED BY <1>2, <1>3, Zenon

\* The mint is submitted: no other request holds the key, and no mint has it.
LEMMA MintKeeps ==
    ASSUME DepositInv, NEW r \in Request, Mint(r)
    PROVE  DepositInv'
<1>1. /\ Shapes /\ req[r].pc = "mint" /\ Holds(r) /\ req[r].d \in Deposit
      /\ UNCHANGED <<claimed, disk, tmp, chain>>
  BY Zenon DEF DepositInv, Mint, At, Shapes, Holds, store
<1>2. CASE Fault("mint") /\ Goto(r, "undo") /\ mempool' = mempool
  <2>1. /\ faults' \in [kinds : FaultSets, left : Int] /\ faults'.kinds = faults.kinds
        /\ Txs' = Txs /\ \A k : Has(k)' <=> Has(k)
    BY <1>1, <1>2, FaultKeepsKinds, Zenon DEF Txs, Has
  <2>2. /\ req' \in [Request -> Requests]
        /\ req'[r].pc = "undo" /\ req'[r].d = req[r].d /\ req'[r].undo = req[r].undo
        /\ \A q \in Request \ {r} : req'[q] = req[q]
        /\ \A q \in Request : req'[q].pc # "idle" => req'[q].d \in Deposit
    BY <1>1, <1>2, GotoMoves, Zenon
  <2>3. Shapes'
    BY <1>1, <2>1, <2>2, Zenon DEF Shapes
  <2>4. \A q \in Request : (Holds(q)' <=> Holds(q)) /\ req'[q].d = req[q].d
    BY <1>1, <2>2, Zenon DEF Holds
  <2>5. ASSUME Held PROVE Held'
    BY <1>1, <2>1, <2>4, <2>5, HeldStays, Zenon
  <2>6. ASSUME Durable PROVE Durable'
    <3>1. \A d : Spent(d)' => Spent(d)
      BY <2>1, <2>2, Zenon DEF Spent
    <3>2. \A q \in Request : req'[q].pc \in {"create", "write", "rename"} => req'[q] = req[q]
      BY <2>2, Zenon
    <3>3. \A q \in Request : Persisting(q)' => Persisting(q)
      BY <3>2, Zenon DEF Persisting
    <3> QED BY <1>1, <2>4, <2>6, <3>1, <3>2, <3>3, Zenon DEF Durable, File, Garbled
  <2> QED BY <2>1, <2>3, <2>5, <2>6, Zenon DEF DepositInv
<1>3. CASE Answer(req, r, TRUE) /\ NoFault /\ \E tx : tx.d = req[r].d /\ mempool' = mempool \cup {tx}
  <2>1. PICK tx : tx.d = req[r].d /\ mempool' = mempool \cup {tx}
    BY <1>3, Zenon
  <2>2. /\ req' = [req EXCEPT ![r] = Idle] /\ faults' = faults
        /\ Txs' = Txs \cup {tx} /\ \A k : Has(k)' <=> Has(k)
    BY <1>1, <1>3, <2>1, Zenon DEF Answer, NoFault, Txs, Has
  <2>3. Idle \in Requests /\ Idle.pc = "idle"
    BY DEF Idle, Requests
  <2>4. /\ req' \in [Request -> Requests] /\ req'[r] = Idle
        /\ \A q \in Request \ {r} : req'[q] = req[q]
    BY <1>1, <2>2, <2>3, Zenon DEF Shapes
  <2>5. Shapes'
    BY <1>1, <2>1, <2>2, <2>3, <2>4, Zenon DEF Shapes
  <2>6. \A q \in Request : Holds(q)' => q # r /\ Holds(q) /\ req'[q] = req[q]
    BY <2>3, <2>4, Zenon DEF Holds
  <2>7. ASSUME Held PROVE Held'
    <3>1. req[r].d \in claimed /\ \A b \in Txs : b.d # req[r].d
      BY <1>1, <2>7, Zenon DEF Held
    <3>2. \A q \in Request : Holds(q)' => req'[q].d # req[r].d
      BY <1>1, <2>6, <2>7, Zenon DEF Held
    <3>3. \A a, b \in Txs' : a.d = b.d => a = b
      BY <2>1, <2>2, <2>7, <3>1, Zenon DEF Held
    <3>4. \A q \in Request, b \in Txs' : Holds(q)' => b.d # req'[q].d
      BY <2>1, <2>2, <2>6, <2>7, <3>2, Zenon DEF Held
    <3>5. \A b \in Txs' : b.d \in claimed'
      BY <1>1, <2>1, <2>2, <2>7, <3>1, Zenon DEF Held
    <3>6. \A q \in Request : Holds(q)' => req'[q].d \in claimed'
      BY <1>1, <2>6, <2>7, Zenon DEF Held
    <3>7. \A p, q \in Request : Holds(p)' /\ Holds(q)' /\ req'[p].d = req'[q].d => p = q
      BY <2>6, <2>7, Zenon DEF Held
    <3> QED BY <3>3, <3>4, <3>5, <3>6, <3>7, Zenon DEF Held
  <2>8. ASSUME Durable PROVE Durable'
    <3>1. \A d : Spent(d)' => Spent(d)
      BY <1>1, <2>1, <2>2, <2>3, <2>4, Zenon DEF Spent
    <3>2. \A q \in Request : req'[q].pc \in {"create", "write", "rename"} => req'[q] = req[q]
      BY <2>3, <2>4, Zenon
    <3>3. \A q \in Request : Persisting(q)' => Persisting(q)
      BY <3>2 DEF Persisting
    <3> QED BY <1>1, <2>6, <2>8, <3>1, <3>2, <3>3, Zenon DEF Durable, File, Garbled
  <2> QED BY <2>2, <2>5, <2>7, <2>8, Zenon DEF DepositInv
<1>4. ASSUME mempool' = mempool \cup {[d |-> req[r].d, nonce |-> nonce + 1,
                                       sig |-> Cardinality(Mints(req[r].d))]}
      PROVE  \E tx : tx.d = req[r].d /\ mempool' = mempool \cup {tx}
  <2> DEFINE tx == [d |-> req[r].d, nonce |-> nonce + 1, sig |-> Cardinality(Mints(req[r].d))]
  <2>1. tx.d = req[r].d /\ mempool' = mempool \cup {tx}
    BY <1>4, Zenon
  <2> HIDE DEF tx
  <2> QED BY <2>1, Zenon
<1> QED BY <1>2, <1>3, <1>4, Zenon DEF Mint

\* The key is taken out: nobody else holds it and no mint has it.
LEMMA UndoKeeps ==
    ASSUME DepositInv, NEW r \in Request, Undo(r)
    PROVE  DepositInv'
<1>1. Shapes /\ req[r].pc = "undo" /\ Holds(r)
  BY Zenon DEF DepositInv, Undo, At, Shapes, Holds
<1> DEFINE new == [req[r] EXCEPT !.pc = "snapshot", !.undo = TRUE]
<1>2. new \in Requests /\ new.pc = "snapshot" /\ new.d = req[r].d /\ new.undo
  BY <1>1, Zenon DEF Shapes, Requests
<1>3. req' = [req EXCEPT ![r] = new]
  BY Zenon DEF Undo
<1> HIDE DEF new
<1>4. /\ req' \in [Request -> Requests] /\ req'[r] = new
      /\ \A q \in Request \ {r} : req'[q] = req[q]
      /\ \A q \in Request : req'[q].pc # "idle" => req'[q].d \in Deposit
  BY <1>1, <1>2, <1>3, OneMoves, Zenon
<1>5. /\ UNCHANGED <<disk, tmp, faults>> /\ claimed' = claimed \ {req[r].d}
      /\ Txs' = Txs /\ \A k : Has(k)' <=> Has(k)
  BY Zenon DEF Undo, Txs, Has
<1>6. Shapes'
  BY <1>1, <1>2, <1>4, <1>5, Zenon DEF Shapes
<1>7. \A q \in Request : Holds(q)' => q # r /\ Holds(q) /\ req'[q] = req[q]
  BY <1>2, <1>4, Zenon DEF Holds
<1>8. ASSUME Held PROVE Held'
  <2>1. \A tx \in Txs : tx.d # req[r].d
    BY <1>1, <1>8, Zenon DEF Held
  <2>2. \A q \in Request : Holds(q)' => req[q].d # req[r].d
    BY <1>1, <1>7, <1>8, Zenon DEF Held
  <2> QED BY <1>5, <1>7, <1>8, <2>1, <2>2, Zenon DEF Held
<1>9. ASSUME Durable PROVE Durable'
  <2>1. \A d : Spent(d)' => Spent(d)
    BY <1>2, <1>4, <1>5, Zenon DEF Spent
  <2>2. \A q \in Request : req'[q].pc \in {"create", "write", "rename"} => req'[q] = req[q]
    BY <1>2, <1>4, Zenon
  <2>3. \A q \in Request : Persisting(q)' => Persisting(q)
    BY <2>2 DEF Persisting
  <2> QED BY <1>5, <1>7, <1>9, <2>1, <2>2, <2>3, Zenon DEF Durable, File, Garbled
<1> QED BY <1>5, <1>6, <1>8, <1>9, Zenon DEF DepositInv

\* A crash: what is claimed is what the file has.
LEMMA CrashKeeps ==
    ASSUME DepositInv, DaemonCrash
    PROVE  DepositInv'
<1>1. Shapes /\ Fault("crash")
  BY Zenon DEF DepositInv, DaemonCrash
<1>2. /\ faults' \in [kinds : FaultSets, left : Int] /\ Has("crash")
      /\ \A k : Has(k)' <=> Has(k)
  BY <1>1, FaultKeepsKinds, Zenon DEF Has
<1>3. /\ claimed' = disk.keys \ Garbled /\ UNCHANGED <<disk, tmp>>
      /\ Txs' \subseteq Txs /\ req' = [r \in Request |-> Idle]
  BY Zenon DEF DaemonCrash, Txs
<1>4. Idle \in Requests /\ Idle.pc = "idle"
  BY Zenon DEF Idle, Requests
<1>5. req' \in [Request -> Requests] /\ \A r \in Request : req'[r].pc = "idle"
  BY <1>3, <1>4, Zenon
<1>6. Shapes'
  BY <1>1, <1>2, <1>3, <1>5, Zenon DEF Shapes
<1>7. ASSUME Held, Durable PROVE Held'
  <2>1. \A r \in Request : ~Holds(r)'
    BY <1>5, Zenon DEF Holds
  <2>2. \A tx \in Txs' : tx.d \in disk.keys /\ tx.d # None
    BY <1>1, <1>3, <1>7, DepositAssumption, Zenon DEF Durable, Spent, Shapes
  <2>3. \A tx \in Txs' : tx.d \in claimed'
    BY <1>3, <2>2, Zenon DEF Garbled
  <2>4. \A a, b \in Txs' : a.d = b.d => a = b
    BY <1>3, <1>7, Zenon DEF Held
  <2> QED BY <2>1, <2>3, <2>4, Zenon DEF Held
<1>8. ASSUME Durable PROVE Durable'
  <2>1. \A r \in Request : ~Persisting(r)' /\ req'[r].pc \notin {"mint", "create", "write", "rename"}
    BY <1>5, Zenon DEF Persisting
  <2>2. \A d : Spent(d)' => Spent(d)
    BY <1>3, <2>1, Zenon DEF Spent
  <2>3. \A d : Spent(d)' => d \in disk'.keys
    BY <1>3, <1>8, <2>2, Zenon DEF Durable
  <2> QED BY <2>1, <2>3, Zenon DEF Durable
<1> QED BY <1>2, <1>6, <1>7, <1>8, Zenon DEF DepositInv

-----------------------------------------------------------------------------
\* The contents of the store are keys of deposits, or do not parse.
Contents ==
    /\ claimed \subseteq Deposit
    /\ disk.keys \subseteq Deposit \cup {None}
    /\ tmp # None => tmp.keys \subseteq Deposit \cup {None}

LEMMA WrittenKeys ==
    ASSUME NEW f, NEW keys \in SUBSET Deposit
    PROVE  Written(f, keys).keys \subseteq Deposit \cup {None}
BY Zenon DEF Written, File, Garbled

\* Every step of a handler keeps the contents in order.
LEMMA HandleKeepsContents ==
    ASSUME Shapes, Contents, NEW r \in Request, Handle(r)
    PROVE  Contents'
<1>1. req[r] \in Requests /\ req[r].keys \in SUBSET Deposit /\ (req[r].pc # "idle" => req[r].d \in Deposit)
  BY Zenon DEF Shapes, Requests
<1>2. CASE Check(r) \/ Snapshot(r) \/ Mint(r)
  <2>1. UNCHANGED store
    BY <1>2, Zenon DEF Check, Snapshot, Mint
  <2> QED BY <2>1, Zenon DEF store, Contents
<1>3. CASE Reserve(r) \/ Undo(r)
  <2>1. UNCHANGED <<disk, tmp>> /\ claimed' \subseteq claimed \cup {req[r].d} /\ req[r].pc # "idle"
    BY <1>3, Zenon DEF Reserve, Undo, At
  <2> QED BY <1>1, <2>1, Zenon DEF Contents
<1>4. CASE Create(r)
  BY <1>4, Zenon DEF Create, Contents, File, Garbled
<1>5. CASE Write(r)
  <2>1. /\ claimed' = claimed
        /\ tmp' = tmp \/ tmp' = Written(tmp, req[r].keys)
        /\ disk' = disk \/ disk' = Written(disk, req[r].keys)
    BY <1>5, Zenon DEF Write
  <2> QED BY <1>1, <2>1, WrittenKeys, Zenon DEF Contents
<1>6. CASE Rename(r)
  <2>1. claimed' = claimed /\ (UNCHANGED <<disk, tmp>> \/ (tmp # None /\ disk' = tmp /\ tmp' = None))
    BY <1>6, Zenon DEF Rename
  <2> QED BY <2>1, Zenon DEF Contents
<1> QED BY <1>2, <1>3, <1>4, <1>5, <1>6, Zenon DEF Handle

LEMMA InitKeeps == Init => DepositInv /\ Contents
<1> SUFFICES ASSUME Init PROVE DepositInv /\ Contents
  BY Zenon
<1>1. Idle \in Requests /\ Idle.pc = "idle"
  BY Zenon DEF Idle, Requests
<1>2. /\ req \in [Request -> Requests] /\ \A r \in Request : req[r].pc = "idle"
      /\ Txs = {} /\ claimed = {}
  BY <1>1, Zenon DEF Init, Txs
<1>3. faults \in [kinds : FaultSets, left : Int]
  BY DepositAssumption DEF Init
<1>4. Shapes
  BY <1>2, <1>3, Zenon DEF Shapes
<1>5. Held
  BY <1>2, Zenon DEF Held, Holds
<1>6. Durable
  BY <1>2, Zenon DEF Durable, Persisting, Spent
<1>7. Contents
  BY Zenon DEF Init, Contents, File
<1> QED BY <1>4, <1>5, <1>6, <1>7, Zenon DEF DepositInv

\* The steps of the handlers.
LEMMA HandleKeeps ==
    ASSUME DepositInv, Contents, NEW r \in Request, Handle(r)
    PROVE  DepositInv'
BY CheckKeeps, ReserveKeeps, SnapshotKeeps, CreateKeeps, WriteKeeps, RenameKeeps,
   MintKeeps, UndoKeeps, Zenon DEF Handle, Contents

\* The steps of the watcher.
LEMMA WatchKeeps ==
    ASSUME DepositInv, Contents, NEW p \in Poll, Watch(p)
    PROVE  DepositInv' /\ Contents'
<1>1. UNCHANGED <<store, mempool, chain>>
  BY Zenon DEF Watch, StartPoll, NextClaim, Scan, Finish, daemon
<1>2. Contents'
  BY <1>1, Zenon DEF Contents, store
<1>3. CASE StartPoll(p) \/ Scan(p) \/ Finish(p)
  <2>1. UNCHANGED <<store, req>>
    BY <1>3, Zenon DEF StartPoll, Scan, Finish, daemon
  <2>2. UNCHANGED faults \/ \E kind : Fault(kind)
    BY <1>3, Zenon DEF StartPoll, Scan, Finish, Save, NoFault
  <2> QED BY <1>1, <1>2, <2>1, <2>2, OutsideKeeps, Zenon
<1>4. ASSUME NEW r \in Request, NextClaim(p, r) PROVE DepositInv'
  <2>1. UNCHANGED faults /\ (UNCHANGED req \/ \E d \in Deposit : Arrive(r, d, p))
    BY <1>4, Zenon DEF NextClaim
  <2>2. CASE UNCHANGED req
    BY <1>1, <2>1, <2>2, OutsideKeeps, Zenon
  <2>3. ASSUME NEW d \in Deposit, Arrive(r, d, p) PROVE DepositInv'
    BY <1>1, <2>1, <2>3, ArriveKeeps, Zenon
  <2> QED BY <2>1, <2>2, <2>3, Zenon
<1> QED BY <1>2, <1>3, <1>4, Zenon DEF Watch

\* The relayer starts again.
LEMMA RestartKeeps ==
    ASSUME DepositInv, NEW w, Restart(w), UNCHANGED faults \/ \E kind : Fault(kind)
    PROVE  DepositInv'
<1> DEFINE all == Request
<1>1. UNCHANGED <<store, mempool, chain>>
  BY Zenon DEF Restart
<1>2. req' = [r \in Request |-> IF r \in all THEN [req[r] EXCEPT !.by = None] ELSE req[r]]
  BY Zenon DEF Restart
<1>3. all \in SUBSET Request
  BY Zenon
<1> HIDE DEF all
<1> QED BY <1>1, <1>2, <1>3, DetachKeeps, Zenon

\* A poll gives up waiting.
LEMMA TimeoutKeeps ==
    ASSUME DepositInv, NEW p \in Poll, Timeout(p)
    PROVE  DepositInv'
<1> DEFINE mine == {r \in Request : req[r].by = p}
<1>1. UNCHANGED <<store, mempool, chain>> /\ Fault("slow")
  BY Zenon DEF Timeout
<1>2. req' = [r \in Request |-> IF r \in mine THEN [req[r] EXCEPT !.by = None] ELSE req[r]]
  BY Zenon DEF Timeout
<1>3. mine \in SUBSET Request
  BY Zenon
<1> HIDE DEF mine
<1> QED BY <1>1, <1>2, <1>3, DetachKeeps, Zenon

\* Every step keeps the invariant.
LEMMA NextKeeps ==
    DepositInv /\ Contents /\ [Next]_vars => DepositInv' /\ Contents'
<1> SUFFICES ASSUME DepositInv, Contents, [Next]_vars PROVE DepositInv' /\ Contents'
  BY Zenon
<1>1. CASE UNCHANGED vars
  <2>1. UNCHANGED <<store, req, mempool, chain, faults>>
    BY <1>1, Zenon DEF vars, daemon
  <2> QED BY <2>1, OutsideKeeps, Zenon DEF Contents, store
<1>2. CASE Grow \/ Produce \/ Evict \/ Shutdown
  <2>1. UNCHANGED <<store, req>> /\ mempool' \cup chain' \subseteq mempool \cup chain
    BY <1>2, Zenon DEF Grow, Produce, Evict, Shutdown, daemon
  <2>2. UNCHANGED faults \/ \E kind : Fault(kind)
    BY <1>2, Zenon DEF Grow, Produce, Evict, Shutdown
  <2> QED BY <2>1, <2>2, OutsideKeeps, Zenon DEF Contents, store
<1>3. CASE DaemonCrash
  <2>1. Contents'
    BY <1>3, Zenon DEF DaemonCrash, Contents, Garbled
  <2> QED BY <1>3, <2>1, CrashKeeps, Zenon
<1>4. CASE RelayerCrash \/ Exit
  <2>1. \E w : Restart(w)
    BY <1>4, Zenon DEF RelayerCrash, Exit
  <2>2. UNCHANGED faults \/ \E kind : Fault(kind)
    BY <1>4, Zenon DEF RelayerCrash, Exit
  <2>3. Contents'
    BY <2>1, Zenon DEF Restart, Contents, store
  <2> QED BY <2>1, <2>2, <2>3, RestartKeeps, Zenon
<1>5. ASSUME NEW r \in Request, Handle(r) PROVE DepositInv' /\ Contents'
  BY <1>5, HandleKeeps, HandleKeepsContents, Zenon DEF DepositInv
<1>6. ASSUME NEW r \in Request, PersistFails(r) PROVE DepositInv' /\ Contents'
  <2>1. Answer(req, r, FALSE) /\ UNCHANGED <<store, mempool, chain>> /\ Fault("io")
    BY <1>6, Zenon DEF PersistFails, Persisted
  <2> QED BY <2>1, AnswerKeeps, Zenon DEF Contents, store
<1>7. ASSUME NEW r \in Request, Drop(r) PROVE DepositInv' /\ Contents'
  BY <1>7, DropKeeps, Zenon DEF Drop, Contents, store
<1>8. ASSUME NEW r \in Request, NEW d \in Browser, BrowserClaim(r, d) PROVE DepositInv' /\ Contents'
  <2>1. d \in Deposit
    BY DepositAssumption, Zenon
  <2>2. Arrive(r, d, None) /\ UNCHANGED <<store, mempool, chain, faults>>
    BY <1>8, Zenon DEF BrowserClaim
  <2> QED BY <2>1, <2>2, ArriveKeeps, Zenon DEF Contents, store
<1>9. ASSUME NEW p \in Poll, Watch(p) PROVE DepositInv' /\ Contents'
  BY <1>9, WatchKeeps, Zenon
<1>10. ASSUME NEW p \in Poll, Timeout(p) PROVE DepositInv' /\ Contents'
  BY <1>10, TimeoutKeeps, Zenon DEF Timeout, Contents, store
<1> QED BY <1>1, <1>2, <1>3, <1>4, <1>5, <1>6, <1>7, <1>8, <1>9, <1>10, Zenon DEF Next

LEMMA DepositInvHolds == Spec => [](DepositInv /\ Contents)
<1>1. Init => DepositInv /\ Contents
  BY InitKeeps, Zenon
<1>2. (DepositInv /\ Contents) /\ [Next]_vars => (DepositInv /\ Contents)'
  BY NextKeeps, Zenon
<1> QED BY <1>1, <1>2, PTL DEF Spec

\* A deposit is minted at most once, whoever claims it and whatever fails, unless
\* writes of the claim store overlap and the daemon crashes (insert_if_absent,
\* reserve_then_mint).
THEOREM DepositsAreMintedOnce == Spec => []MintedOnce
<1>1. DepositInv => MintedOnce
  BY Zenon DEF DepositInv, Held, MintedOnce, Txs
<1> QED BY <1>1, DepositInvHolds, PTL

\* The claim store's file has the key of every mint at every moment, so that a
\* crash loses none, as long as its writes do not overlap (persist).
THEOREM NullifiersAreDurable == Spec => []NullifierDurable
<1>1. DepositInv => NullifierDurable
  BY Zenon DEF DepositInv, Durable, Spent, NullifierDurable, Mints, Txs
<1> QED BY <1>1, DepositInvHolds, PTL

-----------------------------------------------------------------------------
(* The watcher: a poll and the request it waits for, and the deposits the  *)
(* cursor has passed.                                                      *)

Polls ==
    [pc : {"idle", "retry", "found"}, todo : SUBSET Deposit, d : Deposit \cup {None}, to : 0..MaxHead]

WatchTypes ==
    /\ head \in 0..MaxHead
    /\ watch \in Watchers /\ saved \in Watchers
    /\ poll \in [Poll -> Polls]

\* A poll that waits has a request, its only one, which is for its deposit.
Linked ==
    /\ \A r \in Request : req[r].by # None => req[r].pc # "idle"
    /\ \A q, r \in Request : req[q].by = req[r].by /\ req[r].by # None => q = r
    /\ \A p \in Poll : Waiting(p) => \E r \in Request : req[r].by = p
    /\ \A p \in Poll, r \in Request : req[r].by = p => req[r].d = poll[p].d

OnRecord(w, d) == d \in w.done \cup w.pending

\* Below the cursor every deposit is on record; below the end of a range that a
\* poll has scanned it is on record, or the poll has still to claim it.
NoneSkipped ==
    /\ ~stopping
    /\ watch.last # None /\ saved.last # None
    /\ \A d \in Deposit : Block[d] <= watch.last => OnRecord(watch, d)
    /\ \A d \in Deposit : Block[d] <= saved.last => OnRecord(saved, d)
    /\ \A p \in Poll, d \in Deposit :
          poll[p].pc = "found" /\ Block[d] <= poll[p].to =>
              OnRecord(watch, d) \/ d \in poll[p].todo \/ d = poll[p].d

WatchInv ==
    /\ WatchTypes
    /\ Linked
    /\ ~(Has("stop") \/ Has("torn")) => NoneSkipped

\* The nonces of mints, and the files of the store.
FileOK(f) ==
    f.keys \in (SUBSET Deposit) \cup {Garbled} /\ f.len \in 0..Cardinality(Deposit)

Nonces ==
    /\ nonce \in Nat
    /\ \A tx \in mempool : tx.nonce = nonce + 1
    /\ \A tx \in chain : tx.nonce \in 1..nonce

StoreTypes ==
    /\ Nonces
    /\ FileOK(disk) /\ (tmp # None => FileOK(tmp))
    /\ \A r \in Request : req[r].file = "tmp" => FileOK(tmp)

\* The records of the watcher grow, and what a poll has still to claim it keeps,
\* or its deposit is on record.
LEMMA RecordsKept ==
    ASSUME NoneSkipped, stopping' = stopping, saved' = saved, watch'.last = watch.last,
           \A d \in Deposit : OnRecord(watch, d) => OnRecord(watch', d),
           \A p \in Poll : poll'[p].pc = "found" =>
              /\ poll[p].pc = "found" /\ poll'[p].to = poll[p].to
              /\ \A d \in Deposit : d \in poll[p].todo \/ d = poll[p].d =>
                    OnRecord(watch', d) \/ d \in poll'[p].todo \/ d = poll'[p].d
    PROVE  NoneSkipped'
<1>1. /\ ~stopping' /\ watch'.last # None /\ saved'.last # None
      /\ \A d \in Deposit : Block[d] <= watch'.last => OnRecord(watch', d)
      /\ \A d \in Deposit : Block[d] <= saved'.last => OnRecord(saved', d)
  BY Zenon DEF NoneSkipped
<1>2. ASSUME NEW p \in Poll, NEW d \in Deposit, poll'[p].pc = "found", Block[d] <= poll'[p].to
      PROVE  OnRecord(watch', d) \/ d \in poll'[p].todo \/ d = poll'[p].d
  <2>1. OnRecord(watch, d) \/ d \in poll[p].todo \/ d = poll[p].d
    BY <1>2, Zenon DEF NoneSkipped
  <2> QED BY <1>2, <2>1, Zenon
<1> QED BY <1>1, <1>2, Zenon DEF NoneSkipped

\* A step that leaves the watcher alone and only brings requests further, or takes
\* in or drops some that nobody waits for.
LEMMA SteadyKeepsWatch ==
    ASSUME WatchInv, UNCHANGED relayer, head' \in 0..MaxHead, faults'.kinds = faults.kinds,
           \A r \in Request : /\ req'[r].by = req[r].by
                              /\ req[r].by # None => req'[r].pc # "idle" /\ req'[r].d = req[r].d
    PROVE  WatchInv'
<1>1. UNCHANGED <<watch, saved, poll, stopping>>
  BY Zenon DEF relayer
<1>2. WatchTypes'
  BY <1>1, Zenon DEF WatchInv, WatchTypes
<1>3. Linked'
  <2>1. \A p \in Poll : Waiting(p)' <=> Waiting(p)
    BY <1>1, Zenon DEF Waiting
  <2>2. \A r \in Request : req'[r].by # None => req'[r].pc # "idle"
    BY Zenon DEF WatchInv, Linked
  <2>3. \A q, r \in Request : req'[q].by = req'[r].by /\ req'[r].by # None => q = r
    BY DEF WatchInv, Linked
  <2>4. \A p \in Poll : Waiting(p)' => \E r \in Request : req'[r].by = p
    BY <2>1 DEF WatchInv, Linked
  <2>5. ASSUME NEW p \in Poll, NEW r \in Request, req'[r].by = p PROVE req'[r].d = poll'[p].d
    BY <1>1, <2>5, DepositAssumption DEF WatchInv, Linked
  <2> QED BY <2>2, <2>3, <2>4, <2>5, Zenon DEF Linked
<1>4. ASSUME NoneSkipped PROVE NoneSkipped'
  BY <1>1, <1>4, Zenon DEF NoneSkipped
<1>5. \A k : Has(k)' <=> Has(k)
  BY Zenon DEF Has
<1> QED BY <1>2, <1>3, <1>4, <1>5, Zenon DEF WatchInv

\* The answer to a request: the deposit is on record, and the poll goes on.
LEMMA AnswerKeepsWatch ==
    ASSUME WatchInv, Shapes, NEW q \in [Request -> Requests], NEW r \in Request, NEW ok \in BOOLEAN,
           Answer(q, r, ok), req[r].pc # "idle", UNCHANGED head, faults'.kinds = faults.kinds,
           \A s \in Request : q[s].by = req[s].by /\ q[s].d = req[s].d /\ q[s].pc = req[s].pc
    PROVE  WatchInv'
<1>1. /\ req'[r] = Idle /\ Idle.by = None
      /\ \A s \in Request \ {r} : req'[s] = q[s]
  BY Zenon DEF Answer, Idle
<1>2. req[r].d \in Deposit /\ req[r].by \in Poll \cup {None} /\ UNCHANGED <<saved, stopping>>
  BY Zenon DEF Shapes, Requests, Answer
<1>3. \A k : Has(k)' <=> Has(k)
  BY Zenon DEF Has
<1>4. CASE req[r].by = None
  <2>1. UNCHANGED <<watch, poll>>
    BY <1>4, Zenon DEF Answer
  <2>2. \A s \in Request : /\ req'[s].by = req[s].by
                           /\ req[s].by # None => req'[s].pc # "idle" /\ req'[s].d = req[s].d
    BY <1>1, <1>4 DEF WatchInv, Linked
  <2> QED BY <1>2, <2>1, <2>2, SteadyKeepsWatch, Zenon DEF relayer, WatchInv, WatchTypes
<1>5. CASE req[r].by # None
  <2> DEFINE p == req[r].by
             d == req[r].d
  <2>1. p \in Poll /\ d \in Deposit /\ poll[p] \in Polls /\ poll[p].d = d
    BY <1>2, <1>5, Zenon DEF WatchInv, WatchTypes, Linked
  <2>2. /\ watch' = Claimed(d) \/ watch' = Failed(d)
        /\ poll' = [poll EXCEPT ![p].d = None]
    BY <1>5, Zenon DEF Answer
  <2>3. /\ watch' \in Watchers /\ watch'.last = watch.last /\ OnRecord(watch', d)
        /\ \A e \in Deposit : OnRecord(watch, e) => OnRecord(watch', e)
    BY <2>1, <2>2 DEF Claimed, Failed, Watcher, Watchers, OnRecord, WatchInv, WatchTypes
  <2> HIDE DEF p, d
  <2> DEFINE new == [poll[p] EXCEPT !.d = None]
  <2>4. /\ new \in Polls /\ new.d = None /\ new.pc = poll[p].pc
        /\ new.todo = poll[p].todo /\ new.to = poll[p].to
    BY <2>1, Zenon DEF Polls
  <2>5. poll' = [poll EXCEPT ![p] = new] /\ poll \in [Poll -> Polls]
    BY <2>2, Zenon DEF WatchInv, WatchTypes
  <2> HIDE DEF new
  <2>6. poll' \in [Poll -> Polls] /\ poll'[p] = new /\ \A o \in Poll \ {p} : poll'[o] = poll[o]
    BY <2>1, <2>4, <2>5, Zenon
  <2>7. WatchTypes'
    BY <1>2, <2>3, <2>6, Zenon DEF WatchInv, WatchTypes
  <2>8. Linked'
    <3>1. \A s \in Request \ {r} : req'[s].by # p
      BY <1>1, <1>5 DEF WatchInv, Linked, p
    <3>2. \A s \in Request : req'[s].by # None => req'[s].pc # "idle" /\ s # r
      BY <1>1 DEF WatchInv, Linked
    <3>3. \A s, t \in Request : req'[s].by = req'[t].by /\ req'[t].by # None => s = t
      BY <1>1, <3>2 DEF WatchInv, Linked
    <3>4. ASSUME NEW o \in Poll, Waiting(o)' PROVE \E s \in Request : req'[s].by = o
      <4>1. o # p /\ Waiting(o)
        BY <2>4, <2>6, <3>4, Zenon DEF Waiting
      <4>2. PICK s \in Request : req[s].by = o
        BY <4>1, Zenon DEF WatchInv, Linked
      <4> QED BY <1>1, <4>1, <4>2, Zenon DEF p
    <3>5. ASSUME NEW o \in Poll, NEW s \in Request, req'[s].by = o PROVE req'[s].d = poll'[o].d
      <4>1. s # r /\ o # p
        BY <1>1, <3>1, <3>2, <3>5, DepositAssumption, Zenon
      <4> QED BY <1>1, <2>6, <3>5, <4>1 DEF WatchInv, Linked
    <3> QED BY <3>2, <3>3, <3>4, <3>5, Zenon DEF Linked
  <2>9. ASSUME NoneSkipped PROVE NoneSkipped'
    <3>1. ASSUME NEW o \in Poll, poll'[o].pc = "found"
          PROVE  /\ poll[o].pc = "found" /\ poll'[o].to = poll[o].to
                 /\ \A e \in Deposit : e \in poll[o].todo \/ e = poll[o].d =>
                       OnRecord(watch', e) \/ e \in poll'[o].todo \/ e = poll'[o].d
      BY <2>1, <2>3, <2>4, <2>6, <3>1, Zenon
    <3> QED BY <1>2, <2>3, <2>9, <3>1, RecordsKept, Zenon
  <2> QED BY <1>3, <2>7, <2>8, <2>9, Zenon DEF WatchInv
<1> QED BY <1>4, <1>5, Zenon

\* A poll starts, or ends: it waits for nothing, before and after.
LEMMA PollKeepsWatch ==
    ASSUME WatchInv, NEW p \in Poll, NEW new \in Polls, poll' = [poll EXCEPT ![p] = new],
           ~Waiting(p), new.d = None, new.pc # "found",
           UNCHANGED <<head, req, watch, saved, stopping>>, faults'.kinds = faults.kinds
    PROVE  WatchInv'
<1>1. poll' \in [Poll -> Polls] /\ poll'[p] = new /\ \A o \in Poll \ {p} : poll'[o] = poll[o]
  BY Zenon DEF WatchInv, WatchTypes
<1>2. WatchTypes'
  BY <1>1, Zenon DEF WatchInv, WatchTypes
<1>3. \A o \in Poll : poll'[o].d = poll[o].d
  BY <1>1, Zenon DEF Waiting
<1>4. Linked'
  BY <1>3, Zenon DEF WatchInv, Linked, Waiting
<1>5. ASSUME NoneSkipped PROVE NoneSkipped'
  <2>1. \A o \in Poll : poll'[o].pc = "found" => poll'[o] = poll[o]
    BY <1>1, Zenon
  <2> QED BY <1>5, <2>1, RecordsKept, Zenon
<1> QED BY <1>2, <1>4, <1>5, Zenon DEF WatchInv, Has

\* A loop takes up its next deposit, or passes one that is on record.
LEMMA NextClaimKeepsWatch ==
    ASSUME WatchInv, Shapes, NEW p \in Poll, NEW r \in Request, NextClaim(p, r)
    PROVE  WatchInv'
<1>1. PICK d \in Deposit :
        /\ d \in poll[p].todo
        /\ \/ /\ poll[p].pc = "found" /\ d \in watch.done \cup watch.pending
              /\ poll' = [poll EXCEPT ![p].todo = @ \ {d}] /\ UNCHANGED req
           \/ poll' = [poll EXCEPT ![p].todo = @ \ {d}, ![p].d = d] /\ Arrive(r, d, p)
  BY Zenon DEF NextClaim
<1>2. /\ ~Waiting(p) /\ poll[p] \in Polls /\ poll \in [Poll -> Polls]
      /\ UNCHANGED <<head, watch, saved, stopping, faults>>
  BY Zenon DEF NextClaim, WatchInv, WatchTypes
<1> DEFINE e == IF UNCHANGED req THEN poll[p].d ELSE d
           new == [poll[p] EXCEPT !.todo = @ \ {d}, !.d = e]
<1>3. /\ new \in Polls /\ new.todo = poll[p].todo \ {d} /\ new.d = e
      /\ new.pc = poll[p].pc /\ new.to = poll[p].to
  BY <1>2, Zenon DEF Polls
<1>4. CASE /\ poll[p].pc = "found" /\ OnRecord(watch, d)
           /\ poll' = [poll EXCEPT ![p].todo = @ \ {d}] /\ UNCHANGED req
  <2>1. poll' = [poll EXCEPT ![p] = new]
    BY <1>2, <1>4, Zenon DEF Polls
  <2>2. e = poll[p].d
    BY <1>4, Zenon
  <2> HIDE DEF new, e
  <2>3. poll' \in [Poll -> Polls] /\ poll'[p] = new /\ \A o \in Poll \ {p} : poll'[o] = poll[o]
    BY <1>2, <1>3, <2>1, Zenon
  <2>4. WatchTypes'
    BY <1>2, <2>3, Zenon DEF WatchInv, WatchTypes
  <2>5. \A o \in Poll : poll'[o].d = poll[o].d
    BY <1>3, <2>2, <2>3, Zenon
  <2>6. Linked'
    BY <1>4, <2>5, Zenon DEF WatchInv, Linked, Waiting
  <2>7. ASSUME NoneSkipped PROVE NoneSkipped'
    <3>1. \A o \in Poll : /\ poll'[o].pc = poll[o].pc /\ poll'[o].to = poll[o].to
                          /\ \A x \in Deposit : x \in poll[o].todo => x \in poll'[o].todo \/ x = d
      BY <1>3, <2>3, Zenon
    <3> QED BY <1>2, <1>4, <2>5, <2>7, <3>1, RecordsKept, Zenon
  <2> QED BY <1>2, <2>4, <2>6, <2>7, Zenon DEF WatchInv, Has
<1>5. CASE poll' = [poll EXCEPT ![p].todo = @ \ {d}, ![p].d = d] /\ Arrive(r, d, p)
  <2> DEFINE job == [Idle EXCEPT !.pc = "check", !.d = d, !.by = p]
  <2>1. job.pc = "check" /\ job.d = d /\ job.by = p
    BY Zenon DEF Idle
  <2>2. req' = [req EXCEPT ![r] = job] /\ req[r].pc = "idle"
    BY <1>5, Zenon DEF Arrive
  <2> HIDE DEF job
  <2>3. req'[r] = job /\ \A s \in Request \ {r} : req'[s] = req[s]
    BY <2>2, Zenon DEF Shapes
  <2>4. e = d
    <3>1. req' # req
      BY <2>1, <2>2, <2>3, Zenon
    <3> QED BY <3>1, Zenon
  <2>5. poll' = [poll EXCEPT ![p] = new]
    BY <1>2, <1>5, <2>4, Zenon DEF Polls
  <2> HIDE DEF new, e
  <2>6. poll' \in [Poll -> Polls] /\ poll'[p] = new /\ \A o \in Poll \ {p} : poll'[o] = poll[o]
    BY <1>2, <1>3, <2>5
  <2>7. WatchTypes'
    BY <1>2, <2>6 DEF WatchInv, WatchTypes
  <2>8. Linked'
    <3>1. \A s \in Request : req[s].by # p
      <4> SUFFICES ASSUME NEW s \in Request, req[s].by = p PROVE FALSE
        BY Zenon
      <4>1. req[s].d \in Deposit
        BY DepositAssumption DEF WatchInv, Linked, Shapes
      <4> QED BY <1>2, <4>1, DepositAssumption DEF WatchInv, Linked, Waiting
    <3>2. \A s \in Request : req'[s].by # None => req'[s].pc # "idle"
      BY <2>1, <2>3, Zenon DEF WatchInv, Linked
    <3>3. \A s, t \in Request : req'[s].by = req'[t].by /\ req'[t].by # None => s = t
      BY <2>1, <2>3, <3>1 DEF WatchInv, Linked
    <3>4. ASSUME NEW o \in Poll, Waiting(o)' PROVE \E s \in Request : req'[s].by = o
      <4>1. CASE o = p
        BY <2>1, <2>3, <4>1, Zenon
      <4>2. CASE o # p
        <5>1. PICK s \in Request : req[s].by = o
          BY <2>6, <3>4, <4>2, Zenon DEF WatchInv, Linked, Waiting
        <5>2. s # r
          BY <2>2, <5>1, DepositAssumption, Zenon DEF WatchInv, Linked
        <5> QED BY <2>3, <5>1, <5>2, Zenon
      <4> QED BY <4>1, <4>2, Zenon
    <3>5. ASSUME NEW o \in Poll, NEW s \in Request, req'[s].by = o PROVE req'[s].d = poll'[o].d
      <4>1. CASE s = r
        BY <1>3, <2>1, <2>3, <2>4, <2>6, <3>5, <4>1, Zenon
      <4>2. CASE s # r
        BY <2>3, <2>6, <3>1, <3>5, <4>2 DEF WatchInv, Linked
      <4> QED BY <4>1, <4>2, Zenon
    <3> QED BY <3>2, <3>3, <3>4, <3>5, Zenon DEF Linked
  <2>9. ASSUME NoneSkipped PROVE NoneSkipped'
    <3>1. \A o \in Poll : /\ poll'[o].pc = poll[o].pc /\ poll'[o].to = poll[o].to
                          /\ \A x \in Deposit : x \in poll[o].todo \/ x = poll[o].d =>
                                x \in poll'[o].todo \/ x = poll'[o].d
      BY <1>2, <1>3, <2>4, <2>6, DepositAssumption, Zenon DEF Waiting
    <3> QED BY <1>2, <2>9, <3>1, RecordsKept, Zenon
  <2> QED BY <1>2, <2>7, <2>8, <2>9 DEF WatchInv, Has
<1> QED BY <1>1, <1>4, <1>5, Zenon DEF OnRecord

\* The daemon or a poll gives up some of the requests: the deposits of the polls
\* that waited are on record, and those polls go on.
LEMMA GiveUpKeepsWatch ==
    ASSUME WatchInv, NEW S \in SUBSET Poll,
           poll' = [p \in Poll |-> IF p \in S THEN [poll[p] EXCEPT !.d = None] ELSE poll[p]],
           watch' \in Watchers, watch'.last = watch.last,
           \A d \in Deposit : OnRecord(watch, d) => OnRecord(watch', d),
           \A p \in S : poll[p].d # None => OnRecord(watch', poll[p].d),
           \A r \in Request : /\ req'[r].by # None => req'[r] = req[r]
                              /\ req'[r].by = IF req[r].by \in S THEN None ELSE req[r].by,
           UNCHANGED <<head, saved, stopping>>, faults'.kinds = faults.kinds
    PROVE  WatchInv'
<1>1. poll \in [Poll -> Polls]
  BY Zenon DEF WatchInv, WatchTypes
<1>2. ASSUME NEW p \in Poll
      PROVE  /\ poll'[p] \in Polls /\ poll'[p].pc = poll[p].pc
             /\ poll'[p].todo = poll[p].todo /\ poll'[p].to = poll[p].to
             /\ poll'[p].d = IF p \in S THEN None ELSE poll[p].d
  BY <1>1, Zenon DEF Polls
<1>3. poll' \in [Poll -> Polls]
  BY <1>2, Zenon
<1>4. WatchTypes'
  BY <1>3, Zenon DEF WatchInv, WatchTypes
<1>5. Linked'
  <2>1. \A r \in Request : req'[r].by # None => req'[r] = req[r] /\ req'[r].by \notin S
    BY Zenon
  <2>2. \A r \in Request : req'[r].by # None => req'[r].pc # "idle"
    BY <2>1, Zenon DEF WatchInv, Linked
  <2>3. \A q, r \in Request : req'[q].by = req'[r].by /\ req'[r].by # None => q = r
    BY <2>1 DEF WatchInv, Linked
  <2>4. ASSUME NEW p \in Poll, Waiting(p)' PROVE \E r \in Request : req'[r].by = p
    <3>1. p \notin S /\ Waiting(p)
      BY <1>2, <2>4, Zenon DEF Waiting
    <3> QED BY <3>1 DEF WatchInv, Linked
  <2>5. ASSUME NEW p \in Poll, NEW r \in Request, req'[r].by = p PROVE req'[r].d = poll'[p].d
    <3>1. req'[r] = req[r] /\ p \notin S
      BY <2>1, <2>5, DepositAssumption, Zenon
    <3> QED BY <1>2, <2>5, <3>1 DEF WatchInv, Linked
  <2> QED BY <2>2, <2>3, <2>4, <2>5, Zenon DEF Linked
<1>6. ASSUME NoneSkipped PROVE NoneSkipped'
  <2>1. ASSUME NEW p \in Poll, NEW d \in Deposit, d \in poll[p].todo \/ d = poll[p].d
        PROVE  OnRecord(watch', d) \/ d \in poll'[p].todo \/ d = poll'[p].d
    BY <1>2, <2>1, DepositAssumption, Zenon
  <2> QED BY <1>2, <1>6, <2>1, RecordsKept, Zenon
<1> QED BY <1>4, <1>5, <1>6, Zenon DEF WatchInv, Has

LEMMA PollRecords ==
    /\ Asleep \in Polls /\ Asleep.d = None /\ Asleep.pc = "idle"
    /\ \A S \in SUBSET Deposit :
          LET new == [Asleep EXCEPT !.pc = "retry", !.todo = S]
          IN  new \in Polls /\ new.d = None /\ new.pc = "retry"
<1>1. 0 \in 0..MaxHead
  BY DepositAssumption
<1> QED BY <1>1, Zenon DEF Asleep, Polls

\* The end of the range to scan.
LEMMA RangeEnd ==
    ASSUME NEW safe \in Int, NEW from \in Int, from <= safe
    PROVE  LET to == Min({safe, from + Span - 1}) IN to \in from..safe
<1> DEFINE S == {safe, from + Span - 1}
<1>1. Span \in Nat /\ Span > 0
  BY DepositAssumption
<1>2. \E x \in S : \A y \in S : x <= y
  BY <1>1
<1>3. Min(S) \in S
  BY <1>2, Zenon DEF Min
<1>4. Min(S) <= safe
  BY <1>2, Zenon DEF Min
<1> QED BY <1>1, <1>3, <1>4

\* A fault, or none, keeps the kinds there are.
LEMMA KindsKept ==
    ASSUME Shapes, UNCHANGED faults \/ \E kind : Fault(kind)
    PROVE  faults'.kinds = faults.kinds /\ \A k : Has(k)' <=> Has(k)
BY FaultKeepsKinds, Zenon DEF Has

\* The range is scanned. A deposit below its end is below the cursor, and on
\* record, or in the range.
LEMMA ScanKeepsWatch ==
    ASSUME WatchInv, Shapes, NEW p \in Poll, Scan(p)
    PROVE  WatchInv'
<1>1. /\ ~Waiting(p) /\ UNCHANGED <<head, req, stopping>> /\ head \in 0..MaxHead
      /\ watch \in Watchers /\ poll \in [Poll -> Polls] /\ faults'.kinds = faults.kinds
  <2>1. UNCHANGED faults \/ \E kind : Fault(kind)
    BY Zenon DEF Scan, Save, NoFault
  <2> QED BY <2>1, KindsKept, Zenon DEF Scan, LoopOver, daemon, WatchInv, WatchTypes
<1>2. \A k : Has(k)' <=> Has(k)
  BY <1>1, Zenon DEF Has
<1> DEFINE safe == head - Depth
           from == watch.last + 1
           to == Min({safe, from + Span - 1})
           new == [pc |-> "found", todo |-> {d \in Deposit : Block[d] \in from..to}, d |-> None, to |-> to]
<1>3. \/ EndPoll(p) /\ UNCHANGED <<watch, saved>>
      \/ /\ safe > 0 /\ watch.last = None /\ watch' = [watch EXCEPT !.last = safe]
         /\ saved' \in {saved, watch'} /\ EndPoll(p)
      \/ /\ safe > 0 /\ watch.last # None /\ from <= safe
         /\ poll' = [poll EXCEPT ![p] = new] /\ UNCHANGED <<watch, saved>>
  BY Zenon DEF Scan, Save
<1>4. CASE EndPoll(p) /\ UNCHANGED <<watch, saved>>
  BY <1>1, <1>4, PollRecords, PollKeepsWatch, Zenon DEF EndPoll
<1>5. CASE /\ safe > 0 /\ watch.last = None /\ watch' = [watch EXCEPT !.last = safe]
           /\ saved' \in {saved, watch'} /\ EndPoll(p)
  <2>1. safe \in 0..MaxHead
    BY <1>1, <1>5, DepositAssumption
  <2> HIDE DEF safe
  <2>2. watch' \in Watchers /\ saved' \in Watchers
    BY <1>1, <1>5, <2>1, Zenon DEF Watchers, WatchInv, WatchTypes
  <2>3. poll' \in [Poll -> Polls] /\ poll'[p] = Asleep /\ \A o \in Poll \ {p} : poll'[o] = poll[o]
    BY <1>1, <1>5, PollRecords, Zenon DEF EndPoll
  <2>4. WatchTypes'
    BY <1>1, <2>2, <2>3, Zenon DEF WatchTypes
  <2>5. \A o \in Poll : poll'[o].d = poll[o].d
    BY <1>1, <2>3, PollRecords, Zenon DEF Waiting
  <2>6. Linked'
    BY <1>1, <2>5, Zenon DEF WatchInv, Linked, Waiting
  <2>7. ~NoneSkipped
    BY <1>5, Zenon DEF NoneSkipped
  <2> QED BY <1>2, <2>4, <2>6, <2>7, Zenon DEF WatchInv
<1>6. CASE /\ safe > 0 /\ watch.last # None /\ from <= safe
           /\ poll' = [poll EXCEPT ![p] = new] /\ UNCHANGED <<watch, saved>>
  <2>1. watch.last \in 0..MaxHead /\ from = watch.last + 1
    BY <1>1, <1>6, Zenon DEF Watchers
  <2>2. safe \in Int /\ from \in Int /\ safe <= MaxHead /\ MaxHead \in Nat
    BY <1>1, <2>1, DepositAssumption
  <2>3. to \in from..safe
    BY <1>6, <2>2, RangeEnd, Zenon
  <2> HIDE DEF to
  <2>4. to \in 0..MaxHead
    BY <2>1, <2>2, <2>3
  <2>5. /\ new \in Polls /\ new.pc = "found" /\ new.to = to /\ new.d = None
        /\ new.todo = {d \in Deposit : Block[d] \in from..to}
    BY <2>4, Zenon DEF Polls
  <2> HIDE DEF new, from, safe
  <2>6. poll' \in [Poll -> Polls] /\ poll'[p] = new /\ \A o \in Poll \ {p} : poll'[o] = poll[o]
    BY <1>1, <1>6, <2>5, Zenon
  <2>7. WatchTypes'
    BY <1>1, <1>6, <2>6, Zenon DEF WatchInv, WatchTypes
  <2>8. \A o \in Poll : poll'[o].d = poll[o].d
    BY <1>1, <2>5, <2>6, Zenon DEF Waiting
  <2>9. Linked'
    BY <1>1, <2>8 DEF WatchInv, Linked, Waiting
  <2>10. ASSUME NoneSkipped PROVE NoneSkipped'
    <3>1. ASSUME NEW d \in Deposit, Block[d] <= to PROVE OnRecord(watch, d) \/ d \in new.todo
      <4>1. Block[d] \in 1..MaxHead
        BY DepositAssumption, Zenon
      <4>2. CASE Block[d] <= watch.last
        BY <2>10, <4>2, Zenon DEF NoneSkipped
      <4>3. CASE ~(Block[d] <= watch.last)
        BY <2>1, <2>3, <2>4, <2>5, <3>1, <4>1, <4>3
      <4> QED BY <4>2, <4>3, Zenon
    <3>2. ASSUME NEW o \in Poll, NEW d \in Deposit, poll'[o].pc = "found", Block[d] <= poll'[o].to
          PROVE  OnRecord(watch, d) \/ d \in poll'[o].todo \/ d = poll'[o].d
      <4>1. CASE o = p
        BY <2>5, <2>6, <3>1, <3>2, <4>1, Zenon
      <4>2. CASE o # p
        BY <2>6, <2>10, <3>2, <4>2, Zenon DEF NoneSkipped
      <4> QED BY <4>1, <4>2, Zenon
    <3> QED BY <1>1, <1>6, <2>10, <3>2, Zenon DEF NoneSkipped
  <2> QED BY <1>2, <2>7, <2>9, <2>10, Zenon DEF WatchInv
<1> QED BY <1>3, <1>4, <1>5, <1>6, Zenon

\* The cursor moves to the end of the range: nothing of it is left to claim.
LEMMA FinishKeepsWatch ==
    ASSUME WatchInv, Shapes, NEW p \in Poll, Finish(p)
    PROVE  WatchInv'
<1>1. /\ ~Waiting(p) /\ UNCHANGED <<head, req, stopping>> /\ poll[p].pc = "found"
      /\ watch \in Watchers /\ saved \in Watchers /\ poll \in [Poll -> Polls] /\ faults'.kinds = faults.kinds
      /\ stopping \/ poll[p].todo = {}
  <2>1. UNCHANGED faults \/ \E kind : Fault(kind)
    BY Zenon DEF Finish, Save, NoFault
  <2> QED BY <2>1, KindsKept, Zenon DEF Finish, LoopOver, daemon, WatchInv, WatchTypes
<1>2. \A k : Has(k)' <=> Has(k)
  BY <1>1, Zenon DEF Has
<1>3. poll[p].to \in 0..MaxHead
  BY <1>1, Zenon DEF Polls
<1>4. /\ watch' \in Watchers /\ watch'.last = poll[p].to /\ watch'.done = watch.done
      /\ watch'.pending = watch.pending
  BY <1>1, <1>3, Zenon DEF Finish, Watchers
<1>5. saved' = saved \/ saved' = watch'
  BY Zenon DEF Finish, Save
<1>6. poll' \in [Poll -> Polls] /\ poll'[p] = Asleep /\ \A o \in Poll \ {p} : poll'[o] = poll[o]
  BY <1>1, PollRecords, Zenon DEF Finish, EndPoll
<1>7. WatchTypes'
  BY <1>1, <1>4, <1>5, <1>6, Zenon DEF WatchInv, WatchTypes
<1>8. \A o \in Poll : poll'[o].d = poll[o].d
  BY <1>1, <1>6, PollRecords, Zenon DEF Waiting
<1>9. Linked'
  BY <1>1, <1>8, Zenon DEF WatchInv, Linked, Waiting
<1>10. ASSUME NoneSkipped PROVE NoneSkipped'
  <2>1. \A d : OnRecord(watch', d) <=> OnRecord(watch, d)
    BY <1>4, Zenon DEF OnRecord
  <2>2. poll[p].todo = {} /\ poll[p].d = None /\ ~stopping'
    BY <1>1, <1>10, Zenon DEF NoneSkipped, Waiting
  <2>3. ASSUME NEW d \in Deposit, Block[d] <= watch'.last PROVE OnRecord(watch', d)
    BY <1>1, <1>4, <1>10, <2>1, <2>2, <2>3, DepositAssumption, Zenon DEF NoneSkipped
  <2>4. watch'.last # None
    BY <1>3, <1>4, DepositAssumption, Zenon
  <2>5. ASSUME NEW o \in Poll, NEW d \in Deposit, poll'[o].pc = "found", Block[d] <= poll'[o].to
        PROVE  OnRecord(watch', d) \/ d \in poll'[o].todo \/ d = poll'[o].d
    <3>1. o # p
      BY <1>6, <2>5, PollRecords, Zenon
    <3> QED BY <1>6, <1>10, <2>1, <2>5, <3>1, Zenon DEF NoneSkipped
  <2>6. saved'.last # None /\ \A d \in Deposit : Block[d] <= saved'.last => OnRecord(saved', d)
    BY <1>5, <1>10, <2>3, <2>4, Zenon DEF NoneSkipped
  <2> QED BY <2>2, <2>3, <2>4, <2>5, <2>6, Zenon DEF NoneSkipped
<1> QED BY <1>2, <1>7, <1>9, <1>10 DEF WatchInv

\* A handler's steps: the request goes on, or is answered.
LEMMA HandleKeepsWatch ==
    ASSUME WatchInv, Shapes, NEW r \in Request, Handle(r) \/ PersistFails(r)
    PROVE  WatchInv'
<1>1. /\ req[r] \in Requests /\ req[r].pc # "idle" /\ UNCHANGED head
      /\ req \in [Request -> Requests] /\ head \in 0..MaxHead
  BY Zenon DEF Shapes, WatchInv, WatchTypes, Handle, PersistFails, Persisting, At,
         Check, Reserve, Snapshot, Create, Write, Rename, Mint, Undo
<1>2. faults'.kinds = faults.kinds
  <2>1. UNCHANGED faults \/ \E kind : Fault(kind)
    BY Zenon DEF Handle, PersistFails, Check, Reserve, Snapshot, Create, Write, Rename, Mint, Undo, NoFault
  <2> QED BY <2>1, KindsKept, Zenon
<1>3. ASSUME NEW q \in [Request -> Requests], NEW new, req' = [q EXCEPT ![r] = new], UNCHANGED relayer,
             new.pc # "idle", new.d = req[r].d, new.by = req[r].by,
             \A s \in Request : q[s].by = req[s].by /\ q[s].d = req[s].d /\ q[s].pc = req[s].pc
      PROVE  WatchInv'
  <2>1. ASSUME NEW s \in Request
        PROVE  /\ req'[s].by = req[s].by
               /\ req[s].by # None => req'[s].pc # "idle" /\ req'[s].d = req[s].d
    BY <1>3, Zenon DEF WatchInv, Linked
  <2> QED BY <1>1, <1>2, <1>3, <2>1, SteadyKeepsWatch, Zenon
<1>4. ASSUME NEW ok \in BOOLEAN, Answer(req, r, ok) PROVE WatchInv'
  BY <1>1, <1>2, <1>4, AnswerKeepsWatch, Zenon
<1>5. ASSUME NEW pc, Goto(r, pc), pc # "idle", UNCHANGED relayer PROVE WatchInv'
  <2> DEFINE new == [req[r] EXCEPT !.pc = pc]
  <2>1. new.pc = pc /\ new.d = req[r].d /\ new.by = req[r].by
    BY <1>1, Zenon DEF Requests
  <2>2. req' = [req EXCEPT ![r] = new]
    BY <1>5, Zenon DEF Goto
  <2> HIDE DEF new
  <2> QED BY <1>1, <1>3, <1>5, <2>1, <2>2, Zenon
<1>6. CASE Check(r) \/ Reserve(r) \/ Mint(r)
  <2>1. \/ \E ok \in BOOLEAN : Answer(req, r, ok)
        \/ \E pc \in {"reserve", "snapshot", "undo"} : Goto(r, pc) /\ UNCHANGED relayer
    BY <1>6, Zenon DEF Check, Reserve, Mint
  <2> QED BY <1>4, <1>5, <2>1, Zenon
<1>7. CASE Snapshot(r) \/ Create(r) \/ Write(r) \/ Undo(r)
  <2>1. PICK pc, keys, file, undo :
          /\ pc # "idle"
          /\ req' = [req EXCEPT ![r].pc = pc, ![r].keys = keys, ![r].file = file, ![r].undo = undo]
    <3>1. CASE Snapshot(r)
      <4>1. req' = [req EXCEPT ![r].pc = "create", ![r].keys = claimed, ![r].file = req[r].file,
                               ![r].undo = req[r].undo]
        BY <1>1, <3>1, Zenon DEF Snapshot, Requests
      <4> QED BY <4>1, Zenon
    <3>2. CASE Create(r)
      <4>1. req' = [req EXCEPT ![r].pc = "write", ![r].keys = req[r].keys, ![r].file = "tmp",
                               ![r].undo = req[r].undo]
        BY <1>1, <3>2, Zenon DEF Create, Requests
      <4> QED BY <4>1, Zenon
    <3>3. CASE Write(r)
      <4>1. req' = [req EXCEPT ![r].pc = "rename", ![r].keys = {}, ![r].file = None,
                               ![r].undo = req[r].undo]
        BY <1>1, <3>3, Zenon DEF Write, Requests
      <4> QED BY <4>1, Zenon
    <3>4. CASE Undo(r)
      <4>1. req' = [req EXCEPT ![r].pc = "snapshot", ![r].keys = req[r].keys,
                               ![r].file = req[r].file, ![r].undo = TRUE]
        BY <1>1, <3>4, Zenon DEF Undo, Requests
      <4> QED BY <4>1, Zenon
    <3> QED BY <1>7, <3>1, <3>2, <3>3, <3>4, Zenon
  <2> DEFINE new == [req[r] EXCEPT !.pc = pc, !.keys = keys, !.file = file, !.undo = undo]
  <2>2. new.pc = pc /\ new.d = req[r].d /\ new.by = req[r].by
    BY <1>1, Zenon DEF Requests
  <2>3. req' = [req EXCEPT ![r] = new] /\ UNCHANGED relayer
    BY <1>1, <1>7, <2>1, Zenon DEF Snapshot, Create, Write, Undo
  <2> HIDE DEF new
  <2> QED BY <1>1, <1>3, <2>1, <2>2, <2>3, Zenon
<1>8. CASE Rename(r) \/ PersistFails(r)
  <2>1. PICK q \in {req, Renamed} :
          \/ Answer(q, r, FALSE)
          \/ req' = [q EXCEPT ![r].pc = "mint"] /\ UNCHANGED relayer
    BY <1>8, Zenon DEF Rename, PersistFails, Persisted
  <2>2. /\ q \in [Request -> Requests]
        /\ \A s \in Request : q[s].by = req[s].by /\ q[s].d = req[s].d /\ q[s].pc = req[s].pc
    <3>1. ASSUME NEW s \in Request
          PROVE  /\ Renamed[s] \in Requests
                 /\ Renamed[s].by = req[s].by /\ Renamed[s].d = req[s].d /\ Renamed[s].pc = req[s].pc
      <4>1. req[s] \in Requests
        BY <1>1, Zenon
      <4>2. PICK f \in {"disk", None} : Renamed[s] = [req[s] EXCEPT !.file = f]
        BY Zenon DEF Renamed
      <4> QED BY <4>1, <4>2, Zenon DEF Requests
    <3>2. Renamed \in [Request -> Requests]
      <4>1. Renamed = [s \in Request |-> Renamed[s]]
        BY Zenon DEF Renamed
      <4> QED BY <3>1, <4>1, Zenon
    <3> QED BY <1>1, <3>1, <3>2, Zenon
  <2>3. CASE Answer(q, r, FALSE)
    BY <1>1, <1>2, <2>2, <2>3, AnswerKeepsWatch, Zenon
  <2>4. CASE req' = [q EXCEPT ![r].pc = "mint"] /\ UNCHANGED relayer
    <3> DEFINE new == [q[r] EXCEPT !.pc = "mint"]
    <3>1. new.pc = "mint" /\ new.d = req[r].d /\ new.by = req[r].by
      <4>1. q[r] \in Requests
        BY <2>2, Zenon
      <4> QED BY <2>2, <4>1, Zenon DEF Requests
    <3>2. req' = [q EXCEPT ![r] = new]
      BY <2>4, Zenon
    <3> HIDE DEF new
    <3> QED BY <1>3, <2>2, <2>4, <3>1, <3>2, Zenon
  <2> QED BY <2>1, <2>3, <2>4, Zenon
<1> QED BY <1>6, <1>7, <1>8, Zenon DEF Handle

\* The relayer starts again with records w: nothing waits for it.
LEMMA RestartKeepsWatch ==
    ASSUME WatchInv, Shapes, NEW w \in Watchers, Restart(w), saved' \in Watchers,
           faults'.kinds = faults.kinds,
           ~(Has("stop") \/ Has("torn")) => w = saved /\ saved' = saved
    PROVE  WatchInv'
<1>1. /\ watch' = w /\ UNCHANGED head /\ stopping' = FALSE
      /\ poll' \in [Poll -> Polls] /\ \A p \in Poll : poll'[p] = Asleep
  BY PollRecords, Zenon DEF Restart
<1>2. \A r \in Request : req'[r].by = None
  BY Zenon DEF Restart, Shapes, Requests
<1>3. WatchTypes'
  BY <1>1, Zenon DEF WatchInv, WatchTypes
<1>4. Linked'
  BY <1>1, <1>2, PollRecords, DepositAssumption, Zenon DEF Linked, Waiting
<1>5. ASSUME NoneSkipped, w = saved, saved' = saved PROVE NoneSkipped'
  <2>1. \A p \in Poll : poll'[p].pc # "found"
    BY <1>1, PollRecords, Zenon
  <2> QED BY <1>1, <1>5, <2>1, Zenon DEF NoneSkipped
<1> QED BY <1>3, <1>4, <1>5, Zenon DEF WatchInv, Has

\* The daemon dies, or a poll gives up waiting.
LEMMA GivingUpKeepsWatch ==
    ASSUME WatchInv, Shapes, DaemonCrash \/ \E p \in Poll : Timeout(p)
    PROVE  WatchInv'
<1>1. watch \in Watchers /\ poll \in [Poll -> Polls] /\ UNCHANGED <<head, saved, stopping>>
      /\ faults'.kinds = faults.kinds
  <2>1. \E kind : Fault(kind)
    BY Zenon DEF DaemonCrash, Timeout
  <2> QED BY <2>1, KindsKept, Zenon DEF DaemonCrash, Timeout, WatchInv, WatchTypes
<1>2. CASE DaemonCrash
  <2> DEFINE S == Poll
             ds == {poll[p].d : p \in Poll} \ {None}
  <2>1. ds \in SUBSET Deposit
    BY <1>1, Zenon DEF Polls
  <2>2. /\ watch' \in Watchers /\ watch'.last = watch.last /\ watch'.done = watch.done
        /\ watch'.pending = watch.pending \cup ds
    BY <1>1, <1>2, <2>1, Zenon DEF DaemonCrash, Watcher, Watchers
  <2>3. \A p \in S : poll[p].d # None => poll[p].d \in ds
    BY Zenon
  <2>4. poll' = [p \in Poll |-> IF p \in S THEN [poll[p] EXCEPT !.d = None] ELSE poll[p]]
    BY <1>2, Zenon DEF DaemonCrash
  <2>5. \A r \in Request : req'[r].by = None /\ req[r].by \in S \cup {None}
    BY <1>2, Zenon DEF DaemonCrash, Idle, Shapes, Requests
  <2>6. S \in SUBSET Poll /\ None \notin S
    BY DepositAssumption, Zenon
  <2> HIDE DEF S, ds
  <2>7. \A r \in Request : req'[r].by = IF req[r].by \in S THEN None ELSE req[r].by
    BY <2>5, Zenon
  <2>8. /\ \A d \in Deposit : OnRecord(watch, d) => OnRecord(watch', d)
        /\ \A p \in S : poll[p].d # None => OnRecord(watch', poll[p].d)
    BY <2>2, <2>3, Zenon DEF OnRecord
  <2> QED BY <1>1, <2>2, <2>4, <2>5, <2>6, <2>7, <2>8, GiveUpKeepsWatch, Zenon
<1>3. ASSUME NEW p \in Poll, Timeout(p) PROVE WatchInv'
  <2> DEFINE S == {p}
  <2>1. poll[p].d \in Deposit
    BY <1>1, <1>3, Zenon DEF Timeout, Waiting, Polls
  <2>2. /\ watch' \in Watchers /\ watch'.last = watch.last /\ watch'.done = watch.done
        /\ watch'.pending = watch.pending \cup {poll[p].d}
    BY <1>1, <1>3, <2>1, Zenon DEF Timeout, Failed, Watcher, Watchers
  <2>3. poll' = [o \in Poll |-> IF o \in S THEN [poll[o] EXCEPT !.d = None] ELSE poll[o]]
    BY <1>1, <1>3, Zenon DEF Timeout
  <2>4. \A r \in Request : /\ req'[r].by # None => req'[r] = req[r]
                           /\ req'[r].by = IF req[r].by \in S THEN None ELSE req[r].by
    <3> SUFFICES ASSUME NEW r \in Request
                 PROVE  /\ req'[r].by # None => req'[r] = req[r]
                        /\ req'[r].by = IF req[r].by \in S THEN None ELSE req[r].by
      BY Zenon
    <3>1. req[r] \in Requests /\ req'[r] = IF req[r].by = p THEN [req[r] EXCEPT !.by = None] ELSE req[r]
      BY <1>3, Zenon DEF Timeout, Shapes
    <3>2. [req[r] EXCEPT !.by = None].by = None
      BY <3>1, Zenon DEF Requests
    <3> QED BY <3>1, <3>2, Zenon
  <2>5. S \in SUBSET Poll /\ \A o \in S : o = p
    BY Zenon
  <2> HIDE DEF S
  <2> QED BY <1>1, <2>2, <2>3, <2>4, <2>5, GiveUpKeepsWatch, Zenon DEF OnRecord
<1> QED BY <1>2, <1>3, Zenon

\* A poll that is over waits for nothing.
Resting == \A p \in Poll : poll[p].pc = "idle" => ~Waiting(p)

\* Every step keeps that.
LEMMA NextKeepsResting ==
    ASSUME WatchInv, Shapes, Resting, [Next]_vars
    PROVE  Resting'
<1>1. poll \in [Poll -> Polls]
  BY Zenon DEF WatchInv, WatchTypes
<1>2. Asleep.d = None
  BY PollRecords, Zenon
<1>3. CASE UNCHANGED poll
  BY <1>3, Zenon DEF Resting, Waiting
<1>4. CASE \A p \in Poll : poll'[p] = Asleep
  BY <1>2, <1>4, Zenon DEF Resting, Waiting
<1>5. ASSUME NEW p \in Poll, NEW new, poll' = [poll EXCEPT ![p] = new], new.pc = "idle" => new.d = None
      PROVE  Resting'
  BY <1>1, <1>5, Zenon DEF Resting, Waiting
<1>6. ASSUME NEW p \in Poll, poll' = [poll EXCEPT ![p].d = None] PROVE Resting'
  <2> DEFINE new == [poll[p] EXCEPT !.d = None]
  <2>1. poll' = [poll EXCEPT ![p] = new]
    BY <1>6, Zenon
  <2>2. new.d = None
    BY <1>1, Zenon DEF Polls
  <2> HIDE DEF new
  <2> QED BY <1>5, <2>1, <2>2, Zenon
<1>7. ASSUME NEW q, NEW r \in Request, NEW ok, Answer(q, r, ok) PROVE Resting'
  <2>1. req[r].by \in Poll \cup {None}
    BY Zenon DEF Shapes, Requests
  <2>2. UNCHANGED poll \/ (req[r].by # None /\ poll' = [poll EXCEPT ![req[r].by].d = None])
    BY <1>7, Zenon DEF Answer
  <2>3. CASE UNCHANGED poll
    BY <1>3, <2>3, Zenon
  <2>4. CASE req[r].by # None /\ poll' = [poll EXCEPT ![req[r].by].d = None]
    <3>1. req[r].by \in Poll
      BY <2>1, <2>4, Zenon
    <3> QED BY <1>6, <2>4, <3>1, Zenon
  <2> QED BY <2>2, <2>3, <2>4, Zenon
<1>8. ASSUME NEW r \in Request, Handle(r) \/ PersistFails(r) PROVE Resting'
  <2>1. UNCHANGED relayer \/ \E q, ok : Answer(q, r, ok)
    BY <1>8, Zenon DEF Handle, PersistFails, Persisted, Check, Reserve, Snapshot, Create, Write, Rename, Mint, Undo
  <2>2. UNCHANGED relayer => UNCHANGED poll
    BY Zenon DEF relayer
  <2> QED BY <1>3, <1>7, <2>1, <2>2, Zenon
<1>9. CASE DaemonCrash
  <2>1. \A p \in Poll : poll'[p] = [poll[p] EXCEPT !.d = None]
    BY <1>9, Zenon DEF DaemonCrash
  <2>2. \A p \in Poll : poll'[p].d = None
    BY <1>1, <2>1, Zenon DEF Polls
  <2> QED BY <2>2, Zenon DEF Resting, Waiting
<1>10. CASE RelayerCrash \/ Exit
  <2>1. \A p \in Poll : poll'[p] = Asleep
    BY <1>10, Zenon DEF RelayerCrash, Exit, Restart
  <2> QED BY <1>4, <2>1, Zenon
<1>11. ASSUME NEW p \in Poll, StartPoll(p) \/ Scan(p) \/ Finish(p) PROVE Resting'
  <2>1. PICK new : poll' = [poll EXCEPT ![p] = new] /\ new.d = None
    <3>1. CASE StartPoll(p)
      <4>1. watch.pending \in SUBSET Deposit
        BY Zenon DEF WatchInv, WatchTypes, Watchers
      <4> QED BY <3>1, <4>1, PollRecords, Zenon DEF StartPoll
    <3>2. CASE EndPoll(p)
      BY <1>2, <3>2, Zenon DEF EndPoll
    <3>3. CASE \E to, S : poll' = [poll EXCEPT ![p] = [pc |-> "found", todo |-> S, d |-> None, to |-> to]]
      <4>1. PICK to, S : poll' = [poll EXCEPT ![p] = [pc |-> "found", todo |-> S, d |-> None, to |-> to]]
        BY <3>3, Zenon
      <4>2. [pc |-> "found", todo |-> S, d |-> None, to |-> to].d = None
        BY Zenon
      <4> QED BY <4>1, <4>2, Zenon
    <3> QED BY <1>11, <3>1, <3>2, <3>3, Zenon DEF Scan, Finish
  <2> QED BY <1>5, <2>1, Zenon
<1>12. ASSUME NEW p \in Poll, NEW r \in Request, NextClaim(p, r) PROVE Resting'
  <2>1. PICK d : \/ poll' = [poll EXCEPT ![p].todo = @ \ {d}]
                 \/ poll' = [poll EXCEPT ![p].todo = @ \ {d}, ![p].d = d]
    BY <1>12, Zenon DEF NextClaim
  <2>2. poll[p].pc # "idle"
    BY <1>12, Zenon DEF NextClaim
  <2>3. poll'[p].pc = poll[p].pc /\ \A o \in Poll \ {p} : poll'[o] = poll[o]
    BY <1>1, <2>1, Zenon DEF Polls
  <2> QED BY <2>2, <2>3, Zenon DEF Resting, Waiting
<1>13. ASSUME NEW p \in Poll, Watch(p) \/ Timeout(p) PROVE Resting'
  BY <1>6, <1>11, <1>12, <1>13, Zenon DEF Watch, Timeout
<1>14. CASE \/ UNCHANGED vars \/ Grow \/ Produce \/ Evict \/ Shutdown \/ \E r \in Request : Drop(r)
            \/ \E r \in Request, d \in Browser : BrowserClaim(r, d)
  <2>1. UNCHANGED poll
    BY <1>14, Zenon DEF vars, relayer, Grow, Produce, Evict, Shutdown, Drop, BrowserClaim
  <2> QED BY <1>3, <2>1, Zenon
<1> QED BY <1>8, <1>9, <1>10, <1>13, <1>14, Zenon DEF Next

\* Every step keeps what is known of the watcher.
LEMMA NextKeepsWatch ==
    ASSUME WatchInv, Shapes, Resting, [Next]_vars
    PROVE  WatchInv'
<1>1. head \in 0..MaxHead /\ watch \in Watchers /\ saved \in Watchers /\ poll \in [Poll -> Polls]
  BY Zenon DEF WatchInv, WatchTypes
<1>2. CASE UNCHANGED vars \/ Grow \/ Produce \/ Evict
  <2>1. UNCHANGED <<req, relayer>>
    BY <1>2, Zenon DEF vars, daemon, Grow, Produce, Evict
  <2>2. faults'.kinds = faults.kinds
    <3>1. UNCHANGED faults \/ \E kind : Fault(kind)
      BY <1>2, Zenon DEF vars, Grow, Produce, Evict
    <3> QED BY <3>1, KindsKept, Zenon
  <2>3. head' \in 0..MaxHead
    <3>1. CASE Grow
      BY <1>1, <3>1, DepositAssumption DEF Grow
    <3>2. CASE UNCHANGED head
      BY <1>1, <3>2, Zenon
    <3> QED BY <1>2, <3>1, <3>2, Zenon DEF vars, Produce, Evict
  <2>4. \A r \in Request : /\ req'[r].by = req[r].by
                           /\ req[r].by # None => req'[r].pc # "idle" /\ req'[r].d = req[r].d
    BY <2>1, Zenon DEF WatchInv, Linked
  <2> QED BY <2>1, <2>2, <2>3, <2>4, SteadyKeepsWatch, Zenon
<1>3. CASE Shutdown
  <2>1. /\ UNCHANGED <<head, req, watch, poll>> /\ saved' = watch
        /\ faults'.kinds = faults.kinds /\ Has("stop")
    <3>1. Fault("stop")
      BY <1>3, Zenon DEF Shutdown
    <3> QED BY <1>3, <3>1, FaultKeepsKinds, Zenon DEF Shutdown, daemon
  <2>2. WatchTypes'
    BY <1>1, <2>1, Zenon DEF WatchTypes
  <2>3. Linked'
    BY <2>1, Zenon DEF WatchInv, Linked, Waiting
  <2>4. Has("stop")'
    BY <2>1, Zenon DEF Has
  <2> QED BY <2>2, <2>3, <2>4, Zenon DEF WatchInv
<1>4. CASE RelayerCrash \/ Exit
  <2>1. PICK w \in Watchers :
          /\ Restart(w) /\ saved' \in Watchers
          /\ ~(Has("stop") \/ Has("torn")) => w = saved /\ saved' = saved
    <3>1. Watcher(None, {}, {}) \in Watchers
      BY Zenon DEF Watcher, Watchers
    <3>2. CASE Restart(saved) /\ UNCHANGED saved
      BY <1>1, <3>2, Zenon
    <3>3. CASE Fault("torn") /\ Restart(Watcher(None, {}, {})) /\ saved' = Watcher(None, {}, {})
      BY <3>1, <3>3, Zenon DEF Fault
    <3> QED BY <1>4, <3>2, <3>3, Zenon DEF RelayerCrash, Exit
  <2>2. faults'.kinds = faults.kinds
    <3>1. UNCHANGED faults \/ \E kind : Fault(kind)
      BY <1>4, Zenon DEF RelayerCrash, Exit
    <3> QED BY <3>1, KindsKept, Zenon
  <2> QED BY <2>1, <2>2, RestartKeepsWatch, Zenon
<1>5. ASSUME NEW r \in Request, Drop(r) PROVE WatchInv'
  <2>1. /\ UNCHANGED <<head, relayer>> /\ req[r].by = None /\ req[r] \in Requests
        /\ req \in [Request -> Requests] /\ faults'.kinds = faults.kinds
    BY <1>5, FaultKeepsKinds, Zenon DEF Drop, Shapes
  <2>2. \A s \in Request : /\ req'[s].by = req[s].by
                           /\ req[s].by # None => req'[s] = req[s]
    BY <1>5, <2>1, Zenon DEF Drop, Requests, Idle
  <2>3. \A s \in Request : /\ req'[s].by = req[s].by
                           /\ req[s].by # None => req'[s].pc # "idle" /\ req'[s].d = req[s].d
    BY <2>2, Zenon DEF WatchInv, Linked
  <2> QED BY <1>1, <2>1, <2>3, SteadyKeepsWatch, Zenon
<1>6. ASSUME NEW r \in Request, NEW d \in Browser, BrowserClaim(r, d) PROVE WatchInv'
  <2>1. /\ UNCHANGED <<head, relayer, faults>> /\ req[r].pc = "idle" /\ req \in [Request -> Requests]
        /\ req' = [req EXCEPT ![r] = [Idle EXCEPT !.pc = "check", !.d = d, !.by = None]]
    BY <1>6, Zenon DEF BrowserClaim, Arrive, Shapes
  <2>2. req[r].by = None
    BY <2>1, Zenon DEF WatchInv, Linked
  <2>3. \A s \in Request : /\ req'[s].by = req[s].by
                           /\ req[s].by # None => req'[s] = req[s]
    BY <2>1, <2>2, Zenon DEF Idle
  <2>4. \A s \in Request : /\ req'[s].by = req[s].by
                           /\ req[s].by # None => req'[s].pc # "idle" /\ req'[s].d = req[s].d
    BY <2>3, Zenon DEF WatchInv, Linked
  <2> QED BY <1>1, <2>1, <2>4, SteadyKeepsWatch, Zenon
<1>7. ASSUME NEW p \in Poll, StartPoll(p) PROVE WatchInv'
  <2> DEFINE new == [Asleep EXCEPT !.pc = "retry", !.todo = watch.pending]
  <2>1. watch.pending \in SUBSET Deposit
    BY <1>1, Zenon DEF Watchers
  <2>2. new \in Polls /\ new.d = None /\ new.pc = "retry"
    BY <2>1, PollRecords, Zenon
  <2>3. poll' = [poll EXCEPT ![p] = new] /\ UNCHANGED <<head, req, watch, saved, stopping, faults>>
    BY <1>7, Zenon DEF StartPoll, daemon
  <2> HIDE DEF new
  <2>4. ~Waiting(p)
    BY <1>7, Zenon DEF Resting, StartPoll
  <2>5. "retry" # "found"
    BY Zenon
  <2> QED BY <2>2, <2>3, <2>4, <2>5, PollKeepsWatch, Zenon
<1>8. ASSUME NEW p \in Poll, Watch(p) PROVE WatchInv'
  BY <1>7, <1>8, NextClaimKeepsWatch, ScanKeepsWatch, FinishKeepsWatch, Zenon DEF Watch
<1> QED BY <1>2, <1>3, <1>4, <1>5, <1>6, <1>8, HandleKeepsWatch, GivingUpKeepsWatch, Zenon DEF Next

-----------------------------------------------------------------------------
\* Steps that leave the files and the nonce alone, open no file, and make no mint.
LEMMA QuietKeepsStore ==
    ASSUME StoreTypes, UNCHANGED <<disk, tmp, nonce, chain>>, mempool' \subseteq mempool,
           \A r \in Request : req'[r].file \in {req[r].file, None}
    PROVE  StoreTypes'
<1>1. Nonces'
  BY Zenon DEF StoreTypes, Nonces
<1>2. FileOK(disk') /\ (tmp' # None => FileOK(tmp'))
  BY Zenon DEF StoreTypes
<1>3. \A r \in Request : req'[r].file = "tmp" => FileOK(tmp')
  BY DepositAssumption, Zenon DEF StoreTypes
<1> QED BY <1>1, <1>2, <1>3, Zenon DEF StoreTypes, FileOK

\* A file that is written is as long as its keys, or as it was.
LEMMA WrittenOK ==
    ASSUME NEW f, FileOK(f), NEW keys \in SUBSET Deposit
    PROVE  FileOK(Written(f, keys))
<1>1. Cardinality(keys) \in 0..Cardinality(Deposit)
  <2>1. IsFiniteSet(Deposit)
    BY DepositAssumption, Zenon
  <2>2. IsFiniteSet(keys) /\ Cardinality(keys) <= Cardinality(Deposit)
    BY <2>1, FS_Subset, Zenon
  <2> QED BY <2>1, <2>2, FS_CardinalityType
<1>2. \/ Written(f, keys) = [keys |-> keys, len |-> Cardinality(keys)]
      \/ Written(f, keys) = [keys |-> Garbled, len |-> f.len]
  BY Zenon DEF Written, File
<1>3. f.len \in 0..Cardinality(Deposit)
  BY Zenon DEF FileOK
<1>4. Written(f, keys).keys \in {keys, Garbled} /\ Written(f, keys).len \in {Cardinality(keys), f.len}
  BY <1>2
<1> QED BY <1>1, <1>3, <1>4, Zenon DEF FileOK

\* The steps of a handler.
LEMMA HandleKeepsStore ==
    ASSUME Shapes, StoreTypes, NEW r \in Request, Handle(r) \/ PersistFails(r)
    PROVE  StoreTypes'
<1>1. /\ req \in [Request -> Requests] /\ req[r] \in Requests /\ req[r].keys \in SUBSET Deposit
      /\ nonce \in Nat
  BY Zenon DEF Shapes, Requests, StoreTypes, Nonces
<1>2. ASSUME NEW q \in [Request -> Requests], NEW ok, Answer(q, r, ok)
      PROVE  \A s \in Request : req'[s].file \in {q[s].file, None}
  BY <1>2, Zenon DEF Answer, Idle
<1>3. ASSUME NEW q \in [Request -> Requests], NEW pc, req' = [q EXCEPT ![r].pc = pc]
      PROVE  \A s \in Request : req'[s].file = q[s].file
  <2>1. q[r] \in Requests
    BY Zenon
  <2> QED BY <1>3, <2>1, Zenon DEF Requests
<1>4. CASE \/ Check(r) \/ Reserve(r) \/ Snapshot(r) \/ Undo(r) \/ PersistFails(r)
  <2>1. UNCHANGED <<disk, tmp, nonce, mempool, chain>>
    BY <1>4, Zenon DEF Check, Reserve, Snapshot, Undo, PersistFails, store
  <2>2. \A s \in Request : req'[s].file \in {req[s].file, None}
    <3>1. CASE Check(r) \/ Reserve(r) \/ PersistFails(r)
      <4>1. (\E ok : Answer(req, r, ok)) \/ \E pc : req' = [req EXCEPT ![r].pc = pc]
        BY <3>1, Zenon DEF Check, Reserve, PersistFails, Persisted, Goto
      <4> QED BY <1>1, <1>2, <1>3, <4>1, Zenon
    <3>2. CASE Snapshot(r) \/ Undo(r)
      BY <1>1, <3>2 DEF Snapshot, Undo, Requests
    <3> QED BY <1>4, <3>1, <3>2, Zenon
  <2> QED BY <2>1, <2>2, QuietKeepsStore, Zenon
<1>5. CASE Mint(r)
  <2>1. UNCHANGED <<disk, tmp, nonce, chain>>
    BY <1>5, Zenon DEF Mint, store
  <2>2. \A s \in Request : req'[s].file \in {req[s].file, None}
    <3>1. (\E ok : Answer(req, r, ok)) \/ \E pc : req' = [req EXCEPT ![r].pc = pc]
      BY <1>5, Zenon DEF Mint, Goto
    <3> QED BY <1>1, <1>2, <1>3, <3>1, Zenon
  <2>3. Nonces'
    <3>1. ASSUME NEW tx \in mempool' PROVE tx.nonce = nonce + 1
      <4>1. tx \in mempool \/ \E d, sig : tx = [d |-> d, nonce |-> nonce + 1, sig |-> sig]
        BY <1>5, <3>1, Zenon DEF Mint
      <4> QED BY <4>1 DEF StoreTypes, Nonces
    <3> QED BY <2>1, <3>1, Zenon DEF StoreTypes, Nonces
  <2>4. FileOK(disk') /\ (tmp' # None => FileOK(tmp'))
    BY <2>1, Zenon DEF StoreTypes
  <2>5. \A s \in Request : req'[s].file = "tmp" => FileOK(tmp')
    BY <2>1, <2>2, DepositAssumption, Zenon DEF StoreTypes
  <2> QED BY <2>3, <2>4, <2>5, Zenon DEF StoreTypes, FileOK
<1>6. CASE Create(r)
  <2>1. UNCHANGED <<disk, nonce, mempool, chain>> /\ tmp' = File(Garbled, 0)
    BY <1>6, Zenon DEF Create
  <2>2. FileOK(tmp')
    <3>1. Cardinality(Deposit) \in Nat
      BY FS_CardinalityType, DepositAssumption, Zenon
    <3>2. tmp'.keys = Garbled /\ tmp'.len \in 0..Cardinality(Deposit)
      BY <2>1, <3>1 DEF File
    <3> QED BY <3>2, Zenon DEF FileOK
  <2>3. FileOK(disk') /\ Nonces'
    BY <2>1, Zenon DEF StoreTypes, Nonces
  <2> QED BY <2>2, <2>3, Zenon DEF StoreTypes, FileOK
<1>7. CASE Write(r)
  <2>1. /\ UNCHANGED <<nonce, mempool, chain>>
        /\ tmp' = IF req[r].file = "tmp" THEN Written(tmp, req[r].keys) ELSE tmp
        /\ disk' = IF req[r].file = "disk" THEN Written(disk, req[r].keys) ELSE disk
    BY <1>7, Zenon DEF Write
  <2>2. \A s \in Request : req'[s].file \in {req[s].file, None}
    BY <1>1, <1>7, Zenon DEF Write, Requests
  <2>3. FileOK(disk')
    BY <1>1, <2>1, WrittenOK, Zenon DEF StoreTypes
  <2>4. (tmp' # None => FileOK(tmp')) /\ (req[r].file = "tmp" => FileOK(tmp'))
    BY <1>1, <2>1, WrittenOK, Zenon DEF StoreTypes
  <2>5. ASSUME NEW s \in Request, req'[s].file = "tmp" PROVE FileOK(tmp')
    <3>1. req[s].file = "tmp"
      BY <2>2, <2>5, DepositAssumption, Zenon
    <3>2. FileOK(tmp)
      BY <3>1, Zenon DEF StoreTypes
    <3> QED BY <2>1, <2>4, <3>2, Zenon
  <2>6. Nonces'
    BY <2>1, Zenon DEF StoreTypes, Nonces
  <2> QED BY <2>3, <2>4, <2>5, <2>6, Zenon DEF StoreTypes, FileOK
<1>8. CASE Rename(r)
  <2>1. UNCHANGED <<nonce, mempool, chain>>
    BY <1>8, Zenon DEF Rename
  <2>2. CASE Persisted(req, r, FALSE) /\ UNCHANGED <<disk, tmp>>
    <3>1. \A s \in Request : req'[s].file \in {req[s].file, None}
      BY <1>1, <1>2, <2>2, Zenon DEF Persisted
    <3> QED BY <2>1, <2>2, <3>1, QuietKeepsStore, Zenon
  <2>3. CASE tmp # None /\ disk' = tmp /\ tmp' = None /\ Persisted(Renamed, r, TRUE)
    <3>1. ASSUME NEW s \in Request PROVE Renamed[s] \in Requests /\ Renamed[s].file # "tmp"
      <4>1. req[s] \in Requests
        BY <1>1, Zenon
      <4>2. PICK f \in {"disk", None} : Renamed[s] = [req[s] EXCEPT !.file = f]
        BY Zenon DEF Renamed
      <4> QED BY <4>1, <4>2, DepositAssumption, Zenon DEF Requests
    <3>2. Renamed \in [Request -> Requests]
      <4>1. Renamed = [s \in Request |-> Renamed[s]]
        BY Zenon DEF Renamed
      <4> QED BY <3>1, <4>1, Zenon
    <3>3. \A s \in Request : req'[s].file \in {Renamed[s].file, None}
      BY <1>2, <1>3, <2>3, <3>2, Zenon DEF Persisted
    <3>4. \A s \in Request : req'[s].file # "tmp"
      BY <3>1, <3>3, DepositAssumption, Zenon
    <3>5. FileOK(disk') /\ Nonces'
      BY <2>1, <2>3, Zenon DEF StoreTypes, Nonces
    <3> QED BY <2>3, <3>4, <3>5, Zenon DEF StoreTypes, FileOK
  <2> QED BY <1>8, <2>2, <2>3, Zenon DEF Rename
<1> QED BY <1>4, <1>5, <1>6, <1>7, <1>8, Zenon DEF Handle

\* A block commits the nonce of the transaction it applies last: all in the
\* mempool have the next one, so it is the next, and none is left in the mempool.
LEMMA ProduceKeepsStore ==
    ASSUME StoreTypes, Produce
    PROVE  StoreTypes'
<1>1. PICK new \in SUBSET mempool :
         /\ chain' = chain \cup new
         /\ nonce' \in IF new = {} THEN {nonce} ELSE {tx.nonce : tx \in new}
  BY Zenon DEF Produce
<1>2. mempool' = {} /\ UNCHANGED <<store, req>>
  BY Zenon DEF Produce
<1>3. /\ nonce \in Nat
      /\ \A tx \in new : tx.nonce = nonce + 1
      /\ \A tx \in chain : tx.nonce \in 1..nonce
  BY Zenon DEF StoreTypes, Nonces
<1>4. nonce' \in Nat /\ nonce' = IF new = {} THEN nonce ELSE nonce + 1
  BY <1>1, <1>3
<1>5. ASSUME NEW tx \in chain' PROVE tx.nonce \in 1..nonce'
  BY <1>1, <1>3, <1>4, <1>5
<1>6. Nonces'
  BY <1>2, <1>4, <1>5, Zenon DEF Nonces
<1> QED BY <1>2, <1>6, Zenon DEF StoreTypes, FileOK, store

LEMMA NextKeepsStore ==
    ASSUME Shapes, StoreTypes, [Next]_vars
    PROVE  StoreTypes'
<1>1. req \in [Request -> Requests]
  BY Zenon DEF Shapes
<1>2. CASE UNCHANGED vars \/ Grow \/ Evict \/ Shutdown \/ \E p \in Poll : StartPoll(p) \/ Scan(p) \/ Finish(p)
  <2>1. UNCHANGED <<store, nonce, chain, req>> /\ mempool' \subseteq mempool
    BY <1>2, Zenon DEF vars, daemon, Grow, Evict, Shutdown, StartPoll, Scan, Finish
  <2> QED BY <2>1, QuietKeepsStore, Zenon DEF store
<1>3. CASE \/ RelayerCrash \/ Exit \/ DaemonCrash \/ \E p \in Poll : Timeout(p)
           \/ \E r \in Request : Drop(r)
           \/ \E r \in Request, d \in Browser : BrowserClaim(r, d)
           \/ \E p \in Poll, r \in Request : NextClaim(p, r)
  <2>1. UNCHANGED <<disk, tmp, nonce, chain>> /\ mempool' \subseteq mempool
    BY <1>3, Zenon DEF RelayerCrash, Exit, Restart, DaemonCrash, Timeout, Drop, BrowserClaim, NextClaim, store
  <2>2. ASSUME NEW r \in Request PROVE req'[r].file \in {req[r].file, None}
    <3>1. req[r] \in Requests
      BY <1>1, Zenon
    <3>2. CASE RelayerCrash \/ Exit \/ DaemonCrash \/ \E p \in Poll : Timeout(p)
      <4>1. req'[r] \in {req[r], Idle, [req[r] EXCEPT !.by = None]}
        BY <3>2, Zenon DEF RelayerCrash, Exit, Restart, DaemonCrash, Timeout
      <4> QED BY <3>1, <4>1 DEF Requests, Idle
    <3>3. CASE \E q \in Request : Drop(q)
      <4>1. req'[r] \in {req[r], Idle, [req[r] EXCEPT !.undo = TRUE]}
        BY <1>1, <3>3, Zenon DEF Drop
      <4> QED BY <3>1, <4>1 DEF Requests, Idle
    <3>4. CASE \E q \in Request : \E d, by : Arrive(q, d, by)
      <4>1. req'[r].file \in {req[r].file, Idle.file}
        BY <1>1, <3>4, Zenon DEF Arrive, Idle
      <4> QED BY <4>1, Zenon DEF Idle
    <3>5. CASE UNCHANGED req
      BY <3>5, Zenon
    <3> QED BY <1>3, <3>2, <3>3, <3>4, <3>5, Zenon DEF BrowserClaim, NextClaim
  <2> QED BY <2>1, <2>2, QuietKeepsStore, Zenon
<1> QED BY <1>2, <1>3, ProduceKeepsStore, HandleKeepsStore, Zenon DEF Next, Watch

-----------------------------------------------------------------------------
LEMMA InitKeepsWatch == Init => WatchInv /\ Resting /\ StoreTypes
<1> SUFFICES ASSUME Init PROVE WatchInv /\ Resting /\ StoreTypes
  BY Zenon
<1>1. 0 \in 0..MaxHead /\ Cardinality(Deposit) \in Nat
  BY DepositAssumption, FS_CardinalityType
<1>2. \A r \in Request : req[r].by = None /\ req[r].file = None
  BY Zenon DEF Init, Idle
<1>3. poll \in [Poll -> Polls] /\ \A p \in Poll : poll[p] = Asleep
  BY PollRecords, Zenon DEF Init
<1>4. \A p \in Poll : poll[p].d = None /\ poll[p].pc = "idle"
  BY <1>3, PollRecords, Zenon
<1>5. watch \in Watchers /\ saved \in Watchers /\ watch.last = 0 /\ saved.last = 0
  BY <1>1, Zenon DEF Init, Watcher, Watchers
<1>6. WatchTypes
  BY <1>1, <1>3, <1>5, Zenon DEF Init, WatchTypes
<1>7. Linked
  BY <1>2, <1>4, DepositAssumption, Zenon DEF Linked, Waiting
<1>8. NoneSkipped
  <2>1. \A d \in Deposit : ~(Block[d] <= 0)
    BY DepositAssumption
  <2>2. 0 # None
    BY <1>1, DepositAssumption, Zenon
  <2>3. \A p \in Poll : poll[p].pc # "found"
    BY <1>4, Zenon
  <2> QED BY <1>5, <2>1, <2>2, <2>3, Zenon DEF NoneSkipped, Init
<1>9. Resting
  BY <1>4, Zenon DEF Resting, Waiting
<1>10. StoreTypes
  <2>1. disk.keys = {} /\ disk.len = 0
    BY Zenon DEF Init, File
  <2>2. disk.keys \in SUBSET Deposit /\ disk.len \in 0..Cardinality(Deposit)
    BY <1>1, <2>1
  <2>3. Nonces /\ tmp = None
    BY Zenon DEF Init, Nonces
  <2>4. \A r \in Request : req[r].file # "tmp"
    BY <1>2, DepositAssumption, Zenon
  <2> QED BY <2>2, <2>3, <2>4, Zenon DEF StoreTypes, FileOK
<1> QED BY <1>6, <1>7, <1>8, <1>9, <1>10, Zenon DEF WatchInv

WatcherInv == Shapes /\ Contents /\ WatchInv /\ Resting /\ StoreTypes

LEMMA WatcherInvHolds == Spec => []WatcherInv
<1> DEFINE Inv == WatchInv /\ Resting /\ StoreTypes
<1>1. Init => Inv
  BY InitKeepsWatch, Zenon
<1>2. Inv /\ Shapes /\ [Next]_vars => Inv'
  BY NextKeepsWatch, NextKeepsResting, NextKeepsStore, Zenon
<1>3. DepositInv => Shapes
  BY Zenon DEF DepositInv
<1>4. Inv /\ Shapes /\ Contents => WatcherInv
  BY Zenon DEF WatcherInv
<1> HIDE DEF Inv
<1> QED BY <1>1, <1>2, <1>3, <1>4, DepositInvHolds, PTL DEF Spec

\* The variables keep their types, and a poll waits exactly while its request
\* runs: its one request, for its deposit (claimOne awaits the answer).
THEOREM DepositTypes == Spec => []TypeOK
<1>1. WatcherInv => TypeOK
  <2> SUFFICES ASSUME WatcherInv PROVE TypeOK
    BY Zenon
  <2>1. head \in 0..MaxHead /\ watch \in Watchers /\ saved \in Watchers /\ claimed \subseteq Deposit
    BY Zenon DEF WatcherInv, WatchInv, WatchTypes, Contents
  <2>2. \A f \in {disk, tmp} \ {None} : FileOK(f)
    BY Zenon DEF WatcherInv, StoreTypes
  <2>3. req \in [Request -> Requests] /\ \A tx \in mempool \cup chain : tx.d \in Deposit
    BY Zenon DEF WatcherInv, Shapes, Txs
  <2>6. \A tx \in mempool \cup chain : tx.nonce \in 1..nonce + 1
    BY DEF WatcherInv, StoreTypes, Nonces
  <2>4. ASSUME NEW p \in Poll
        PROVE  /\ poll[p].todo \subseteq Deposit
               /\ Waiting(p) => \E r \in Request : req[r].by = p
               /\ \A r \in Request : req[r].by = p => req[r].d = poll[p].d
    <3>1. poll[p] \in Polls
      BY Zenon DEF WatcherInv, WatchInv, WatchTypes
    <3>2. poll[p].todo \subseteq Deposit
      BY <3>1, Zenon DEF Polls
    <3> QED BY <3>2, Zenon DEF WatcherInv, WatchInv, Linked
  <2>5. faults.kinds \subseteq Kinds
    <3>1. faults.kinds \in FaultSets
      BY Zenon DEF WatcherInv, Shapes
    <3> QED BY <3>1, DepositAssumption, Zenon
  <2> QED BY <2>1, <2>2, <2>3, <2>4, <2>5, <2>6, Zenon DEF TypeOK, FileOK
<1> QED BY <1>1, WatcherInvHolds, PTL

\* The watcher's cursor, in memory and in its file, passes no deposit that is not
\* on record, whatever fails, except after a shutdown that leaves the loop or a
\* state file that was lost (processDeposits, saveDepositState).
THEOREM NoDepositIsSkipped == Spec => []NoDepositSkipped
<1>1. WatcherInv => NoDepositSkipped
  BY Zenon DEF WatcherInv, WatchInv, NoneSkipped, NoDepositSkipped, OnRecord
<1> QED BY <1>1, WatcherInvHolds, PTL

=============================================================================
