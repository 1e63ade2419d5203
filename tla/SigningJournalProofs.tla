------------------------ MODULE SigningJournalProofs ------------------------
(***************************************************************************)
(* Proofs about the signing journal, for any number of slots and block     *)
(* hashes: any number of processes with kills and I/O errors at any step,  *)
(* and power losses where one process signs at a time and is not cut       *)
(* short.  The run JournalPowerAfterAbort shows what the two together can  *)
(* do.                                                                     *)
(***************************************************************************)
EXTENDS SigningJournal, TLAPS

(* The faults the journal is made for: power is lost only where processes
   take turns and their calls are not cut short. *)
Benign == \A F \in FaultSets : "power" \in F => F = {"power"}

(* The inductive invariant holds before the first call of sign_vote. *)
LEMMA InitIInv == Init => IInv
  BY NoHashAssumption
  DEF Init, IInv, TypeOK, SignedIsLocked, LockedBeforeSign, DurableBeforeSigned, Durable, Intent

(* No step of a process in sign_vote breaks what the slot files say: a slot
   is only ever written when it is free, and a process moves past the link
   only with the hash the slot names. *)
LEMMA ProcNextLocked ==
    ASSUME TypeOK, SignedIsLocked, LockedBeforeSign, NEW p \in Proc, ProcNext(p)
    PROVE  TypeOK' /\ SignedIsLocked' /\ LockedBeforeSign'
<1> USE NoHashAssumption
<1> USE DEF TypeOK, SignedIsLocked, LockedBeforeSign, Intent, Goto
<1>1. CASE \E s \in Slot, h \in Hash : SignVote(p, s, h)
  BY <1>1 DEF SignVote
<1>2. CASE CommitExisting(p)
  BY <1>2 DEF CommitExisting, CheckExisting
<1>3. CASE WriteTmp(p)
  BY <1>3 DEF WriteTmp
<1>4. CASE Link(p)
  BY <1>4 DEF Link
<1>5. CASE LinkExists(p)
  BY <1>5 DEF LinkExists, CheckExisting
<1>6. CASE SyncDir(p)
  BY <1>6 DEF SyncDir
<1>7. CASE Sign(p)
  BY <1>7 DEF Sign
<1>8. CASE Abort(p)
  BY <1>8 DEF Abort
<1> QED
  BY <1>1, <1>2, <1>3, <1>4, <1>5, <1>6, <1>7, <1>8 DEF ProcNext

(* Where power may be lost, no step of a process breaks what the disk holds:
   check_existing only finds slots that are on disk already. *)
LEMMA ProcNextDurable ==
    ASSUME Benign, IInv, "power" \in faults, NEW p \in Proc, ProcNext(p)
    PROVE  Durable' /\ DurableBeforeSigned'
<1> USE NoHashAssumption
<1> USE DEF IInv, TypeOK, LockedBeforeSign, Durable, DurableBeforeSigned, Intent, Goto
<1>0. faults = {"power"}
  BY DEF Benign
<1>1. CASE \E s \in Slot, h \in Hash : SignVote(p, s, h)
  BY <1>0, <1>1 DEF SignVote
<1>9. ASSUME CheckExisting(p), pc[p] \in {"commit", "link"} PROVE Durable' /\ DurableBeforeSigned'
  <2>1. \A q \in Proc : q # p => pc[q] = "idle"
    BY <1>9
  <2>2. \A q \in Proc : pc[q] # "sync"
    BY <1>9, <2>1
  <2>3. intent[p].slot \in Slot /\ \A s \in Slot : dir[s] = disk[s]
    BY <2>2
  <2>4. /\ \A q \in Proc : pc'[q] = IF q = p
              THEN IF dir[intent[p].slot] = intent[p].hash THEN "sign" ELSE "idle" ELSE pc[q]
        /\ UNCHANGED <<dir, disk, intent, signed, faults>>
    BY <1>9 DEF CheckExisting
  <2>5. Durable'
    BY <2>1, <2>3, <2>4
  <2>6. DurableBeforeSigned'
    BY <2>4
  <2> QED
    BY <2>5, <2>6
<1>2. CASE CommitExisting(p)
  BY <1>2, <1>9 DEF CommitExisting
<1>3. CASE WriteTmp(p)
  BY <1>3 DEF WriteTmp
<1>4. CASE Link(p)
  BY <1>4 DEF Link
<1>5. CASE LinkExists(p)
  BY <1>5, <1>9 DEF LinkExists
<1>6. CASE SyncDir(p)
  BY <1>6 DEF SyncDir
<1>7. CASE Sign(p)
  BY <1>7 DEF Sign
<1>8. CASE Abort(p)
  BY <1>0, <1>8 DEF Abort
<1> QED
  BY <1>1, <1>2, <1>3, <1>4, <1>5, <1>6, <1>7, <1>8 DEF ProcNext

(* Power loss included, every step keeps the inductive invariant. *)
LEMMA NextIInv ==
    ASSUME Benign, IInv, [Next]_vars
    PROVE  IInv'
<1> USE NoHashAssumption
<1>1. ASSUME NEW p \in Proc, ProcNext(p) PROVE IInv'
  <2>1. faults' = faults
    BY <1>1 DEF ProcNext, SignVote, CommitExisting, CheckExisting, WriteTmp, Link, LinkExists,
       SyncDir, Sign, Abort, Goto
  <2>2. TypeOK' /\ SignedIsLocked' /\ LockedBeforeSign'
    BY <1>1, ProcNextLocked DEF IInv
  <2>3. CASE "power" \in faults
    BY <1>1, <2>1, <2>2, <2>3, ProcNextDurable DEF IInv
  <2>4. CASE "power" \notin faults
    BY <2>1, <2>2, <2>4 DEF IInv, DurableBeforeSigned
  <2> QED
    BY <2>3, <2>4
<1>2. CASE \E s \in Slot : Writeback(s)
  BY <1>2 DEF Writeback, IInv, TypeOK, SignedIsLocked, LockedBeforeSign, DurableBeforeSigned, Durable, Intent
<1>3. CASE PowerLoss
  BY <1>3 DEF PowerLoss, IInv, TypeOK, SignedIsLocked, LockedBeforeSign, DurableBeforeSigned, Durable, Intent
<1>4. CASE UNCHANGED vars
  BY <1>4 DEF vars, IInv, TypeOK, SignedIsLocked, LockedBeforeSign, DurableBeforeSigned, Durable
<1> QED
  BY <1>1, <1>2, <1>3, <1>4 DEF Next

(* The inductive invariant, types included, holds in every reachable state:
   a signature is only ever made for the hash in the slot file, and the slot
   of every signature survives the power losses that may happen. *)
THEOREM JournalInvariant ==
    ASSUME Benign
    PROVE  Spec => []IInv
<1>1. IInv /\ [Next]_vars => IInv'
  BY NextIInv
<1> QED
  BY InitIInv, <1>1, PTL DEF Spec

(* sign_vote never signs two hashes for one slot: whatever the number of
   processes sharing the directory and whenever they are killed, and whenever
   power is lost between complete calls. *)
THEOREM JournalNeverDoubleSigns ==
    ASSUME Benign
    PROVE  Spec => []NoDoubleSign
<1>1. IInv => NoDoubleSign
  BY DEF IInv, SignedIsLocked, NoDoubleSign
<1> QED
  BY JournalInvariant, <1>1, PTL

(* The slot of every signature survives any number of power losses, because
   commit returns only after the directory fsync. *)
THEOREM SignedSlotsSurvivePowerLoss ==
    ASSUME Benign
    PROVE  Spec => []DurableBeforeSigned
<1>1. IInv => DurableBeforeSigned
  BY DEF IInv
<1> QED
  BY JournalInvariant, <1>1, PTL

(* The journal implements the write-once lock of VoteLock: the lock is what
   outlives the faults - the slot files, or those of them that are on disk -,
   hard_link or the fsync is Lock, and pqc_sign is Sign. *)
THEOREM JournalImplementsVoteLock ==
    ASSUME Benign
    PROVE  Spec => ImplementsVoteLock
<1>1. Init => VL!Init
  BY DEF Init, VL!Init
<1>2. ASSUME IInv, [Next]_vars
      PROVE  [VL!Next]_(VL!vars)
  <2> USE DEF VL!vars, VL!Next, VL!Lock, VL!Sign
  <2>0. \A p \in Proc : intent[p].slot \in Slot /\ intent[p].hash \in Hash
    BY <1>2 DEF IInv, TypeOK, Intent
  <2>1. ASSUME NEW p \in Proc, Link(p)
        PROVE  (\E s \in Slot, h \in Hash : VL!Lock(s, h)) \/ UNCHANGED VL!vars
    <3>1. CASE "power" \notin faults
      <4>1. VL!Lock(intent[p].slot, intent[p].hash)
        BY <2>1, <3>1 DEF Link, Goto
      <4> QED BY <2>0, <4>1
    <3>2. CASE "power" \in faults
      BY <2>1, <3>2 DEF Link, Goto
    <3> QED BY <3>1, <3>2
  <2>2. ASSUME NEW p \in Proc, Sign(p)
        PROVE  \E s \in Slot, h \in Hash : VL!Sign(s, h)
    <3>1. VL!Sign(intent[p].slot, intent[p].hash)
      BY <1>2, <2>2 DEF Sign, Goto, IInv, LockedBeforeSign, Durable
    <3> QED BY <2>0, <3>1
  <2>3. ASSUME NEW p \in Proc, SyncDir(p)
        PROVE  (\E s \in Slot, h \in Hash : VL!Lock(s, h)) \/ UNCHANGED VL!vars
    <3>1. CASE "power" \notin faults
      BY <2>3, <3>1 DEF SyncDir, Goto
    <3>2. CASE "power" \in faults /\ disk = dir
      BY <2>3, <3>2 DEF SyncDir, Goto
    <3>3. CASE "power" \in faults /\ disk # dir
      <4>1. Durable /\ LockedBeforeSign /\ TypeOK
        BY <1>2, <3>3 DEF IInv
      <4>2. \A s \in Slot : dir[s] # disk[s] => s = intent[p].slot
        BY <2>3, <4>1 DEF SyncDir, Durable
      <4>3. dir[intent[p].slot] = intent[p].hash
        BY <2>3, <4>1 DEF SyncDir, LockedBeforeSign
      <4>4. disk[intent[p].slot] # dir[intent[p].slot]
        BY <3>3, <4>1, <4>2 DEF TypeOK
      <4>5. disk[intent[p].slot] = NoHash
        BY <2>0, <4>1, <4>4 DEF Durable
      <4>6. dir = [disk EXCEPT ![intent[p].slot] = intent[p].hash]
        BY <2>0, <4>1, <4>2, <4>3 DEF TypeOK
      <4>7. VL!Lock(intent[p].slot, intent[p].hash)
        BY <2>3, <3>3, <4>5, <4>6 DEF SyncDir, Goto
      <4> QED BY <2>0, <4>7
    <3> QED BY <3>1, <3>2, <3>3
  <2>4. ASSUME NEW p \in Proc, ProcNext(p), ~Link(p), ~Sign(p), ~SyncDir(p)
        PROVE  UNCHANGED VL!vars
    BY <2>4 DEF ProcNext, SignVote, CommitExisting, CheckExisting, WriteTmp,
       LinkExists, Abort, Goto
  <2>5. CASE \E p \in Proc : ProcNext(p)
    BY <2>1, <2>2, <2>3, <2>4, <2>5
  <2>6. ASSUME NEW s \in Slot, Writeback(s)
        PROVE  (\E h \in Hash : VL!Lock(s, h)) \/ UNCHANGED VL!vars
    <3>1. CASE "power" \notin faults
      BY <2>6, <3>1 DEF Writeback
    <3>2. CASE "power" \in faults
      <4>1. disk[s] = NoHash /\ dir[s] \in Hash
        BY <1>2, <2>6, <3>2 DEF IInv, Durable, TypeOK, Writeback
      <4>2. VL!Lock(s, dir[s])
        BY <2>6, <3>2, <4>1 DEF Writeback
      <4> QED BY <4>1, <4>2
    <3> QED BY <3>1, <3>2
  <2>7. CASE PowerLoss
    BY <2>7 DEF PowerLoss
  <2>8. CASE UNCHANGED vars
    BY <2>8 DEF vars
  <2> QED
    BY <1>2, <2>5, <2>6, <2>7, <2>8 DEF Next
<1> QED
  BY JournalInvariant, <1>1, <1>2, PTL DEF Spec, ImplementsVoteLock, VL!Spec
=============================================================================
