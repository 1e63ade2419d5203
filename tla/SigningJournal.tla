--------------------------- MODULE SigningJournal ---------------------------
(***************************************************************************)
(* The durable anti-double-sign journal of FINALITY_V2,                    *)
(* core/finality/src/journal.rs: one immutable file per signing slot,      *)
(* created by an exclusive hard_link(tmp, slot), then an fsync of the      *)
(* directory, then the signature.  Any number of processes started with    *)
(* the same key and data directory run `sign_vote` at the same time; a     *)
(* process may be killed at any point, an I/O call may fail, and the       *)
(* machine may lose power, which loses the directory entries that were not *)
(* written back.                                                           *)
(*                                                                         *)
(* `dir` is the directory as every live process sees it (the page cache),  *)
(* `disk` what a power loss leaves of it.  A record is written and fsynced *)
(* in a private tmp file before it can become a slot, so a slot file is    *)
(* always complete and is modelled by the block hash it names.             *)
(***************************************************************************)
CONSTANTS
    Proc,     \* processes that share the key and the data directory
    Slot,     \* signing slots: (chain, validator, vote type, height, round)
    Hash,     \* block hashes
    NoHash,   \* content of a slot that does not exist
    FaultSets \* the sets of fault kinds a behaviour may meet

ASSUME NoHashAssumption == NoHash \notin Hash

(* "shared": several processes sign at the same time; "abort": an I/O error
   or a kill ends a call; "power": the machine loses power. *)
ASSUME FaultsAssumption == FaultSets \subseteq SUBSET {"shared", "abort", "power"}

VARIABLES
    dir,      \* dir[s]: the hash in slot file s as processes see it, or NoHash
    disk,     \* disk[s]: the same after a power loss
    pc,       \* where each process is in sign_vote
    intent,   \* the VoteIntent each process is signing (of its last call)
    signed,   \* the <<slot, hash>> pairs a signature was produced for
    faults    \* the fault kinds of this behaviour

vars == <<dir, disk, pc, intent, signed, faults>>

Intent == [slot : Slot, hash : Hash]

Init ==
    /\ dir = [s \in Slot |-> NoHash]
    /\ disk = [s \in Slot |-> NoHash]
    /\ pc = [p \in Proc |-> "idle"]
    /\ intent \in [Proc -> Intent]
    /\ signed = {}
    /\ faults \in FaultSets

Goto(p, label) == pc' = [pc EXCEPT ![p] = label] /\ UNCHANGED faults

(* sign_vote is called: the intent is built and validated. *)
SignVote(p, s, h) ==
    /\ pc[p] = "idle"
    /\ "shared" \in faults \/ \A q \in Proc : pc[q] = "idle"
    /\ intent' = [intent EXCEPT ![p] = [slot |-> s, hash |-> h]]
    /\ Goto(p, "commit")
    /\ UNCHANGED <<dir, disk, signed>>

(* check_existing, reached when the slot exists: AlreadyLocked if it names
   the intended hash - the caller goes on to sign -, Equivocation otherwise. *)
CheckExisting(p) ==
    /\ dir[intent[p].slot] # NoHash
    /\ Goto(p, IF dir[intent[p].slot] = intent[p].hash THEN "sign" ELSE "idle")
    /\ UNCHANGED <<dir, disk, intent, signed>>

(* The slot.exists() early return of commit. *)
CommitExisting(p) ==
    /\ pc[p] = "commit"
    /\ CheckExisting(p)

(* slot.exists() is false: the record is written to a tmp file and fsynced. *)
WriteTmp(p) ==
    /\ pc[p] = "commit"
    /\ dir[intent[p].slot] = NoHash
    /\ Goto(p, "link")
    /\ UNCHANGED <<dir, disk, intent, signed>>

(* Mutant: rename(tmp, slot), which replaces an existing slot. *)
LinkReplaces(p) ==
    /\ pc[p] = "link"
    /\ dir' = [dir EXCEPT ![intent[p].slot] = intent[p].hash]
    /\ Goto(p, "sync")
    /\ UNCHANGED <<disk, intent, signed>>

(* hard_link(tmp, slot) succeeds only if no process has created the slot. *)
Link(p) ==
    /\ pc[p] = "link"
    /\ dir[intent[p].slot] = NoHash
    /\ dir' = [dir EXCEPT ![intent[p].slot] = intent[p].hash]
    /\ Goto(p, "sync")
    /\ UNCHANGED <<disk, intent, signed>>

(* hard_link fails with EEXIST: another process won the race. *)
LinkExists(p) ==
    /\ pc[p] = "link"
    /\ CheckExisting(p)

(* Mutant: the directory is not fsynced. *)
SyncDirSkipped(p) ==
    /\ pc[p] = "sync"
    /\ Goto(p, "sign")
    /\ UNCHANGED <<dir, disk, intent, signed>>

(* The directory fsync after a successful link: Commit::Locked. *)
SyncDir(p) ==
    /\ pc[p] = "sync"
    /\ disk' = dir
    /\ Goto(p, "sign")
    /\ UNCHANGED <<dir, intent, signed>>

(* pqc_sign over the intended hash. *)
Sign(p) ==
    /\ pc[p] = "sign"
    /\ signed' = signed \cup {<<intent[p].slot, intent[p].hash>>}
    /\ Goto(p, "idle")
    /\ UNCHANGED <<dir, disk, intent>>

(* The call ends early: an I/O step or pqc_sign returns an error, which
   sign_vote returns, or the process is killed and started again.  The files
   stay as they are. *)
Abort(p) ==
    /\ "abort" \in faults
    /\ pc[p] # "idle"
    /\ Goto(p, "idle")
    /\ UNCHANGED <<dir, disk, intent, signed>>

(* The kernel writes a directory entry back on its own. *)
Writeback(s) ==
    /\ disk[s] # dir[s]
    /\ disk' = [disk EXCEPT ![s] = dir[s]]
    /\ UNCHANGED <<dir, pc, intent, signed, faults>>

(* The machine loses power: every process is gone and the directory is what
   had reached the disk. *)
PowerLoss ==
    /\ "power" \in faults
    /\ dir' = disk
    /\ pc' = [p \in Proc |-> "idle"]
    /\ UNCHANGED <<disk, intent, signed, faults>>

ProcNext(p) ==
    \/ \E s \in Slot, h \in Hash : SignVote(p, s, h)
    \/ CommitExisting(p)
    \/ WriteTmp(p)
    \/ Link(p)
    \/ LinkExists(p)
    \/ SyncDir(p)
    \/ Sign(p)
    \/ Abort(p)

Next ==
    \/ \E p \in Proc : ProcNext(p)
    \/ \E s \in Slot : Writeback(s)
    \/ PowerLoss

Spec == Init /\ [][Next]_vars
-----------------------------------------------------------------------------
(* Type invariant of the journal directory, the processes in sign_vote and
   the signatures they returned. *)
TypeOK ==
    /\ dir \in [Slot -> Hash \cup {NoHash}]
    /\ disk \in [Slot -> Hash \cup {NoHash}]
    /\ pc \in [Proc -> {"idle", "commit", "link", "sync", "sign"}]
    /\ intent \in [Proc -> Intent]
    /\ signed \subseteq Slot \X Hash
    /\ faults \in FaultSets

(* sign_vote never returns signatures over two block hashes for one slot:
   across processes that share the directory, across kills and I/O errors at
   any step of commit; and across power losses, where one process signs at a
   time and its calls are not cut short. *)
NoDoubleSign ==
    \A s \in Slot, g, h \in Hash :
        <<s, g>> \in signed /\ <<s, h>> \in signed => g = h

(* A signature is only ever made for the hash in the slot file. *)
SignedIsLocked ==
    \A s \in Slot, h \in Hash : <<s, h>> \in signed => dir[s] = h

(* A process that is past hard_link (or past check_existing) signs the hash
   the slot file names. *)
LockedBeforeSign ==
    \A p \in Proc :
        pc[p] \in {"sync", "sign"} => dir[intent[p].slot] = intent[p].hash

(* Where power may be lost, the slot of every signature is on disk: commit
   returns only after the directory fsync. *)
DurableBeforeSigned ==
    "power" \in faults => \A s \in Slot, h \in Hash : <<s, h>> \in signed => disk[s] = h

(* What the disk holds where power may be lost: everything the directory
   shows, but for the slot that the one running process is about to sync. *)
Durable ==
    /\ \A p, q \in Proc : pc[p] # "idle" /\ pc[q] # "idle" => p = q
    /\ \A p \in Proc : pc[p] = "sign" => disk[intent[p].slot] = intent[p].hash
    /\ \A s \in Slot : disk[s] # NoHash => dir[s] = disk[s]
    /\ \A s \in Slot : dir[s] # disk[s] =>
            \E p \in Proc : pc[p] = "sync" /\ intent[p].slot = s

(* The inductive invariant of the proof that sign_vote never double-signs. *)
IInv ==
    /\ TypeOK /\ SignedIsLocked /\ LockedBeforeSign
    /\ DurableBeforeSigned /\ ("power" \in faults => Durable)

(* The journal implements the write-once lock: what outlives the faults of a
   behaviour is the lock, the slot files or those of them on disk. *)
VL == INSTANCE VoteLock WITH locked <- IF "power" \in faults THEN disk ELSE dir

(* Every step of the journal (link, fsync, sign, kill, writeback, power loss)
   is a step of the abstract write-once lock or leaves it unchanged. *)
ImplementsVoteLock == VL!Spec
=============================================================================
