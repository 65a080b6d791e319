---------------------------- MODULE ContextStore ----------------------------
(***************************************************************************)
(* The canonical context store of the V4 chat path                         *)
(* (netaiops_asset/chat_v4/context_store.py) for one conversation: worker  *)
(* processes run load, save, append_turn and add_audit_ref under an        *)
(* exclusive flock, read the file, and replace it atomically through a     *)
(* temporary file.  Two conversations have separate files and locks, so    *)
(* the module is about one.                                                *)
(*                                                                         *)
(* A worker may be killed between any two steps, the host may lose power,  *)
(* every file operation may fail, and the file may be damaged from         *)
(* outside (bad JSON, unknown schema, a foreign conversation_id).          *)
(***************************************************************************)
EXTENDS ContextOps

CONSTANTS
  Procs,      \* worker processes
  NoProc,     \* nobody holds the lock
  MaxDamage   \* bound: times the file is damaged from outside

ASSUME ProcAssumption == NoProc \notin Procs

ASSUME DamageAssumption == MaxDamage \in Nat

VARIABLES
  file,    \* what a reader of path_for(conversation_id) sees now
  disk,    \* the contents that path may show after a power loss
  lock,    \* holder of the flock on lock_path_for(conversation_id)
  pc,      \* where each process is inside its operation
  op,      \* the operation each process runs
  draft,   \* the prepared context each process is about to write
  tmp,     \* the temporary file of each process
  reply,   \* the ContextOperationResult each process is about to return
  acked,   \* history: highest revision a write returned ok for since the
           \* file was last damaged from outside
  damage   \* how often the file was damaged

vars == <<file, disk, lock, pc, op, draft, tmp, reply, acked, damage>>

Idle == [kind |-> "none"]

Steps == {"idle", "lock", "read", "write", "replace", "sync", "unlock"}

-----------------------------------------------------------------------------
Init ==
  /\ file = Absent
  /\ disk = {Absent}
  /\ lock = NoProc
  /\ pc = [p \in Procs |-> "idle"]
  /\ op = [p \in Procs |-> Idle]
  /\ draft = [p \in Procs |-> EmptyContext]
  /\ tmp = [p \in Procs |-> "none"]
  /\ reply = [p \in Procs |-> NotFound]
  /\ acked = 0
  /\ damage = 0

\* The operation of p is over: its locals are gone.
Return(p) ==
  /\ pc' = [pc EXCEPT ![p] = "idle"]
  /\ op' = [op EXCEPT ![p] = Idle]
  /\ draft' = [draft EXCEPT ![p] = EmptyContext]
  /\ reply' = [reply EXCEPT ![p] = NotFound]

\* A caller enters load, save, append_turn or add_audit_ref.
Begin(p, o) ==
  /\ pc[p] = "idle"
  /\ Writes(o) => Revision(file) < MaxRevision
  /\ pc' = [pc EXCEPT ![p] = "lock"]
  /\ op' = [op EXCEPT ![p] = o]
  /\ UNCHANGED <<file, disk, lock, draft, tmp, reply, acked, damage>>

\* _ensure_dirs or the open of the lock file fails.
LockFails(p) ==
  /\ pc[p] = "lock"
  /\ Return(p)
  /\ UNCHANGED <<file, disk, lock, tmp, acked, damage>>

\* Mutant: the store opens the lock file and does not wait for the lock.
AcquireWithoutWaiting(p) ==
  /\ pc[p] = "lock"
  /\ lock' = p
  /\ pc' = [pc EXCEPT ![p] = "read"]
  /\ UNCHANGED <<file, disk, op, draft, tmp, reply, acked, damage>>

\* fcntl.flock(fd, LOCK_EX)
Acquire(p) ==
  /\ pc[p] = "lock"
  /\ lock = NoProc
  /\ lock' = p
  /\ pc' = [pc EXCEPT ![p] = "read"]
  /\ UNCHANGED <<file, disk, op, draft, tmp, reply, acked, damage>>

\* Leave the critical section with the result r.
Finish(p, r) ==
  /\ reply' = [reply EXCEPT ![p] = r]
  /\ pc' = [pc EXCEPT ![p] = "unlock"]

\* _load_unlocked finds no file: load returns not_found.
LoadMissing(p) ==
  /\ pc[p] = "read"
  /\ op[p].kind = "load"
  /\ file = Absent
  /\ Finish(p, NotFound)
  /\ UNCHANGED <<file, disk, lock, op, draft, tmp, acked, damage>>

LoadContext(p) ==
  /\ pc[p] = "read"
  /\ op[p].kind = "load"
  /\ file \in Context
  /\ Finish(p, Ok(file))
  /\ UNCHANGED <<file, disk, lock, op, draft, tmp, acked, damage>>

\* The file does not validate.  Every caller but a load that asked not to
\* moves it into the quarantine directory; the move may fail.
ReadGarbage(p) ==
  /\ pc[p] = "read"
  /\ file = Garbage
  /\ IF op[p].kind = "load" /\ ~op[p].quarantine
     THEN /\ Finish(p, Error("corrupt"))
          /\ UNCHANGED <<file, disk>>
     ELSE \/ /\ Finish(p, Error("corrupt"))
             /\ file' = Absent
             /\ disk' = disk \cup {Absent}
          \/ /\ \E k \in {"permission", "write"} : Finish(p, Error(k))
             /\ UNCHANGED <<file, disk>>
  /\ UNCHANGED <<lock, op, draft, tmp, acked, damage>>

RejectConflict(p) ==
  /\ pc[p] = "read"
  /\ file # Garbage
  /\ Conflicts(op[p], file)
  /\ Finish(p, Error("conflict"))
  /\ UNCHANGED <<file, disk, lock, op, draft, tmp, acked, damage>>

\* Mutant: a write takes a file that does not validate for a missing one.
PrepareOverGarbage(p) ==
  /\ pc[p] = "read"
  /\ Writes(op[p])
  /\ ~Conflicts(op[p], file)
  /\ draft' = [draft EXCEPT ![p] =
                 Effect(op[p], IF file = Garbage THEN Absent ELSE file)]
  /\ pc' = [pc EXCEPT ![p] = "write"]
  /\ UNCHANGED <<file, disk, lock, op, tmp, reply, acked, damage>>

\* The write operation computes its candidate from what it read.
PrepareWrite(p) ==
  /\ pc[p] = "read"
  /\ Writes(op[p])
  /\ file # Garbage
  /\ ~Conflicts(op[p], file)
  /\ draft' = [draft EXCEPT ![p] = Effect(op[p], file)]
  /\ pc' = [pc EXCEPT ![p] = "write"]
  /\ UNCHANGED <<file, disk, lock, op, tmp, reply, acked, damage>>

\* Mutant: the payload is written to the path itself.
WriteInPlace(p) ==
  /\ pc[p] = "write"
  /\ file' = Garbage
  /\ disk' = disk \cup {Garbage}
  /\ pc' = [pc EXCEPT ![p] = "replace"]
  /\ UNCHANGED <<lock, op, draft, tmp, reply, acked, damage>>

\* mkstemp, write, flush, fsync of the temporary file
WriteTemp(p) ==
  /\ pc[p] = "write"
  /\ tmp' = [tmp EXCEPT ![p] = "live"]
  /\ pc' = [pc EXCEPT ![p] = "replace"]
  /\ UNCHANGED <<file, disk, lock, op, draft, reply, acked, damage>>

\* os.replace(tmp_path, path): readers see the new context at once, a power
\* loss may still show an older directory entry.
Replace(p) ==
  /\ pc[p] = "replace"
  /\ file' = draft[p]
  /\ disk' = disk \cup {draft[p]}
  /\ tmp' = [tmp EXCEPT ![p] = "none"]
  /\ pc' = [pc EXCEPT ![p] = "sync"]
  /\ UNCHANGED <<lock, op, draft, reply, acked, damage>>

\* Mutant: ok without the fsync of the directory.
ReturnWithoutSync(p) ==
  /\ pc[p] = "sync"
  /\ acked' = draft[p].rev
  /\ Finish(p, Ok(draft[p]))
  /\ UNCHANGED <<file, disk, lock, op, draft, tmp, damage>>

\* os.fsync of the directory; the operation will return ok.
SyncDir(p) ==
  /\ pc[p] = "sync"
  /\ disk' = {file}
  /\ acked' = draft[p].rev
  /\ Finish(p, Ok(draft[p]))
  /\ UNCHANGED <<file, lock, op, draft, tmp, damage>>

\* OSError, PermissionError, an oversized payload or an exception of the
\* mutator: the finally block unlinks the temporary file.  A failure after
\* os.replace reports an error for a context that is already in place.
Fail(p) ==
  /\ pc[p] \in {"read", "write", "replace", "sync"}
  /\ \E k \in {"permission", "write", "invalid"} :
       /\ k = "invalid" => pc[p] = "write"
       /\ Finish(p, Error(k))
  /\ tmp' = [tmp EXCEPT ![p] = "none"]
  /\ UNCHANGED <<file, disk, lock, op, draft, acked, damage>>

\* Mutant: an error path that returns with the lock held.
ReleaseOnSuccess(p) ==
  /\ pc[p] = "unlock"
  /\ lock' = IF reply[p].status = "error" THEN lock ELSE NoProc
  /\ Return(p)
  /\ UNCHANGED <<file, disk, tmp, acked, damage>>

\* fcntl.flock(fd, LOCK_UN) and the return to the caller
Release(p) ==
  /\ pc[p] = "unlock"
  /\ lock' = NoProc
  /\ Return(p)
  /\ UNCHANGED <<file, disk, tmp, acked, damage>>

\* The worker is killed: the kernel drops its flock, its temporary file stays.
Crash(p) ==
  /\ pc[p] # "idle"
  /\ Return(p)
  /\ lock' = IF lock = p THEN NoProc ELSE lock
  /\ tmp' = [tmp EXCEPT ![p] = IF @ = "live" THEN "orphan" ELSE @]
  /\ UNCHANGED <<file, disk, acked, damage>>

\* The host loses power: every worker stops, the path shows one of the
\* contents its directory entry may have on disk.
PowerLoss ==
  /\ \E c \in disk : file' = c /\ disk' = {c}
  /\ lock' = NoProc
  /\ pc' = [p \in Procs |-> "idle"]
  /\ op' = [p \in Procs |-> Idle]
  /\ draft' = [p \in Procs |-> EmptyContext]
  /\ reply' = [p \in Procs |-> NotFound]
  /\ tmp' = [p \in Procs |-> IF tmp[p] = "live" THEN "orphan" ELSE tmp[p]]
  /\ UNCHANGED <<acked, damage>>

\* Something outside the program overwrites the file.  Damage inside a
\* critical section is not a case of its own: before the read it is damage
\* before the section, between read and replace the replace hides it.
Damage ==
  /\ lock = NoProc
  /\ damage < MaxDamage
  /\ damage' = damage + 1
  /\ file' = Garbage
  /\ disk' = {Garbage}
  /\ acked' = 0
  /\ UNCHANGED <<lock, pc, op, draft, tmp, reply>>

Step(p) ==
  \/ LoadMissing(p)
  \/ LoadContext(p)
  \/ ReadGarbage(p)
  \/ RejectConflict(p)
  \/ PrepareWrite(p)
  \/ WriteTemp(p)
  \/ Replace(p)
  \/ SyncDir(p)
  \/ Fail(p)
  \/ Release(p)

Next ==
  \/ \E p \in Procs :
       \/ \E o \in Operation : Begin(p, o)
       \/ LockFails(p)
       \/ Acquire(p)
       \/ Step(p)
       \/ Crash(p)
  \/ PowerLoss
  \/ Damage

Spec == Init /\ [][Next]_vars

\* A process that holds the lock keeps running (or dies): nothing between
\* flock and the finally block waits for anybody.
Fairness == \A p \in Procs : WF_vars(Step(p))

FairSpec == Spec /\ Fairness

-----------------------------------------------------------------------------
(* Properties                                                               *)

TypeOK ==
  /\ file \in Content
  /\ disk \subseteq Content
  /\ lock \in Procs \cup {NoProc}
  /\ pc \in [Procs -> Steps]
  /\ op \in [Procs -> Operation \cup {Idle}]
  /\ draft \in [Procs -> Context]
  /\ tmp \in [Procs -> {"none", "live", "orphan"}]
  /\ reply \in [Procs -> Reply]
  /\ acked \in Nat
  /\ damage \in 0..MaxDamage

\* Whatever the processes do, fail or crash, a stored context never has more
\* turns or audit references than the limits and never one of them twice.
StoredWellFormed ==
  \A c \in disk \cup {file} : c \in Context => WellFormed(c)

\* A write that returned ok survives every crash and power loss: no content
\* the disk may show is older than a revision the store has acknowledged.
AcknowledgedSurvives ==
  acked > 0 => \A c \in disk \cup {file} : c \in Context /\ c.rev >= acked

\* Exactly the holder of the lock is between its read and its result.
LockHeldInside ==
  \A p \in Procs :
    lock = p <=> pc[p] \in {"read", "write", "replace", "sync", "unlock"}

\* What a process is about to write was computed from the content it is
\* about to replace: nobody changes the file between its read and its replace.
DraftFromCurrent ==
  \A p \in Procs :
    /\ pc[p] \in {"write", "replace"} =>
         /\ file # Garbage
         /\ ~Conflicts(op[p], file)
         /\ draft[p] = Effect(op[p], file)
    /\ pc[p] = "sync" => file = draft[p]

\* A failed or finished operation leaves no temporary file behind; only a
\* killed worker does.
NoTempResidue == \A p \in Procs : tmp[p] = "live" => pc[p] = "replace"

\* A file that does not validate is never overwritten with a new context:
\* it leaves the path only into the quarantine directory.
GarbageNeverOverwritten ==
  [][file = Garbage => file' \in {Garbage, Absent}]_file

\* No lost update: a context that replaces another one has the next revision
\* and still has every turn of the other that the limit leaves room for,
\* except that a save replaces the list its caller has read.
NoLostUpdate ==
  [][\A p \in Procs :
       pc[p] = "replace" /\ pc'[p] = "sync" /\ file \in Context =>
           /\ file'.rev = file.rev + 1
           /\ op[p].kind # "save" =>
                \A i \in DOMAIN file.turns :
                  i > 1 => file.turns[i] \in Range(file'.turns)]_vars

\* The lock is never held for good: its holder finishes or dies.
LockReleased == lock # NoProc ~> lock = NoProc

\* What a caller of the store has seen of its operation.
SessionOf(p) ==
  CASE pc[p] = "idle" -> [state |-> "idle"]
    [] pc[p] \in {"lock", "read", "write", "replace"} ->
         [state |-> "called", op |-> op[p]]
    [] pc[p] = "sync" -> [state |-> "committed", context |-> draft[p]]
    [] pc[p] = "unlock" -> [state |-> "returning", reply |-> reply[p]]

Atomic == INSTANCE AtomicContext
  WITH stored <- file, survivors <- disk, damage <- damage,
       session <- [p \in Procs |-> SessionOf(p)]

\* The store implements atomic operations: every operation takes effect once,
\* at its os.replace, on the context stored at that instant.
ImplementsAtomicContext == Atomic!Spec

=============================================================================
