--------------------------- MODULE OperationTracker ---------------------------
(***************************************************************************)
(* vfs/operation_tracker.rs: the registry of every file operation of the    *)
(* desktop application.  It is shared by all command threads.  A method      *)
(* updates the map inside one write-lock section, then, with the lock        *)
(* released, appends to the audit log, prunes the history and writes the     *)
(* whole map to operations.json; other threads run between those steps.      *)
(* Creating an operation writes the file from a spawned task that holds a    *)
(* snapshot.                                                                *)
(*                                                                         *)
(* Time stamps matter only for the order in which the history is pruned:     *)
(* `recent' orders the operations by completed_at, or by last_updated_at     *)
(* while completed_at is None: <<p, q>> is in it when q is more recent.      *)
(***************************************************************************)
EXTENDS Integers, FiniteSets, Functions

CONSTANTS OpId,        \* operation ids (UUIDs, never reused)
          File,        \* files of a multi-file operation
          Size,        \* Size[f]: file_size of f in bytes
          Bytes,       \* progress values callers report
          Thread,      \* threads running commands
          MaxHistory,  \* max_history
          MaxCrash,    \* bound on crashes
          None         \* no status, no file, no lock holder

ASSUME SizeAssumption == Size \in [File -> Nat] /\ Bytes \subseteq Nat
ASSUME HistoryAssumption == MaxHistory \in Nat /\ MaxCrash \in Nat
ASSUME NoneAssumption == None \notin Thread

VARIABLES ops,       \* the operations map
          recent,    \* the order of the ids of ops by effective time
          thread,    \* thread -> [pc, op, status]: what it still has to do
          writer,    \* thread that holds the write lock across a step, or None
          disk,      \* operations.json, [ops, recent]; no file loads as no operations
          spawned,   \* snapshots that spawned tasks have yet to write
          audit,     \* the entries of audit_log.jsonl, as <<id, status>>
          cleared,   \* history: ids clear_all removed
          crashes,   \* number of crashes so far
          unaudited, \* history: ids of operations an entry of which could not be appended
          saved      \* history: "behind" when the last write of operations.json failed or held an older map

vars == <<ops, recent, thread, writer, disk, spawned, audit, cleared, crashes, unaudited, saved>>

Status == {"Pending", "InProgress", "Completed", "Failed", "Canceled"}
PC     == {"idle", "createAudit", "snapshot", "audit", "cleanup", "save",
           "guardedSave", "removeFile"}

FileRecord == [bytes : Nat, status : Status]
\* multi: files.is_some(); done: completed_at.is_some()
Operation  == [multi : BOOLEAN, files : [File -> FileRecord],
               status : Status, done : BOOLEAN]
IsOpMap(m) == DOMAIN m \subseteq OpId /\ m \in [DOMAIN m -> Operation]

NoState == [ops |-> << >>, recent |-> {}]
Idle == [pc |-> "idle", op |-> None, status |-> None]

-----------------------------------------------------------------------------
(* Pure parts of the methods: what one write-lock section does to a record.  *)

NewOperation(multi) ==
    [multi |-> multi, files |-> [f \in File |-> [bytes |-> 0, status |-> "Pending"]],
     status |-> "Pending", done |-> FALSE]

\* x.saturating_sub(1)
Less1(n) == IF n = 0 THEN 0 ELSE n - 1

Total(g) == FoldFunction(LAMBDA x, y : x + y, 0, g)

AllCompleted(files) ==
    \A f \in File : files[f].status = "Completed" /\ files[f].bytes >= Less1(Size[f])

\* The sum of the processed bytes reaches the total, with one byte of slack.
BytesReachTotal(files) ==
    Total([f \in File |-> files[f].bytes]) >= Less1(Total(Size))

AnyFailed(files)     == \E f \in File : files[f].status = "Failed"
AnyInProgress(files) == \E f \in File : files[f].status \in {"InProgress", "Pending"}

\* Mutant of Recompute: a completed parent is not reverted.
RecomputeNoRevert(op) ==
    IF File # {} /\ AllCompleted(op.files) /\ op.status # "Completed"
      THEN IF BytesReachTotal(op.files)
             THEN [op EXCEPT !.status = "Completed", !.done = TRUE]
             ELSE IF op.status = "Pending" THEN [op EXCEPT !.status = "InProgress"] ELSE op
    ELSE IF AnyFailed(op.files) /\ op.status # "Failed" THEN [op EXCEPT !.status = "Failed"]
    ELSE IF AnyInProgress(op.files) /\ op.status = "Pending"
      THEN [op EXCEPT !.status = "InProgress"]
    ELSE op

\* update_file_progress: the parent's status after one of its files changed.
Recompute(op) ==
    IF File # {} /\ AllCompleted(op.files) /\ op.status # "Completed"
      THEN IF BytesReachTotal(op.files)
             THEN [op EXCEPT !.status = "Completed", !.done = TRUE]
             ELSE IF op.status = "Pending" THEN [op EXCEPT !.status = "InProgress"] ELSE op
    ELSE IF AnyFailed(op.files) /\ op.status # "Failed" THEN [op EXCEPT !.status = "Failed"]
    ELSE IF AnyInProgress(op.files) /\ op.status = "Pending"
      THEN [op EXCEPT !.status = "InProgress"]
    ELSE IF ~AllCompleted(op.files) /\ op.status = "Completed"
      THEN [op EXCEPT !.status = "InProgress", !.done = FALSE]
    ELSE op

\* update_operation_progress, the part that is visible in a status.
Progressed(op) == IF op.status = "Pending" THEN [op EXCEPT !.status = "InProgress"] ELSE op

\* update_file_progress(f, n, status); status None keeps the file's status, and
\* f None is a path that is not one of the operation's files.
FileProgressed(op, f, n, status) ==
    IF op.multi
      THEN IF f = None THEN Recompute(op)
           ELSE Recompute([op EXCEPT !.files[f].bytes = n,
                                     !.files[f].status = IF status = None THEN @ ELSE status])
    ELSE IF status = None THEN op
    ELSE [op EXCEPT !.status = status, !.done = @ \/ status = "Completed"]

\* update_file_progress_with_error(f)
FileFailed(op, f) ==
    IF ~op.multi THEN [op EXCEPT !.status = "Failed"]
    ELSE IF f # None THEN [op EXCEPT !.files[f].status = "Failed", !.status = "Failed"]
    ELSE IF AnyFailed(op.files) THEN [op EXCEPT !.status = "Failed"]
    ELSE IF AnyInProgress(op.files) THEN Progressed(op) ELSE op

\* complete_operation returns early unless all children are at 100%.
MayComplete(op) == op.multi => AllCompleted(op.files) /\ BytesReachTotal(op.files)

Terminal(op, status) == [op EXCEPT !.status = status, !.done = TRUE]

Finished(op) == op.status \in {"Completed", "Failed"}

\* Mutant of Prunable: every operation counts as history, running ones too.
PrunableAny(o, rest) == Cardinality(rest) >= MaxHistory

\* cleanup_old_operations: o goes when MaxHistory finished ones are more recent.
Prunable(o, rest) ==
    Finished(ops[o]) /\ Cardinality({p \in rest : Finished(ops[p])}) >= MaxHistory

MoreRecent(o) == {p \in DOMAIN ops : <<o, p>> \in recent}
Kept == {o \in DOMAIN ops : ~Prunable(o, MoreRecent(o))}

Among(S) == recent \cap (S \X S)

\* o becomes the most recent of the operations.
Newest(o) == Among(DOMAIN ops \ {o}) \cup ((DOMAIN ops \ {o}) \X {o})

\* The order after an update of o: it becomes the most recent unless it keeps
\* an old completed_at.
Stamped(o, new, stamped) == IF stamped \/ ~new.done THEN Newest(o) ELSE recent

-----------------------------------------------------------------------------
Init == /\ ops = << >>
        /\ recent = {}
        /\ thread = [t \in Thread |-> Idle]
        /\ writer = None
        /\ disk = NoState
        /\ spawned = {}
        /\ audit = {}
        /\ cleared = {}
        /\ crashes = 0 /\ unaudited = {} /\ saved = "current"

Goto(t, pc, o, status) == thread' = [thread EXCEPT ![t] = [pc |-> pc, op |-> o, status |-> status]]

\* t may enter a lock section of a new call.
Enter(t) == thread[t].pc = "idle" /\ writer = None

Fresh(o) == /\ o \notin DOMAIN ops \cup cleared
            /\ o \notin DOMAIN disk.ops
            /\ \A t \in Thread : thread[t].op # o
            /\ o \notin unaudited /\ \A s \in Status : <<o, s>> \notin audit

\* create_multi_file_operation_with_context, up to the end of its lock section
CreateOperation(t, o, multi) ==
    /\ Enter(t) /\ Fresh(o)
    /\ ops' = [p \in DOMAIN ops \cup {o} |-> IF p = o THEN NewOperation(multi) ELSE ops[p]]
    /\ recent' = Newest(o)
    /\ Goto(t, "createAudit", o, "Pending")
    /\ UNCHANGED <<writer, disk, spawned, audit, cleared, crashes, unaudited, saved>>

\* append_to_audit_log: an operation being created goes on to its snapshot,
\* a finished one to cleanup_old_operations.  A file that cannot be opened or
\* written is passed over, at most logged.
AppendToAuditLog(t) ==
    /\ thread[t].pc \in {"createAudit", "audit"}
    /\ \/ audit' = audit \cup {<<thread[t].op, thread[t].status>>} /\ UNCHANGED unaudited
       \/ unaudited' = unaudited \cup {thread[t].op} /\ UNCHANGED audit
    /\ Goto(t, IF thread[t].pc = "audit" THEN "cleanup" ELSE "snapshot",
            thread[t].op, thread[t].status)
    /\ UNCHANGED <<ops, recent, writer, disk, spawned, cleared, crashes, saved>>

\* The snapshot is taken under the read lock and handed to a spawned task.
SpawnSave(t) ==
    /\ thread[t].pc = "snapshot" /\ writer = None
    /\ spawned' = spawned \cup {[ops |-> ops, recent |-> recent]}
    /\ thread' = [thread EXCEPT ![t] = Idle]
    /\ UNCHANGED <<ops, recent, writer, disk, audit, cleared, crashes, unaudited, saved>>

\* How the file stands to the map after a write of it, or after a failed one.
Compared == IF disk'.ops = ops THEN "current" ELSE "behind"

\* The spawned tokio::fs::write takes no lock: it may run after later saves, and
\* its error is only logged.
SpawnedWrite(s) ==
    /\ disk' \in {s, disk}
    /\ saved' = Compared
    /\ spawned' = spawned \ {s}
    /\ UNCHANGED <<ops, recent, thread, writer, audit, cleared, crashes, unaudited>>

Update(t, o, new, stamped, pc) ==
    /\ Enter(t) /\ o \in DOMAIN ops
    /\ ops' = [ops EXCEPT ![o] = new]
    /\ recent' = Stamped(o, new, stamped)
    /\ IF pc = "idle" THEN thread' = thread ELSE Goto(t, pc, o, new.status)
    /\ UNCHANGED <<writer, disk, spawned, audit, cleared, crashes, unaudited, saved>>

UpdateOperationProgress(t, o) == Update(t, o, Progressed(ops[o]), FALSE, "save")

UpdateFileProgress(t, o, f, n, status) ==
    LET new == FileProgressed(ops[o], f, n, status)
    IN  Update(t, o, new,
               new.status = "Completed" /\ (ops[o].status # "Completed" \/ ~ops[o].multi), "save")

UpdateFileProgressWithError(t, o, f) == Update(t, o, FileFailed(ops[o], f), FALSE, "save")

\* The update methods save even when the id is unknown.
UpdateUnknown(t, o) ==
    /\ Enter(t) /\ o \in OpId \ DOMAIN ops
    /\ Goto(t, "save", o, None)
    /\ UNCHANGED <<ops, recent, writer, disk, spawned, audit, cleared, crashes, unaudited, saved>>

\* complete_operation first refreshes the metrics, also when it then returns
\* early because a child is not complete.
CompleteOperation(t, o) ==
    /\ o \in DOMAIN ops
    /\ IF MayComplete(ops[o])
         THEN Update(t, o, Terminal(ops[o], "Completed"), TRUE, "audit")
         ELSE Update(t, o, ops[o], FALSE, "idle")

FailOperation(t, o)   == Update(t, o, Terminal(ops[o], "Failed"), TRUE, "audit")
CancelOperation(t, o) == Update(t, o, Terminal(ops[o], "Canceled"), TRUE, "audit")

\* Mutant of CleanupOldOperations: the write guard outlives the pruning.
CleanupHoldingGuard(t) ==
    /\ thread[t].pc = "cleanup" /\ writer = None
    /\ ops' = Restrict(ops, Kept)
    /\ recent' = Among(Kept)
    /\ writer' = t
    /\ Goto(t, "save", thread[t].op, thread[t].status)
    /\ UNCHANGED <<disk, spawned, audit, cleared, crashes, unaudited, saved>>

CleanupOldOperations(t) ==
    /\ thread[t].pc = "cleanup" /\ writer = None
    /\ ops' = Restrict(ops, Kept)
    /\ recent' = Among(Kept)
    /\ Goto(t, "save", thread[t].op, thread[t].status)
    /\ UNCHANGED <<writer, disk, spawned, audit, cleared, crashes, unaudited, saved>>

\* save_state takes the read lock.  delete_operation and
\* update_operation_metadata call it while they hold the write lock.  The callers
\* ignore or log an error.
SaveState(t) ==
    /\ thread[t].pc \in {"save", "guardedSave"} /\ writer = None
    /\ disk' \in {[ops |-> ops, recent |-> recent], disk}
    /\ saved' = Compared
    /\ thread' = [thread EXCEPT ![t] = Idle]
    /\ UNCHANGED <<ops, recent, writer, spawned, audit, cleared, crashes, unaudited>>

UpdateOperationMetadata(t, o) ==
    /\ Enter(t)
    /\ recent' = IF o \in DOMAIN ops THEN Stamped(o, ops[o], FALSE) ELSE recent
    /\ writer' = t
    /\ Goto(t, "guardedSave", o, None)
    /\ UNCHANGED <<ops, disk, spawned, audit, cleared, crashes, unaudited, saved>>

DeleteOperation(t, o) ==
    /\ Enter(t)
    /\ ops' = Restrict(ops, DOMAIN ops \ {o})
    /\ recent' = Among(DOMAIN ops \ {o})
    /\ writer' = t
    /\ Goto(t, "guardedSave", o, None)
    /\ UNCHANGED <<disk, spawned, audit, cleared, crashes, unaudited, saved>>

ClearAll(t) ==
    /\ Enter(t)
    /\ cleared' = cleared \cup DOMAIN ops
    /\ ops' = << >>
    /\ recent' = {}
    /\ Goto(t, "removeFile", None, None)
    /\ UNCHANGED <<writer, disk, spawned, audit, crashes, unaudited, saved>>

RemoveStateFile(t) ==
    /\ thread[t].pc = "removeFile"
    /\ disk' \in {NoState, disk}
    /\ saved' = Compared
    /\ thread' = [thread EXCEPT ![t] = Idle]
    /\ UNCHANGED <<ops, recent, writer, spawned, audit, cleared, crashes, unaudited>>

\* The process dies and starts again: OperationTracker::new loads the file.
Restart ==
    /\ crashes < MaxCrash
    /\ crashes' = crashes + 1
    /\ ops' = disk.ops
    /\ recent' = disk.recent
    /\ thread' = [t \in Thread |-> Idle]
    /\ writer' = None
    /\ spawned' = {} /\ saved' = "current"
    /\ UNCHANGED <<disk, audit, cleared, unaudited>>

\* What a thread does without being called again.
Continue(t) == \/ AppendToAuditLog(t) \/ SpawnSave(t) \/ CleanupOldOperations(t)
               \/ SaveState(t) \/ RemoveStateFile(t)

Call(t) ==
    \E o \in OpId :
        \/ \E multi \in BOOLEAN : CreateOperation(t, o, multi)
        \/ UpdateOperationProgress(t, o)
        \/ \E f \in File \cup {None}, n \in Bytes,
             status \in {None, "InProgress", "Completed", "Failed"} :
               UpdateFileProgress(t, o, f, n, status)
        \/ \E f \in File \cup {None} : UpdateFileProgressWithError(t, o, f)
        \/ UpdateUnknown(t, o)
        \/ CompleteOperation(t, o) \/ FailOperation(t, o) \/ CancelOperation(t, o)
        \/ UpdateOperationMetadata(t, o) \/ DeleteOperation(t, o)

Next == \/ \E t \in Thread : Call(t) \/ ClearAll(t) \/ Continue(t)
        \/ \E s \in spawned : SpawnedWrite(s)
        \/ Restart

Spec == Init /\ [][Next]_vars

\* Threads that have entered a method keep running.
FairSpec == Spec /\ \A t \in Thread : WF_vars(Continue(t))

-----------------------------------------------------------------------------
\* The operation map, its file and the snapshots are maps of operations.
MapsTyped == /\ IsOpMap(ops)
             /\ IsOpMap(disk.ops)
             /\ \A s \in spawned : IsOpMap(s.ops)

(* Type invariant. *)
TypeOK ==
    /\ MapsTyped
    /\ recent \subseteq OpId \X OpId
    /\ \A t \in Thread : /\ thread[t].pc \in PC
                         /\ thread[t].op \in OpId \cup {None}
                         /\ thread[t].status \in Status \cup {None}
    /\ writer \in Thread \cup {None}
    /\ disk.recent \subseteq OpId \X OpId
    /\ \A s \in spawned : s.recent \subseteq OpId \X OpId
    /\ audit \subseteq OpId \X Status
    /\ cleared \subseteq OpId
    /\ crashes \in 0 .. MaxCrash
    /\ unaudited \subseteq OpId /\ saved \in {"current", "behind"}

\* A Completed operation has a completion time and, with several files, only
\* files that are themselves completed at 100%.
SoundOperation(op) == op.status = "Completed" =>
                         op.done /\ (op.multi => AllCompleted(op.files))
SoundMap(m) == \A o \in DOMAIN m : SoundOperation(m[o])

(* "Only mark parent as completed when ALL children are completed AND        *)
(* actually at 100%" (operation_tracker.rs 430): in memory, in the state     *)
(* file and in every snapshot on its way to the file, so also after a crash. *)
CompletedMeansAllFiles ==
    /\ SoundMap(ops)
    /\ SoundMap(disk.ops)
    /\ \A s \in spawned : SoundMap(s.ops)

(* "all in audit log" (commands/helpers.rs 122): every operation that other   *)
(* threads, the state file or a reader can see has an audit entry, or the    *)
(* thread that created it is about to write it, or an append of one failed   *)
(* (347-357).  A crash in that window loses the entry, so this is claimed    *)
(* for runs without a crash.                                                *)
EveryOperationAudited ==
    crashes = 0 =>
        \A o \in DOMAIN ops \cup DOMAIN disk.ops :
            \/ \E s \in Status : <<o, s>> \in audit
            \/ \E t \in Thread : thread[t].op = o /\ thread[t].pc = "createAudit"
            \/ o \in unaudited

(* What a restart will read (173-182, 331): once every call has returned and  *)
(* every snapshot is written, operations.json holds the operations of the map *)
(* as they are, unless the last write of the file failed or held a snapshot   *)
(* older than the map.                                                       *)
StateFileCurrent ==
    saved = "current" /\ spawned = {} /\ (\A t \in Thread : thread[t].pc = "idle") => disk.ops = ops

\* The type invariant, with what a reader of the map, the state file or the audit
\* log may rely on: Completed means complete, nothing runs unaudited, and what is
\* on disk is what the calls left (173-447).
TrackerSound == TypeOK /\ EveryOperationAudited /\ CompletedMeansAllFiles /\ StateFileCurrent

(* cleanup_old_operations (867-902) drops an operation only when it is       *)
(* finished and max_history finished ones that are more recent stay: no      *)
(* running or canceled operation is lost because another one completes.      *)
PruneKeepsNewest ==
    [][(\E t \in Thread : thread[t].pc = "cleanup" /\ thread'[t].pc = "save") =>
         \A o \in DOMAIN ops \ DOMAIN ops' :
            /\ Finished(ops[o])
            /\ Cardinality({p \in MoreRecent(o) \cap DOMAIN ops' : Finished(ops[p])})
                 >= MaxHistory]_vars

(* A call that has started returns, whatever the other threads do, unless    *)
(* some thread is inside delete_operation or update_operation_metadata,      *)
(* which keep the write lock while they ask for the read lock.               *)
CallsReturn ==
    \A t \in Thread : thread[t].pc # "idle" ~>
        (thread[t].pc = "idle" \/ \E u \in Thread : thread[u].pc = "guardedSave")

-----------------------------------------------------------------------------
(* What comments of the code say and the code does not do.                   *)

(* "Delete an operation from history (removes from in-memory cache only,     *)
(* audit log remains)" (856): a call of delete_operation that has started    *)
(* returns.                                                                 *)
DeleteReturns ==
    \A t \in Thread : thread[t].pc = "guardedSave" ~> thread[t].pc = "idle"
=============================================================================
