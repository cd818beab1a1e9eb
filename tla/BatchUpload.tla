----------------------------- MODULE BatchUpload -----------------------------
(***************************************************************************)
(* vfs_batch_upload of commands/uploads.rs: one operation for several files  *)
(* and folders, composed of the operation tracker and the upload manager.     *)
(* The folders are walked, every file found is handed to the manager and       *)
(* driven by a task of its own; meanwhile the user cancels, clears, restarts    *)
(* or asks for progress, and local files come and go.  Multipart uploads are    *)
(* detailed in MultipartUpload, the tracker in OperationTracker.               *)
(***************************************************************************)
EXTENDS Integers, Sequences, FiniteSets, TLC, SequencesExt, Maps

CONSTANTS BatchDisk,    \* local disks: path -> "file" or "dir"
          BatchItems,   \* argument lists: sequences of [type, path]
          BasePath,     \* s3_base_path, a sequence of names
          MaxVanish,    \* local files that disappear
          MaxRequests   \* other commands

ASSUME BatchAssumption == MaxVanish \in Nat /\ MaxRequests \in Nat
\* A path is a sequence of names; what holds an entry of a disk is one of its directories.
IsPath(p) == p \in Seq({p[i] : i \in DOMAIN p}) /\ p # << >>
ASSUME BatchItemsAssumption ==
    \A items \in BatchItems : /\ items \in Seq({items[i] : i \in DOMAIN items})
                              /\ \A i \in DOMAIN items : IsPath(items[i].path)
ASSUME BatchDiskAssumption ==
    \A d \in BatchDisk :
        /\ IsFiniteSet(DOMAIN d)
        /\ \A q \in DOMAIN d : /\ IsPath(q) /\ d[q] \in {"file", "dir"}
                               /\ \A n \in 1 .. Len(q) - 1 : SubSeq(q, 1, n) \in DOMAIN d /\ d[SubSeq(q, 1, n)] = "dir"

VARIABLES local,     \* the local disk
          batch,     \* the vfs_batch_upload command
          entry,     \* the operation in the tracker
          tracker,   \* "free", or "held" for good by delete_operation
          manager,   \* the upload manager: upload id -> [path, key, status]
          store,     \* multipart_uploads.json, and vfs_list_uploads reloading it
          driver,    \* upload id -> what its task does next
          user,      \* the other command at work
          vanished, requests,
          history    \* what happened, for the properties

batchVars == <<local, batch, entry, tracker, manager, store, driver, user, vanished, requests, history>>

NoBatch == [pc |-> "idle", items |-> << >>, todo |-> << >>, stack |-> << >>, queue |-> << >>, next |-> 1]
NoEntry == [there |-> FALSE, status |-> "Pending", done |-> FALSE, files |-> << >>]
NoUser  == [pc |-> "idle", cmd |-> "none", list |-> {}]
NoStore == [saved |-> << >>, pc |-> "idle", seen |-> << >>]
NoHistory == [skipped |-> FALSE, failed |-> {}, cancelled |-> FALSE, calm |-> TRUE]

Name(p)     == Last(p)
Below(p, q) == Len(q) >= Len(p) /\ SubSeq(q, 1, Len(p)) = p
Ids         == 1 .. Len(batch.queue)

-----------------------------------------------------------------------------
(* The tracker's record. *)
AnyFailed(fs)  == \E i \in DOMAIN fs : fs[i].status = "Failed"
AllFailed(fs)  == fs # << >> /\ \A i \in DOMAIN fs : fs[i].status = "Failed"
\* The first file with the path; the file of a folder has none.
MarkFileFailed(fs, p) ==
    LET mine == {i \in DOMAIN fs : fs[i].path = p}
    IN  IF mine = {} THEN fs
        ELSE [fs EXCEPT ![CHOOSE i \in mine : \A j \in mine : i <= j].status = "Failed"]
\* update_file_progress(.., Failed) and update_file_progress_with_error agree
\* here: a failed file fails the operation, whatever its status was.
\* Mutant of FileFailed: only an operation under way is failed.
FileFailedIfOpen(e, p) ==
    LET fs == MarkFileFailed(e.files, p)
    IN  [e EXCEPT !.files = fs, !.status = IF AnyFailed(fs) /\ @ = "InProgress" THEN "Failed" ELSE @]
FileFailed(e, p) ==
    LET fs == MarkFileFailed(e.files, p)
    IN  [e EXCEPT !.files = fs, !.status = IF AnyFailed(fs) THEN "Failed"
                                           ELSE IF fs # << >> /\ @ = "Pending" THEN "InProgress" ELSE @]
Progress(e)  == [e EXCEPT !.status = IF @ = "Pending" THEN "InProgress" ELSE @]
FailIfAll(e) == IF AllFailed(e.files) THEN [e EXCEPT !.status = "Failed", !.done = TRUE] ELSE e
\* complete_operation: no file is ever marked Completed, so only an operation
\* without files could be.
Complete(e)  == IF e.files = << >> THEN [e EXCEPT !.status = "Completed", !.done = TRUE] ELSE e
\* delete_operation asks for the read lock while it holds the write lock: from
\* then on every call of the tracker waits.
TrackerFree  == tracker = "free"
InBatch(f(_))     == IF entry.there THEN f(entry) ELSE entry

-----------------------------------------------------------------------------
(* The command. *)
\* The files of the operation, under the numbers of their items; other types have none.
operation_files(items) ==
    [i \in {j \in DOMAIN items : items[j].type \in {"file", "folder"}} |-> [path |-> items[i].path, status |-> "Pending"]]

\* The operation is created before the source is looked at: it stays Pending when
\* the service or the source is missing, it is not S3, or no adapter can be made.
vfs_batch_upload(items) ==
    /\ batch.pc = "idle" /\ ~entry.there /\ TrackerFree /\ manager = << >> /\ requests = 0 /\ items # << >>
    /\ entry' = [there |-> TRUE, status |-> "Pending", done |-> FALSE, files |-> operation_files(items)]
    /\ batch' = [NoBatch EXCEPT !.pc = "source", !.items = items, !.todo = items]
    /\ UNCHANGED <<local, tracker, manager, store, driver, user, vanished, requests, history>>
SourceChecked ==
    /\ batch.pc = "source"
    /\ \E ok \in BOOLEAN : batch' = [batch EXCEPT !.pc = IF ok THEN "collect" ELSE "over"]
    /\ UNCHANGED <<local, entry, tracker, manager, store, driver, user, vanished, requests, history>>

Queued(p, k) == [local |-> p, key |-> k]
Collected(b, more) == [b EXCEPT !.queue = @ \o more, !.todo = Tail(@)]
CollectItem ==
    /\ batch.pc = "collect"
    /\ IF batch.todo = << >> THEN batch' = [batch EXCEPT !.pc = "start"]
       ELSE LET i == Head(batch.todo)
            IN  batch' = CASE i.type = "file"   -> Collected(batch, <<Queued(i.path, BasePath \o <<Name(i.path)>>)>>)
                           [] i.type = "folder" -> [batch EXCEPT !.pc = "walk", !.stack = <<i.path>>]
                           [] OTHER             -> Collected(batch, << >>)
    /\ UNCHANGED <<local, entry, tracker, manager, store, driver, user, vanished, requests, history>>

\* A file that is itself the folder item lands under its own name twice.
FolderKey(root, p) == BasePath \o <<Name(root)>> \o (IF p = root THEN <<Name(p)>> ELSE SubSeq(p, Len(root) + 1, Len(p)))
Entries(p) == {q \in DOMAIN local : Len(q) = Len(p) + 1 /\ Below(p, q)}
Pushed(more, rest) == more \o rest
WalkFolder ==
    /\ batch.pc = "walk"
    /\ IF batch.stack = << >>
       THEN batch' = [batch EXCEPT !.pc = "collect", !.todo = Tail(@)] /\ UNCHANGED history
       ELSE LET p == Head(batch.stack)
                root == Head(batch.todo).path
                rest == Tail(batch.stack)
            IN  \/ /\ p \notin DOMAIN local /\ batch' = [batch EXCEPT !.stack = rest] /\ UNCHANGED history
                \/ /\ p \in DOMAIN local /\ local[p] = "file" /\ UNCHANGED history
                   /\ batch' = [batch EXCEPT !.stack = rest, !.queue = Append(@, Queued(p, FolderKey(root, p)))]
                \/ /\ p \in DOMAIN local /\ local[p] = "dir" /\ UNCHANGED history
                   /\ batch' = [batch EXCEPT !.stack = Pushed(SetToSeq(Entries(p)), rest)]
                \/ \* read_dir fails: a warning
                   /\ p \in DOMAIN local /\ local[p] = "dir"
                   /\ batch' = [batch EXCEPT !.stack = rest] /\ history' = [history EXCEPT !.skipped = TRUE]
    /\ UNCHANGED <<local, entry, tracker, manager, store, driver, user, vanished, requests>>

\* save_states writes the whole map of the manager.
SaveUploads == store' = [store EXCEPT !.saved = manager']
\* start_upload_with_operation_id enters the upload and saves, then the task is
\* spawned; a file that is gone fails.
StartNext ==
    LET n == batch.next
        f == batch.queue[n]
    IN  /\ batch.pc = "start" /\ n <= Len(batch.queue)
        /\ IF f.local \in DOMAIN local
           THEN /\ manager' = Entered(manager, n, [path |-> f.local, key |-> f.key, status |-> "Pending"])
                /\ batch' = [batch EXCEPT !.pc = "save"]
                /\ UNCHANGED <<entry, history>>
           ELSE /\ TrackerFree /\ entry' = InBatch(LAMBDA e : FileFailed(e, f.local))
                /\ batch' = [batch EXCEPT !.next = n + 1]
                /\ history' = [history EXCEPT !.failed = @ \cup {f.local}]
                /\ UNCHANGED manager
        /\ UNCHANGED <<local, tracker, store, driver, user, vanished, requests>>
SaveStarted ==
    /\ batch.pc = "save" /\ UNCHANGED manager /\ SaveUploads
    /\ batch' = [batch EXCEPT !.pc = "start", !.next = @ + 1]
    /\ driver' = Entered(driver, batch.next, "begin")
    /\ UNCHANGED <<local, entry, tracker, user, vanished, requests, history>>
BatchReturns ==
    /\ batch.pc = "start" /\ batch.next > Len(batch.queue) /\ batch' = [batch EXCEPT !.pc = "over"]
    /\ UNCHANGED <<local, entry, tracker, manager, store, driver, user, vanished, requests, history>>

-----------------------------------------------------------------------------
(* The task of upload u: upload_chunks, which saves as it goes, then what the  *)
(* command does on error.  Of what is saved only the ids matter here.           *)
Drives(u, pc)  == u \in DOMAIN driver /\ driver[u] = pc
DriveTo(u, pc) == driver' = [driver EXCEPT ![u] = pc]
SetUpload(u, s) == manager' = IF u \in DOMAIN manager THEN [manager EXCEPT ![u].status = s] ELSE manager

UploadBegins(u) == Drives(u, "begin") /\ SetUpload(u, "InProgress") /\ SaveUploads /\ DriveTo(u, "read") /\ UNCHANGED <<entry, history>>
\* Gone from the manager, or the local file cannot be opened or read.
UploadStops(u) == /\ Drives(u, "read") /\ DriveTo(u, "report") /\ UNCHANGED <<entry, manager, store, history>>
UploadReads(u) == /\ Drives(u, "read") /\ u \in DOMAIN manager /\ manager[u].path \in DOMAIN local
                  /\ local[manager[u].path] = "file"
                  /\ TrackerFree /\ entry' = InBatch(Progress) /\ DriveTo(u, "write")
                  /\ UNCHANGED <<manager, history>> /\ SaveUploads
UploadWrites(u) ==
    /\ Drives(u, "write") /\ (u \in DOMAIN manager => TrackerFree) /\ UNCHANGED history
    /\ \/ /\ SetUpload(u, "Completed") /\ DriveTo(u, "verify")
          /\ entry' = IF u \in DOMAIN manager THEN InBatch(Complete) ELSE entry
       \/ /\ SetUpload(u, "Failed") /\ DriveTo(u, "report")
          /\ entry' = IF u \in DOMAIN manager THEN InBatch(LAMBDA e : FileFailed(e, manager[u].path)) ELSE entry
    /\ SaveUploads
UploadVerified(u) ==
    /\ Drives(u, "verify") /\ UNCHANGED <<entry, manager, store, history>>
    /\ \/ u \in DOMAIN manager /\ DriveTo(u, "over")
       \/ DriveTo(u, "report")
ReportFailure(u) ==
    /\ Drives(u, "report") /\ TrackerFree /\ entry' = InBatch(LAMBDA e : FileFailed(e, batch.queue[u].local)) /\ DriveTo(u, "judge")
    /\ history' = [history EXCEPT !.failed = @ \cup {batch.queue[u].local}] /\ UNCHANGED <<manager, store>>
JudgeOperation(u) ==
    /\ Drives(u, "judge") /\ TrackerFree /\ entry' = InBatch(FailIfAll) /\ DriveTo(u, "over") /\ UNCHANGED <<manager, store, history>>
Drive(u) == /\ \/ UploadBegins(u) \/ UploadStops(u) \/ UploadReads(u) \/ UploadWrites(u) \/ UploadVerified(u)
               \/ ReportFailure(u) \/ JudgeOperation(u)
            /\ UNCHANGED <<local, batch, tracker, user, vanished, requests>>

-----------------------------------------------------------------------------
(* The other commands. *)
\* The tracker is called first; then the uploads are listed.
Ask(cmd, pc) == /\ user.pc = "idle" /\ batch.pc # "idle" /\ TrackerFree /\ requests < MaxRequests /\ requests' = requests + 1
                /\ user' = [pc |-> pc, cmd |-> cmd, list |-> DOMAIN manager]
                /\ UNCHANGED <<local, batch, tracker, manager, store, driver, vanished>>
\* calm: no upload can be added behind the command's back, by the batch, by a
\* reload under way or from a file that holds more than the manager.
Calm == batch.pc = "over" /\ store.pc = "idle" /\ DOMAIN store.saved \subseteq DOMAIN manager
AskCancel == /\ entry.there /\ Ask("cancel", "remove") /\ UNCHANGED entry
             /\ history' = [history EXCEPT !.calm = Calm]
AskClear  == /\ Ask("clear", "remove") /\ entry' = NoEntry
             /\ history' = [history EXCEPT !.calm = Calm]
Dropped(u) == manager' = [v \in DOMAIN manager \ {u} |-> manager[v]]
\* remove_upload drops the upload, then saves.
RemoveListed ==
    /\ user.pc = "remove"
    /\ IF user.list = {}
       THEN /\ user' = IF user.cmd = "cancel" THEN [user EXCEPT !.pc = "mark"] ELSE NoUser
            /\ history' = IF user.cmd = "clear" THEN [history EXCEPT !.cancelled = @ \/ history.calm] ELSE history
            /\ UNCHANGED manager
       ELSE \E u \in user.list : /\ user' = [user EXCEPT !.list = @ \ {u}, !.pc = "save"] /\ UNCHANGED history
                                 /\ Dropped(u)
    /\ UNCHANGED <<local, batch, entry, tracker, store, driver, vanished, requests>>
SaveRemoved ==
    /\ user.pc = "save" /\ UNCHANGED manager /\ SaveUploads
    /\ user' = IF user.cmd = "upload" THEN NoUser ELSE [user EXCEPT !.pc = "remove"]
    /\ UNCHANGED <<local, batch, entry, tracker, driver, vanished, requests, history>>
vfs_cancel_operation ==
    /\ user.pc = "mark" /\ TrackerFree /\ user' = NoUser
    /\ entry' = InBatch(LAMBDA e : [e EXCEPT !.status = "Canceled", !.done = TRUE])
    /\ history' = [history EXCEPT !.cancelled = @ \/ history.calm]
    /\ UNCHANGED <<local, batch, tracker, manager, store, driver, vanished, requests>>
\* The object is deleted and the upload dropped; the operation is not told.
vfs_cancel_upload(u) ==
    /\ u \in DOMAIN manager /\ user.pc = "idle" /\ requests < MaxRequests /\ requests' = requests + 1
    /\ Dropped(u) /\ user' = [pc |-> "save", cmd |-> "upload", list |-> {}]
    /\ history' = [history EXCEPT !.calm = FALSE]
    /\ UNCHANGED <<local, batch, entry, tracker, store, driver, vanished>>
\* vfs_list_uploads calls load_states: the file is read, and what was read then
\* replaces the map, whatever became of it meanwhile.
vfs_list_uploads ==
    /\ store.pc = "idle" /\ batch.pc # "idle" /\ requests < MaxRequests /\ requests' = requests + 1
    /\ store' = [store EXCEPT !.pc = "install", !.seen = store.saved]
    /\ history' = [history EXCEPT !.calm = FALSE]
    /\ UNCHANGED <<local, batch, entry, tracker, manager, driver, user, vanished>>
ListInstalls ==
    /\ store.pc = "install" /\ manager' = store.seen
    /\ store' = [store EXCEPT !.pc = "idle", !.seen = << >>]
    /\ UNCHANGED <<local, batch, entry, tracker, driver, user, vanished, requests, history>>
get_progress(u) ==
    /\ u \in DOMAIN manager /\ TrackerFree /\ entry.status = "Pending" /\ entry' = InBatch(Progress)
    /\ UNCHANGED <<local, batch, tracker, manager, store, driver, user, vanished, requests, history>>
\* vfs_restart_operation answers whether an upload of the operation can be resumed.
CanResume == entry.status \in {"Failed", "Canceled"} /\ DOMAIN manager # {}
\* delete_operation never returns: the entry is gone and the lock is never given back.
vfs_delete_operation ==
    /\ TrackerFree /\ batch.pc # "idle" /\ requests < MaxRequests /\ requests' = requests + 1
    /\ entry' = NoEntry /\ tracker' = "held"
    /\ UNCHANGED <<local, batch, manager, store, driver, user, vanished, history>>
Vanish == \E p \in DOMAIN local :
    /\ vanished < MaxVanish /\ vanished' = vanished + 1 /\ batch.pc # "idle"
    /\ local' = [q \in {q \in DOMAIN local : ~Below(p, q)} |-> local[q]]
    /\ UNCHANGED <<batch, entry, tracker, manager, store, driver, user, requests, history>>

BatchInit == /\ local \in BatchDisk /\ batch = NoBatch /\ entry = NoEntry /\ tracker = "free" /\ manager = << >> /\ store = NoStore /\ driver = << >>
             /\ user = NoUser /\ vanished = 0 /\ requests = 0 /\ history = NoHistory
BatchNext == \/ \E items \in BatchItems : vfs_batch_upload(items)
             \/ SourceChecked \/ CollectItem \/ WalkFolder \/ StartNext \/ SaveStarted \/ BatchReturns
             \/ \E u \in DOMAIN driver : Drive(u)
             \/ AskCancel \/ AskClear \/ RemoveListed \/ SaveRemoved \/ vfs_cancel_operation \/ vfs_delete_operation
             \/ vfs_list_uploads \/ ListInstalls
             \/ \E u \in DOMAIN manager : vfs_cancel_upload(u) \/ get_progress(u)
             \/ Vanish
BatchSpec == BatchInit /\ [][BatchNext]_batchVars

-----------------------------------------------------------------------------
(* Properties *)
BatchTypeOK ==
    /\ batch.pc \in {"idle", "source", "collect", "walk", "start", "save", "over"} /\ batch.next \in 1 .. Len(batch.queue) + 1
    /\ entry.status \in {"Pending", "InProgress", "Completed", "Failed", "Canceled"}
    /\ DOMAIN manager \subseteq Ids /\ DOMAIN driver \subseteq Ids
    /\ \A u \in DOMAIN driver : driver[u] \in {"begin", "read", "write", "verify", "report", "judge", "over"}

\* What the arguments ask for: for each item the files at or below its path.
Wanted(i) == IF i.type = "file" THEN {Queued(i.path, BasePath \o <<Name(i.path)>>)}
             ELSE {Queued(p, FolderKey(i.path, p)) : p \in {p \in DOMAIN local : Below(i.path, p) /\ local[p] = "file"}}

KnownItems == {i \in DOMAIN batch.items : batch.items[i].type \in {"file", "folder"}}
WalkedUndisturbed == batch.pc \in {"start", "save", "over"} /\ batch.todo = << >> /\ ~history.skipped /\ vanished = 0

\* The walk (546-588) finds every file at or below the chosen items and nothing
\* else, whatever the shape of the folders and each under the key its item gives
\* it, as long as every directory can be read and none disappears.
BatchFindsEveryFile ==
    WalkedUndisturbed => {batch.queue[n] : n \in Ids} = UNION {Wanted(batch.items[i]) : i \in KnownItems}

\* It queues each of them (546-588) exactly once per item that asks for it.
BatchFindsFilesOnce ==
    WalkedUndisturbed => Len(batch.queue) = FoldFunctionOnSet(LAMBDA a, b : a + b, 0,
                             [i \in KnownItems |-> Cardinality(Wanted(batch.items[i]))], KnownItems)

\* A file the user chose that could not be uploaded - it was gone, could not be
\* read, was refused, could not be verified or was dropped from the manager, by a
\* command or by a reload - is never passed over: its operation is Failed, unless a
\* cancellation came last.  A failed file below a chosen folder is another matter:
\* the operation lists the folder (399-406), the failure names the file (668-672),
\* no entry matches and the operation does not show it.
FailureShows ==
    entry.there => \A i \in DOMAIN entry.files :
        entry.files[i].path \in history.failed => entry.status \in {"Failed", "Canceled"}

\* When an operation is cancelled or everything is cleared after its batch was
\* started (1073-1088, 1179-1188), no upload of it stays behind in the manager,
\* whatever is listed later, and restarting it offers nothing to resume; only a list
\* of uploads under way meanwhile, or a file that holds more than the manager, may
\* bring uploads back.
CancelledLeavesNoUploads ==
    history.cancelled => DOMAIN manager = {} /\ (user.pc = "idle" /\ entry.there => ~CanResume)

\* A batch overlooks no file, shows the failure of every chosen file, and a cancelled one
\* leaves nothing.
BatchSafe == BatchTypeOK /\ BatchFindsEveryFile /\ FailureShows /\ CancelledLeavesNoUploads
=============================================================================
