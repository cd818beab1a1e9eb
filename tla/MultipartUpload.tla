--------------------------- MODULE MultipartUpload ---------------------------
(***************************************************************************)
(* vfs/multipart_upload.rs and the upload commands of commands/uploads.rs.  *)
(* The manager keeps a map of upload states behind an async RwLock and       *)
(* mirrors it to multipart_uploads.json.  A call is a task: it runs from one *)
(* await to the next, and other tasks run in between.  Nothing stops two     *)
(* tasks from driving the same upload.                                      *)
(*                                                                         *)
(* The local file of u is <<u, 1>> .. <<u, Size[u]>> and a part is one byte,  *)
(* so that an object in the bucket shows whose bytes it holds, and which.     *)
(* The bucket knows keys, not uploads: two files may go to the same key.      *)
(***************************************************************************)
EXTENDS Integers, Sequences, FiniteSets, Functions

CONSTANTS Upload,     \* upload ids
          Size,       \* Size[u]: total_size, in parts
          Key,        \* keys of the bucket
          KeyOf,      \* KeyOf[u]: the destination key of the upload
          Task,       \* task slots: concurrent calls of the manager
          SaveEvery,  \* the read loop saves every SaveEvery parts (5 in the code)
          ErrorKind,  \* errors the storage may answer a write with
          MaxCrash,   \* bound on restarts
          None

AllErrors == {"InvalidAccessKeyId", "SignatureDoesNotMatch", "PermissionDenied403",
              "AccessDenied", "Transient"}

ASSUME SizeAssumption  == Size \in [Upload -> Nat \ {0}]
ASSUME KeyAssumption   == KeyOf \in [Upload -> Key]
ASSUME ErrorAssumption == ErrorKind \subseteq AllErrors /\ None \notin AllErrors
ASSUME BoundAssumption == SaveEvery \in Nat \ {0} /\ MaxCrash \in Nat
ASSUME NoneAssumption  == None # << >>

VARIABLES uploads,  \* the map in memory
          disk,     \* multipart_uploads.json, or None when there is no file
          task,     \* what each task does next
          object,   \* the bucket: what was last written under each key
          used,     \* history: ids that have been given to an upload
          crashes

vars == <<uploads, disk, task, object, used, crashes>>
hist == <<used, crashes>>

Status == {"Pending", "InProgress", "Completed", "Failed", "Paused"}
State  == [status : Status, bytes : Nat, error : ErrorKind \cup {None}]
IsMap(m) == DOMAIN m \subseteq Upload /\ m \in [DOMAIN m -> State]

PC == {"idle", "begin", "point", "open", "read", "write", "finish", "fail",
       "verify", "remove", "install"}

\* saving: the next thing the task does is save_states.
IdleTask == [pc |-> "idle", u |-> None, resume |-> 0, read |-> 0, error |-> None,
             saving |-> FALSE, snap |-> None]

-----------------------------------------------------------------------------
(* Error texts.  upload_chunks classifies the text of the storage's error    *)
(* and stores a friendlier one; resume_upload classifies the stored text.    *)

\* Does the text stored for e still hold a marker resume_upload looks for?
\* Only the raw text of a signature error and "Access denied ..." do.
StoredTextIsPermanent(e) == e \in {"SignatureDoesNotMatch", "AccessDenied"}

-----------------------------------------------------------------------------
Init == /\ uploads = << >>
        /\ disk = None
        /\ task = [t \in Task |-> IdleTask]
        /\ object = [k \in Key |-> None]
        /\ used = {}
        /\ crashes = 0

Ready(t, pc) == task[t].pc = pc /\ ~task[t].saving

\* The task goes on at pc; with saving it first saves the states.
Goto(t, pc, saving) == task' = [task EXCEPT ![t].pc = pc, ![t].saving = saving]

\* A call that returns after it saved, or at once.
SaveAndReturn(t) == task' = [task EXCEPT ![t] = [IdleTask EXCEPT !.saving = TRUE]]
Return(t)        == task' = [task EXCEPT ![t] = IdleTask]

Call(t) == task[t].pc = "idle" /\ ~task[t].saving

SaveStates(t) ==
    /\ task[t].saving
    /\ disk' = uploads
    /\ task' = [task EXCEPT ![t].saving = FALSE]
    /\ UNCHANGED <<uploads, object, hist>>

-----------------------------------------------------------------------------
(* Calls of the manager. *)

\* start_upload_with_operation_id with a new UUID, after which vfs_batch_upload
\* spawns upload_chunks.
StartUpload(t, u) ==
    /\ Call(t) /\ u \notin used
    /\ used' = used \cup {u}
    /\ uploads' = [v \in DOMAIN uploads \cup {u} |->
                     IF v = u THEN [status |-> "Pending", bytes |-> 0, error |-> None]
                     ELSE uploads[v]]
    /\ task' = [task EXCEPT ![t] = [IdleTask EXCEPT !.pc = "begin", !.u = u, !.saving = TRUE]]
    /\ UNCHANGED <<disk, object, crashes>>

MayResume(s) == /\ s.status # "Completed"
                /\ ~(s.status = "Failed" /\ s.error # None /\ StoredTextIsPermanent(s.error))

\* resume_upload: it does not ask whether a task is already at work on u.
ResumeUpload(t, u) ==
    /\ Call(t) /\ u \in DOMAIN uploads /\ MayResume(uploads[u])
    /\ uploads' = [uploads EXCEPT ![u].status = "InProgress", ![u].error = None]
    /\ task' = [task EXCEPT ![t] = [IdleTask EXCEPT !.pc = "begin", !.u = u, !.saving = TRUE]]
    /\ UNCHANGED <<disk, object, hist>>

PauseUpload(t, u) ==
    /\ Call(t) /\ u \in DOMAIN uploads
    /\ uploads' = [uploads EXCEPT ![u].status = "Paused"]
    /\ SaveAndReturn(t)
    /\ UNCHANGED <<disk, object, hist>>

\* cancel_upload deletes the object under the upload's key, whoever wrote it,
\* then drops the entry.
CancelUpload(t, u) ==
    /\ Call(t) /\ u \in DOMAIN uploads
    /\ object' = [object EXCEPT ![KeyOf[u]] = None]
    /\ task' = [task EXCEPT ![t] = [IdleTask EXCEPT !.pc = "remove", !.u = u]]
    /\ UNCHANGED <<uploads, disk, hist>>

CancelRemove(t) ==
    /\ Ready(t, "remove")
    /\ uploads' = Restrict(uploads, DOMAIN uploads \ {task[t].u})
    /\ SaveAndReturn(t)
    /\ UNCHANGED <<disk, object, hist>>

\* remove_upload, also what vfs_cancel_operation does with an upload.
RemoveUpload(t, u) ==
    /\ Call(t) /\ u \in DOMAIN uploads
    /\ uploads' = Restrict(uploads, DOMAIN uploads \ {u})
    /\ SaveAndReturn(t)
    /\ UNCHANGED <<disk, object, hist>>

\* cleanup_old_uploads: some finished uploads are past the cutoff.
CleanupOldUploads(t, old) ==
    /\ Call(t) /\ old # {}
    /\ \A u \in old : uploads[u].status \in {"Completed", "Failed"}
    /\ uploads' = Restrict(uploads, DOMAIN uploads \ old)
    /\ SaveAndReturn(t)
    /\ UNCHANGED <<disk, object, hist>>

\* vfs_list_uploads calls load_states: the file is read first ...
LoadStates(t) ==
    /\ Call(t) /\ disk # None
    /\ task' = [task EXCEPT ![t] = [IdleTask EXCEPT !.pc = "install", !.snap = disk]]
    /\ UNCHANGED <<uploads, disk, object, hist>>

\* ... and then replaces the map in memory.
InstallStates(t) ==
    /\ Ready(t, "install")
    /\ uploads' = task[t].snap
    /\ Return(t)
    /\ UNCHANGED <<disk, object, hist>>

-----------------------------------------------------------------------------
(* upload_chunks, one action per stretch between awaits. *)

Begin(t) ==
    LET u == task[t].u IN
    /\ Ready(t, "begin")
    /\ IF u \in DOMAIN uploads /\ uploads[u].status = "Pending"
         THEN uploads' = [uploads EXCEPT ![u].status = "InProgress"] ELSE UNCHANGED uploads
    /\ Goto(t, "point", TRUE)
    /\ UNCHANGED <<disk, object, hist>>

\* Mutant of ResumePoint: a fully read upload resumes at its end.
ResumePointAtEnd(u) == IF uploads[u].bytes <= Size[u] THEN uploads[u].bytes ELSE 0

ResumePoint(u) ==
    IF uploads[u].bytes > 0 /\ uploads[u].bytes < Size[u] THEN uploads[u].bytes ELSE 0

\* The upload is gone: the task ends with an error.
UploadNotFound(t) ==
    /\ Ready(t, "point") \/ Ready(t, "open") \/ Ready(t, "verify")
    /\ task[t].u \notin DOMAIN uploads
    /\ Return(t)
    /\ UNCHANGED <<uploads, disk, object, hist>>

DetermineResumePoint(t) ==
    /\ Ready(t, "point") /\ task[t].u \in DOMAIN uploads
    /\ task' = [task EXCEPT ![t].pc = "open", ![t].resume = ResumePoint(task[t].u)]
    /\ UNCHANGED <<uploads, disk, object, hist>>

\* Mutant of StoreState: progress is written back with insert.
StoreStateInserts(u, new) ==
    uploads' = [v \in DOMAIN uploads \cup {u} |-> IF v = u THEN new ELSE uploads[v]]

\* The updates of upload_chunks use get_mut: nothing happens when u is gone.
StoreState(u, new) == uploads' = IF u \in DOMAIN uploads THEN [uploads EXCEPT ![u] = new]
                                 ELSE uploads

Current(u) == IF u \in DOMAIN uploads THEN uploads[u]
              ELSE [status |-> "InProgress", bytes |-> 0, error |-> None]

\* The local file is open and positioned at the resume point.
OpenFile(t) ==
    LET u == task[t].u IN
    /\ Ready(t, "open") /\ u \in DOMAIN uploads
    /\ uploads' = [uploads EXCEPT ![u].bytes = task[t].resume,
                                  ![u].status = IF @ = "Pending" THEN "InProgress" ELSE @]
    /\ Goto(t, "read", TRUE)
    /\ UNCHANGED <<disk, object, hist>>

\* File::open, seek or read fails: the error is returned and the state stays.
LocalFileFails(t) ==
    /\ Ready(t, "open") \/ Ready(t, "read")
    /\ Return(t)
    /\ UNCHANGED <<uploads, disk, object, hist>>

\* One part is read; the state is looked at only to report progress.
ReadChunk(t) ==
    LET u == task[t].u
        n == task[t].read + 1
    IN  /\ Ready(t, "read") /\ task[t].resume + n <= Size[u]
        /\ StoreState(u, [Current(u) EXCEPT !.bytes = task[t].resume + n])
        /\ task' = [task EXCEPT ![t].read = n, ![t].saving = (n % SaveEvery = 0)]
        /\ UNCHANGED <<disk, object, hist>>

\* Mutant of EndOfFile: the end is looked for without the resume offset.
EndOfFileIgnoringResume(t) ==
    LET u == task[t].u IN
    /\ Ready(t, "read") /\ task[t].read = Size[u]
    /\ StoreState(u, [Current(u) EXCEPT !.bytes = (Size[u] * 95) \div 100])
    /\ Goto(t, "write", TRUE)
    /\ UNCHANGED <<disk, object, hist>>

\* End of file: progress is set to 95% before the write.
EndOfFile(t) ==
    LET u == task[t].u IN
    /\ Ready(t, "read") /\ task[t].resume + task[t].read = Size[u]
    /\ StoreState(u, [Current(u) EXCEPT !.bytes = (Size[u] * 95) \div 100])
    /\ Goto(t, "write", TRUE)
    /\ UNCHANGED <<disk, object, hist>>

\* The part of the file a task that resumed at r has read.
FileFrom(u, r) == [i \in 1 .. Size[u] - r |-> <<u, r + i>>]

\* operator.write(key, file_data) replaces the whole object under the key.
WriteObject(t) ==
    /\ Ready(t, "write")
    /\ object' = [object EXCEPT ![KeyOf[task[t].u]] = FileFrom(task[t].u, task[t].resume)]
    /\ Goto(t, "finish", FALSE)
    /\ UNCHANGED <<uploads, disk, hist>>

WriteFails(t, e) ==
    /\ Ready(t, "write")
    /\ task' = [task EXCEPT ![t].pc = "fail", ![t].error = e]
    /\ UNCHANGED <<uploads, disk, object, hist>>

MarkCompleted(t) ==
    LET u == task[t].u IN
    /\ Ready(t, "finish")
    /\ StoreState(u, [Current(u) EXCEPT !.bytes = Size[u], !.status = "Completed"])
    /\ Goto(t, "verify", TRUE)
    /\ UNCHANGED <<disk, object, hist>>

MarkFailed(t) ==
    LET u == task[t].u IN
    /\ Ready(t, "fail")
    /\ StoreState(u, [Current(u) EXCEPT !.status = "Failed", !.error = task[t].error])
    /\ SaveAndReturn(t)
    /\ UNCHANGED <<disk, object, hist>>

\* Mutant of VerifiedSize: any object under the key will do.
VerifiedSizeAny(u) == object[KeyOf[u]] # None

\* operator.stat(key): only the size is compared, and that of whatever lies there.
VerifiedSize(u) == object[KeyOf[u]] # None /\ Len(object[KeyOf[u]]) = Size[u]

\* The verification: the call returns Ok, or an error and nothing else.
VerifyOk(t) ==
    /\ Ready(t, "verify") /\ task[t].u \in DOMAIN uploads
    /\ VerifiedSize(task[t].u)
    /\ Return(t)
    /\ UNCHANGED <<uploads, disk, object, hist>>

VerifyFails(t) ==
    /\ Ready(t, "verify") /\ task[t].u \in DOMAIN uploads
    /\ ~VerifiedSize(task[t].u)
    /\ Return(t)
    /\ UNCHANGED <<uploads, disk, object, hist>>

\* The process dies; the new manager starts with an empty map.
Restart ==
    /\ crashes < MaxCrash
    /\ crashes' = crashes + 1
    /\ uploads' = << >>
    /\ task' = [t \in Task |-> IdleTask]
    /\ UNCHANGED <<disk, object, used>>

-----------------------------------------------------------------------------
\* What a started task does while the storage and the local file answer.
Proceed(t) ==
    \/ SaveStates(t) \/ CancelRemove(t) \/ InstallStates(t)
    \/ Begin(t) \/ UploadNotFound(t) \/ DetermineResumePoint(t) \/ OpenFile(t)
    \/ ReadChunk(t) \/ EndOfFile(t) \/ WriteObject(t)
    \/ MarkCompleted(t) \/ MarkFailed(t) \/ VerifyOk(t) \/ VerifyFails(t)

Manage(t) ==
    \/ \E u \in Upload : \/ StartUpload(t, u) \/ ResumeUpload(t, u) \/ PauseUpload(t, u)
                         \/ CancelUpload(t, u) \/ RemoveUpload(t, u)
    \/ \E old \in SUBSET DOMAIN uploads : CleanupOldUploads(t, old)
    \/ LoadStates(t)

Next == \/ \E t \in Task : \/ Manage(t) \/ Proceed(t) \/ LocalFileFails(t)
                           \/ \E e \in ErrorKind : WriteFails(t, e)
        \/ Restart

Spec == Init /\ [][Next]_vars

\* The runtime keeps polling every task it has started; errors need not occur.
FairSpec == Spec /\ \A t \in Task : WF_vars(Proceed(t))

-----------------------------------------------------------------------------
(* Type invariant. *)
TypeOK ==
    /\ IsMap(uploads)
    /\ disk # None => IsMap(disk)
    /\ \A t \in Task : /\ task[t].pc \in PC
                       /\ task[t].u \in Upload \cup {None}
                       /\ task[t].resume \in Nat /\ task[t].read \in Nat
                       /\ task[t].error \in ErrorKind \cup {None}
                       /\ task[t].saving \in BOOLEAN
                       /\ task[t].snap # None => IsMap(task[t].snap)
    /\ \A k \in Key : object[k] # None => object[k] \in Seq(Upload \X Nat)
    /\ used \subseteq Upload
    /\ crashes \in 0 .. MaxCrash

Whole(u) == FileFrom(u, 0)

\* Another upload to the same key left as many bytes there as u has.
Overwritten(u) ==
    \E v \in Upload \ {u} : \E r \in 0 .. Size[v] - 1 :
        KeyOf[v] = KeyOf[u] /\ Size[v] - r = Size[u] /\ object[KeyOf[u]] = FileFrom(v, r)

WholeOrOverwritten(u) == object[KeyOf[u]] = Whole(u) \/ Overwritten(u)

(* A call that returns Ok has seen the whole file in the bucket (487-509),   *)
(* whatever offset it resumed from and whichever tasks ran beside it.  Only   *)
(* the size is compared: of two uploads to one key, the one written first may *)
(* be confirmed by the other's bytes, when there are as many of them.         *)
ConfirmedIsWhole ==
    [][\A t \in Task : VerifyOk(t) => WholeOrOverwritten(task[t].u)]_vars

(* No task ever replaces an object by an empty one: the resume point         *)
(* (262-266) stays below the size even when all parts had been read before   *)
(* a failure, a pause or a crash.                                           *)
NeverEmptyObject == \A k \in Key : object[k] # << >>

\* The type invariant, with the shape of the objects.
BucketSound == TypeOK /\ NeverEmptyObject

(* A task that outlives its upload (canceled or removed while it was         *)
(* waiting) does not put it back: only start_upload and load_states add one. *)
TasksNeverResurrect ==
    [][\A u \in DOMAIN uploads' \ DOMAIN uploads :
         \/ \E t \in Task : task[t].pc = "install" /\ task'[t].pc = "idle"
         \/ uploads'[u].status = "Pending" /\ u \notin used]_vars

(* Every call ends while storage and local file answer: no task waits for    *)
(* another one, and a resumed read loop meets the end of the file.           *)
TasksEnd == \A t \in Task : task[t].pc # "idle" ~> task[t].pc = "idle"

-----------------------------------------------------------------------------
(* What comments of the code say and the code does not do.                   *)

(* "Resume from failure" (5), "Verify upload completed successfully" (487):  *)
(* an upload that is Completed has the whole file in the bucket.             *)
CompletedIsWhole ==
    \A u \in DOMAIN uploads :
        uploads[u].status = "Completed" /\ (\A t \in Task : task[t].pc # "remove")
            => object[KeyOf[u]] = Whole(u)
=============================================================================
