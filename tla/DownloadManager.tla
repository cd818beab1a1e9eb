--------------------------- MODULE DownloadManager ---------------------------
(***************************************************************************)
(* vfs/download_manager.rs with the commands that drive it.  The map of      *)
(* download states is mirrored to downloads.json; the bytes themselves go    *)
(* straight to the destination file, whose LENGTH is the resume point.       *)
(* Tasks run from one await to the next, and nothing stops two of them from  *)
(* working on one download.                                                 *)
(*                                                                         *)
(* A chunk is one byte.  Byte i of the remote file of d is the number i, so  *)
(* a local file shows what it was put together from; Foreign stands for a    *)
(* byte that was at the destination before the download started.            *)
(***************************************************************************)
EXTENDS Integers, Sequences, FiniteSets, Functions

CONSTANTS Download,   \* download ids, each with a destination of its own
          Size,       \* Size[d]: total_size, in chunks
          Existing,   \* lengths a destination file may have beforehand
          Task,       \* task slots: concurrent calls of the manager
          SaveEvery,  \* states are saved every SaveEvery chunks (5 in the code)
          MaxCrash,   \* bound on restarts
          None

ASSUME SizeAssumption  == Size \in [Download -> Nat] /\ Existing \subseteq Nat
ASSUME BoundAssumption == SaveEvery \in Nat \ {0} /\ MaxCrash \in Nat
\* None is neither an id nor the beginning of a remote file.
ASSUME NoneAssumption  == /\ None \notin Download
                          /\ \A d \in Download : \A n \in 0 .. Size[d] : None # [i \in 1 .. n |-> i]

Foreign == 0

VARIABLES downloads,  \* the map in memory
          disk,       \* downloads.json, or None when there is no file
          local,      \* the destination files, None when missing
          task,       \* what each task does next
          used,       \* history: ids that have been given to a download
          crashes

vars == <<downloads, disk, local, task, used, crashes>>

\* No code assigns Failed.
Status == {"Pending", "InProgress", "Completed", "Paused"}
State  == [status : Status, bytes : Nat]
IsMap(m) == DOMAIN m \subseteq Download /\ m \in [DOMAIN m -> State]

PC == {"idle", "install", "insert", "begin", "mark", "open", "check", "write",
       "progress", "finish"}

\* append: the file was opened for append; saving: save_states comes next.
IdleTask == [pc |-> "idle", d |-> None, offset |-> 0, append |-> FALSE,
             saving |-> FALSE, snap |-> None]

-----------------------------------------------------------------------------
Init == /\ downloads = << >>
        /\ disk = None
        /\ local \in [Download -> {None} \cup {[i \in 1 .. n |-> Foreign] : n \in Existing}]
        /\ task = [t \in Task |-> IdleTask]
        /\ used = {}
        /\ crashes = 0

Ready(t, pc) == task[t].pc = pc /\ ~task[t].saving
Goto(t, pc, saving) == task' = [task EXCEPT ![t].pc = pc, ![t].saving = saving]
SaveAndReturn(t) == task' = [task EXCEPT ![t] = [IdleTask EXCEPT !.saving = TRUE]]
Return(t)        == task' = [task EXCEPT ![t] = IdleTask]

Length(d) == IF local[d] = None THEN 0 ELSE Len(local[d])

SaveStates(t) ==
    /\ task[t].saving
    /\ disk' = downloads
    /\ task' = [task EXCEPT ![t].saving = FALSE]
    /\ UNCHANGED <<downloads, local, used, crashes>>

-----------------------------------------------------------------------------
(* Calls of the commands. *)

\* load_states reads the file before it takes the lock; without a file it
\* does nothing.  For a download d the caller goes on with start_download.
LoadStates(t, d) ==
    /\ Ready(t, "idle")
    /\ disk # None \/ d # None
    /\ task' = [task EXCEPT ![t] =
                  [IdleTask EXCEPT !.pc = IF disk = None THEN "insert" ELSE "install",
                                   !.d = d, !.snap = disk]]
    /\ UNCHANGED <<downloads, disk, local, crashes>>

InstallStates(t) ==
    /\ Ready(t, "install")
    /\ downloads' = task[t].snap
    /\ IF task[t].d = None THEN Return(t)
       ELSE task' = [task EXCEPT ![t].pc = "insert", ![t].snap = None]
    /\ UNCHANGED <<disk, local, used, crashes>>

\* vfs_list_downloads
ListDownloads(t) == LoadStates(t, None) /\ UNCHANGED used

\* vfs_download_file: load_states, then start_download with a new UUID.
StartDownload(t, d) == d \notin used /\ used' = used \cup {d} /\ LoadStates(t, d)

\* start_download's insert; the spawned task goes on with download_chunks.
InsertDownload(t) ==
    LET d == task[t].d IN
    /\ Ready(t, "insert")
    /\ downloads' = [e \in DOMAIN downloads \cup {d} |->
                       IF e = d THEN [status |-> "Pending", bytes |-> 0] ELSE downloads[e]]
    /\ Goto(t, "begin", TRUE)
    /\ UNCHANGED <<disk, local, used, crashes>>

\* resume_download does not ask whether a task still works on d.
ResumeDownload(t, d) ==
    /\ Ready(t, "idle") /\ d \in DOMAIN downloads
    /\ downloads[d].status # "Completed"
    /\ downloads' = [downloads EXCEPT ![d].status = "InProgress"]
    /\ task' = [task EXCEPT ![t] = [IdleTask EXCEPT !.pc = "begin", !.d = d, !.saving = TRUE]]
    /\ UNCHANGED <<disk, local, used, crashes>>

PauseDownload(t, d) ==
    /\ Ready(t, "idle") /\ d \in DOMAIN downloads
    /\ downloads' = [downloads EXCEPT ![d].status = "Paused"]
    /\ SaveAndReturn(t)
    /\ UNCHANGED <<disk, local, used, crashes>>

\* cancel_download and remove_download: the destination file stays.
CancelDownload(t, d) ==
    /\ Ready(t, "idle") /\ d \in DOMAIN downloads
    /\ downloads' = Restrict(downloads, DOMAIN downloads \ {d})
    /\ SaveAndReturn(t)
    /\ UNCHANGED <<disk, local, used, crashes>>

-----------------------------------------------------------------------------
(* download_chunks, one action per stretch between awaits. *)

\* Mutant of ResumePoint: the resume point is what the state file counted.
ResumePointFromState(d) == downloads[d].bytes

\* The length of the destination file, whatever the state says.
ResumePoint(d) == Length(d)

Begin(t) ==
    LET d == task[t].d IN
    /\ Ready(t, "begin")
    /\ IF d \in DOMAIN downloads
         THEN task' = [task EXCEPT ![t].pc = "mark", ![t].offset = ResumePoint(d)]
         ELSE Return(t)
    /\ UNCHANGED <<downloads, disk, local, used, crashes>>

\* get_mut: nothing happens when d is gone.
StoreState(d, new) ==
    downloads' = IF d \in DOMAIN downloads THEN [downloads EXCEPT ![d] = new] ELSE downloads

MarkInProgress(t) ==
    /\ Ready(t, "mark")
    /\ StoreState(task[t].d, [status |-> "InProgress", bytes |-> task[t].offset])
    /\ Goto(t, "open", TRUE)
    /\ UNCHANGED <<disk, local, used, crashes>>

\* Append mode from a resume point, File::create (truncating) from zero.
OpenDestination(t) ==
    LET d == task[t].d IN
    /\ Ready(t, "open")
    /\ local' = [local EXCEPT ![d] = IF task[t].offset > 0 /\ @ # None THEN @ ELSE << >>]
    /\ task' = [task EXCEPT ![t].pc = "check", ![t].append = (task[t].offset > 0)]
    /\ UNCHANGED <<downloads, disk, used, crashes>>

Stopped(d) == d \in DOMAIN downloads /\ downloads[d].status = "Paused"

\* Mutant of CheckState: a paused download stops by waiting for its resume.
CheckStateWaits(t) ==
    /\ Ready(t, "check") /\ ~Stopped(task[t].d)
    /\ IF task[t].offset >= Size[task[t].d] THEN Goto(t, "finish", FALSE)
       ELSE Goto(t, "write", FALSE)
    /\ UNCHANGED <<downloads, disk, local, used, crashes>>

\* Mutant of CheckState: the loop ends one chunk early.
CheckStateOneShort(t) ==
    LET d == task[t].d IN
    /\ Ready(t, "check")
    /\ IF task[t].offset + 1 >= Size[d] THEN Goto(t, "finish", FALSE)
       ELSE IF Stopped(d) THEN Return(t) ELSE Goto(t, "write", FALSE)
    /\ UNCHANGED <<downloads, disk, local, used, crashes>>

\* Head of the loop: an unknown download is not a reason to stop.
CheckState(t) ==
    LET d == task[t].d IN
    /\ Ready(t, "check")
    /\ IF task[t].offset >= Size[d] THEN Goto(t, "finish", FALSE)
       ELSE IF Stopped(d) THEN Return(t) ELSE Goto(t, "write", FALSE)
    /\ UNCHANGED <<downloads, disk, local, used, crashes>>

\* write_all at the end of the file, or at the task's own position.
Written(content, n, append) ==
    LET at == IF append THEN Len(content) + 1 ELSE n
    IN  [i \in 1 .. (IF at > Len(content) THEN at ELSE Len(content)) |->
            IF i = at THEN n ELSE IF i <= Len(content) THEN content[i] ELSE Foreign]

\* The range [offset, offset + 1) of the remote file is read and written.
WriteChunk(t) ==
    LET d == task[t].d
        n == task[t].offset + 1
    IN  /\ Ready(t, "write")
        /\ local' = [local EXCEPT ![d] = Written(@, n, task[t].append)]
        /\ task' = [task EXCEPT ![t].pc = "progress", ![t].offset = n]
        /\ UNCHANGED <<downloads, disk, used, crashes>>

\* The remote read or the local file fails: the error is returned and the
\* state stays as it is.
TransferFails(t) ==
    /\ Ready(t, "open") \/ Ready(t, "write")
    /\ Return(t)
    /\ UNCHANGED <<downloads, disk, local, used, crashes>>

UpdateProgress(t) ==
    LET d == task[t].d IN
    /\ Ready(t, "progress")
    /\ downloads' = IF d \in DOMAIN downloads
                      THEN [downloads EXCEPT ![d].bytes = task[t].offset] ELSE downloads
    \* chunk_number is one ahead of the chunk that was written
    /\ Goto(t, "check", (task[t].offset + 1) % SaveEvery = 0)
    /\ UNCHANGED <<disk, local, used, crashes>>

MarkCompleted(t) ==
    /\ Ready(t, "finish")
    /\ StoreState(task[t].d, [status |-> "Completed", bytes |-> Size[task[t].d]])
    /\ SaveAndReturn(t)
    /\ UNCHANGED <<disk, local, used, crashes>>

\* The process dies; the new manager starts with an empty map.
Restart ==
    /\ crashes < MaxCrash
    /\ crashes' = crashes + 1
    /\ downloads' = << >>
    /\ task' = [t \in Task |-> IdleTask]
    /\ UNCHANGED <<disk, local, used>>

-----------------------------------------------------------------------------
Proceed(t) ==
    \/ SaveStates(t) \/ InstallStates(t) \/ InsertDownload(t)
    \/ Begin(t) \/ MarkInProgress(t) \/ OpenDestination(t) \/ CheckState(t)
    \/ WriteChunk(t) \/ UpdateProgress(t) \/ MarkCompleted(t)

Command(t) ==
    \/ ListDownloads(t)
    \/ \E d \in Download : \/ StartDownload(t, d) \/ ResumeDownload(t, d)
                           \/ PauseDownload(t, d) \/ CancelDownload(t, d)

Next == \/ \E t \in Task : Command(t) \/ Proceed(t) \/ TransferFails(t)
        \/ Restart

Spec == Init /\ [][Next]_vars

\* Callers that resume a download only when no task works on it any more.
OneDriver  == \A d \in Download : \A t, u \in Task : task[t].d = d /\ task[u].d = d => t = u
PoliteSpec == Init /\ [][Next /\ OneDriver']_vars

\* The runtime keeps polling every task it has started; errors need not occur.
FairSpec == Spec /\ \A t \in Task : WF_vars(Proceed(t))

-----------------------------------------------------------------------------
(* Type invariant. *)
TypeOK ==
    /\ IsMap(downloads)
    /\ disk # None => IsMap(disk)
    /\ \A d \in Download : local[d] # None => local[d] \in Seq(0 .. Size[d])
    /\ \A t \in Task : /\ task[t].pc \in PC
                       /\ task[t].d \in Download \cup {None}
                       /\ task[t].offset \in Nat
                       /\ task[t].append \in BOOLEAN /\ task[t].saving \in BOOLEAN
                       /\ task[t].snap # None => IsMap(task[t].snap)
    /\ used \subseteq Download
    /\ crashes \in 0 .. MaxCrash

Remote(d) == [i \in 1 .. Size[d] |-> i]

(* "Resume from failure" (5): through failures, pauses, cancellations and    *)
(* restarts the destination file is always the beginning of the remote file. *)
LocalIsPrefix ==
    \A d \in Download :
        local[d] # None => Len(local[d]) <= Size[d] /\ local[d] = SubSeq(Remote(d), 1, Len(local[d]))

\* The type invariant and the shape of the destination files.
FilesSound == TypeOK /\ LocalIsPrefix

\* What memory or the state file a restarted process reads call Completed.
Completed(m) == {d \in DOMAIN m : m[d].status = "Completed"}
T == INSTANCE Transfer WITH Item <- Download,
                            Whole <- [d \in Download |-> Remote(d)],
                            copy <- [d \in Download |-> IF local[d] = None THEN << >> ELSE local[d]],
                            reported <- Completed(downloads) \cup (IF disk = None THEN {} ELSE Completed(disk))

(* Seen through the destination file and the Completed states, in memory and  *)
(* in downloads.json, the manager is a plain transfer: whatever is paused,    *)
(* canceled, failed, reloaded or cut off by a restart, the file grows by the  *)
(* next chunk of the remote file and by nothing else, and only a whole file   *)
(* is ever called Completed (download_manager.rs 195-337).                    *)
ImplementsTransfer == T!TransferSpec

(* Every call ends while storage and local file answer: a paused or canceled *)
(* download does not keep its task.                                         *)
TasksEnd == \A t \in Task : task[t].pc # "idle" ~> task[t].pc = "idle"
=============================================================================
