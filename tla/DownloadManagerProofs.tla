----------------------- MODULE DownloadManagerProofs -----------------------
(***************************************************************************)
(* DownloadManager implements Transfer: for any number of downloads of any   *)
(* size, tasks and restarts, when nothing was at the destinations before and  *)
(* one task at a time drives a download.                                     *)
(***************************************************************************)
EXTENDS DownloadManager, TLAPS

(* The first n chunks of a remote file. *)
FirstChunks(n) == [i \in 1 .. n |-> i]

StateMap == UNION {[D -> State] : D \in SUBSET Download}

TaskState == [pc : PC, d : Download \cup {None}, offset : Nat, append : BOOLEAN,
              saving : BOOLEAN, snap : StateMap \cup {None}]

(* What a map calls Completed is whole at its destination in l.               *)
MapWhole(m, l) == \A d \in DOMAIN m : m[d].status = "Completed" => l[d] = FirstChunks(Size[d])

LengthIn(l, d) == IF l[d] = None THEN 0 ELSE Len(l[d])

(* Where a task stands with the destination file: from download_chunks'       *)
(* look at the length to the end of its loop its offset is that length.       *)
TaskSound(r, l) ==
    /\ r.pc \notin {"idle", "install"} => r.d \in Download
    /\ r.pc = "install" => r.snap \in StateMap /\ MapWhole(r.snap, l)
    /\ r.pc \in {"mark", "open"} => r.offset = LengthIn(l, r.d)
    /\ r.pc \in {"check", "write", "progress", "finish"} => l[r.d] # None /\ r.offset = Len(l[r.d])
    /\ r.pc = "write" => r.offset < Size[r.d]
    /\ r.pc = "finish" => r.offset = Size[r.d]

FilePrefix(l, d) == l[d] # None => \E n \in 0 .. Size[d] : l[d] = FirstChunks(n)

(* The inductive invariant, in parts: the maps, the tasks, the files.         *)
MapsOK == /\ downloads \in StateMap /\ MapWhole(downloads, local)
          /\ disk # None => disk \in StateMap /\ MapWhole(disk, local)
          /\ used \subseteq Download
          /\ crashes \in 0 .. MaxCrash
TasksOK == /\ task \in [Task -> TaskState]
           /\ \A t \in Task : TaskSound(task[t], local)
           /\ OneDriver
LocalOK(l) == DOMAIN l = Download /\ l = [d \in Download |-> l[d]] /\ \A d \in Download : FilePrefix(l, d)
IInv == MapsOK /\ TasksOK /\ LocalOK(local)

-----------------------------------------------------------------------------
(* Maps of download states. *)
LEMMA MapsAreMaps == \A m : IsMap(m) <=> m \in StateMap
<1>1. ASSUME NEW m, IsMap(m) PROVE m \in StateMap
  BY <1>1 DEF IsMap, StateMap
<1>2. ASSUME NEW m, m \in StateMap PROVE IsMap(m)
  BY <1>2 DEF IsMap, StateMap
<1> QED BY <1>1, <1>2

(* Storing a state that is not Completed, or of a whole file, keeps what is    *)
(* Completed whole.                                                          *)
LEMMA MapUpdate ==
    ASSUME NEW m \in StateMap, NEW l, MapWhole(m, l), NEW d \in Download, NEW s \in State,
           s.status = "Completed" => l[d] = FirstChunks(Size[d])
    PROVE  /\ LET n == [e \in DOMAIN m \cup {d} |-> IF e = d THEN s ELSE m[e]]
              IN  n \in StateMap /\ MapWhole(n, l)
           /\ d \in DOMAIN m => [m EXCEPT ![d] = s] \in StateMap /\ MapWhole([m EXCEPT ![d] = s], l)
<1> DEFINE n == [e \in DOMAIN m \cup {d} |-> IF e = d THEN s ELSE m[e]]
           x == [m EXCEPT ![d] = s]
<1>1. PICK D \in SUBSET Download : m \in [D -> State]
  BY DEF StateMap
<1>2. n \in [D \cup {d} -> State] /\ x \in [D -> State]
  BY <1>1
<1>3. n \in StateMap /\ x \in StateMap
  BY <1>2 DEF StateMap
<1>4. MapWhole(n, l)
  BY <1>1 DEF MapWhole
<1>5. d \in DOMAIN m => MapWhole(x, l)
  BY <1>1 DEF MapWhole
<1> QED BY <1>3, <1>4, <1>5

LEMMA MapRestrict ==
    ASSUME NEW m \in StateMap, NEW l, MapWhole(m, l), NEW S
    PROVE  Restrict(m, DOMAIN m \ S) \in StateMap /\ MapWhole(Restrict(m, DOMAIN m \ S), l)
<1>1. PICK D \in SUBSET Download : m \in [D -> State]
  BY DEF StateMap
<1>2. Restrict(m, DOMAIN m \ S) \in [D \ S -> State]
  BY <1>1 DEF Restrict
<1>3. MapWhole(Restrict(m, DOMAIN m \ S), l)
  BY <1>1 DEF Restrict, MapWhole
<1> QED BY <1>2, <1>3 DEF StateMap

LEMMA MapEntry ==
    ASSUME NEW m \in StateMap, NEW d \in DOMAIN m
    PROVE  d \in Download /\ m[d] \in State
BY DEF StateMap

-----------------------------------------------------------------------------
(* Prefixes. *)
LEMMA ChunksTyped ==
    ASSUME NEW n \in Nat
    PROVE  FirstChunks(n) \in Seq(Nat) /\ Len(FirstChunks(n)) = n
<1>1. FirstChunks(n) \in [1 .. n -> Nat]
  BY DEF FirstChunks
<1> QED BY <1>1

(* write_all of the next chunk, in append mode or at the task's position,     *)
(* when that is the end of the file.                                         *)
LEMMA WrittenNext ==
    ASSUME NEW n \in Nat, NEW append \in BOOLEAN
    PROVE  /\ Written(FirstChunks(n), n + 1, append) = FirstChunks(n + 1)
           /\ Append(FirstChunks(n), n + 1) = FirstChunks(n + 1)
<1> DEFINE c == FirstChunks(n)
<1>1. Len(c) = n /\ c \in Seq(Nat)
  BY ChunksTyped
<1>2. Written(c, n + 1, append)
        = [i \in 1 .. n + 1 |-> IF i = n + 1 THEN n + 1 ELSE IF i <= n THEN c[i] ELSE Foreign]
  <2> HIDE DEF c
  <2> QED BY <1>1 DEF Written
<1>3. \A i \in 1 .. n + 1 : (IF i = n + 1 THEN n + 1 ELSE IF i <= n THEN c[i] ELSE Foreign) = i
  BY DEF FirstChunks
<1>4. Written(c, n + 1, append) = FirstChunks(n + 1)
  BY <1>2, <1>3 DEF FirstChunks
<1>5. Append(c, n + 1) = [i \in 1 .. n + 1 |-> IF i = n + 1 THEN n + 1 ELSE c[i]]
  <2> HIDE DEF c
  <2> QED BY <1>1
<1>6. \A i \in 1 .. n + 1 : (IF i = n + 1 THEN n + 1 ELSE c[i]) = i
  BY DEF FirstChunks
<1>7. Append(c, n + 1) = FirstChunks(n + 1)
  BY <1>5, <1>6 DEF FirstChunks
<1> QED BY <1>4, <1>7

(* A file that is the beginning of the remote one is known by its length.     *)
LEMMA PrefixByLength ==
    ASSUME NEW l, LocalOK(l), NEW d \in Download, l[d] # None
    PROVE  Len(l[d]) \in 0 .. Size[d] /\ l[d] = FirstChunks(Len(l[d]))
BY ChunksTyped, SizeAssumption DEF LocalOK, FilePrefix

-----------------------------------------------------------------------------
(* Steps that leave the destination files alone.                              *)
TaskMoves(t) == \E r \in TaskState : TaskSound(r, local) /\ task' = [task EXCEPT ![t] = r]

LEMMA QuietStepKeeps ==
    ASSUME IInv, NEW t \in Task, TaskMoves(t), OneDriver', local' = local,
           downloads' \in StateMap /\ MapWhole(downloads', local),
           disk' = disk \/ disk' = downloads, used' \subseteq Download, crashes' = crashes
    PROVE  IInv'
<1>1. PICK r \in TaskState : TaskSound(r, local) /\ task' = [task EXCEPT ![t] = r]
  BY DEF TaskMoves
<1>2. task' \in [Task -> TaskState] /\ \A v \in Task : TaskSound(task'[v], local)
  BY <1>1 DEF IInv, TasksOK
<1>3. TasksOK'
  BY <1>2 DEF TasksOK
<1>4. MapsOK'
  BY DEF IInv, MapsOK
<1> QED BY <1>3, <1>4 DEF IInv

LEMMA ReturnMoves ==
    ASSUME NEW t \in Task, Return(t) \/ SaveAndReturn(t)
    PROVE  TaskMoves(t)
<1>1. IdleTask \in TaskState /\ TaskSound(IdleTask, local)
  BY DEF IdleTask, TaskState, PC, TaskSound
<1>2. [IdleTask EXCEPT !.saving = TRUE] \in TaskState /\ TaskSound([IdleTask EXCEPT !.saving = TRUE], local)
  BY DEF IdleTask, TaskState, PC, TaskSound
<1> QED BY <1>1, <1>2 DEF Return, SaveAndReturn, TaskMoves

(* Along download_chunks the offset says where the file ends.                 *)
LEMMA GotoMoves ==
    ASSUME IInv, NEW t \in Task, NEW pc \in PC, NEW saving \in BOOLEAN, Goto(t, pc, saving),
           TaskSound([task[t] EXCEPT !.pc = pc], local)
    PROVE  TaskMoves(t)
<1> DEFINE r == [task[t] EXCEPT !.pc = pc, !.saving = saving]
<1>1. task[t] \in TaskState
  BY DEF IInv, TasksOK
<1>2. r \in TaskState /\ TaskSound(r, local)
  BY <1>1 DEF TaskState, TaskSound
<1>3. task' = [task EXCEPT ![t] = r]
  BY DEF Goto, IInv, TasksOK
<1> QED BY <1>2, <1>3 DEF TaskMoves

-----------------------------------------------------------------------------
(* save_states and load_states.                                               *)
LEMMA SavingKeeps ==
    ASSUME IInv, OneDriver', NEW t \in Task, SaveStates(t) \/ InstallStates(t)
    PROVE  IInv'
<1>0. task[t] \in TaskState /\ TaskSound(task[t], local) /\ downloads \in StateMap /\ MapWhole(downloads, local)
      /\ used \subseteq Download /\ task \in [Task -> TaskState]
  BY DEF IInv, TasksOK, MapsOK
<1>1. CASE SaveStates(t)
  <2> DEFINE r == [task[t] EXCEPT !.saving = FALSE]
  <2>1. r \in TaskState /\ TaskSound(r, local)
    BY <1>0 DEF TaskState, TaskSound
  <2>2. task' = [task EXCEPT ![t] = r]
    BY <1>0, <1>1 DEF SaveStates
  <2>3. TaskMoves(t)
    BY <2>1, <2>2 DEF TaskMoves
  <2> QED BY <1>0, <1>1, <2>3, QuietStepKeeps DEF SaveStates
<1>2. CASE InstallStates(t)
  <2> DEFINE r == [task[t] EXCEPT !.pc = "insert", !.snap = None]
  <2>1. downloads' \in StateMap /\ MapWhole(downloads', local)
    BY <1>0, <1>2 DEF InstallStates, Ready, TaskSound
  <2>2. CASE task[t].d = None
    BY <1>0, <1>2, <2>1, <2>2, ReturnMoves, QuietStepKeeps DEF InstallStates
  <2>3. CASE task[t].d # None
    <3>1. r \in TaskState /\ TaskSound(r, local)
      BY <1>0, <2>3 DEF TaskState, TaskSound, PC
    <3>2. task' = [task EXCEPT ![t] = r]
      BY <1>0, <1>2, <2>3 DEF InstallStates
    <3>3. TaskMoves(t)
      BY <3>1, <3>2 DEF TaskMoves
    <3> QED BY <1>0, <1>2, <2>1, <3>3, QuietStepKeeps DEF InstallStates
  <2> QED BY <2>2, <2>3
<1> QED BY <1>1, <1>2

LEMMA LoadKeeps ==
    ASSUME IInv, OneDriver', NEW t \in Task, NEW d \in Download \cup {None}, LoadStates(t, d), used' \subseteq Download
    PROVE  IInv'
<1> DEFINE r == [IdleTask EXCEPT !.pc = IF disk = None THEN "insert" ELSE "install", !.d = d, !.snap = disk]
<1>0. downloads \in StateMap /\ MapWhole(downloads, local) /\ (disk # None => disk \in StateMap /\ MapWhole(disk, local))
  BY DEF IInv, MapsOK
<1>1. r \in TaskState
  BY <1>0 DEF IdleTask, TaskState, PC
<1>2. TaskSound(r, local)
  BY <1>0 DEF IdleTask, TaskSound, LoadStates
<1>3. TaskMoves(t)
  BY <1>1, <1>2 DEF LoadStates, TaskMoves
<1> QED BY <1>0, <1>3, QuietStepKeeps DEF LoadStates

(* The commands that change the state of a download.                          *)
LEMMA CommandsKeep ==
    ASSUME IInv, OneDriver', NEW t \in Task, NEW d \in Download,
           ResumeDownload(t, d) \/ PauseDownload(t, d) \/ CancelDownload(t, d)
    PROVE  IInv'
<1>0. downloads \in StateMap /\ MapWhole(downloads, local) /\ used \subseteq Download
  BY DEF IInv, MapsOK
<1>1. d \in DOMAIN downloads /\ downloads[d] \in State
  BY <1>0, MapEntry DEF ResumeDownload, PauseDownload, CancelDownload
<1>2. CASE ResumeDownload(t, d)
  <2> DEFINE s == [downloads[d] EXCEPT !.status = "InProgress"]
             r == [IdleTask EXCEPT !.pc = "begin", !.d = d, !.saving = TRUE]
  <2>1. s \in State /\ s.status # "Completed"
    BY <1>1 DEF State, Status
  <2>2. downloads' = [downloads EXCEPT ![d] = s]
    BY <1>0, <1>1, <1>2 DEF ResumeDownload, StateMap, State
  <2>3. downloads' \in StateMap /\ MapWhole(downloads', local)
    <3> HIDE DEF s
    <3> QED BY <1>0, <1>1, <2>1, <2>2, MapUpdate
  <2>4. r \in TaskState /\ TaskSound(r, local)
    BY DEF IdleTask, TaskState, PC, TaskSound
  <2>5. TaskMoves(t)
    BY <1>2, <2>4 DEF ResumeDownload, TaskMoves
  <2> QED BY <1>0, <1>2, <2>3, <2>5, QuietStepKeeps DEF ResumeDownload
<1>3. CASE PauseDownload(t, d)
  <2> DEFINE s == [downloads[d] EXCEPT !.status = "Paused"]
  <2>1. s \in State /\ s.status # "Completed"
    BY <1>1 DEF State, Status
  <2>2. downloads' = [downloads EXCEPT ![d] = s]
    BY <1>0, <1>1, <1>3 DEF PauseDownload, StateMap, State
  <2>3. downloads' \in StateMap /\ MapWhole(downloads', local)
    <3> HIDE DEF s
    <3> QED BY <1>0, <1>1, <2>1, <2>2, MapUpdate
  <2>4. TaskMoves(t)
    BY <1>3, ReturnMoves DEF PauseDownload
  <2> QED BY <1>0, <1>3, <2>3, <2>4, QuietStepKeeps DEF PauseDownload
<1>4. CASE CancelDownload(t, d)
  <2>1. downloads' \in StateMap /\ MapWhole(downloads', local)
    BY <1>0, <1>4, MapRestrict DEF CancelDownload
  <2>2. TaskMoves(t)
    BY <1>4, ReturnMoves DEF CancelDownload
  <2> QED BY <1>0, <1>4, <2>1, <2>2, QuietStepKeeps DEF CancelDownload
<1> QED BY <1>2, <1>3, <1>4

(* download_chunks, but for the two steps that touch the file.                 *)
LEMMA ChunksKeep ==
    ASSUME IInv, OneDriver', NEW t \in Task,
           \/ InsertDownload(t) \/ Begin(t) \/ MarkInProgress(t) \/ CheckState(t)
           \/ TransferFails(t) \/ UpdateProgress(t) \/ MarkCompleted(t)
    PROVE  IInv'
<1> DEFINE d == task[t].d
<1>0. downloads \in StateMap /\ MapWhole(downloads, local) /\ used \subseteq Download
      /\ task[t] \in TaskState /\ TaskSound(task[t], local) /\ task \in [Task -> TaskState] /\ LocalOK(local)
  BY DEF IInv, MapsOK, TasksOK
<1>1. d \in Download /\ Size[d] \in Nat
  <2>1. task[t].pc \notin {"idle", "install"}
    BY DEF InsertDownload, Begin, MarkInProgress, CheckState, TransferFails, UpdateProgress, MarkCompleted, Ready
  <2> QED BY <1>0, <2>1, SizeAssumption DEF TaskSound
<1>2. CASE InsertDownload(t)
  <2> DEFINE s == [status |-> "Pending", bytes |-> 0]
  <2>1. s \in State /\ s.status # "Completed"
    BY DEF State, Status
  <2>2. downloads' = [e \in DOMAIN downloads \cup {d} |-> IF e = d THEN s ELSE downloads[e]]
    BY <1>2 DEF InsertDownload
  <2>3. downloads' \in StateMap /\ MapWhole(downloads', local)
    <3> HIDE DEF s, d
    <3> QED BY <1>0, <1>1, <2>1, <2>2, MapUpdate
  <2>4. TaskSound([task[t] EXCEPT !.pc = "begin"], local)
    BY <1>0, <1>1 DEF TaskSound, TaskState
  <2>5. TaskMoves(t)
    BY <1>2, <2>4, GotoMoves DEF InsertDownload, PC
  <2> QED BY <1>0, <1>2, <2>3, <2>5, QuietStepKeeps DEF InsertDownload
<1>3. CASE Begin(t)
  <2> DEFINE r == [task[t] EXCEPT !.pc = "mark", !.offset = ResumePoint(d)]
  <2>1. TaskMoves(t)
    <3>1. CASE d \in DOMAIN downloads
      <4>1. ResumePoint(d) = LengthIn(local, d) /\ LengthIn(local, d) \in Nat
        BY <1>0, <1>1, PrefixByLength DEF ResumePoint, Length, LengthIn
      <4>2. r \in TaskState /\ TaskSound(r, local)
        BY <1>0, <1>1, <4>1 DEF TaskSound, TaskState, PC
      <4>3. task' = [task EXCEPT ![t] = r]
        BY <1>0, <1>3, <3>1 DEF Begin
      <4> QED BY <4>2, <4>3 DEF TaskMoves
    <3>2. CASE d \notin DOMAIN downloads
      BY <1>3, <3>2, ReturnMoves DEF Begin
    <3> QED BY <3>1, <3>2
  <2> QED BY <1>0, <1>3, <2>1, QuietStepKeeps DEF Begin
<1>4. CASE MarkInProgress(t)
  <2> DEFINE s == [status |-> "InProgress", bytes |-> task[t].offset]
  <2>1. s \in State /\ s.status # "Completed"
    BY <1>0 DEF State, Status, TaskState
  <2>2. downloads' = IF d \in DOMAIN downloads THEN [downloads EXCEPT ![d] = s] ELSE downloads
    BY <1>4 DEF MarkInProgress, StoreState
  <2>3. downloads' \in StateMap /\ MapWhole(downloads', local)
    <3> HIDE DEF s, d
    <3> QED BY <1>0, <1>1, <2>1, <2>2, MapUpdate
  <2>4. TaskSound([task[t] EXCEPT !.pc = "open"], local)
    BY <1>0, <1>1, <1>4 DEF TaskSound, TaskState, MarkInProgress, Ready
  <2>5. TaskMoves(t)
    BY <1>4, <2>4, GotoMoves DEF MarkInProgress, PC
  <2> QED BY <1>0, <1>4, <2>3, <2>5, QuietStepKeeps DEF MarkInProgress
<1>5. CASE CheckState(t)
  <2>1. local[d] # None /\ task[t].offset = Len(local[d]) /\ Len(local[d]) \in 0 .. Size[d]
    BY <1>0, <1>1, <1>5, PrefixByLength DEF TaskSound, CheckState, Ready
  <2>2. CASE task[t].offset >= Size[d]
    <3>1. TaskSound([task[t] EXCEPT !.pc = "finish"], local)
      BY <1>0, <1>1, <2>1, <2>2 DEF TaskSound, TaskState
    <3>2. TaskMoves(t)
      BY <1>5, <2>2, <3>1, GotoMoves DEF CheckState, PC
    <3> QED BY <1>0, <1>5, <3>2, QuietStepKeeps DEF CheckState
  <2>3. CASE task[t].offset < Size[d] /\ Stopped(d)
    <3>1. ~(task[t].offset >= Size[d])
      BY <1>1, <2>1, <2>3
    <3>2. Return(t)
      BY <1>5, <2>3, <3>1 DEF CheckState
    <3>3. TaskMoves(t)
      BY <3>2, ReturnMoves
    <3> QED BY <1>0, <1>5, <3>3, QuietStepKeeps DEF CheckState
  <2>4. CASE task[t].offset < Size[d] /\ ~Stopped(d)
    <3>1. TaskSound([task[t] EXCEPT !.pc = "write"], local)
      BY <1>0, <1>1, <2>1, <2>4 DEF TaskSound, TaskState
    <3>2. ~(task[t].offset >= Size[d])
      BY <1>1, <2>1, <2>4
    <3>3. Goto(t, "write", FALSE)
      BY <1>5, <2>4, <3>2 DEF CheckState
    <3>4. TaskMoves(t)
      BY <3>1, <3>3, GotoMoves DEF PC
    <3> QED BY <1>0, <1>5, <3>4, QuietStepKeeps DEF CheckState
  <2> QED BY <1>1, <2>1, <2>2, <2>3, <2>4
<1>6. CASE TransferFails(t)
  BY <1>0, <1>6, ReturnMoves, QuietStepKeeps DEF TransferFails
<1>7. CASE UpdateProgress(t)
  <2> DEFINE s == [downloads[d] EXCEPT !.bytes = task[t].offset]
             b == (task[t].offset + 1) % SaveEvery = 0
  <2>1. downloads' \in StateMap /\ MapWhole(downloads', local)
    <3>1. CASE d \in DOMAIN downloads
      <4>1. downloads[d] \in State
        BY <1>0, <3>1, MapEntry
      <4>2. s \in State /\ s.status = downloads[d].status
        BY <1>0, <4>1 DEF State, TaskState
      <4>3. s.status = "Completed" => local[d] = FirstChunks(Size[d])
        BY <1>0, <3>1, <4>2 DEF MapWhole
      <4>4. downloads' = [downloads EXCEPT ![d] = s]
        BY <1>0, <1>7, <3>1, <4>1 DEF UpdateProgress, StateMap, State
      <4> HIDE DEF s, d
      <4> QED BY <1>0, <1>1, <3>1, <4>2, <4>3, <4>4, MapUpdate
    <3>2. CASE d \notin DOMAIN downloads
      BY <1>0, <1>7, <3>2 DEF UpdateProgress
    <3> QED BY <3>1, <3>2
  <2>2. TaskSound([task[t] EXCEPT !.pc = "check"], local)
    BY <1>0, <1>1, <1>7 DEF TaskSound, TaskState, UpdateProgress, Ready
  <2>3. Goto(t, "check", b) /\ b \in BOOLEAN
    BY <1>7 DEF UpdateProgress
  <2>4. TaskMoves(t)
    <3> HIDE DEF b
    <3> QED BY <2>2, <2>3, GotoMoves DEF PC
  <2> QED BY <1>0, <1>7, <2>1, <2>4, QuietStepKeeps DEF UpdateProgress
<1>8. CASE MarkCompleted(t)
  <2> DEFINE s == [status |-> "Completed", bytes |-> Size[d]]
  <2>1. s \in State
    BY <1>1 DEF State, Status
  <2>2. local[d] = FirstChunks(Size[d])
    BY <1>0, <1>1, <1>8, PrefixByLength DEF TaskSound, MarkCompleted, Ready
  <2>3. downloads' = IF d \in DOMAIN downloads THEN [downloads EXCEPT ![d] = s] ELSE downloads
    BY <1>8 DEF MarkCompleted, StoreState
  <2>4. downloads' \in StateMap /\ MapWhole(downloads', local)
    <3> HIDE DEF s, d
    <3> QED BY <1>0, <1>1, <2>1, <2>2, <2>3, MapUpdate
  <2>5. TaskMoves(t)
    BY <1>8, ReturnMoves DEF MarkCompleted
  <2> QED BY <1>0, <1>8, <2>4, <2>5, QuietStepKeeps DEF MarkCompleted
<1> QED BY <1>2, <1>3, <1>4, <1>5, <1>6, <1>7, <1>8

-----------------------------------------------------------------------------
(* The two steps that touch a destination file.  Its only driver does so, and  *)
(* what is whole stays whole.                                                *)
FileGrows(t, new) ==
    /\ local' = [local EXCEPT ![task[t].d] = new]
    /\ \E n \in 0 .. Size[task[t].d] : new = FirstChunks(n)
    /\ local[task[t].d] = FirstChunks(Size[task[t].d]) => new = local[task[t].d]

LEMMA FileStepKeeps ==
    ASSUME IInv, OneDriver', NEW t \in Task, task[t].d \in Download, NEW new, FileGrows(t, new),
           NEW r \in TaskState, task' = [task EXCEPT ![t] = r], r.d = task[t].d, TaskSound(r, local'),
           UNCHANGED <<downloads, disk, used, crashes>>
    PROVE  IInv'
<1> DEFINE d == task[t].d
<1>0. LocalOK(local) /\ task \in [Task -> TaskState]
  BY DEF IInv, TasksOK
<1>1. local'[d] = new /\ \A e \in Download \ {d} : local'[e] = local[e]
  BY <1>0 DEF FileGrows, LocalOK
<1>2. LocalOK(local')
  <2>1. DOMAIN local' = Download /\ local' = [e \in Download |-> local'[e]]
    BY <1>0 DEF LocalOK, FileGrows
  <2>2. ASSUME NEW e \in Download PROVE FilePrefix(local', e)
    BY <1>0, <1>1 DEF LocalOK, FilePrefix, FileGrows
  <2> QED BY <2>1, <2>2 DEF LocalOK
<1>3. ASSUME NEW e \in Download, local[e] = FirstChunks(Size[e]) PROVE local'[e] = FirstChunks(Size[e])
  BY <1>1, <1>3 DEF FileGrows
<1>4. ASSUME NEW m \in StateMap, MapWhole(m, local) PROVE MapWhole(m, local')
  <2>1. DOMAIN m \subseteq Download
    BY DEF StateMap
  <2> QED BY <1>3, <1>4, <2>1 DEF MapWhole
<1>5. MapsOK'
  BY <1>4 DEF IInv, MapsOK
<1>6. ASSUME NEW v \in Task PROVE TaskSound(task'[v], local')
  <2>1. CASE v = t
    BY <1>0, <2>1
  <2>2. CASE v # t
    <3>1. task'[v] = task[v] /\ TaskSound(task[v], local) /\ task[v] \in TaskState
      BY <1>0, <2>2 DEF IInv, TasksOK
    <3>2. task[v].d # d
      BY <2>2 DEF IInv, TasksOK, OneDriver
    <3>3. task[v].d \in Download => local'[task[v].d] = local[task[v].d]
      BY <1>1, <3>2
    <3>4. task[v].pc = "install" => MapWhole(task[v].snap, local')
      BY <1>4, <3>1 DEF TaskSound
    <3> QED BY <3>1, <3>3, <3>4 DEF TaskSound, LengthIn
  <2> QED BY <2>1, <2>2
<1>7. TasksOK'
  BY <1>0, <1>6 DEF TasksOK
<1> QED BY <1>2, <1>5, <1>7 DEF IInv

(* Opening the destination truncates nothing but an empty or missing file.     *)
LEMMA OpenIsQuiet ==
    ASSUME IInv, NEW t \in Task, OpenDestination(t)
    PROVE  LET d == task[t].d IN
           /\ d \in Download
           /\ \/ LengthIn(local, d) = 0 /\ local'[d] = FirstChunks(0) /\ FileGrows(t, FirstChunks(0))
              \/ local[d] # None /\ local'[d] = local[d] /\ FileGrows(t, local[d])
<1> DEFINE d == task[t].d
<1>0. task[t] \in TaskState /\ TaskSound(task[t], local) /\ LocalOK(local)
  BY DEF IInv, TasksOK
<1>1. d \in Download /\ task[t].offset = LengthIn(local, d) /\ Size[d] \in Nat
  BY <1>0, SizeAssumption DEF TaskSound, OpenDestination, Ready
<1>2. << >> = FirstChunks(0)
  BY DEF FirstChunks
<1>3. CASE task[t].offset > 0 /\ local[d] # None
  <2>1. local' = [local EXCEPT ![d] = local[d]]
    BY <1>3 DEF OpenDestination
  <2>2. FileGrows(t, local[d])
    BY <1>0, <1>1, <1>3, <2>1, PrefixByLength DEF FileGrows
  <2> QED BY <1>0, <1>1, <1>3, <2>1, <2>2 DEF LocalOK
<1>4. CASE ~(task[t].offset > 0 /\ local[d] # None)
  <2>1. local' = [local EXCEPT ![d] = FirstChunks(0)]
    BY <1>2, <1>4 DEF OpenDestination
  <2>2. LengthIn(local, d) = 0
    BY <1>0, <1>1, <1>4, PrefixByLength DEF LengthIn
  <2>3. local[d] = FirstChunks(Size[d]) => FirstChunks(0) = local[d]
    <3> SUFFICES ASSUME local[d] = FirstChunks(Size[d]) PROVE FirstChunks(0) = local[d]
      OBVIOUS
    <3>1. local[d] # None
      BY <1>1, NoneAssumption DEF FirstChunks
    <3>2. Size[d] = 0
      BY <1>1, <2>2, <3>1, ChunksTyped DEF LengthIn
    <3> QED BY <3>2
  <2>4. FileGrows(t, FirstChunks(0))
    BY <1>1, <2>1, <2>3 DEF FileGrows
  <2> QED BY <1>0, <1>1, <2>1, <2>2, <2>4 DEF LocalOK
<1> QED BY <1>3, <1>4

(* Writing a chunk appends the next one to a file that was not whole.          *)
LEMMA WriteAppends ==
    ASSUME IInv, NEW t \in Task, WriteChunk(t)
    PROVE  LET d == task[t].d
               n == task[t].offset
           IN  /\ d \in Download /\ n \in 0 .. Size[d] - 1 /\ local[d] # None /\ local[d] = FirstChunks(n)
               /\ local' = [local EXCEPT ![d] = FirstChunks(n + 1)]
               /\ FileGrows(t, FirstChunks(n + 1))
<1> DEFINE d == task[t].d
           n == task[t].offset
<1>0. task[t] \in TaskState /\ TaskSound(task[t], local) /\ LocalOK(local)
  BY DEF IInv, TasksOK
<1>1. d \in Download /\ local[d] # None /\ n = Len(local[d]) /\ n < Size[d] /\ n \in Nat /\ Size[d] \in Nat
  BY <1>0, SizeAssumption DEF TaskSound, WriteChunk, Ready, TaskState
<1>2. local[d] = FirstChunks(n)
  BY <1>0, <1>1, PrefixByLength
<1>3. task[t].append \in BOOLEAN
  BY <1>0 DEF TaskState
<1>4. local' = [local EXCEPT ![d] = Written(local[d], n + 1, task[t].append)]
  BY DEF WriteChunk
<1>5. Written(local[d], n + 1, task[t].append) = FirstChunks(n + 1)
  BY <1>1, <1>2, <1>3, WrittenNext
<1>6. local[d] # FirstChunks(Size[d])
  BY <1>1, <1>2, ChunksTyped
<1>7. n \in 0 .. Size[d] - 1 /\ n + 1 \in 0 .. Size[d]
  BY <1>1
<1>8. local' = [local EXCEPT ![d] = FirstChunks(n + 1)]
  BY <1>4, <1>5
<1>9. FileGrows(t, FirstChunks(n + 1))
  BY <1>6, <1>7, <1>8 DEF FileGrows
<1> QED BY <1>1, <1>2, <1>7, <1>8, <1>9

LEMMA FilesKeep ==
    ASSUME IInv, OneDriver', NEW t \in Task, OpenDestination(t) \/ WriteChunk(t)
    PROVE  IInv'
<1> DEFINE d == task[t].d
<1>0. task[t] \in TaskState /\ task \in [Task -> TaskState] /\ LocalOK(local) /\ TaskSound(task[t], local)
  BY DEF IInv, TasksOK
<1>1. CASE OpenDestination(t)
  <2> DEFINE b == (task[t].offset > 0)
             r == [task[t] EXCEPT !.pc = "check", !.append = b]
  <2>1. task' = [task EXCEPT ![t] = r]
    BY <1>0, <1>1 DEF OpenDestination
  <2>2. d \in Download /\ task[t].offset = LengthIn(local, d)
    BY <1>0, <1>1 DEF TaskSound, OpenDestination, Ready
  <2>3. PICK new : FileGrows(t, new) /\ local'[d] = new /\ new # None /\ Len(new) = task[t].offset
    <3>1. CASE LengthIn(local, d) = 0 /\ local'[d] = FirstChunks(0) /\ FileGrows(t, FirstChunks(0))
      <4>1. FirstChunks(0) # None
        <5>1. 0 \in 0 .. Size[d]
          BY <2>2, SizeAssumption
        <5> QED BY <2>2, <5>1, NoneAssumption DEF FirstChunks
      <4> QED BY <2>2, <3>1, <4>1, ChunksTyped
    <3>2. CASE local[d] # None /\ local'[d] = local[d] /\ FileGrows(t, local[d])
      BY <2>2, <3>2 DEF LengthIn
    <3> QED BY <1>1, <3>1, <3>2, OpenIsQuiet
  <2>4. r \in TaskState /\ r.d = d
    <3>1. b \in BOOLEAN
      OBVIOUS
    <3> HIDE DEF b
    <3> QED BY <1>0, <3>1 DEF TaskState, PC
  <2>5. TaskSound(r, local')
    BY <1>0, <2>2, <2>3 DEF TaskSound, TaskState
  <2> HIDE DEF r
  <2> QED BY <1>1, <2>1, <2>2, <2>3, <2>4, <2>5, FileStepKeeps DEF OpenDestination
<1>2. CASE WriteChunk(t)
  <2> DEFINE n == task[t].offset
             r == [task[t] EXCEPT !.pc = "progress", !.offset = n + 1]
  <2>1. task' = [task EXCEPT ![t] = r]
    BY <1>0, <1>2 DEF WriteChunk
  <2>2. /\ d \in Download /\ n \in 0 .. Size[d] - 1
        /\ local' = [local EXCEPT ![d] = FirstChunks(n + 1)] /\ FileGrows(t, FirstChunks(n + 1))
    BY <1>2, WriteAppends
  <2>3. n + 1 \in 0 .. Size[d] /\ n + 1 \in Nat
    BY <2>2, SizeAssumption
  <2>4. FirstChunks(n + 1) # None /\ Len(FirstChunks(n + 1)) = n + 1
    BY <2>2, <2>3, NoneAssumption, ChunksTyped DEF FirstChunks
  <2>5. local'[d] = FirstChunks(n + 1)
    BY <1>0, <2>2 DEF LocalOK
  <2>6. r \in TaskState /\ r.d = d
    BY <1>0, <2>3 DEF TaskState, PC
  <2>7. TaskSound(r, local')
    BY <1>0, <2>2, <2>4, <2>5 DEF TaskSound, TaskState
  <2> HIDE DEF r
  <2> QED BY <1>2, <2>1, <2>2, <2>6, <2>7, FileStepKeeps DEF WriteChunk
<1> QED BY <1>1, <1>2

(* IInv is inductive while one task at a time drives a download; it needs      *)
(* destinations that are empty or missing before.                             *)
LEMMA InitSound == Existing \subseteq {0} /\ Init => IInv
<1> SUFFICES ASSUME Existing \subseteq {0}, Init PROVE IInv
  OBVIOUS
<1>1. << >> \in StateMap /\ MapWhole(<< >>, local)
  BY DEF StateMap, MapWhole
<1>2. IdleTask \in TaskState /\ TaskSound(IdleTask, local)
  BY DEF IdleTask, TaskState, PC, TaskSound
<1>3. task = [t \in Task |-> IdleTask]
  BY DEF Init
<1>4. OneDriver
  BY <1>3, NoneAssumption DEF OneDriver, IdleTask
<1>5. TasksOK
  BY <1>2, <1>3, <1>4 DEF TasksOK
<1>6. MapsOK
  BY <1>1, BoundAssumption DEF Init, MapsOK
<1>7. LocalOK(local)
  <2>1. local \in [Download -> {None} \cup {[i \in 1 .. n |-> Foreign] : n \in Existing}]
    BY DEF Init
  <2>2. ASSUME NEW d \in Download PROVE FilePrefix(local, d)
    <3> SUFFICES ASSUME local[d] # None PROVE \E n \in 0 .. Size[d] : local[d] = FirstChunks(n)
      BY DEF FilePrefix
    <3>1. PICK n \in Existing : local[d] = [i \in 1 .. n |-> Foreign]
      BY <2>1
    <3>2. n = 0
      BY <3>1
    <3>3. local[d] = FirstChunks(0)
      BY <3>1, <3>2 DEF FirstChunks
    <3>4. 0 \in 0 .. Size[d]
      BY SizeAssumption
    <3> QED BY <3>3, <3>4
  <2> QED BY <2>1, <2>2 DEF LocalOK
<1> QED BY <1>5, <1>6, <1>7 DEF IInv

LEMMA StepKeeps == IInv /\ [Next /\ OneDriver']_vars => IInv'
<1> SUFFICES ASSUME IInv, [Next /\ OneDriver']_vars PROVE IInv'
  OBVIOUS
<1>1. ASSUME NEW t \in Task, Command(t), OneDriver' PROVE IInv'
  <2>1. ASSUME ListDownloads(t) PROVE IInv'
    BY <1>1, <2>1, LoadKeeps DEF ListDownloads, IInv, MapsOK
  <2>2. ASSUME NEW d \in Download, StartDownload(t, d) PROVE IInv'
    <3>1. used' \subseteq Download
      BY <2>2 DEF StartDownload, IInv, MapsOK
    <3> QED BY <1>1, <2>2, <3>1, LoadKeeps DEF StartDownload
  <2> QED BY <1>1, <2>1, <2>2, CommandsKeep DEF Command
<1>2. ASSUME NEW t \in Task, Proceed(t) \/ TransferFails(t), OneDriver' PROVE IInv'
  BY <1>2, SavingKeeps, ChunksKeep, FilesKeep DEF Proceed
<1>3. ASSUME Restart, OneDriver' PROVE IInv'
  <2>1. << >> \in StateMap /\ MapWhole(<< >>, local)
    BY DEF StateMap, MapWhole
  <2>2. IdleTask \in TaskState /\ TaskSound(IdleTask, local)
    BY DEF IdleTask, TaskState, PC, TaskSound
  <2>3. crashes' \in 0 .. MaxCrash
    BY <1>3, BoundAssumption DEF Restart, IInv, MapsOK
  <2>4. MapsOK'
    BY <1>3, <2>1, <2>3 DEF Restart, IInv, MapsOK
  <2>5. TasksOK'
    BY <1>3, <2>2 DEF Restart, TasksOK
  <2> QED BY <1>3, <2>4, <2>5 DEF Restart, IInv
<1>4. CASE UNCHANGED vars
  BY <1>4 DEF vars, IInv, MapsOK, TasksOK, OneDriver
<1> QED BY <1>1, <1>2, <1>3, <1>4 DEF Next

THEOREM DownloadInductive == Existing \subseteq {0} => (PoliteSpec => []IInv)
BY InitSound, StepKeeps, PTL DEF PoliteSpec

-----------------------------------------------------------------------------
(* Through failures, pauses, cancellations and restarts the state is well      *)
(* typed and every destination file is the beginning of the remote file.       *)
THEOREM FilesCorrect == Existing \subseteq {0} => (PoliteSpec => []FilesSound)
<1>1. IInv => TypeOK
  <2> SUFFICES ASSUME IInv PROVE TypeOK
    OBVIOUS
  <2>1. ASSUME NEW d \in Download, local[d] # None PROVE local[d] \in Seq(0 .. Size[d])
    <3>1. PICK n \in 0 .. Size[d] : local[d] = FirstChunks(n)
      BY <2>1 DEF IInv, LocalOK, FilePrefix
    <3>2. FirstChunks(n) \in [1 .. n -> 0 .. Size[d]] /\ n \in Nat
      BY SizeAssumption DEF FirstChunks
    <3>3. FirstChunks(n) \in Seq(0 .. Size[d])
      <4> DEFINE S == 0 .. Size[d]
      <4> HIDE DEF S
      <4>1. FirstChunks(n) \in [1 .. n -> S]
        BY <3>2 DEF S
      <4>2. FirstChunks(n) \in Seq(S)
        BY <3>2, <4>1
      <4> QED BY <4>2 DEF S
    <3> QED BY <3>1, <3>3
  <2>2. ASSUME NEW t \in Task
        PROVE  /\ task[t].pc \in PC /\ task[t].d \in Download \cup {None} /\ task[t].offset \in Nat
               /\ task[t].append \in BOOLEAN /\ task[t].saving \in BOOLEAN
               /\ task[t].snap # None => IsMap(task[t].snap)
    BY MapsAreMaps DEF IInv, TasksOK, TaskState
  <2>3. IsMap(downloads) /\ (disk # None => IsMap(disk)) /\ used \subseteq Download /\ crashes \in 0 .. MaxCrash
    BY MapsAreMaps DEF IInv, MapsOK
  <2> QED BY <2>1, <2>2, <2>3 DEF TypeOK
<1>2. IInv => LocalIsPrefix
  <2> SUFFICES ASSUME IInv, NEW d \in Download, local[d] # None
               PROVE  Len(local[d]) <= Size[d] /\ local[d] = SubSeq(Remote(d), 1, Len(local[d]))
    BY DEF LocalIsPrefix
  <2> DEFINE n == Len(local[d])
  <2>1. n \in 0 .. Size[d] /\ local[d] = FirstChunks(n)
    BY PrefixByLength DEF IInv
  <2>2. Size[d] \in Nat /\ n \in Nat
    BY <2>1, SizeAssumption
  <2>3. SubSeq(Remote(d), 1, n) = [i \in 1 .. n |-> Remote(d)[i]]
    <3>1. Remote(d) \in Seq(Nat) /\ Len(Remote(d)) = Size[d]
      BY <2>2, ChunksTyped DEF Remote, FirstChunks
    <3> HIDE DEF n
    <3> QED BY <2>1, <2>2, <3>1
  <2>4. \A i \in 1 .. n : Remote(d)[i] = i
    BY <2>1, <2>2 DEF Remote
  <2> QED BY <2>1, <2>2, <2>3, <2>4 DEF FirstChunks
<1> QED BY <1>1, <1>2, DownloadInductive, PTL DEF FilesSound

-----------------------------------------------------------------------------
(* The refinement.  What Transfer sees of the manager's state: *)
Copy == [d \in Download |-> IF local[d] = None THEN << >> ELSE local[d]]
Reported == Completed(downloads) \cup (IF disk = None THEN {} ELSE Completed(disk))

(* Only whole copies are reported.                                            *)
WholeReported == Reported \subseteq {d \in Download : Copy[d] = Remote(d)}

LEMMA ReportsWhole == IInv => WholeReported
<1> SUFFICES ASSUME IInv PROVE WholeReported
  OBVIOUS
<1>1. ASSUME NEW m \in StateMap, MapWhole(m, local), NEW d \in Completed(m) PROVE d \in Download /\ Copy[d] = Remote(d)
  <2>1. d \in Download /\ d \in DOMAIN m /\ m[d].status = "Completed"
    BY MapEntry DEF Completed
  <2>2. local[d] = Remote(d)
    BY <1>1, <2>1 DEF MapWhole, FirstChunks, Remote
  <2>3. local[d] # None
    BY <2>1, <2>2, NoneAssumption, SizeAssumption DEF Remote
  <2> QED BY <2>1, <2>2, <2>3 DEF Copy
<1> QED BY <1>1 DEF WholeReported, Reported, IInv, MapsOK

(* A step that leaves the copies alone is a Report: it may report whole copies *)
(* and withdraw reports.                                                      *)
LEMMA ReportStep ==
    ASSUME WholeReported', Copy' = Copy
    PROVE  T!TransferNext
<1>1. Reported' \in SUBSET {d \in Download : Copy[d] = [e \in Download |-> Remote(e)][d]}
  BY DEF WholeReported, Remote
<1> QED BY <1>1 DEF T!TransferNext, T!Report, T!Complete, Copy, Reported

(* The only step that changes a copy is the write of a chunk, which appends   *)
(* the next one.                                                             *)
LEMMA ArriveStep ==
    ASSUME IInv, NEW t \in Task, WriteChunk(t)
    PROVE  T!TransferNext
<1> DEFINE d == task[t].d
           n == task[t].offset
<1>1. d \in Download /\ n \in 0 .. Size[d] - 1 /\ local[d] # None /\ local[d] = FirstChunks(n)
      /\ local' = [local EXCEPT ![d] = FirstChunks(n + 1)]
  BY WriteAppends
<1>2. Size[d] \in Nat /\ n \in Nat /\ n + 1 \in 0 .. Size[d] /\ n < Size[d]
  BY <1>1, SizeAssumption
<1>3. FirstChunks(n + 1) # None
  BY <1>1, <1>2, NoneAssumption DEF FirstChunks
<1>4. LocalOK(local)
  BY DEF IInv
<1>5. Copy[d] = FirstChunks(n) /\ Copy \in [Download -> {Copy[e] : e \in Download}]
  BY <1>1 DEF Copy
<1>6. Copy' = [Copy EXCEPT ![d] = FirstChunks(n + 1)]
  BY <1>1, <1>3, <1>4 DEF Copy, LocalOK
<1>7. Len(Copy[d]) = n /\ Len(Remote(d)) = Size[d] /\ Remote(d)[n + 1] = n + 1
  BY <1>1, <1>2, <1>5, ChunksTyped DEF Remote, FirstChunks
<1>8. FirstChunks(n + 1) = Append(Copy[d], Remote(d)[Len(Copy[d]) + 1])
  BY <1>2, <1>5, <1>7, WrittenNext
<1>9. Reported' = Reported
  BY DEF WriteChunk, Reported, Completed
<1>10. [e \in Download |-> Remote(e)][d] = Remote(d)
  BY <1>1
<1>11. /\ Len(Copy[d]) < Len([e \in Download |-> Remote(e)][d])
       /\ Copy' = [Copy EXCEPT ![d] = Append(Copy[d], [e \in Download |-> Remote(e)][d][Len(Copy[d]) + 1])]
  BY <1>2, <1>6, <1>7, <1>8, <1>10
<1>12. ASSUME NEW e \in Download, e = d PROVE T!Arrive(e)
  BY <1>9, <1>11, <1>12 DEF T!Arrive, Copy, Reported
<1> QED BY <1>1, <1>12 DEF T!TransferNext

(* Every other step leaves the copies alone; opening the destination does      *)
(* because it truncates only what is empty.                                   *)
LEMMA CopiesKept ==
    ASSUME IInv, Next, \A t \in Task : ~WriteChunk(t)
    PROVE  Copy' = Copy
<1>1. CASE local' = local
  BY <1>1 DEF Copy
<1>2. ASSUME NEW t \in Task, OpenDestination(t) PROVE Copy' = Copy
  <2> DEFINE d == task[t].d
  <2>0. LocalOK(local) /\ d \in Download
    BY <1>2, OpenIsQuiet DEF IInv
  <2>1. \A e \in Download \ {d} : local'[e] = local[e]
    BY <1>2, <2>0 DEF OpenDestination, LocalOK
  <2>2. (IF local'[d] = None THEN << >> ELSE local'[d]) = (IF local[d] = None THEN << >> ELSE local[d])
    <3>1. CASE LengthIn(local, d) = 0 /\ local'[d] = FirstChunks(0)
      <4>1. FirstChunks(0) = << >>
        BY DEF FirstChunks
      <4>2. local[d] # None => local[d] = FirstChunks(0)
        BY <2>0, <3>1, PrefixByLength DEF LengthIn
      <4> QED BY <3>1, <4>1, <4>2
    <3>2. CASE local'[d] = local[d]
      BY <3>2
    <3> QED BY <1>2, <3>1, <3>2, OpenIsQuiet
  <2> QED BY <2>1, <2>2 DEF Copy
<1>3. ASSUME NEW t \in Task, Command(t) PROVE local' = local
  BY <1>3 DEF Command, ListDownloads, StartDownload, LoadStates, ResumeDownload, PauseDownload, CancelDownload
<1>4. ASSUME NEW t \in Task, Proceed(t) \/ TransferFails(t), ~OpenDestination(t), ~WriteChunk(t) PROVE local' = local
  BY <1>4 DEF Proceed, SaveStates, InstallStates, InsertDownload, Begin, MarkInProgress, CheckState, UpdateProgress,
              MarkCompleted, TransferFails
<1>5. CASE Restart
  BY <1>1, <1>5 DEF Restart
<1> QED BY <1>1, <1>2, <1>3, <1>4, <1>5 DEF Next

(* DownloadManager implements Transfer: whatever is paused, canceled, failed,  *)
(* reloaded or cut off by a restart, the destination file grows by the next    *)
(* chunk of the remote file and by nothing else, and only a whole file is ever *)
(* called Completed, in memory and in downloads.json (195-337).                *)
THEOREM RefinesTransfer == Existing \subseteq {0} => (PoliteSpec => ImplementsTransfer)
<1>1. Existing \subseteq {0} /\ Init => T!TransferInit
  <2> SUFFICES ASSUME Existing \subseteq {0}, Init PROVE T!TransferInit
    OBVIOUS
  <2>1. ASSUME NEW d \in Download PROVE (IF local[d] = None THEN << >> ELSE local[d]) = << >>
    <3> SUFFICES ASSUME local[d] # None PROVE local[d] = << >>
      OBVIOUS
    <3>1. PICK n \in Existing : local[d] = [i \in 1 .. n |-> Foreign]
      BY DEF Init
    <3>2. n = 0
      BY <3>1
    <3> QED BY <3>1, <3>2
  <2>2. Completed(downloads) = {} /\ disk = None
    BY DEF Init, Completed
  <2> QED BY <2>1, <2>2 DEF T!TransferInit
<1>2. IInv /\ IInv' /\ WholeReported' /\ [Next /\ OneDriver']_vars => [T!TransferNext]_(T!transferVars)
  <2> SUFFICES ASSUME IInv, IInv', WholeReported', [Next /\ OneDriver']_vars PROVE [T!TransferNext]_(T!transferVars)
    OBVIOUS
  <2>1. CASE UNCHANGED vars
    BY <2>1 DEF vars, T!transferVars, Completed
  <2>2. CASE Next /\ \E t \in Task : WriteChunk(t)
    BY <2>2, ArriveStep
  <2>3. CASE Next /\ ~\E t \in Task : WriteChunk(t)
    BY <2>3, CopiesKept, ReportStep
  <2> QED BY <2>1, <2>2, <2>3
<1> QED BY <1>1, <1>2, ReportsWhole, DownloadInductive, PTL DEF PoliteSpec, ImplementsTransfer, T!TransferSpec
=============================================================================
