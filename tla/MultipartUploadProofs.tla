----------------------- MODULE MultipartUploadProofs -----------------------
(***************************************************************************)
(* Proofs about MultipartUpload, for any number of uploads of any size, any  *)
(* number of tasks that drive them, any errors and any number of restarts,   *)
(* and about BatchUpload, for any disk, any items and any commands beside.    *)
(***************************************************************************)
EXTENDS MultipartUpload, BatchUpload, FiniteSetTheorems, FunctionTheorems, SequenceTheorems,
        WellFoundedInduction, TLAPS

(* The maps of upload states, as a set. *)
StateMap == UNION {[D -> State] : D \in SUBSET Upload}

TaskState == [pc : PC, u : Upload \cup {None}, resume : Nat, read : Nat,
              error : ErrorKind \cup {None}, saving : BOOLEAN, snap : StateMap \cup {None}]

(* A task that works on an upload has one, and it resumes before its end; a   *)
(* task that installs the states has read a file.                           *)
TaskSound(r) ==
    /\ r.pc \notin {"idle", "install"} => r.u \in Upload /\ r.resume < Size[r.u]
    /\ r.pc = "install" => r.snap \in StateMap

(* What the bucket holds under a key is the file of some upload to this key,   *)
(* from some resume point on, and never nothing of it.                        *)
ObjectSound(k) ==
    object[k] # None => \E u \in Upload : \E r \in 0 .. Size[u] - 1 :
                            KeyOf[u] = k /\ object[k] = FileFrom(u, r)

(* The inductive invariant. *)
IInv ==
    /\ uploads \in StateMap
    /\ disk \in StateMap \cup {None}
    /\ task \in [Task -> TaskState]
    /\ \A t \in Task : TaskSound(task[t])
    /\ DOMAIN object = Key /\ \A k \in Key : ObjectSound(k)
    /\ used \subseteq Upload
    /\ crashes \in 0 .. MaxCrash

(* Being a map of upload states is the same for the predicate and the set. *)
LEMMA MapsAreMaps == \A m : IsMap(m) <=> m \in StateMap
<1>1. ASSUME NEW m, IsMap(m) PROVE m \in StateMap
  BY <1>1 DEF IsMap, StateMap
<1>2. ASSUME NEW m, m \in StateMap PROVE IsMap(m)
  BY <1>2 DEF IsMap, StateMap
<1> QED BY <1>1, <1>2

(* The file from r on has Size[u] - r parts of the file.                      *)
LEMMA FileFromLength ==
    ASSUME NEW u \in Upload, NEW r \in 0 .. Size[u] - 1
    PROVE  /\ FileFrom(u, r) \in Seq(Upload \X Nat)
           /\ Len(FileFrom(u, r)) = Size[u] - r
<1>1. Size[u] \in Nat /\ Size[u] - r \in Nat
  BY SizeAssumption
<1>2. FileFrom(u, r) \in [1 .. Size[u] - r -> Upload \X Nat]
  BY <1>1 DEF FileFrom
<1> QED BY <1>1, <1>2

(* Changing, adding or dropping the state of an upload yields a map again.    *)
LEMMA MapUpdate ==
    ASSUME NEW m \in StateMap, NEW u \in Upload, NEW s \in State
    PROVE  /\ [v \in DOMAIN m \cup {u} |-> IF v = u THEN s ELSE m[v]] \in StateMap
           /\ u \in DOMAIN m => [m EXCEPT ![u] = s] \in StateMap
<1>1. PICK D \in SUBSET Upload : m \in [D -> State]
  BY DEF StateMap
<1>2. [v \in DOMAIN m \cup {u} |-> IF v = u THEN s ELSE m[v]] \in [D \cup {u} -> State]
  BY <1>1
<1>3. [m EXCEPT ![u] = s] \in [D -> State]
  BY <1>1
<1> QED BY <1>2, <1>3 DEF StateMap

LEMMA MapRestrict ==
    ASSUME NEW m \in StateMap, NEW S
    PROVE  Restrict(m, DOMAIN m \ S) \in StateMap
<1>1. PICK D \in SUBSET Upload : m \in [D -> State]
  BY DEF StateMap
<1>2. Restrict(m, DOMAIN m \ S) \in [D \ S -> State]
  BY <1>1 DEF Restrict
<1> QED BY <1>2 DEF StateMap

LEMMA MapEntry == ASSUME NEW m \in StateMap, NEW u \in DOMAIN m PROVE u \in Upload /\ m[u] \in State
BY DEF StateMap

-----------------------------------------------------------------------------
(* Task t gets a sound record, the other tasks keep theirs.                    *)
TaskMoves(t) == \E r \in TaskState : TaskSound(r) /\ task' = [task EXCEPT ![t] = r]

(* A step in which one task moves on and the maps stay maps keeps the          *)
(* invariant, when the bucket stays sound.                                    *)
LEMMA TaskStepKeeps ==
    ASSUME IInv, NEW t \in Task, TaskMoves(t), uploads' \in StateMap, disk' \in StateMap \cup {None},
           DOMAIN object' = Key, \A k \in Key : ObjectSound(k)', used' \subseteq Upload,
           crashes' = crashes
    PROVE  IInv'
<1>1. PICK r \in TaskState : TaskSound(r) /\ task' = [task EXCEPT ![t] = r]
  BY DEF TaskMoves
<1>2. task' \in [Task -> TaskState] /\ \A v \in Task : TaskSound(task'[v])
  BY <1>1 DEF IInv
<1> QED BY <1>2 DEF IInv

LEMMA ObjectUnchanged ==
    ASSUME IInv, object' = object
    PROVE  DOMAIN object' = Key /\ \A k \in Key : ObjectSound(k)'
BY DEF IInv, ObjectSound, FileFrom

(* The steps of a task: it goes on in upload_chunks, it begins a call, or it    *)
(* returns.                                                                  *)
LEMMA GotoMoves ==
    ASSUME IInv, NEW t \in Task, NEW pc \in PC, NEW saving \in BOOLEAN, Goto(t, pc, saving),
           pc # "install", task[t].u \in Upload, task[t].resume < Size[task[t].u]
    PROVE  TaskMoves(t)
<1> DEFINE r == [task[t] EXCEPT !.pc = pc, !.saving = saving]
<1>1. task[t] \in TaskState
  BY DEF IInv
<1>2. r \in TaskState /\ TaskSound(r)
  BY <1>1 DEF TaskState, TaskSound
<1>3. task' = [task EXCEPT ![t] = r]
  BY DEF Goto, IInv
<1> QED BY <1>2, <1>3 DEF TaskMoves

LEMMA ReturnMoves ==
    ASSUME IInv, NEW t \in Task, Return(t) \/ SaveAndReturn(t)
    PROVE  TaskMoves(t)
<1>1. IdleTask \in TaskState /\ TaskSound(IdleTask)
  BY DEF IdleTask, TaskState, PC, TaskSound
<1>2. [IdleTask EXCEPT !.saving = TRUE] \in TaskState /\ TaskSound([IdleTask EXCEPT !.saving = TRUE])
  BY DEF IdleTask, TaskState, PC, TaskSound
<1> QED BY <1>1, <1>2 DEF Return, SaveAndReturn, TaskMoves

LEMMA BeginsMoves ==
    ASSUME NEW t \in Task, NEW u \in Upload,
           task' = [task EXCEPT ![t] = [IdleTask EXCEPT !.pc = "begin", !.u = u, !.saving = TRUE]]
    PROVE  TaskMoves(t)
<1> DEFINE r == [IdleTask EXCEPT !.pc = "begin", !.u = u, !.saving = TRUE]
<1>1. r \in TaskState
  BY DEF IdleTask, TaskState, PC
<1>2. TaskSound(r)
  BY SizeAssumption DEF IdleTask, TaskSound
<1> QED BY <1>1, <1>2 DEF TaskMoves

(* A task that works on an upload has one and resumes before its end.          *)
LEMMA Working ==
    ASSUME IInv, NEW t \in Task, task[t].pc \notin {"idle", "install"}
    PROVE  task[t].u \in Upload /\ task[t].resume < Size[task[t].u]
BY DEF IInv, TaskSound

(* get_mut: the state of u is replaced when there is one.                      *)
LEMMA StoreKeepsMap ==
    ASSUME IInv, NEW u \in Upload, NEW s \in State, StoreState(u, s)
    PROVE  uploads' \in StateMap
BY MapUpdate DEF IInv, StoreState

LEMMA CurrentTyped == ASSUME IInv, NEW u \in Upload PROVE Current(u) \in State
BY MapEntry DEF IInv, Current, State, Status

-----------------------------------------------------------------------------
(* save_states and load_states: the file becomes the map, or the map the file. *)
LEMMA SavingKeeps ==
    ASSUME IInv, NEW t \in Task, SaveStates(t) \/ LoadStates(t) \/ InstallStates(t)
    PROVE  IInv'
<1>1. CASE SaveStates(t)
  <2> DEFINE r == [task[t] EXCEPT !.saving = FALSE]
  <2>1. task[t] \in TaskState /\ TaskSound(task[t])
    BY DEF IInv
  <2>2. r \in TaskState /\ TaskSound(r)
    BY <2>1 DEF TaskState, TaskSound
  <2>3. task' = [task EXCEPT ![t] = r]
    BY <1>1 DEF SaveStates, IInv
  <2>4. TaskMoves(t)
    BY <2>2, <2>3 DEF TaskMoves
  <2> QED BY <1>1, <2>4, ObjectUnchanged, TaskStepKeeps DEF SaveStates, IInv, hist
<1>2. CASE LoadStates(t)
  <2> DEFINE r == [IdleTask EXCEPT !.pc = "install", !.snap = disk]
  <2>1. disk \in StateMap
    BY <1>2 DEF LoadStates, IInv
  <2>2. r \in TaskState /\ TaskSound(r)
    BY <2>1 DEF IdleTask, TaskState, TaskSound, PC
  <2>3. TaskMoves(t)
    BY <1>2, <2>2 DEF LoadStates, TaskMoves
  <2> QED BY <1>2, <2>3, ObjectUnchanged, TaskStepKeeps DEF LoadStates, IInv, hist
<1>3. CASE InstallStates(t)
  <2>1. uploads' \in StateMap
    BY <1>3 DEF InstallStates, Ready, IInv, TaskSound
  <2>2. TaskMoves(t)
    BY <1>3, ReturnMoves DEF InstallStates
  <2> QED BY <1>3, <2>1, <2>2, ObjectUnchanged, TaskStepKeeps DEF InstallStates, IInv, hist
<1> QED BY <1>1, <1>2, <1>3

(* The calls of the manager: start, resume, pause, cancel, remove, clean up.   *)
LEMMA CallsKeep ==
    ASSUME IInv, NEW t \in Task, NEW u \in Upload,
           StartUpload(t, u) \/ ResumeUpload(t, u) \/ PauseUpload(t, u) \/ CancelUpload(t, u) \/ RemoveUpload(t, u)
    PROVE  IInv'
<1>0. uploads \in StateMap /\ disk \in StateMap \cup {None} /\ used \subseteq Upload
  BY DEF IInv
<1>1. CASE StartUpload(t, u)
  <2> DEFINE s == [status |-> "Pending", bytes |-> 0, error |-> None]
  <2>1. s \in State
    BY DEF State, Status
  <2>2. uploads' \in StateMap
    <3>1. uploads' = [v \in DOMAIN uploads \cup {u} |-> IF v = u THEN s ELSE uploads[v]]
      BY <1>1 DEF StartUpload
    <3> HIDE DEF s
    <3> QED BY <1>0, <2>1, <3>1, MapUpdate
  <2>3. TaskMoves(t)
    BY <1>1, BeginsMoves DEF StartUpload
  <2> QED BY <1>0, <1>1, <2>2, <2>3, ObjectUnchanged, TaskStepKeeps DEF StartUpload
<1>2. CASE ResumeUpload(t, u)
  <2> DEFINE s == [uploads[u] EXCEPT !.status = "InProgress", !.error = None]
  <2>1. uploads[u] \in State
    BY <1>0, <1>2, MapEntry DEF ResumeUpload
  <2>2. s \in State
    BY <2>1 DEF State, Status
  <2>3. uploads' = [uploads EXCEPT ![u] = s]
    BY <1>0, <1>2, <2>1 DEF ResumeUpload, StateMap, State
  <2>4. uploads' \in StateMap
    <3>1. u \in DOMAIN uploads
      BY <1>2 DEF ResumeUpload
    <3> HIDE DEF s
    <3> QED BY <1>0, <2>2, <2>3, <3>1, MapUpdate
  <2>5. TaskMoves(t)
    BY <1>2, BeginsMoves DEF ResumeUpload
  <2> QED BY <1>0, <1>2, <2>4, <2>5, ObjectUnchanged, TaskStepKeeps DEF ResumeUpload, hist
<1>3. CASE PauseUpload(t, u)
  <2> DEFINE s == [uploads[u] EXCEPT !.status = "Paused"]
  <2>1. uploads[u] \in State
    BY <1>0, <1>3, MapEntry DEF PauseUpload
  <2>2. s \in State
    BY <2>1 DEF State, Status
  <2>3. uploads' = [uploads EXCEPT ![u] = s]
    BY <1>0, <1>3, <2>1 DEF PauseUpload, StateMap, State
  <2>4. uploads' \in StateMap
    <3>1. u \in DOMAIN uploads
      BY <1>3 DEF PauseUpload
    <3> HIDE DEF s
    <3> QED BY <1>0, <2>2, <2>3, <3>1, MapUpdate
  <2>5. TaskMoves(t)
    BY <1>3, ReturnMoves DEF PauseUpload
  <2> QED BY <1>0, <1>3, <2>4, <2>5, ObjectUnchanged, TaskStepKeeps DEF PauseUpload, hist
<1>4. CASE CancelUpload(t, u)
  <2>1. TaskMoves(t)
    <3> DEFINE r == [IdleTask EXCEPT !.pc = "remove", !.u = u]
    <3>1. r \in TaskState
      BY DEF IdleTask, TaskState, PC
    <3>2. TaskSound(r)
      BY SizeAssumption DEF IdleTask, TaskSound
    <3> QED BY <1>4, <3>1, <3>2 DEF CancelUpload, TaskMoves
  <2>2. DOMAIN object' = Key /\ \A k \in Key : ObjectSound(k)'
    <3>1. object' = [object EXCEPT ![KeyOf[u]] = None] /\ KeyOf[u] \in Key
      BY <1>4, KeyAssumption DEF CancelUpload
    <3>2. ASSUME NEW k \in Key PROVE ObjectSound(k)'
      <4>1. CASE k = KeyOf[u]
        BY <3>1, <4>1 DEF IInv, ObjectSound
      <4>2. CASE k # KeyOf[u]
        BY <3>1, <4>2 DEF IInv, ObjectSound, FileFrom
      <4> QED BY <4>1, <4>2
    <3> QED BY <3>1, <3>2 DEF IInv
  <2> QED BY <1>0, <1>4, <2>1, <2>2, TaskStepKeeps DEF CancelUpload, hist
<1>5. CASE RemoveUpload(t, u)
  <2>1. uploads' \in StateMap
    BY <1>0, <1>5, MapRestrict DEF RemoveUpload
  <2>2. TaskMoves(t)
    BY <1>5, ReturnMoves DEF RemoveUpload
  <2> QED BY <1>0, <1>5, <2>1, <2>2, ObjectUnchanged, TaskStepKeeps DEF RemoveUpload, hist
<1> QED BY <1>1, <1>2, <1>3, <1>4, <1>5

(* upload_chunks up to the read loop.                                          *)
LEMMA OpeningKeeps ==
    ASSUME IInv, NEW t \in Task,
           \/ Begin(t) \/ UploadNotFound(t) \/ DetermineResumePoint(t) \/ OpenFile(t) \/ LocalFileFails(t)
    PROVE  IInv'
<1>0. uploads \in StateMap /\ disk \in StateMap \cup {None} /\ used \subseteq Upload
  BY DEF IInv
<1>1. CASE Begin(t)
  <2> DEFINE u == task[t].u
             s == [uploads[u] EXCEPT !.status = "InProgress"]
  <2>1. u \in Upload /\ task[t].resume < Size[u]
    BY <1>1, Working DEF Begin, Ready
  <2>2. TaskMoves(t)
    BY <1>1, <2>1, GotoMoves DEF Begin, PC
  <2>3. uploads' \in StateMap
    <3>1. CASE u \in DOMAIN uploads /\ uploads[u].status = "Pending"
      <4>1. uploads[u] \in State
        BY <1>0, <3>1, MapEntry
      <4>2. s \in State
        BY <4>1 DEF State, Status
      <4>3. uploads' = [uploads EXCEPT ![u] = s]
        BY <1>0, <1>1, <3>1, <4>1 DEF Begin, StateMap, State
      <4> HIDE DEF s, u
      <4> QED BY <1>0, <2>1, <3>1, <4>2, <4>3, MapUpdate
    <3>2. CASE ~(u \in DOMAIN uploads /\ uploads[u].status = "Pending")
      BY <1>0, <1>1, <3>2 DEF Begin
    <3> QED BY <3>1, <3>2
  <2> QED BY <1>0, <1>1, <2>2, <2>3, ObjectUnchanged, TaskStepKeeps DEF Begin, hist
<1>2. CASE UploadNotFound(t) \/ LocalFileFails(t)
  <2>1. TaskMoves(t)
    BY <1>2, ReturnMoves DEF UploadNotFound, LocalFileFails
  <2> QED BY <1>0, <1>2, <2>1, ObjectUnchanged, TaskStepKeeps DEF UploadNotFound, LocalFileFails, hist
<1>3. CASE DetermineResumePoint(t)
  <2> DEFINE u == task[t].u
             r == [task[t] EXCEPT !.pc = "open", !.resume = ResumePoint(u)]
  <2>1. u \in Upload /\ u \in DOMAIN uploads /\ task[t] \in TaskState
    BY <1>3, Working DEF DetermineResumePoint, Ready, IInv
  <2>2. uploads[u].bytes \in Nat
    BY <1>0, <2>1, MapEntry DEF State
  <2>3. ResumePoint(u) \in Nat /\ ResumePoint(u) < Size[u]
    BY <2>1, <2>2, SizeAssumption DEF ResumePoint
  <2>4. r \in TaskState /\ TaskSound(r)
    BY <2>1, <2>3 DEF TaskState, TaskSound, PC
  <2>5. task' = [task EXCEPT ![t] = r]
    BY <1>3 DEF DetermineResumePoint, IInv
  <2>6. TaskMoves(t)
    BY <2>4, <2>5 DEF TaskMoves
  <2> QED BY <1>0, <1>3, <2>6, ObjectUnchanged, TaskStepKeeps DEF DetermineResumePoint, hist
<1>4. CASE OpenFile(t)
  <2> DEFINE u == task[t].u
             s == [uploads[u] EXCEPT !.bytes = task[t].resume,
                                     !.status = IF @ = "Pending" THEN "InProgress" ELSE @]
  <2>1. u \in Upload /\ task[t].resume < Size[u] /\ u \in DOMAIN uploads /\ task[t] \in TaskState
    BY <1>4, Working DEF OpenFile, Ready, IInv
  <2>2. uploads[u] \in State
    BY <1>0, <2>1, MapEntry
  <2>3. s \in State
    BY <2>1, <2>2 DEF State, Status, TaskState
  <2>4. uploads' = [uploads EXCEPT ![u] = s]
    BY <1>0, <1>4, <2>1, <2>2 DEF OpenFile, StateMap, State
  <2>5. uploads' \in StateMap
    <3> HIDE DEF s, u
    <3> QED BY <1>0, <2>1, <2>3, <2>4, MapUpdate
  <2>6. TaskMoves(t)
    BY <1>4, <2>1, GotoMoves DEF OpenFile, PC
  <2> QED BY <1>0, <1>4, <2>5, <2>6, ObjectUnchanged, TaskStepKeeps DEF OpenFile, hist
<1> QED BY <1>1, <1>2, <1>3, <1>4

(* The read loop, the write of the object and what follows it.                 *)
LEMMA TransferKeeps ==
    ASSUME IInv, NEW t \in Task,
           \/ ReadChunk(t) \/ EndOfFile(t) \/ WriteObject(t) \/ (\E e \in ErrorKind : WriteFails(t, e))
           \/ MarkCompleted(t) \/ MarkFailed(t) \/ VerifyOk(t) \/ VerifyFails(t)
    PROVE  IInv'
<1> DEFINE u == task[t].u
<1>0. uploads \in StateMap /\ disk \in StateMap \cup {None} /\ used \subseteq Upload /\ task[t] \in TaskState
  BY DEF IInv
<1>1. u \in Upload /\ task[t].resume < Size[u] /\ Current(u) \in State /\ Size[u] \in Nat
  <2>1. task[t].pc \notin {"idle", "install"}
    BY DEF ReadChunk, EndOfFile, WriteObject, WriteFails, MarkCompleted, MarkFailed, VerifyOk, VerifyFails, Ready
  <2> QED BY <2>1, Working, CurrentTyped, SizeAssumption
<1>2. CASE ReadChunk(t)
  <2> DEFINE n == task[t].read + 1
             s == [Current(u) EXCEPT !.bytes = task[t].resume + n]
             r == [task[t] EXCEPT !.read = n, !.saving = (n % SaveEvery = 0)]
  <2>1. s \in State
    BY <1>0, <1>1 DEF State, TaskState
  <2>2. StoreState(u, s)
    BY <1>2 DEF ReadChunk
  <2>3. uploads' \in StateMap
    <3> HIDE DEF s, u
    <3> QED BY <1>1, <2>1, <2>2, StoreKeepsMap
  <2>4. r \in TaskState /\ TaskSound(r)
    <3> DEFINE b == (n % SaveEvery = 0)
    <3>1. b \in BOOLEAN /\ n \in Nat /\ task[t].pc = "read"
      BY <1>0, <1>2 DEF TaskState, ReadChunk, Ready
    <3> HIDE DEF b, n
    <3> QED BY <1>0, <1>1, <3>1 DEF TaskState, TaskSound
  <2>5. task' = [task EXCEPT ![t] = r]
    BY <1>2 DEF ReadChunk, IInv
  <2>6. TaskMoves(t)
    BY <2>4, <2>5 DEF TaskMoves
  <2> QED BY <1>0, <1>2, <2>3, <2>6, ObjectUnchanged, TaskStepKeeps DEF ReadChunk, hist
<1>3. CASE EndOfFile(t)
  <2> DEFINE s == [Current(u) EXCEPT !.bytes = (Size[u] * 95) \div 100]
  <2>1. (Size[u] * 95) \div 100 \in Nat
    BY <1>1
  <2>2. s \in State
    BY <1>1, <2>1 DEF State
  <2>3. StoreState(u, s)
    BY <1>3 DEF EndOfFile
  <2>4. uploads' \in StateMap
    <3> HIDE DEF s, u
    <3> QED BY <1>1, <2>2, <2>3, StoreKeepsMap
  <2>5. TaskMoves(t)
    BY <1>1, <1>3, GotoMoves DEF EndOfFile, PC
  <2> QED BY <1>0, <1>3, <2>4, <2>5, ObjectUnchanged, TaskStepKeeps DEF EndOfFile, hist
<1>4. CASE WriteObject(t)
  <2>1. TaskMoves(t)
    BY <1>1, <1>4, GotoMoves DEF WriteObject, PC
  <2>2. task[t].resume \in 0 .. Size[u] - 1
    BY <1>0, <1>1 DEF TaskState
  <2>3. object' = [object EXCEPT ![KeyOf[u]] = FileFrom(u, task[t].resume)]
    BY <1>4 DEF WriteObject
  <2>4. DOMAIN object' = Key
    BY <2>3 DEF IInv
  <2>5. ASSUME NEW k \in Key PROVE ObjectSound(k)'
    <3>1. CASE k = KeyOf[u]
      BY <1>1, <2>2, <2>3, <3>1 DEF ObjectSound, IInv, FileFrom
    <3>2. CASE k # KeyOf[u]
      BY <1>1, <2>3, <3>2 DEF ObjectSound, IInv, FileFrom
    <3> QED BY <3>1, <3>2
  <2> QED BY <1>0, <1>4, <2>1, <2>4, <2>5, TaskStepKeeps DEF WriteObject, hist
<1>5. ASSUME NEW e \in ErrorKind, WriteFails(t, e) PROVE IInv'
  <2> DEFINE r == [task[t] EXCEPT !.pc = "fail", !.error = e]
  <2>1. r \in TaskState /\ TaskSound(r)
    BY <1>0, <1>1 DEF TaskState, TaskSound, PC
  <2>2. task' = [task EXCEPT ![t] = r]
    BY <1>5 DEF WriteFails, IInv
  <2>3. TaskMoves(t)
    BY <2>1, <2>2 DEF TaskMoves
  <2> QED BY <1>0, <1>5, <2>3, ObjectUnchanged, TaskStepKeeps DEF WriteFails, hist
<1>6. CASE MarkCompleted(t)
  <2> DEFINE s == [Current(u) EXCEPT !.bytes = Size[u], !.status = "Completed"]
  <2>1. s \in State
    BY <1>1 DEF State, Status
  <2>2. StoreState(u, s)
    BY <1>6 DEF MarkCompleted
  <2>3. uploads' \in StateMap
    <3> HIDE DEF s, u
    <3> QED BY <1>1, <2>1, <2>2, StoreKeepsMap
  <2>4. TaskMoves(t)
    BY <1>1, <1>6, GotoMoves DEF MarkCompleted, PC
  <2> QED BY <1>0, <1>6, <2>3, <2>4, ObjectUnchanged, TaskStepKeeps DEF MarkCompleted, hist
<1>7. CASE MarkFailed(t)
  <2> DEFINE s == [Current(u) EXCEPT !.status = "Failed", !.error = task[t].error]
  <2>1. s \in State
    BY <1>0, <1>1 DEF State, Status, TaskState
  <2>2. StoreState(u, s)
    BY <1>7 DEF MarkFailed
  <2>3. uploads' \in StateMap
    <3> HIDE DEF s, u
    <3> QED BY <1>1, <2>1, <2>2, StoreKeepsMap
  <2>4. TaskMoves(t)
    BY <1>7, ReturnMoves DEF MarkFailed
  <2> QED BY <1>0, <1>7, <2>3, <2>4, ObjectUnchanged, TaskStepKeeps DEF MarkFailed, hist
<1>8. CASE VerifyOk(t) \/ VerifyFails(t)
  <2>1. TaskMoves(t)
    BY <1>8, ReturnMoves DEF VerifyOk, VerifyFails
  <2> QED BY <1>0, <1>8, <2>1, ObjectUnchanged, TaskStepKeeps DEF VerifyOk, VerifyFails, hist
<1> QED BY <1>2, <1>3, <1>4, <1>5, <1>6, <1>7, <1>8

(* IInv is inductive.                                                         *)
THEOREM UploadInductive == Spec => []IInv
<1>1. Init => IInv
  <2>1. << >> \in StateMap
    BY DEF StateMap
  <2>2. IdleTask \in TaskState /\ TaskSound(IdleTask)
    BY DEF IdleTask, TaskState, PC, TaskSound
  <2> QED BY <2>1, <2>2, BoundAssumption DEF Init, IInv, ObjectSound
<1>2. IInv /\ [Next]_vars => IInv'
  <2> SUFFICES ASSUME IInv, [Next]_vars PROVE IInv'
    OBVIOUS
  <2>1. ASSUME NEW t \in Task, Manage(t) PROVE IInv'
    <3>1. ASSUME NEW old \in SUBSET DOMAIN uploads, CleanupOldUploads(t, old) PROVE IInv'
      <4>1. uploads' \in StateMap
        BY <3>1, MapRestrict DEF CleanupOldUploads, IInv
      <4>2. TaskMoves(t)
        BY <3>1, ReturnMoves DEF CleanupOldUploads
      <4> QED BY <3>1, <4>1, <4>2, ObjectUnchanged, TaskStepKeeps DEF CleanupOldUploads, IInv, hist
    <3> QED BY <2>1, <3>1, CallsKeep, SavingKeeps DEF Manage
  <2>2. ASSUME NEW t \in Task, CancelRemove(t) PROVE IInv'
    <3>1. uploads' \in StateMap
      BY <2>2, MapRestrict DEF CancelRemove, IInv
    <3>2. TaskMoves(t)
      BY <2>2, ReturnMoves DEF CancelRemove
    <3> QED BY <2>2, <3>1, <3>2, ObjectUnchanged, TaskStepKeeps DEF CancelRemove, IInv, hist
  <2>3. ASSUME NEW t \in Task, Proceed(t) PROVE IInv'
    BY <2>2, <2>3, SavingKeeps, OpeningKeeps, TransferKeeps DEF Proceed
  <2>4. CASE Restart
    <3>1. << >> \in StateMap
      BY DEF StateMap
    <3>2. IdleTask \in TaskState /\ TaskSound(IdleTask)
      BY DEF IdleTask, TaskState, PC, TaskSound
    <3>3. crashes' \in 0 .. MaxCrash
      BY <2>4, BoundAssumption DEF Restart, IInv
    <3> QED BY <2>4, <3>1, <3>2, <3>3, ObjectUnchanged DEF Restart, IInv
  <2>5. CASE UNCHANGED vars
    BY <2>5, ObjectUnchanged DEF vars, IInv
  <2> QED BY <2>1, <2>3, <2>4, <2>5, OpeningKeeps, TransferKeeps DEF Next
<1> QED BY <1>1, <1>2, PTL DEF Spec

-----------------------------------------------------------------------------
(* The manager's state is always well typed, and however tasks, failures,      *)
(* pauses, cancellations and restarts follow each other, no key of the bucket  *)
(* ever holds an empty object (multipart_upload.rs 262-266, 441-452).          *)
THEOREM BucketCorrect == Spec => []BucketSound
<1>1. IInv => TypeOK
  <2> SUFFICES ASSUME IInv PROVE TypeOK
    OBVIOUS
  <2>1. ASSUME NEW k \in Key, object[k] # None PROVE object[k] \in Seq(Upload \X Nat)
    BY <2>1, FileFromLength DEF IInv, ObjectSound
  <2>2. ASSUME NEW t \in Task
        PROVE  /\ task[t].pc \in PC /\ task[t].u \in Upload \cup {None}
               /\ task[t].resume \in Nat /\ task[t].read \in Nat
               /\ task[t].error \in ErrorKind \cup {None} /\ task[t].saving \in BOOLEAN
               /\ task[t].snap # None => IsMap(task[t].snap)
    BY MapsAreMaps DEF IInv, TaskState
  <2> QED BY <2>1, <2>2, MapsAreMaps DEF IInv, TypeOK
<1>2. IInv => NeverEmptyObject
  <2> SUFFICES ASSUME IInv, NEW k \in Key PROVE object[k] # << >>
    BY DEF NeverEmptyObject
  <2>1. CASE object[k] = None
    BY <2>1, NoneAssumption
  <2>2. CASE object[k] # None
    <3>1. PICK u \in Upload : \E r \in 0 .. Size[u] - 1 : object[k] = FileFrom(u, r)
      BY <2>2 DEF IInv, ObjectSound
    <3>2. Len(object[k]) > 0
      BY <3>1, FileFromLength, SizeAssumption
    <3> QED BY <3>2
  <2> QED BY <2>1, <2>2
<1> QED BY <1>1, <1>2, UploadInductive, PTL DEF BucketSound

(* A call that returns Ok has seen the whole file in the bucket, whichever     *)
(* tasks wrote it (487-509), or as many bytes of another upload to its key.     *)
THEOREM ConfirmedCorrect == Spec => ConfirmedIsWhole
<1>1. IInv /\ [Next]_vars => [\A t \in Task : VerifyOk(t) => WholeOrOverwritten(task[t].u)]_vars
  <2> SUFFICES ASSUME IInv, NEW t \in Task, VerifyOk(t) PROVE WholeOrOverwritten(task[t].u)
    OBVIOUS
  <2> DEFINE u == task[t].u
             k == KeyOf[u]
  <2>1. u \in Upload /\ object[k] # None /\ Len(object[k]) = Size[u]
    BY Working DEF VerifyOk, VerifiedSize, Ready
  <2>0. PICK v \in Upload : \E r \in 0 .. Size[v] - 1 : KeyOf[v] = k /\ object[k] = FileFrom(v, r)
    BY <2>1, KeyAssumption DEF IInv, ObjectSound
  <2>2. PICK r \in 0 .. Size[v] - 1 : KeyOf[v] = k /\ object[k] = FileFrom(v, r)
    BY <2>0
  <2>3. Size[v] - r = Size[u] /\ (v = u => r = 0)
    BY <2>1, <2>2, FileFromLength, SizeAssumption
  <2>4. CASE v = u
    BY <2>2, <2>3, <2>4 DEF Whole, WholeOrOverwritten
  <2>5. CASE v # u
    BY <2>2, <2>3, <2>5, Zenon DEF Overwritten, WholeOrOverwritten
  <2> QED BY <2>4, <2>5
<1> QED BY <1>1, UploadInductive, PTL DEF Spec, ConfirmedIsWhole

(* A task that outlives its upload never puts it back: of all steps only       *)
(* start_upload, with a new id, and load_states add an upload to the map.      *)
THEOREM ResurrectionImpossible == Spec => TasksNeverResurrect
<1> DEFINE Back == \A u \in DOMAIN uploads' \ DOMAIN uploads :
                     \/ \E t \in Task : task[t].pc = "install" /\ task'[t].pc = "idle"
                     \/ uploads'[u].status = "Pending" /\ u \notin used
<1>1. IInv /\ [Next]_vars => [Back]_vars
  <2> SUFFICES ASSUME IInv, Next PROVE Back
    OBVIOUS
  <2>1. ASSUME NEW t \in Task, NEW u \in Upload, StartUpload(t, u) PROVE Back
    BY <2>1 DEF StartUpload
  <2>2. ASSUME NEW t \in Task, InstallStates(t) PROVE Back
    BY <2>2 DEF InstallStates, Ready, Return, IInv, IdleTask
  <2>3. ASSUME DOMAIN uploads' \subseteq DOMAIN uploads PROVE Back
    BY <2>3
  <2>4. ASSUME NEW t \in Task, NEW u \in Upload,
               ResumeUpload(t, u) \/ PauseUpload(t, u) \/ CancelUpload(t, u) \/ RemoveUpload(t, u)
        PROVE  DOMAIN uploads' \subseteq DOMAIN uploads
    BY <2>4 DEF ResumeUpload, PauseUpload, CancelUpload, RemoveUpload, Restrict
  <2>5. ASSUME NEW t \in Task, NEW old, CleanupOldUploads(t, old) PROVE DOMAIN uploads' \subseteq DOMAIN uploads
    BY <2>5 DEF CleanupOldUploads, Restrict
  <2>6. ASSUME NEW t \in Task, NEW e, LocalFileFails(t) \/ WriteFails(t, e) \/ LoadStates(t) \/ SaveStates(t)
        PROVE  DOMAIN uploads' \subseteq DOMAIN uploads
    BY <2>6 DEF LocalFileFails, WriteFails, LoadStates, SaveStates
  <2>7. ASSUME NEW t \in Task, CancelRemove(t) \/ Begin(t) \/ UploadNotFound(t) \/ DetermineResumePoint(t) \/ OpenFile(t)
        PROVE  DOMAIN uploads' \subseteq DOMAIN uploads
    BY <2>7 DEF CancelRemove, Begin, UploadNotFound, DetermineResumePoint, OpenFile, Restrict
  <2>8. ASSUME NEW t \in Task, ReadChunk(t) \/ EndOfFile(t) \/ WriteObject(t) \/ MarkCompleted(t) \/ MarkFailed(t)
                               \/ VerifyOk(t) \/ VerifyFails(t)
        PROVE  DOMAIN uploads' \subseteq DOMAIN uploads
    BY <2>8 DEF ReadChunk, EndOfFile, WriteObject, MarkCompleted, MarkFailed, VerifyOk, VerifyFails, StoreState
  <2>9. CASE Restart
    BY <2>9 DEF Restart
  <2>10. ASSUME NEW t \in Task, Manage(t) \/ Proceed(t) PROVE Back
    BY <2>10, <2>1, <2>2, <2>3, <2>4, <2>5, <2>6, <2>7, <2>8 DEF Manage, Proceed
  <2> HIDE DEF Back
  <2> QED BY <2>3, <2>6, <2>9, <2>10 DEF Next
<1> QED BY <1>1, UploadInductive, PTL DEF Spec, TasksNeverResurrect

(****************************************************************************)
(* The batch upload                                                         *)
(****************************************************************************)
(* The record of a batch in the tracker. *)
LEMMA Smallest == ASSUME NEW T, T \subseteq Nat, T # {} PROVE \E i \in T : \A j \in T : i <= j
<1>1. PICK x \in T : \A y \in T : ~(<<y, x>> \in OpToRel(<, Nat)) BY NatLessThanWellFounded, WFMin
<1>2. \A y \in T : ~(y < x) BY <1>1 DEF OpToRel
<1> QED BY <1>2

\* The tracker's record: a file that failed is never passed over.
EntryShape(e) ==
    /\ DOMAIN e = {"there", "status", "done", "files"} /\ e.status \in {"Pending", "InProgress", "Completed", "Failed", "Canceled"}
    /\ DOMAIN e.files \subseteq Nat /\ \A i \in DOMAIN e.files : DOMAIN e.files[i] = {"path", "status"}
EntryRight(e, failed) ==
    /\ EntryShape(e)
    /\ e.there => \A i \in DOMAIN e.files : e.files[i].path \in failed => e.status \in {"Failed", "Canceled"}

LEMMA MarkedFailed ==
    ASSUME NEW e, EntryShape(e), NEW p, NEW fs, fs = MarkFileFailed(e.files, p)
    PROVE  /\ DOMAIN fs = DOMAIN e.files /\ \A i \in DOMAIN fs : DOMAIN fs[i] = {"path", "status"} /\ fs[i].path = e.files[i].path
           /\ (\E i \in DOMAIN fs : fs[i].path = p) => AnyFailed(fs)
<1>1. PICK mine : mine = {i \in DOMAIN e.files : e.files[i].path = p} OBVIOUS
<1>2. CASE mine = {} BY <1>1, <1>2 DEF MarkFileFailed, EntryShape
<1>3. CASE mine # {}
  <2>1. \E i \in mine : \A j \in mine : i <= j BY <1>1, <1>3, Smallest DEF EntryShape
  <2>2. PICK k : k = CHOOSE i \in mine : \A j \in mine : i <= j OBVIOUS
  <2>3. k \in mine BY <2>1, <2>2
  <2>4. PICK f : f = [e.files[k] EXCEPT !.status = "Failed"] OBVIOUS
  <2>5. DOMAIN f = {"path", "status"} /\ f.status = "Failed" /\ f.path = e.files[k].path BY <1>1, <2>3, <2>4 DEF EntryShape
  <2>6. fs = [e.files EXCEPT ![k] = f] BY <1>1, <1>3, <2>2, <2>4 DEF MarkFileFailed
  <2>7. DOMAIN fs = DOMAIN e.files /\ fs[k] = f /\ \A i \in DOMAIN fs : i # k => fs[i] = e.files[i] BY <1>1, <2>3, <2>6
  <2>8. AnyFailed(fs) BY <1>1, <2>3, <2>5, <2>7 DEF AnyFailed
  <2>9. \A i \in DOMAIN fs : DOMAIN fs[i] = {"path", "status"} /\ fs[i].path = e.files[i].path BY <2>5, <2>7 DEF EntryShape
  <2> QED BY <2>7, <2>8, <2>9
<1> QED BY <1>2, <1>3

LEMMA FailedRight ==
    ASSUME NEW e, NEW failed, EntryRight(e, failed), NEW p
    PROVE  EntryRight(FileFailed(e, p), failed \cup {p})
<1>1. PICK fs : fs = MarkFileFailed(e.files, p) OBVIOUS
<1>2. /\ DOMAIN fs = DOMAIN e.files /\ \A i \in DOMAIN fs : DOMAIN fs[i] = {"path", "status"} /\ fs[i].path = e.files[i].path
      /\ (\E i \in DOMAIN fs : fs[i].path = p) => AnyFailed(fs)
  BY <1>1, MarkedFailed DEF EntryRight
<1>3. PICK st : st = (IF AnyFailed(fs) THEN "Failed" ELSE IF fs # << >> /\ e.status = "Pending" THEN "InProgress" ELSE e.status) OBVIOUS
<1>4. PICK g : g = FileFailed(e, p) OBVIOUS
<1>5. DOMAIN g = {"there", "status", "done", "files"} /\ g.files = fs /\ g.status = st /\ g.there = e.there
  BY <1>1, <1>3, <1>4 DEF FileFailed, EntryRight, EntryShape
<1>6. st \in {"Pending", "InProgress", "Completed", "Failed", "Canceled"} BY <1>3 DEF EntryRight, EntryShape
<1>7. EntryShape(g) BY <1>2, <1>5, <1>6 DEF EntryRight, EntryShape
<1>8. ASSUME e.there, NEW i \in DOMAIN fs, fs[i].path \in failed \cup {p} PROVE st \in {"Failed", "Canceled"}
  <2>1. CASE fs[i].path = p BY <1>2, <1>3, <2>1
  <2>2. CASE fs[i].path \in failed
    <3>1. e.status \in {"Failed", "Canceled"} BY <1>2, <1>8, <2>2 DEF EntryRight
    <3> QED BY <1>3, <3>1
  <2> QED BY <1>8, <2>1, <2>2
<1> QED BY <1>4, <1>5, <1>7, <1>8 DEF EntryRight

LEMMA EntryOpsRight ==
    ASSUME NEW e, NEW failed, EntryRight(e, failed)
    PROVE  /\ EntryRight(Progress(e), failed) /\ EntryRight(FailIfAll(e), failed) /\ EntryRight(Complete(e), failed)
           /\ EntryRight([e EXCEPT !.status = "Canceled", !.done = TRUE], failed)

<1>1. EntryRight(Progress(e), failed)
  <2>1. PICK g : g = Progress(e) OBVIOUS
  <2>2. DOMAIN g = {"there", "status", "done", "files"} /\ g.files = e.files /\ g.there = e.there
        /\ g.status = (IF e.status = "Pending" THEN "InProgress" ELSE e.status)
    BY <2>1 DEF Progress, EntryRight, EntryShape
  <2> QED BY <2>1, <2>2 DEF EntryRight, EntryShape
<1>2. ASSUME NEW st \in {"Completed", "Failed", "Canceled"}, st = "Completed" => e.files = << >>
      PROVE  EntryRight([e EXCEPT !.status = st, !.done = TRUE], failed)
  <2>1. PICK g : g = [e EXCEPT !.status = st, !.done = TRUE] OBVIOUS
  <2>2. DOMAIN g = {"there", "status", "done", "files"} /\ g.files = e.files /\ g.there = e.there /\ g.status = st
    BY <2>1 DEF EntryRight, EntryShape
  <2>3. EntryShape(g) BY <2>2 DEF EntryRight, EntryShape
  <2>4. DOMAIN << >> = {} OBVIOUS
  <2>5. \A i \in DOMAIN g.files : g.status \in {"Failed", "Canceled"} BY <1>2, <2>2, <2>4
  <2> QED BY <2>1, <2>3, <2>5 DEF EntryRight
<1>3. EntryRight(FailIfAll(e), failed) BY <1>2 DEF FailIfAll
<1>4. EntryRight(Complete(e), failed) BY <1>2 DEF Complete
<1>5. EntryRight([e EXCEPT !.status = "Canceled", !.done = TRUE], failed) BY <1>2
<1> QED BY <1>1, <1>3, <1>4, <1>5

-----------------------------------------------------------------------------
(* The command, the tasks and the user. *)
BatchShape(b) == /\ DOMAIN b = {"pc", "items", "todo", "stack", "queue", "next"} /\ b.pc \in {"idle", "source", "collect", "walk", "start", "save", "over"}
                 /\ \E S : b.queue \in Seq(S)
                 /\ b.next \in 1 .. Len(b.queue) + 1 /\ (b.pc = "save" => b.next <= Len(b.queue))
DriverPcs == {"begin", "read", "write", "verify", "report", "judge", "over"}
TasksRight == DOMAIN manager \subseteq Ids /\ DOMAIN store.saved \subseteq Ids /\ DOMAIN store.seen \subseteq Ids /\ DOMAIN driver \subseteq Ids /\ \A u \in DOMAIN driver : driver[u] \in DriverPcs
UserShape == /\ DOMAIN history = {"skipped", "failed", "cancelled", "calm"} /\ DOMAIN user = {"pc", "cmd", "list"} /\ user.pc \in {"idle", "remove", "save", "mark"}
             /\ DOMAIN store = {"saved", "pc", "seen"} /\ (batch.pc = "idle" => DOMAIN store.saved = {} /\ DOMAIN store.seen = {})
             /\ batch.pc = "idle" => history.failed = {} /\ DOMAIN driver = {} /\ DOMAIN manager = {} /\ user.pc = "idle" /\ store.pc = "idle"
\* A cancellation that came after the batch was started has removed all uploads it found, from memory and
\* then from the file, and none is added.
NoneKept == DOMAIN manager = {} /\ DOMAIN store.saved = {}
CancelRight ==
    /\ history.cancelled => batch.pc = "over" /\ NoneKept /\ DOMAIN store.seen = {}
    /\ history.calm /\ user.pc \in {"remove", "save"} => DOMAIN manager \subseteq user.list
    /\ history.calm /\ user.pc = "remove" => DOMAIN store.saved \subseteq DOMAIN manager
    /\ history.calm /\ user.pc = "mark" => NoneKept
    /\ history.calm /\ user.pc # "idle" => batch.pc = "over" /\ store.pc = "idle" /\ DOMAIN store.seen = {}
    /\ store.pc = "idle" => DOMAIN store.seen = {}
BatchInv == EntryRight(entry, history.failed) /\ BatchShape(batch) /\ TasksRight /\ UserShape /\ CancelRight

LEMMA BatchStart == BatchInit => BatchInv
<1> SUFFICES ASSUME BatchInit PROVE BatchInv OBVIOUS
<1>1. DOMAIN << >> = {} /\ Len(<< >>) = 0 /\ << >> \in Seq({}) OBVIOUS
<1>2. EntryRight(entry, history.failed) BY <1>1 DEF BatchInit, NoEntry, EntryRight, EntryShape
<1>3. BatchShape(batch) BY <1>1 DEF BatchInit, NoBatch, BatchShape
<1>4. TasksRight BY <1>1 DEF BatchInit, TasksRight, NoStore
<1>5. UserShape /\ CancelRight BY <1>1 DEF BatchInit, UserShape, CancelRight, NoneKept, NoHistory, NoUser, NoStore
<1> QED BY <1>2, <1>3, <1>4, <1>5 DEF BatchInv

\* The command goes on; what it queued stays queued.
LEMMA BatchCommandStep ==
    ASSUME BatchInv, batch.pc # "over", EntryRight(entry', history'.failed), BatchShape(batch'), batch'.pc # "idle", Len(batch'.queue) >= Len(batch.queue),
           UNCHANGED <<manager, store, driver, user>>, DOMAIN history' = DOMAIN history, history'.cancelled = history.cancelled, history'.calm = history.calm
    PROVE  BatchInv'
<1>1. Len(batch.queue) \in Nat /\ Len(batch'.queue) \in Nat BY DEF BatchInv, BatchShape
<1>2. Ids \subseteq Ids' BY <1>1 DEF Ids
<1>3. TasksRight' BY <1>2 DEF BatchInv, TasksRight
<1>4. UserShape' BY DEF BatchInv, UserShape
<1>5. CancelRight' BY DEF BatchInv, CancelRight, NoneKept
<1> QED BY <1>3, <1>4, <1>5 DEF BatchInv

LEMMA CommandRight ==
    ASSUME BatchInv, \/ \E items \in BatchItems : vfs_batch_upload(items)
                     \/ SourceChecked \/ CollectItem \/ WalkFolder \/ BatchReturns
    PROVE  BatchInv'
<1>1. PICK S : batch.queue \in Seq(S) BY DEF BatchInv, BatchShape
<1>2. Len(batch.queue) \in Nat /\ batch.next \in 1 .. Len(batch.queue) + 1 BY <1>1 DEF BatchInv, BatchShape
<1>3. DOMAIN batch = {"pc", "items", "todo", "stack", "queue", "next"} BY DEF BatchInv, BatchShape
<1>4. ASSUME NEW items \in BatchItems, vfs_batch_upload(items) PROVE BatchInv'
  <2>1. /\ batch.pc = "idle" /\ history' = history /\ UNCHANGED <<manager, store, driver, user>>
        /\ entry' = [there |-> TRUE, status |-> "Pending", done |-> FALSE, files |-> operation_files(items)]
        /\ batch' = [NoBatch EXCEPT !.pc = "source", !.items = items, !.todo = items]
    BY <1>4 DEF vfs_batch_upload
  <2>2. PICK fs : fs = operation_files(items) OBVIOUS
  <2>3. DOMAIN fs \subseteq Nat /\ \A i \in DOMAIN fs : DOMAIN fs[i] = {"path", "status"}
    <3>1. PICK T : items \in Seq(T) BY <1>4, BatchItemsAssumption
    <3>2. DOMAIN items \subseteq Nat BY <3>1
    <3> QED BY <2>2, <3>2 DEF operation_files
  <2>4. EntryShape(entry') BY <2>1, <2>2, <2>3 DEF EntryShape
  <2>5. EntryRight(entry', history'.failed) BY <2>1, <2>4 DEF EntryRight, BatchInv, UserShape
  <2>6. batch' = [pc |-> "source", items |-> items, todo |-> items, stack |-> << >>, queue |-> << >>, next |-> 1] BY <2>1 DEF NoBatch
  <2>7. Len(<< >>) = 0 /\ << >> \in Seq({}) OBVIOUS
  <2>8. BatchShape(batch') BY <2>6, <2>7 DEF BatchShape
  <2>9. DOMAIN manager = {} /\ DOMAIN driver = {} /\ DOMAIN store.saved = {} /\ DOMAIN store.seen = {}
    <3>1. DOMAIN << >> = {} OBVIOUS
    <3> QED BY <1>4, <2>1, <3>1 DEF vfs_batch_upload, BatchInv, UserShape
  <2>10. TasksRight' BY <2>1, <2>9 DEF TasksRight
  <2>11. UserShape' /\ CancelRight' BY <2>1, <2>6, <2>9 DEF BatchInv, UserShape, CancelRight, NoneKept
  <2> QED BY <2>5, <2>8, <2>10, <2>11 DEF BatchInv
<1>5. CASE SourceChecked
  <2>1. PICK ok \in BOOLEAN : batch' = [batch EXCEPT !.pc = IF ok THEN "collect" ELSE "over"] BY <1>5 DEF SourceChecked
  <2>2. BatchShape(batch') /\ batch'.queue = batch.queue /\ batch'.pc # "idle" BY <1>1, <1>2, <1>3, <2>1 DEF BatchShape
  <2>3. batch.pc = "source" /\ entry' = entry /\ history' = history /\ UNCHANGED <<manager, store, driver, user>> BY <1>5 DEF SourceChecked
  <2> QED BY <1>2, <2>2, <2>3, BatchCommandStep DEF BatchInv
<1>6. CASE BatchReturns
  <2>1. /\ batch.pc = "start" /\ entry' = entry /\ history' = history /\ UNCHANGED <<manager, store, driver, user>>
        /\ batch' = [batch EXCEPT !.pc = "over"]
    BY <1>6 DEF BatchReturns
  <2>2. BatchShape(batch') /\ batch'.queue = batch.queue /\ batch'.pc # "idle" BY <1>1, <1>2, <1>3, <2>1 DEF BatchShape
  <2> QED BY <1>2, <2>1, <2>2, BatchCommandStep DEF BatchInv
<1>7. CASE CollectItem
  <2>1. batch.pc = "collect" /\ entry' = entry /\ history' = history /\ UNCHANGED <<manager, store, driver, user>> BY <1>7 DEF CollectItem
  <2>2. ASSUME NEW more, NEW T, more \in Seq(T), batch' = Collected(batch, more)
        PROVE  BatchShape(batch') /\ Len(batch'.queue) >= Len(batch.queue) /\ batch'.pc = "collect"
    <3>1. PICK q : q = batch.queue \o more OBVIOUS
    <3>2. q \in Seq(S \cup T) /\ Len(q) = Len(batch.queue) + Len(more) /\ Len(more) \in Nat
      <4>1. batch.queue \in Seq(S \cup T) /\ more \in Seq(S \cup T) BY <1>1, <2>2
      <4> QED BY <3>1, <4>1
    <3>3. DOMAIN batch' = DOMAIN batch /\ batch'.queue = q /\ batch'.pc = batch.pc /\ batch'.next = batch.next
      BY <1>3, <2>2, <3>1 DEF Collected
    <3>4. Len(q) >= Len(batch.queue) /\ batch.next \in 1 .. Len(q) + 1 BY <1>2, <3>2
    <3> QED BY <1>3, <2>1, <3>2, <3>3, <3>4 DEF BatchShape
  <2>3. CASE batch.todo = << >>
    <3>1. batch' = [batch EXCEPT !.pc = "start"] BY <1>7, <2>3 DEF CollectItem
    <3>2. BatchShape(batch') /\ batch'.queue = batch.queue /\ batch'.pc # "idle" BY <1>1, <1>2, <1>3, <3>1 DEF BatchShape
    <3> QED BY <1>2, <2>1, <3>2, BatchCommandStep DEF BatchInv
  <2>4. CASE batch.todo # << >>
    <3>1. PICK i : i = Head(batch.todo) OBVIOUS
    <3>2. batch' = CASE i.type = "file"   -> Collected(batch, <<Queued(i.path, BasePath \o <<Name(i.path)>>)>>)
                     [] i.type = "folder" -> [batch EXCEPT !.pc = "walk", !.stack = <<i.path>>]
                     [] OTHER             -> Collected(batch, << >>)
      BY <1>7, <2>4, <3>1 DEF CollectItem
    <3>3. CASE i.type = "file"
      <4>1. PICK x : x = Queued(i.path, BasePath \o <<Name(i.path)>>) OBVIOUS
      <4>2. batch' = Collected(batch, <<x>>) /\ <<x>> \in Seq({x}) BY <3>2, <3>3, <4>1
      <4>3. BatchShape(batch') /\ Len(batch'.queue) >= Len(batch.queue) /\ batch'.pc = "collect" BY <2>2, <4>2
      <4> QED BY <2>1, <4>3, BatchCommandStep DEF BatchInv
    <3>4. CASE i.type = "folder"
      <4>1. batch' = [batch EXCEPT !.pc = "walk", !.stack = <<i.path>>] BY <3>2, <3>4
      <4>2. BatchShape(batch') /\ batch'.queue = batch.queue /\ batch'.pc # "idle" BY <1>1, <1>2, <1>3, <4>1 DEF BatchShape
      <4> QED BY <1>2, <2>1, <4>2, BatchCommandStep DEF BatchInv
    <3>5. CASE i.type # "file" /\ i.type # "folder"
      <4>1. batch' = Collected(batch, << >>) /\ << >> \in Seq({}) BY <3>2, <3>5
      <4>2. BatchShape(batch') /\ Len(batch'.queue) >= Len(batch.queue) /\ batch'.pc = "collect" BY <2>2, <4>1
      <4> QED BY <2>1, <4>2, BatchCommandStep DEF BatchInv
    <3> QED BY <3>3, <3>4, <3>5
  <2> QED BY <2>3, <2>4
<1>8. CASE WalkFolder
  <2>1. batch.pc = "walk" /\ entry' = entry /\ UNCHANGED <<manager, store, driver, user>> BY <1>8 DEF WalkFolder
  <2>2. history' = history \/ history' = [history EXCEPT !.skipped = TRUE] BY <1>8 DEF WalkFolder
  <2>3. DOMAIN history' = DOMAIN history /\ history'.failed = history.failed /\ history'.cancelled = history.cancelled /\ history'.calm = history.calm
    BY <2>2 DEF BatchInv, UserShape
  <2>4. BatchShape(batch') /\ Len(batch'.queue) >= Len(batch.queue) /\ batch'.pc # "idle"
    <3>1. CASE batch.stack = << >>
      <4>1. batch' = [batch EXCEPT !.pc = "collect", !.todo = Tail(@)] BY <1>8, <3>1 DEF WalkFolder
      <4>2. PICK rest : rest = Tail(batch.todo) OBVIOUS
      <4>3. batch' = [batch EXCEPT !.pc = "collect", !.todo = rest] BY <1>3, <4>1, <4>2
      <4> QED BY <1>1, <1>2, <1>3, <4>3 DEF BatchShape
    <3>2. CASE batch.stack # << >>
      <4>1. \/ \E x : batch' = [batch EXCEPT !.stack = x]
            \/ \E x, y : batch' = [batch EXCEPT !.stack = x, !.queue = Append(@, y)]
        BY <1>8, <3>2 DEF WalkFolder
      <4>2. ASSUME NEW x, batch' = [batch EXCEPT !.stack = x] PROVE BatchShape(batch') /\ Len(batch'.queue) >= Len(batch.queue) /\ batch'.pc # "idle"
        BY <1>1, <1>2, <1>3, <2>1, <4>2 DEF BatchShape
      <4>3. ASSUME NEW x, NEW y, batch' = [batch EXCEPT !.stack = x, !.queue = Append(@, y)]
            PROVE  BatchShape(batch') /\ Len(batch'.queue) >= Len(batch.queue) /\ batch'.pc # "idle"
        <5>1. PICK q : q = Append(batch.queue, y) OBVIOUS
        <5>2. q \in Seq(S \cup {y}) /\ Len(q) = Len(batch.queue) + 1
          <6>1. batch.queue \in Seq(S \cup {y}) BY <1>1
          <6> QED BY <5>1, <6>1
        <5>3. DOMAIN batch' = DOMAIN batch /\ batch'.queue = q /\ batch'.pc = "walk" /\ batch'.next = batch.next BY <1>3, <2>1, <4>3, <5>1
        <5>4. Len(q) >= Len(batch.queue) /\ batch.next \in 1 .. Len(q) + 1 BY <1>2, <5>2
        <5> QED BY <1>3, <5>2, <5>3, <5>4 DEF BatchShape
      <4> QED BY <4>1, <4>2, <4>3
    <3> QED BY <3>1, <3>2
  <2> QED BY <2>1, <2>3, <2>4, BatchCommandStep DEF BatchInv
<1> QED BY <1>4, <1>5, <1>6, <1>7, <1>8

LEMMA StartNextRight == ASSUME BatchInv, StartNext PROVE BatchInv'
<1>1. PICK n, f : n = batch.next /\ f = batch.queue[n] OBVIOUS
<1>2. /\ batch.pc = "start" /\ n <= Len(batch.queue) /\ UNCHANGED <<store, driver, user>>
      /\ IF f.local \in DOMAIN local
         THEN /\ manager' = Entered(manager, n, [path |-> f.local, key |-> f.key, status |-> "Pending"]) /\ batch' = [batch EXCEPT !.pc = "save"]
              /\ UNCHANGED <<entry, history>>
         ELSE /\ entry' = InBatch(LAMBDA e : FileFailed(e, f.local)) /\ history' = [history EXCEPT !.failed = @ \cup {f.local}]
              /\ batch' = [batch EXCEPT !.next = n + 1] /\ UNCHANGED manager
  BY <1>1 DEF StartNext
<1>3. PICK S : batch.queue \in Seq(S) BY DEF BatchInv, BatchShape
<1>4. Len(batch.queue) \in Nat /\ n \in 1 .. Len(batch.queue) BY <1>1, <1>2, <1>3 DEF BatchInv, BatchShape
<1>5. DOMAIN batch = {"pc", "items", "todo", "stack", "queue", "next"} BY DEF BatchInv, BatchShape
<1>8. CASE f.local \in DOMAIN local
  <2>1. DOMAIN batch' = DOMAIN batch /\ batch'.queue = batch.queue /\ batch'.pc = "save" /\ batch'.next = n BY <1>1, <1>2, <1>5, <1>8
  <2>2. BatchShape(batch') BY <1>3, <1>4, <1>5, <2>1 DEF BatchShape
  <2>3. DOMAIN manager' = DOMAIN manager \cup {n} BY <1>2, <1>8 DEF Entered
  <2>4. TasksRight' BY <1>2, <1>4, <2>1, <2>3 DEF BatchInv, TasksRight, Ids, DriverPcs
  <2>5. entry' = entry /\ history' = history BY <1>2, <1>8
  <2>6. UserShape' /\ CancelRight' BY <1>2, <2>1, <2>5 DEF BatchInv, UserShape, CancelRight
  <2> QED BY <2>2, <2>4, <2>5, <2>6 DEF BatchInv
<1>9. CASE f.local \notin DOMAIN local
  <2>0. DOMAIN batch' = DOMAIN batch /\ batch'.queue = batch.queue /\ batch'.pc = "start" /\ batch'.next = n + 1 BY <1>2, <1>5, <1>9
  <2>1. history' = [history EXCEPT !.failed = @ \cup {f.local}] /\ manager' = manager BY <1>2, <1>9
  <2>2. DOMAIN history' = DOMAIN history /\ history'.failed = history.failed \cup {f.local} /\ history'.cancelled = history.cancelled /\ history'.calm = history.calm
    BY <2>1 DEF BatchInv, UserShape
  <2>3. EntryRight(entry', history'.failed)
    <3>1. PICK p : p = f.local OBVIOUS
    <3>2. EntryRight(entry, history.failed) BY DEF BatchInv
    <3>3. EntryRight(FileFailed(entry, p), history.failed \cup {p}) BY <3>2, FailedRight
    <3>4. ~entry.there => EntryRight(entry, history.failed \cup {p}) BY <3>2 DEF EntryRight
    <3>5. entry' = IF entry.there THEN FileFailed(entry, p) ELSE entry BY <1>2, <1>9, <3>1 DEF InBatch
    <3> QED BY <2>2, <3>1, <3>3, <3>4, <3>5
  <2>4. BatchShape(batch') BY <1>3, <1>4, <1>5, <2>0 DEF BatchShape
  <2> QED BY <1>2, <1>4, <2>0, <2>1, <2>2, <2>3, <2>4, BatchCommandStep
<1> QED BY <1>8, <1>9

\* The map is saved and the task of the upload is spawned.
LEMMA SaveStartedRight == ASSUME BatchInv, SaveStarted PROVE BatchInv'
<1>1. PICK n : n = batch.next OBVIOUS
<1>2. /\ batch.pc = "save" /\ UNCHANGED <<entry, manager, user, history>> /\ store' = [store EXCEPT !.saved = manager']
      /\ batch' = [batch EXCEPT !.pc = "start", !.next = n + 1] /\ driver' = Entered(driver, n, "begin")
  BY <1>1 DEF SaveStarted, SaveUploads
<1>3. PICK S : batch.queue \in Seq(S) BY DEF BatchInv, BatchShape
<1>4. Len(batch.queue) \in Nat /\ n \in 1 .. Len(batch.queue) BY <1>1, <1>2, <1>3 DEF BatchInv, BatchShape
<1>5. DOMAIN batch = {"pc", "items", "todo", "stack", "queue", "next"} BY DEF BatchInv, BatchShape
<1>6. DOMAIN batch' = DOMAIN batch /\ batch'.queue = batch.queue /\ batch'.pc = "start" /\ batch'.next = n + 1 BY <1>2, <1>5
<1>7. BatchShape(batch') BY <1>3, <1>4, <1>5, <1>6 DEF BatchShape
<1>8. DOMAIN driver' = DOMAIN driver \cup {n} /\ driver'[n] = "begin" /\ \A u \in DOMAIN driver : u # n => driver'[u] = driver[u]
  BY <1>2 DEF Entered
<1>9. DOMAIN store' = DOMAIN store /\ store'.saved = manager /\ store'.pc = store.pc /\ store'.seen = store.seen BY <1>2 DEF BatchInv, UserShape
<1>10. TasksRight' BY <1>2, <1>4, <1>6, <1>8, <1>9 DEF BatchInv, TasksRight, Ids, DriverPcs
<1>11. UserShape' /\ CancelRight' BY <1>2, <1>6, <1>9 DEF BatchInv, UserShape, CancelRight
<1> QED BY <1>2, <1>7, <1>10, <1>11 DEF BatchInv

\* A task goes on; what it tells the tracker fits what failed.
LEMMA DriveStep ==
    ASSUME BatchInv, NEW u \in DOMAIN driver, NEW pc \in DriverPcs, DriveTo(u, pc), DOMAIN manager' = DOMAIN manager, UNCHANGED <<batch, user>>,
           SaveUploads \/ UNCHANGED store,
           EntryRight(entry', history'.failed), DOMAIN history' = DOMAIN history, history'.cancelled = history.cancelled, history'.calm = history.calm
    PROVE  BatchInv'
<1>1. DOMAIN driver' = DOMAIN driver /\ driver'[u] = pc /\ \A v \in DOMAIN driver : v # u => driver'[v] = driver[v] BY DEF DriveTo
<1>0. /\ DOMAIN store' = DOMAIN store /\ store'.pc = store.pc /\ store'.seen = store.seen
      /\ DOMAIN store'.saved = DOMAIN manager \/ DOMAIN store'.saved = DOMAIN store.saved
  BY DEF SaveUploads, BatchInv, UserShape
<1>2. TasksRight' BY <1>0, <1>1 DEF BatchInv, TasksRight, Ids
<1>3. UserShape' BY <1>0, <1>1 DEF BatchInv, UserShape
<1>4. CancelRight' BY <1>0 DEF BatchInv, CancelRight, NoneKept
<1> QED BY <1>2, <1>3, <1>4 DEF BatchInv

LEMMA DriveRight == ASSUME BatchInv, NEW u \in DOMAIN driver, Drive(u) PROVE BatchInv'
<1>1. UNCHANGED <<batch, user>> BY DEF Drive
<1>2. ASSUME NEW st, SetUpload(u, st) PROVE DOMAIN manager' = DOMAIN manager BY <1>2 DEF SetUpload
<1>3. EntryRight(entry, history.failed) BY DEF BatchInv
<1>4. CASE UploadBegins(u) BY <1>1, <1>2, <1>3, <1>4, DriveStep DEF UploadBegins, DriverPcs
<1>5. CASE UploadStops(u) BY <1>1, <1>3, <1>5, DriveStep DEF UploadStops, DriverPcs
<1>6. CASE UploadReads(u)
  <2>1. entry' = InBatch(Progress) /\ DriveTo(u, "write") /\ manager' = manager /\ history' = history /\ SaveUploads BY <1>6 DEF UploadReads
  <2>2. EntryRight(entry', history'.failed) BY <1>3, <2>1, EntryOpsRight DEF InBatch
  <2> QED BY <1>1, <2>1, <2>2, DriveStep DEF DriverPcs
<1>7. CASE UploadWrites(u)
  <2>1. history' = history /\ SaveUploads BY <1>7 DEF UploadWrites
  <2>2. CASE /\ SetUpload(u, "Completed") /\ DriveTo(u, "verify")
             /\ entry' = IF u \in DOMAIN manager THEN InBatch(Complete) ELSE entry
    <3>1. EntryRight(entry', history'.failed) BY <1>3, <2>1, <2>2, EntryOpsRight DEF InBatch
    <3> QED BY <1>1, <1>2, <2>1, <2>2, <3>1, DriveStep DEF DriverPcs
  <2>3. CASE /\ SetUpload(u, "Failed") /\ DriveTo(u, "report")
             /\ entry' = IF u \in DOMAIN manager THEN InBatch(LAMBDA e : FileFailed(e, manager[u].path)) ELSE entry
    <3>1. PICK p : p = manager[u].path OBVIOUS
    <3>2. EntryRight(FileFailed(entry, p), history.failed \cup {p}) BY <1>3, FailedRight
    <3>3. EntryRight(FileFailed(entry, p), history.failed) BY <3>2 DEF EntryRight
    <3>4. EntryRight(entry', history'.failed) BY <1>3, <2>1, <2>3, <3>1, <3>3 DEF InBatch
    <3> QED BY <1>1, <1>2, <2>1, <2>3, <3>4, DriveStep DEF DriverPcs
  <2> QED BY <1>7, <2>2, <2>3 DEF UploadWrites
<1>8. CASE UploadVerified(u) BY <1>1, <1>3, <1>8, DriveStep DEF UploadVerified, DriverPcs
<1>9. CASE ReportFailure(u)
  <2>1. PICK p : p = batch.queue[u].local OBVIOUS
  <2>2. /\ entry' = InBatch(LAMBDA e : FileFailed(e, p)) /\ DriveTo(u, "judge") /\ history' = [history EXCEPT !.failed = @ \cup {p}] /\ manager' = manager /\ store' = store
    BY <1>9, <2>1 DEF ReportFailure
  <2>3. DOMAIN history' = DOMAIN history /\ history'.failed = history.failed \cup {p} /\ history'.cancelled = history.cancelled /\ history'.calm = history.calm
    BY <2>2 DEF BatchInv, UserShape
  <2>4. EntryRight(entry', history'.failed)
    <3>1. EntryRight(FileFailed(entry, p), history.failed \cup {p}) BY <1>3, FailedRight
    <3>2. ~entry.there => EntryRight(entry, history.failed \cup {p}) BY <1>3 DEF EntryRight
    <3>3. entry' = IF entry.there THEN FileFailed(entry, p) ELSE entry BY <2>2 DEF InBatch
    <3> QED BY <2>3, <3>1, <3>2, <3>3
  <2> QED BY <1>1, <2>2, <2>3, <2>4, DriveStep DEF DriverPcs
<1>10. CASE JudgeOperation(u)
  <2>1. entry' = InBatch(FailIfAll) /\ DriveTo(u, "over") /\ manager' = manager /\ store' = store /\ history' = history BY <1>10 DEF JudgeOperation
  <2>2. EntryRight(entry', history'.failed) BY <1>3, <2>1, EntryOpsRight DEF InBatch
  <2> QED BY <1>1, <2>1, <2>2, DriveStep DEF DriverPcs
<1> QED BY <1>4, <1>5, <1>6, <1>7, <1>8, <1>9, <1>10 DEF Drive

\* Another command: it leaves the batch to itself and knows no upload the batch has not queued.
LEMMA UserStep ==
    ASSUME BatchInv, UNCHANGED <<batch, driver>>, batch.pc = "idle" => UNCHANGED <<manager, store, user>>,
           DOMAIN manager' \subseteq Ids, DOMAIN store'.saved \subseteq Ids, DOMAIN store'.seen \subseteq Ids,
           DOMAIN store' = DOMAIN store, EntryRight(entry', history'.failed), DOMAIN history' = DOMAIN history, history'.failed = history.failed,
           DOMAIN user' = DOMAIN user, user'.pc \in {"idle", "remove", "save", "mark"}, CancelRight'
    PROVE  BatchInv'
<1>1. TasksRight' BY DEF BatchInv, TasksRight, Ids
<1>2. UserShape' BY DEF BatchInv, UserShape
<1> QED BY <1>1, <1>2 DEF BatchInv

LEMMA NoEntryRight == \A failed : EntryRight(NoEntry, failed)
<1>1. DOMAIN << >> = {} OBVIOUS
<1> QED BY <1>1 DEF NoEntry, EntryRight, EntryShape

LEMMA KnownIds == ASSUME BatchInv PROVE /\ DOMAIN manager \subseteq Ids /\ DOMAIN store.saved \subseteq Ids /\ DOMAIN store.seen \subseteq Ids
                                        /\ DOMAIN store = {"saved", "pc", "seen"} /\ DOMAIN user = {"pc", "cmd", "list"}
                                        /\ DOMAIN history = {"skipped", "failed", "cancelled", "calm"}
BY DEF BatchInv, TasksRight, UserShape

LEMMA AskRight == ASSUME BatchInv, AskCancel \/ AskClear PROVE BatchInv'
<1>1. \E cmd : Ask(cmd, "remove") BY DEF AskCancel, AskClear
<1>2. PICK cmd : user' = [pc |-> "remove", cmd |-> cmd, list |-> DOMAIN manager] /\ UNCHANGED <<batch, manager, store, driver>> /\ batch.pc # "idle" BY <1>1 DEF Ask
<1>3. history' = [history EXCEPT !.calm = Calm] /\ (entry' = entry \/ entry' = NoEntry) BY DEF AskCancel, AskClear
<1>4. DOMAIN history' = DOMAIN history /\ history'.failed = history.failed /\ history'.cancelled = history.cancelled /\ history'.calm = Calm
  BY <1>3, KnownIds
<1>5. CancelRight' BY <1>2, <1>4 DEF BatchInv, CancelRight, NoneKept, Calm
<1>6. EntryRight(entry', history'.failed) BY <1>3, <1>4, NoEntryRight DEF BatchInv
<1>7. DOMAIN user' = DOMAIN user /\ user'.pc = "remove" BY <1>2, KnownIds
<1> QED BY <1>2, <1>4, <1>5, <1>6, <1>7, KnownIds, UserStep

LEMMA RemoveRight == ASSUME BatchInv, RemoveListed PROVE BatchInv'
<1>0. batch.pc # "idle" BY DEF BatchInv, UserShape, RemoveListed
<1>1. user.pc = "remove" /\ UNCHANGED <<batch, store, driver, entry>> BY DEF RemoveListed
<1>2. DOMAIN history = {"skipped", "failed", "cancelled", "calm"} /\ DOMAIN user = {"pc", "cmd", "list"} BY KnownIds
<1>3. CASE user.list = {}
  <2>1. /\ user' = (IF user.cmd = "cancel" THEN [user EXCEPT !.pc = "mark"] ELSE NoUser) /\ manager' = manager
        /\ history' = (IF user.cmd = "clear" THEN [history EXCEPT !.cancelled = @ \/ history.calm] ELSE history)
    BY <1>3 DEF RemoveListed
  <2>2. DOMAIN user' = DOMAIN user /\ user'.pc \in {"idle", "mark"} BY <1>2, <2>1 DEF NoUser
  <2>3. DOMAIN history' = DOMAIN history /\ history'.failed = history.failed /\ history'.calm = history.calm
        /\ (history'.cancelled => history.cancelled \/ history.calm)
    BY <1>2, <2>1
  <2>4. history.calm => batch.pc = "over" /\ NoneKept /\ store.pc = "idle" /\ DOMAIN store.seen = {} BY <1>1, <1>3 DEF BatchInv, CancelRight, NoneKept
  <2>5. CancelRight' BY <1>1, <2>1, <2>2, <2>3, <2>4 DEF BatchInv, CancelRight, NoneKept
  <2> QED BY <1>0, <1>1, <2>1, <2>2, <2>3, <2>5, KnownIds, UserStep DEF BatchInv
<1>4. CASE user.list # {}
  <2>1. PICK u \in user.list : user' = [user EXCEPT !.list = @ \ {u}, !.pc = "save"] /\ history' = history /\ Dropped(u)
    BY <1>4 DEF RemoveListed
  <2>2. DOMAIN user' = DOMAIN user /\ user'.pc = "save" /\ user'.list = user.list \ {u} BY <1>1, <1>2, <2>1
  <2>3. DOMAIN manager' = DOMAIN manager \ {u} BY <2>1 DEF Dropped
  <2>4. CancelRight' BY <1>1, <2>1, <2>2, <2>3 DEF BatchInv, CancelRight, NoneKept
  <2> QED BY <1>0, <1>1, <2>1, <2>2, <2>3, <2>4, KnownIds, UserStep DEF BatchInv
<1> QED BY <1>3, <1>4

LEMMA SaveRemovedRight == ASSUME BatchInv, SaveRemoved PROVE BatchInv'
<1>1. /\ user.pc = "save" /\ UNCHANGED <<batch, entry, manager, driver, history>> /\ store' = [store EXCEPT !.saved = manager']
      /\ user' = (IF user.cmd = "upload" THEN NoUser ELSE [user EXCEPT !.pc = "remove"])
  BY DEF SaveRemoved, SaveUploads
<1>2. DOMAIN user' = DOMAIN user /\ user'.pc \in {"idle", "remove"} /\ (user'.pc = "remove" => user'.list = user.list) BY <1>1, KnownIds DEF NoUser
<1>3. DOMAIN store' = DOMAIN store /\ store'.saved = manager /\ store'.pc = store.pc /\ store'.seen = store.seen BY <1>1, KnownIds
<1>4. CancelRight' BY <1>1, <1>2, <1>3 DEF BatchInv, CancelRight, NoneKept
<1>5. batch.pc # "idle" BY <1>1 DEF BatchInv, UserShape
<1> QED BY <1>1, <1>2, <1>3, <1>4, <1>5, KnownIds, UserStep DEF BatchInv

LEMMA CancelOperationRight == ASSUME BatchInv, vfs_cancel_operation PROVE BatchInv'
<1>1. /\ user.pc = "mark" /\ user' = NoUser /\ entry' = InBatch(LAMBDA e : [e EXCEPT !.status = "Canceled", !.done = TRUE])
      /\ history' = [history EXCEPT !.cancelled = @ \/ history.calm] /\ UNCHANGED <<batch, manager, store, driver>>
  BY DEF vfs_cancel_operation
<1>2. DOMAIN history' = DOMAIN history /\ history'.failed = history.failed /\ history'.calm = history.calm
      /\ (history'.cancelled => history.cancelled \/ history.calm)
  BY <1>1, KnownIds
<1>3. EntryRight(entry', history'.failed) BY <1>1, <1>2, EntryOpsRight DEF BatchInv, InBatch
<1>4. DOMAIN user' = DOMAIN user /\ user'.pc = "idle" BY <1>1, KnownIds DEF NoUser
<1>5. CancelRight' BY <1>1, <1>2, <1>4 DEF BatchInv, CancelRight, NoneKept
<1>6. batch.pc # "idle" BY <1>1 DEF BatchInv, UserShape
<1> QED BY <1>1, <1>2, <1>3, <1>4, <1>5, <1>6, KnownIds, UserStep

LEMMA CancelUploadRight == ASSUME BatchInv, NEW u \in DOMAIN manager, vfs_cancel_upload(u) PROVE BatchInv'
<1>1. /\ user' = [pc |-> "save", cmd |-> "upload", list |-> {}] /\ history' = [history EXCEPT !.calm = FALSE]
      /\ DOMAIN manager' = DOMAIN manager \ {u} /\ UNCHANGED <<batch, entry, store, driver>>
  BY DEF vfs_cancel_upload, Dropped
<1>2. DOMAIN history' = DOMAIN history /\ history'.failed = history.failed /\ ~history'.calm /\ history'.cancelled = history.cancelled BY <1>1, KnownIds
<1>3. CancelRight' BY <1>1, <1>2 DEF BatchInv, CancelRight, NoneKept
<1>4. batch.pc # "idle" BY DEF BatchInv, UserShape
<1> QED BY <1>1, <1>2, <1>3, <1>4, KnownIds, UserStep DEF BatchInv

LEMMA ListRight == ASSUME BatchInv, vfs_list_uploads \/ ListInstalls PROVE BatchInv'
<1>1. CASE vfs_list_uploads
  <2>1. /\ store' = [store EXCEPT !.pc = "install", !.seen = store.saved] /\ history' = [history EXCEPT !.calm = FALSE]
        /\ batch.pc # "idle" /\ UNCHANGED <<batch, entry, manager, driver, user>>
    BY <1>1 DEF vfs_list_uploads
  <2>2. DOMAIN history' = DOMAIN history /\ history'.failed = history.failed /\ ~history'.calm /\ history'.cancelled = history.cancelled BY <2>1, KnownIds
  <2>3. DOMAIN store' = DOMAIN store /\ store'.saved = store.saved /\ store'.pc = "install" /\ store'.seen = store.saved BY <2>1, KnownIds
  <2>4. CancelRight' BY <2>1, <2>2, <2>3 DEF BatchInv, CancelRight, NoneKept
  <2>5. user'.pc \in {"idle", "remove", "save", "mark"} BY <2>1 DEF BatchInv, UserShape
  <2> QED BY <2>1, <2>2, <2>3, <2>4, <2>5, KnownIds, UserStep DEF BatchInv
<1>2. CASE ListInstalls
  <2>1. /\ store.pc = "install" /\ manager' = store.seen /\ store' = [store EXCEPT !.pc = "idle", !.seen = << >>]
        /\ UNCHANGED <<batch, entry, driver, user, history>>
    BY <1>2 DEF ListInstalls
  <2>2. DOMAIN << >> = {} OBVIOUS
  <2>3. DOMAIN store' = DOMAIN store /\ store'.saved = store.saved /\ store'.pc = "idle" /\ DOMAIN store'.seen = {} BY <2>1, <2>2, KnownIds
  <2>4. CancelRight' BY <2>1, <2>3 DEF BatchInv, CancelRight, NoneKept
  <2>5. user'.pc \in {"idle", "remove", "save", "mark"} BY <2>1 DEF BatchInv, UserShape
  <2>6. batch.pc # "idle" BY <2>1 DEF BatchInv, UserShape
  <2> QED BY <2>1, <2>3, <2>4, <2>5, <2>6, KnownIds, UserStep DEF BatchInv
<1> QED BY <1>1, <1>2

LEMMA OtherCommandsRight ==
    ASSUME BatchInv, vfs_delete_operation \/ (\E u \in DOMAIN manager : get_progress(u)) \/ Vanish
    PROVE  BatchInv'
<1>1. EntryRight(entry, history.failed) BY DEF BatchInv
<1>2. UNCHANGED <<batch, manager, store, driver, user, history>> BY DEF vfs_delete_operation, get_progress, Vanish
<1>4. entry' = entry \/ entry' = NoEntry \/ entry' = InBatch(Progress) BY DEF vfs_delete_operation, get_progress, Vanish
<1>5. EntryRight(entry', history'.failed)
  <2>1. EntryRight(Progress(entry), history.failed) /\ EntryRight(NoEntry, history.failed) BY <1>1, NoEntryRight, EntryOpsRight
  <2>2. entry' = entry \/ entry' = NoEntry \/ entry' = Progress(entry) BY <1>4 DEF InBatch
  <2> QED BY <1>1, <1>2, <2>1, <2>2
<1>6. CancelRight' BY <1>2 DEF BatchInv, CancelRight, NoneKept
<1>7. user'.pc \in {"idle", "remove", "save", "mark"} BY <1>2 DEF BatchInv, UserShape
<1> QED BY <1>2, <1>5, <1>6, <1>7, KnownIds, UserStep

LEMMA BatchStepKeeps == BatchInv /\ [BatchNext]_batchVars => BatchInv'
<1> SUFFICES ASSUME BatchInv, [BatchNext]_batchVars PROVE BatchInv' OBVIOUS
<1>1. CASE UNCHANGED batchVars
  BY <1>1 DEF batchVars, BatchInv, EntryRight, EntryShape, BatchShape, TasksRight, UserShape, CancelRight, NoneKept, Ids
<1>2. CASE BatchNext
  BY <1>2, CommandRight, StartNextRight, SaveStartedRight, DriveRight, AskRight, RemoveRight, SaveRemovedRight, CancelOperationRight,
     CancelUploadRight, ListRight, OtherCommandsRight DEF BatchNext
<1> QED BY <1>1, <1>2

\* The record of a batch, its queue, its tasks and what a cancellation left fit each other
\* (vfs_batch_upload, its tasks and the commands beside it).
THEOREM BatchInductive == BatchSpec => []BatchInv
BY BatchStart, BatchStepKeeps, PTL DEF BatchSpec

-----------------------------------------------------------------------------
(* Paths and lists of paths. *)
\* One path lies below another exactly when it begins with its names.
LEMMA BelowByNames ==
    ASSUME NEW S, NEW p \in Seq(S), NEW q \in Seq(S)
    PROVE  Below(p, q) <=> Len(p) <= Len(q) /\ \A i \in 1 .. Len(p) : q[i] = p[i]
<1>1. Len(p) \in Nat /\ Len(q) \in Nat OBVIOUS
<1>2. CASE Len(p) <= Len(q)
  <2>1. PICK h : h = SubSeq(q, 1, Len(p)) OBVIOUS
  <2>2. h \in Seq(S) /\ Len(h) = Len(p) /\ \A i \in 1 .. Len(p) : h[i] = q[i] BY <1>1, <1>2, <2>1
  <2>3. h = p <=> \A i \in 1 .. Len(p) : h[i] = p[i] BY <1>1, <2>2
  <2> QED BY <1>1, <1>2, <2>1, <2>2, <2>3 DEF Below
<1>3. CASE ~(Len(p) <= Len(q)) BY <1>1, <1>3 DEF Below
<1> QED BY <1>2, <1>3

LEMMA PathsTogether == ASSUME NEW p, NEW q, IsPath(p), IsPath(q) PROVE \E S : p \in Seq(S) /\ q \in Seq(S)
<1>1. PICK A, B : p \in Seq(A) /\ q \in Seq(B) BY DEF IsPath
<1>2. p \in Seq(A \cup B) /\ q \in Seq(A \cup B) BY <1>1
<1> QED BY <1>2

LEMMA PathSubSeq == ASSUME NEW S, NEW p \in Seq(S), NEW n \in 1 .. Len(p)
    PROVE SubSeq(p, 1, n) \in Seq(S) /\ Len(SubSeq(p, 1, n)) = n /\ (\A i \in 1 .. n : SubSeq(p, 1, n)[i] = p[i])
OBVIOUS

LEMMA SeqEq == ASSUME NEW S, NEW p \in Seq(S), NEW q \in Seq(S), Len(p) = Len(q), \A i \in 1 .. Len(p) : p[i] = q[i] PROVE p = q
OBVIOUS

\* What lies below a path on a disk: nothing if it is not there, a file itself, what lies below the entries of a directory.
LEMMA BelowEntries ==
    ASSUME local \in BatchDisk, NEW p, IsPath(p), NEW q \in DOMAIN local, local[q] = "file"
    PROVE  /\ p \notin DOMAIN local => ~Below(p, q)
           /\ p \in DOMAIN local /\ local[p] = "file" => (Below(p, q) <=> q = p)
           /\ p \in DOMAIN local /\ local[p] = "dir" => (Below(p, q) <=> \E x \in Entries(p) : Below(x, q))
<1>1. IsPath(q) /\ \A n \in 1 .. Len(q) - 1 : SubSeq(q, 1, n) \in DOMAIN local /\ local[SubSeq(q, 1, n)] = "dir"
  BY BatchDiskAssumption
<1>2. PICK S : p \in Seq(S) /\ q \in Seq(S) BY <1>1, PathsTogether
<1>3. Len(p) \in Nat /\ Len(q) \in Nat /\ Len(p) >= 1
  <2>1. p # << >> BY DEF IsPath
  <2> QED BY <1>2, <2>1, EmptySeq
<1>4. Below(p, q) <=> Len(p) <= Len(q) /\ \A i \in 1 .. Len(p) : q[i] = p[i] BY <1>2, BelowByNames
<1>5. Below(p, q) /\ Len(p) = Len(q) => p = q BY <1>2, <1>3, <1>4, SeqEq
<1>6. ASSUME Below(p, q), Len(p) < Len(q) PROVE p \in DOMAIN local /\ local[p] = "dir"
  <2>1. PICK n : n = Len(p) OBVIOUS
  <2>2. n \in 1 .. Len(q) - 1 BY <1>3, <1>6, <2>1
  <2>3. SubSeq(q, 1, n) = p BY <1>6, <2>1 DEF Below
  <2> QED BY <1>1, <2>2, <2>3
<1>7. Below(p, q) => Len(p) = Len(q) \/ Len(p) < Len(q) BY <1>3, <1>4
<1>8. Below(p, p) BY <1>2, <1>3, BelowByNames
<1>9. ASSUME p \in DOMAIN local, local[p] = "dir", Below(p, q) PROVE \E x \in Entries(p) : Below(x, q)
  <2>1. Len(p) < Len(q) BY <1>5, <1>7, <1>9
  <2>2. PICK n, x : n = Len(p) + 1 /\ x = SubSeq(q, 1, n) OBVIOUS
  <2>3. n \in 1 .. Len(q) BY <1>3, <2>1, <2>2
  <2>4. x \in Seq(S) /\ Len(x) = n /\ \A i \in 1 .. n : x[i] = q[i] BY <1>2, <2>2, <2>3, PathSubSeq
  <2>5. x \in DOMAIN local
    <3>1. CASE n = Len(q)
      <4>1. x = q BY <1>2, <2>4, <3>1, SeqEq
      <4> QED BY <4>1
    <3>2. CASE n # Len(q)
      <4>1. n \in 1 .. Len(q) - 1 BY <1>3, <2>3, <3>2
      <4> QED BY <1>1, <2>2, <4>1
    <3> QED BY <3>1, <3>2
  <2>6. Below(x, q) BY <1>2, <1>3, <2>3, <2>4, BelowByNames
  <2>7. \A i \in 1 .. Len(p) : x[i] = p[i] BY <1>3, <1>4, <1>9, <2>2, <2>3, <2>4
  <2>8. Len(p) <= Len(x) BY <1>3, <2>2, <2>4
  <2>9. Below(p, x) BY <1>2, <2>4, <2>7, <2>8, BelowByNames
  <2> QED BY <2>2, <2>4, <2>5, <2>6, <2>9 DEF Entries
<1>10. ASSUME NEW x \in Entries(p), Below(x, q) PROVE Below(p, q)
  <2>1. x \in DOMAIN local /\ Len(x) = Len(p) + 1 /\ Below(p, x) BY <1>10 DEF Entries
  <2>2. IsPath(x) BY <2>1, BatchDiskAssumption
  <2>3. PICK A : x \in Seq(A) BY <2>2 DEF IsPath
  <2>4. p \in Seq(S \cup A) /\ q \in Seq(S \cup A) /\ x \in Seq(S \cup A) BY <1>2, <2>3
  <2>5. Len(x) <= Len(q) /\ \A i \in 1 .. Len(x) : q[i] = x[i] BY <1>10, <2>4, BelowByNames
  <2>6. \A i \in 1 .. Len(p) : x[i] = p[i] BY <2>1, <2>4, BelowByNames
  <2>7. \A i \in 1 .. Len(p) : i \in 1 .. Len(x) BY <1>3, <2>1
  <2>8. Len(p) <= Len(q) /\ \A i \in 1 .. Len(p) : q[i] = p[i] BY <1>3, <2>1, <2>5, <2>6, <2>7
  <2> QED BY <1>4, <2>8
<1> QED BY <1>5, <1>6, <1>7, <1>8, <1>9, <1>10

\* The entries of a directory, in some order: all of them and nothing else.
LEMMA AllListed ==
    ASSUME NEW T, IsFiniteSet(T)
    PROVE  SetToSeq(T) \in Seq(T) /\ \A x \in T : \E i \in 1 .. Len(SetToSeq(T)) : SetToSeq(T)[i] = x
<1>1. Cardinality(T) \in Nat /\ ExistsBijection(1 .. Cardinality(T), T) BY FS_CardinalityType
<1>2. PICK g : g \in Bijection(1 .. Cardinality(T), T) BY <1>1 DEF ExistsBijection
<1>3. g \in [1 .. Cardinality(T) -> T] /\ IsInjective(g) BY <1>2 DEF Bijection, Injection, IsInjective
<1>4. PICK f : f = SetToSeq(T) OBVIOUS
<1>5. f \in [1 .. Cardinality(T) -> T] /\ IsInjective(f) BY <1>3, <1>4 DEF SetToSeq
<1>6. f \in Injection(1 .. Cardinality(T), T) BY <1>5 DEF Injection, IsInjective
<1>7. Cardinality(1 .. Cardinality(T)) = Cardinality(T) BY <1>1, FS_Interval
<1>8. f \in Surjection(1 .. Cardinality(T), T) BY <1>6, <1>7, FS_Injection
<1>9. \A x \in T : \E i \in 1 .. Cardinality(T) : f[i] = x BY <1>8 DEF Surjection
<1>10. f \in Seq(T) /\ Len(f) = Cardinality(T) BY <1>1, <1>5
<1> QED BY <1>4, <1>9, <1>10

LEMMA Listed ==
    ASSUME NEW S, NEW s \in Seq(S)
    PROVE  /\ s # << >> => Tail(s) \in Seq(S) /\ ToSet(s) = {Head(s)} \cup ToSet(Tail(s)) /\ Len(Tail(s)) = Len(s) - 1
                           /\ \A j \in 1 .. Len(s) - 1 : Tail(s)[j] = s[j + 1]
           /\ \A x : ToSet(Append(s, x)) = ToSet(s) \cup {x} /\ ToSet(s \o <<x>>) = ToSet(s) \cup {x}
<1>1. DOMAIN s = 1 .. Len(s) /\ Len(s) \in Nat OBVIOUS
<1>2. ASSUME s # << >> PROVE Tail(s) \in Seq(S) /\ ToSet(s) = {Head(s)} \cup ToSet(Tail(s)) /\ Len(Tail(s)) = Len(s) - 1
                           /\ \A j \in 1 .. Len(s) - 1 : Tail(s)[j] = s[j + 1]
  <2>1. Len(s) >= 1 BY <1>2, EmptySeq
  <2>2. PICK t : t = Tail(s) OBVIOUS
  <2>3. t \in Seq(S) /\ Len(t) = Len(s) - 1 /\ DOMAIN t = 1 .. Len(s) - 1 /\ \A j \in 1 .. Len(s) - 1 : t[j] = s[j + 1] BY <1>1, <1>2, <2>1, <2>2
  <2>4. Head(s) = s[1] BY <1>2
  <2>5. \A i \in 1 .. Len(s) : i = 1 \/ (i - 1 \in 1 .. Len(s) - 1 /\ (i - 1) + 1 = i) BY <1>1
  <2>6. ASSUME NEW i \in 1 .. Len(s) PROVE s[i] = Head(s) \/ \E j \in 1 .. Len(s) - 1 : s[i] = t[j]
    <3>1. CASE i = 1 BY <2>4, <3>1
    <3>2. CASE i - 1 \in 1 .. Len(s) - 1 /\ (i - 1) + 1 = i
      <4>1. t[i - 1] = s[i] BY <2>3, <3>2
      <4> QED BY <3>2, <4>1
    <3> QED BY <2>5, <3>1, <3>2
  <2>7. \A j \in 1 .. Len(s) - 1 : j + 1 \in 1 .. Len(s) BY <1>1
  <2>8. 1 \in 1 .. Len(s) BY <1>1, <2>1
  <2>9. ToSet(s) \subseteq {Head(s)} \cup ToSet(t) BY <1>1, <2>3, <2>6 DEF ToSet
  <2>10. Head(s) \in ToSet(s) BY <1>1, <2>4, <2>8 DEF ToSet
  <2>11. \A j \in DOMAIN t : t[j] \in ToSet(s)
    <3> SUFFICES ASSUME NEW j \in DOMAIN t PROVE t[j] \in ToSet(s) OBVIOUS
    <3>1. t[j] = s[j + 1] /\ j + 1 \in DOMAIN s BY <1>1, <2>3, <2>7
    <3> QED BY <3>1 DEF ToSet
  <2>12. ToSet(t) \subseteq ToSet(s) BY <2>11 DEF ToSet
  <2>13. ToSet(s) = {Head(s)} \cup ToSet(t) BY <2>9, <2>10, <2>12
  <2> QED BY <2>2, <2>3, <2>13
<1>3. ASSUME NEW x PROVE ToSet(Append(s, x)) = ToSet(s) \cup {x} /\ ToSet(s \o <<x>>) = ToSet(s) \cup {x}
  <2>1. s \in Seq(S \cup {x}) OBVIOUS
  <2>2. PICK t : t = Append(s, x) OBVIOUS
  <2>3. PICK n : n = Len(s) + 1 OBVIOUS
  <2>4. Len(t) = n /\ DOMAIN t = 1 .. n /\ t[n] = x /\ \A i \in 1 .. Len(s) : t[i] = s[i] BY <1>1, <2>1, <2>2, <2>3
  <2>5. 1 .. n = (1 .. Len(s)) \cup {n} BY <1>1, <2>3
  <2>6. ToSet(t) = ToSet(s) \cup {x} BY <1>1, <2>4, <2>5 DEF ToSet
  <2>7. s \o <<x>> = Append(s, x) BY <2>1
  <2> QED BY <2>2, <2>6, <2>7
<1> QED BY <1>2, <1>3

LEMMA ListedTogether ==
    ASSUME NEW S, NEW a \in Seq(S), NEW b \in Seq(S)
    PROVE  a \o b \in Seq(S) /\ ToSet(a \o b) = ToSet(a) \cup ToSet(b)
<1>1. PICK c : c = a \o b OBVIOUS
<1>2. Len(a) \in Nat /\ Len(b) \in Nat /\ DOMAIN a = 1 .. Len(a) /\ DOMAIN b = 1 .. Len(b) OBVIOUS
<1>3. c \in Seq(S) /\ Len(c) = Len(a) + Len(b) /\ DOMAIN c = 1 .. Len(a) + Len(b) BY <1>1
<1>4. \A i \in 1 .. Len(a) : c[i] = a[i] BY <1>1, <1>2
<1>5. \A i \in 1 .. Len(b) : c[Len(a) + i] = b[i] BY <1>1, <1>2
<1>6. \A i \in 1 .. Len(a) + Len(b) : i \in 1 .. Len(a) \/ \E j \in 1 .. Len(b) : i = Len(a) + j
  <2> SUFFICES ASSUME NEW i \in 1 .. Len(a) + Len(b), i \notin 1 .. Len(a) PROVE \E j \in 1 .. Len(b) : i = Len(a) + j OBVIOUS
  <2>1. i - Len(a) \in 1 .. Len(b) /\ i = Len(a) + (i - Len(a)) BY <1>2
  <2> QED BY <2>1
<1>7. (\A i \in 1 .. Len(a) : i \in 1 .. Len(a) + Len(b)) /\ (\A i \in 1 .. Len(b) : Len(a) + i \in 1 .. Len(a) + Len(b)) BY <1>2
<1>8. \A i \in DOMAIN c : c[i] \in ToSet(a) \cup ToSet(b)
  <2> SUFFICES ASSUME NEW i \in DOMAIN c PROVE c[i] \in ToSet(a) \cup ToSet(b) OBVIOUS
  <2>1. CASE i \in 1 .. Len(a) BY <1>2, <1>4, <2>1 DEF ToSet
  <2>2. ASSUME NEW j \in 1 .. Len(b), i = Len(a) + j PROVE c[i] \in ToSet(b) BY <1>2, <1>5, <2>2 DEF ToSet
  <2> QED BY <1>3, <1>6, <2>1, <2>2
<1>9. ToSet(a) \subseteq ToSet(c) BY <1>2, <1>3, <1>4, <1>7 DEF ToSet
<1>10. ToSet(b) \subseteq ToSet(c) BY <1>2, <1>3, <1>5, <1>7 DEF ToSet
<1>11. ToSet(c) \subseteq ToSet(a) \cup ToSet(b) BY <1>8 DEF ToSet
<1> QED BY <1>1, <1>3, <1>9, <1>10, <1>11

\* The files at or below some paths of a disk.
FilesBelow(d, P) == {q \in DOMAIN d : d[q] = "file" /\ \E x \in P : Below(x, q)}
Keyed(root, F)   == {Queued(p, FolderKey(root, p)) : p \in F}
WantedOn(d, i)   == IF i.type = "file" THEN {Queued(i.path, BasePath \o <<Name(i.path)>>)} ELSE Keyed(i.path, FilesBelow(d, {i.path}))
WantedUpTo(d, items, h) == UNION {WantedOn(d, items[i]) : i \in {j \in 1 .. h : items[j].type \in {"file", "folder"}}}

LEMMA WantedIsOn == \A i : Wanted(i) = WantedOn(local, i)
<1> SUFFICES ASSUME NEW i PROVE Wanted(i) = WantedOn(local, i) OBVIOUS
<1>1. {p \in DOMAIN local : Below(i.path, p) /\ local[p] = "file"} = FilesBelow(local, {i.path}) BY DEF FilesBelow
<1> QED BY <1>1 DEF Wanted, WantedOn, Keyed

LEMMA WantedNext ==
    ASSUME NEW d, NEW items, NEW h \in Nat
    PROVE  WantedUpTo(d, items, h + 1) = WantedUpTo(d, items, h)
               \cup (IF items[h + 1].type \in {"file", "folder"} THEN WantedOn(d, items[h + 1]) ELSE {})
<1>1. PICK n : n = h + 1 OBVIOUS
<1>2. 1 .. n = (1 .. h) \cup {n} BY <1>1
<1>3. {j \in 1 .. n : items[j].type \in {"file", "folder"}} = {j \in 1 .. h : items[j].type \in {"file", "folder"}}
          \cup (IF items[n].type \in {"file", "folder"} THEN {n} ELSE {})
  BY <1>2
<1>4. WantedUpTo(d, items, n) = WantedUpTo(d, items, h) \cup (IF items[n].type \in {"file", "folder"} THEN WantedOn(d, items[n]) ELSE {})
  BY <1>3 DEF WantedUpTo
<1> QED BY <1>1, <1>4

\* A path taken off the stack: gone, a file, or a directory that gives way to its entries.
LEMMA FilesBelowNext ==
    ASSUME local \in BatchDisk, NEW p, IsPath(p), NEW P
    PROVE  /\ p \notin DOMAIN local => FilesBelow(local, {p} \cup P) = FilesBelow(local, P)
           /\ p \in DOMAIN local /\ local[p] = "file" => FilesBelow(local, {p} \cup P) = FilesBelow(local, P) \cup {p}
           /\ p \in DOMAIN local /\ local[p] = "dir" => FilesBelow(local, {p} \cup P) = FilesBelow(local, Entries(p) \cup P)
BY BelowEntries DEF FilesBelow

-----------------------------------------------------------------------------
(* The walk.  The first h items are done; of the next one, a folder,  *)
(* what is queued and what is below the stack make up what it asks for.            *)
WalkShape(b) ==
    /\ \E S : b.items \in Seq(S) /\ b.todo \in Seq(S)
    /\ \A i \in 1 .. Len(b.items) : IsPath(b.items[i].path)
    /\ (\E S : b.stack \in Seq(S)) /\ \A x \in ToSet(b.stack) : IsPath(x)
    /\ b.pc = "walk" => b.todo # << >> /\ Head(b.todo).type = "folder"
ItemsDone(b, h) == Len(b.items) = h + Len(b.todo) /\ \A j \in 1 .. Len(b.todo) : b.todo[j] = b.items[h + j]
FoundRight(b, d, h) ==
    IF b.pc = "walk"
    THEN ToSet(b.queue) \cup Keyed(Head(b.todo).path, FilesBelow(d, ToSet(b.stack))) = WantedUpTo(d, b.items, h) \cup WantedOn(d, Head(b.todo))
    ELSE ToSet(b.queue) = WantedUpTo(d, b.items, h)
WalkCalm == vanished = 0 /\ ~history.skipped
WalkInv == /\ vanished \in Nat /\ (vanished = 0 => local \in BatchDisk) /\ WalkShape(batch)
           /\ IsFiniteSet(DOMAIN local) /\ \A x \in DOMAIN local : IsPath(x)
           /\ \E h \in Nat : ItemsDone(batch, h) /\ (WalkCalm => FoundRight(batch, local, h))

LEMMA NothingWanted == \A d, items : WantedUpTo(d, items, 0) = {}
<1>1. 1 .. 0 = {} OBVIOUS
<1> QED BY <1>1 DEF WantedUpTo

LEMMA NothingListed == ToSet(<< >>) = {} /\ Len(<< >>) = 0 /\ \A S : << >> \in Seq(S)
<1>1. DOMAIN << >> = {} OBVIOUS
<1> QED BY <1>1 DEF ToSet

LEMMA OneListed == \A x : ToSet(<<x>>) = {x}
<1> SUFFICES ASSUME NEW x PROVE ToSet(<<x>>) = {x} OBVIOUS
<1>1. DOMAIN <<x>> = {1} /\ <<x>>[1] = x OBVIOUS
<1> QED BY <1>1 DEF ToSet

LEMMA WalkStart == BatchInit => WalkInv
<1> SUFFICES ASSUME BatchInit PROVE WalkInv OBVIOUS
<1>1. vanished = 0 /\ local \in BatchDisk /\ batch.pc = "idle" /\ batch.items = << >> /\ batch.todo = << >> /\ batch.stack = << >> /\ batch.queue = << >>
  BY DEF BatchInit, NoBatch
<1>2. WalkShape(batch) BY <1>1, NothingListed DEF WalkShape
<1>3. ItemsDone(batch, 0) BY <1>1, NothingListed DEF ItemsDone
<1>4. FoundRight(batch, local, 0) BY <1>1, NothingListed, NothingWanted DEF FoundRight
<1>5. IsFiniteSet(DOMAIN local) /\ \A x \in DOMAIN local : IsPath(x) BY <1>1, BatchDiskAssumption
<1> QED BY <1>1, <1>2, <1>3, <1>4, <1>5 DEF WalkInv

\* A step that leaves the walk alone.
LEMMA WalkKept ==
    ASSUME WalkInv, batch'.items = batch.items, batch'.todo = batch.todo, batch'.stack = batch.stack, batch'.queue = batch.queue,
           (batch'.pc = "walk") <=> (batch.pc = "walk"), vanished' \in Nat, vanished' = 0 => vanished = 0 /\ local' = local,
           vanished' = 0 /\ ~history'.skipped => ~history.skipped, DOMAIN local' \subseteq DOMAIN local
    PROVE  WalkInv'
<1>1. WalkShape(batch') BY DEF WalkInv, WalkShape
<1>2. PICK h \in Nat : ItemsDone(batch, h) /\ (WalkCalm => FoundRight(batch, local, h)) BY DEF WalkInv
<1>3. ItemsDone(batch', h) BY <1>2 DEF ItemsDone
<1>4. WalkCalm' => FoundRight(batch', local', h) BY <1>2 DEF WalkCalm, FoundRight
<1>5. IsFiniteSet(DOMAIN local') BY FS_Subset DEF WalkInv
<1> QED BY <1>1, <1>3, <1>4, <1>5 DEF WalkInv

LEMMA WalkAsked == ASSUME WalkInv, NEW items \in BatchItems, vfs_batch_upload(items) PROVE WalkInv'
<1>1. /\ batch' = [NoBatch EXCEPT !.pc = "source", !.items = items, !.todo = items] /\ vanished' = vanished /\ local' = local
  BY DEF vfs_batch_upload
<1>2. batch'.pc = "source" /\ batch'.items = items /\ batch'.todo = items /\ batch'.stack = << >> /\ batch'.queue = << >> BY <1>1 DEF NoBatch
<1>3. PICK S : items \in Seq(S) BY BatchItemsAssumption
<1>4. \A i \in 1 .. Len(items) : IsPath(items[i].path)
  <2>1. DOMAIN items = 1 .. Len(items) BY <1>3
  <2> QED BY <2>1, BatchItemsAssumption
<1>5. WalkShape(batch') BY <1>2, <1>3, <1>4, NothingListed DEF WalkShape
<1>6. ItemsDone(batch', 0)
  <2>1. Len(items) \in Nat BY <1>3
  <2> QED BY <1>2, <2>1 DEF ItemsDone
<1>7. FoundRight(batch', local', 0) BY <1>2, NothingListed, NothingWanted DEF FoundRight
<1> QED BY <1>1, <1>5, <1>6, <1>7 DEF WalkInv

\* The next item is done.
LEMMA ItemDone ==
    ASSUME NEW b, NEW c, NEW h \in Nat, WalkShape(b), ItemsDone(b, h), b.todo # << >>, c.items = b.items, c.todo = Tail(b.todo)
    PROVE  /\ ItemsDone(c, h + 1) /\ Head(b.todo) = b.items[h + 1] /\ IsPath(Head(b.todo).path)
           /\ \E S : c.items \in Seq(S) /\ c.todo \in Seq(S)
<1>1. PICK S : b.items \in Seq(S) /\ b.todo \in Seq(S) BY DEF WalkShape
<1>2. PICK n, t : n = Len(b.todo) /\ t = Tail(b.todo) OBVIOUS
<1>3. n \in Nat /\ n >= 1 BY <1>1, <1>2, EmptySeq
<1>4. t \in Seq(S) /\ Len(t) = n - 1 /\ \A j \in 1 .. n - 1 : t[j] = b.todo[j + 1] BY <1>1, <1>2, Listed
<1>5. Len(b.items) = h + n /\ \A j \in 1 .. n : b.todo[j] = b.items[h + j] BY <1>2 DEF ItemsDone
<1>6. Head(b.todo) = b.items[h + 1]
  <2>1. Head(b.todo) = b.todo[1] BY <1>1
  <2> QED BY <1>3, <1>5, <2>1
<1>7. \A j \in 1 .. n - 1 : t[j] = b.items[(h + 1) + j]
  <2> SUFFICES ASSUME NEW j \in 1 .. n - 1 PROVE t[j] = b.items[(h + 1) + j] OBVIOUS
  <2>1. j + 1 \in 1 .. n /\ h + (j + 1) = (h + 1) + j BY <1>3
  <2>2. t[j] = b.todo[j + 1] BY <1>4
  <2>3. b.todo[j + 1] = b.items[h + (j + 1)] BY <1>5, <2>1
  <2> QED BY <2>1, <2>2, <2>3
<1>8. h + n = (h + 1) + (n - 1) BY <1>3
<1>9. ItemsDone(c, h + 1) BY <1>2, <1>4, <1>5, <1>7, <1>8 DEF ItemsDone
<1>10. h + 1 \in 1 .. Len(b.items) BY <1>3, <1>5
<1>11. IsPath(Head(b.todo).path) BY <1>6, <1>10 DEF WalkShape
<1> QED BY <1>1, <1>2, <1>4, <1>6, <1>9, <1>11

LEMMA WalkCollects == ASSUME WalkInv, BatchInv, CollectItem PROVE WalkInv'
<1>1. batch.pc = "collect" /\ vanished' = vanished /\ local' = local /\ history' = history BY DEF CollectItem
<1>2. DOMAIN batch = {"pc", "items", "todo", "stack", "queue", "next"} BY DEF BatchInv, BatchShape
<1>3. PICK Q : batch.queue \in Seq(Q) BY DEF BatchInv, BatchShape
<1>4. PICK h \in Nat : ItemsDone(batch, h) /\ (WalkCalm => FoundRight(batch, local, h)) BY DEF WalkInv
<1>5. WalkShape(batch) BY DEF WalkInv
<1>6. CASE batch.todo = << >>
  <2>1. batch' = [batch EXCEPT !.pc = "start"] BY <1>6 DEF CollectItem
  <2>2. batch'.items = batch.items /\ batch'.todo = batch.todo /\ batch'.stack = batch.stack /\ batch'.queue = batch.queue /\ batch'.pc = "start" BY <1>2, <2>1
  <2> QED BY <1>1, <2>2, WalkKept DEF WalkInv
<1>7. CASE batch.todo # << >>
  <2>1. PICK i : i = Head(batch.todo) OBVIOUS
  <2>2. batch' = CASE i.type = "file"   -> Collected(batch, <<Queued(i.path, BasePath \o <<Name(i.path)>>)>>)
                   [] i.type = "folder" -> [batch EXCEPT !.pc = "walk", !.stack = <<i.path>>]
                   [] OTHER             -> Collected(batch, << >>)
    BY <1>7, <2>1 DEF CollectItem
  <2>3. ASSUME NEW more, batch' = Collected(batch, more), ToSet(batch.queue \o more) = ToSet(batch.queue) \cup (IF i.type \in {"file", "folder"} THEN WantedOn(local, i) ELSE {})
        PROVE  WalkInv'
    <3>1. /\ batch'.items = batch.items /\ batch'.todo = Tail(batch.todo) /\ batch'.stack = batch.stack
          /\ batch'.pc = "collect" /\ batch'.queue = batch.queue \o more
      BY <1>1, <1>2, <2>3 DEF Collected
    <3>2. ItemsDone(batch', h + 1) /\ i = batch.items[h + 1] /\ \E S : batch'.items \in Seq(S) /\ batch'.todo \in Seq(S)
      BY <1>4, <1>5, <1>7, <2>1, <3>1, ItemDone
    <3>3. WalkShape(batch') BY <1>5, <3>1, <3>2 DEF WalkShape
    <3>4. WalkCalm => FoundRight(batch', local, h + 1)
      <4>1. WantedUpTo(local, batch.items, h + 1) = WantedUpTo(local, batch.items, h)
               \cup (IF i.type \in {"file", "folder"} THEN WantedOn(local, i) ELSE {})
        BY <3>2, WantedNext
      <4> QED BY <1>1, <1>4, <2>3, <3>1, <4>1 DEF FoundRight
    <3> QED BY <1>1, <3>2, <3>3, <3>4 DEF WalkInv, WalkCalm
  <2>4. CASE i.type = "file"
    <3>1. PICK x : x = Queued(i.path, BasePath \o <<Name(i.path)>>) OBVIOUS
    <3>2. batch' = Collected(batch, <<x>>) BY <2>2, <2>4, <3>1
    <3>3. WantedOn(local, i) = {x} BY <2>4, <3>1 DEF WantedOn
    <3>4. ToSet(batch.queue \o <<x>>) = ToSet(batch.queue) \cup {x} BY <1>3, Listed
    <3> QED BY <2>3, <2>4, <3>2, <3>3, <3>4
  <2>5. CASE i.type = "folder"
    <3>1. batch' = [batch EXCEPT !.pc = "walk", !.stack = <<i.path>>] BY <2>2, <2>5
    <3>2. batch'.items = batch.items /\ batch'.todo = batch.todo /\ batch'.stack = <<i.path>> /\ batch'.queue = batch.queue /\ batch'.pc = "walk"
      BY <1>2, <3>1
    <3>3. IsPath(i.path)
      <4>1. PICK c : c = [items |-> batch.items, todo |-> Tail(batch.todo)] OBVIOUS
      <4>2. c.items = batch.items /\ c.todo = Tail(batch.todo) BY <4>1
      <4>3. IsPath(Head(batch.todo).path) BY <1>4, <1>5, <1>7, <4>2, ItemDone
      <4> QED BY <2>1, <4>3
    <3>4. ToSet(<<i.path>>) = {i.path} /\ <<i.path>> \in Seq({i.path}) BY OneListed
    <3>5. WalkShape(batch') BY <1>5, <1>7, <2>1, <2>5, <3>2, <3>3, <3>4 DEF WalkShape
    <3>6. ItemsDone(batch', h) BY <1>4, <3>2 DEF ItemsDone
    <3>7. WantedOn(local, i) = Keyed(i.path, FilesBelow(local, {i.path})) BY <2>5 DEF WantedOn
    <3>8. WalkCalm => FoundRight(batch', local, h) BY <1>1, <1>4, <2>1, <3>2, <3>4, <3>7 DEF FoundRight
    <3> QED BY <1>1, <3>5, <3>6, <3>8 DEF WalkInv, WalkCalm
  <2>6. CASE i.type # "file" /\ i.type # "folder"
    <3>1. batch' = Collected(batch, << >>) BY <2>2, <2>6
    <3>2. batch.queue \o << >> = batch.queue BY <1>3, ConcatEmptySeq
    <3> QED BY <2>3, <2>6, <3>1, <3>2
  <2> QED BY <2>4, <2>5, <2>6
<1> QED BY <1>6, <1>7

\* The path on top of the stack is dealt with: the files it stands for are queued, or its entries take its place.
LEMMA WalkGoesOn ==
    ASSUME WalkInv, batch.pc = "walk", batch'.pc = "walk", batch'.items = batch.items, batch'.todo = batch.todo, local' = local, vanished' = vanished,
           \E S : batch'.stack \in Seq(S), \A x \in ToSet(batch'.stack) : IsPath(x), WalkCalm' => WalkCalm,
           NEW G, ToSet(batch'.queue) = ToSet(batch.queue) \cup Keyed(Head(batch.todo).path, G),
           WalkCalm' => FilesBelow(local, ToSet(batch.stack)) = FilesBelow(local, ToSet(batch'.stack)) \cup G
    PROVE  WalkInv'
<1>1. PICK h \in Nat : ItemsDone(batch, h) /\ (WalkCalm => FoundRight(batch, local, h)) BY DEF WalkInv
<1>2. WalkShape(batch') BY DEF WalkInv, WalkShape
<1>3. ItemsDone(batch', h) BY <1>1 DEF ItemsDone
<1>4. ASSUME WalkCalm' PROVE FoundRight(batch', local', h)
  <2>1. PICK root, F, F1 : root = Head(batch.todo).path /\ F = FilesBelow(local, ToSet(batch.stack)) /\ F1 = FilesBelow(local, ToSet(batch'.stack)) OBVIOUS
  <2>2. F = F1 \cup G BY <1>4, <2>1
  <2>3. Keyed(root, F) = Keyed(root, F1) \cup Keyed(root, G) BY <2>2 DEF Keyed
  <2>4. ToSet(batch.queue) \cup Keyed(root, F) = WantedUpTo(local, batch.items, h) \cup WantedOn(local, Head(batch.todo)) BY <1>1, <1>4, <2>1 DEF FoundRight
  <2>5. ToSet(batch'.queue) = ToSet(batch.queue) \cup Keyed(root, G) BY <2>1
  <2>6. ToSet(batch'.queue) \cup Keyed(root, F1) = WantedUpTo(local, batch.items, h) \cup WantedOn(local, Head(batch.todo)) BY <2>3, <2>4, <2>5
  <2> QED BY <2>1, <2>6 DEF FoundRight
<1> QED BY <1>1, <1>2, <1>3, <1>4 DEF WalkInv

LEMMA EntriesArePaths == ASSUME WalkInv, NEW p PROVE IsFiniteSet(Entries(p)) /\ \A x \in Entries(p) : IsPath(x)
<1>1. IsFiniteSet(DOMAIN local) /\ Entries(p) \subseteq DOMAIN local /\ \A x \in DOMAIN local : IsPath(x) BY DEF WalkInv, Entries
<1> QED BY <1>1, FS_Subset

LEMMA WalkWalks == ASSUME WalkInv, BatchInv, WalkFolder PROVE WalkInv'
<1>1. batch.pc = "walk" /\ vanished' = vanished /\ local' = local BY DEF WalkFolder
<1>2. DOMAIN batch = {"pc", "items", "todo", "stack", "queue", "next"} /\ DOMAIN history = {"skipped", "failed", "cancelled", "calm"}
  BY DEF BatchInv, BatchShape, UserShape
<1>3. PICK Q : batch.queue \in Seq(Q) BY DEF BatchInv, BatchShape
<1>4. WalkShape(batch) /\ batch.todo # << >> /\ Head(batch.todo).type = "folder" BY <1>1 DEF WalkInv, WalkShape
<1>5. CASE batch.stack = << >>
  <2>1. batch' = [batch EXCEPT !.pc = "collect", !.todo = Tail(@)] /\ history' = history BY <1>5 DEF WalkFolder
  <2>2. PICK rest : rest = Tail(batch.todo) OBVIOUS
  <2>3. batch' = [batch EXCEPT !.pc = "collect", !.todo = rest] BY <1>2, <2>1, <2>2
  <2>4. batch'.items = batch.items /\ batch'.todo = rest /\ batch'.stack = batch.stack /\ batch'.queue = batch.queue /\ batch'.pc = "collect" BY <1>2, <2>3
  <2>5. PICK h \in Nat : ItemsDone(batch, h) /\ (WalkCalm => FoundRight(batch, local, h)) BY DEF WalkInv
  <2>6. ItemsDone(batch', h + 1) /\ Head(batch.todo) = batch.items[h + 1] /\ \E S : batch'.items \in Seq(S) /\ batch'.todo \in Seq(S)
    BY <1>4, <2>2, <2>4, <2>5, ItemDone
  <2>7. WalkShape(batch') BY <1>4, <2>4, <2>6 DEF WalkShape
  <2>8. ASSUME WalkCalm PROVE FoundRight(batch', local, h + 1)
    <3>1. FilesBelow(local, ToSet(batch.stack)) = {} BY <1>5, NothingListed DEF FilesBelow
    <3>2. \A root : Keyed(root, FilesBelow(local, ToSet(batch.stack))) = {} BY <3>1 DEF Keyed
    <3>3. ToSet(batch.queue) = WantedUpTo(local, batch.items, h) \cup WantedOn(local, Head(batch.todo)) BY <1>1, <2>5, <2>8, <3>2 DEF FoundRight
    <3>4. WantedUpTo(local, batch.items, h + 1) = WantedUpTo(local, batch.items, h) \cup WantedOn(local, Head(batch.todo)) BY <1>4, <2>6, WantedNext
    <3> QED BY <2>4, <3>3, <3>4 DEF FoundRight
  <2> QED BY <1>1, <2>1, <2>6, <2>7, <2>8 DEF WalkInv, WalkCalm
<1>6. CASE batch.stack # << >>
  <2>1. PICK p, root, rest : p = Head(batch.stack) /\ root = Head(batch.todo).path /\ rest = Tail(batch.stack) OBVIOUS
  <2>2. \/ /\ p \notin DOMAIN local /\ batch' = [batch EXCEPT !.stack = rest] /\ history' = history
        \/ /\ p \in DOMAIN local /\ local[p] = "file" /\ history' = history
           /\ batch' = [batch EXCEPT !.stack = rest, !.queue = Append(@, Queued(p, FolderKey(root, p)))]
        \/ /\ p \in DOMAIN local /\ local[p] = "dir" /\ history' = history
           /\ batch' = [batch EXCEPT !.stack = Pushed(SetToSeq(Entries(p)), rest)]
        \/ /\ p \in DOMAIN local /\ local[p] = "dir"
           /\ batch' = [batch EXCEPT !.stack = rest] /\ history' = [history EXCEPT !.skipped = TRUE]
    BY <1>6, <2>1 DEF WalkFolder
  <2>3. PICK S : batch.stack \in Seq(S) BY <1>4 DEF WalkShape
  <2>4. rest \in Seq(S) /\ ToSet(batch.stack) = {p} \cup ToSet(rest) BY <1>6, <2>1, <2>3, Listed
  <2>5. IsPath(p) /\ \A x \in ToSet(rest) : IsPath(x) BY <1>4, <2>4 DEF WalkShape
  <2>6. Keyed(root, {}) = {} BY DEF Keyed
  <2>7. WalkCalm => local \in BatchDisk BY DEF WalkInv, WalkCalm
  <2>8. CASE p \notin DOMAIN local /\ batch' = [batch EXCEPT !.stack = rest] /\ history' = history
    <3>1. batch'.items = batch.items /\ batch'.todo = batch.todo /\ batch'.stack = rest /\ batch'.queue = batch.queue /\ batch'.pc = "walk" BY <1>1, <1>2, <2>8
    <3>2. WalkCalm' => WalkCalm BY <1>1, <2>8 DEF WalkCalm
    <3>3. WalkCalm' => FilesBelow(local, ToSet(batch.stack)) = FilesBelow(local, ToSet(rest)) BY <2>4, <2>5, <2>7, <2>8, <3>2, FilesBelowNext
    <3> QED BY <1>1, <2>1, <2>4, <2>5, <2>6, <3>1, <3>2, <3>3, WalkGoesOn
  <2>9. CASE /\ p \in DOMAIN local /\ local[p] = "file" /\ history' = history
             /\ batch' = [batch EXCEPT !.stack = rest, !.queue = Append(@, Queued(p, FolderKey(root, p)))]
    <3>1. PICK y : y = Queued(p, FolderKey(root, p)) OBVIOUS
    <3>2. batch'.items = batch.items /\ batch'.todo = batch.todo /\ batch'.stack = rest /\ batch'.queue = Append(batch.queue, y) /\ batch'.pc = "walk"
      BY <1>1, <1>2, <2>9, <3>1
    <3>3. ToSet(batch'.queue) = ToSet(batch.queue) \cup {y}
      <4>1. ToSet(Append(batch.queue, y)) = ToSet(batch.queue) \cup {y} BY <1>3, Listed
      <4> QED BY <3>2, <4>1
    <3>4. Keyed(root, {p}) = {y} BY <3>1 DEF Keyed
    <3>5. WalkCalm' => WalkCalm BY <1>1, <2>9 DEF WalkCalm
    <3>6. WalkCalm' => FilesBelow(local, ToSet(batch.stack)) = FilesBelow(local, ToSet(rest)) \cup {p} BY <2>4, <2>5, <2>7, <2>9, <3>5, FilesBelowNext
    <3> QED BY <1>1, <2>1, <2>4, <2>5, <3>2, <3>3, <3>4, <3>5, <3>6, WalkGoesOn
  <2>10. CASE /\ p \in DOMAIN local /\ local[p] = "dir" /\ history' = history
              /\ batch' = [batch EXCEPT !.stack = Pushed(SetToSeq(Entries(p)), rest)]
    <3>1. PICK more : more = SetToSeq(Entries(p)) OBVIOUS
    <3>2. batch'.items = batch.items /\ batch'.todo = batch.todo /\ batch'.stack = more \o rest /\ batch'.queue = batch.queue /\ batch'.pc = "walk"
      BY <1>1, <1>2, <2>10, <3>1 DEF Pushed
    <3>3. IsFiniteSet(Entries(p)) /\ \A x \in Entries(p) : IsPath(x) BY EntriesArePaths
    <3>4. more \in Seq(Entries(p)) /\ ToSet(more) = Entries(p)
      <4>1. more \in Seq(Entries(p)) /\ \A x \in Entries(p) : \E i \in 1 .. Len(more) : more[i] = x BY <3>1, <3>3, AllListed
      <4>2. DOMAIN more = 1 .. Len(more) /\ \A i \in 1 .. Len(more) : more[i] \in Entries(p) BY <4>1
      <4> QED BY <4>1, <4>2 DEF ToSet
    <3>5. PICK R : R = S \cup Entries(p) OBVIOUS
    <3>6. more \in Seq(R) /\ rest \in Seq(R) BY <2>4, <3>4, <3>5
    <3>7. batch'.stack \in Seq(R) /\ ToSet(batch'.stack) = Entries(p) \cup ToSet(rest) BY <3>2, <3>4, <3>6, ListedTogether
    <3>8. \A x \in ToSet(batch'.stack) : IsPath(x) BY <2>5, <3>3, <3>7
    <3>9. WalkCalm' => WalkCalm BY <1>1, <2>10 DEF WalkCalm
    <3>10. WalkCalm' => FilesBelow(local, ToSet(batch.stack)) = FilesBelow(local, ToSet(batch'.stack)) \cup {}
      <4>1. PICK P : P = ToSet(rest) OBVIOUS
      <4>2. WalkCalm' => FilesBelow(local, {p} \cup P) = FilesBelow(local, Entries(p) \cup P) BY <2>5, <2>7, <2>10, <3>9, FilesBelowNext
      <4>3. ToSet(batch.stack) = {p} \cup P /\ ToSet(batch'.stack) = Entries(p) \cup P BY <2>4, <3>7, <4>1
      <4>4. WalkCalm' => FilesBelow(local, ToSet(batch.stack)) = FilesBelow(local, ToSet(batch'.stack)) BY <4>2, <4>3
      <4> QED BY <4>4
    <3>11. ToSet(batch'.queue) = ToSet(batch.queue) \cup Keyed(root, {}) BY <2>6, <3>2
    <3> QED BY <1>1, <2>1, <3>2, <3>7, <3>8, <3>9, <3>10, <3>11, WalkGoesOn
  <2>11. CASE /\ p \in DOMAIN local /\ local[p] = "dir"
              /\ batch' = [batch EXCEPT !.stack = rest] /\ history' = [history EXCEPT !.skipped = TRUE]
    <3>1. batch'.items = batch.items /\ batch'.todo = batch.todo /\ batch'.stack = rest /\ batch'.queue = batch.queue /\ batch'.pc = "walk" BY <1>1, <1>2, <2>11
    <3>2. ~WalkCalm' BY <1>2, <2>11 DEF WalkCalm
    <3> QED BY <1>1, <2>1, <2>4, <2>5, <2>6, <3>1, <3>2, WalkGoesOn
  <2> QED BY <2>2, <2>8, <2>9, <2>10, <2>11
<1> QED BY <1>5, <1>6

LEMMA WalkOtherSteps ==
    ASSUME WalkInv, BatchInv, \/ SourceChecked \/ BatchReturns \/ StartNext \/ SaveStarted \/ (\E u \in DOMAIN driver : Drive(u))
                              \/ AskCancel \/ AskClear \/ RemoveListed \/ SaveRemoved \/ vfs_cancel_operation \/ vfs_delete_operation
                              \/ vfs_list_uploads \/ ListInstalls
                              \/ (\E u \in DOMAIN manager : vfs_cancel_upload(u) \/ get_progress(u)) \/ Vanish
    PROVE  WalkInv'
<1>1. DOMAIN batch = {"pc", "items", "todo", "stack", "queue", "next"} /\ DOMAIN history = {"skipped", "failed", "cancelled", "calm"}
  BY DEF BatchInv, BatchShape, UserShape
<1>2. vanished \in Nat BY DEF WalkInv
<1>3. CASE SourceChecked
  <2>1. batch.pc = "source" /\ UNCHANGED <<local, vanished, history>> BY <1>3 DEF SourceChecked
  <2>2. PICK pc \in {"collect", "over"} : batch' = [batch EXCEPT !.pc = pc] BY <1>3 DEF SourceChecked
  <2>3. batch'.items = batch.items /\ batch'.todo = batch.todo /\ batch'.stack = batch.stack /\ batch'.queue = batch.queue /\ batch'.pc # "walk" BY <1>1, <2>2
  <2> QED BY <1>2, <2>1, <2>3, WalkKept
<1>4. CASE BatchReturns
  <2>1. batch.pc = "start" /\ UNCHANGED <<local, vanished, history>> /\ batch' = [batch EXCEPT !.pc = "over"] BY <1>4 DEF BatchReturns
  <2>2. batch'.items = batch.items /\ batch'.todo = batch.todo /\ batch'.stack = batch.stack /\ batch'.queue = batch.queue /\ batch'.pc # "walk" BY <1>1, <2>1
  <2> QED BY <1>2, <2>1, <2>2, WalkKept
<1>5. CASE StartNext \/ SaveStarted
  <2>1. /\ UNCHANGED <<local, vanished>>
        /\ \/ batch' = [batch EXCEPT !.next = batch.next + 1] \/ batch' = [batch EXCEPT !.pc = "start", !.next = @ + 1]
           \/ batch' = [batch EXCEPT !.pc = "save"]
        /\ batch.pc \in {"start", "save"}
        /\ (history' = history \/ \E p : history' = [history EXCEPT !.failed = @ \cup {p}])
    BY <1>5 DEF StartNext, SaveStarted
  <2>2. batch'.items = batch.items /\ batch'.todo = batch.todo /\ batch'.stack = batch.stack /\ batch'.queue = batch.queue /\ batch'.pc # "walk" BY <1>1, <2>1
  <2>3. history'.skipped = history.skipped BY <1>1, <2>1
  <2> QED BY <1>2, <2>1, <2>2, <2>3, WalkKept
<1>6. CASE \E u \in DOMAIN driver : Drive(u)
  <2>1. PICK u \in DOMAIN driver : Drive(u) BY <1>6
  <2>2. UNCHANGED <<local, batch, vanished>> BY <2>1 DEF Drive
  <2>3. history' = history \/ \E p : history' = [history EXCEPT !.failed = @ \cup {p}]
    BY <2>1 DEF Drive, UploadBegins, UploadStops, UploadReads, UploadWrites, UploadVerified, ReportFailure, JudgeOperation
  <2>4. history'.skipped = history.skipped BY <1>1, <2>3
  <2> QED BY <1>2, <2>2, <2>4, WalkKept
<1>7. CASE AskCancel \/ AskClear \/ RemoveListed \/ vfs_cancel_operation \/ vfs_list_uploads \/ (\E u \in DOMAIN manager : vfs_cancel_upload(u))
  <2>1. UNCHANGED <<local, batch, vanished>> BY <1>7 DEF AskCancel, AskClear, Ask, RemoveListed, vfs_cancel_operation, vfs_list_uploads, vfs_cancel_upload
  <2>2. \/ history' = history \/ (\E c : history' = [history EXCEPT !.calm = c])
        \/ history' = [history EXCEPT !.cancelled = @ \/ history.calm]
    BY <1>7 DEF AskCancel, AskClear, Ask, RemoveListed, vfs_cancel_operation, vfs_list_uploads, vfs_cancel_upload
  <2>3. history'.skipped = history.skipped BY <1>1, <2>2
  <2> QED BY <1>2, <2>1, <2>3, WalkKept
<1>8. CASE vfs_delete_operation \/ SaveRemoved \/ ListInstalls \/ (\E u \in DOMAIN manager : get_progress(u))
  <2>1. UNCHANGED <<local, batch, vanished, history>> BY <1>8 DEF vfs_delete_operation, SaveRemoved, ListInstalls, get_progress
  <2> QED BY <1>2, <2>1, WalkKept
<1>9. CASE Vanish
  <2>1. PICK p \in DOMAIN local : vanished' = vanished + 1 /\ local' = [q \in {q \in DOMAIN local : ~Below(p, q)} |-> local[q]] /\ batch' = batch /\ history' = history
    BY <1>9 DEF Vanish
  <2>2. vanished' \in Nat /\ vanished' # 0 BY <1>2, <2>1
  <2>3. DOMAIN local' \subseteq DOMAIN local BY <2>1
  <2> QED BY <2>1, <2>2, <2>3, WalkKept
<1> QED BY <1>3, <1>4, <1>5, <1>6, <1>7, <1>8, <1>9

LEMMA WalkStepKeeps == WalkInv /\ BatchInv /\ [BatchNext]_batchVars => WalkInv'
<1> SUFFICES ASSUME WalkInv, BatchInv, [BatchNext]_batchVars PROVE WalkInv' OBVIOUS
<1>1. CASE UNCHANGED batchVars
  <2>1. UNCHANGED <<local, batch, vanished, history>> BY <1>1 DEF batchVars
  <2> QED BY <2>1, WalkKept DEF WalkInv
<1>2. CASE BatchNext BY <1>2, WalkAsked, WalkCollects, WalkWalks, WalkOtherSteps DEF BatchNext
<1> QED BY <1>1, <1>2

\* What is queued and what is still on the stack of the walk (546-588) make up what the items dealt with ask for.
THEOREM WalkInductive == BatchSpec => []WalkInv
BY WalkStart, WalkStepKeeps, BatchInductive, PTL DEF BatchSpec

\* For any disk and any items, the walk of vfs_batch_upload queues every file at or below the chosen
\* items under its own key and nothing else, as long as every directory can be read and none disappears.
THEOREM WalkCorrect == BatchSpec => []BatchFindsEveryFile
<1>1. WalkInv /\ BatchInv => BatchFindsEveryFile
  <2> SUFFICES ASSUME WalkInv, BatchInv, WalkedUndisturbed PROVE {batch.queue[n] : n \in Ids} = UNION {Wanted(batch.items[i]) : i \in KnownItems}
    BY DEF BatchFindsEveryFile
  <2>1. batch.pc # "walk" /\ batch.todo = << >> /\ WalkCalm BY DEF WalkedUndisturbed, WalkCalm
  <2>2. PICK h \in Nat : ItemsDone(batch, h) /\ FoundRight(batch, local, h) BY <2>1 DEF WalkInv
  <2>3. PICK Q : batch.queue \in Seq(Q) BY DEF BatchInv, BatchShape
  <2>4. ToSet(batch.queue) = {batch.queue[n] : n \in Ids}
    <3>1. DOMAIN batch.queue = Ids BY <2>3 DEF Ids
    <3> QED BY <3>1 DEF ToSet
  <2>5. PICK S : batch.items \in Seq(S) BY DEF WalkInv, WalkShape
  <2>6. Len(batch.items) = h /\ DOMAIN batch.items = 1 .. h
    <3>1. Len(batch.items) = h + 0 BY <2>1, <2>2, NothingListed DEF ItemsDone
    <3> QED BY <2>5, <3>1
  <2>7. KnownItems = {j \in 1 .. h : batch.items[j].type \in {"file", "folder"}} BY <2>6 DEF KnownItems
  <2>8. WantedUpTo(local, batch.items, h) = UNION {Wanted(batch.items[i]) : i \in KnownItems} BY <2>7, WantedIsOn DEF WantedUpTo
  <2> QED BY <2>1, <2>2, <2>4, <2>8 DEF FoundRight
<1> QED BY <1>1, WalkInductive, BatchInductive, PTL

\* For any folders, items and commands: the walk overlooks no file, a chosen file that could
\* not be uploaded fails its operation unless a cancellation came last, and an operation
\* cancelled after its batch was started leaves no upload behind.
THEOREM BatchCorrect == BatchSpec => []BatchSafe
<1>1. BatchInv /\ BatchFindsEveryFile => BatchSafe
  <2> SUFFICES ASSUME BatchInv, BatchFindsEveryFile PROVE BatchSafe OBVIOUS
  <2>1. BatchTypeOK BY DEF BatchInv, EntryRight, EntryShape, BatchShape, TasksRight, DriverPcs, BatchTypeOK
  <2>2. FailureShows BY DEF BatchInv, EntryRight, FailureShows
  <2>3. CancelledLeavesNoUploads BY DEF BatchInv, CancelRight, NoneKept, CancelledLeavesNoUploads, CanResume
  <2> QED BY <2>1, <2>2, <2>3 DEF BatchSafe
<1> QED BY <1>1, WalkCorrect, BatchInductive, PTL
=============================================================================
