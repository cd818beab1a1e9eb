--------------------------- MODULE ModelHubProofs ---------------------------
(* Proofs about ModelHub, for any number of calls, parts and files. *)
EXTENDS ModelHub, TLAPS

(* Writing one chunk of the model, or a wrong one, gives a content again.    *)
LEMMA WriteAtType ==
    ASSUME NEW content \in Content, NEW n \in 1 .. Parts, NEW chunk \in 0 .. Parts + 1
    PROVE  WriteAt(content, n, chunk) \in Content
<1> DEFINE size == IF Len(content) > n THEN Len(content) ELSE n
           f    == [j \in 1 .. size |->
                      IF j = n THEN chunk ELSE IF j <= Len(content) THEN content[j] ELSE Hole]
<1>1. size \in Nat
  BY PartsAssumption DEF Content
<1>2. ASSUME NEW j \in 1 .. size PROVE f[j] \in 0 .. Parts + 1
  BY PartsAssumption DEF Content, Hole
<1>3. f \in [1 .. size -> 0 .. Parts + 1]
  BY <1>2
<1>4. f \in Seq(0 .. Parts + 1)
  BY <1>1, <1>3
<1> QED BY <1>4 DEF Content, WriteAt

(* Writing a chunk of the model where it belongs leaves a whole model as it is. *)
LEMMA WriteAtGood ==
    ASSUME NEW n \in 1 .. Parts
    PROVE  WriteAt(Good, n, n) = Good
<1>1. Good \in [1 .. Parts -> 1 .. Parts] /\ Parts \in Nat
  BY PartsAssumption DEF Good
<1>2. Good \in Seq(1 .. Parts)
  BY <1>1
<1>3. Len(Good) = Parts
  BY <1>1, <1>2, PartsAssumption DEF Good
<1> DEFINE size == IF Len(Good) > n THEN Len(Good) ELSE n
<1>4. size = Parts
  BY <1>1, <1>3
<1>5. \A j \in 1 .. Parts :
         (IF j = n THEN n ELSE IF j <= Len(Good) THEN Good[j] ELSE Hole) = j
  BY <1>1, <1>3 DEF Good
<1>6. WriteAt(Good, n, n) = [j \in 1 .. size |->
         IF j = n THEN n ELSE IF j <= Len(Good) THEN Good[j] ELSE Hole]
  BY DEF WriteAt
<1> HIDE DEF size
<1>7. WriteAt(Good, n, n) = [j \in 1 .. Parts |-> j]
  BY <1>4, <1>5, <1>6
<1> QED BY <1>7 DEF Good

(* A call that moves on to its next await stays well typed.                  *)
LEMMA GotoTyped ==
    ASSUME task \in [Task -> CallState], NEW t \in Task, NEW pc \in PC, Goto(t, pc)
    PROVE  task' \in [Task -> CallState]
<1>1. [task[t] EXCEPT !.pc = pc] \in CallState
  BY DEF CallState
<1> QED BY <1>1 DEF Goto

(* A slot with no call in it is well typed.                                  *)
LEMMA IdleTyped == IdleTask \in CallState
BY PartsAssumption DEF IdleTask, CallState, PC

(* A call that starts, and one that another call joins, stay well typed.      *)
LEMMA StartTyped ==
    ASSUME task \in [Task -> CallState]
    PROVE  /\ Started \in CallState /\ Started.pc = "lookup" /\ Started.read = 0
           /\ Started.alone => \A u \in Task : At(u, "idle")
           /\ \A u \in Task : /\ Joined(u) \in CallState /\ Joined(u).pc = task[u].pc
                              /\ At(u, "idle") \/ ~Joined(u).alone
<1> DEFINE b == \A u \in Task : At(u, "idle")
<1>1. b \in BOOLEAN
  OBVIOUS
<1>2. Started = [IdleTask EXCEPT !.pc = "lookup", !.alone = b]
  BY DEF Started
<1> HIDE DEF b
<1>3. Started \in CallState
  BY <1>1, <1>2, IdleTyped DEF CallState, PC
<1>4. Started.pc = "lookup" /\ Started.alone = b /\ Started.read = 0
  BY <1>2 DEF IdleTask
<1>5. ASSUME NEW u \in Task
      PROVE  Joined(u) \in CallState /\ Joined(u).pc = task[u].pc /\ (At(u, "idle") \/ ~Joined(u).alone)
  <2>1. CASE At(u, "idle")
    BY <2>1 DEF Joined
  <2>2. CASE ~At(u, "idle")
    BY <2>2 DEF Joined, CallState
  <2> QED BY <2>1, <2>2
<1> QED BY <1>3, <1>4, <1>5 DEF b

(* A call that returns leaves its slot well typed.                           *)
LEMMA ReturnTyped ==
    ASSUME task \in [Task -> CallState], NEW t \in Task, NEW res \in Result, Return(t, res)
    PROVE  task' \in [Task -> CallState]
<1>1. [IdleTask EXCEPT !.res = res] \in CallState
  BY IdleTyped DEF CallState
<1> QED BY <1>1 DEF Return

(* A call that has received one more chunk stays well typed.                 *)
LEMMA ReceiveTyped ==
    ASSUME task \in [Task -> CallState], NEW t \in Task,
           NEW n \in 1 .. Parts, NEW sound \in BOOLEAN
    PROVE  [task EXCEPT ![t].read = n, ![t].sound = sound] \in [Task -> CallState]
<1>1. n \in 0 .. Parts
  BY PartsAssumption
<1>2. [task[t] EXCEPT !.read = n] \in CallState
  BY <1>1 DEF CallState
<1>3. [[task[t] EXCEPT !.read = n] EXCEPT !.sound = sound] \in CallState
  BY <1>2, Zenon DEF CallState
<1>4. [task EXCEPT ![t].read = n, ![t].sound = sound]
        = [task EXCEPT ![t] = [[task[t] EXCEPT !.read = n] EXCEPT !.sound = sound]]
  OBVIOUS
<1> QED BY <1>3, <1>4

(* TypeOK is inductive: a call at any of its awaits, a crash that cuts the   *)
(* cached file off and a shared partial file keep the state well typed, and  *)
(* the cache path and the partial path never name the same file.            *)
THEOREM HubTyped == Spec => []TypeOK
<1>1. Init => TypeOK
  <2> SUFFICES ASSUME Init PROVE TypeOK
    OBVIOUS
  <2>1. Good \in Content /\ << >> \in Content
    BY PartsAssumption DEF Good, Content
  <2> QED BY <2>1, PartsAssumption, InodeAssumption DEF Init, TypeOK, IdleTask, PC, CallState
<1>2. TypeOK /\ [Next]_vars => TypeOK'
  <2> SUFFICES ASSUME TypeOK, [Next]_vars PROVE TypeOK'
    OBVIOUS
  <2> USE PartsAssumption, InodeAssumption
  <2>1. ASSUME NEW t \in Task, Resolve(t) PROVE TypeOK'
    <3>1. CASE GateError = "Ok"
      <4>1. task' \in [Task -> CallState]
        BY <2>1, <3>1, StartTyped DEF TypeOK, Resolve
      <4> QED BY <2>1, <4>1 DEF TypeOK, Resolve
    <3>2. CASE GateError # "Ok"
      <4>1. GateError \in Result
        BY DEF GateError, Result
      <4> QED BY <2>1, <3>2, <4>1, ReturnTyped DEF TypeOK, Resolve
    <3> QED BY <3>1, <3>2
  <2>2. ASSUME NEW t \in Task, Lookup(t) PROVE TypeOK'
    BY <2>2, GotoTyped, ReturnTyped DEF TypeOK, Lookup, PC, Result
  <2>3. ASSUME NEW t \in Task, Discard(t) PROVE TypeOK'
    BY <2>3, GotoTyped, ReturnTyped DEF TypeOK, Discard, PC, Result
  <2>4. ASSUME NEW t \in Task, OfflineGate(t) PROVE TypeOK'
    BY <2>4, GotoTyped, ReturnTyped DEF TypeOK, OfflineGate, PC, Result
  <2>5. ASSUME NEW t \in Task, CreatePartial(t) PROVE TypeOK'
    <3>1. PICK i \in Inode :
             /\ i # target
             /\ partial' = i
             /\ file' = [file EXCEPT ![i] = << >>]
             /\ task' = [task EXCEPT ![t].pc = "receive", ![t].inode = i]
      BY <2>5 DEF TypeOK, CreatePartial, Free
    <3>2. [task[t] EXCEPT !.pc = "receive", !.inode = i] \in CallState
      BY DEF TypeOK, CallState, PC
    <3>3. task' \in [Task -> CallState]
      BY <3>1, <3>2 DEF TypeOK
    <3>4. file' \in [Inode -> Content]
      BY <3>1 DEF TypeOK, Content
    <3> QED BY <2>5, <3>1, <3>3, <3>4 DEF TypeOK, CreatePartial
  <2>6. ASSUME NEW t \in Task, NEW chunk \in 0 .. Parts + 1, Receive(t, chunk)
        PROVE  TypeOK'
    <3>1. task[t].read + 1 \in 1 .. Parts
      BY <2>6 DEF TypeOK, Receive, CallState
    <3>2. file' \in [Inode -> Content]
      BY <2>6, <3>1, WriteAtType DEF TypeOK, Receive
    <3> DEFINE sound == task[t].sound /\ chunk = task[t].read + 1
    <3>3. sound \in BOOLEAN
      OBVIOUS
    <3>4. task' = [task EXCEPT ![t].read = task[t].read + 1, ![t].sound = sound]
      BY <2>6 DEF TypeOK, Receive
    <3> HIDE DEF sound
    <3>5. task' \in [Task -> CallState]
      BY <3>1, <3>3, <3>4, ReceiveTyped DEF TypeOK
    <3> QED BY <2>6, <3>2, <3>5 DEF TypeOK, Receive
  <2>7. ASSUME NEW t \in Task, DownloadFails(t) PROVE TypeOK'
    BY <2>7, ReturnTyped DEF TypeOK, DownloadFails, Result
  <2>8. ASSUME NEW t \in Task, StreamEnds(t) PROVE TypeOK'
    <3>1. [task[t] EXCEPT !.pc = "rename", !.inode = None] \in CallState
      BY DEF TypeOK, CallState, PC
    <3> QED BY <2>8, <3>1 DEF TypeOK, StreamEnds
  <2>9. ASSUME NEW t \in Task, RenamePartial(t) PROVE TypeOK'
    BY <2>9, GotoTyped DEF TypeOK, RenamePartial, PC
  <2>10. ASSUME NEW t \in Task, RenameFails(t) PROVE TypeOK'
    BY <2>10, ReturnTyped DEF TypeOK, RenameFails, Result
  <2>11. ASSUME NEW t \in Task, Verify(t) PROVE TypeOK'
    BY <2>11, GotoTyped, ReturnTyped DEF TypeOK, Verify, PC, Result
  <2>12. ASSUME NEW t \in Task, RemoveBad(t) PROVE TypeOK'
    BY <2>12, ReturnTyped DEF TypeOK, RemoveBad, Result
  <2>13. ASSUME NEW k \in 0 .. Parts, Crash(k) PROVE TypeOK'
    <3>1. crashes' \in 0 .. MaxCrash
      BY <2>13 DEF TypeOK, Crash
    <3>2. file' \in [Inode -> Content]
      BY <2>13 DEF TypeOK, Crash, Content
    <3> QED BY <2>13, <3>1, <3>2, IdleTyped DEF TypeOK, Crash
  <2>14. CASE UNCHANGED vars
    BY <2>14 DEF TypeOK, vars
  <2>15. ASSUME NEW t \in Task, Receive(t, task[t].read + 1) PROVE TypeOK'
    <3>1. task[t].read + 1 \in 0 .. Parts + 1
      BY DEF TypeOK, CallState
    <3> QED BY <2>15, <2>6, <3>1
  <2>16. ASSUME NEW t \in Task, Receive(t, Bad) PROVE TypeOK'
    BY <2>16, <2>6 DEF Bad
  <2> QED
    BY <2>1, <2>2, <2>3, <2>4, <2>5, <2>7, <2>8, <2>9, <2>10, <2>11, <2>12,
       <2>13, <2>14, <2>15, <2>16 DEF Next, Proceed
<1> QED BY <1>1, <1>2, PTL DEF Spec

-----------------------------------------------------------------------------
(* With offline set, no call is ever past the gate. *)
StopsAtGate ==
    config.offline =>
        \A t \in Task : task[t].pc \in {"idle", "lookup", "discard", "gate"}

(* The privacy contract (hub.rs 15-20) for any number of concurrent calls:   *)
(* with DIASPOR_OFFLINE no call creates, writes or renames a file.           *)
THEOREM OfflineCorrect == Spec => OfflineNeverFetches
<1>1. Init => StopsAtGate
  BY DEF Init, StopsAtGate, IdleTask
<1>2. TypeOK /\ StopsAtGate /\ [Next]_vars => StopsAtGate'
  <2> SUFFICES ASSUME TypeOK, StopsAtGate, [Next]_vars, config'.offline
               PROVE  \A u \in Task : task'[u].pc \in {"idle", "lookup", "discard", "gate"}
    BY DEF StopsAtGate
  <2>1. config' = config
    BY DEF Next, Proceed, vars, Resolve, Lookup, Discard, OfflineGate, CreatePartial,
           Receive, DownloadFails, StreamEnds, RenamePartial, RenameFails, Verify,
           RemoveBad, Crash
  <2>2. \A u \in Task : task[u].pc \in {"idle", "lookup", "discard", "gate"}
    BY <2>1 DEF StopsAtGate
  <2>3. ASSUME NEW t \in Task,
               \/ Resolve(t) \/ Lookup(t) \/ Discard(t) \/ OfflineGate(t) \/ DownloadFails(t)
        PROVE  \A u \in Task : task'[u].pc \in {"idle", "lookup", "discard", "gate"}
    <3>1. \/ \E res : Return(t, res)
          \/ \E pc \in {"discard", "gate"} : Goto(t, pc)
          \/ task' = [u \in Task |-> IF u = t THEN Started ELSE Joined(u)]
      BY <2>1, <2>3 DEF Resolve, Lookup, Discard, OfflineGate, DownloadFails
    <3>2. CASE task' = [u \in Task |-> IF u = t THEN Started ELSE Joined(u)]
      BY <2>2, <3>2, StartTyped DEF TypeOK
    <3> QED BY <2>2, <3>1, <3>2 DEF TypeOK, CallState, Goto, Return, IdleTask
  <2>4. ASSUME NEW t \in Task, NEW chunk,
               \/ CreatePartial(t) \/ Receive(t, chunk) \/ StreamEnds(t)
               \/ RenamePartial(t) \/ RenameFails(t) \/ Verify(t) \/ RemoveBad(t)
        PROVE  FALSE
    BY <2>2, <2>4 DEF CreatePartial, Receive, StreamEnds, RenamePartial, RenameFails,
                      Verify, RemoveBad, At
  <2>5. ASSUME NEW k, Crash(k)
        PROVE  \A u \in Task : task'[u].pc \in {"idle", "lookup", "discard", "gate"}
    BY <2>5 DEF Crash, IdleTask
  <2>6. CASE UNCHANGED vars
    BY <2>2, <2>6 DEF vars
  <2> QED BY <2>3, <2>4, <2>5, <2>6 DEF Next, Proceed
<1>3. TypeOK /\ StopsAtGate /\ [Next]_vars =>
        [config.offline /\ crashes' = crashes
          => file' = file /\ partial' = partial /\ target' \in {target, None}]_vars
  <2> SUFFICES ASSUME TypeOK, StopsAtGate, Next, config.offline, crashes' = crashes
               PROVE  file' = file /\ partial' = partial /\ target' \in {target, None}
    BY DEF vars
  <2>1. ASSUME NEW t \in Task,
               \/ Resolve(t) \/ Lookup(t) \/ Discard(t) \/ OfflineGate(t) \/ DownloadFails(t)
        PROVE  file' = file /\ partial' = partial /\ target' \in {target, None}
    BY <2>1 DEF Resolve, Lookup, Discard, OfflineGate, DownloadFails
  <2>2. ASSUME NEW t \in Task, NEW chunk,
               \/ CreatePartial(t) \/ Receive(t, chunk) \/ StreamEnds(t)
               \/ RenamePartial(t) \/ RenameFails(t) \/ Verify(t) \/ RemoveBad(t)
        PROVE  FALSE
    BY <2>2 DEF StopsAtGate, CreatePartial, Receive, StreamEnds, RenamePartial, RenameFails,
                Verify, RemoveBad, At
  <2>3. ASSUME NEW k, Crash(k) PROVE FALSE
    BY <2>3, PartsAssumption DEF Crash, TypeOK
  <2> QED BY <2>1, <2>2, <2>3 DEF Next, Proceed
<1> QED BY <1>1, <1>2, <1>3, HubTyped, PTL DEF Spec, OfflineNeverFetches

-----------------------------------------------------------------------------
(* With a server that sends the model, no number of calls that share the     *)
(* partial file ever alters a complete model under the cache path in place.  *)
(* The type invariant says why File::create cannot truncate it: the cache    *)
(* path and the partial path never name the same file.                      *)
THEOREM CachedCorrect ==
    ASSUME ~Corrupt
    PROVE  Spec => CachedFileUntouched
<1>1. TypeOK /\ [Next]_vars =>
        [target # None /\ file[target] = Good /\ crashes' = crashes
           => file'[target] = Good]_vars
  <2> SUFFICES ASSUME TypeOK, Next, target # None, file[target] = Good, crashes' = crashes
               PROVE  file'[target] = Good
    BY DEF vars
  <2>1. target \in Inode
    BY DEF TypeOK
  <2>2. ASSUME NEW t \in Task, CreatePartial(t) PROVE file'[target] = Good
    <3>1. PICK i : i # target /\ file' = [file EXCEPT ![i] = << >>]
      BY <2>1, <2>2 DEF TypeOK, CreatePartial, Free
    <3> QED BY <2>1, <3>1 DEF TypeOK
  <2>3. ASSUME NEW t \in Task, NEW chunk, Receive(t, chunk) PROVE file'[target] = Good
    <3> DEFINE n == task[t].read + 1
    <3>1. n \in 1 .. Parts /\ chunk = n
      BY <2>3, PartsAssumption DEF TypeOK, CallState, Receive
    <3>2. file' = [file EXCEPT ![task[t].inode] = WriteAt(file[task[t].inode], n, n)]
      BY <2>3, <3>1 DEF Receive
    <3>3. WriteAt(Good, n, n) = Good
      BY <3>1, WriteAtGood
    <3> HIDE DEF n
    <3> QED BY <2>1, <3>2, <3>3 DEF TypeOK
  <2>4. ASSUME NEW k, Crash(k) PROVE FALSE
    BY <2>4, PartsAssumption DEF Crash, TypeOK
  <2>5. ASSUME NEW t \in Task,
               \/ Resolve(t) \/ Lookup(t) \/ Discard(t) \/ OfflineGate(t) \/ DownloadFails(t)
               \/ StreamEnds(t) \/ RenamePartial(t) \/ RenameFails(t) \/ Verify(t)
               \/ RemoveBad(t)
        PROVE  file'[target] = Good
    BY <2>5 DEF Resolve, Lookup, Discard, OfflineGate, DownloadFails, StreamEnds,
                RenamePartial, RenameFails, Verify, RemoveBad
  <2> QED BY <2>2, <2>3, <2>4, <2>5 DEF Next, Proceed
<1> QED BY <1>1, HubTyped, PTL DEF Spec, CachedFileUntouched

(* Together: what the run checks of the cache directory.                      *)
THEOREM CacheCorrect ==
    ASSUME ~Corrupt
    PROVE  Spec => CacheKept
BY HubTyped, OfflineCorrect, CachedCorrect, PTL DEF CacheKept

-----------------------------------------------------------------------------
\* The first n chunks of the model.
Prefix(n) == [i \in 1 .. n |-> i]

(* The next chunk of the model extends the beginning that is there.           *)
LEMMA WriteAtPrefix ==
    ASSUME NEW k \in 0 .. Parts
    PROVE  WriteAt(Prefix(k), k + 1, k + 1) = Prefix(k + 1)
<1>1. k \in Nat /\ k + 1 \in Nat /\ k + 1 > k
  BY PartsAssumption
<1>2. Prefix(k) \in [1 .. k -> Nat]
  BY DEF Prefix
<1>3. Len(Prefix(k)) = k
  <2>1. Prefix(k) \in Seq(Nat) /\ DOMAIN Prefix(k) = 1 .. k
    BY <1>1, <1>2
  <2> QED BY <1>1, <2>1
<1>4. (IF Len(Prefix(k)) > k + 1 THEN Len(Prefix(k)) ELSE k + 1) = k + 1
  BY <1>1, <1>3
<1>5. \A j \in 1 .. k + 1 :
         (IF j = k + 1 THEN k + 1 ELSE IF j <= Len(Prefix(k)) THEN Prefix(k)[j] ELSE Hole) = j
  BY <1>1, <1>3 DEF Prefix
<1>6. WriteAt(Prefix(k), k + 1, k + 1)
        = [j \in 1 .. (IF Len(Prefix(k)) > k + 1 THEN Len(Prefix(k)) ELSE k + 1) |->
             IF j = k + 1 THEN k + 1 ELSE IF j <= Len(Prefix(k)) THEN Prefix(k)[j] ELSE Hole]
  BY DEF WriteAt
<1>7. WriteAt(Prefix(k), k + 1, k + 1) = [j \in 1 .. k + 1 |-> j]
  BY <1>4, <1>5, <1>6
<1> QED BY <1>7 DEF Prefix

Early == {"lookup", "discard", "gate", "create"}

(* What a call that nobody joined knows of the files it works on.             *)
Holds(t) ==
    /\ task[t].pc \in Early => task[t].read = 0
    /\ At(t, "receive") => /\ partial # None /\ task[t].inode = partial
                           /\ task[t].sound => file[partial] = Prefix(task[t].read)
    /\ At(t, "rename") => partial # None /\ (task[t].sound => file[partial] = Good)
    /\ At(t, "verify") => target # None /\ (task[t].sound => file[target] = Good)

(* The inductive invariant: a call that is alone is the only one, and the bytes *)
(* it received are the bytes of its file.                                     *)
AloneInv ==
    \A t \in Task : task[t].alone /\ ~At(t, "idle") =>
        Holds(t) /\ \A u \in Task : u # t => At(u, "idle")

(* A call that goes on: only what it knows of its own files can change.        *)
LEMMA AloneMove ==
    ASSUME TypeOK, AloneInv, NEW t \in Task, ~At(t, "idle"), NEW r \in CallState,
           task' = [task EXCEPT ![t] = r],
           r.pc = "idle" \/ (r.alone => task[t].alone),
           task[t].alone /\ Holds(t) /\ r.pc # "idle" => Holds(t)'
    PROVE  AloneInv'
<1>1. task'[t] = r /\ \A u \in Task : u # t => task'[u] = task[u]
  BY DEF TypeOK
<1> SUFFICES ASSUME NEW v \in Task, task'[v].alone, ~At(v, "idle")'
             PROVE  Holds(v)' /\ \A u \in Task : u # v => At(u, "idle")'
  BY DEF AloneInv
<1>2. v = t
  BY <1>1 DEF AloneInv, At
<1>3. task[t].alone /\ r.pc # "idle"
  BY <1>1, <1>2 DEF At
<1>4. Holds(t) /\ \A u \in Task : u # t => At(u, "idle")
  BY <1>3 DEF AloneInv
<1> QED BY <1>1, <1>2, <1>3, <1>4 DEF At

(* A call that returns.                                                       *)
LEMMA AloneReturn ==
    ASSUME TypeOK, AloneInv, NEW t \in Task, ~At(t, "idle"), NEW res \in Result, Return(t, res)
    PROVE  AloneInv'
<1>1. PICK r : r = [IdleTask EXCEPT !.res = res]
  OBVIOUS
<1>2. r \in CallState /\ r.pc = "idle"
  BY <1>1, IdleTyped DEF CallState, IdleTask
<1> QED BY <1>1, <1>2, AloneMove DEF Return

(* A call that goes on with nothing but its place changed.                    *)
LEMMA AloneGoto ==
    ASSUME TypeOK, AloneInv, NEW t \in Task, ~At(t, "idle"), NEW pc \in PC, Goto(t, pc),
           task[t].alone /\ Holds(t) =>
              /\ pc \notin {"receive", "rename"}
              /\ pc \in Early => task[t].pc \in Early
              /\ pc = "verify" => target' # None /\ (task[t].sound => file'[target'] = Good)
    PROVE  AloneInv'
<1>1. PICK r : r = [task[t] EXCEPT !.pc = pc]
  OBVIOUS
<1>2. r \in CallState /\ r.pc = pc /\ r.alone = task[t].alone /\ r.sound = task[t].sound
      /\ r.read = task[t].read
  BY <1>1 DEF TypeOK, CallState
<1>3. task' = [task EXCEPT ![t] = r]
  BY <1>1 DEF Goto
<1>4. task'[t] = r
  BY <1>3 DEF TypeOK
<1>5. ASSUME task[t].alone, Holds(t) PROVE Holds(t)'
  BY <1>2, <1>4, <1>5 DEF Holds, At
<1> QED BY <1>2, <1>3, <1>5, AloneMove

LEMMA AloneStep ==
    ASSUME TypeOK, AloneInv, [Next]_vars
    PROVE  AloneInv'
<1>1. ASSUME NEW t \in Task, Resolve(t) PROVE AloneInv'
  <2>1. CASE GateError = "Ok"
    <3>1. task' = [u \in Task |-> IF u = t THEN Started ELSE Joined(u)] /\ At(t, "idle")
      BY <1>1, <2>1 DEF Resolve
    <3> SUFFICES ASSUME NEW v \in Task, task'[v].alone, ~At(v, "idle")'
                 PROVE  Holds(v)' /\ \A u \in Task : u # v => At(u, "idle")'
      BY DEF AloneInv
    <3>2. v = t
      BY <3>1, StartTyped DEF TypeOK, At
    <3>3. task'[t].pc = "lookup" /\ \A u \in Task : At(u, "idle")
      BY <3>1, <3>2, StartTyped DEF TypeOK
    <3>4. \A u \in Task : u # t => At(u, "idle")'
      BY <3>1, <3>3, StartTyped DEF TypeOK, At
    <3>5. task'[t].read = 0
      BY <3>1, StartTyped DEF TypeOK
    <3> QED BY <3>2, <3>3, <3>4, <3>5 DEF Holds, At
  <2>2. CASE GateError # "Ok"
    <3>1. PICK r : r = [IdleTask EXCEPT !.res = GateError]
      OBVIOUS
    <3>2. r.pc = "idle"
      BY <3>1 DEF IdleTask
    <3>3. task' = [task EXCEPT ![t] = r] /\ At(t, "idle") /\ UNCHANGED <<file, target, partial>>
      BY <1>1, <2>2, <3>1 DEF Resolve, Return
    <3>4. task'[t] = r /\ \A u \in Task : u # t => task'[u] = task[u]
      BY <3>3 DEF TypeOK
    <3>5. \A u \in Task : At(u, "idle")' <=> At(u, "idle")
      BY <3>2, <3>3, <3>4 DEF At
    <3>6. \A u \in Task : u # t => (Holds(u)' <=> Holds(u))
      BY <3>3, <3>4 DEF Holds, At
    <3> QED BY <3>3, <3>4, <3>5, <3>6 DEF AloneInv
  <2> QED BY <2>1, <2>2
<1>2. ASSUME NEW t \in Task, Lookup(t) PROVE AloneInv'
  <2>1. ~At(t, "idle") /\ (Goto(t, "gate") \/ Goto(t, "discard") \/ Return(t, "Ok"))
    BY <1>2 DEF Lookup, At
  <2>2. task[t].pc \in Early
    BY <1>2 DEF Lookup, At, Early
  <2> QED BY <2>1, <2>2, AloneGoto, AloneReturn DEF PC, Result
<1>3. ASSUME NEW t \in Task, Discard(t) PROVE AloneInv'
  <2>1. ~At(t, "idle") /\ (Goto(t, "gate") \/ Return(t, "Io"))
    BY <1>3 DEF Discard, At
  <2>2. task[t].pc \in Early
    BY <1>3 DEF Discard, At, Early
  <2> QED BY <2>1, <2>2, AloneGoto, AloneReturn DEF PC, Result
<1>4. ASSUME NEW t \in Task, OfflineGate(t) PROVE AloneInv'
  <2>1. ~At(t, "idle") /\ (Goto(t, "create") \/ Return(t, "NetworkBlocked"))
    BY <1>4 DEF OfflineGate, At
  <2>2. task[t].pc \in Early
    BY <1>4 DEF OfflineGate, At, Early
  <2> QED BY <2>1, <2>2, AloneGoto, AloneReturn DEF PC, Result
<1>5. ASSUME NEW t \in Task, CreatePartial(t) PROVE AloneInv'
  <2>1. PICK i \in Inode :
           /\ partial' = i
           /\ file' = [file EXCEPT ![i] = << >>]
           /\ task' = [task EXCEPT ![t].pc = "receive", ![t].inode = i]
    BY <1>5 DEF TypeOK, CreatePartial, Free
  <2>2. PICK r : r = [task[t] EXCEPT !.pc = "receive", !.inode = i]
    OBVIOUS
  <2>3. /\ r \in CallState /\ r.pc = "receive" /\ r.inode = i /\ r.alone = task[t].alone
        /\ r.read = task[t].read
    BY <2>2 DEF TypeOK, CallState, PC
  <2>4. task' = [task EXCEPT ![t] = r]
    BY <2>1, <2>2
  <2>5. task'[t] = r /\ ~At(t, "idle") /\ task[t].pc = "create"
    BY <1>5, <2>4 DEF TypeOK, CreatePartial, At
  <2>6. file'[i] = << >> /\ i # None
    BY <2>1, InodeAssumption DEF TypeOK
  <2>7. Prefix(0) = << >>
    BY DEF Prefix
  <2>8. ASSUME Holds(t) PROVE Holds(t)'
    <3>1. r.read = 0
      BY <2>3, <2>5, <2>8 DEF Holds, Early
    <3> QED BY <2>1, <2>3, <2>5, <2>6, <2>7, <3>1 DEF Holds, At, Early
  <2> QED BY <2>3, <2>4, <2>5, <2>8, AloneMove
<1>6. ASSUME NEW t \in Task, NEW chunk \in 0 .. Parts + 1, Receive(t, chunk) PROVE AloneInv'
  <2> DEFINE k == task[t].read
             sound == task[t].sound /\ chunk = k + 1
  <2>1. k \in 0 .. Parts /\ k + 1 \in 1 .. Parts /\ task[t].pc = "receive"
    BY <1>6, PartsAssumption DEF TypeOK, Receive, CallState, At
  <2>2. sound \in BOOLEAN /\ (sound => task[t].sound /\ chunk = k + 1)
    OBVIOUS
  <2>3. file' = [file EXCEPT ![task[t].inode] = WriteAt(file[task[t].inode], k + 1, chunk)]
    BY <1>6 DEF Receive
  <2>4. task' = [task EXCEPT ![t].read = k + 1, ![t].sound = sound] /\ UNCHANGED <<target, partial>>
    BY <1>6 DEF TypeOK, Receive
  <2> HIDE DEF sound, k
  <2>5. PICK r : r = [[task[t] EXCEPT !.read = k + 1] EXCEPT !.sound = sound]
    OBVIOUS
  <2>6. task' = [task EXCEPT ![t] = r]
    BY <2>4, <2>5
  <2>7. r \in CallState
    <3>1. k + 1 \in 0 .. Parts
      BY <2>1, PartsAssumption
    <3>2. [task[t] EXCEPT !.read = k + 1] \in CallState
      BY <3>1 DEF TypeOK, CallState
    <3> QED BY <2>2, <2>5, <3>2, Zenon DEF CallState
  <2>8. r.pc = task[t].pc /\ r.alone = task[t].alone /\ r.inode = task[t].inode /\ r.read = k + 1 /\ r.sound = sound
    BY <2>5 DEF TypeOK, CallState
  <2>9. task'[t] = r /\ ~At(t, "idle")
    BY <2>1, <2>6 DEF TypeOK, At
  <2>10. ASSUME Holds(t) PROVE Holds(t)'
    <3>1. partial # None /\ task[t].inode = partial /\ (task[t].sound => file[partial] = Prefix(k))
      BY <2>1, <2>10 DEF Holds, At, k
    <3>2. partial \in Inode
      BY <3>1 DEF TypeOK
    <3>3. sound => file'[partial] = Prefix(k + 1)
      BY <2>1, <2>2, <2>3, <3>1, <3>2, WriteAtPrefix DEF TypeOK
    <3> QED BY <2>1, <2>4, <2>8, <2>9, <3>1, <3>3 DEF Holds, At, Early
  <2> QED BY <2>7, <2>8, <2>6, <2>9, <2>10, AloneMove
<1>7. ASSUME NEW t \in Task, DownloadFails(t) PROVE AloneInv'
  <2>1. ~At(t, "idle") /\ Return(t, "Download")
    BY <1>7 DEF DownloadFails, At
  <2> QED BY <2>1, AloneReturn DEF Result
<1>8. ASSUME NEW t \in Task, StreamEnds(t) PROVE AloneInv'
  <2>1. PICK r : r = [task[t] EXCEPT !.pc = "rename", !.inode = None]
    OBVIOUS
  <2>2. r \in CallState /\ r.pc = "rename" /\ r.alone = task[t].alone /\ r.sound = task[t].sound
    BY <2>1 DEF TypeOK, CallState, PC
  <2>3. /\ task' = [task EXCEPT ![t] = r] /\ UNCHANGED <<file, target, partial>>
        /\ task[t].pc = "receive" /\ task[t].read = Parts
    BY <1>8, <2>1 DEF StreamEnds, At
  <2>4. task'[t] = r /\ ~At(t, "idle")
    BY <2>3 DEF TypeOK, At
  <2>5. Prefix(Parts) = Good
    BY DEF Prefix, Good
  <2>6. ASSUME Holds(t) PROVE Holds(t)'
    BY <2>2, <2>3, <2>4, <2>5, <2>6 DEF Holds, At, Early
  <2> QED BY <2>2, <2>3, <2>4, <2>6, AloneMove
<1>9. ASSUME NEW t \in Task, RenamePartial(t) PROVE AloneInv'
  <2>1. /\ ~At(t, "idle") /\ At(t, "rename") /\ Goto(t, "verify")
        /\ target' = partial /\ partial # None /\ UNCHANGED file
    BY <1>9 DEF RenamePartial, At
  <2>2. Holds(t) => target' # None /\ (task[t].sound => file'[target'] = Good)
    BY <2>1 DEF Holds
  <2>3. "verify" \in PC /\ "verify" \notin Early
    BY DEF PC, Early
  <2> QED BY <2>1, <2>2, <2>3, AloneGoto
<1>10. ASSUME NEW t \in Task, RenameFails(t) PROVE AloneInv'
  <2>1. ~At(t, "idle") /\ Return(t, "Io")
    BY <1>10 DEF RenameFails, At
  <2> QED BY <2>1, AloneReturn DEF Result
<1>11. ASSUME NEW t \in Task, Verify(t) PROVE AloneInv'
  <2>1. ~At(t, "idle") /\ (Goto(t, "remove") \/ Return(t, "Ok"))
    BY <1>11 DEF Verify, At
  <2> QED BY <2>1, AloneGoto, AloneReturn DEF PC, Result, Early
<1>12. ASSUME NEW t \in Task, RemoveBad(t) PROVE AloneInv'
  <2>1. ~At(t, "idle") /\ Return(t, "ChecksumMismatch")
    BY <1>12 DEF RemoveBad, At
  <2> QED BY <2>1, AloneReturn DEF Result
<1>13. ASSUME NEW k, Crash(k) PROVE AloneInv'
  BY <1>13 DEF Crash, AloneInv, At, IdleTask
<1>14. CASE UNCHANGED vars
  BY <1>14 DEF vars, AloneInv, Holds, At
<1>15. ASSUME NEW t \in Task, Receive(t, task[t].read + 1) PROVE AloneInv'
  <2>1. task[t].read + 1 \in 0 .. Parts + 1
    BY PartsAssumption DEF TypeOK, CallState
  <2> QED BY <1>6, <1>15, <2>1
<1>16. ASSUME NEW t \in Task, Receive(t, Bad) PROVE AloneInv'
  BY <1>6, <1>16, PartsAssumption DEF Bad
<1> QED BY <1>1, <1>2, <1>3, <1>4, <1>5, <1>7, <1>8, <1>9, <1>10, <1>11, <1>12, <1>13, <1>14,
           <1>15, <1>16 DEF Next, Proceed

(* When resolve answers Ok for a pinned entry to a call that no other call      *)
(* overlapped, the cache path names the model: after any failed downloads,     *)
(* wrong bytes, crashes that cut files off and calls that spoilt the cache     *)
(* together before.                                                          *)
THEOREM ResolvedCorrect == Spec => ResolvedIsGood
<1> DEFINE GoodStep == \A t \in Task : Returns(t, "Ok") /\ entry.pinned /\ task[t].alone
                          => target # None /\ file[target] = Good
<1>1. Init => AloneInv
  BY DEF Init, AloneInv, At, IdleTask
<1>2. TypeOK /\ AloneInv /\ [Next]_vars => AloneInv'
  BY AloneStep
<1>3. TypeOK /\ AloneInv /\ [Next]_vars => [GoodStep]_vars
  <2> SUFFICES ASSUME TypeOK, AloneInv, Next, NEW t \in Task, Returns(t, "Ok"), entry.pinned, task[t].alone
               PROVE  target # None /\ file[target] = Good
    OBVIOUS
  <2>1. ~At(t, "idle") /\ task'[t].pc = "idle" /\ task'[t].res = "Ok"
    BY DEF Returns
  <2>2. Holds(t)
    BY <2>1 DEF AloneInv
  <2>3. ASSUME NEW u \in Task, NEW r, task' = [task EXCEPT ![u] = r] PROVE u = t /\ r.pc = "idle" /\ r.res = "Ok"
    BY <2>1, <2>3 DEF TypeOK, At
  <2>4. ASSUME NEW u \in Task, NEW res, Return(u, res) PROVE u = t /\ res = "Ok"
    <3>1. u = t /\ [IdleTask EXCEPT !.res = res].res = "Ok"
      BY <2>3, <2>4 DEF Return
    <3> QED BY <3>1 DEF IdleTask
  <2>5. ASSUME NEW u \in Task, NEW pc, Goto(u, pc), pc # "idle" PROVE FALSE
    <3>1. PICK r : r = [task[u] EXCEPT !.pc = pc]
      OBVIOUS
    <3>2. r.pc = pc /\ task' = [task EXCEPT ![u] = r]
      BY <2>5, <3>1 DEF Goto, TypeOK, CallState
    <3> QED BY <2>3, <2>5, <3>2
  <2>6. ASSUME NEW u \in Task, Resolve(u) PROVE FALSE
    <3>1. CASE GateError = "Ok"
      BY <2>1, <2>6, <3>1, StartTyped DEF Resolve, TypeOK, At
    <3>2. CASE GateError # "Ok"
      BY <2>4, <2>6, <3>2 DEF Resolve
    <3> QED BY <3>1, <3>2
  <2>7. ASSUME NEW u \in Task, Lookup(u) PROVE target # None /\ file[target] = Good
    BY <2>5, <2>7 DEF Lookup
  <2>8. ASSUME NEW u \in Task, Verify(u) PROVE target # None /\ file[target] = Good
    <3>1. CASE entry.pinned /\ ~task[u].sound
      BY <2>5, <2>8, <3>1 DEF Verify
    <3>2. CASE task[u].sound
      <4>1. u = t /\ At(t, "verify")
        BY <2>4, <2>8, <3>2 DEF Verify
      <4> QED BY <2>2, <3>2, <4>1 DEF Holds
    <3> QED BY <3>1, <3>2
  <2>9. ASSUME NEW u \in Task, Discard(u) \/ OfflineGate(u) \/ DownloadFails(u) \/ RenamePartial(u)
                               \/ RenameFails(u) \/ RemoveBad(u)
        PROVE  FALSE
    BY <2>4, <2>5, <2>9 DEF Discard, OfflineGate, DownloadFails, RenamePartial, RenameFails, RemoveBad
  <2>10. ASSUME NEW u \in Task, CreatePartial(u) PROVE FALSE
    <3>1. PICK i : task' = [task EXCEPT ![u].pc = "receive", ![u].inode = i]
      BY <2>10 DEF CreatePartial
    <3> QED BY <2>1, <3>1 DEF TypeOK, CallState, At
  <2>11. ASSUME NEW u \in Task, NEW chunk, Receive(u, chunk) PROVE FALSE
    BY <2>1, <2>11 DEF Receive, TypeOK, CallState, At
  <2>12. ASSUME NEW u \in Task, StreamEnds(u) PROVE FALSE
    BY <2>1, <2>12 DEF StreamEnds, TypeOK, CallState, At
  <2>13. ASSUME NEW k \in 0 .. Parts, Crash(k) PROVE FALSE
    <3>1. task'[t] = IdleTask
      BY <2>13 DEF Crash
    <3> QED BY <2>1, <3>1, AnswerAssumption DEF IdleTask, Result
  <2> QED BY <2>6, <2>7, <2>8, <2>9, <2>10, <2>11, <2>12, <2>13 DEF Next, Proceed
<1>4. [](TypeOK /\ AloneInv) /\ [][Next]_vars => ResolvedIsGood
  BY <1>3, PTL DEF ResolvedIsGood
<1> QED BY <1>1, <1>2, <1>4, HubTyped, PTL DEF Spec
=============================================================================
