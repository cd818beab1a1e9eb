----------------------- MODULE OperationTrackerProofs -----------------------
(***************************************************************************)
(* Proofs about OperationTracker, for any number of operations, files,      *)
(* threads and crashes.                                                     *)
(***************************************************************************)
EXTENDS OperationTracker, FiniteSetTheorems, WellFoundedInduction, TLAPS

(* What a method of the tracker may store: a well-typed record that is       *)
(* Completed only with a completion time and with all of its files.          *)
Good(op) == op \in Operation /\ SoundOperation(op)

(* A map of operations whose records are all good. *)
GoodMap(m) == DOMAIN m \subseteq OpId /\ m = [o \in DOMAIN m |-> m[o]]
              /\ \A o \in DOMAIN m : Good(m[o])

(* The inductive invariant: the map in memory, the state file and every      *)
(* snapshot that a spawned task has yet to write hold only good records.     *)
IInv == GoodMap(ops) /\ GoodMap(disk.ops) /\ \A s \in spawned : GoodMap(s.ops)

(* update_file_progress: recomputing the parent's status from its files      *)
(* never leaves it Completed over an incomplete file, even when it was       *)
(* Completed for other contents of the files.                               *)
LEMMA RecomputeGood ==
    ASSUME NEW op \in Operation, op.status = "Completed" => op.done
    PROVE  Good(Recompute(op))
<1> USE DEF Good, SoundOperation, Operation, Status
<1>1. CASE AllCompleted(op.files) /\ op.status # "Completed"
  BY <1>1 DEF Recompute
<1>2. CASE AllCompleted(op.files) /\ op.status = "Completed"
  BY <1>2 DEF Recompute
<1>3. CASE ~AllCompleted(op.files)
  BY <1>3 DEF Recompute
<1> QED BY <1>1, <1>2, <1>3

(* update_file_progress (405-491) turns a good record into a good one,      *)
(* whether or not the path names one of the files.                          *)
LEMMA FileProgressedGood ==
    ASSUME NEW op, Good(op), NEW f \in File \cup {None}, NEW n \in Nat,
           NEW status \in {None, "InProgress", "Completed", "Failed"}
    PROVE  Good(FileProgressed(op, f, n, status))
<1>1. CASE op.multi /\ f = None
  <2>1. Good(Recompute(op))
    BY RecomputeGood DEF Good, SoundOperation
  <2> QED BY <1>1, <2>1 DEF FileProgressed
<1>2. CASE op.multi /\ f # None
  <2> DEFINE g == [op.files EXCEPT ![f].bytes = n,
                                   ![f].status = IF status = None THEN @ ELSE status]
             new == [op EXCEPT !.files = g]
  <2>1. f \in File /\ op.files \in [File -> FileRecord]
    BY <1>2 DEF Good, Operation
  <2>2. g \in [File -> FileRecord]
    BY <2>1 DEF FileRecord, Status
  <2>3. new \in Operation /\ (new.status = "Completed" => new.done)
    BY <2>2 DEF Good, Operation, SoundOperation
  <2>4. Good(Recompute(new))
    <3> HIDE DEF new
    <3> QED BY <2>3, RecomputeGood
  <2>5. new = [op EXCEPT !.files[f].bytes = n,
                         !.files[f].status = IF status = None THEN @ ELSE status]
    BY <2>1 DEF Good, Operation, FileRecord
  <2> QED BY <1>2, <2>4, <2>5 DEF FileProgressed
<1>3. CASE ~op.multi
  BY <1>3 DEF FileProgressed, Good, SoundOperation, Operation, Status
<1> QED BY <1>1, <1>2, <1>3 DEF Good, Operation

(* update_file_progress_with_error (494-543) keeps a record good.            *)
LEMMA FileFailedGood ==
    ASSUME NEW op, Good(op), NEW f \in File \cup {None}
    PROVE  Good(FileFailed(op, f))
<1> USE DEF Good, SoundOperation, Operation, Status
<1>1. CASE op.multi /\ f # None
  BY <1>1 DEF FileFailed, FileRecord
<1>2. CASE ~(op.multi /\ f # None)
  BY <1>2 DEF FileFailed, Progressed
<1> QED BY <1>1, <1>2

(* complete_operation, fail_operation and cancel_operation keep a record     *)
(* good; completing needs the test of its children (599-628).               *)
LEMMA TerminalGood ==
    ASSUME NEW op, Good(op), NEW status \in {"Completed", "Failed", "Canceled"},
           status = "Completed" => MayComplete(op)
    PROVE  Good(Terminal(op, status))
BY DEF Good, SoundOperation, Operation, Status, Terminal, MayComplete

(* update_operation_progress keeps a record good, a new operation is good.   *)
LEMMA OtherGood ==
    /\ \A op : Good(op) => Good(Progressed(op))
    /\ \A multi \in BOOLEAN : Good(NewOperation(multi))
BY DEF Good, SoundOperation, Operation, Status, Progressed, NewOperation, FileRecord

(* Adding or replacing one record by a good one keeps the map good.          *)
LEMMA GoodMapUpdate ==
    ASSUME NEW m, GoodMap(m), NEW o \in OpId, NEW new, Good(new)
    PROVE  /\ GoodMap([p \in DOMAIN m \cup {o} |-> IF p = o THEN new ELSE m[p]])
           /\ o \in DOMAIN m => GoodMap([m EXCEPT ![o] = new])
BY DEF GoodMap

(* Dropping records (pruning, delete_operation) keeps the map good.          *)
LEMMA GoodMapRestrict ==
    ASSUME NEW m, GoodMap(m), NEW S, S \subseteq DOMAIN m
    PROVE  GoodMap(Restrict(m, S))
BY DEF GoodMap, Restrict

-----------------------------------------------------------------------------
(* A step that only replaces the record of o by a good one keeps the         *)
(* invariant: the file and the snapshots are left alone.                    *)
LEMMA UpdateKeeps ==
    ASSUME IInv, NEW t, NEW o \in OpId, NEW new, o \in DOMAIN ops => Good(new),
           NEW stamped, NEW pc, Update(t, o, new, stamped, pc)
    PROVE  IInv'
<1>1. o \in DOMAIN ops /\ ops' = [ops EXCEPT ![o] = new]
      /\ disk' = disk /\ spawned' = spawned
  BY DEF Update
<1>2. GoodMap(ops')
  BY <1>1, GoodMapUpdate DEF IInv
<1> QED BY <1>1, <1>2 DEF IInv

(* IInv is inductive: every step of every thread, of a spawned writer and a  *)
(* restart keep it.                                                         *)
THEOREM TrackerInductive == Spec => []IInv
<1>1. Init => IInv
  BY DEF Init, IInv, GoodMap, NoState
<1>2. IInv /\ [Next]_vars => IInv'
  <2> SUFFICES ASSUME IInv, [Next]_vars PROVE IInv'
    OBVIOUS
  <2>0. \A o \in DOMAIN ops : Good(ops[o])
    BY DEF IInv, GoodMap
  <2>1. ASSUME NEW t \in Thread, NEW o \in OpId, NEW multi \in BOOLEAN,
               CreateOperation(t, o, multi)
        PROVE  IInv'
    <3> DEFINE new == NewOperation(multi)
               m   == [p \in DOMAIN ops \cup {o} |-> IF p = o THEN new ELSE ops[p]]
    <3>1. Good(new)
      BY OtherGood
    <3>2. GoodMap(m)
      <4> HIDE DEF new
      <4> QED BY <3>1, GoodMapUpdate DEF IInv
    <3>3. ops' = m
      BY <2>1 DEF CreateOperation
    <3> HIDE DEF m
    <3> QED BY <2>1, <3>2, <3>3 DEF CreateOperation, IInv
  <2>2. ASSUME NEW t \in Thread, NEW o \in OpId, UpdateOperationProgress(t, o)
        PROVE  IInv'
    <3>1. o \in DOMAIN ops => Good(Progressed(ops[o]))
      BY <2>0, OtherGood
    <3> QED BY <2>2, <3>1, UpdateKeeps DEF UpdateOperationProgress
  <2>3. ASSUME NEW t \in Thread, NEW o \in OpId, NEW f \in File \cup {None}, NEW n \in Bytes,
               NEW status \in {None, "InProgress", "Completed", "Failed"},
               UpdateFileProgress(t, o, f, n, status)
        PROVE  IInv'
    <3> DEFINE new == FileProgressed(ops[o], f, n, status)
    <3>1. o \in DOMAIN ops => Good(new)
      BY <2>0, FileProgressedGood, SizeAssumption
    <3>2. PICK stamped : Update(t, o, new, stamped, "save")
      BY <2>3 DEF UpdateFileProgress
    <3> HIDE DEF new
    <3> QED BY <3>1, <3>2, UpdateKeeps
  <2>4. ASSUME NEW t \in Thread, NEW o \in OpId, NEW f \in File \cup {None},
               UpdateFileProgressWithError(t, o, f)
        PROVE  IInv'
    <3>1. o \in DOMAIN ops => Good(FileFailed(ops[o], f))
      BY <2>0, FileFailedGood
    <3> QED BY <2>4, <3>1, UpdateKeeps DEF UpdateFileProgressWithError
  <2>5. ASSUME NEW t \in Thread, NEW o \in OpId, CompleteOperation(t, o)
        PROVE  IInv'
    <3>1. o \in DOMAIN ops
      BY <2>5 DEF CompleteOperation
    <3>2. CASE MayComplete(ops[o])
      <4>1. Good(Terminal(ops[o], "Completed"))
        BY <2>0, <3>1, <3>2, TerminalGood
      <4> QED BY <2>5, <3>2, <4>1, UpdateKeeps DEF CompleteOperation
    <3>3. CASE ~MayComplete(ops[o])
      BY <2>0, <2>5, <3>3, UpdateKeeps DEF CompleteOperation
    <3> QED BY <3>2, <3>3
  <2>6. ASSUME NEW t \in Thread, NEW o \in OpId, FailOperation(t, o) PROVE IInv'
    <3>1. o \in DOMAIN ops => Good(Terminal(ops[o], "Failed"))
      BY <2>0, TerminalGood
    <3> QED BY <2>6, <3>1, UpdateKeeps DEF FailOperation
  <2>7. ASSUME NEW t \in Thread, NEW o \in OpId, CancelOperation(t, o) PROVE IInv'
    <3>1. o \in DOMAIN ops => Good(Terminal(ops[o], "Canceled"))
      BY <2>0, TerminalGood
    <3> QED BY <2>7, <3>1, UpdateKeeps DEF CancelOperation
  <2>8. ASSUME NEW t \in Thread, NEW o \in OpId,
               UpdateUnknown(t, o) \/ UpdateOperationMetadata(t, o)
        PROVE  IInv'
    BY <2>8 DEF UpdateUnknown, UpdateOperationMetadata, IInv
  <2>9. ASSUME NEW t \in Thread, NEW o \in OpId, DeleteOperation(t, o) PROVE IInv'
    <3>1. GoodMap(ops')
      BY <2>9, GoodMapRestrict DEF DeleteOperation, IInv
    <3> QED BY <2>9, <3>1 DEF DeleteOperation, IInv
  <2>10. ASSUME NEW t \in Thread, ClearAll(t) PROVE IInv'
    BY <2>10 DEF ClearAll, IInv, GoodMap
  <2>11. ASSUME NEW t \in Thread, AppendToAuditLog(t) PROVE IInv'
    BY <2>11 DEF AppendToAuditLog, IInv
  <2>12. ASSUME NEW t \in Thread, SpawnSave(t) PROVE IInv'
    BY <2>12 DEF SpawnSave, IInv
  <2>13. ASSUME NEW t \in Thread, CleanupOldOperations(t) PROVE IInv'
    <3>1. Kept \subseteq DOMAIN ops
      BY DEF Kept
    <3>2. GoodMap(ops')
      BY <2>13, <3>1, GoodMapRestrict DEF CleanupOldOperations, IInv
    <3> QED BY <2>13, <3>2 DEF CleanupOldOperations, IInv
  <2>14. ASSUME NEW t \in Thread, SaveState(t) PROVE IInv'
    BY <2>14 DEF SaveState, IInv
  <2>15. ASSUME NEW t \in Thread, RemoveStateFile(t) PROVE IInv'
    BY <2>15 DEF RemoveStateFile, IInv, NoState, GoodMap
  <2>16. ASSUME NEW s \in spawned, SpawnedWrite(s) PROVE IInv'
    BY <2>16 DEF SpawnedWrite, IInv
  <2>17. CASE Restart
    BY <2>17 DEF Restart, IInv
  <2>18. CASE UNCHANGED vars
    BY <2>18 DEF vars, IInv
  <2>19. ASSUME NEW t \in Thread, Call(t) PROVE IInv'
    BY <2>19, <2>1, <2>2, <2>3, <2>4, <2>5, <2>6, <2>7, <2>8, <2>9 DEF Call
  <2>20. ASSUME NEW t \in Thread, Continue(t) PROVE IInv'
    BY <2>20, <2>11, <2>12, <2>13, <2>14, <2>15 DEF Continue
  <2> QED BY <2>10, <2>16, <2>17, <2>18, <2>19, <2>20 DEF Next
<1> QED BY <1>1, <1>2, PTL DEF Spec

(* No interleaving of threads, spawned writes, pruning, clearing and         *)
(* restarts leaves an operation marked Completed, in memory, in the state    *)
(* file or on its way there, while one of its files is not complete.         *)
THEOREM CompletedCorrect == Spec => []CompletedMeansAllFiles
<1>1. IInv => CompletedMeansAllFiles
  BY DEF IInv, GoodMap, Good, CompletedMeansAllFiles, SoundMap
<1> QED BY <1>1, TrackerInductive, PTL

(* The operation map, the state file and the snapshots are always maps from  *)
(* operation ids to operations.                                             *)
THEOREM MapsCorrect == Spec => []MapsTyped
<1>1. IInv => MapsTyped
  BY DEF IInv, GoodMap, Good, MapsTyped, IsOpMap
<1> QED BY <1>1, TrackerInductive, PTL
-----------------------------------------------------------------------------
(* The order of the history: a strict order of the ids of a finite map.       *)
IsOrder(D, r) == /\ IsFiniteSet(D)
                 /\ r \subseteq D \X D
                 /\ \A p \in D : <<p, p>> \notin r
                 /\ \A p, q, o \in D : <<p, q>> \in r /\ <<q, o>> \in r => <<p, o>> \in r

OrderInv == /\ IsOrder(DOMAIN ops, recent)
            /\ IsOrder(DOMAIN disk.ops, disk.recent)
            /\ \A s \in spawned : IsOrder(DOMAIN s.ops, s.recent)

(* A thread on its way to the audit log carries the id and the status it will  *)
(* append.                                                                   *)
ThreadState == {r \in [pc : PC, op : OpId \cup {None}, status : Status \cup {None}] :
                   r.pc \in {"createAudit", "audit"} => r.op \in OpId /\ r.status \in Status}

(* The operations that are in the map, in the state file or in a snapshot.     *)
Visible == DOMAIN ops \cup DOMAIN disk.ops \cup UNION {DOMAIN s.ops : s \in spawned}

(* An operation has an audit entry, or its creator is about to write it, or    *)
(* writing one has failed.                                                    *)
Covered(o) == \/ \E s \in Status : <<o, s>> \in audit
              \/ \E t \in Thread : thread[t].op = o /\ thread[t].pc = "createAudit"
              \/ o \in unaudited

(* The second inductive invariant.  The audit trail must cover the snapshots   *)
(* too: a spawned task may write one over the state file at any later time.   *)
AuditInv == /\ thread \in [Thread -> ThreadState]
            /\ writer \in Thread \cup {None}
            /\ audit \subseteq OpId \X Status
            /\ cleared \subseteq OpId /\ unaudited \subseteq OpId
            /\ crashes \in 0 .. MaxCrash
            /\ OrderInv
            /\ crashes = 0 => \A o \in Visible : Covered(o)

(* Keeping some of the operations, or making one the most recent, leaves an    *)
(* order.                                                                    *)
LEMMA OrderKept ==
    ASSUME NEW D, NEW r, IsOrder(D, r), NEW S \in SUBSET D
    PROVE  IsOrder(S, r \cap (S \X S))
<1>1. IsFiniteSet(S)
  BY FS_Subset DEF IsOrder
<1> QED BY <1>1 DEF IsOrder

LEMMA OrderNewest ==
    ASSUME OrderInv, NEW o
    PROVE  IsOrder(DOMAIN ops \cup {o}, Newest(o))
<1> DEFINE D == DOMAIN ops
           S == D \ {o}
           r == recent \cap (S \X S)
<1>1. IsOrder(D, recent)
  BY DEF OrderInv
<1>2. IsFiniteSet(D \cup {o})
  BY <1>1, FS_AddElement DEF IsOrder
<1>3. IsOrder(S, r)
  BY <1>1, OrderKept
<1>4. D \cup {o} = S \cup {o} /\ o \notin S
  OBVIOUS
<1>5. Newest(o) = r \cup (S \X {o})
  BY DEF Newest, Among
<1> HIDE DEF D, S, r
<1>6. \A p, q \in S \cup {o} : <<p, q>> \in Newest(o) <=> (p \in S /\ (<<p, q>> \in r \/ q = o))
  BY <1>3, <1>4, <1>5 DEF IsOrder
<1>7. Newest(o) \subseteq (S \cup {o}) \X (S \cup {o})
  BY <1>3, <1>5 DEF IsOrder
<1>8. \A p \in S \cup {o} : <<p, p>> \notin Newest(o)
  BY <1>3, <1>4, <1>6 DEF IsOrder
<1>9. ASSUME NEW p \in S \cup {o}, NEW q \in S \cup {o}, NEW k \in S \cup {o},
             <<p, q>> \in Newest(o), <<q, k>> \in Newest(o)
      PROVE  <<p, k>> \in Newest(o)
  <2>1. p \in S /\ q \in S
    BY <1>6, <1>9
  <2>2. <<p, q>> \in r
    BY <1>4, <1>6, <1>9, <2>1
  <2>3. CASE k = o
    BY <1>6, <2>1, <2>3
  <2>4. CASE k # o
    <3>1. k \in S /\ <<q, k>> \in r
      BY <1>6, <1>9, <2>4
    <3>2. <<p, k>> \in r
      BY <1>3, <2>1, <2>2, <3>1 DEF IsOrder
    <3> QED BY <1>6, <2>1, <3>2
  <2> QED BY <2>3, <2>4
<1>10. \A p, q, k \in S \cup {o} :
          <<p, q>> \in Newest(o) /\ <<q, k>> \in Newest(o) => <<p, k>> \in Newest(o)
  BY <1>9
<1>11. IsOrder(S \cup {o}, Newest(o))
  BY <1>2, <1>4, <1>7, <1>8, <1>10 DEF IsOrder
<1> QED BY <1>11, <1>4 DEF D

(* A step of one thread keeps the audit trail of every operation, when a       *)
(* thread that was creating one has just appended its entry, or failed to.    *)
LEMMA CoverStays ==
    ASSUME AuditInv, NEW u \in Thread, NEW r \in ThreadState,
           thread' = [thread EXCEPT ![u] = r], audit \subseteq audit', unaudited \subseteq unaudited',
           thread[u].pc = "createAudit" =>
               <<thread[u].op, thread[u].status>> \in audit' \/ thread[u].op \in unaudited'
    PROVE  /\ thread' \in [Thread -> ThreadState]
           /\ \A o : Covered(o) => Covered(o)'
<1>1. thread' \in [Thread -> ThreadState]
  BY DEF AuditInv
<1>2. ASSUME NEW o, NEW t \in Thread, thread[t].op = o, thread[t].pc = "createAudit"
      PROVE  Covered(o)'
  <2>1. CASE t = u
    <3>1. thread[u].status \in Status
      BY <1>2, <2>1 DEF AuditInv, ThreadState
    <3> QED BY <1>2, <2>1, <3>1 DEF Covered
  <2>2. CASE t # u
    <3>1. thread'[t] = thread[t]
      BY <2>2 DEF AuditInv
    <3> QED BY <1>2, <3>1 DEF Covered
  <2> QED BY <2>1, <2>2
<1>3. ASSUME NEW o, NEW s \in Status, <<o, s>> \in audit PROVE Covered(o)'
  BY <1>3 DEF Covered
<1>4. ASSUME NEW o, o \in unaudited PROVE Covered(o)'
  BY <1>4 DEF Covered
<1> QED BY <1>1, <1>2, <1>3, <1>4 DEF Covered

(* The rest of the second invariant follows when the step brings no operation  *)
(* into sight that is not covered.                                           *)
LEMMA AuditKept ==
    ASSUME AuditInv, \A o : Covered(o) => Covered(o)', crashes' = crashes,
           \A o \in Visible' : o \in Visible \/ Covered(o)'
    PROVE  crashes' = 0 => \A o \in Visible' : Covered(o)'
BY DEF AuditInv

(* An update of one record keeps the second invariant.                        *)
LEMMA UpdateAudited ==
    ASSUME IInv, AuditInv, NEW t \in Thread, NEW o \in OpId, NEW new,
           o \in DOMAIN ops => Good(new),
           NEW stamped, NEW pc \in {"idle", "save", "audit"}, Update(t, o, new, stamped, pc)
    PROVE  AuditInv'
<1>1. /\ o \in DOMAIN ops /\ ops' = [ops EXCEPT ![o] = new]
      /\ thread[t].pc = "idle" /\ recent' = Stamped(o, new, stamped)
      /\ UNCHANGED <<writer, disk, spawned, audit, cleared, crashes, unaudited>>
  BY DEF Update, Enter
<1>2. DOMAIN ops' = DOMAIN ops /\ DOMAIN ops \cup {o} = DOMAIN ops
  BY <1>1
<1>3. IsOrder(DOMAIN ops', recent')
  <2>1. IsOrder(DOMAIN ops, Newest(o))
    BY <1>2, OrderNewest DEF AuditInv
  <2>2. recent' \in {Newest(o), recent}
    BY <1>1 DEF Stamped
  <2> QED BY <1>2, <2>1, <2>2 DEF AuditInv, OrderInv
<1>4. OrderInv'
  BY <1>1, <1>3 DEF AuditInv, OrderInv
<1>5. Visible' = Visible
  BY <1>1, <1>2 DEF Visible
<1>6. thread' \in [Thread -> ThreadState] /\ \A p : Covered(p) => Covered(p)'
  <2>1. CASE pc = "idle"
    <3>1. thread' = thread
      BY <2>1 DEF Update
    <3> QED BY <1>1, <3>1 DEF AuditInv, Covered
  <2>2. CASE pc # "idle"
    <3> DEFINE r == [pc |-> pc, op |-> o, status |-> new.status]
    <3>1. thread' = [thread EXCEPT ![t] = r]
      BY <2>2 DEF Update, Goto
    <3>2. new.status \in Status
      BY <1>1 DEF Good, Operation
    <3>3. r \in ThreadState
      BY <3>2 DEF ThreadState, PC
    <3> HIDE DEF r
    <3> QED BY <1>1, <3>1, <3>3, CoverStays
  <2> QED BY <2>1, <2>2
<1>7. crashes' = 0 => \A p \in Visible' : Covered(p)'
  BY <1>1, <1>5, <1>6, AuditKept
<1> QED BY <1>1, <1>4, <1>6, <1>7 DEF AuditInv
(* A step of a thread that leaves the map of operations and the order alone,   *)
(* or only drops operations, keeps the second invariant.                      *)
LEMMA ThreadAudited ==
    ASSUME AuditInv, NEW t \in Thread, NEW r \in ThreadState,
           thread' = [thread EXCEPT ![t] = r], audit \subseteq audit', unaudited \subseteq unaudited',
           thread[t].pc = "createAudit" =>
               <<thread[t].op, thread[t].status>> \in audit' \/ thread[t].op \in unaudited',
           audit' \subseteq OpId \X Status, unaudited' \subseteq OpId, writer' \in Thread \cup {None},
           cleared' \subseteq OpId, crashes' = crashes,
           OrderInv', Visible' \subseteq Visible
    PROVE  AuditInv'
<1>1. thread' \in [Thread -> ThreadState] /\ \A p : Covered(p) => Covered(p)'
  BY CoverStays
<1>2. crashes' = 0 => \A p \in Visible' : Covered(p)'
  BY <1>1, AuditKept
<1> QED BY <1>1, <1>2 DEF AuditInv

(* The second invariant is inductive, given the first.                        *)
LEMMA AuditStep ==
    ASSUME IInv, AuditInv, [Next]_vars
    PROVE  AuditInv'
<1>0. /\ \A o \in DOMAIN ops : Good(ops[o])
      /\ DOMAIN ops \subseteq OpId
  BY DEF IInv, GoodMap
<1>i. Idle \in ThreadState /\ Idle.pc = "idle"
  BY DEF Idle, ThreadState, PC
<1>1. ASSUME NEW t \in Thread, NEW o \in OpId, NEW multi \in BOOLEAN,
             CreateOperation(t, o, multi)
      PROVE  AuditInv'
  <2> DEFINE r == [pc |-> "createAudit", op |-> o, status |-> "Pending"]
  <2>1. r \in ThreadState
    BY DEF ThreadState, PC, Status
  <2>2. /\ thread' = [thread EXCEPT ![t] = r] /\ thread[t].pc = "idle"
        /\ DOMAIN ops' = DOMAIN ops \cup {o} /\ recent' = Newest(o)
        /\ UNCHANGED <<writer, disk, spawned, audit, cleared, crashes, unaudited>>
    BY <1>1 DEF CreateOperation, Goto, Enter
  <2>3. IsOrder(DOMAIN ops', recent')
    BY <2>2, OrderNewest DEF AuditInv
  <2>4. OrderInv'
    BY <2>2, <2>3 DEF AuditInv, OrderInv
  <2>5. thread' \in [Thread -> ThreadState] /\ \A p : Covered(p) => Covered(p)'
    <3> HIDE DEF r
    <3> QED BY <2>1, <2>2, CoverStays
  <2>6. thread'[t].op = o /\ thread'[t].pc = "createAudit"
    BY <2>2 DEF AuditInv
  <2>7. Covered(o)'
    BY <2>6 DEF Covered
  <2>8. Visible' \subseteq Visible \cup {o}
    BY <2>2 DEF Visible
  <2>9. crashes' = 0 => \A p \in Visible' : Covered(p)'
    BY <2>2, <2>5, <2>7, <2>8, AuditKept
  <2> HIDE DEF r
  <2> QED BY <2>2, <2>4, <2>5, <2>9 DEF AuditInv
<1>2. ASSUME NEW t \in Thread, NEW o \in OpId, UpdateOperationProgress(t, o)
      PROVE  AuditInv'
  <2>1. o \in DOMAIN ops => Good(Progressed(ops[o]))
    BY <1>0, OtherGood
  <2> QED BY <1>2, <2>1, UpdateAudited DEF UpdateOperationProgress
<1>3. ASSUME NEW t \in Thread, NEW o \in OpId, NEW f \in File \cup {None}, NEW n \in Bytes,
             NEW status \in {None, "InProgress", "Completed", "Failed"},
             UpdateFileProgress(t, o, f, n, status)
      PROVE  AuditInv'
  <2> DEFINE new == FileProgressed(ops[o], f, n, status)
  <2>1. o \in DOMAIN ops => Good(new)
    BY <1>0, FileProgressedGood, SizeAssumption
  <2>2. PICK stamped : Update(t, o, new, stamped, "save")
    BY <1>3 DEF UpdateFileProgress
  <2> HIDE DEF new
  <2> QED BY <2>1, <2>2, UpdateAudited
<1>4. ASSUME NEW t \in Thread, NEW o \in OpId, NEW f \in File \cup {None},
             UpdateFileProgressWithError(t, o, f)
      PROVE  AuditInv'
  <2>1. o \in DOMAIN ops => Good(FileFailed(ops[o], f))
    BY <1>0, FileFailedGood
  <2> QED BY <1>4, <2>1, UpdateAudited DEF UpdateFileProgressWithError
<1>5. ASSUME NEW t \in Thread, NEW o \in OpId, CompleteOperation(t, o)
      PROVE  AuditInv'
  <2>1. o \in DOMAIN ops
    BY <1>5 DEF CompleteOperation
  <2>2. CASE MayComplete(ops[o])
    <3>1. Good(Terminal(ops[o], "Completed"))
      BY <1>0, <2>1, <2>2, TerminalGood
    <3> QED BY <1>5, <2>2, <3>1, UpdateAudited DEF CompleteOperation
  <2>3. CASE ~MayComplete(ops[o])
    BY <1>0, <1>5, <2>3, UpdateAudited DEF CompleteOperation
  <2> QED BY <2>2, <2>3
<1>6. ASSUME NEW t \in Thread, NEW o \in OpId, FailOperation(t, o) PROVE AuditInv'
  <2>1. o \in DOMAIN ops => Good(Terminal(ops[o], "Failed"))
    BY <1>0, TerminalGood
  <2> QED BY <1>6, <2>1, UpdateAudited DEF FailOperation
<1>7. ASSUME NEW t \in Thread, NEW o \in OpId, CancelOperation(t, o) PROVE AuditInv'
  <2>1. o \in DOMAIN ops => Good(Terminal(ops[o], "Canceled"))
    BY <1>0, TerminalGood
  <2> QED BY <1>7, <2>1, UpdateAudited DEF CancelOperation
<1>8. ASSUME NEW t \in Thread, NEW o \in OpId, UpdateUnknown(t, o) PROVE AuditInv'
  <2> DEFINE r == [pc |-> "save", op |-> o, status |-> None]
  <2>1. r \in ThreadState
    BY DEF ThreadState, PC
  <2>2. /\ thread' = [thread EXCEPT ![t] = r] /\ thread[t].pc = "idle"
        /\ UNCHANGED <<ops, recent, writer, disk, spawned, audit, cleared, crashes, unaudited>>
    BY <1>8 DEF UpdateUnknown, Goto, Enter
  <2>3. OrderInv' /\ Visible' = Visible
    BY <2>2 DEF AuditInv, OrderInv, Visible
  <2> HIDE DEF r
  <2> QED BY <2>1, <2>2, <2>3, ThreadAudited DEF AuditInv
<1>9. ASSUME NEW t \in Thread, NEW o \in OpId, UpdateOperationMetadata(t, o) PROVE AuditInv'
  <2> DEFINE r == [pc |-> "guardedSave", op |-> o, status |-> None]
  <2>1. r \in ThreadState
    BY DEF ThreadState, PC
  <2>2. /\ thread' = [thread EXCEPT ![t] = r] /\ thread[t].pc = "idle" /\ writer' = t
        /\ recent' \in IF o \in DOMAIN ops THEN {Newest(o), recent} ELSE {recent}
        /\ UNCHANGED <<ops, disk, spawned, audit, cleared, crashes, unaudited>>
    BY <1>9 DEF UpdateOperationMetadata, Goto, Enter, Stamped
  <2>3. o \in DOMAIN ops => IsOrder(DOMAIN ops, Newest(o))
    <3>1. o \in DOMAIN ops => DOMAIN ops \cup {o} = DOMAIN ops
      OBVIOUS
    <3> QED BY <3>1, OrderNewest DEF AuditInv
  <2>4. OrderInv' /\ Visible' = Visible
    BY <2>2, <2>3 DEF AuditInv, OrderInv, Visible
  <2> HIDE DEF r
  <2> QED BY <2>1, <2>2, <2>4, ThreadAudited DEF AuditInv
<1>10. ASSUME NEW t \in Thread, NEW o \in OpId, DeleteOperation(t, o) PROVE AuditInv'
  <2> DEFINE r == [pc |-> "guardedSave", op |-> o, status |-> None]
             S == DOMAIN ops \ {o}
  <2>1. r \in ThreadState
    BY DEF ThreadState, PC
  <2>2. /\ thread' = [thread EXCEPT ![t] = r] /\ thread[t].pc = "idle" /\ writer' = t
        /\ DOMAIN ops' = S /\ recent' = recent \cap (S \X S)
        /\ UNCHANGED <<disk, spawned, audit, cleared, crashes, unaudited>>
    BY <1>10 DEF DeleteOperation, Goto, Enter, Restrict, Among
  <2>3. S \in SUBSET DOMAIN ops
    OBVIOUS
  <2> HIDE DEF S, r
  <2>4. IsOrder(S, recent \cap (S \X S))
    BY <2>3, OrderKept DEF AuditInv, OrderInv
  <2>5. OrderInv' /\ Visible' \subseteq Visible
    BY <2>2, <2>3, <2>4 DEF AuditInv, OrderInv, Visible
  <2> QED BY <2>1, <2>2, <2>5, ThreadAudited DEF AuditInv
<1>11. ASSUME NEW t \in Thread, ClearAll(t) PROVE AuditInv'
  <2> DEFINE r == [pc |-> "removeFile", op |-> None, status |-> None]
  <2>1. r \in ThreadState
    BY DEF ThreadState, PC
  <2>2. /\ thread' = [thread EXCEPT ![t] = r] /\ thread[t].pc = "idle"
        /\ ops' = << >> /\ recent' = {} /\ cleared' = cleared \cup DOMAIN ops
        /\ UNCHANGED <<writer, disk, spawned, audit, crashes, unaudited>>
    BY <1>11 DEF ClearAll, Goto, Enter
  <2>3. DOMAIN ops' = {}
    BY <2>2
  <2>4. IsOrder(DOMAIN ops', recent')
    BY <2>2, <2>3, FS_EmptySet DEF IsOrder
  <2>5. OrderInv' /\ Visible' \subseteq Visible
    BY <2>2, <2>3, <2>4 DEF AuditInv, OrderInv, Visible
  <2> HIDE DEF r
  <2> QED BY <1>0, <2>1, <2>2, <2>5, ThreadAudited DEF AuditInv
<1>12. ASSUME NEW t \in Thread, AppendToAuditLog(t) PROVE AuditInv'
  <2> DEFINE pc == IF thread[t].pc = "audit" THEN "cleanup" ELSE "snapshot"
             r == [pc |-> pc, op |-> thread[t].op, status |-> thread[t].status]
  <2>1. thread[t] \in ThreadState /\ thread[t].op \in OpId /\ thread[t].status \in Status
    BY <1>12 DEF AppendToAuditLog, AuditInv, ThreadState
  <2>2. r \in ThreadState
    BY <2>1 DEF ThreadState, PC
  <2>3. /\ thread' = [thread EXCEPT ![t] = r]
        /\ \/ audit' = audit \cup {<<thread[t].op, thread[t].status>>} /\ unaudited' = unaudited
           \/ unaudited' = unaudited \cup {thread[t].op} /\ audit' = audit
        /\ UNCHANGED <<ops, recent, writer, disk, spawned, cleared, crashes>>
    BY <1>12 DEF AppendToAuditLog, Goto
  <2>4. OrderInv' /\ Visible' = Visible
    BY <2>3 DEF AuditInv, OrderInv, Visible
  <2> HIDE DEF r
  <2>5. audit' \subseteq OpId \X Status /\ unaudited' \subseteq OpId
    BY <2>1, <2>3 DEF AuditInv
  <2>6. audit \subseteq audit' /\ unaudited \subseteq unaudited'
    BY <2>3
  <2>7. <<thread[t].op, thread[t].status>> \in audit' \/ thread[t].op \in unaudited'
    BY <2>3
  <2>8. writer' \in Thread \cup {None} /\ cleared' \subseteq OpId /\ crashes' = crashes
    BY <2>3 DEF AuditInv
  <2>9. thread' = [thread EXCEPT ![t] = r]
    BY <2>3
  <2> QED BY <2>2, <2>4, <2>5, <2>6, <2>7, <2>8, <2>9, ThreadAudited
<1>13. ASSUME NEW t \in Thread, SpawnSave(t) PROVE AuditInv'
  <2>1. /\ thread' = [thread EXCEPT ![t] = Idle] /\ thread[t].pc = "snapshot"
        /\ spawned' = spawned \cup {[ops |-> ops, recent |-> recent]}
        /\ UNCHANGED <<ops, recent, writer, disk, audit, cleared, crashes, unaudited>>
    BY <1>13 DEF SpawnSave
  <2>2. OrderInv'
    BY <2>1 DEF AuditInv, OrderInv
  <2>3. Visible' \subseteq Visible
    BY <2>1 DEF Visible
  <2> QED BY <1>i, <2>1, <2>2, <2>3, ThreadAudited DEF AuditInv
<1>14. ASSUME NEW t \in Thread, CleanupOldOperations(t) PROVE AuditInv'
  <2> DEFINE r == [pc |-> "save", op |-> thread[t].op, status |-> thread[t].status]
  <2>1. thread[t] \in ThreadState
    BY DEF AuditInv
  <2>2. r \in ThreadState
    BY <2>1 DEF ThreadState, PC
  <2>3. Kept \subseteq DOMAIN ops
    BY DEF Kept
  <2>4. /\ thread' = [thread EXCEPT ![t] = r] /\ thread[t].pc = "cleanup"
        /\ DOMAIN ops' = Kept /\ recent' = recent \cap (Kept \X Kept)
        /\ UNCHANGED <<writer, disk, spawned, audit, cleared, crashes, unaudited>>
    BY <1>14, <2>3 DEF CleanupOldOperations, Goto, Restrict, Among
  <2>5. IsOrder(Kept, recent \cap (Kept \X Kept))
    BY <2>3, OrderKept DEF AuditInv, OrderInv
  <2> HIDE DEF r
  <2>6. OrderInv' /\ Visible' \subseteq Visible
    BY <2>3, <2>4, <2>5 DEF AuditInv, OrderInv, Visible
  <2> QED BY <2>2, <2>4, <2>6, ThreadAudited DEF AuditInv
<1>15. ASSUME NEW t \in Thread, SaveState(t) PROVE AuditInv'
  <2>1. /\ thread' = [thread EXCEPT ![t] = Idle] /\ thread[t].pc \in {"save", "guardedSave"}
        /\ disk' \in {[ops |-> ops, recent |-> recent], disk}
        /\ UNCHANGED <<ops, recent, writer, spawned, audit, cleared, crashes, unaudited>>
    BY <1>15 DEF SaveState
  <2>2. OrderInv' /\ Visible' \subseteq Visible
    BY <2>1 DEF AuditInv, OrderInv, Visible
  <2> QED BY <1>i, <2>1, <2>2, ThreadAudited DEF AuditInv
<1>16. ASSUME NEW t \in Thread, RemoveStateFile(t) PROVE AuditInv'
  <2>1. /\ thread' = [thread EXCEPT ![t] = Idle] /\ thread[t].pc = "removeFile"
        /\ (DOMAIN disk'.ops = {} /\ disk'.recent = {}) \/ disk' = disk
        /\ UNCHANGED <<ops, recent, writer, spawned, audit, cleared, crashes, unaudited>>
    BY <1>16 DEF RemoveStateFile, NoState
  <2>2. IsOrder(DOMAIN disk'.ops, disk'.recent)
    BY <2>1, FS_EmptySet DEF IsOrder, AuditInv, OrderInv
  <2>3. OrderInv' /\ Visible' \subseteq Visible
    BY <2>1, <2>2 DEF AuditInv, OrderInv, Visible
  <2> QED BY <1>i, <2>1, <2>3, ThreadAudited DEF AuditInv
<1>17. ASSUME NEW s \in spawned, SpawnedWrite(s) PROVE AuditInv'
  <2>1. disk' \in {s, disk} /\ spawned' \subseteq spawned
        /\ UNCHANGED <<ops, recent, thread, writer, audit, cleared, crashes, unaudited>>
    BY <1>17 DEF SpawnedWrite
  <2>2. OrderInv' /\ Visible' \subseteq Visible
    BY <2>1 DEF AuditInv, OrderInv, Visible
  <2>3. \A o : Covered(o) => Covered(o)'
    BY <2>1 DEF Covered
  <2> QED BY <2>1, <2>2, <2>3 DEF AuditInv
<1>18. CASE Restart
  <2>1. /\ ops' = disk.ops /\ recent' = disk.recent /\ disk' = disk /\ spawned' = {}
        /\ crashes < MaxCrash /\ crashes' = crashes + 1 /\ writer' = None
        /\ thread' = [t \in Thread |-> Idle] /\ UNCHANGED <<audit, cleared, unaudited>>
    BY <1>18 DEF Restart
  <2>2. OrderInv'
    BY <2>1 DEF AuditInv, OrderInv
  <2>3. crashes' \in 0 .. MaxCrash /\ crashes' # 0
    BY <2>1, HistoryAssumption DEF AuditInv
  <2> QED BY <1>i, <2>1, <2>2, <2>3 DEF AuditInv
<1>19. CASE UNCHANGED vars
  BY <1>19 DEF vars, AuditInv, OrderInv, Visible, Covered
<1>20. ASSUME NEW t \in Thread, Call(t) PROVE AuditInv'
  BY <1>20, <1>1, <1>2, <1>3, <1>4, <1>5, <1>6, <1>7, <1>8, <1>9, <1>10 DEF Call
<1>21. ASSUME NEW t \in Thread, Continue(t) PROVE AuditInv'
  BY <1>21, <1>12, <1>13, <1>14, <1>15, <1>16 DEF Continue
<1> QED BY <1>11, <1>17, <1>18, <1>19, <1>20, <1>21 DEF Next

(* The second invariant holds in every reachable state.                       *)
THEOREM AuditInductive == Spec => []AuditInv
<1>1. Init => AuditInv
  <2> SUFFICES ASSUME Init PROVE AuditInv
    OBVIOUS
  <2>1. Idle \in ThreadState
    BY DEF Idle, ThreadState, PC
  <2>2. DOMAIN ops = {} /\ DOMAIN disk.ops = {} /\ spawned = {} /\ recent = {} /\ disk.recent = {}
    BY DEF Init, NoState
  <2>3. OrderInv /\ Visible = {}
    BY <2>2, FS_EmptySet DEF OrderInv, IsOrder, Visible
  <2> QED BY <2>1, <2>3, HistoryAssumption DEF Init, AuditInv
<1>2. IInv /\ AuditInv /\ [Next]_vars => AuditInv'
  BY AuditStep
<1> QED BY <1>1, <1>2, TrackerInductive, PTL DEF Spec

(* The state file.  Every step that changes the map leaves a thread that will  *)
(* save it or a snapshot of it.                                               *)
FileInv == StateFileCurrent /\ saved \in {"current", "behind"}

LEMMA SavedTyped ==
    ASSUME FileInv, [Next]_vars
    PROVE  saved' \in {"current", "behind"}
<1>1. ASSUME NEW t \in Thread, Call(t) PROVE saved' = saved
  BY <1>1 DEF Call, CreateOperation, UpdateOperationProgress, UpdateFileProgress,
         UpdateFileProgressWithError, UpdateUnknown, CompleteOperation, FailOperation, CancelOperation, Update,
         UpdateOperationMetadata, DeleteOperation
<1>2. ASSUME NEW t \in Thread, Continue(t) \/ ClearAll(t) PROVE saved' \in {saved, Compared}
  BY <1>2 DEF Continue, ClearAll, AppendToAuditLog, SpawnSave, CleanupOldOperations, SaveState, RemoveStateFile
<1>3. ASSUME NEW s \in spawned, SpawnedWrite(s) PROVE saved' = Compared
  BY <1>3 DEF SpawnedWrite
<1>4. saved' \in {saved, "current", Compared}
  BY <1>1, <1>2, <1>3 DEF Next, Restart, vars
<1> QED BY <1>4 DEF FileInv, Compared

LEMMA FileStep ==
    ASSUME IInv, AuditInv, StateFileCurrent, [Next]_vars
    PROVE  StateFileCurrent'
<1>1. ASSUME NEW t \in Thread, NEW pc, NEW o, NEW status, Goto(t, pc, o, status), pc # "idle"
      PROVE  StateFileCurrent'
  <2>1. thread'[t].pc # "idle"
    BY <1>1 DEF AuditInv, Goto
  <2> QED BY <2>1 DEF StateFileCurrent
<1>2. ASSUME NEW t \in Thread, NEW o \in OpId, NEW new, NEW stamped, NEW pc \in {"save", "audit"},
             Update(t, o, new, stamped, pc)
      PROVE  StateFileCurrent'
  <2>1. Goto(t, pc, o, new.status)
    BY <1>2 DEF Update
  <2> QED BY <1>1, <2>1
<1>3. ASSUME saved' = Compared, ops' = ops PROVE StateFileCurrent'
  BY <1>3 DEF StateFileCurrent, Compared
<1>4. ASSUME NEW t \in Thread, NEW o \in OpId, CompleteOperation(t, o) PROVE StateFileCurrent'
  <2>1. CASE MayComplete(ops[o])
    BY <1>2, <1>4, <2>1 DEF CompleteOperation
  <2>2. CASE ~MayComplete(ops[o])
    <3>1. ops' = [ops EXCEPT ![o] = ops[o]] /\ UNCHANGED <<thread, disk, spawned, saved>>
      BY <1>4, <2>2 DEF CompleteOperation, Update
    <3>2. ops' = ops
      BY <3>1 DEF IInv, GoodMap
    <3> QED BY <3>1, <3>2 DEF StateFileCurrent
  <2> QED BY <2>1, <2>2
<1>5. ASSUME NEW t \in Thread, Call(t) PROVE StateFileCurrent'
  <2>1. ASSUME NEW o \in OpId, NEW multi \in BOOLEAN, CreateOperation(t, o, multi) PROVE StateFileCurrent'
    BY <1>1, <2>1 DEF CreateOperation
  <2>2. ASSUME NEW o \in OpId, UpdateOperationProgress(t, o) PROVE StateFileCurrent'
    BY <1>2, <2>2 DEF UpdateOperationProgress
  <2>3. ASSUME NEW o \in OpId, NEW f \in File \cup {None}, NEW n \in Bytes,
               NEW status \in {None, "InProgress", "Completed", "Failed"}, UpdateFileProgress(t, o, f, n, status)
        PROVE  StateFileCurrent'
    BY <1>2, <2>3 DEF UpdateFileProgress
  <2>4. ASSUME NEW o \in OpId, NEW f \in File \cup {None}, UpdateFileProgressWithError(t, o, f)
        PROVE  StateFileCurrent'
    BY <1>2, <2>4 DEF UpdateFileProgressWithError
  <2>5. ASSUME NEW o \in OpId, UpdateUnknown(t, o) \/ UpdateOperationMetadata(t, o) \/ DeleteOperation(t, o)
        PROVE  StateFileCurrent'
    BY <1>1, <2>5 DEF UpdateUnknown, UpdateOperationMetadata, DeleteOperation
  <2>6. ASSUME NEW o \in OpId, FailOperation(t, o) \/ CancelOperation(t, o) PROVE StateFileCurrent'
    BY <1>2, <2>6 DEF FailOperation, CancelOperation
  <2> QED BY <1>4, <1>5, <2>1, <2>2, <2>3, <2>4, <2>5, <2>6 DEF Call
<1>6. ASSUME NEW t \in Thread, Continue(t) PROVE StateFileCurrent'
  <2>1. CASE AppendToAuditLog(t) \/ CleanupOldOperations(t)
    BY <1>1, <2>1 DEF AppendToAuditLog, CleanupOldOperations
  <2>2. CASE SpawnSave(t)
    BY <2>2 DEF SpawnSave, StateFileCurrent
  <2>3. CASE SaveState(t) \/ RemoveStateFile(t)
    BY <1>3, <2>3 DEF SaveState, RemoveStateFile
  <2> QED BY <1>6, <2>1, <2>2, <2>3 DEF Continue
<1>7. ASSUME NEW t \in Thread, ClearAll(t) PROVE StateFileCurrent'
  BY <1>1, <1>7 DEF ClearAll
<1>8. ASSUME NEW s \in spawned, SpawnedWrite(s) PROVE StateFileCurrent'
  BY <1>3, <1>8 DEF SpawnedWrite
<1>9. CASE Restart
  BY <1>9 DEF Restart, StateFileCurrent
<1>10. CASE UNCHANGED vars
  BY <1>10 DEF vars, StateFileCurrent
<1> QED BY <1>5, <1>6, <1>7, <1>8, <1>9, <1>10 DEF Next

(* Once all calls have returned, what a restart will read is the map, unless   *)
(* the last write failed or was overtaken (save_state, clear_all and the       *)
(* spawned writes of create_operation).                                       *)
THEOREM FileCorrect == Spec => []FileInv
<1>1. Init => FileInv
  BY DEF Init, NoState, FileInv, StateFileCurrent
<1>2. IInv /\ AuditInv /\ FileInv /\ [Next]_vars => FileInv'
  BY FileStep, SavedTyped DEF FileInv
<1> QED BY <1>1, <1>2, TrackerInductive, AuditInductive, PTL DEF Spec

(* Until a crash, every operation that any reader can see, in memory or in the  *)
(* state file, even one a late snapshot brings back, is in the audit log, or  *)
(* its creator is about to append it, or an append failed; a Completed one    *)
(* has complete files, through restarts too; and the state file is current    *)
(* unless its last write failed or was overtaken.                            *)
THEOREM TrackerCorrect == Spec => []TrackerSound
<1>1. MapsTyped /\ IInv /\ AuditInv /\ FileInv => TrackerSound
  <2> SUFFICES ASSUME MapsTyped, IInv, AuditInv, FileInv
               PROVE  TypeOK /\ EveryOperationAudited /\ CompletedMeansAllFiles
    BY DEF TrackerSound, FileInv
  <2>1. recent \subseteq OpId \X OpId /\ disk.recent \subseteq OpId \X OpId
    BY DEF AuditInv, OrderInv, IsOrder, MapsTyped, IsOpMap
  <2>2. \A s \in spawned : s.recent \subseteq OpId \X OpId
    BY DEF AuditInv, OrderInv, IsOrder, MapsTyped, IsOpMap
  <2>3. TypeOK
    BY <2>1, <2>2 DEF TypeOK, AuditInv, ThreadState, FileInv
  <2>4. EveryOperationAudited
    BY DEF EveryOperationAudited, AuditInv, Visible, Covered
  <2>5. CompletedMeansAllFiles
    BY DEF IInv, GoodMap, Good, CompletedMeansAllFiles, SoundMap
  <2> QED BY <2>3, <2>4, <2>5
<1> QED BY <1>1, AuditInductive, TrackerInductive, MapsCorrect, FileCorrect, PTL
-----------------------------------------------------------------------------
\* The finished operations that are more recent than x.
FinishedAfter(x) == {p \in MoreRecent(x) : Finished(ops[p])}

(* Enough history survives the pruning.  That MaxHistory finished operations   *)
(* are more recent than a pruned one does not yet say that they stay, since    *)
(* they may be pruned themselves: the most recent pruned one among them is    *)
(* followed by MaxHistory that all stay.                                      *)
LEMMA EnoughKept ==
    ASSUME OrderInv, NEW o \in DOMAIN ops, o \notin Kept
    PROVE  /\ Finished(ops[o])
           /\ Cardinality({p \in MoreRecent(o) \cap Kept : Finished(ops[p])}) >= MaxHistory
<1> DEFINE D == DOMAIN ops
           K == {p \in MoreRecent(o) \cap Kept : Finished(ops[p])}
           B == FinishedAfter(o) \ Kept
           T == {FinishedAfter(x) : x \in B}
           R == StrictSubsetOrdering(D)
           W == FiniteSubsetsOf(D)
<1>1. IsFiniteSet(D) /\ IsOrder(D, recent)
  BY DEF OrderInv, IsOrder
<1>2. \A x \in D : FinishedAfter(x) \subseteq D
  BY DEF FinishedAfter, MoreRecent
<1>3. \A x \in D \ Kept : /\ Finished(ops[x])
                          /\ Cardinality(FinishedAfter(x)) >= MaxHistory
  BY DEF Kept, Prunable, FinishedAfter
<1>4. \A x \in D : IsFiniteSet(FinishedAfter(x)) /\ Cardinality(FinishedAfter(x)) \in Nat
  <2> SUFFICES ASSUME NEW x \in D PROVE IsFiniteSet(FinishedAfter(x)) /\ Cardinality(FinishedAfter(x)) \in Nat
    OBVIOUS
  <2>1. FinishedAfter(x) \in SUBSET D
    BY <1>2
  <2>2. IsFiniteSet(FinishedAfter(x))
    BY <1>1, <2>1, FS_Subset
  <2> QED BY <2>2, FS_CardinalityType
<1>5. K \subseteq FinishedAfter(o) /\ IsFiniteSet(K) /\ Cardinality(K) \in Nat
  <2>1. K \in SUBSET FinishedAfter(o)
    BY DEF FinishedAfter
  <2>2. IsFiniteSet(K)
    BY <1>4, <2>1, FS_Subset
  <2> QED BY <2>1, <2>2, FS_CardinalityType
<1>6. CASE B = {}
  <2>1. K = FinishedAfter(o)
    BY <1>6 DEF FinishedAfter
  <2> QED BY <1>3, <2>1
<1>7. CASE B # {}
  <2>1. B \subseteq D \ Kept
    BY <1>2
  <2>2. T \subseteq W /\ T # {}
    BY <1>2, <1>4, <1>7, <2>1 DEF FiniteSubsetsOf
  <2>3. IsWellFoundedOn(R, W)
    BY FS_StrictSubsetOrderingWellFounded
  <2>4. \E X \in T : \A Y \in T : ~(<<Y, X>> \in R)
    <3> HIDE DEF T, R, W
    <3> QED BY <2>2, <2>3, WFMin
  <2>5. PICK m \in B : \A x \in B : ~(<<FinishedAfter(x), FinishedAfter(m)>> \in R)
    BY <2>4
  <2>6. m \in D /\ m \notin Kept /\ <<o, m>> \in recent
    BY <2>1 DEF FinishedAfter, MoreRecent
  <2>7. ASSUME NEW y \in FinishedAfter(m) PROVE y \in K
    <3>1. y \in D /\ <<m, y>> \in recent /\ Finished(ops[y])
      BY <2>7 DEF FinishedAfter, MoreRecent
    <3>2. <<o, y>> \in recent
      BY <1>1, <2>6, <3>1 DEF IsOrder
    <3>3. y \in FinishedAfter(o)
      BY <3>1, <3>2 DEF FinishedAfter, MoreRecent
    <3>4. ASSUME y \notin Kept PROVE FALSE
      <4>1. y \in B
        BY <3>3, <3>4
      <4>2. ASSUME NEW z \in FinishedAfter(y) PROVE z \in FinishedAfter(m)
        <5>1. z \in D /\ <<y, z>> \in recent /\ Finished(ops[z])
          BY DEF FinishedAfter, MoreRecent
        <5>2. <<m, z>> \in recent
          BY <1>1, <2>6, <3>1, <5>1 DEF IsOrder
        <5> QED BY <5>1, <5>2 DEF FinishedAfter, MoreRecent
      <4>3. y \notin FinishedAfter(y)
        BY <1>1, <3>1 DEF IsOrder, FinishedAfter, MoreRecent
      <4>4. <<FinishedAfter(y), FinishedAfter(m)>> \in R
        <5>1. FinishedAfter(y) \in SUBSET D /\ FinishedAfter(m) \in SUBSET D
          BY <1>2, <2>6, <3>1
        <5>2. FinishedAfter(y) \subseteq FinishedAfter(m) /\ FinishedAfter(y) # FinishedAfter(m)
          BY <2>7, <4>2, <4>3
        <5> QED BY <5>1, <5>2 DEF StrictSubsetOrdering
      <4> QED BY <2>5, <4>1, <4>4
    <3> QED BY <3>1, <3>3, <3>4 DEF FinishedAfter
  <2>8. FinishedAfter(m) \in SUBSET K
    BY <2>7
  <2>9. Cardinality(FinishedAfter(m)) <= Cardinality(K)
    <3> HIDE DEF K
    <3> QED BY <1>5, <2>8, FS_Subset
  <2>10. Cardinality(FinishedAfter(m)) >= MaxHistory /\ Cardinality(FinishedAfter(m)) \in Nat
    BY <1>3, <1>4, <2>6
  <2> HIDE DEF K
  <2>11. Cardinality(K) >= MaxHistory
    BY <1>5, <2>9, <2>10, HistoryAssumption
  <2> QED BY <1>3, <2>11 DEF K
<1> QED BY <1>6, <1>7

(* cleanup_old_operations drops an operation only when it is finished and      *)
(* max_history finished ones that are more recent stay, at every moment       *)
(* another thread, a snapshot or a restart may have left the history in.      *)
THEOREM PruneCorrect == Spec => PruneKeepsNewest
<1> DEFINE Prunes == \E t \in Thread : thread[t].pc = "cleanup" /\ thread'[t].pc = "save"
           Kind == \A o \in DOMAIN ops \ DOMAIN ops' :
                      /\ Finished(ops[o])
                      /\ Cardinality({p \in MoreRecent(o) \cap DOMAIN ops' : Finished(ops[p])})
                           >= MaxHistory
<1>1. AuditInv /\ [Next]_vars => [Prunes => Kind]_vars
  <2> SUFFICES ASSUME AuditInv, Next, NEW t \in Thread,
                      thread[t].pc = "cleanup", thread'[t].pc = "save"
               PROVE  Kind
    OBVIOUS
  <2> USE DEF AuditInv
  <2>1. ASSUME NEW u \in Thread, NEW r, thread' = [thread EXCEPT ![u] = r],
               thread[u].pc # "cleanup"
        PROVE  FALSE
    <3>1. t # u
      BY <2>1
    <3> QED BY <2>1, <3>1
  <2>2. ASSUME NEW u \in Thread, CleanupOldOperations(u) PROVE Kind
    <3>1. Kept \subseteq DOMAIN ops
      BY DEF Kept
    <3>2. DOMAIN ops' = Kept
      BY <2>2, <3>1 DEF CleanupOldOperations, Restrict
    <3> QED BY <3>2, EnoughKept
  <2>3. ASSUME NEW u \in Thread, NEW pc, NEW o, NEW status, Goto(u, pc, o, status),
               thread[u].pc # "cleanup"
        PROVE  FALSE
    BY <2>1, <2>3 DEF Goto
  <2>4. thread' # thread
    OBVIOUS
  <2>5. ASSUME NEW u \in Thread, NEW o, NEW new, NEW stamped, NEW pc, Update(u, o, new, stamped, pc)
        PROVE  FALSE
    BY <2>3, <2>4, <2>5 DEF Update, Enter
  <2>6. ASSUME NEW u \in Thread, Call(u) PROVE Kind
    <3>1. ASSUME NEW o \in OpId, NEW multi \in BOOLEAN, CreateOperation(u, o, multi) PROVE FALSE
      BY <2>3, <3>1 DEF CreateOperation, Enter
    <3>2. ASSUME NEW o \in OpId, UpdateOperationProgress(u, o) PROVE FALSE
      BY <2>5, <3>2 DEF UpdateOperationProgress
    <3>3. ASSUME NEW o \in OpId, NEW f, NEW n, NEW status, UpdateFileProgress(u, o, f, n, status)
          PROVE  FALSE
      BY <2>5, <3>3 DEF UpdateFileProgress
    <3>4. ASSUME NEW o \in OpId, NEW f, UpdateFileProgressWithError(u, o, f) PROVE FALSE
      BY <2>5, <3>4 DEF UpdateFileProgressWithError
    <3>5. ASSUME NEW o \in OpId,
                 CompleteOperation(u, o) \/ FailOperation(u, o) \/ CancelOperation(u, o)
          PROVE  FALSE
      BY <2>5, <3>5 DEF CompleteOperation, FailOperation, CancelOperation
    <3>6. ASSUME NEW o \in OpId,
                 UpdateUnknown(u, o) \/ UpdateOperationMetadata(u, o) \/ DeleteOperation(u, o)
          PROVE  FALSE
      BY <2>3, <3>6 DEF UpdateUnknown, UpdateOperationMetadata, DeleteOperation, Enter
    <3> QED BY <2>6, <3>1, <3>2, <3>3, <3>4, <3>5, <3>6 DEF Call
  <2>7. ASSUME NEW u \in Thread, ClearAll(u) PROVE FALSE
    BY <2>3, <2>7 DEF ClearAll, Enter
  <2>8. ASSUME NEW u \in Thread, AppendToAuditLog(u) PROVE FALSE
    BY <2>3, <2>8 DEF AppendToAuditLog
  <2>9. ASSUME NEW u \in Thread, SpawnSave(u) \/ SaveState(u) \/ RemoveStateFile(u) PROVE FALSE
    BY <2>1, <2>9 DEF SpawnSave, SaveState, RemoveStateFile
  <2>10. ASSUME NEW s \in spawned, SpawnedWrite(s) PROVE FALSE
    BY <2>4, <2>10 DEF SpawnedWrite
  <2>11. ~Restart
    BY DEF Restart, Idle
  <2> HIDE DEF Kind
  <2> QED BY <2>2, <2>6, <2>7, <2>8, <2>9, <2>10, <2>11 DEF Next, Continue
<1>2. []AuditInv /\ [][Next]_vars => PruneKeepsNewest
  BY <1>1, PTL DEF PruneKeepsNewest
<1> QED BY <1>2, AuditInductive, PTL DEF Spec
=============================================================================
