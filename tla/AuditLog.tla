------------------------------- MODULE AuditLog -------------------------------
(***************************************************************************)
(* vfs/audit_log.rs and vfs/operation_tracking.rs: a task that ends an          *)
(* operation through OperationTrackingHelper settles it in the tracker, reads     *)
(* it back, appends it to the audit entries under their write lock and saves       *)
(* all entries under the read lock.  Tasks overlap, a write may fail, operations    *)
(* may be cancelled or deleted in between, and the application may stop.  Both        *)
(* places that open the log pass max_entries = 0, so nothing is cut off.               *)
(***************************************************************************)
EXTENDS Naturals, Sequences, FiniteSets

CONSTANTS AuditTask,      \* tasks, each ending one operation of its own
          Unfinished,     \* tasks whose operation has files that are not complete
          LegacyEntries,  \* what operations/audit_log.jsonl holds
          MaxAuditTrouble \* failed writes, cancellations, deletions and stops

ASSUME AuditAssumption == Unfinished \subseteq AuditTask /\ MaxAuditTrouble \in Nat
\* Operation ids are made anew, so the old log names none of the tasks' operations.
ASSUME LegacyAssumption == /\ LegacyEntries \in Seq({LegacyEntries[i] : i \in DOMAIN LegacyEntries})
                           /\ \A i \in DOMAIN LegacyEntries : LegacyEntries[i][1] \notin AuditTask

VARIABLES auditFile, \* audit_log.json: [torn, entries]
          entries,   \* the entries in memory: <<task, status>>
          tracked,   \* task -> status of its operation in the tracker
          auditor,   \* task -> [pc, got, snap]
          auditTrouble,
          owed,      \* history: tasks whose call was answered Ok and logged
          spoilt     \* history: a save failed or was cut off

auditVars == <<auditFile, entries, tracked, auditor, auditTrouble, owed, spoilt>>

NotYet == [pc |-> "idle", got |-> "none", snap |-> << >>]
TornAudit == [torn |-> TRUE, entries |-> << >>]
Written(s) == [torn |-> FALSE, entries |-> s]
AuditAt(t, pc) == auditor[t].pc = pc
AuditTo(t, pc) == auditor' = [auditor EXCEPT ![t].pc = pc]
AuditMishap == auditTrouble < MaxAuditTrouble /\ auditTrouble' = auditTrouble + 1

track_operation_start(t) ==
    /\ AuditAt(t, "idle") /\ tracked[t] = "none" /\ tracked' = [tracked EXCEPT ![t] = "Pending"] /\ AuditTo(t, "running")
    /\ UNCHANGED <<auditFile, entries, auditTrouble, owed, spoilt>>
\* The helper's first half.  An operation with incomplete files stays as it is; one
\* that is gone is no error.
Completing(t) == IF tracked[t] = "gone" \/ t \in Unfinished THEN tracked[t] ELSE "Completed"
Failing(t)    == IF tracked[t] = "gone" THEN "gone" ELSE "Failed"
complete_operation(t) ==
    /\ AuditAt(t, "running") /\ tracked' = [tracked EXCEPT ![t] = Completing(t)] /\ AuditTo(t, "get")
    /\ UNCHANGED <<auditFile, entries, auditTrouble, owed, spoilt>>
fail_operation(t) ==
    /\ AuditAt(t, "running") /\ tracked' = [tracked EXCEPT ![t] = Failing(t)] /\ AuditTo(t, "get")
    /\ UNCHANGED <<auditFile, entries, auditTrouble, owed, spoilt>>
\* The tracker could not save its state: the operation is settled but not logged.
SettleFails(t) ==
    /\ AuditAt(t, "running") /\ AuditMishap /\ AuditTo(t, "over")
    /\ \E s \in {Completing(t), Failing(t)} : tracked' = [tracked EXCEPT ![t] = s]
    /\ UNCHANGED <<auditFile, entries, owed, spoilt>>
get_operation(t) ==
    /\ AuditAt(t, "get")
    /\ auditor' = [auditor EXCEPT ![t].got = tracked[t], ![t].pc = IF tracked[t] = "gone" THEN "over" ELSE "push"]
    /\ UNCHANGED <<auditFile, entries, tracked, auditTrouble, owed, spoilt>>

\* A saver holds the read lock from its copy to the end of its write.
\* Mutant of Reading: the lock is given back once the entries are copied.
ReadingCopy == {}
Reading == {t \in AuditTask : auditor[t].pc \in {"open", "write"}}
log_operation(t) ==
    /\ AuditAt(t, "push") /\ Reading = {}
    /\ entries' = Append(entries, <<t, auditor[t].got>>) /\ AuditTo(t, "save")
    /\ UNCHANGED <<auditFile, tracked, auditTrouble, owed, spoilt>>

CopyEntries(t) ==
    /\ AuditAt(t, "save") /\ auditor' = [auditor EXCEPT ![t].snap = entries, ![t].pc = "open"]
    /\ UNCHANGED <<auditFile, entries, tracked, auditTrouble, owed, spoilt>>
\* std::fs::write empties the file, then writes; either may fail.
OpenAudit(t) ==
    /\ AuditAt(t, "open") /\ auditFile' = TornAudit /\ AuditTo(t, "write")
    /\ UNCHANGED <<entries, tracked, auditTrouble, owed, spoilt>>
WriteAudit(t) ==
    /\ AuditAt(t, "write") /\ auditFile' = Written(auditor[t].snap) /\ AuditTo(t, "over") /\ owed' = owed \cup {t}
    /\ UNCHANGED <<entries, tracked, auditTrouble, spoilt>>
SaveFails(t) ==
    /\ auditor[t].pc \in {"open", "write"} /\ AuditMishap /\ AuditTo(t, "over") /\ spoilt' = TRUE
    /\ UNCHANGED <<auditFile, entries, tracked, owed>>

\* Commands on the tracker itself, which do not reach this log.
Cancelled(t) ==
    /\ tracked[t] \in {"Pending", "Completed", "Failed"} /\ AuditMishap /\ tracked' = [tracked EXCEPT ![t] = "Canceled"]
    /\ UNCHANGED <<auditFile, entries, auditor, owed, spoilt>>
Deleted(t) ==
    /\ tracked[t] \notin {"none", "gone"} /\ AuditMishap /\ tracked' = [tracked EXCEPT ![t] = "gone"]
    /\ UNCHANGED <<auditFile, entries, auditor, owed, spoilt>>

\* A file that is not a JSON array is passed over for the legacy one.
load == IF auditFile.torn THEN LegacyEntries ELSE auditFile.entries
StopAudit ==
    /\ AuditMishap /\ entries' = load
    /\ auditor' = [t \in AuditTask |-> IF AuditAt(t, "idle") THEN NotYet ELSE [NotYet EXCEPT !.pc = "over"]]
    /\ spoilt' = (spoilt \/ Reading # {}) /\ UNCHANGED <<auditFile, tracked, owed>>

AuditInit == /\ entries = LegacyEntries /\ auditFile = Written(LegacyEntries)
             /\ tracked = [t \in AuditTask |-> "none"] /\ auditor = [t \in AuditTask |-> NotYet]
             /\ auditTrouble = 0 /\ owed = {} /\ spoilt = FALSE
AuditNext == \/ StopAudit
             \/ \E t \in AuditTask : \/ track_operation_start(t) \/ complete_operation(t) \/ fail_operation(t) \/ SettleFails(t)
                                     \/ get_operation(t) \/ log_operation(t) \/ CopyEntries(t) \/ OpenAudit(t)
                                     \/ WriteAudit(t) \/ SaveFails(t) \/ Cancelled(t) \/ Deleted(t)
AuditSpec == AuditInit /\ [][AuditNext]_auditVars

-----------------------------------------------------------------------------
(* Unless a save failed or was cut off: an operation whose end was answered is  *)
(* in memory exactly once, restarts included, and whenever nobody is saving the  *)
(* file holds it too.  Saves that overlap write the same bytes, because the read  *)
(* lock is held from the copy to the end of the write (AuditLog::save).            *)
AuditKept ==
    ~spoilt =>
       /\ \A t \in owed : Cardinality({i \in DOMAIN entries : entries[i][1] = t}) = 1
       /\ Reading = {} => /\ ~auditFile.torn
                          /\ \A t \in owed : \E i \in DOMAIN auditFile.entries : auditFile.entries[i][1] = t
=============================================================================
