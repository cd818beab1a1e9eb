----------------------------- MODULE MCTracker -----------------------------
(* Two regimes of the tracker: "files" is one thread and one operation over  *)
(* two files with any number of calls and a crash; "threads" is two threads  *)
(* and two operations without files, one of them completed in an earlier     *)
(* session, with a bound on the number of calls.                             *)
EXTENDS OperationTracker, TLC

CONSTANTS f1, f2, o1, t1, MaxCalls
VARIABLES regime, calls

\* With one byte of slack for each file and for the whole operation: f1 is short
\* at 0 and complete at 1, f2 is complete at 0, and only 1 + 1 reaches the total.
TwoFiles == f1 :> 2 @@ f2 :> 1

\* What an earlier session leaves: a completed operation in the state file.
Earlier == [ops |-> (o1 :> Terminal(NewOperation(FALSE), "Completed")), recent |-> {}]
AfterEarlier ==
    /\ ops = Earlier.ops /\ recent = Earlier.recent /\ disk = Earlier
    /\ thread = [t \in Thread |-> Idle] /\ writer = None /\ spawned = {}
    /\ audit = {<<o1, "Pending">>, <<o1, "Completed">>}
    /\ cleared = {} /\ crashes = 0 /\ unaudited = {} /\ saved = "current"

MCInit == /\ calls = 0 /\ regime \in {"files", "threads"}
          /\ IF regime = "files" THEN Init ELSE AfterEarlier

Active == IF regime = "files" THEN {t1} ELSE Thread
Within == /\ UNCHANGED regime
          /\ IF regime = "files"
               THEN DOMAIN ops' \subseteq {o1} /\ \A o \in DOMAIN ops' : ops'[o].multi
             ELSE crashes' = 0 /\ \A o \in DOMAIN ops' : ~ops'[o].multi

\* An entry that is not appended or a file that is not written takes the place of a
\* call of the second regime.
Mishaps == IF regime = "files" THEN 0 ELSE MaxCalls
Failing == unaudited' # unaudited \/ (saved' = "behind" /\ disk' = disk)

MCNext ==
    \/ /\ calls < MaxCalls
       /\ \E t \in Active : Call(t) \/ ClearAll(t)
       /\ calls' = IF regime = "files" THEN calls ELSE calls + 1
       /\ Within
    \/ /\ \/ \E t \in Thread : Continue(t)
          \/ \E s \in spawned : SpawnedWrite(s)
          \/ Restart
       /\ IF Failing THEN calls < Mishaps /\ calls' = calls + 1 ELSE UNCHANGED calls
       /\ Within
MCSpec == /\ MCInit /\ [][MCNext]_<<vars, calls, regime>>
          /\ \A t \in Thread : WF_<<vars, calls, regime>>(Continue(t) /\ UNCHANGED <<calls, regime>>)
=============================================================================
