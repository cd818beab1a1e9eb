---------------------------- MODULE ServiceProofs ----------------------------
(* Proofs about the state the commands of the desktop application share: the    *)
(* source registry, the token account, the metadata store, the audit log and    *)
(* the settings. One part per component; each part is about its component's     *)
(* own specification and uses nothing of the others.                            *)
EXTENDS SourceRegistry, TokenAccount, MetadataStore, AuditLog, AppSettings, FiniteSetTheorems, TLAPS

(****************************************************************************)
(* The source registry                                                      *)
(****************************************************************************)
-----------------------------------------------------------------------------
(* The inductive invariant of the sources.  RegistrySafe speaks of moments        *)
(* between commands; what follows says what each command on its way has done and   *)
(* still owes to memory, to the sources file and to the settings file.             *)
Commands == {"register", "mount", "remove", "eject", "update", "test"}
StepsOf(cmd) ==
    CASE cmd = "register" -> {"create", "load", "save", "list", "write"} [] cmd = "mount" -> {"create"}
      [] cmd = "remove" -> {"drop", "load", "save", "list", "write"} [] cmd = "eject" -> {"drop"}
      [] cmd = "update" -> {"load", "save", "rebuild", "install"} [] cmd = "test" -> {"probe"}
IsRun(r) == r = [cmd |-> r.cmd, id |-> r.id, key |-> r.key, pc |-> r.pc, seen |-> r.seen, alone |-> r.alone]
IsCommand(r) ==
    /\ IsRun(r)
    /\ r.cmd \in Commands /\ r.pc \in StepsOf(r.cmd)
    /\ r.cmd \in {"register", "mount"} => r.id # Home
Active(c) == run[c] # RegIdle
IsSource(s) == s = [type |-> s.type, status |-> s.status, adapter |-> s.adapter, ops |-> s.ops]
RegShape ==
    /\ DOMAIN run = RegClient /\ run = [c \in RegClient |-> run[c]]
    /\ \A c \in RegClient : Active(c) => IsCommand(run[c]) /\ run[c].id \in usedIds
    /\ \A i \in DOMAIN sources : IsSource(sources[i])
    /\ spoiled \in BOOLEAN /\ Home \in usedIds /\ Home \notin DOMAIN file
    /\ Home \in DOMAIN sources => sources[Home].type = "system"

\* What a command read is about identifiers given, and never about the user's folders.
SeenGiven ==
    \A c \in RegClient : /\ At(c, "save") => DOMAIN run[c].seen \subseteq usedIds
                         /\ At(c, "write") => /\ DOMAIN run[c].seen \subseteq usedIds \ {Home}
                                              /\ \A i \in DOMAIN run[c].seen : run[c].seen[i] # "system"
\* An adapter that is made was given the command's key.
Made(r) == r.pc = "install" \/ (r.pc = "create" /\ r.seen # << >>)
KeyPassed == \A c \in RegClient : Active(c) /\ Made(run[c]) => run[c].seen.key = run[c].key
KeysAll == \A i \in S3 : KeysAgree(sources[i])
\* A source that is being made is nobody else's business yet.
Fresh == \A c \in RegClient : At(c, "create") =>
            /\ run[c].id \notin DOMAIN sources
            /\ \A d \in RegClient : Active(d) /\ run[d].id = run[c].id => d = c
\* Only S3 sources are tested.
Probing == \A c \in RegClient : At(c, "probe") /\ run[c].id \in DOMAIN sources => sources[run[c].id].type = "s3"
\* A command that removes has dropped the source from memory and from its list.
Removing(c) == Active(c) /\ run[c].cmd = "remove" /\ run[c].pc # "drop"
Dropped == \A c \in RegClient : Removing(c) =>
              /\ run[c].id \notin DOMAIN sources
              /\ run[c].pc = "write" => run[c].id \notin DOMAIN run[c].seen
\* No command can bring a removed source back.
Gone == /\ goneForGood \subseteq usedIds
        /\ \A c \in RegClient : /\ At(c, "write") => goneForGood \cap DOMAIN run[c].seen = {}
                                /\ At(c, "create") => run[c].id \notin goneForGood

\* What holds while no command overlapped, failed or was cut: one command at a time,
\* and what it still owes.
One == \A c, d \in RegClient : Active(c) /\ Active(d) => c = d
StoredKey(i) == IF i \in DOMAIN settings THEN settings[i] ELSE "env"
Adding(c)   == Active(c) /\ run[c].cmd = "register" /\ run[c].pc # "create"
OwesFile(i) == \E c \in RegClient : Adding(c) /\ run[c].id = i
Rebuilding(r) == r.pc \in {"rebuild", "install"}
OwesKey(i)  == \E c \in RegClient : ((Active(c) /\ Rebuilding(run[c])) \/ (Adding(c) /\ run[c].pc \in {"load", "save"})) /\ run[c].id = i
OwesDrop(i) == \E c \in RegClient : Removing(c) /\ run[c].id = i
Owing ==
    /\ \A i \in S3 : i \in DOMAIN file \/ OwesFile(i)
    /\ \A i \in S3 : sources[i].ops.key = StoredKey(i) \/ OwesKey(i)
    /\ \A i \in S3 : AccessAgrees(sources[i])
    /\ \A i \in DOMAIN file : file[i] = "s3" => i \in S3 \cup ejected \/ OwesDrop(i)
OnItsWay(c) ==
    /\ At(c, "create") => run[c].id \notin DOMAIN settings
    /\ Adding(c) /\ run[c].pc \in {"load", "save"} /\ run[c].id \in S3 => sources[run[c].id].ops.key = run[c].key
    /\ Rebuilding(run[c]) => StoredKey(run[c].id) = run[c].key
    /\ Made(run[c]) => run[c].seen.access = Access(run[c].key)
    /\ At(c, "save") => run[c].seen = settings
    /\ At(c, "write") => run[c].seen = Persisted
Undisturbed == running /\ ~spoiled => Owing /\ \A c \in RegClient : Active(c) => OnItsWay(c)

Always == /\ RegTypeOK /\ RegShape /\ SeenGiven /\ Fresh /\ Probing /\ Dropped /\ Gone
          /\ KeyPassed /\ KeysAll /\ RemovedStaysRemoved
RegInv == Always /\ (~spoiled => One) /\ Undisturbed

-----------------------------------------------------------------------------
(* How a command's record changes. *)

(* The record of a command that goes on. *)
LEMMA NextStep ==
    ASSUME NEW r, IsRun(r), NEW pc
    PROVE  [r EXCEPT !.pc = pc] = [cmd |-> r.cmd, id |-> r.id, key |-> r.key, pc |-> pc, seen |-> r.seen, alone |-> r.alone]
BY DEF IsRun

(* The record of a command that has read something. *)
LEMMA NextSeen ==
    ASSUME NEW r, IsRun(r), NEW pc, NEW m
    PROVE  [r EXCEPT !.pc = pc, !.seen = m]
           = [cmd |-> r.cmd, id |-> r.id, key |-> r.key, pc |-> pc, seen |-> m, alone |-> r.alone]
<1>1. PICK a, b, k, p, s, l : r = [cmd |-> a, id |-> b, key |-> k, pc |-> p, seen |-> s, alone |-> l]
  BY DEF IsRun
<1>2. r \in [cmd : {a}, id : {b}, key : {k}, pc : {p}, seen : {s}, alone : {l}]
  BY <1>1
<1>3. PICK x : x = [r EXCEPT !.pc = pc, !.seen = m]
  OBVIOUS
<1>4. x \in [cmd : {a}, id : {b}, key : {k}, pc : {pc}, seen : {m}, alone : {l}]
  BY <1>2, <1>3
<1>5. x = [cmd |-> a, id |-> b, key |-> k, pc |-> pc, seen |-> m, alone |-> l]
  BY <1>4
<1> QED BY <1>1, <1>3, <1>5

(* A command is at a step exactly when it is active and its record says so.        *)
LEMMA AtActive ==
    ASSUME RegShape, NEW c \in RegClient, NEW pc
    PROVE  At(c, pc) <=> Active(c) /\ run[c].pc = pc
BY DEF RegShape, Active, At, IsCommand, Commands, RegIdle

(* One command moves; the others are where they were.                              *)
LEMMA RunMove ==
    ASSUME RegShape, NEW c \in RegClient, NEW r, Goes(c, r), usedIds \subseteq usedIds',
           r = RegIdle \/ (IsCommand(r) /\ r.id \in usedIds')
    PROVE  /\ run'[c] = r /\ \A d \in RegClient : d # c => run'[d] = run[d]
           /\ DOMAIN run' = RegClient /\ run' = [d \in RegClient |-> run'[d]]
           /\ \A d \in RegClient : Active(d)' => IsCommand(run'[d]) /\ run'[d].id \in usedIds'
           /\ \A d \in RegClient : d # c => (Active(d)' <=> Active(d))
<1>1. /\ run'[c] = r /\ \A d \in RegClient : d # c => run'[d] = run[d]
      /\ DOMAIN run' = RegClient
  BY DEF RegShape, Goes
<1>2. run' = [d \in RegClient |-> run'[d]]
  BY DEF RegShape, Goes
<1>3. ASSUME NEW d \in RegClient, Active(d)' PROVE IsCommand(run'[d]) /\ run'[d].id \in usedIds'
  <2>1. CASE d = c
    BY <1>1, <1>3, <2>1 DEF Active
  <2>2. CASE d # c
    BY <1>1, <1>3, <2>2 DEF RegShape, Active
  <2> QED BY <2>1, <2>2
<1>4. \A d \in RegClient : d # c => (Active(d)' <=> Active(d))
  BY <1>1 DEF Active
<1> QED BY <1>1, <1>2, <1>3, <1>4

-----------------------------------------------------------------------------
(* What every step of a command keeps, overlapped or not. *)
WellFormed(s) ==
    /\ IsSource(s) /\ s.type \in {"s3", "local", "system"} /\ s.status \in {"Connected", "Disconnected", "Error"}
    /\ s.type # "s3" => s.status = "Connected"
    /\ s.type = "s3" => KeysAgree(s)

(* A step that changes one command's record, keeps the types of the sources, adds   *)
(* none but the one being made, and writes to the files only identifiers that were   *)
(* given and not removed for good.                                                   *)
LEMMA CommandStep ==
    ASSUME Always, NEW c \in RegClient, Active(c), running, running' = running, usedIds' = usedIds, NEW r, Goes(c, r),
           r = RegIdle \/
             /\ IsCommand(r) /\ r.id = run[c].id /\ r.cmd = run[c].cmd /\ r.pc \notin {"probe", "drop"}
             /\ r.pc = "create" => run[c].pc = "create" /\ sources' = sources
             /\ Made(r) => r.seen.key = r.key
             /\ r.cmd = "remove" => r.id \notin DOMAIN sources'
             /\ r.pc = "save" => DOMAIN r.seen \subseteq usedIds
             /\ r.pc = "write" => /\ DOMAIN r.seen \subseteq DOMAIN sources' \ {Home}
                                  /\ \A i \in DOMAIN r.seen : r.seen[i] # "system",
           \A i \in DOMAIN sources' :
              /\ WellFormed(sources'[i])
              /\ i \in DOMAIN sources => sources'[i].type = sources[i].type
              /\ i \notin DOMAIN sources => At(c, "create") /\ i = run[c].id,
           DOMAIN file' \subseteq usedIds \ {Home}, \A i \in DOMAIN file' : file'[i] # "system",
           DOMAIN settings' \subseteq usedIds, torn' \subseteq {"sources", "settings"}, spoiled' \in BOOLEAN,
           goneForGood' = goneForGood \/
              (goneForGood' = goneForGood \cup {run[c].id} /\ Removing(c) /\ Alone(c) /\ r = RegIdle),
           goneForGood' \cap DOMAIN file' = {}
    PROVE  Always'
<1> USE DEF Always
<1>1. /\ run'[c] = r /\ \A d \in RegClient : d # c => run'[d] = run[d]
      /\ DOMAIN run' = RegClient /\ run' = [d \in RegClient |-> run'[d]]
      /\ \A d \in RegClient : Active(d)' => IsCommand(run'[d]) /\ run'[d].id \in usedIds'
      /\ \A d \in RegClient : d # c => (Active(d)' <=> Active(d))
  BY RunMove DEF RegShape
<1>2. \A i \in DOMAIN sources' : i \in usedIds /\ (i = Home => sources'[i].type = "system")
  <2> SUFFICES ASSUME NEW i \in DOMAIN sources' PROVE i \in usedIds /\ (i = Home => sources'[i].type = "system")
    OBVIOUS
  <2>1. CASE i \in DOMAIN sources
    BY <2>1 DEF RegTypeOK, RegShape
  <2>2. CASE i \notin DOMAIN sources
    <3>1. run[c].pc = "create" /\ i = run[c].id /\ IsCommand(run[c]) /\ i \in usedIds
      BY <2>2, AtActive DEF RegShape
    <3>2. run[c].cmd \in {"register", "mount"}
      BY <3>1 DEF IsCommand, StepsOf, Commands
    <3> QED BY <3>1, <3>2 DEF IsCommand
  <2> QED BY <2>1, <2>2
<1>3. RegTypeOK'
  BY <1>2 DEF RegTypeOK, WellFormed
<1>4. RegShape'
  BY <1>1, <1>2 DEF RegShape, WellFormed
<1>5. \A d \in RegClient, pc \in {"create", "save", "write", "probe"} : At(d, pc)' => Active(d)' /\ run'[d].pc = pc
  BY <1>4, AtActive DEF At, Active, RegIdle
<1>6. \A d \in RegClient, pc \in {"create", "save", "write", "probe"} : At(d, pc) <=> Active(d) /\ run[d].pc = pc
  BY AtActive
<1>7. SeenGiven'
  <2> SUFFICES ASSUME NEW d \in RegClient
               PROVE  /\ At(d, "save")' => DOMAIN run'[d].seen \subseteq usedIds
                      /\ At(d, "write")' => /\ DOMAIN run'[d].seen \subseteq usedIds \ {Home}
                                            /\ \A i \in DOMAIN run'[d].seen : run'[d].seen[i] # "system"
    BY DEF SeenGiven
  <2>1. CASE d = c
    BY <1>1, <1>2, <1>5, <2>1 DEF Active
  <2>2. CASE d # c
    BY <1>1, <1>5, <1>6, <2>2 DEF SeenGiven
  <2> QED BY <2>1, <2>2
<1>8. Fresh'
  <2> SUFFICES ASSUME NEW d \in RegClient, At(d, "create")'
               PROVE  /\ run'[d].id \notin DOMAIN sources'
                      /\ \A e \in RegClient : Active(e)' /\ run'[e].id = run'[d].id => e = d
    BY DEF Fresh
  <2>1. /\ At(d, "create") /\ Active(d) /\ run'[d].id = run[d].id
        /\ d = c => r # RegIdle /\ r.id = run[c].id /\ sources' = sources
    BY <1>1, <1>5, <1>6 DEF Active
  <2>2. run[d].id \notin DOMAIN sources /\ \A e \in RegClient : Active(e) /\ run[e].id = run[d].id => e = d
    BY <2>1 DEF Fresh
  <2>3. d # c => run[c].id # run[d].id
    BY <2>1, <2>2
  <2>4. run'[d].id \notin DOMAIN sources'
    BY <2>1, <2>2, <2>3
  <2>5. ASSUME NEW e \in RegClient, Active(e)', run'[e].id = run'[d].id PROVE e = d
    <3>1. CASE e = c
      BY <1>1, <2>1, <2>3, <2>5, <3>1 DEF Active
    <3>2. CASE e # c
      BY <1>1, <2>1, <2>2, <2>5, <3>2
    <3> QED BY <3>1, <3>2
  <2> QED BY <2>4, <2>5
<1>9. Probing'
  <2> SUFFICES ASSUME NEW d \in RegClient, At(d, "probe")', run'[d].id \in DOMAIN sources'
               PROVE  sources'[run'[d].id].type = "s3"
    BY DEF Probing
  <2>1. d # c /\ run'[d] = run[d] /\ At(d, "probe") /\ Active(d)
    BY <1>1, <1>5, <1>6 DEF Active
  <2>2. run[d].id \in DOMAIN sources
    BY <2>1 DEF Fresh
  <2> QED BY <2>1, <2>2 DEF Probing
<1>10. Dropped'
  <2> SUFFICES ASSUME NEW d \in RegClient, Removing(d)'
               PROVE  /\ run'[d].id \notin DOMAIN sources'
                      /\ run'[d].pc = "write" => run'[d].id \notin DOMAIN run'[d].seen
    BY DEF Dropped
  <2>1. CASE d = c
    <3>1. r # RegIdle /\ r.cmd = "remove"
      BY <1>1, <2>1 DEF Removing, Active
    <3> QED BY <1>1, <2>1, <3>1
  <2>2. CASE d # c
    <3>1. run'[d] = run[d] /\ Removing(d) /\ Active(d)
      BY <1>1, <2>2 DEF Removing
    <3>2. run[d].id \notin DOMAIN sources /\ (run[d].pc = "write" => run[d].id \notin DOMAIN run[d].seen)
      BY <3>1 DEF Dropped
    <3>3. run[d].id \notin DOMAIN sources'
      BY <2>2, <3>1, <3>2 DEF Fresh
    <3> QED BY <3>1, <3>2, <3>3
  <2> QED BY <2>1, <2>2
<1>11. RemovedStaysRemoved'
  <2> SUFFICES ASSUME NEW i \in goneForGood', i \in DOMAIN sources' PROVE i = Home
    BY DEF RemovedStaysRemoved
  <2>1. CASE i \in goneForGood
    BY <2>1 DEF RemovedStaysRemoved, Gone
  <2>2. CASE i \notin goneForGood
    <3>1. i = run[c].id /\ Removing(c)
      BY <2>2
    <3>2. run[c].pc # "create" /\ i \notin DOMAIN sources
      BY <3>1 DEF Dropped, Removing, RegShape, IsCommand, StepsOf
    <3> QED BY <1>6, <3>2
  <2> QED BY <2>1, <2>2
<1>12. Gone'
  <2>1. goneForGood' \subseteq usedIds'
    BY DEF Gone, RegShape
  <2>2. ASSUME NEW d \in RegClient
        PROVE  /\ At(d, "write")' => goneForGood' \cap DOMAIN run'[d].seen = {}
               /\ At(d, "create")' => run'[d].id \notin goneForGood'
    <3>1. CASE d = c
      <4>1. At(c, "create")' => r # RegIdle /\ r.id = run[c].id /\ run[c].id \notin goneForGood
        BY <1>1, <1>5, <1>6 DEF Active, Gone
      <4>2. At(c, "write")' => DOMAIN r.seen \subseteq DOMAIN sources' \ {Home}
        BY <1>1, <1>5 DEF Active
      <4> QED BY <1>1, <1>11, <3>1, <4>1, <4>2 DEF RemovedStaysRemoved
    <3>2. CASE d # c
      <4>1. run'[d] = run[d] /\ (Active(d)' <=> Active(d))
        BY <1>1, <3>2
      <4>2. CASE goneForGood' = goneForGood
        BY <1>5, <1>6, <4>1, <4>2 DEF Gone
      <4>3. CASE Alone(c)
        BY <1>5, <3>2, <4>1, <4>3 DEF Alone, Active
      <4> QED BY <4>2, <4>3
    <3> QED BY <3>1, <3>2
  <2> QED BY <2>1, <2>2 DEF Gone
<1>13. KeysAll'
  BY DEF KeysAll, S3, WellFormed
<1>14. KeyPassed'
  <2> SUFFICES ASSUME NEW d \in RegClient, Active(d)', Made(run'[d]) PROVE run'[d].seen.key = run'[d].key
    BY DEF KeyPassed, Made
  <2>1. CASE d = c
    BY <1>1, <2>1 DEF Active
  <2>2. CASE d # c
    BY <1>1, <2>2 DEF KeyPassed
  <2> QED BY <2>1, <2>2
<1> QED BY <1>3, <1>4, <1>7, <1>8, <1>9, <1>10, <1>11, <1>12, <1>13, <1>14

(* The sources there are.                                                           *)
LEMMA SourcesWell ==
    ASSUME Always, NEW i \in DOMAIN sources
    PROVE  WellFormed(sources[i])
BY DEF Always, RegTypeOK, RegShape, KeysAll, WellFormed, S3

-----------------------------------------------------------------------------
(* What a command owes that runs alone. *)
OweFile(r) == r # RegIdle /\ r.cmd = "register" /\ r.pc # "create"
OweKey(r)  == r # RegIdle /\ (Rebuilding(r) \/ (r.cmd = "register" /\ r.pc \in {"load", "save"}))
OweDrop(r) == r # RegIdle /\ r.cmd = "remove" /\ r.pc # "drop"
Owes(r) == /\ \A i \in S3 : i \in DOMAIN file \/ (OweFile(r) /\ r.id = i)
           /\ \A i \in S3 : sources[i].ops.key = StoredKey(i) \/ (OweKey(r) /\ r.id = i)
           /\ \A i \in S3 : AccessAgrees(sources[i])
           /\ \A i \in DOMAIN file : file[i] = "s3" => i \in S3 \cup ejected \/ (OweDrop(r) /\ r.id = i)

(* Before a step of the only command, what is owed is what it owes.                  *)
LEMMA OwedBefore ==
    ASSUME Always, One, NEW c \in RegClient, Active(c), NEW i
    PROVE  /\ OwesFile(i) <=> OweFile(run[c]) /\ run[c].id = i
           /\ OwesKey(i) <=> OweKey(run[c]) /\ run[c].id = i
           /\ OwesDrop(i) <=> OweDrop(run[c]) /\ run[c].id = i
<1>1. \A d \in RegClient : Active(d) => d = c
  BY DEF One
<1> QED BY <1>1 DEF OwesFile, OwesKey, OwesDrop, OweFile, OweKey, OweDrop, Adding, Removing, Active, Rebuilding

(* After it too.                                                                     *)
LEMMA OwedAfter ==
    ASSUME Always, One, NEW c \in RegClient, Active(c), NEW r, run'[c] = r,
           \A d \in RegClient : d # c => run'[d] = run[d], Always', NEW i
    PROVE  /\ OwesFile(i)' <=> OweFile(r) /\ r.id = i
           /\ OwesKey(i)' <=> OweKey(r) /\ r.id = i
           /\ OwesDrop(i)' <=> OweDrop(r) /\ r.id = i
<1>1. \A d \in RegClient : Active(d)' => d = c
  BY DEF One, Active
<1> QED BY <1>1 DEF OwesFile, OwesKey, OwesDrop, OweFile, OweKey, OweDrop, Adding, Removing, Active, Rebuilding

(* So, while nothing was disturbed, a step of the only command needs to keep what     *)
(* that command owes.                                                                *)
LEMMA AloneStep ==
    ASSUME RegInv, NEW c \in RegClient, Active(c), NEW r, Goes(c, r), Always', ~spoiled' => ~spoiled,
           r = RegIdle \/ (IsCommand(r) /\ r.id \in usedIds'), usedIds' = usedIds, running,
           ASSUME ~spoiled, Owes(run[c]), OnItsWay(c), ~spoiled' PROVE Owes(r)' /\ (r # RegIdle => OnItsWay(c)')
    PROVE  RegInv'
<1>1. /\ run'[c] = r /\ \A d \in RegClient : d # c => run'[d] = run[d]
      /\ \A d \in RegClient : d # c => (Active(d)' <=> Active(d))
  BY RunMove DEF RegInv, Always
<1>2. ~spoiled' => One'
  BY <1>1 DEF RegInv, One
<1>3. ASSUME ~spoiled', running' PROVE Owing' /\ \A d \in RegClient : Active(d)' => OnItsWay(d)'
  <2>1. ~spoiled /\ One /\ Owing /\ OnItsWay(c)
    BY <1>3 DEF RegInv, Undisturbed
  <2>2. Owes(run[c])
    BY <2>1, OwedBefore DEF RegInv, Owing, Owes
  <2>3. Owes(r)' /\ (r # RegIdle => OnItsWay(c)')
    BY <1>3, <2>1, <2>2
  <2>4. \A i : /\ OwesFile(i)' <=> OweFile(r) /\ r.id = i
               /\ OwesKey(i)' <=> OweKey(r) /\ r.id = i
               /\ OwesDrop(i)' <=> OweDrop(r) /\ r.id = i
    BY <1>1, <2>1, OwedAfter DEF RegInv
  <2>5. Owing'
    BY <2>3, <2>4 DEF Owing, Owes
  <2>6. \A d \in RegClient : Active(d)' => d = c
    BY <1>1, <2>1 DEF One
  <2>7. Active(c)' => OnItsWay(c)'
    BY <1>1, <2>3 DEF Active
  <2> QED BY <2>5, <2>6, <2>7
<1> QED BY <1>2, <1>3 DEF RegInv, Undisturbed

(* A command at a step.                                                              *)
LEMMA CommandAt ==
    ASSUME Always, NEW c \in RegClient, NEW pc, At(c, pc)
    PROVE  Active(c) /\ run[c].pc = pc /\ IsCommand(run[c]) /\ run[c].id \in usedIds /\ running
BY AtActive DEF Always, RegShape, RegTypeOK, Active

(* A command that goes on.                                                           *)
LEMMA StepIs ==
    ASSUME Always, NEW c \in RegClient, Active(c), NEW pc \in StepsOf(run[c].cmd), Step(c, pc)
    PROVE  \E r : /\ Goes(c, r) /\ IsCommand(r) /\ r # RegIdle /\ r.pc = pc
                  /\ r.id = run[c].id /\ r.cmd = run[c].cmd /\ r.key = run[c].key
<1>1. IsCommand(run[c])
  BY DEF Always, RegShape
<1>2. PICK r : r = [run[c] EXCEPT !.pc = pc]
  OBVIOUS
<1>3. r = [cmd |-> run[c].cmd, id |-> run[c].id, key |-> run[c].key, pc |-> pc, seen |-> run[c].seen, alone |-> run[c].alone]
  BY <1>1, <1>2, NextStep DEF IsCommand
<1>4. IsCommand(r)
  BY <1>1, <1>3 DEF IsCommand, IsRun
<1>5. r # RegIdle
  BY <1>4 DEF IsCommand, Commands, RegIdle
<1>6. Goes(c, r)
  BY <1>2 DEF Step
<1> QED BY <1>3, <1>4, <1>5, <1>6

(* A command that has read something.                                                *)
LEMMA SeenIs ==
    ASSUME Always, NEW c \in RegClient, Active(c), NEW pc \in StepsOf(run[c].cmd), NEW m, NEW r,
           r = [cmd |-> run[c].cmd, id |-> run[c].id, key |-> run[c].key, pc |-> pc, seen |-> m, alone |-> run[c].alone]
    PROVE  /\ IsCommand(r) /\ r # RegIdle /\ r.pc = pc /\ r.seen = m
           /\ r.id = run[c].id /\ r.cmd = run[c].cmd /\ r.key = run[c].key
<1>1. IsCommand(run[c])
  BY DEF Always, RegShape
<1>2. IsCommand(r)
  BY <1>1 DEF IsCommand, IsRun
<1>3. r # RegIdle
  BY <1>2 DEF IsCommand, Commands, RegIdle
<1> QED BY <1>2, <1>3

(* What a command on its way must keep, in terms of its record.                       *)
LEMMA WayIs ==
    ASSUME NEW c \in RegClient, NEW r, run'[c] = r, IsCommand(r),
           r.pc = "create" => r.id \notin DOMAIN settings',
           Made(r) => r.seen.access = Access(r.key)',
           r.cmd = "register" /\ r.pc \in {"load", "save"} /\ r.id \in S3' => sources'[r.id].ops.key = r.key,
           Rebuilding(r) => StoredKey(r.id)' = r.key,
           r.pc = "save" => r.seen = settings',
           r.pc = "write" => r.seen = Persisted'
    PROVE  OnItsWay(c)'
BY DEF OnItsWay, At, Adding, Made, Rebuilding

(* What stays as it was keeps the file and memory well formed.                        *)
LEMMA FilesStay ==
    ASSUME Always
    PROVE  /\ DOMAIN file \subseteq usedIds \ {Home} /\ \A i \in DOMAIN file : file[i] # "system"
           /\ DOMAIN settings \subseteq usedIds /\ torn \subseteq {"sources", "settings"}
           /\ goneForGood \cap DOMAIN file = {} /\ spoiled \in BOOLEAN
BY DEF Always, RegTypeOK, RegShape, RemovedStaysRemoved

-----------------------------------------------------------------------------
(* The commands' steps. *)

(* A folder is mounted.                                                              *)
LEMMA MountStep ==
    ASSUME RegInv, NEW c \in RegClient, add_local_source(c)
    PROVE  RegInv'
<1> USE DEF RegInv
<1>1. /\ At(c, "create") /\ run[c].cmd = "mount" /\ Goes(c, RegIdle) /\ spoiled' = spoiled
      /\ UNCHANGED <<file, settings, torn, usedIds, environment, running, regCalls, crashes, goneForGood, ejected>>
      /\ sources' = Placed(sources, run[c].id, Local("local")) \/ sources' = sources
  BY DEF add_local_source, Answer, Still
<1>2. Active(c) /\ run[c].pc = "create" /\ IsCommand(run[c]) /\ run[c].id \in usedIds /\ running
  BY <1>1, CommandAt
<1>3. run[c].id \notin DOMAIN sources
  BY <1>1 DEF Always, Fresh
<1>4. WellFormed(Local("local")) /\ Local("local").type = "local"
  BY DEF WellFormed, Local, IsSource
<1>5. \A i \in DOMAIN sources' : i \in DOMAIN sources \/ (i = run[c].id /\ sources'[i] = Local("local"))
  BY <1>1 DEF Placed
<1>6. \A i \in DOMAIN sources : i \in DOMAIN sources' /\ sources'[i] = sources[i]
  BY <1>1, <1>3 DEF Placed
<1>7. Always'
  <2>1. \A i \in DOMAIN sources' :
              /\ WellFormed(sources'[i])
              /\ i \in DOMAIN sources => sources'[i].type = sources[i].type
              /\ i \notin DOMAIN sources => At(c, "create") /\ i = run[c].id
    BY <1>1, <1>4, <1>5, <1>6, SourcesWell
  <2> QED BY <1>1, <1>2, <2>1, FilesStay, CommandStep
<1>8. S3' = S3 /\ \A i \in S3 : sources'[i] = sources[i]
  BY <1>4, <1>5, <1>6 DEF S3
<1>9. ~OweFile(run[c]) /\ ~OweKey(run[c]) /\ ~OweDrop(run[c])
  BY <1>1, <1>2 DEF OweFile, OweKey, OweDrop, Rebuilding
<1>10. Owes(run[c]) => Owes(RegIdle)'
  BY <1>1, <1>8, <1>9 DEF Owes, StoredKey
<1> QED BY <1>1, <1>2, <1>7, <1>10, AloneStep

(* A command that gives up without having changed anything disturbs the others, and   *)
(* nothing is claimed any more; a command that goes on to list does not.               *)
LEMMA GivesUp ==
    ASSUME RegInv, NEW c \in RegClient, Active(c), run[c].pc \in {"load", "save", "rebuild", "install", "write"}, spoiled' = TRUE,
           Answer(c) \/ (run[c].cmd # "update" /\ Step(c, "list")), running,
           UNCHANGED <<sources, file, settings, torn, usedIds, running, goneForGood>>
    PROVE  RegInv'
<1> USE DEF RegInv
<1>1. IsCommand(run[c]) /\ run[c].id \in usedIds
  BY DEF Always, RegShape
<1>2. \A i \in DOMAIN sources' :
              /\ WellFormed(sources'[i])
              /\ i \in DOMAIN sources => sources'[i].type = sources[i].type
              /\ i \notin DOMAIN sources => At(c, "create") /\ i = run[c].id
  BY SourcesWell
<1>3. CASE Answer(c)
  <2>1. Always'
    BY <1>2, <1>3, FilesStay, CommandStep DEF Answer
  <2> QED BY <2>1 DEF Undisturbed
<1>4. CASE run[c].cmd # "update" /\ Step(c, "list")
  <2>1. run[c].cmd \in {"register", "remove"} /\ "list" \in StepsOf(run[c].cmd)
    BY <1>1, <1>4 DEF IsCommand, StepsOf, Commands
  <2>2. PICK r : /\ Goes(c, r) /\ IsCommand(r) /\ r # RegIdle /\ r.pc = "list"
                 /\ r.id = run[c].id /\ r.cmd = run[c].cmd /\ r.key = run[c].key
    BY <1>4, <2>1, StepIs
  <2>3. r.cmd = "remove" => r.id \notin DOMAIN sources'
    BY <2>2 DEF Always, Dropped, Removing
  <2>4. Always'
    BY <1>2, <2>2, <2>3, FilesStay, CommandStep DEF Made
  <2> QED BY <2>4 DEF Undisturbed
<1> QED BY <1>3, <1>4

(* The listing adapter is made, of a source that is added or updated.                 *)
LEMMA CreateStep ==
    ASSUME RegInv, NEW c \in RegClient, create_adapter(c)
    PROVE  RegInv'
<1> USE DEF RegInv
<1>1. UNCHANGED <<sources, file, settings, torn, usedIds, environment, running, regCalls, crashes, goneForGood, ejected>>
  BY DEF create_adapter
<1>2. /\ Active(c) /\ IsCommand(run[c]) /\ run[c].id \in usedIds /\ running
      /\ (At(c, "create") /\ run[c].pc = "create" /\ run[c].cmd = "register") \/ (At(c, "rebuild") /\ run[c].pc = "rebuild")
  BY CommandAt DEF create_adapter
<1>3. \A i \in DOMAIN sources' :
              /\ WellFormed(sources'[i])
              /\ i \in DOMAIN sources => sources'[i].type = sources[i].type
              /\ i \notin DOMAIN sources => At(c, "create") /\ i = run[c].id
  BY <1>1, SourcesWell
<1>4. CASE Answer(c) /\ (IF At(c, "rebuild") THEN Fails ELSE Still)
  <2>1. CASE run[c].pc = "rebuild"
    BY <1>1, <1>2, <1>4, <2>1, GivesUp DEF Fails
  <2>2. CASE run[c].pc = "create" /\ run[c].cmd = "register"
    <3>1. Still
      BY <1>4, <2>2 DEF At
    <3>2. Always'
      BY <1>1, <1>2, <1>3, <1>4, <3>1, FilesStay, CommandStep DEF Answer, Still
    <3>3. ~OweFile(run[c]) /\ ~OweKey(run[c]) /\ ~OweDrop(run[c])
      BY <2>2 DEF OweFile, OweKey, OweDrop, Rebuilding
    <3>4. Owes(run[c]) => Owes(RegIdle)'
      BY <1>1, <3>3 DEF Owes, StoredKey, S3
    <3> QED BY <1>1, <1>2, <1>4, <3>1, <3>2, <3>4, AloneStep DEF Answer, Still
  <2> QED BY <1>2, <2>1, <2>2
<1>5. CASE /\ Goes(c, [run[c] EXCEPT !.pc = IF @ = "rebuild" THEN "install" ELSE @, !.seen = Listing(run[c].key)])
           /\ Still
  <2>1. PICK pc \in {"create", "install"} : /\ pc = IF run[c].pc = "rebuild" THEN "install" ELSE run[c].pc
                                            /\ pc = "create" <=> run[c].pc = "create"
    BY <1>2
  <2>2. pc \in StepsOf(run[c].cmd)
    BY <1>2, <2>1 DEF IsCommand, StepsOf, Commands
  <2>3. PICK m : m = Listing(run[c].key)
    OBVIOUS
  <2>4. m.key = run[c].key /\ m.access = Access(run[c].key)
    BY <2>3 DEF Listing, S3StorageAdapter, Credential
  <2>5. PICK r : r = [run[c] EXCEPT !.pc = pc, !.seen = m]
    OBVIOUS
  <2>6. r = [cmd |-> run[c].cmd, id |-> run[c].id, key |-> run[c].key, pc |-> pc, seen |-> m, alone |-> run[c].alone]
    BY <1>2, <2>5, NextSeen DEF IsCommand
  <2>7. /\ IsCommand(r) /\ r # RegIdle /\ r.pc = pc /\ r.seen = m
        /\ r.id = run[c].id /\ r.cmd = run[c].cmd /\ r.key = run[c].key
    BY <1>2, <2>2, <2>6, SeenIs
  <2>8. Goes(c, r)
    BY <1>5, <2>1, <2>3, <2>5
  <2>9. r.cmd # "remove"
    BY <1>2, <2>7 DEF IsCommand, StepsOf, Commands
  <2>10. Always'
    BY <1>1, <1>2, <1>3, <1>5, <2>1, <2>4, <2>7, <2>8, <2>9, FilesStay, CommandStep DEF Still
  <2>11. run'[c] = r
    BY <1>1, <1>2, <2>7, <2>8, RunMove DEF Always
  <2>12. /\ OweFile(r) <=> OweFile(run[c])
         /\ OweKey(r) <=> OweKey(run[c])
         /\ OweDrop(r) <=> OweDrop(run[c])
    BY <1>2, <2>1, <2>7 DEF OweFile, OweKey, OweDrop, Active, Rebuilding
  <2>13. ASSUME Owes(run[c]), OnItsWay(c) PROVE Owes(r)' /\ OnItsWay(c)'
    <3>1. pc = "create" => r.id \notin DOMAIN settings'
      BY <1>1, <1>2, <2>1, <2>7, <2>13 DEF OnItsWay
    <3>2. pc = "install" => StoredKey(r.id)' = r.key
      BY <1>1, <1>2, <2>1, <2>7, <2>13 DEF OnItsWay, StoredKey, Rebuilding
    <3>3. r.seen.access = Access(r.key)'
      BY <1>1, <2>4, <2>7 DEF Access
    <3>4. OnItsWay(c)'
      BY <2>7, <2>11, <3>1, <3>2, <3>3, WayIs DEF Rebuilding
    <3> QED BY <1>1, <2>7, <2>12, <2>13, <3>4 DEF Owes, StoredKey, S3
  <2> QED BY <1>1, <1>2, <1>5, <2>7, <2>8, <2>10, <2>13, AloneStep DEF Still
<1> QED BY <1>4, <1>5 DEF create_adapter

(* What an adapter for the file operations was given, and what it signs with.          *)
LEMMA OperationsIs ==
    ASSUME NEW k
    PROVE  Operations(k).key = k /\ Operations(k).access = Access(k)
BY DEF Operations, S3StorageAdapter, Credential

(* A source is made, with both adapters on the same key.                             *)
LEMMA RegisterStep ==
    ASSUME RegInv, NEW c \in RegClient, add_s3_source(c)
    PROVE  RegInv'
<1> USE DEF RegInv
<1>1. /\ At(c, "create") /\ run[c].cmd = "register" /\ run[c].seen # << >> /\ spoiled' = spoiled
      /\ UNCHANGED <<file, settings, torn, usedIds, environment, running, regCalls, crashes, goneForGood, ejected>>
  BY DEF add_s3_source, Still
<1>2. Active(c) /\ run[c].pc = "create" /\ IsCommand(run[c]) /\ run[c].id \in usedIds /\ running
  BY <1>1, CommandAt
<1>3. run[c].id \notin DOMAIN sources
  BY <1>1 DEF Always, Fresh
<1>4. ~OweFile(run[c]) /\ ~OweKey(run[c]) /\ ~OweDrop(run[c])
  BY <1>1, <1>2 DEF OweFile, OweKey, OweDrop, Rebuilding
<1>5. CASE sources' = sources /\ Answer(c)
  <2>1. Always'
    BY <1>1, <1>2, <1>5, FilesStay, SourcesWell, CommandStep DEF Answer
  <2>2. Owes(run[c]) => Owes(RegIdle)'
    BY <1>1, <1>4, <1>5 DEF Owes, StoredKey, S3
  <2> QED BY <1>1, <1>2, <1>5, <2>1, <2>2, AloneStep DEF Answer
<1>6. ASSUME NEW st \in {"Connected", "Error"},
             sources' = Placed(sources, run[c].id, [type |-> "s3", status |-> st, adapter |-> run[c].seen,
                                                    ops |-> Operations(run[c].key)]),
             Step(c, IF run[c].key = "env" THEN "list" ELSE "load")
      PROVE  RegInv'
  <2>1. PICK made : made = [type |-> "s3", status |-> st, adapter |-> run[c].seen,
                            ops |-> Operations(run[c].key)]
    OBVIOUS
  <2>3. /\ made.type = "s3" /\ made.ops.key = run[c].key /\ made.ops.access = Access(run[c].key)
        /\ made.adapter = run[c].seen /\ run[c].seen.key = run[c].key
    BY <1>1, <1>2, <2>1, OperationsIs DEF Always, KeyPassed, Made
  <2>2. WellFormed(made) /\ made.type = "s3"
    BY <2>1, <2>3 DEF WellFormed, IsSource, KeysAgree
  <2>4. sources' = Placed(sources, run[c].id, made)
    BY <1>6, <2>1
  <2>5. \A i \in DOMAIN sources' : i \in DOMAIN sources \/ i = run[c].id
    BY <2>4 DEF Placed
  <2>6. \A i \in DOMAIN sources : i \in DOMAIN sources' /\ sources'[i] = sources[i]
    BY <1>3, <2>4 DEF Placed
  <2>7. run[c].id \in DOMAIN sources' /\ sources'[run[c].id] = made
    BY <2>4 DEF Placed
  <2>8. PICK pc \in {"list", "load"} : pc = IF run[c].key = "env" THEN "list" ELSE "load"
    OBVIOUS
  <2>9. pc \in StepsOf(run[c].cmd) /\ Step(c, pc)
    BY <1>1, <1>6, <2>8 DEF StepsOf
  <2>10. PICK r : /\ Goes(c, r) /\ IsCommand(r) /\ r # RegIdle /\ r.pc = pc
                  /\ r.id = run[c].id /\ r.cmd = run[c].cmd /\ r.key = run[c].key
    BY <1>2, <2>9, StepIs
  <2>11. Always'
    <3>1. \A i \in DOMAIN sources' :
              /\ WellFormed(sources'[i])
              /\ i \in DOMAIN sources => sources'[i].type = sources[i].type
              /\ i \notin DOMAIN sources => At(c, "create") /\ i = run[c].id
      BY <1>1, <2>2, <2>5, <2>6, <2>7, SourcesWell
    <3>2. r.pc # "create" /\ ~Made(r)
      BY <2>8, <2>10 DEF Made
    <3> QED BY <1>1, <1>2, <2>8, <2>10, <3>1, <3>2, FilesStay, CommandStep
  <2>12. run'[c] = r
    BY <1>1, <1>2, <2>10, RunMove DEF Always
  <2>13. OnItsWay(c)'
    BY <2>2, <2>3, <2>7, <2>8, <2>10, <2>12, WayIs DEF Made, Rebuilding
  <2>14. S3' = S3 \cup {run[c].id} /\ \A i \in S3 : sources'[i] = sources[i]
    BY <2>2, <2>5, <2>6, <2>7 DEF S3
  <2>15. OweFile(r) /\ (pc = "load" => OweKey(r))
    BY <1>1, <2>10 DEF OweFile, OweKey
  <2>16. ASSUME Owes(run[c]), OnItsWay(c) PROVE Owes(r)'
    <3>1. /\ \A i \in S3 : i \in DOMAIN file /\ sources[i].ops.key = StoredKey(i)
          /\ \A i \in DOMAIN file : file[i] = "s3" => i \in S3 \cup ejected
      BY <1>4, <2>16 DEF Owes
    <3>2. \A i : i = run[c].id => StoredKey(i)' = "env"
      BY <1>1, <2>16 DEF OnItsWay, StoredKey
    <3>3. run[c].key = "env" \/ pc = "load"
      BY <2>8
    <3>4. \A i \in S3 : StoredKey(i)' = StoredKey(i)
      BY <1>1 DEF StoredKey
    <3>5. \A i \in S3' : AccessAgrees(sources'[i])
      <4>1. AccessAgrees(made)
        BY <1>1, <1>2, <2>3, <2>16 DEF OnItsWay, Made, AccessAgrees
      <4> QED BY <2>7, <2>14, <2>16, <4>1 DEF Owes
    <3> QED BY <1>1, <2>3, <2>7, <2>10, <2>14, <2>15, <3>1, <3>2, <3>3, <3>4, <3>5 DEF Owes, AccessAgrees
  <2> QED BY <1>1, <1>2, <2>10, <2>11, <2>13, <2>16, AloneStep
<1> QED BY <1>5, <1>6 DEF add_s3_source

(* Reading the settings.                                                               *)
LEMMA LoadStep ==
    ASSUME RegInv, NEW c \in RegClient, load_settings(c)
    PROVE  RegInv'
<1> USE DEF RegInv
<1>1. /\ At(c, "load")
      /\ UNCHANGED <<sources, file, settings, torn, usedIds, environment, running, regCalls, crashes, goneForGood, ejected>>
  BY DEF load_settings
<1>2. Active(c) /\ run[c].pc = "load" /\ IsCommand(run[c]) /\ run[c].id \in usedIds /\ running
  BY <1>1, CommandAt
<1>3. CASE CredentialsFail(c) /\ Fails
  BY <1>1, <1>2, <1>3, GivesUp DEF CredentialsFail, Fails
<1>4. CASE Goes(c, [run[c] EXCEPT !.pc = "save", !.seen = settings]) /\ Still
  <2>1. run[c].cmd \in {"register", "remove", "update"} /\ "save" \in StepsOf(run[c].cmd)
    BY <1>2 DEF IsCommand, StepsOf, Commands
  <2>2. PICK r : r = [run[c] EXCEPT !.pc = "save", !.seen = settings]
    OBVIOUS
  <2>3. r = [cmd |-> run[c].cmd, id |-> run[c].id, key |-> run[c].key, pc |-> "save", seen |-> settings, alone |-> run[c].alone]
    BY <1>2, <2>2, NextSeen DEF IsCommand
  <2>4. /\ IsCommand(r) /\ r # RegIdle /\ r.pc = "save" /\ r.seen = settings
        /\ r.id = run[c].id /\ r.cmd = run[c].cmd /\ r.key = run[c].key
    BY <1>2, <2>1, <2>3, SeenIs
  <2>5. Goes(c, r)
    BY <1>4, <2>2
  <2>6. r.cmd = "remove" => r.id \notin DOMAIN sources'
    BY <1>1, <1>2, <2>4, <2>5 DEF Always, Dropped, Removing
  <2>7. Always'
    BY <1>1, <1>2, <1>4, <2>4, <2>5, <2>6, FilesStay, SourcesWell, CommandStep DEF Still, Made
  <2>8. run'[c] = r
    BY <1>1, <1>2, <2>4, <2>5, RunMove DEF Always
  <2>9. /\ OweFile(r) <=> OweFile(run[c])
        /\ OweKey(r) <=> OweKey(run[c])
        /\ OweDrop(r) <=> OweDrop(run[c])
    BY <1>2, <2>4, <2>5 DEF OweFile, OweKey, OweDrop, Active, Rebuilding
  <2>10. ASSUME Owes(run[c]), OnItsWay(c) PROVE Owes(r)' /\ OnItsWay(c)'
    <3>1. r.cmd = "register" /\ r.id \in S3' => sources'[r.id].ops.key = r.key
      BY <1>1, <1>2, <2>4, <2>5, <2>10 DEF OnItsWay, Adding, S3
    <3>2. OnItsWay(c)'
      BY <1>1, <2>4, <2>5, <2>8, <3>1, WayIs DEF Made, Rebuilding
    <3> QED BY <1>1, <2>4, <2>5, <2>9, <2>10, <3>2 DEF Owes, StoredKey, S3
  <2> QED BY <1>1, <1>2, <1>4, <2>4, <2>5, <2>7, <2>10, AloneStep DEF Still
<1> QED BY <1>3, <1>4 DEF load_settings

(* Writing the settings: the entry of the command's source, and no other, changes.      *)
LEMMA SaveStep ==
    ASSUME RegInv, NEW c \in RegClient, save_settings(c)
    PROVE  RegInv'
<1> USE DEF RegInv
<1>1. /\ At(c, "save")
      /\ UNCHANGED <<sources, file, torn, usedIds, environment, running, regCalls, crashes, goneForGood, ejected>>
  BY DEF save_settings
<1>2. Active(c) /\ run[c].pc = "save" /\ IsCommand(run[c]) /\ run[c].id \in usedIds /\ running
  BY <1>1, CommandAt
<1>3. CASE UNCHANGED settings /\ CredentialsFail(c) /\ Fails
  BY <1>1, <1>2, <1>3, GivesUp DEF CredentialsFail, Fails
<1>4. CASE settings' = EditedSettings(c) /\ Step(c, AfterCredentials(c)) /\ Still
  <2>1. PICK pc \in {"rebuild", "list"} : pc = AfterCredentials(c) /\ (pc = "rebuild" <=> run[c].cmd = "update")
    BY DEF AfterCredentials
  <2>2. run[c].cmd \in {"register", "remove", "update"} /\ pc \in StepsOf(run[c].cmd)
    BY <1>2, <2>1 DEF IsCommand, StepsOf, Commands
  <2>3. PICK r : /\ Goes(c, r) /\ IsCommand(r) /\ r # RegIdle /\ r.pc = pc
                 /\ r.id = run[c].id /\ r.cmd = run[c].cmd /\ r.key = run[c].key
    BY <1>2, <1>4, <2>1, <2>2, StepIs
  <2>4. r.cmd = "remove" => r.id \notin DOMAIN sources
    BY <1>2, <2>3 DEF Always, Dropped, Removing
  <2>5. DOMAIN settings' \subseteq usedIds
    BY <1>1, <1>2, <1>4 DEF EditedSettings, Placed, Restrict, Always, SeenGiven
  <2>6. Always'
    BY <1>1, <1>2, <1>4, <2>1, <2>3, <2>4, <2>5, FilesStay, SourcesWell, CommandStep DEF Still, Made
  <2>7. run'[c] = r
    BY <1>1, <1>2, <2>3, RunMove DEF Always
  <2>8. ASSUME Owes(run[c]), OnItsWay(c) PROVE Owes(r)' /\ OnItsWay(c)'
    <3>1. run[c].seen = settings
      BY <1>1, <2>8 DEF OnItsWay
    <3>2. \A i : i # r.id => StoredKey(i)' = StoredKey(i)
      BY <1>4, <2>3, <3>1 DEF StoredKey, EditedSettings, Placed, Restrict
    <3>3. r.cmd # "remove" => StoredKey(r.id)' = r.key
      BY <1>4, <2>3 DEF StoredKey, EditedSettings, Placed
    <3>4. OnItsWay(c)'
      BY <2>1, <2>3, <2>7, <3>3, WayIs DEF Made, Rebuilding
    <3>5. /\ OweFile(r) <=> OweFile(run[c])
          /\ OweDrop(r) <=> OweDrop(run[c])
          /\ OweKey(r) <=> r.cmd = "update"
          /\ OweKey(run[c]) => r.cmd = "register"
      BY <1>2, <2>1, <2>2, <2>3 DEF OweFile, OweKey, OweDrop, Active, Rebuilding
    <3>6. r.cmd = "register" /\ r.id \in S3 => sources[r.id].ops.key = r.key
      BY <1>2, <2>3, <2>8 DEF OnItsWay, Adding
    <3>7. \A i \in S3 : sources[i].ops.key = StoredKey(i)' \/ (OweKey(r) /\ r.id = i)
      <4> SUFFICES ASSUME NEW i \in S3 PROVE sources[i].ops.key = StoredKey(i)' \/ (OweKey(r) /\ r.id = i)
        OBVIOUS
      <4>1. CASE i # r.id
        BY <2>3, <2>8, <3>2, <4>1 DEF Owes
      <4>2. CASE i = r.id
        <5>1. r.cmd \in {"register", "update"}
          BY <2>2, <2>3, <2>4, <4>2 DEF S3
        <5> QED BY <3>3, <3>5, <3>6, <4>2, <5>1
      <4> QED BY <4>1, <4>2
    <3>8. S3' = S3
      BY <1>1 DEF S3
    <3> QED BY <1>1, <2>3, <2>8, <3>4, <3>5, <3>7, <3>8 DEF Owes
  <2> QED BY <1>1, <1>2, <1>4, <2>3, <2>6, <2>8, AloneStep DEF Still
<1> QED BY <1>3, <1>4 DEF save_settings

(* Both adapters of a source get the new key at once.                                    *)
LEMMA InstallIs ==
    ASSUME NEW i \in DOMAIN sources, NEW k, NEW l, IsSource(sources[i])
    PROVE  /\ DOMAIN Install(i, k, l) = DOMAIN sources /\ \A j \in DOMAIN sources : j # i => Install(i, k, l)[j] = sources[j]
           /\ Install(i, k, l)[i] = [type |-> sources[i].type, status |-> sources[i].status,
                                     adapter |-> l, ops |-> Operations(k)]
<1>1. PICK t, st, a, o : sources[i] = [type |-> t, status |-> st, adapter |-> a, ops |-> o]
  BY DEF IsSource
<1>2. PICK made : made = Operations(k)
  OBVIOUS
<1> QED BY <1>1, <1>2 DEF Install

LEMMA InstallStep ==
    ASSUME RegInv, NEW c \in RegClient, update_s3_credentials(c)
    PROVE  RegInv'
<1> USE DEF RegInv
<1>1. /\ At(c, "install") /\ Answer(c)
      /\ UNCHANGED <<file, settings, torn, usedIds, environment, running, regCalls, crashes, goneForGood, ejected>>
  BY DEF update_s3_credentials
<1>2. Active(c) /\ run[c].pc = "install" /\ IsCommand(run[c]) /\ run[c].id \in usedIds /\ running
  BY <1>1, CommandAt
<1>3. CASE UNCHANGED sources /\ Fails
  BY <1>1, <1>2, <1>3, GivesUp DEF Fails
<1>4. CASE run[c].id \in DOMAIN sources /\ sources' = Install(run[c].id, run[c].key, run[c].seen) /\ Still
  <2>1. /\ DOMAIN sources' = DOMAIN sources /\ \A j \in DOMAIN sources : j # run[c].id => sources'[j] = sources[j]
        /\ sources'[run[c].id] = [type |-> sources[run[c].id].type, status |-> sources[run[c].id].status,
                                  adapter |-> run[c].seen, ops |-> Operations(run[c].key)]
    BY <1>4, InstallIs DEF Always, RegShape
  <2>2. PICK made : made = sources'[run[c].id]
    OBVIOUS
  <2>4. /\ made.type = sources[run[c].id].type /\ made.ops.key = run[c].key /\ made.ops.access = Access(run[c].key)
        /\ made.adapter = run[c].seen /\ run[c].seen.key = run[c].key
    BY <1>2, <2>1, <2>2, OperationsIs DEF Always, KeyPassed, Made
  <2>3. WellFormed(made) /\ made.type = sources[run[c].id].type
    BY <1>4, <2>1, <2>2, <2>4, SourcesWell DEF WellFormed, IsSource, KeysAgree
  <2>5. Always'
    <3>1. \A i \in DOMAIN sources' :
              /\ WellFormed(sources'[i])
              /\ i \in DOMAIN sources => sources'[i].type = sources[i].type
              /\ i \notin DOMAIN sources => At(c, "create") /\ i = run[c].id
      BY <2>1, <2>2, <2>3, SourcesWell
    <3> QED BY <1>1, <1>2, <1>4, <3>1, FilesStay, CommandStep DEF Answer, Still
  <2>6. S3' = S3
    BY <2>1, <2>2, <2>3 DEF S3
  <2>7. /\ ~OweFile(run[c]) /\ ~OweDrop(run[c])
    <3>1. run[c].cmd = "update"
      BY <1>2 DEF IsCommand, StepsOf, Commands
    <3> QED BY <3>1 DEF OweFile, OweDrop
  <2>8. ASSUME Owes(run[c]), OnItsWay(c) PROVE Owes(RegIdle)'
    <3>1. \A i : i = run[c].id => StoredKey(i)' = run[c].key
      BY <1>1, <1>2, <2>8 DEF Rebuilding, OnItsWay, StoredKey
    <3>2. \A i : StoredKey(i)' = StoredKey(i)
      BY <1>1 DEF StoredKey
    <3>3. \A i \in S3' : sources'[i].ops.key = StoredKey(i)'
      BY <2>1, <2>2, <2>4, <2>6, <2>8, <3>1, <3>2 DEF Owes, S3
    <3>4. AccessAgrees(made)
      BY <1>2, <2>4, <2>8 DEF OnItsWay, Made, AccessAgrees
    <3>5. \A i \in S3' : AccessAgrees(sources'[i])
      BY <2>1, <2>2, <2>6, <2>8, <3>4 DEF Owes, S3
    <3> QED BY <1>1, <2>6, <2>7, <2>8, <3>3, <3>5 DEF Owes, AccessAgrees
  <2> QED BY <1>1, <1>2, <1>4, <2>5, <2>8, AloneStep DEF Answer, Still
<1> QED BY <1>3, <1>4 DEF update_s3_credentials

(* What is left of the sources without one of them.                                      *)
LEMMA WithoutIs ==
    ASSUME NEW i
    PROVE  /\ DOMAIN Without(i) = DOMAIN sources \ {i}
           /\ \A j \in DOMAIN Without(i) : Without(i)[j] = sources[j]
BY DEF Without, Restrict

(* A source leaves memory; its file entry and its credentials are still owed.             *)
LEMMA RemoveStep ==
    ASSUME RegInv, NEW c \in RegClient, remove_source_async(c)
    PROVE  RegInv'
<1> USE DEF RegInv
<1>1. /\ At(c, "drop") /\ run[c].cmd = "remove" /\ sources' = Without(run[c].id) /\ spoiled' = spoiled
      /\ IF run[c].id \in DOMAIN sources THEN Step(c, "load") ELSE Answer(c)
      /\ UNCHANGED <<file, settings, torn, usedIds, environment, running, regCalls, crashes, goneForGood, ejected>>
  BY DEF remove_source_async, Still
<1>2. Active(c) /\ run[c].pc = "drop" /\ IsCommand(run[c]) /\ run[c].id \in usedIds /\ running
  BY <1>1, CommandAt
<1>3. DOMAIN sources' = DOMAIN sources \ {run[c].id} /\ \A j \in DOMAIN sources' : sources'[j] = sources[j]
  BY <1>1, WithoutIs
<1>4. \A i \in DOMAIN sources' :
          /\ WellFormed(sources'[i])
          /\ i \in DOMAIN sources => sources'[i].type = sources[i].type
          /\ i \notin DOMAIN sources => At(c, "create") /\ i = run[c].id
  BY <1>3, SourcesWell
<1>5. ~OweFile(run[c]) /\ ~OweKey(run[c]) /\ ~OweDrop(run[c])
  BY <1>1, <1>2 DEF OweFile, OweKey, OweDrop, Rebuilding
<1>6. S3' = S3 \ {run[c].id} /\ \A i \in S3' : sources'[i] = sources[i]
  BY <1>3 DEF S3
<1>7. CASE run[c].id \notin DOMAIN sources
  <2>1. Goes(c, RegIdle)
    BY <1>1, <1>7 DEF Answer
  <2>2. Always'
    BY <1>1, <1>2, <1>4, <2>1, FilesStay, CommandStep
  <2>3. S3' = S3
    BY <1>6, <1>7 DEF S3
  <2>4. Owes(run[c]) => Owes(RegIdle)'
    BY <1>1, <1>5, <1>6, <2>3 DEF Owes, AccessAgrees, StoredKey
  <2> QED BY <1>1, <1>2, <2>1, <2>2, <2>4, AloneStep
<1>8. CASE run[c].id \in DOMAIN sources
  <2>1. "load" \in StepsOf(run[c].cmd) /\ Step(c, "load")
    BY <1>1, <1>8 DEF StepsOf
  <2>2. PICK r : /\ Goes(c, r) /\ IsCommand(r) /\ r # RegIdle /\ r.pc = "load"
                 /\ r.id = run[c].id /\ r.cmd = run[c].cmd /\ r.key = run[c].key
    BY <1>2, <2>1, StepIs
  <2>3. Always'
    BY <1>1, <1>2, <1>3, <1>4, <2>2, FilesStay, CommandStep DEF Made
  <2>4. run'[c] = r
    BY <1>1, <1>2, <2>2, RunMove DEF Always
  <2>5. OnItsWay(c)'
    BY <1>1, <2>2, <2>4, WayIs DEF Made, Rebuilding
  <2>6. OweDrop(r)
    BY <1>1, <2>2 DEF OweDrop
  <2>7. Owes(run[c]) => Owes(r)'
    BY <1>1, <1>5, <1>6, <2>2, <2>6 DEF Owes, AccessAgrees, StoredKey
  <2> QED BY <1>1, <1>2, <2>2, <2>3, <2>5, <2>7, AloneStep
<1> QED BY <1>7, <1>8

(* A source is ejected: it leaves memory, and the file may keep it.                       *)
LEMMA EjectStep ==
    ASSUME RegInv, NEW c \in RegClient, eject_source(c)
    PROVE  RegInv'
<1> USE DEF RegInv
<1>1. /\ At(c, "drop") /\ run[c].cmd = "eject" /\ sources' = Without(run[c].id) /\ spoiled' = spoiled
      /\ ejected' = ejected \cup {run[c].id} /\ Goes(c, RegIdle)
      /\ UNCHANGED <<file, settings, torn, usedIds, environment, running, regCalls, crashes, goneForGood>>
  BY DEF eject_source, Still, Answer
<1>2. Active(c) /\ run[c].pc = "drop" /\ IsCommand(run[c]) /\ run[c].id \in usedIds /\ running
  BY <1>1, CommandAt
<1>3. DOMAIN sources' = DOMAIN sources \ {run[c].id} /\ \A j \in DOMAIN sources' : sources'[j] = sources[j]
  BY <1>1, WithoutIs
<1>4. Always'
  <2>1. \A i \in DOMAIN sources' :
              /\ WellFormed(sources'[i])
              /\ i \in DOMAIN sources => sources'[i].type = sources[i].type
              /\ i \notin DOMAIN sources => At(c, "create") /\ i = run[c].id
    BY <1>3, SourcesWell
  <2> QED BY <1>1, <1>2, <2>1, FilesStay, CommandStep
<1>5. ~OweFile(run[c]) /\ ~OweKey(run[c]) /\ ~OweDrop(run[c])
  BY <1>1, <1>2 DEF OweFile, OweKey, OweDrop, Rebuilding
<1>6. S3' = S3 \ {run[c].id} /\ \A i \in S3' : sources'[i] = sources[i]
  BY <1>3 DEF S3
<1>7. Owes(run[c]) => Owes(RegIdle)'
  BY <1>1, <1>5, <1>6 DEF Owes, AccessAgrees, StoredKey
<1> QED BY <1>1, <1>2, <1>4, <1>7, AloneStep

(* A connection test changes a status.                                                    *)
LEMMA StatusStep ==
    ASSUME RegInv, NEW c \in RegClient, update_source_status(c)
    PROVE  RegInv'
<1> USE DEF RegInv
<1>1. /\ At(c, "probe") /\ spoiled' = spoiled /\ Goes(c, RegIdle)
      /\ UNCHANGED <<file, settings, torn, usedIds, environment, running, regCalls, crashes, goneForGood, ejected>>
  BY DEF update_source_status, Still, Answer
<1>2. Active(c) /\ run[c].pc = "probe" /\ IsCommand(run[c]) /\ run[c].id \in usedIds /\ running
  BY <1>1, CommandAt
<1>3. PICK st \in {"Connected", "Error"} :
          sources' = [i \in DOMAIN sources |-> IF i = run[c].id THEN [sources[i] EXCEPT !.status = st] ELSE sources[i]]
  BY DEF update_source_status
<1>4. \A i \in DOMAIN sources : i # run[c].id => sources'[i] = sources[i]
  BY <1>3
<1>5. DOMAIN sources' = DOMAIN sources
  BY <1>3
<1>6. ASSUME NEW i \in DOMAIN sources, i = run[c].id
      PROVE  WellFormed(sources'[i]) /\ sources'[i].type = sources[i].type /\ sources'[i].ops = sources[i].ops /\ sources'[i].adapter = sources[i].adapter
  <2>1. PICK t, s, a, o : sources[i] = [type |-> t, status |-> s, adapter |-> a, ops |-> o]
    <3>1. IsSource(sources[i])
      BY DEF Always, RegShape
    <3> QED BY <3>1 DEF IsSource
  <2>2. sources[i].type = "s3" /\ WellFormed(sources[i])
    BY <1>1, <1>6, SourcesWell DEF Always, Probing
  <2>3. sources'[i] = [type |-> t, status |-> st, adapter |-> a, ops |-> o]
    <3>1. PICK old : old = sources[i]
      OBVIOUS
    <3>2. sources'[i] = [old EXCEPT !.status = st]
      BY <1>3, <1>6, <3>1
    <3>3. [old EXCEPT !.status = st] = [type |-> t, status |-> st, adapter |-> a, ops |-> o]
      BY <2>1, <3>1
    <3> QED BY <3>2, <3>3
  <2> QED BY <2>1, <2>2, <2>3 DEF WellFormed, IsSource, KeysAgree
<1>7. Always'
  <2>1. \A i \in DOMAIN sources' :
              /\ WellFormed(sources'[i])
              /\ i \in DOMAIN sources => sources'[i].type = sources[i].type
              /\ i \notin DOMAIN sources => At(c, "create") /\ i = run[c].id
    BY <1>4, <1>5, <1>6, SourcesWell
  <2> QED BY <1>1, <1>2, <2>1, FilesStay, CommandStep
<1>8. ~OweFile(run[c]) /\ ~OweKey(run[c]) /\ ~OweDrop(run[c])
  <2>1. run[c].cmd = "test"
    BY <1>2 DEF IsCommand, StepsOf, Commands
  <2> QED BY <1>2, <2>1 DEF OweFile, OweKey, OweDrop, Rebuilding
<1>9. S3' = S3 /\ \A i \in S3 : sources'[i].ops = sources[i].ops /\ sources'[i].adapter = sources[i].adapter
  BY <1>4, <1>5, <1>6 DEF S3
<1>10. Owes(run[c]) => Owes(RegIdle)'
  BY <1>1, <1>8, <1>9 DEF Owes, AccessAgrees, StoredKey
<1> QED BY <1>1, <1>2, <1>7, <1>10, AloneStep

(* What is saved of the sources: all but the user's folders.                              *)
LEMMA PersistedIs ==
    /\ DOMAIN Persisted \subseteq DOMAIN sources
    /\ \A i \in DOMAIN sources : i \in DOMAIN Persisted <=> sources[i].type # "system"
    /\ \A i \in DOMAIN Persisted : Persisted[i] = sources[i].type
BY DEF Persisted

(* The list is taken.                                                                     *)
LEMMA ListStep ==
    ASSUME RegInv, NEW c \in RegClient, list_sources(c)
    PROVE  RegInv'
<1> USE DEF RegInv
<1>1. /\ At(c, "list") /\ spoiled' = spoiled
      /\ Goes(c, [run[c] EXCEPT !.pc = "write", !.seen = Persisted])
      /\ UNCHANGED <<sources, file, settings, torn, usedIds, environment, running, regCalls, crashes, goneForGood, ejected>>
  BY DEF list_sources, Still
<1>2. Active(c) /\ run[c].pc = "list" /\ IsCommand(run[c]) /\ run[c].id \in usedIds /\ running
  BY <1>1, CommandAt
<1>3. run[c].cmd \in {"register", "remove"} /\ "write" \in StepsOf(run[c].cmd)
  BY <1>2 DEF IsCommand, StepsOf, Commands
<1>4. PICK m : m = Persisted
  OBVIOUS
<1>5. PICK r : r = [run[c] EXCEPT !.pc = "write", !.seen = m]
  OBVIOUS
<1>6. r = [cmd |-> run[c].cmd, id |-> run[c].id, key |-> run[c].key, pc |-> "write", seen |-> m, alone |-> run[c].alone]
  BY <1>2, <1>5, NextSeen DEF IsCommand
<1>7. /\ IsCommand(r) /\ r # RegIdle /\ r.pc = "write" /\ r.seen = m
      /\ r.id = run[c].id /\ r.cmd = run[c].cmd /\ r.key = run[c].key
  BY <1>2, <1>3, <1>6, SeenIs
<1>8. Goes(c, r)
  BY <1>1, <1>4, <1>5
<1>9. DOMAIN m \subseteq DOMAIN sources \ {Home} /\ \A i \in DOMAIN m : m[i] # "system"
  BY <1>4, PersistedIs DEF Always, RegShape
<1>10. r.cmd = "remove" => r.id \notin DOMAIN sources
  BY <1>2, <1>7 DEF Always, Dropped, Removing
<1>11. Always'
  BY <1>1, <1>2, <1>7, <1>8, <1>9, <1>10, FilesStay, SourcesWell, CommandStep DEF Made
<1>12. run'[c] = r
  BY <1>1, <1>2, <1>7, <1>8, RunMove DEF Always
<1>13. Persisted' = m
  BY <1>1, <1>4 DEF Persisted
<1>14. OnItsWay(c)'
  BY <1>7, <1>12, <1>13, WayIs DEF Made, Rebuilding
<1>15. /\ OweFile(r) <=> OweFile(run[c])
       /\ OweKey(r) <=> OweKey(run[c])
       /\ OweDrop(r) <=> OweDrop(run[c])
  BY <1>2, <1>7, <1>8 DEF OweFile, OweKey, OweDrop, Active, Rebuilding
<1>16. Owes(run[c]) => Owes(r)'
  BY <1>1, <1>7, <1>15 DEF Owes, AccessAgrees, StoredKey, S3
<1> QED BY <1>1, <1>2, <1>7, <1>8, <1>11, <1>14, <1>16, AloneStep

(* The list is written: a command that ran alone has paid what it owed.                    *)
LEMMA WriteStep ==
    ASSUME RegInv, NEW c \in RegClient, save_sources(c)
    PROVE  RegInv'
<1> USE DEF RegInv
<1>1. /\ At(c, "write") /\ Answer(c)
      /\ UNCHANGED <<sources, settings, usedIds, environment, running, regCalls, crashes, ejected>>
  BY DEF save_sources
<1>2. Active(c) /\ run[c].pc = "write" /\ IsCommand(run[c]) /\ run[c].id \in usedIds /\ running
  BY <1>1, CommandAt
<1>3. CASE UNCHANGED <<file, torn, goneForGood>> /\ Fails
  BY <1>1, <1>2, <1>3, GivesUp DEF Fails
<1>4. CASE /\ file' = run[c].seen /\ torn' = torn \ {"sources"} /\ Still
           /\ goneForGood' = IF run[c].cmd = "remove" /\ run[c].alone /\ Alone(c)
                             THEN goneForGood \cup {run[c].id} ELSE goneForGood
  <2>1. /\ DOMAIN file' \subseteq usedIds \ {Home} /\ \A i \in DOMAIN file' : file'[i] # "system"
        /\ goneForGood \cap DOMAIN file' = {}
    BY <1>1, <1>4 DEF Always, SeenGiven, Gone
  <2>2. run[c].cmd = "remove" => Removing(c) /\ run[c].id \notin DOMAIN file'
    BY <1>2, <1>4 DEF Always, Dropped, Removing
  <2>3. /\ goneForGood' = goneForGood \/
             (goneForGood' = goneForGood \cup {run[c].id} /\ Removing(c) /\ Alone(c))
        /\ goneForGood' \cap DOMAIN file' = {}
    BY <1>4, <2>1, <2>2
  <2>4. Always'
    BY <1>1, <1>2, <1>4, <2>1, <2>3, FilesStay, SourcesWell, CommandStep DEF Answer, Still
  <2>5. ~OweKey(run[c])
    BY <1>2 DEF OweKey, Rebuilding
  <2>6. ASSUME Owes(run[c]), OnItsWay(c) PROVE Owes(RegIdle)'
    <3>1. file' = Persisted
      BY <1>1, <1>4, <2>6 DEF OnItsWay
    <3>2. /\ \A i \in S3 : i \in DOMAIN file'
          /\ \A i \in DOMAIN file' : file'[i] = "s3" => i \in S3
      BY <3>1, PersistedIs DEF S3
    <3> QED BY <1>1, <2>5, <2>6, <3>2 DEF Owes, AccessAgrees, StoredKey, S3
  <2> QED BY <1>1, <1>2, <1>4, <2>4, <2>6, AloneStep DEF Answer, Still
<1> QED BY <1>3, <1>4 DEF save_sources

(* Nothing changes that the invariant speaks of.                                          *)
LEMMA SameInv ==
    ASSUME RegInv, UNCHANGED <<sources, file, settings, torn, usedIds, run, environment, running, spoiled, goneForGood, ejected>>
    PROVE  RegInv'
<1> USE DEF At, Active, S3
<1>1. RegTypeOK' /\ RegShape' /\ SeenGiven' /\ Fresh' /\ Probing'
  BY DEF RegInv, Always, RegTypeOK, RegShape, SeenGiven, Fresh, Probing
<1>2. Dropped' /\ Gone' /\ KeysAll' /\ KeyPassed' /\ RemovedStaysRemoved'
  BY DEF RegInv, Always, Dropped, Removing, Gone, KeysAll, KeysAgree, KeyPassed, Made, RemovedStaysRemoved
<1>3. (~spoiled => One)'
  BY DEF RegInv, One
<1>4. Undisturbed'
  BY DEF RegInv, Undisturbed, Owing, OwesFile, OwesKey, OwesDrop, Adding, Removing, OnItsWay, StoredKey, Persisted,
         AccessAgrees, Access, Made, Rebuilding
<1> QED BY <1>1, <1>2, <1>3, <1>4 DEF RegInv, Always

(* A command starts: it has done nothing, and if another one is running that is noted.     *)
LEMMA BeginStep ==
    ASSUME RegInv, NEW c \in RegClient, BeginReg(c)
    PROVE  RegInv'
<1> USE DEF RegInv
<1>1. /\ running /\ run[c] = RegIdle
      /\ UNCHANGED <<sources, file, settings, torn, running, crashes, goneForGood, ejected>>
  BY DEF BeginReg
<1>2. CASE Refuse /\ UNCHANGED environment
  <2>1. UNCHANGED <<sources, file, settings, torn, usedIds, run, environment, running, spoiled, goneForGood, ejected>>
    BY <1>1, <1>2 DEF Refuse
  <2> QED BY <2>1, SameInv
<1>3. ASSUME NEW q \in RegRequest[c], NEW pc, Enter(c, q, pc), q.cmd \in Commands, pc \in StepsOf(q.cmd) \ {"save", "write", "rebuild", "install", "list"},
             q.cmd = "remove" => pc = "drop", q.cmd = "register" => pc = "create",
             IF pc = "create" THEN q.id \notin usedIds ELSE q.id \in DOMAIN sources,
             pc = "probe" => q.id \in S3
      PROVE  RegInv'
  <2>1. PICK r : r = [cmd |-> q.cmd, id |-> q.id, key |-> q.key, pc |-> pc, seen |-> << >>, alone |-> Alone(c)]
    OBVIOUS
  <2>2. Goes(c, r) /\ usedIds' = usedIds \cup {r.id} /\ spoiled' = (spoiled \/ ~Alone(c))
    BY <1>3, <2>1 DEF Enter
  <2>3. r.cmd = q.cmd /\ r.id = q.id /\ r.key = q.key /\ r.pc = pc /\ r.seen = << >> /\ r # RegIdle
    BY <1>3, <2>1 DEF RegIdle, Commands
  <2>4. IsCommand(r)
    <3>1. q.cmd \in {"register", "mount"} => q.id # Home
      <4>1. q.cmd \in {"register", "mount"} => pc = "create"
        BY <1>3 DEF StepsOf, Commands
      <4> QED BY <1>3, <4>1 DEF Always, RegShape
    <3> QED BY <1>3, <2>1, <2>3, <3>1 DEF IsCommand, IsRun
  <2>5. /\ run'[c] = r /\ \A d \in RegClient : d # c => run'[d] = run[d]
        /\ DOMAIN run' = RegClient /\ run' = [d \in RegClient |-> run'[d]]
        /\ \A d \in RegClient : Active(d)' => IsCommand(run'[d]) /\ run'[d].id \in usedIds'
        /\ \A d \in RegClient : d # c => (Active(d)' <=> Active(d))
    BY <2>2, <2>4, RunMove DEF Always
  <2>6. ~Active(c) /\ Active(c)' /\ usedIds \subseteq usedIds'
    BY <1>1, <2>2, <2>3, <2>5 DEF Active
  <2>7. \A d \in RegClient, p \in {"create", "save", "write", "probe", "install"} :
            /\ At(d, p)' <=> Active(d)' /\ run'[d].pc = p
            /\ At(d, p) <=> Active(d) /\ run[d].pc = p
    <3>1. \A d \in RegClient : Active(d)' => run'[d].cmd # "none"
      BY <2>5 DEF IsCommand, Commands
    <3> QED BY <3>1, AtActive DEF At, Active, RegIdle, Always
  <2>8. RegTypeOK'
    BY <1>1, <2>6 DEF Always, RegTypeOK
  <2>9. RegShape'
    BY <1>1, <2>2, <2>5, <2>6 DEF Always, RegShape, IsSource
  <2>10. SeenGiven'
    <3> SUFFICES ASSUME NEW d \in RegClient
                 PROVE  /\ At(d, "save")' => DOMAIN run'[d].seen \subseteq usedIds'
                        /\ At(d, "write")' => /\ DOMAIN run'[d].seen \subseteq usedIds' \ {Home}
                                              /\ \A i \in DOMAIN run'[d].seen : run'[d].seen[i] # "system"
      BY DEF SeenGiven
    <3>1. CASE d = c
      BY <1>3, <2>3, <2>5, <2>7, <3>1
    <3>2. CASE d # c
      BY <2>5, <2>6, <2>7, <3>2 DEF Always, SeenGiven
    <3> QED BY <3>1, <3>2
  <2>11. Fresh'
    <3> SUFFICES ASSUME NEW d \in RegClient, At(d, "create")'
                 PROVE  /\ run'[d].id \notin DOMAIN sources
                        /\ \A e \in RegClient : Active(e)' /\ run'[e].id = run'[d].id => e = d
      BY <1>1 DEF Fresh
    <3>1. CASE d = c
      <4>1. q.id \notin usedIds
        BY <1>3, <2>3, <2>5, <2>7, <3>1
      <4>2. \A e \in RegClient : e # c /\ Active(e)' => run'[e].id \in usedIds
        BY <2>5 DEF Always, RegShape
      <4> QED BY <2>3, <2>5, <3>1, <4>1, <4>2 DEF Always, RegTypeOK
    <3>2. CASE d # c
      <4>1. At(d, "create") /\ run'[d] = run[d] /\ run[d].id \in usedIds /\ Active(d)
        BY <2>5, <2>7, <3>2 DEF Always, RegShape
      <4>2. run[d].id \notin DOMAIN sources /\ \A e \in RegClient : Active(e) /\ run[e].id = run[d].id => e = d
        BY <4>1 DEF Always, Fresh
      <4>3. ASSUME Active(c)', run'[c].id = run'[d].id PROVE FALSE
        <5>1. q.id \in usedIds /\ q.id \notin DOMAIN sources
          BY <2>3, <2>5, <4>1, <4>2, <4>3
        <5> QED BY <1>3, <5>1
      <4> QED BY <2>5, <4>1, <4>2, <4>3
    <3> QED BY <3>1, <3>2
  <2>12. Probing'
    <3> SUFFICES ASSUME NEW d \in RegClient, At(d, "probe")', run'[d].id \in DOMAIN sources
                 PROVE  sources[run'[d].id].type = "s3"
      BY <1>1 DEF Probing
    <3>1. CASE d = c
      BY <1>3, <2>3, <2>5, <2>7, <3>1 DEF S3
    <3>2. CASE d # c
      BY <2>5, <2>7, <3>2 DEF Always, Probing
    <3> QED BY <3>1, <3>2
  <2>13. Dropped'
    <3> SUFFICES ASSUME NEW d \in RegClient, Removing(d)'
                 PROVE  /\ run'[d].id \notin DOMAIN sources
                        /\ run'[d].pc = "write" => run'[d].id \notin DOMAIN run'[d].seen
      BY <1>1 DEF Dropped
    <3>1. d # c
      BY <1>3, <2>3, <2>5 DEF Removing
    <3>2. run'[d] = run[d] /\ Removing(d)
      BY <2>5, <3>1 DEF Removing
    <3> QED BY <3>2 DEF Always, Dropped
  <2>14. Gone'
    <3>1. goneForGood \subseteq usedIds
      BY DEF Always, Gone
    <3>2. ASSUME NEW d \in RegClient
          PROVE  /\ At(d, "write")' => goneForGood \cap DOMAIN run'[d].seen = {}
                 /\ At(d, "create")' => run'[d].id \notin goneForGood
      <4>1. CASE d = c
        BY <1>3, <2>3, <2>5, <2>7, <3>1, <4>1
      <4>2. CASE d # c
        BY <2>5, <2>7, <4>2 DEF Always, Gone
      <4> QED BY <4>1, <4>2
    <3> QED BY <1>1, <2>6, <3>1, <3>2 DEF Gone
  <2>15. KeysAll' /\ KeyPassed' /\ RemovedStaysRemoved'
    <3>1. KeysAll' /\ RemovedStaysRemoved'
      BY <1>1 DEF Always, KeysAll, KeysAgree, RemovedStaysRemoved, S3
    <3>2. ~Made(r)
      BY <1>3, <2>3 DEF Made
    <3>3. \A d \in RegClient : Active(d)' /\ Made(run'[d]) => run'[d].seen.key = run'[d].key
      BY <2>5, <3>2 DEF Always, KeyPassed
    <3> QED BY <3>1, <3>3 DEF KeyPassed, Made
  <2>16. Always'
    BY <2>8, <2>9, <2>10, <2>11, <2>12, <2>13, <2>14, <2>15 DEF Always
  <2>17. ASSUME ~spoiled' PROVE ~spoiled /\ (\A d \in RegClient : ~Active(d)) /\ (\A d \in RegClient : Active(d)' => d = c)
    BY <1>1, <2>2, <2>5, <2>17 DEF Alone, Active
  <2>18. ~spoiled' => One'
    BY <2>17 DEF One
  <2>19. ASSUME ~spoiled' PROVE Owing'
    <3>1. \A i : ~OwesFile(i) /\ ~OwesKey(i) /\ ~OwesDrop(i)
      BY <2>7, <2>17, <2>19 DEF OwesFile, OwesKey, OwesDrop, Adding, Removing
    <3>2. Owing
      BY <1>1, <2>17, <2>19 DEF Undisturbed
    <3> QED BY <1>1, <3>1, <3>2 DEF Owing, S3, StoredKey, AccessAgrees
  <2>20. OnItsWay(c)'
    <3>1. pc = "create" => r.id \notin DOMAIN settings'
      BY <1>1, <1>3, <2>3 DEF Always, RegTypeOK
    <3>2. ~Adding(c)'
      BY <1>3, <2>3, <2>5 DEF Adding
    <3> QED BY <1>3, <2>3, <2>5, <2>7, <3>1, <3>2 DEF OnItsWay, Made, Rebuilding
  <2> QED BY <2>16, <2>17, <2>18, <2>19, <2>20 DEF Undisturbed
<1>4. PICK q \in RegRequest[c] :
          \/ vfs_register_s3_source(c, q)
          \/ /\ \/ vfs_mount_local(c, q) \/ vfs_remove_source(c, q) \/ vfs_eject(c, q)
                \/ vfs_update_s3_credentials(c, q) \/ vfs_test_s3_connection(c, q)
             /\ UNCHANGED environment
  BY DEF BeginReg
<1>5. CASE vfs_register_s3_source(c, q) \/ vfs_mount_local(c, q)
  <2>1. /\ Enter(c, q, "create") /\ q.cmd \in Commands /\ "create" \in StepsOf(q.cmd) /\ q.id \notin usedIds
        /\ q.cmd # "remove"
    BY <1>5 DEF vfs_register_s3_source, vfs_mount_local, Commands, StepsOf
  <2> QED BY <1>3, <2>1
<1>6. CASE (vfs_remove_source(c, q) \/ vfs_eject(c, q)) /\ UNCHANGED environment
  <2>1. CASE Refuse
    BY <1>2, <1>6, <2>1
  <2>2. CASE Enter(c, q, "drop") /\ q.id \in DOMAIN sources /\ q.cmd \in {"remove", "eject"}
    <3>1. q.cmd \in Commands /\ "drop" \in StepsOf(q.cmd)
      BY <2>2 DEF Commands, StepsOf
    <3> QED BY <1>3, <2>2, <3>1
  <2> QED BY <1>6, <2>1, <2>2 DEF vfs_remove_source, vfs_eject
<1>7. CASE vfs_update_s3_credentials(c, q) /\ UNCHANGED environment
  <2>1. CASE Refuse
    BY <1>2, <1>7, <2>1
  <2>2. CASE Enter(c, q, "load") /\ q.id \in S3 /\ q.cmd = "update"
    <3>1. q.cmd \in Commands /\ "load" \in StepsOf(q.cmd) /\ q.id \in DOMAIN sources
      BY <2>2 DEF Commands, StepsOf, S3
    <3> QED BY <1>3, <2>2, <3>1
  <2> QED BY <1>7, <2>1, <2>2 DEF vfs_update_s3_credentials
<1>8. CASE vfs_test_s3_connection(c, q) /\ UNCHANGED environment
  <2>1. CASE Refuse
    BY <1>2, <1>8, <2>1
  <2>2. CASE Enter(c, q, "probe") /\ q.id \in S3 /\ q.cmd = "test"
    <3>1. q.cmd \in Commands /\ "probe" \in StepsOf(q.cmd) /\ q.id \in DOMAIN sources
      BY <2>2 DEF Commands, StepsOf, S3
    <3> QED BY <1>3, <2>2, <3>1
  <2> QED BY <1>8, <2>1, <2>2 DEF vfs_test_s3_connection
<1> QED BY <1>4, <1>5, <1>6, <1>7, <1>8

-----------------------------------------------------------------------------
(* Stopping and starting. *)

(* With no command on its way, what is left to show is about the sources and the files.    *)
IdleOK ==
    /\ run = [c \in RegClient |-> RegIdle] /\ Home \in usedIds /\ Home \notin DOMAIN file /\ spoiled \in BOOLEAN
    /\ \A i \in DOMAIN sources : WellFormed(sources[i]) /\ i \in usedIds /\ (i = Home => sources[i].type = "system")
    /\ DOMAIN file \subseteq usedIds /\ \A i \in DOMAIN file : file[i] # "system"
    /\ DOMAIN settings \subseteq usedIds /\ torn \subseteq {"sources", "settings"}
    /\ (~running => sources = << >>) /\ goneForGood \subseteq usedIds /\ RemovedStaysRemoved
    /\ running /\ ~spoiled => Owing

(* ... and is enough.                                                                       *)
LEMMA IdleInv == IdleOK => RegInv
<1> SUFFICES ASSUME IdleOK PROVE RegInv
  OBVIOUS
<1> USE DEF IdleOK
<1>1. \A c \in RegClient : run[c] = RegIdle /\ ~Active(c)
  BY DEF Active
<1>2. \A c \in RegClient, pc \in {"create", "save", "write", "probe"} : ~At(c, pc)
  BY <1>1 DEF At, RegIdle
<1>3. RegTypeOK
  BY <1>1 DEF RegTypeOK, WellFormed
<1>4. RegShape
  BY <1>1 DEF RegShape, WellFormed
<1>5. SeenGiven /\ Fresh /\ Probing /\ Dropped /\ Gone
  BY <1>1, <1>2 DEF SeenGiven, Fresh, Probing, Dropped, Removing, Gone
<1>6. KeysAll /\ KeyPassed
  BY <1>1 DEF KeysAll, KeyPassed, S3, WellFormed
<1> QED BY <1>1, <1>3, <1>4, <1>5, <1>6 DEF RegInv, Always, One, Undisturbed

(* The same of the state after a step.                                                      *)
LEMMA IdleNext == IdleOK' => RegInv'
BY IdleInv, PTL

(* Nothing, before the application has started for the first time.                         *)
LEMMA RegStart == RegInit => RegInv
<1> SUFFICES ASSUME RegInit PROVE RegInv
  OBVIOUS
<1>1. DOMAIN sources = {} /\ DOMAIN file = {} /\ DOMAIN settings = {}
  BY DEF RegInit
<1> QED BY <1>1, IdleInv DEF RegInit, RemovedStaysRemoved, IdleOK

(* A crash loses memory and every command, and may lose a file that was being written.      *)
LEMMA CrashStep ==
    ASSUME RegInv, Crash
    PROVE  RegInv'
<1> USE DEF RegInv
<1>1. /\ running' = FALSE /\ sources' = << >> /\ run' = [c \in RegClient |-> RegIdle]
      /\ UNCHANGED <<usedIds, goneForGood>> /\ spoiled' \in BOOLEAN
  BY FilesStay DEF Crash
<1>2. PICK t \in SUBSET {"sources", "settings"} :
          /\ torn' = torn \cup t
          /\ file' = IF "sources" \in t THEN << >> ELSE file
          /\ settings' = IF "settings" \in t THEN << >> ELSE settings
  BY DEF Crash
<1>3. DOMAIN << >> = {}
  OBVIOUS
<1>4. DOMAIN file' \subseteq DOMAIN file /\ (\A i \in DOMAIN file' : file'[i] = file[i])
  BY <1>2, <1>3
<1>5. DOMAIN settings' \subseteq DOMAIN settings /\ DOMAIN sources' = {} /\ torn' \subseteq {"sources", "settings"}
  BY <1>1, <1>2, <1>3, FilesStay
<1>6. RemovedStaysRemoved'
  BY <1>1, <1>4, <1>5 DEF Always, RemovedStaysRemoved
<1>7. /\ Home \in usedIds' /\ Home \notin DOMAIN file' /\ goneForGood' \subseteq usedIds'
      /\ DOMAIN file' \subseteq usedIds' /\ (\A i \in DOMAIN file' : file'[i] # "system")
      /\ DOMAIN settings' \subseteq usedIds'
  BY <1>1, <1>4, <1>5, FilesStay DEF Always, RegShape, Gone
<1> HIDE DEF RegInv
<1>8. IdleOK'
  BY <1>1, <1>5, <1>6, <1>7 DEF IdleOK
<1> QED BY <1>8, IdleNext

(* A start mounts the user's folders and restores the saved cloud sources, with the stored   *)
(* credentials; one it cannot restore is noted.                                              *)
LEMMA InitStep ==
    ASSUME RegInv, vfs_init
    PROVE  RegInv'
<1> USE DEF RegInv
<1>1. /\ ~running /\ running' = TRUE
      /\ UNCHANGED <<file, settings, torn, usedIds, run, goneForGood, ejected>>
  BY DEF vfs_init
<1>2. PICK failing \in SUBSET {j \in DOMAIN file : Restorable(j)} :
          /\ sources' = Placed(load_sources(failing), Home, Local("system"))
          /\ spoiled' = (spoiled \/ failing # {})
  BY DEF vfs_init
<1>3. run = [c \in RegClient |-> RegIdle]
  <2>1. \A c \in RegClient : run[c] = RegIdle
    BY <1>1 DEF Always, RegTypeOK
  <2> QED BY <2>1 DEF Always, RegShape
<1>4. /\ DOMAIN sources' = {j \in DOMAIN file : file[j] = "s3" /\ j \notin failing} \cup {Home}
      /\ sources'[Home] = Local("system")
      /\ \A i \in DOMAIN sources' \ {Home} : sources'[i] = Restored(i)
  BY <1>2 DEF Placed, load_sources, Restorable
<1>5. \A i \in DOMAIN sources' \ {Home} :
          /\ i \in DOMAIN file /\ file[i] = "s3" /\ WellFormed(sources'[i]) /\ sources'[i].type = "s3"
          /\ sources'[i].ops.key = StoredKey(i) /\ AccessAgrees(sources'[i])
  <2> SUFFICES ASSUME NEW i \in DOMAIN sources' \ {Home}
               PROVE  /\ i \in DOMAIN file /\ file[i] = "s3" /\ WellFormed(sources'[i]) /\ sources'[i].type = "s3"
                      /\ sources'[i].ops.key = StoredKey(i) /\ AccessAgrees(sources'[i])
    OBVIOUS
  <2>1. i \in DOMAIN file /\ file[i] = "s3"
    BY <1>4
  <2>2. PICK o : o = IF i \in DOMAIN settings THEN Deserialized(settings[i]) ELSE Operations("env")
    OBVIOUS
  <2>3. PICK l : l = Listing("env")
    OBVIOUS
  <2>4. sources'[i] = [type |-> "s3", status |-> "Disconnected", adapter |-> l, ops |-> o]
    BY <1>4, <2>1, <2>2, <2>3 DEF Restored
  <2>5. /\ l.key = "env" /\ l.access = Access("env")
        /\ o.key = StoredKey(i) /\ (IF i \in DOMAIN settings THEN ~o.secret ELSE o.key = "env" /\ o.access = Access("env"))
    BY <2>2, <2>3, OperationsIs DEF StoredKey, Deserialized, Credential, Listing, S3StorageAdapter
  <2> QED BY <2>1, <2>4, <2>5 DEF WellFormed, IsSource, KeysAgree, AccessAgrees
<1>6. WellFormed(sources'[Home]) /\ sources'[Home].type = "system"
  BY <1>4 DEF WellFormed, Local, IsSource
<1>7. ASSUME ~spoiled' PROVE Owing'
  <2>1. failing = {}
    BY <1>2, <1>7
  <2>2. \A i : i \in S3' <=> i \in DOMAIN file /\ file[i] = "s3"
    BY <1>4, <1>5, <1>6, <2>1 DEF S3, Always, RegShape
  <2>3. \A i \in S3' : i # Home
    BY <1>6 DEF S3
  <2>4. \A i \in S3' : sources'[i].ops.key = StoredKey(i)'
    BY <1>1, <1>5, <2>3 DEF S3, StoredKey
  <2>5. \A i \in S3' : AccessAgrees(sources'[i])
    BY <1>5, <2>3 DEF S3
  <2> QED BY <1>1, <2>2, <2>4, <2>5 DEF Owing, AccessAgrees
<1>8. RemovedStaysRemoved'
  BY <1>1, <1>5 DEF Always, RemovedStaysRemoved
<1>9. /\ Home \in usedIds' /\ Home \notin DOMAIN file' /\ goneForGood' \subseteq usedIds'
      /\ DOMAIN file' \subseteq usedIds' /\ (\A i \in DOMAIN file' : file'[i] # "system")
      /\ DOMAIN settings' \subseteq usedIds' /\ torn' \subseteq {"sources", "settings"}
  BY <1>1, FilesStay DEF Always, RegShape, Gone
<1>10. \A i \in DOMAIN sources' : WellFormed(sources'[i]) /\ i \in usedIds' /\ (i = Home => sources'[i].type = "system")
  BY <1>1, <1>5, <1>6, <1>9
<1>11. spoiled' \in BOOLEAN
  BY <1>2, FilesStay
<1> HIDE DEF RegInv
<1>12. IdleOK'
  BY <1>1, <1>3, <1>7, <1>8, <1>9, <1>10, <1>11 DEF IdleOK
<1> QED BY <1>12, IdleNext

(* Every step.                                                                               *)
LEMMA RegStepKeeps == RegInv /\ [RegNext]_regVars => RegInv'
<1> SUFFICES ASSUME RegInv, [RegNext]_regVars PROVE RegInv'
  OBVIOUS
<1>1. CASE UNCHANGED regVars
  BY <1>1, SameInv DEF regVars
<1>2. CASE Crash
  BY <1>2, CrashStep
<1>3. CASE vfs_init
  BY <1>3, InitStep
<1>4. ASSUME NEW c \in RegClient,
             \/ BeginReg(c) \/ add_local_source(c) \/ create_adapter(c) \/ add_s3_source(c) \/ load_settings(c) \/ save_settings(c)
             \/ update_s3_credentials(c) \/ remove_source_async(c) \/ eject_source(c) \/ update_source_status(c)
             \/ list_sources(c) \/ save_sources(c)
      PROVE  RegInv'
  BY <1>4, BeginStep, MountStep, CreateStep, RegisterStep, LoadStep, SaveStep, InstallStep, RemoveStep, EjectStep, StatusStep,
     ListStep, WriteStep
<1> QED BY <1>1, <1>2, <1>3, <1>4 DEF RegNext

(* The inductive invariant of the storage sources (vfs_service.rs, commands/storage.rs).     *)
THEOREM RegistryInductive == RegSpec => []RegInv
BY RegStart, RegStepKeeps, PTL DEF RegSpec

(* For any number of commands, sources, failed writes and crashes, the sources are well      *)
(* formed and were given one key each, a source removed by a command nothing disturbed        *)
(* stays removed, and while nothing overlapped or failed listing and reading sign with the     *)
(* same access key and a restart finds every source and its key (vfs_service.rs,               *)
(* commands/storage.rs, storage_persistence.rs).  Nothing is claimed of the session token.      *)
THEOREM RegistryCorrect == RegSpec => []RegistrySafe
<1>1. RegInv => RegistrySafe
  <2> SUFFICES ASSUME RegInv PROVE RegistrySafe
    OBVIOUS
  <2>1. RegTypeOK /\ RemovedStaysRemoved
    BY DEF RegInv, Always
  <2>3. AdapterOpsAgree
    <3>1. ~running => S3 = {}
      BY DEF RegInv, Always, RegTypeOK, S3
    <3>2. running /\ ~spoiled => \A i \in S3 : AccessAgrees(sources[i])
      BY DEF RegInv, Undisturbed, Owing
    <3> QED BY <3>1, <3>2 DEF RegInv, Always, KeysAll, AdapterOpsAgree
  <2>2. ASSUME running, ~spoiled, \A c \in RegClient : run[c] = RegIdle
        PROVE  /\ S3 \subseteq DOMAIN file
               /\ \A i \in S3 : sources[i].ops.key = IF i \in DOMAIN settings THEN settings[i] ELSE "env"
               /\ {i \in DOMAIN file : file[i] = "s3"} \subseteq S3 \cup ejected
    <3>1. Owing
      BY <2>2 DEF RegInv, Undisturbed
    <3>2. \A i : ~OwesFile(i) /\ ~OwesKey(i) /\ ~OwesDrop(i)
      BY <2>2 DEF OwesFile, OwesKey, OwesDrop, Adding, Removing, Active, At, RegIdle
    <3> QED BY <3>1, <3>2 DEF Owing, StoredKey
  <2> QED BY <2>1, <2>2, <2>3 DEF RegistrySafe, RestartKeepsSources
<1> QED BY <1>1, RegistryInductive, PTL

(****************************************************************************)
(* The token account                                                        *)
(****************************************************************************)
\* Where a command holds a balance it is going to store or save.
HoldsBalance == {"loaded", "saveLoaded", "saveNew", "cacheNew", "apply", "save"}
\* A balance that is a balance and agrees with itself.
SoundBalance(b) == b \in Balance /\ Consistent(b)

(* What the plans offer is an integer; only the unlimited plan offers -1.      *)
LEMMA PlansTyped ==
    \A p \in Plan : get_token_plans(p) \in Int
BY TokenAssumption DEF Plan, get_token_plans, Unlimited

(* A balance with new numbers agrees with itself when what remains is what the *)
(* numbers say; the other fields do not matter.                               *)
LEMMA NumbersSound ==
    ASSUME NEW b \in Balance, NEW t \in Int, NEW u \in Int, NEW d \in Int, NEW p \in Plan,
           NEW r \in Int, r = IF t = Unlimited THEN Unlimited ELSE t - u,
           NEW c, c = [b EXCEPT !.plan = p, !.total = t, !.used = u, !.remaining = r, !.reset = d]
    PROVE  SoundBalance(c)
<1>1. c \in Balance
  BY DEF Balance
<1>2. c.total = t /\ c.used = u /\ c.remaining = r
  BY DEF Balance
<1> QED BY <1>1, <1>2 DEF SoundBalance, Consistent

(* A new balance and a balance that was reset agree with themselves.          *)
LEMMA FreshSound ==
    ASSUME today \in Nat
    PROVE  /\ SoundBalance(initialize_free_tier_balance)
           /\ \A b : SoundBalance(b) => SoundBalance(check_and_reset_balance(b))
<1>1. SoundBalance(initialize_free_tier_balance)
  BY TokenAssumption DEF SoundBalance, Balance, Consistent, initialize_free_tier_balance, Plan, Unlimited
<1>2. ASSUME NEW b, SoundBalance(b), NeedsReset(b) PROVE SoundBalance(check_and_reset_balance(b))
  <2> DEFINE t == get_token_plans(b.plan)
             u == 0
  <2>1. t \in Int /\ u \in Int /\ today + Period \in Int /\ b \in Balance /\ b.plan \in Plan /\ Unlimited \in Int
    BY <1>2, PlansTyped, TokenAssumption DEF SoundBalance, Balance, Unlimited
  <2>2. t = IF t = Unlimited THEN Unlimited ELSE t - u
    BY <2>1
  <2>3. check_and_reset_balance(b)
          = [b EXCEPT !.plan = b.plan, !.total = t, !.used = u, !.remaining = t, !.reset = today + Period]
    BY <1>2, <2>1 DEF check_and_reset_balance, Balance
  <2> HIDE DEF t, u
  <2> QED BY <2>1, <2>2, <2>3, NumbersSound
<1>3. ASSUME NEW b, SoundBalance(b), ~NeedsReset(b) PROVE SoundBalance(check_and_reset_balance(b))
  BY <1>3 DEF check_and_reset_balance
<1> QED BY <1>1, <1>2, <1>3

(* Spending tokens of a limited balance, and a change of plan, keep a balance   *)
(* in agreement with itself: what is used is never dropped.                    *)
LEMMA ChangedSound ==
    ASSUME today \in Nat, NEW b, SoundBalance(b)
    PROVE  /\ \A n \in Int : b.total # Unlimited => SoundBalance(Consumed(b, n))
           /\ \A p \in Plan : SoundBalance(Purchased(b, p))
<1>0. b \in Balance /\ b.total \in Int /\ b.used \in Int /\ b.remaining \in Int /\ b.reset \in Int
      /\ b.plan \in Plan /\ Unlimited \in Int
  BY DEF SoundBalance, Balance, Unlimited
<1>1. ASSUME NEW n \in Int, b.total # Unlimited PROVE SoundBalance(Consumed(b, n))
  <2>1. Consumed(b, n) = [b EXCEPT !.plan = b.plan, !.total = b.total, !.used = b.used + n,
                                   !.remaining = b.remaining - n, !.reset = b.reset]
    BY <1>0 DEF Consumed, Balance
  <2>2. b.remaining - n = IF b.total = Unlimited THEN Unlimited ELSE b.total - (b.used + n)
    BY <1>0, <1>1 DEF SoundBalance, Consistent
  <2>3. b.used + n \in Int /\ b.remaining - n \in Int
    BY <1>0
  <2> QED BY <1>0, <2>1, <2>2, <2>3, NumbersSound
<1>2. ASSUME NEW p \in Plan PROVE SoundBalance(Purchased(b, p))
  <2> DEFINE t == get_token_plans(p)
             r == IF t = Unlimited THEN Unlimited ELSE t - b.used
  <2>1. t \in Int /\ today + Period \in Int
    BY PlansTyped, TokenAssumption
  <2>2. Purchased(b, p) = [b EXCEPT !.plan = p, !.total = t, !.used = b.used, !.remaining = r,
                                    !.reset = today + Period]
    BY <1>0 DEF Purchased, Balance
  <2>3. r \in Int
    BY <1>0, <2>1
  <2> HIDE DEF t
  <2> QED BY <1>0, <2>1, <2>2, <2>3, NumbersSound
<1> QED BY <1>1, <1>2

(* Storing a balance under an account changes no other account's.             *)
LEMMA StoreSound ==
    ASSUME NEW m, NEW a \in Someone, NEW b, SoundBalance(b),
           DOMAIN m \subseteq Someone, \A x \in DOMAIN m : SoundBalance(m[x]),
           NEW n, n = With(m, a, b)
    PROVE  /\ DOMAIN n \subseteq Someone /\ n \in [DOMAIN n -> Balance]
           /\ \A x \in DOMAIN n : SoundBalance(n[x])
BY DEF SoundBalance, With

(* Every command's copy, as part of the invariant.                            *)
BalancesHeld == /\ command \in [TokenClient -> TokenCommand]
                /\ \A c \in TokenClient : command[c].pc \in HoldsBalance => SoundBalance(command[c].held)
BalancesInMemory == /\ DOMAIN balances \subseteq Someone /\ balances \in [DOMAIN balances -> Balance]
                    /\ \A a \in DOMAIN balances : SoundBalance(balances[a])
BalanceOnDisk == /\ tokensFile \in [state : {"absent", "torn", "saved"}, account : Someone, balance : Balance]
                 /\ tokensFile.state = "saved" => SoundBalance(tokensFile.balance)
AccountsNamed == /\ accountId \in Someone /\ accountFile \in Someone
                 /\ today \in Nat /\ tokenCalls \in Nat /\ mixed \in BOOLEAN /\ ledger \in Int
TokenInv == BalancesHeld /\ BalancesInMemory /\ BalanceOnDisk /\ AccountsNamed

(* The invariant in its parts is the property.                                *)
LEMMA InvIsConsistent == TokenInv => BalancesConsistent
BY DEF TokenInv, BalancesHeld, BalancesInMemory, BalanceOnDisk, AccountsNamed, SoundBalance, HoldsBalance, BalancesConsistent, TokenTypeOK

(* A command that goes on with a sound copy keeps all copies sound.           *)
LEMMA MoveKeeps ==
    ASSUME BalancesHeld, NEW c \in TokenClient, NEW r \in TokenCommand, r.pc \in HoldsBalance => SoundBalance(r.held), Move(c, r)
    PROVE  BalancesHeld'
BY DEF BalancesHeld, Move

(* A command that goes on with the copy it has.                               *)
LEMMA MoveToKeeps ==
    ASSUME BalancesHeld, NEW c \in TokenClient, command[c].pc \in HoldsBalance,
           NEW pc \in HoldsBalance, MoveTo(c, pc)
    PROVE  BalancesHeld'
<1> DEFINE r == [command[c] EXCEPT !.pc = pc]
<1>1. command[c] \in TokenCommand /\ SoundBalance(command[c].held)
  BY DEF BalancesHeld
<1>2. r \in TokenCommand /\ r.held = command[c].held
  BY <1>1 DEF TokenCommand, HoldsBalance
<1>3. Move(c, r)
  BY DEF MoveTo
<1> HIDE DEF r
<1> QED BY <1>1, <1>2, <1>3, MoveKeeps

(* A command that returns holds nothing.                                      *)
LEMMA ReturnKeeps ==
    ASSUME BalancesHeld, NEW c \in TokenClient, Return(c)
    PROVE  BalancesHeld'
<1>1. Quiet \in TokenCommand /\ Quiet.pc \notin HoldsBalance
  BY DEF Quiet, TokenCommand, HoldsBalance, Someone, NoBalance, Balance, Plan
<1> QED BY <1>1, MoveKeeps DEF Return

(* A command that begins, or finds out its account, holds no balance yet.      *)
LEMMA BeginKeeps ==
    ASSUME TokenInv, NEW c \in TokenClient, BeginTokens(c)
    PROVE  TokenInv'
<1>1. PICK r \in TokenRequest[c] :
          Move(c, [Quiet EXCEPT !.cmd = r.cmd, !.n = r.n, !.plan = r.plan, !.pc = "account"])
  BY DEF BeginTokens
<1> DEFINE m == [Quiet EXCEPT !.cmd = r.cmd, !.n = r.n, !.plan = r.plan, !.pc = "account"]
<1>2. r.cmd \in {"consume", "purchase", "get"} /\ r.n \in Int /\ r.plan \in Plan
  BY TokenAssumption DEF Plan
<1>3. m \in TokenCommand /\ m.pc \notin HoldsBalance
  <2>1. Quiet \in TokenCommand
    BY DEF Quiet, TokenCommand, Someone, NoBalance, Balance, Plan
  <2> QED BY <1>2, <2>1 DEF TokenCommand, HoldsBalance
<1>4. BalancesHeld'
  <2> HIDE DEF m
  <2> QED BY <1>1, <1>3, MoveKeeps DEF TokenInv, m
<1> QED BY <1>4 DEF TokenInv, BalancesInMemory, BalanceOnDisk, AccountsNamed, BeginTokens, AllQuiet

LEMMA AccountKeeps ==
    ASSUME TokenInv, NEW c \in TokenClient, get_account_id(c)
    PROVE  TokenInv'
<1>1. command[c] \in TokenCommand /\ c \in Someone /\ accountId \in Someone /\ accountFile \in Someone
  BY DEF TokenInv, BalancesHeld, AccountsNamed, Someone, Account
<1>2. \A a \in Someone, p \in {"balance", "newAccount", "setAccount"} :
        /\ [command[c] EXCEPT !.account = a, !.pc = p] \in TokenCommand
        /\ [command[c] EXCEPT !.account = a, !.pc = p].pc \notin HoldsBalance
        /\ [command[c] EXCEPT !.pc = p] \in TokenCommand
        /\ [command[c] EXCEPT !.pc = p].pc \notin HoldsBalance
  BY <1>1 DEF TokenCommand, HoldsBalance
<1>3. \/ Return(c)
      \/ \E a \in Someone : Move(c, [command[c] EXCEPT !.account = a, !.pc = "balance"])
      \/ \E p \in {"newAccount", "setAccount"} : Move(c, [command[c] EXCEPT !.pc = p])
  BY <1>1 DEF get_account_id, MoveTo
<1>4. BalancesHeld'
  <2>1. CASE Return(c)
    BY <2>1, ReturnKeeps DEF TokenInv
  <2>2. ASSUME NEW a \in Someone, Move(c, [command[c] EXCEPT !.account = a, !.pc = "balance"]) PROVE BalancesHeld'
    <3> DEFINE m == [command[c] EXCEPT !.account = a, !.pc = "balance"]
    <3>1. m \in TokenCommand /\ m.pc \notin HoldsBalance /\ Move(c, m)
      BY <1>2, <2>2
    <3> HIDE DEF m
    <3> QED BY <3>1, MoveKeeps DEF TokenInv
  <2>3. ASSUME NEW p \in {"newAccount", "setAccount"}, Move(c, [command[c] EXCEPT !.pc = p]) PROVE BalancesHeld'
    <3> DEFINE m == [command[c] EXCEPT !.pc = p]
    <3>1. m \in TokenCommand /\ m.pc \notin HoldsBalance /\ Move(c, m)
      BY <1>1, <1>2, <2>3
    <3> HIDE DEF m
    <3> QED BY <3>1, MoveKeeps DEF TokenInv
  <2> QED BY <1>3, <2>1, <2>2, <2>3
<1>5. AccountsNamed'
  BY <1>1 DEF TokenInv, AccountsNamed, get_account_id, Kept
<1> QED BY <1>4, <1>5 DEF TokenInv, BalancesInMemory, BalanceOnDisk, get_account_id, Kept

(* Taking a copy of a sound balance, reset where it is due.                    *)
LEMMA HoldKeeps ==
    ASSUME TokenInv, NEW c \in TokenClient, NEW b, SoundBalance(b), NEW pc \in HoldsBalance, Hold(c, b, pc)
    PROVE  BalancesHeld'
<1> DEFINE h == check_and_reset_balance(b)
           r == [command[c] EXCEPT !.held = h, !.fresh = NeedsReset(b), !.pc = pc]
<1>1. SoundBalance(h)
  BY FreshSound DEF TokenInv, AccountsNamed
<1>2. NeedsReset(b) \in BOOLEAN
  BY DEF NeedsReset
<1>3. command[c] \in TokenCommand
  BY DEF TokenInv, BalancesHeld
<1>4. r \in TokenCommand /\ r.held = h
  <2> HIDE DEF h
  <2> QED BY <1>1, <1>2, <1>3 DEF TokenCommand, HoldsBalance, SoundBalance
<1>5. Move(c, r)
  BY DEF Hold
<1> HIDE DEF r, h
<1> QED BY <1>1, <1>4, <1>5, MoveKeeps DEF TokenInv

LEMMA InitKeeps ==
    ASSUME TokenInv, NEW c \in TokenClient, get_or_init_token_balance(c)
    PROVE  TokenInv'
<1>1. BalanceOnDisk' /\ AccountsNamed' /\ accountId \in Someone
  BY DEF TokenInv, BalanceOnDisk, AccountsNamed, get_or_init_token_balance, Kept
<1>2. CASE On_(c, "balance") /\ accountId \in DOMAIN balances
  <2>1. Hold(c, balances[accountId], "apply") /\ UNCHANGED balances
    BY <1>2 DEF get_or_init_token_balance, On_
  <2>2. BalancesHeld'
    BY <1>2, <2>1, HoldKeeps DEF TokenInv, BalancesInMemory, HoldsBalance
  <2> QED BY <1>1, <2>1, <2>2 DEF TokenInv, BalancesInMemory
<1>3. CASE On_(c, "balance") /\ accountId \notin DOMAIN balances
  <2> DEFINE f == initialize_free_tier_balance
             made == [command[c] EXCEPT !.held = f, !.fresh = TRUE, !.pc = "saveNew"]
  <2>1. /\ UNCHANGED balances
        /\ \/ Return(c)
           \/ tokensFile.state = "saved" /\ Hold(c, tokensFile.balance, "loaded")
           \/ Move(c, made)
    BY <1>3 DEF get_or_init_token_balance, On_
  <2>2. SoundBalance(f)
    BY FreshSound DEF TokenInv, AccountsNamed
  <2>3. command[c] \in TokenCommand
    BY DEF TokenInv, BalancesHeld
  <2>4. made \in TokenCommand /\ made.held = f
    <3> HIDE DEF f
    <3> QED BY <2>2, <2>3 DEF TokenCommand, SoundBalance
  <2>5. BalancesHeld'
    <3> HIDE DEF f, made
    <3>1. CASE Return(c)
      BY <3>1, ReturnKeeps DEF TokenInv
    <3>2. CASE tokensFile.state = "saved" /\ Hold(c, tokensFile.balance, "loaded")
      BY <3>2, HoldKeeps DEF TokenInv, BalanceOnDisk, HoldsBalance
    <3>3. CASE Move(c, made)
      BY <2>2, <2>4, <3>3, MoveKeeps DEF TokenInv
    <3> QED BY <2>1, <3>1, <3>2, <3>3
  <2> QED BY <1>1, <2>1, <2>5 DEF TokenInv, BalancesInMemory
<1>4. CASE On_(c, "loaded") \/ On_(c, "cacheNew")
  <2>1. /\ command[c].pc \in HoldsBalance
        /\ balances' = With(balances, accountId, command[c].held)
        /\ MoveTo(c, "saveLoaded") \/ MoveTo(c, "apply")
    BY <1>4 DEF get_or_init_token_balance, On_, HoldsBalance
  <2>2. SoundBalance(command[c].held)
    BY <2>1 DEF TokenInv, BalancesHeld
  <2>3. BalancesInMemory'
    BY <1>1, <2>1, <2>2, StoreSound DEF TokenInv, BalancesInMemory
  <2>4. BalancesHeld'
    BY <2>1, MoveToKeeps DEF TokenInv, HoldsBalance
  <2> QED BY <1>1, <2>3, <2>4 DEF TokenInv
<1> QED BY <1>2, <1>3, <1>4 DEF get_or_init_token_balance

(* A copy that is written to the file is sound, and so is what the file keeps   *)
(* when the write fails.                                                      *)
LEMMA SaveKeeps ==
    ASSUME TokenInv, NEW c \in TokenClient, save_token_balance(c)
    PROVE  TokenInv'
<1>1. command[c].pc \in HoldsBalance /\ command[c] \in TokenCommand /\ SoundBalance(command[c].held)
  BY DEF TokenInv, BalancesHeld, save_token_balance, HoldsBalance
<1>2. BalancesInMemory' /\ AccountsNamed'
  BY DEF TokenInv, BalancesInMemory, AccountsNamed, save_token_balance, Kept
<1>3. BalancesHeld'
  <2>1. Return(c) \/ MoveTo(c, "apply") \/ MoveTo(c, "cacheNew")
    BY DEF save_token_balance, On_
  <2> QED BY <1>1, <2>1, ReturnKeeps, MoveToKeeps DEF TokenInv, HoldsBalance
<1>4. BalanceOnDisk'
  <2>1. command[c].account \in Someone /\ accountId \in Someone
    BY <1>1 DEF TokenInv, AccountsNamed, TokenCommand
  <2>2. CASE UNCHANGED tokensFile
    BY <2>2 DEF TokenInv, BalanceOnDisk
  <2>3. CASE \E a \in Someone : tokensFile' = Saved(a, command[c].held)
    BY <1>1, <2>3 DEF BalanceOnDisk, Saved, SoundBalance
  <2> QED BY <2>1, <2>2, <2>3 DEF save_token_balance
<1> QED BY <1>2, <1>3, <1>4 DEF TokenInv

(* A changed copy goes to memory and stays with the command until it is saved.  *)
LEMMA StoreKeeps ==
    ASSUME TokenInv, NEW c \in TokenClient, NEW b, SoundBalance(b), NEW n \in Int, Store(c, b, n)
    PROVE  BalancesHeld' /\ BalancesInMemory' /\ ledger' \in Int
<1> DEFINE r == [command[c] EXCEPT !.held = b, !.pc = "save"]
<1>1. command[c] \in TokenCommand /\ command[c].account \in Someone
  BY DEF TokenInv, BalancesHeld, TokenCommand
<1>2. r \in TokenCommand /\ r.held = b
  BY <1>1 DEF TokenCommand, SoundBalance
<1>3. BalancesHeld'
  <2>1. Move(c, r)
    BY DEF Store
  <2> HIDE DEF r
  <2> QED BY <1>2, <2>1, MoveKeeps DEF TokenInv
<1>4. BalancesInMemory'
  BY <1>1, StoreSound DEF TokenInv, BalancesInMemory, Store
<1> QED BY <1>3, <1>4 DEF TokenInv, AccountsNamed, Store

LEMMA ApplyKeeps ==
    ASSUME TokenInv, NEW c \in TokenClient, Apply(c)
    PROVE  TokenInv'
<1> DEFINE b == command[c].held
<1>1. BalanceOnDisk' /\ accountId' \in Someone /\ accountFile' \in Someone /\ today' \in Nat /\ tokenCalls' \in Nat
      /\ mixed' \in BOOLEAN
  BY DEF TokenInv, BalanceOnDisk, AccountsNamed, Apply, Kept
<1>2. CASE Return(c) /\ UNCHANGED <<balances, ledger>>
  BY <1>1, <1>2, ReturnKeeps DEF TokenInv, BalancesInMemory, AccountsNamed
<1>3. ASSUME NEW v, SoundBalance(v), NEW n \in Int, Store(c, v, n) PROVE TokenInv'
  BY <1>1, <1>3, StoreKeeps DEF TokenInv, AccountsNamed
<1>4. CASE On_(c, "apply")
  <2>1. SoundBalance(b) /\ command[c].n \in Int /\ command[c].plan \in Plan /\ today \in Nat
    BY <1>4 DEF TokenInv, BalancesHeld, TokenCommand, On_, HoldsBalance, AccountsNamed
  <2>2. \/ Return(c) /\ UNCHANGED <<balances, ledger>>
        \/ b.total # Unlimited /\ Store(c, Consumed(b, command[c].n), command[c].n)
        \/ Store(c, Purchased(b, command[c].plan), 0)
    BY DEF Apply, get_token_balance, consume_tokens, purchase_token_plan
  <2>3. /\ b.total # Unlimited => SoundBalance(Consumed(b, command[c].n))
        /\ SoundBalance(Purchased(b, command[c].plan))
    BY <2>1, ChangedSound
  <2> HIDE DEF b
  <2> QED BY <1>2, <1>3, <2>1, <2>2, <2>3
<1> QED BY <1>4 DEF Apply, get_token_balance, consume_tokens, purchase_token_plan

(* The invariant holds in every reachable state.                              *)
THEOREM TokenInductive == TokenSpec => []TokenInv
<1>1. TokenInit => TokenInv
  <2> SUFFICES ASSUME TokenInit PROVE TokenInv
    OBVIOUS
  <2>1. NoBalance \in Balance /\ NoAccount \in Someone
    BY DEF NoBalance, Balance, Plan, Someone
  <2>2. BalancesHeld
    BY <2>1 DEF TokenInit, BalancesHeld, Quiet, TokenCommand, HoldsBalance, Plan
  <2>3. BalanceOnDisk
    BY <2>1 DEF TokenInit, BalanceOnDisk, NoTokens
  <2>4. BalancesInMemory
    BY DEF TokenInit, BalancesInMemory
  <2>5. AccountsNamed
    <3>1. mixed \in BOOLEAN
      BY Zenon DEF TokenInit
    <3> QED BY <2>1, <3>1 DEF TokenInit, AccountsNamed
  <2> QED BY <2>2, <2>3, <2>4, <2>5 DEF TokenInv
<1>2. TokenInv /\ [TokenNext]_tokenVars => TokenInv'
  <2> SUFFICES ASSUME TokenInv, [TokenNext]_tokenVars PROVE TokenInv'
    OBVIOUS
  <2>1. CASE StopTokens
    <3>1. BalancesHeld'
      BY <2>1 DEF StopTokens, BalancesHeld, Quiet, TokenCommand, HoldsBalance, Someone, NoBalance, Balance, Plan
    <3>2. BalancesInMemory'
      BY <2>1 DEF StopTokens, BalancesInMemory
    <3>3. BalanceOnDisk'
      BY <2>1 DEF TokenInv, StopTokens, BalanceOnDisk, TornTokens, Someone, NoBalance, Balance, Plan
    <3>4. AccountsNamed'
      BY <2>1 DEF TokenInv, StopTokens, AccountsNamed, Someone, AllQuiet
    <3> QED BY <3>1, <3>2, <3>3, <3>4 DEF TokenInv
  <2>2. CASE Tick
    BY <2>2 DEF TokenInv, Tick, BalancesHeld, BalancesInMemory, BalanceOnDisk, AccountsNamed
  <2>3. ASSUME NEW c \in TokenClient,
               BeginTokens(c) \/ get_account_id(c) \/ get_or_init_token_balance(c) \/ save_token_balance(c) \/ Apply(c)
        PROVE  TokenInv'
    BY <2>3, BeginKeeps, AccountKeeps, InitKeeps, SaveKeeps, ApplyKeeps
  <2>4. CASE UNCHANGED tokenVars
    BY <2>4 DEF TokenInv, tokenVars, BalancesHeld, BalancesInMemory, BalanceOnDisk, AccountsNamed
  <2> QED BY <2>1, <2>2, <2>3, <2>4 DEF TokenNext
<1> QED BY <1>1, <1>2, PTL DEF TokenSpec

(* A balance is never at odds with itself, whichever commands overlap, fail or  *)
(* are cut off by a restart, for any number of commands and accounts.           *)
THEOREM BalancesCorrect == TokenSpec => []BalancesConsistent
BY InvIsConsistent, TokenInductive, PTL
-----------------------------------------------------------------------------
(* The grants.  While commands neither overlap nor fail, one command runs at a  *)
(* time, and where it stands tells how memory, file and its copy differ.        *)
CommandRuns(c) == command[c].cmd # "none"
OneCommand == \A c, d \in TokenClient : CommandRuns(c) /\ CommandRuns(d) => c = d
LedgerInMemory == accountId \in DOMAIN balances => balances[accountId].used = ledger
InFile   == tokensFile.state = "saved" => tokensFile.balance.used = ledger

(* The account in memory is the one of the files; the file of the balance is    *)
(* written for it, whole.                                                     *)
AccountNames == /\ tokensFile.state # "torn"
                /\ tokensFile.state = "saved" => tokensFile.account = accountFile /\ accountFile # NoAccount
                /\ accountId # NoAccount => accountId = accountFile
                /\ accountId = NoAccount => DOMAIN balances = {}

\* What the ledger will say once the reset of the copy is stored.
UsedDue(c) == IF command[c].fresh THEN 0 ELSE ledger
BalanceStored(c) == accountId \in DOMAIN balances /\ balances[accountId].used = ledger /\ command[c].held.used = ledger

GrantPhase(c) ==
         /\ command[c].pc \in {"account", "newAccount", "setAccount", "balance", "apply"} => LedgerInMemory /\ InFile
         /\ command[c].pc = "newAccount" => accountId = NoAccount /\ accountFile = NoAccount
         /\ command[c].pc = "setAccount" => accountId = NoAccount /\ accountFile = c /\ tokensFile.state # "saved"
         /\ command[c].pc \in {"balance", "loaded", "saveLoaded", "saveNew", "cacheNew", "apply", "save"}
               => command[c].account = accountId /\ accountId # NoAccount
         /\ command[c].pc \in {"loaded", "saveNew", "cacheNew"} => accountId \notin DOMAIN balances
         /\ command[c].pc \in {"loaded", "apply"} => command[c].held.used = UsedDue(c)
         /\ command[c].pc \in {"saveLoaded", "save"} => BalanceStored(c)
         /\ command[c].pc = "saveLoaded" => (command[c].fresh => ledger = 0)
         /\ command[c].pc \in {"saveNew", "cacheNew"} => command[c].fresh /\ command[c].held.used = 0
         /\ command[c].pc = "cacheNew" => tokensFile.state = "saved" /\ tokensFile.balance.used = 0

GrantInv == /\ \A c \in TokenClient : command[c].pc # "idle" => CommandRuns(c)
            /\ ~mixed => /\ OneCommand /\ AccountNames
                         /\ AllQuiet => LedgerInMemory /\ InFile
                         /\ \A c \in TokenClient : CommandRuns(c) => GrantPhase(c)
(* A running command goes on or returns: the others stay quiet.               *)
LEMMA GrantMove ==
    ASSUME TokenInv, GrantInv, NEW c \in TokenClient, command[c].pc # "idle", NEW r \in TokenCommand,
           Move(c, r), r.pc # "idle" => r.cmd # "none",
           ~mixed' => /\ ~mixed /\ AccountNames'
                      /\ r.cmd = "none" => LedgerInMemory' /\ InFile'
                      /\ r.cmd # "none" => GrantPhase(c)'
    PROVE  GrantInv'
<1>1. /\ command'[c] = r /\ \A d \in TokenClient : d # c => command'[d] = command[d]
  BY DEF Move, TokenInv, BalancesHeld
<1>2. \A d \in TokenClient : command'[d].pc # "idle" => CommandRuns(d)'
  BY <1>1 DEF GrantInv, CommandRuns
<1>3. ASSUME ~mixed' PROVE /\ OneCommand'
                           /\ AllQuiet' => LedgerInMemory' /\ InFile'
                           /\ \A d \in TokenClient : CommandRuns(d)' => GrantPhase(d)'
  <2>1. \A d \in TokenClient : d # c => ~CommandRuns(d)
    BY <1>3 DEF GrantInv, OneCommand, CommandRuns
  <2>2. \A d \in TokenClient : d # c => ~CommandRuns(d)'
    BY <1>1, <2>1 DEF CommandRuns
  <2>3. CommandRuns(c)' <=> r.cmd # "none"
    BY <1>1 DEF CommandRuns
  <2>4. AllQuiet' => r.cmd = "none"
    BY <1>1 DEF AllQuiet
  <2> QED BY <1>3, <2>2, <2>3, <2>4 DEF OneCommand
<1> QED BY <1>2, <1>3 DEF GrantInv

(* What the invariant says of the one command that runs.                      *)
LEMMA RunningPhase ==
    ASSUME TokenInv, GrantInv, NEW c \in TokenClient, command[c].pc # "idle"
    PROVE  /\ command[c] \in TokenCommand /\ command[c].cmd # "none"
           /\ ~mixed => AccountNames /\ GrantPhase(c)
BY DEF TokenInv, BalancesHeld, GrantInv, CommandRuns

(* A failed step says nothing: it is mixed from then on.                      *)
LEMMA FailedMove ==
    ASSUME TokenInv, GrantInv, NEW c \in TokenClient, command[c].pc # "idle", Return(c), mixed'
    PROVE  GrantInv'
<1>1. Quiet \in TokenCommand /\ Quiet.pc = "idle" /\ Quiet.cmd = "none"
  BY DEF Quiet, TokenCommand, Someone, NoBalance, Balance, Plan
<1>2. Move(c, Quiet)
  BY DEF Return
<1> QED BY <1>1, <1>2, GrantMove

LEMMA AccountGranted ==
    ASSUME TokenInv, GrantInv, NEW c \in TokenClient, get_account_id(c)
    PROVE  GrantInv'
<1>0. command[c].pc \in {"account", "newAccount", "setAccount"}
      /\ UNCHANGED <<balances, tokensFile, ledger>>
  BY DEF get_account_id, On_
<1>1. /\ command[c] \in TokenCommand /\ command[c].cmd # "none"
      /\ ~mixed => AccountNames /\ GrantPhase(c)
  BY <1>0, RunningPhase
<1>2. c \in Someone /\ accountId \in Someone /\ accountFile \in Someone /\ c # NoAccount
  BY ClientAssumption DEF TokenInv, AccountsNamed, Someone, Account
<1>3. \A r : Move(c, r) => command'[c] = r
  BY DEF Move, TokenInv, BalancesHeld
<1>4. ASSUME NEW p \in {"newAccount", "setAccount"}, NEW r, r = [command[c] EXCEPT !.pc = p]
      PROVE  /\ r \in TokenCommand /\ r.cmd = command[c].cmd /\ r.pc = p
             /\ Move(c, r) => command'[c] = r
  <2>1. r \in TokenCommand /\ r.cmd = command[c].cmd /\ r.pc = p
    BY <1>1, <1>4 DEF TokenCommand
  <2> QED BY <2>1 DEF Move, TokenInv, BalancesHeld
<1>5. CASE On_(c, "account") /\ accountId # NoAccount
  <2>1. PICK r : r = [command[c] EXCEPT !.account = accountId, !.pc = "balance"]
    OBVIOUS
  <2>2. Move(c, r) /\ UNCHANGED <<accountId, accountFile, mixed>> /\ command[c].pc = "account"
    BY <1>5, <2>1 DEF get_account_id, On_
  <2>3. r \in TokenCommand /\ r.cmd # "none" /\ r.pc = "balance" /\ r.account = accountId /\ command'[c] = r
    <3>1. r \in TokenCommand /\ r.cmd = command[c].cmd /\ r.pc = "balance"
      BY <1>1, <1>2, <2>1 DEF TokenCommand
    <3>2. r.account = accountId'
      BY <1>1, <2>1, <2>2 DEF TokenCommand
    <3> QED BY <1>1, <1>3, <2>2, <3>1, <3>2
  <2>4. ASSUME ~mixed' PROVE ~mixed /\ AccountNames' /\ GrantPhase(c)'
    <3>1. AccountNames /\ LedgerInMemory /\ InFile
      BY <1>1, <2>2, <2>4 DEF GrantPhase
    <3>2. AccountNames' /\ LedgerInMemory' /\ InFile'
      BY <1>0, <2>2, <3>1 DEF AccountNames, LedgerInMemory, InFile
    <3> QED BY <1>5, <2>2, <2>3, <2>4, <3>2 DEF GrantPhase
  <2> QED BY <1>0, <2>2, <2>3, <2>4, GrantMove
<1>6. CASE On_(c, "account") /\ accountId = NoAccount /\ accountFile # NoAccount
  <2>1. PICK r : r = [command[c] EXCEPT !.account = accountFile, !.pc = "balance"]
    OBVIOUS
  <2>2. Move(c, r) /\ accountId' = accountFile /\ UNCHANGED <<accountFile, mixed>> /\ command[c].pc = "account"
    BY <1>6, <2>1 DEF get_account_id, On_
  <2>3. r \in TokenCommand /\ r.cmd # "none" /\ r.pc = "balance" /\ r.account = accountId' /\ command'[c] = r
    <3>1. r \in TokenCommand /\ r.cmd = command[c].cmd /\ r.pc = "balance"
      BY <1>1, <1>2, <2>1 DEF TokenCommand
    <3>2. r.account = accountId'
      BY <1>1, <2>1, <2>2 DEF TokenCommand
    <3> QED BY <1>1, <1>3, <2>2, <3>1, <3>2
  <2>4. ASSUME ~mixed' PROVE ~mixed /\ AccountNames' /\ GrantPhase(c)'
    <3>1. AccountNames /\ InFile
      BY <1>1, <2>2, <2>4 DEF GrantPhase
    <3>2. AccountNames' /\ LedgerInMemory' /\ InFile'
      BY <1>0, <1>6, <2>2, <3>1 DEF AccountNames, LedgerInMemory, InFile
    <3> QED BY <1>6, <2>2, <2>3, <2>4, <3>2 DEF GrantPhase
  <2> QED BY <1>0, <2>2, <2>3, <2>4, GrantMove
<1>7. CASE On_(c, "account") /\ accountId = NoAccount /\ accountFile = NoAccount
  <2>1. PICK r : r = [command[c] EXCEPT !.pc = "newAccount"]
    OBVIOUS
  <2>2. Move(c, r) /\ UNCHANGED <<accountId, accountFile, mixed>> /\ command[c].pc = "account"
    BY <1>7, <2>1 DEF get_account_id, On_, MoveTo
  <2>3. r \in TokenCommand /\ r.cmd # "none" /\ r.pc = "newAccount" /\ command'[c] = r
    BY <1>1, <1>4, <2>1, <2>2
  <2>4. ASSUME ~mixed' PROVE ~mixed /\ AccountNames' /\ GrantPhase(c)'
    <3>1. AccountNames /\ LedgerInMemory /\ InFile
      BY <1>1, <2>2, <2>4 DEF GrantPhase
    <3>2. AccountNames' /\ LedgerInMemory' /\ InFile'
      BY <1>0, <2>2, <3>1 DEF AccountNames, LedgerInMemory, InFile
    <3> QED BY <1>7, <2>2, <2>3, <2>4, <3>2 DEF GrantPhase
  <2> QED BY <1>0, <2>2, <2>3, <2>4, GrantMove
<1>8. CASE On_(c, "newAccount") /\ accountFile' = c /\ MoveTo(c, "setAccount") /\ UNCHANGED <<accountId, mixed>>
  <2>1. PICK r : r = [command[c] EXCEPT !.pc = "setAccount"]
    OBVIOUS
  <2>2. Move(c, r) /\ command[c].pc = "newAccount"
    BY <1>8, <2>1 DEF On_, MoveTo
  <2>3. r \in TokenCommand /\ r.cmd # "none" /\ r.pc = "setAccount" /\ command'[c] = r
    BY <1>1, <1>4, <2>1, <2>2
  <2>4. ASSUME ~mixed' PROVE ~mixed /\ AccountNames' /\ GrantPhase(c)'
    <3>1. AccountNames /\ accountId = NoAccount /\ accountFile = NoAccount
      BY <1>1, <1>8, <2>2, <2>4 DEF GrantPhase
    <3>2. tokensFile'.state # "saved" /\ DOMAIN balances' = {} /\ AccountNames'
      BY <1>0, <1>8, <3>1 DEF AccountNames
    <3>3. LedgerInMemory' /\ InFile'
      BY <3>2 DEF LedgerInMemory, InFile
    <3> QED BY <1>8, <2>3, <2>4, <3>1, <3>2, <3>3 DEF GrantPhase
  <2> QED BY <1>0, <2>2, <2>3, <2>4, GrantMove
<1>9. CASE On_(c, "newAccount") /\ Return(c) /\ mixed' = TRUE
  BY <1>0, <1>9, FailedMove
<1>10. CASE On_(c, "setAccount")
  <2>1. PICK r : r = [command[c] EXCEPT !.account = c, !.pc = "balance"]
    OBVIOUS
  <2>2. Move(c, r) /\ accountId' = c /\ UNCHANGED <<accountFile, mixed>> /\ command[c].pc = "setAccount"
    BY <1>10, <2>1 DEF get_account_id, On_
  <2>3. r \in TokenCommand /\ r.cmd # "none" /\ r.pc = "balance" /\ r.account = accountId' /\ command'[c] = r
    <3>1. r \in TokenCommand /\ r.cmd = command[c].cmd /\ r.pc = "balance"
      BY <1>1, <1>2, <2>1 DEF TokenCommand
    <3>2. r.account = accountId'
      BY <1>1, <2>1, <2>2 DEF TokenCommand
    <3> QED BY <1>1, <1>3, <2>2, <3>1, <3>2
  <2>4. ASSUME ~mixed' PROVE ~mixed /\ AccountNames' /\ GrantPhase(c)'
    <3>1. AccountNames /\ accountId = NoAccount /\ accountFile = c /\ tokensFile.state # "saved"
      BY <1>1, <2>2, <2>4 DEF GrantPhase
    <3>2. AccountNames' /\ LedgerInMemory' /\ InFile'
      BY <1>0, <1>2, <2>2, <3>1 DEF AccountNames, LedgerInMemory, InFile
    <3> QED BY <1>2, <2>2, <2>3, <2>4, <3>2 DEF GrantPhase
  <2> QED BY <1>0, <2>2, <2>3, <2>4, GrantMove
<1> QED BY <1>5, <1>6, <1>7, <1>8, <1>9, <1>10 DEF get_account_id
(* What is used is forgotten by a reset alone, and grows by what is consumed.  *)
LEMMA UsedKept ==
    ASSUME NEW b \in Balance
    PROVE  /\ check_and_reset_balance(b).used = IF NeedsReset(b) THEN 0 ELSE b.used
           /\ \A n \in Int : Consumed(b, n).used = b.used + n
           /\ \A p \in Plan : Purchased(b, p).used = b.used
BY DEF check_and_reset_balance, Consumed, Purchased, Balance

(* The copy of a balance that is taken, with the mark that it was reset.       *)
LEMMA HoldGives ==
    ASSUME TokenInv, NEW c \in TokenClient, NEW b, SoundBalance(b), NEW pc \in {"apply", "loaded"}, Hold(c, b, pc),
           command[c] \in TokenCommand
    PROVE  \E r \in TokenCommand : /\ Move(c, r) /\ command'[c] = r
                                   /\ r.pc = pc /\ r.cmd = command[c].cmd /\ r.account = command[c].account
                                   /\ r.fresh = NeedsReset(b)
                                   /\ r.held.used = IF r.fresh THEN 0 ELSE b.used
<1> DEFINE h == check_and_reset_balance(b)
           n == NeedsReset(b)
<1>1. SoundBalance(h) /\ n \in BOOLEAN
  BY FreshSound DEF TokenInv, AccountsNamed, NeedsReset
<1>2. h.used = IF n THEN 0 ELSE b.used
  BY UsedKept DEF SoundBalance
<1>3. PICK r : r = [command[c] EXCEPT !.held = h, !.fresh = n, !.pc = pc]
  OBVIOUS
<1>4. Move(c, r)
  BY <1>3 DEF Hold
<1>5. command'[c] = r
  BY <1>4 DEF Move, TokenInv, BalancesHeld
<1> HIDE DEF h, n
<1>6. r \in TokenCommand
  BY <1>1, <1>3 DEF TokenCommand, SoundBalance
<1>7. r.pc = pc /\ r.cmd = command[c].cmd /\ r.account = command[c].account /\ r.fresh = n /\ r.held = h
  BY <1>3 DEF TokenCommand
<1> QED BY <1>2, <1>4, <1>5, <1>6, <1>7 DEF n

LEMMA InitGranted ==
    ASSUME TokenInv, GrantInv, NEW c \in TokenClient, get_or_init_token_balance(c)
    PROVE  GrantInv'
<1>0. /\ command[c].pc \in {"balance", "loaded", "cacheNew"}
      /\ UNCHANGED <<tokensFile, accountId, accountFile, mixed>>
  BY DEF get_or_init_token_balance, On_
<1>1. /\ command[c] \in TokenCommand /\ command[c].cmd # "none"
      /\ ~mixed => AccountNames /\ GrantPhase(c)
  BY <1>0, RunningPhase
<1>2. \A r : Move(c, r) => command'[c] = r
  BY DEF Move, TokenInv, BalancesHeld
<1>3. CASE On_(c, "balance") /\ accountId \in DOMAIN balances
  <2>1. Hold(c, balances[accountId], "apply") /\ UNCHANGED <<balances, ledger>> /\ command[c].pc = "balance"
    BY <1>3 DEF get_or_init_token_balance, On_
  <2>2. SoundBalance(balances[accountId])
    BY <1>3 DEF TokenInv, BalancesInMemory
  <2>3. PICK r \in TokenCommand :
            /\ Move(c, r) /\ command'[c] = r
            /\ r.pc = "apply" /\ r.cmd = command[c].cmd /\ r.account = command[c].account
            /\ r.held.used = IF r.fresh THEN 0 ELSE balances[accountId].used
    BY <1>1, <2>1, <2>2, HoldGives
  <2>4. ASSUME ~mixed' PROVE ~mixed /\ AccountNames' /\ GrantPhase(c)'
    <3>1. AccountNames /\ LedgerInMemory /\ InFile /\ command[c].account = accountId /\ accountId # NoAccount
      BY <1>0, <1>1, <2>1, <2>4 DEF GrantPhase
    <3>2. AccountNames' /\ LedgerInMemory' /\ InFile'
      BY <1>0, <2>1, <3>1 DEF AccountNames, LedgerInMemory, InFile
    <3>3. r.held.used = IF r.fresh THEN 0 ELSE ledger
      BY <1>3, <2>3, <3>1 DEF LedgerInMemory
    <3>4. UsedDue(c)' = IF r.fresh THEN 0 ELSE ledger
      BY <2>1, <2>3 DEF UsedDue
    <3> QED BY <1>0, <2>3, <2>4, <3>1, <3>2, <3>3, <3>4 DEF GrantPhase
  <2> QED BY <1>0, <1>1, <2>3, <2>4, GrantMove
<1>4. CASE On_(c, "balance") /\ accountId \notin DOMAIN balances
  <2> DEFINE f == initialize_free_tier_balance
  <2>1. /\ UNCHANGED <<balances, ledger>> /\ command[c].pc = "balance"
        /\ \/ tokensFile.state = "torn" /\ Return(c)
           \/ tokensFile.state = "saved" /\ Hold(c, tokensFile.balance, "loaded")
           \/ Move(c, [command[c] EXCEPT !.held = f, !.fresh = TRUE, !.pc = "saveNew"])
    BY <1>4 DEF get_or_init_token_balance, On_
  <2>2. ASSUME ~mixed' PROVE /\ ~mixed /\ AccountNames /\ AccountNames' /\ InFile
                             /\ command[c].account = accountId /\ accountId # NoAccount
    <3>1. ~mixed /\ AccountNames /\ InFile /\ command[c].account = accountId /\ accountId # NoAccount
      BY <1>0, <1>1, <2>1, <2>2 DEF GrantPhase
    <3>2. AccountNames'
      BY <1>0, <2>1, <3>1 DEF AccountNames
    <3> QED BY <3>1, <3>2
  <2>3. CASE tokensFile.state = "torn" /\ Return(c)
    <3>1. mixed'
      BY <2>2, <2>3 DEF AccountNames
    <3> QED BY <1>0, <2>3, <3>1, FailedMove
  <2>4. CASE tokensFile.state = "saved" /\ Hold(c, tokensFile.balance, "loaded")
    <3>1. SoundBalance(tokensFile.balance)
      BY <2>4 DEF TokenInv, BalanceOnDisk
    <3>2. PICK r \in TokenCommand :
              /\ Move(c, r) /\ command'[c] = r
              /\ r.pc = "loaded" /\ r.cmd = command[c].cmd /\ r.account = command[c].account
              /\ r.held.used = IF r.fresh THEN 0 ELSE tokensFile.balance.used
      BY <1>1, <2>4, <3>1, HoldGives
    <3>3. ASSUME ~mixed' PROVE GrantPhase(c)'
      <4>1. r.held.used = IF r.fresh THEN 0 ELSE ledger
        BY <2>2, <2>4, <3>2, <3>3 DEF InFile
      <4>2. UsedDue(c)' = IF r.fresh THEN 0 ELSE ledger
        BY <2>1, <3>2 DEF UsedDue
      <4> QED BY <1>0, <1>4, <2>1, <2>2, <3>2, <3>3, <4>1, <4>2 DEF GrantPhase
    <3> QED BY <1>0, <1>1, <2>2, <3>2, <3>3, GrantMove
  <2>5. CASE Move(c, [command[c] EXCEPT !.held = f, !.fresh = TRUE, !.pc = "saveNew"])
    <3>1. PICK r : r = [command[c] EXCEPT !.held = f, !.fresh = TRUE, !.pc = "saveNew"]
      OBVIOUS
    <3>2. f \in Balance /\ f.used = 0
      <4>1. SoundBalance(f)
        BY FreshSound DEF TokenInv, AccountsNamed
      <4> QED BY <4>1 DEF SoundBalance, initialize_free_tier_balance
    <3>3. r \in TokenCommand /\ r.pc = "saveNew" /\ r.cmd = command[c].cmd /\ r.account = command[c].account
          /\ r.fresh = TRUE /\ r.held = f
      <4> HIDE DEF f
      <4> QED BY <1>1, <3>1, <3>2 DEF TokenCommand
    <3>4. Move(c, r) /\ command'[c] = r
      BY <1>2, <2>5, <3>1
    <3> HIDE DEF f
    <3>5. ASSUME ~mixed' PROVE GrantPhase(c)'
      BY <1>0, <1>4, <2>1, <2>2, <3>2, <3>3, <3>4, <3>5 DEF GrantPhase
    <3> QED BY <1>0, <1>1, <2>2, <3>3, <3>4, <3>5, GrantMove
  <2> QED BY <2>1, <2>3, <2>4, <2>5
<1>5. ASSUME NEW pc \in {"saveLoaded", "apply"}, MoveTo(c, pc)
      PROVE  \E r \in TokenCommand : /\ Move(c, r) /\ command'[c] = r /\ r.pc = pc /\ r.cmd = command[c].cmd
                                     /\ r.account = command[c].account /\ r.fresh = command[c].fresh
                                     /\ r.held = command[c].held
  <2>1. PICK r : r = [command[c] EXCEPT !.pc = pc]
    OBVIOUS
  <2>2. r \in TokenCommand /\ r.pc = pc /\ r.cmd = command[c].cmd
        /\ r.account = command[c].account /\ r.fresh = command[c].fresh /\ r.held = command[c].held
    BY <1>1, <2>1 DEF TokenCommand
  <2> QED BY <1>2, <1>5, <2>1, <2>2 DEF MoveTo
<1>6. CASE On_(c, "loaded")
  <2>1. /\ balances' = With(balances, accountId, command[c].held) /\ MoveTo(c, "saveLoaded")
        /\ ledger' = UsedDue(c) /\ command[c].pc = "loaded"
    BY <1>6 DEF get_or_init_token_balance, On_, UsedDue
  <2>2. PICK r \in TokenCommand : /\ Move(c, r) /\ command'[c] = r /\ r.pc = "saveLoaded" /\ r.cmd = command[c].cmd
                                  /\ r.account = command[c].account /\ r.fresh = command[c].fresh
                                  /\ r.held = command[c].held
    BY <1>5, <2>1
  <2>3. accountId \in DOMAIN balances' /\ balances'[accountId] = command[c].held
    BY <2>1 DEF With
  <2>4. ASSUME ~mixed' PROVE ~mixed /\ AccountNames' /\ GrantPhase(c)'
    <3>1. AccountNames /\ command[c].account = accountId /\ accountId # NoAccount /\ command[c].held.used = UsedDue(c)
      BY <1>0, <1>1, <2>1, <2>4 DEF GrantPhase
    <3>2. AccountNames'
      BY <1>0, <3>1 DEF AccountNames
    <3>3. BalanceStored(c)' /\ (r.fresh => ledger' = 0)
      BY <1>0, <2>1, <2>2, <2>3, <3>1 DEF BalanceStored, UsedDue
    <3> QED BY <1>0, <2>2, <2>4, <3>1, <3>2, <3>3 DEF GrantPhase
  <2> QED BY <1>0, <1>1, <2>2, <2>4, GrantMove
<1>7. CASE On_(c, "cacheNew")
  <2>1. /\ balances' = With(balances, accountId, command[c].held) /\ MoveTo(c, "apply")
        /\ ledger' = 0 /\ command[c].pc = "cacheNew"
    BY <1>7 DEF get_or_init_token_balance, On_
  <2>2. PICK r \in TokenCommand : /\ Move(c, r) /\ command'[c] = r /\ r.pc = "apply" /\ r.cmd = command[c].cmd
                                  /\ r.account = command[c].account /\ r.fresh = command[c].fresh
                                  /\ r.held = command[c].held
    BY <1>5, <2>1
  <2>3. accountId \in DOMAIN balances' /\ balances'[accountId] = command[c].held
    BY <2>1 DEF With
  <2>4. ASSUME ~mixed' PROVE ~mixed /\ AccountNames' /\ GrantPhase(c)'
    <3>1. /\ AccountNames /\ command[c].account = accountId /\ accountId # NoAccount
          /\ command[c].held.used = 0 /\ tokensFile.balance.used = 0
      BY <1>0, <1>1, <2>1, <2>4 DEF GrantPhase
    <3>2. AccountNames' /\ LedgerInMemory' /\ InFile'
      BY <1>0, <2>1, <2>3, <3>1 DEF AccountNames, LedgerInMemory, InFile
    <3>3. UsedDue(c)' = 0
      BY <2>1 DEF UsedDue
    <3> QED BY <1>0, <2>2, <2>4, <3>1, <3>2, <3>3 DEF GrantPhase
  <2> QED BY <1>0, <1>1, <2>2, <2>4, GrantMove
<1> QED BY <1>3, <1>4, <1>6, <1>7 DEF get_or_init_token_balance
LEMMA SaveGranted ==
    ASSUME TokenInv, GrantInv, NEW c \in TokenClient, save_token_balance(c)
    PROVE  GrantInv'
<1>0. /\ command[c].pc \in {"saveLoaded", "saveNew", "save"}
      /\ UNCHANGED <<balances, accountId, accountFile, ledger>>
  BY DEF save_token_balance
<1>1. /\ command[c] \in TokenCommand /\ command[c].cmd # "none"
      /\ ~mixed => AccountNames /\ GrantPhase(c)
  BY <1>0, RunningPhase
<1>2. ASSUME NEW pc \in {"cacheNew", "apply"}, MoveTo(c, pc)
      PROVE  \E r \in TokenCommand : /\ Move(c, r) /\ command'[c] = r /\ r.pc = pc /\ r.cmd = command[c].cmd
                                     /\ r.account = command[c].account /\ r.fresh = command[c].fresh
                                     /\ r.held = command[c].held
  <2>1. PICK r : r = [command[c] EXCEPT !.pc = pc]
    OBVIOUS
  <2>2. r \in TokenCommand /\ r.pc = pc /\ r.cmd = command[c].cmd
        /\ r.account = command[c].account /\ r.fresh = command[c].fresh /\ r.held = command[c].held
    BY <1>1, <2>1 DEF TokenCommand
  <2>3. Move(c, r)
    BY <1>2, <2>1 DEF MoveTo
  <2>4. command'[c] = r
    BY <2>3 DEF Move, TokenInv, BalancesHeld
  <2> QED BY <2>2, <2>3, <2>4
<1>3. CASE Return(c) /\ mixed' = TRUE
  BY <1>0, <1>3, FailedMove
<1>4. CASE /\ tokensFile' = Saved(IF On_(c, "save") THEN command[c].account ELSE accountId, command[c].held)
           /\ UNCHANGED mixed
           /\ CASE On_(c, "saveLoaded") -> MoveTo(c, "apply") [] On_(c, "saveNew") -> MoveTo(c, "cacheNew")
                [] On_(c, "save") -> Return(c)
  <2>1. ASSUME ~mixed' PROVE /\ ~mixed /\ AccountNames' /\ GrantPhase(c)
                             /\ command[c].account = accountId /\ accountId # NoAccount
                             /\ tokensFile'.state = "saved" /\ tokensFile'.balance = command[c].held
    <3>1. ~mixed /\ AccountNames /\ GrantPhase(c) /\ command[c].account = accountId /\ accountId # NoAccount
      BY <1>0, <1>1, <1>4, <2>1 DEF GrantPhase
    <3>2. /\ tokensFile'.state = "saved" /\ tokensFile'.account = accountId
          /\ tokensFile'.balance = command[c].held
      BY <1>4, <3>1 DEF Saved
    <3>3. AccountNames'
      BY <1>0, <3>1, <3>2 DEF AccountNames
    <3> QED BY <3>1, <3>2, <3>3
  <2>2. CASE command[c].pc = "saveLoaded"
    <3>1. PICK r \in TokenCommand : /\ Move(c, r) /\ command'[c] = r /\ r.pc = "apply" /\ r.cmd = command[c].cmd
                                    /\ r.account = command[c].account /\ r.fresh = command[c].fresh
                                    /\ r.held = command[c].held
      BY <1>2, <1>4, <2>2 DEF On_
    <3>2. ASSUME ~mixed' PROVE GrantPhase(c)'
      <4>1. BalanceStored(c) /\ (command[c].fresh => ledger = 0)
        BY <2>1, <2>2, <3>2 DEF GrantPhase
      <4>2. LedgerInMemory' /\ InFile'
        BY <1>0, <2>1, <3>2, <4>1 DEF BalanceStored, LedgerInMemory, InFile
      <4>3. r.held.used = UsedDue(c)'
        BY <1>0, <3>1, <4>1 DEF BalanceStored, UsedDue
      <4> QED BY <1>0, <2>1, <3>1, <3>2, <4>2, <4>3 DEF GrantPhase
    <3> QED BY <1>0, <1>1, <2>1, <3>1, <3>2, GrantMove
  <2>3. CASE command[c].pc = "saveNew"
    <3>1. PICK r \in TokenCommand : /\ Move(c, r) /\ command'[c] = r /\ r.pc = "cacheNew" /\ r.cmd = command[c].cmd
                                    /\ r.account = command[c].account /\ r.fresh = command[c].fresh
                                    /\ r.held = command[c].held
      BY <1>2, <1>4, <2>3 DEF On_
    <3>2. ASSUME ~mixed' PROVE GrantPhase(c)'
      <4>1. accountId \notin DOMAIN balances /\ command[c].fresh /\ command[c].held.used = 0
        BY <2>1, <2>3, <3>2 DEF GrantPhase
      <4> QED BY <1>0, <2>1, <3>1, <3>2, <4>1 DEF GrantPhase
    <3> QED BY <1>0, <1>1, <2>1, <3>1, <3>2, GrantMove
  <2>4. CASE command[c].pc = "save"
    <3>1. Return(c)
      BY <1>4, <2>4 DEF On_
    <3>2. Quiet \in TokenCommand /\ Quiet.pc = "idle" /\ Quiet.cmd = "none" /\ Move(c, Quiet)
      BY <3>1 DEF Return, Quiet, TokenCommand, Someone, NoBalance, Balance, Plan
    <3>3. ASSUME ~mixed' PROVE LedgerInMemory' /\ InFile'
      <4>1. BalanceStored(c)
        BY <2>1, <2>4, <3>3 DEF GrantPhase
      <4> QED BY <1>0, <2>1, <3>3, <4>1 DEF BalanceStored, LedgerInMemory, InFile
    <3> QED BY <1>0, <2>1, <3>2, <3>3, GrantMove
  <2> QED BY <1>0, <2>2, <2>3, <2>4
<1> QED BY <1>3, <1>4 DEF save_token_balance

(* What a changed copy leaves: its use is the ledger's, and it is in memory.    *)
LEMMA StoreGranted ==
    ASSUME TokenInv, GrantInv, NEW c \in TokenClient, command[c].pc = "apply", NEW b \in Balance, NEW n \in Int,
           b.used = command[c].held.used + n, Store(c, b, n),
           UNCHANGED <<tokensFile, accountId, accountFile, mixed>>
    PROVE  GrantInv'
<1>1. /\ command[c] \in TokenCommand /\ command[c].cmd # "none"
      /\ ~mixed => AccountNames /\ GrantPhase(c)
  BY RunningPhase
<1>2. PICK r : r = [command[c] EXCEPT !.held = b, !.pc = "save"]
  OBVIOUS
<1>3. r \in TokenCommand /\ r.pc = "save" /\ r.cmd = command[c].cmd
      /\ r.account = command[c].account /\ r.held = b
  BY <1>1, <1>2 DEF TokenCommand
<1>4. Move(c, r) /\ balances' = With(balances, command[c].account, b) /\ ledger' = UsedDue(c) + n
  BY <1>2 DEF Store, UsedDue
<1>5. command'[c] = r
  BY <1>4 DEF Move, TokenInv, BalancesHeld
<1>6. ASSUME ~mixed' PROVE ~mixed /\ AccountNames' /\ GrantPhase(c)'
  <2>1. ~mixed /\ AccountNames /\ command[c].account = accountId /\ accountId # NoAccount
        /\ command[c].held.used = UsedDue(c)
    BY <1>1, <1>6 DEF GrantPhase
  <2>2. accountId' \in DOMAIN balances' /\ balances'[accountId'] = b
    BY <1>4, <2>1 DEF With
  <2>3. AccountNames'
    BY <2>1 DEF AccountNames
  <2>4. BalanceStored(c)'
    BY <1>3, <1>4, <1>5, <2>1, <2>2 DEF BalanceStored
  <2> QED BY <1>3, <1>5, <2>1, <2>3, <2>4 DEF GrantPhase
<1> QED BY <1>1, <1>3, <1>4, <1>6, GrantMove

LEMMA ApplyGranted ==
    ASSUME TokenInv, GrantInv, NEW c \in TokenClient, Apply(c)
    PROVE  GrantInv'
<1> DEFINE b == command[c].held
           n == command[c].n
           p == command[c].plan
<1>0. command[c].pc = "apply" /\ UNCHANGED <<tokensFile, accountId, accountFile, mixed>>
  BY DEF Apply, get_token_balance, consume_tokens, purchase_token_plan, On_
<1>1. /\ command[c] \in TokenCommand /\ command[c].cmd # "none"
      /\ ~mixed => AccountNames /\ GrantPhase(c)
  BY <1>0, RunningPhase
<1>2. SoundBalance(b) /\ b \in Balance /\ n \in Int /\ p \in Plan /\ today \in Nat
  BY <1>0, <1>1 DEF TokenInv, BalancesHeld, TokenCommand, HoldsBalance, AccountsNamed, SoundBalance
<1>3. CASE Return(c) /\ UNCHANGED <<balances, ledger>>
  <2>1. Quiet \in TokenCommand /\ Quiet.pc = "idle" /\ Quiet.cmd = "none" /\ Move(c, Quiet)
    BY <1>3 DEF Return, Quiet, TokenCommand, Someone, NoBalance, Balance, Plan
  <2>2. ASSUME ~mixed' PROVE ~mixed /\ AccountNames' /\ LedgerInMemory' /\ InFile'
    <3>1. ~mixed /\ AccountNames /\ LedgerInMemory /\ InFile
      BY <1>0, <1>1, <2>2 DEF GrantPhase
    <3> QED BY <1>0, <1>3, <3>1 DEF AccountNames, LedgerInMemory, InFile
  <2> QED BY <1>0, <2>1, <2>2, GrantMove
<1>4. CASE b.total # Unlimited /\ Store(c, Consumed(b, n), n)
  <2>1. PICK v : v = Consumed(b, n)
    OBVIOUS
  <2>2. v \in Balance /\ v.used = b.used + n
    BY <1>2, <1>4, <2>1, ChangedSound, UsedKept DEF SoundBalance
  <2> QED BY <1>0, <1>2, <1>4, <2>1, <2>2, StoreGranted
<1>5. CASE Store(c, Purchased(b, p), 0)
  <2>1. PICK v : v = Purchased(b, p)
    OBVIOUS
  <2>2. v \in Balance /\ v.used = b.used
    BY <1>2, <2>1, ChangedSound, UsedKept DEF SoundBalance
  <2>3. v.used = b.used + 0 /\ 0 \in Int
    BY <1>2, <2>2 DEF Balance
  <2> QED BY <1>0, <1>5, <2>1, <2>2, <2>3, StoreGranted
<1> QED BY <1>3, <1>4, <1>5 DEF Apply, get_token_balance, consume_tokens, purchase_token_plan

(* A command that begins is alone, or the commands overlap from then on.       *)
LEMMA BeginGranted ==
    ASSUME TokenInv, GrantInv, NEW c \in TokenClient, BeginTokens(c)
    PROVE  GrantInv'
<1>1. PICK q \in TokenRequest[c] :
          Move(c, [Quiet EXCEPT !.cmd = q.cmd, !.n = q.n, !.plan = q.plan, !.pc = "account"])
  BY DEF BeginTokens
<1>2. PICK r : r = [Quiet EXCEPT !.cmd = q.cmd, !.n = q.n, !.plan = q.plan, !.pc = "account"]
  OBVIOUS
<1>3. r.pc = "account" /\ r.cmd # "none"
  <2>1. q.cmd \in {"consume", "purchase", "get"}
    BY TokenAssumption
  <2> QED BY <1>2, <2>1 DEF Quiet
<1>4. /\ command'[c] = r /\ \A d \in TokenClient : d # c => command'[d] = command[d]
  BY <1>1, <1>2 DEF Move, TokenInv, BalancesHeld
<1>5. /\ UNCHANGED <<balances, tokensFile, accountId, accountFile, ledger>>
      /\ mixed' = (mixed \/ ~AllQuiet)
  BY DEF BeginTokens
<1>6. \A d \in TokenClient : command'[d].pc # "idle" => CommandRuns(d)'
  BY <1>3, <1>4 DEF GrantInv, CommandRuns
<1>7. ASSUME ~mixed' PROVE /\ OneCommand' /\ AccountNames' /\ ~AllQuiet'
                           /\ \A d \in TokenClient : CommandRuns(d)' => GrantPhase(d)'
  <2>1. ~mixed /\ AllQuiet
    BY <1>5, <1>7
  <2>2. AccountNames /\ LedgerInMemory /\ InFile
    BY <2>1 DEF GrantInv
  <2>3. AccountNames' /\ LedgerInMemory' /\ InFile'
    BY <1>5, <2>2 DEF AccountNames, LedgerInMemory, InFile
  <2>4. \A d \in TokenClient : d # c => ~CommandRuns(d)'
    BY <1>4, <2>1 DEF AllQuiet, CommandRuns
  <2>5. GrantPhase(c)'
    BY <1>3, <1>4, <2>3 DEF GrantPhase
  <2>6. ~AllQuiet'
    BY <1>3, <1>4 DEF AllQuiet
  <2> QED BY <2>3, <2>4, <2>5, <2>6 DEF OneCommand
<1> QED BY <1>6, <1>7 DEF GrantInv

(* When commands did not overlap and no write failed, every token granted since *)
(* the last reset is recorded as used, in memory and in the file, for any       *)
(* sequence of commands, changes of plan, resets and restarts in between.       *)
THEOREM GrantsCorrect == TokenSpec => []EveryGrantCounted
<1>1. TokenInit => GrantInv
  <2> SUFFICES ASSUME TokenInit PROVE GrantInv
    OBVIOUS
  <2>1. \A c \in TokenClient : command[c].pc = "idle" /\ command[c].cmd = "none"
    BY DEF TokenInit, Quiet
  <2>2. DOMAIN balances = {} /\ tokensFile.state = "absent" /\ accountId = NoAccount
    BY DEF TokenInit, NoTokens
  <2> QED BY <2>1, <2>2 DEF GrantInv, CommandRuns, OneCommand, AccountNames, LedgerInMemory, InFile
<1>2. TokenInv /\ GrantInv /\ [TokenNext]_tokenVars => GrantInv'
  <2> SUFFICES ASSUME TokenInv, GrantInv, [TokenNext]_tokenVars PROVE GrantInv'
    OBVIOUS
  <2>1. CASE StopTokens
    <3>1. \A c \in TokenClient : command'[c].pc = "idle" /\ command'[c].cmd = "none"
      BY <2>1 DEF StopTokens, Quiet
    <3>2. ASSUME ~mixed' PROVE AccountNames' /\ LedgerInMemory' /\ InFile'
      <4>1. ~mixed /\ AllQuiet
        BY <2>1, <3>2 DEF StopTokens
      <4>2. \A c \in TokenClient : command[c].pc = "idle"
        BY <4>1 DEF GrantInv, AllQuiet, CommandRuns
      <4>3. UNCHANGED <<tokensFile, accountFile, ledger>> /\ DOMAIN balances' = {} /\ accountId' = NoAccount
        BY <2>1, <4>2 DEF StopTokens, On_
      <4> QED BY <4>1, <4>3 DEF GrantInv, AccountNames, LedgerInMemory, InFile
    <3> QED BY <3>1, <3>2 DEF GrantInv, CommandRuns, OneCommand
  <2>2. ASSUME UNCHANGED <<balances, tokensFile, accountId, accountFile, command, mixed, ledger>>
        PROVE  GrantInv'
    <3>1. \A c \in TokenClient : GrantPhase(c)' <=> GrantPhase(c)
      BY <2>2 DEF GrantPhase, LedgerInMemory, InFile, BalanceStored, UsedDue
    <3> QED BY <2>2, <3>1 DEF GrantInv, CommandRuns, OneCommand, AccountNames, AllQuiet, LedgerInMemory, InFile
  <2>3. CASE Tick
    BY <2>2, <2>3 DEF Tick
  <2>4. ASSUME NEW c \in TokenClient,
               BeginTokens(c) \/ get_account_id(c) \/ get_or_init_token_balance(c) \/ save_token_balance(c) \/ Apply(c)
        PROVE  GrantInv'
    BY <2>4, BeginGranted, AccountGranted, InitGranted, SaveGranted, ApplyGranted
  <2>5. CASE UNCHANGED tokenVars
    BY <2>2, <2>5 DEF tokenVars
  <2> QED BY <2>1, <2>3, <2>4, <2>5 DEF TokenNext
<1>3. GrantInv => EveryGrantCounted
  BY DEF GrantInv, EveryGrantCounted, LedgerInMemory, InFile, AccountNames
<1> QED BY <1>1, <1>2, <1>3, TokenInductive, PTL DEF TokenSpec

(* An account's tokens: balances agree with themselves through overlapping      *)
(* commands, failures and restarts, and no grant of consume_tokens is forgotten *)
(* by purchases, resets and restarts while commands come one after the other.   *)
THEOREM AccountCorrect == TokenSpec => []AccountSafe
<1>1. BalancesConsistent /\ EveryGrantCounted => AccountSafe
  BY DEF AccountSafe
<1> QED BY <1>1, BalancesCorrect, GrantsCorrect, PTL

(****************************************************************************)
(* The metadata store                                                       *)
(****************************************************************************)
-----------------------------------------------------------------------------
(* The inductive invariant.  MetadataSafe compares the file and the answers     *)
(* with the promises only while nobody changes the entry.  Between the copy of   *)
(* an entry and the answer the change is on its way from memory to the file, and  *)
(* another command's save may have carried it: the invariant follows it.          *)
EditWorking == {"insert", "mark", "save", "lock", "write", "clear"}

\* What every state has, whatever was blurred: a command's record, and the keys
\* of the requests everywhere.
EditorShape(c) ==
    /\ editor[c] = [cmd |-> editor[c].cmd, pc |-> editor[c].pc, key |-> editor[c].key,
                    arg |-> editor[c].arg, store |-> editor[c].store, copy |-> editor[c].copy]
    /\ editor[c].pc # "idle" => editor[c].key \in Keys
    /\ editor[c].pc \in EditWorking => editor[c].cmd \notin Queries
    /\ editor[c].pc \in EditWorking \cup {"get"} => editor[c].store \in MetaClient
    /\ editor[c].cmd = "by_color" => editor[c].arg # NoOne
MetaShape ==
        /\ DOMAIN editor = MetaClient /\ DOMAIN cache = MetaClient /\ dirty \in [MetaClient -> BOOLEAN]
        /\ editor = [c \in MetaClient |-> editor[c]] /\ cache = [c \in MetaClient |-> cache[c]]
        /\ installed \in MetaClient \cup {NoOne} /\ DOMAIN metaFile.data \subseteq Keys
        /\ \A c \in MetaClient : EditorShape(c)

\* All commands work on the store that is installed.
OneStore == \A c \in MetaClient : editor[c].pc \in EditWorking \cup {"get"} => editor[c].store = installed /\ installed # NoOne
\* A store about to be the first holds what the file holds.
StoreLoaded == installed = NoOne => \A c \in MetaClient :
                  editor[c].pc = "install" => metaFile # TornFile /\ cache[c] = metaFile.data
\* At most one command changes the entry of k.
Met(k) == \A c, d \in MetaClient : Changes(c, k) /\ Changes(d, k) => c = d
\* While nobody changes the entry, file and memory hold what was answered.
OnFile(k)   == metaFile # TornFile /\ ~Busy(k) => EntryOf(metaFile.data, k) = EntryOf(promised, k)
InMemory(k) == installed # NoOne /\ ~Busy(k) => EntryOf(cache[installed], k) = EntryOf(promised, k)
\* An entry that memory holds and the file does not is still to be saved: by the
\* command that changed it, and the flag is up once that command has raised it.
Same(k)  == EntryOf(metaFile.data, k) = EntryOf(cache[installed], k)
ToSave(k) == installed # NoOne /\ metaFile # TornFile =>
    /\ (\E c \in MetaClient : editor[c].pc = "clear") => Same(k)
    /\ Same(k) \/ dirty[installed] \/ \E c \in MetaClient : Changes(c, k) /\ editor[c].pc = "mark"
    /\ Same(k) \/ \E c \in MetaClient : Changes(c, k) /\ editor[c].pc \in {"mark", "save", "lock", "write"}
Clear(k) == OneStore /\ StoreLoaded /\ Met(k) /\ OnFile(k) /\ InMemory(k) /\ ToSave(k)

MetaInv == MetaShape /\ MetaTypeOK /\ QueriesCurrent /\ \A k \in Keys \ blurred : Clear(k)

-----------------------------------------------------------------------------
(* What the helpers on entries do. *)

(* Writing the file leaves out empty entries only: every entry reads the same.  *)
LEMMA StoredEntry ==
    ASSUME NEW m, NEW k
    PROVE  EntryOf(Stored(m), k) = EntryOf(m, k) /\ DOMAIN Stored(m) \subseteq DOMAIN m
BY DEF Stored, EntryOf, is_empty

(* Ok promises what the store holds of the entries the command touched.         *)
LEMMA PromisedEntry ==
    ASSUME NEW c \in MetaClient, AnswerOk(c), NEW q
    PROVE  /\ EntryOf(promised', q) = IF q \in Touched(c) THEN EntryOf(Mine(c), q) ELSE EntryOf(promised, q)
           /\ DOMAIN promised' = DOMAIN promised \cup Touched(c)
BY DEF AnswerOk, EntryOf

(* A change on its way is one that has not been answered.                       *)
LEMMA ChangesTouched ==
    ASSUME NEW c \in MetaClient, EditorShape(c), NEW k \in Keys
    PROVE  Changes(c, k) <=> editor[c].cmd \notin Queries /\ editor[c].pc # "idle" /\ k \in Touched(c)
BY DEF Changes, Touched

-----------------------------------------------------------------------------
(* How the commands' records change. *)
IsRecord(r) == r = [cmd |-> r.cmd, pc |-> r.pc, key |-> r.key, arg |-> r.arg, store |-> r.store, copy |-> r.copy]

(* The record of a command that goes on. *)
LEMMA NextPc ==
    ASSUME NEW r, IsRecord(r), NEW pc
    PROVE  [r EXCEPT !.pc = pc] = [cmd |-> r.cmd, pc |-> pc, key |-> r.key, arg |-> r.arg, store |-> r.store, copy |-> r.copy]
BY DEF IsRecord

(* The record of a command that has taken the store. *)
LEMMA NextStore ==
    ASSUME NEW r, IsRecord(r), NEW pc, NEW s
    PROVE  [r EXCEPT !.store = s, !.pc = pc] = [cmd |-> r.cmd, pc |-> pc, key |-> r.key, arg |-> r.arg, store |-> s, copy |-> r.copy]
<1>1. PICK a, b, k, d, e, f : r = [cmd |-> a, pc |-> b, key |-> k, arg |-> d, store |-> e, copy |-> f]
  BY DEF IsRecord
<1>2. r \in [cmd : {a}, pc : {b}, key : {k}, arg : {d}, store : {e}, copy : {f}]
  BY <1>1
<1>3. PICK x : x = [r EXCEPT !.store = s, !.pc = pc]
  OBVIOUS
<1>4. x \in [cmd : {a}, pc : {pc}, key : {k}, arg : {d}, store : {s}, copy : {f}]
  BY <1>2, <1>3
<1>5. x = [cmd |-> a, pc |-> pc, key |-> k, arg |-> d, store |-> s, copy |-> f]
  BY <1>4
<1> QED BY <1>1, <1>3, <1>5

(* The record of a command that has changed its copy. *)
LEMMA NextCopy ==
    ASSUME NEW r, IsRecord(r), NEW pc, NEW m
    PROVE  [r EXCEPT !.copy = m, !.pc = pc] = [cmd |-> r.cmd, pc |-> pc, key |-> r.key, arg |-> r.arg, store |-> r.store, copy |-> m]
<1>1. PICK a, b, k, d, e, f : r = [cmd |-> a, pc |-> b, key |-> k, arg |-> d, store |-> e, copy |-> f]
  BY DEF IsRecord
<1>2. r \in [cmd : {a}, pc : {b}, key : {k}, arg : {d}, store : {e}, copy : {f}]
  BY <1>1
<1>3. PICK x : x = [r EXCEPT !.copy = m, !.pc = pc]
  OBVIOUS
<1>4. x \in [cmd : {a}, pc : {pc}, key : {k}, arg : {d}, store : {e}, copy : {m}]
  BY <1>2, <1>3
<1>5. x = [cmd |-> a, pc |-> pc, key |-> k, arg |-> d, store |-> e, copy |-> m]
  BY <1>4
<1> QED BY <1>1, <1>3, <1>5

(* A command that goes on changes what it changed before; the others too.        *)
LEMMA GoesOn ==
    ASSUME DOMAIN editor = MetaClient, NEW c \in MetaClient, NEW r, Edit(c, r),
           r.cmd = editor[c].cmd, r.key = editor[c].key, r.pc # "idle", editor[c].pc # "idle", NEW k
    PROVE  /\ \A d \in MetaClient : Changes(d, k)' <=> Changes(d, k)
           /\ Busy(k)' <=> Busy(k)
<1>1. editor'[c] = r /\ \A d \in MetaClient : d # c => editor'[d] = editor[d]
  BY DEF Edit
<1>2. ASSUME NEW d \in MetaClient PROVE Changes(d, k)' <=> Changes(d, k)
  <2>1. CASE d = c
    BY <1>1, <2>1 DEF Changes
  <2>2. CASE d # c
    BY <1>1, <2>2 DEF Changes
  <2> QED BY <2>1, <2>2
<1> QED BY <1>2 DEF Busy

(* A command that answers changes nothing more; the others go on.                *)
LEMMA GoesIdle ==
    ASSUME DOMAIN editor = MetaClient, NEW c \in MetaClient, Edit(c, Resting), NEW k
    PROVE  /\ ~Changes(c, k)'
           /\ \A d \in MetaClient : d # c => (Changes(d, k)' <=> Changes(d, k))
           /\ Busy(k)' <=> \E d \in MetaClient : d # c /\ Changes(d, k)
<1>1. editor'[c] = Resting /\ \A d \in MetaClient : d # c => editor'[d] = editor[d]
  BY DEF Edit
<1>2. ~Changes(c, k)'
  BY <1>1 DEF Changes, Resting
<1>3. ASSUME NEW d \in MetaClient, d # c PROVE Changes(d, k)' <=> Changes(d, k)
  BY <1>1, <1>3 DEF Changes
<1> QED BY <1>2, <1>3 DEF Busy

(* A query changes nothing.                                                      *)
LEMMA QueryIdle ==
    ASSUME NEW c \in MetaClient, editor[c].cmd \in Queries, NEW k
    PROVE  ~Changes(c, k)
BY DEF Changes

-----------------------------------------------------------------------------
(* The shape of the state. *)
EditorIs(r) ==
    /\ IsRecord(r)
    /\ r.pc \in {"idle", "instance", "install", "get"} \cup EditWorking
    /\ r.pc # "idle" => r.key \in Keys
    /\ r.pc \in EditWorking => r.cmd \notin Queries
    /\ r.pc \in EditWorking \cup {"get"} => r.store \in MetaClient
    /\ r.cmd = "by_color" => r.arg # NoOne

(* Writing a well-formed record keeps every command's well formed.               *)
LEMMA ShapeMove ==
    ASSUME MetaShape, MetaTypeOK, NEW c \in MetaClient, NEW r, EditorIs(r), Edit(c, r)
    PROVE  /\ DOMAIN editor' = MetaClient /\ editor' = [d \in MetaClient |-> editor'[d]]
           /\ \A d \in MetaClient : EditorShape(d)'
           /\ \A d \in MetaClient : editor'[d].pc \in {"idle", "instance", "install", "get"} \cup EditWorking
           /\ editor'[c] = r /\ \A d \in MetaClient : d # c => editor'[d] = editor[d]
<1>1. /\ editor'[c] = r /\ \A d \in MetaClient : d # c => editor'[d] = editor[d]
      /\ DOMAIN editor' = MetaClient
  BY DEF Edit, MetaShape
<1>2. editor' = [d \in MetaClient |-> editor'[d]]
  BY <1>1 DEF Edit, MetaShape
<1>3. ASSUME NEW d \in MetaClient PROVE EditorShape(d)' /\ editor'[d].pc \in {"idle", "instance", "install", "get"} \cup EditWorking
  <2>1. CASE d = c
    BY <1>1, <2>1 DEF EditorShape, EditorIs, IsRecord
  <2>2. CASE d # c
    BY <1>1, <2>2 DEF EditorShape, MetaShape, MetaTypeOK, EditWorking
  <2> QED BY <2>1, <2>2
<1> QED BY <1>1, <1>2, <1>3

(* So does resting.                                                              *)
LEMMA RestingIs == EditorIs(Resting)
BY DEF EditorIs, IsRecord, Resting, EditWorking, NoOne

(* Every command's record is well formed.                                        *)
LEMMA EditorIsAll ==
    ASSUME MetaShape, MetaTypeOK, NEW c \in MetaClient
    PROVE  EditorIs(editor[c])
BY DEF EditorIs, IsRecord, MetaShape, EditorShape, MetaTypeOK, EditWorking

(* The record of a command that moves on to its next step.                       *)
LEMMA EditToIs ==
    ASSUME MetaShape, MetaTypeOK, NEW c \in MetaClient, NEW pc \in {"instance", "install", "get"} \cup EditWorking,
           editor[c].pc # "idle", EditTo(c, pc),
           pc \in EditWorking => editor[c].cmd \notin Queries,
           pc \in EditWorking \cup {"get"} => editor[c].store \in MetaClient
    PROVE  \E r : /\ Edit(c, r) /\ EditorIs(r) /\ r.pc = pc
                  /\ r.cmd = editor[c].cmd /\ r.key = editor[c].key /\ r.store = editor[c].store
<1>1. EditorIs(editor[c])
  BY EditorIsAll
<1>2. PICK r : r = [editor[c] EXCEPT !.pc = pc]
  OBVIOUS
<1>3. r = [cmd |-> editor[c].cmd, pc |-> pc, key |-> editor[c].key, arg |-> editor[c].arg,
           store |-> editor[c].store, copy |-> editor[c].copy]
  BY <1>1, <1>2, NextPc DEF EditorIs
<1>4. EditorIs(r)
  BY <1>1, <1>3 DEF EditorIs, IsRecord, EditWorking
<1>5. Edit(c, r)
  BY <1>2 DEF EditTo
<1> QED BY <1>3, <1>4, <1>5

(* What a step leaves as typed as it was.                                        *)
LEMMA TypedStep ==
    ASSUME MetaShape, MetaTypeOK, NEW c \in MetaClient, NEW r, EditorIs(r), Edit(c, r),
           blurred' \subseteq Keys, metaCalls' \in 0 .. MaxMetaCalls, DOMAIN promised' \subseteq Keys,
           installed' \in MetaClient \cup {NoOne}, DOMAIN metaFile'.data \subseteq Keys,
           dirty' \in [MetaClient -> BOOLEAN],
           cache' = cache \/ \E s \in MetaClient : \E m : DOMAIN m \subseteq Keys /\ cache' = [cache EXCEPT ![s] = m]
    PROVE  MetaShape' /\ MetaTypeOK'
<1>1. /\ DOMAIN editor' = MetaClient /\ editor' = [d \in MetaClient |-> editor'[d]]
      /\ \A d \in MetaClient : EditorShape(d)'
      /\ \A d \in MetaClient : editor'[d].pc \in {"idle", "instance", "install", "get"} \cup EditWorking
  BY ShapeMove
<1>2. /\ DOMAIN cache' = MetaClient /\ cache' = [d \in MetaClient |-> cache'[d]]
      /\ \A d \in MetaClient : DOMAIN cache'[d] \subseteq Keys
  <2>1. CASE cache' = cache
    BY <2>1 DEF MetaShape, MetaTypeOK
  <2>2. CASE \E s \in MetaClient : \E m : DOMAIN m \subseteq Keys /\ cache' = [cache EXCEPT ![s] = m]
    BY <2>2 DEF MetaShape, MetaTypeOK
  <2> QED BY <2>1, <2>2
<1>3. MetaShape'
  BY <1>1, <1>2 DEF MetaShape
<1>4. MetaTypeOK'
  BY <1>1, <1>2 DEF MetaTypeOK, EditWorking
<1> QED BY <1>3, <1>4

(* A command touches keys of requests.                                           *)
LEMMA TouchedKeys ==
    ASSUME MetaShape, NEW c \in MetaClient, editor[c].pc # "idle"
    PROVE  Touched(c) \subseteq Keys
BY DEF Touched, MetaShape, EditorShape

(* A step that begins a command.                                                 *)
LEMMA EditBeginStep ==
    ASSUME MetaInv, NEW c \in MetaClient, BeginEdit(c)
    PROVE  MetaShape' /\ MetaTypeOK' /\ \A k \in Keys \ blurred' : Clear(k)'
<1> USE DEF MetaInv
<1>1. PICK q \in MetaRequest[c] :
         /\ Edit(c, [Resting EXCEPT !.cmd = q.cmd, !.key = make_key(q.source, q.path), !.arg = q.arg, !.pc = "instance"])
         /\ blurred' = IF q.cmd \in Queries THEN blurred
                       ELSE blurred \cup {p \in IF q.cmd = "remove_source" THEN {p \in Keys : p[1] = q.source}
                                                ELSE {make_key(q.source, q.path)} : Busy(p)}
  BY DEF BeginEdit
<1>2. PICK r : r = [Resting EXCEPT !.cmd = q.cmd, !.key = make_key(q.source, q.path), !.arg = q.arg, !.pc = "instance"]
  OBVIOUS
<1>3. r = [cmd |-> q.cmd, pc |-> "instance", key |-> <<q.source, q.path>>, arg |-> q.arg, store |-> NoOne, copy |-> Plain]
  BY <1>2 DEF Resting, make_key
<1>4. <<q.source, q.path>> \in Keys
  BY DEF Keys
<1>5. Edit(c, r)
  BY <1>1, <1>2
<1>6. EditorIs(r)
  BY <1>3, <1>4, MetaAssumption DEF EditorIs, IsRecord, EditWorking
<1>7. /\ editor'[c] = r /\ \A d \in MetaClient : d # c => editor'[d] = editor[d]
  BY <1>5, <1>6, ShapeMove
<1>8. blurred \subseteq blurred' /\ blurred' \subseteq Keys
  BY <1>1, <1>4 DEF MetaTypeOK, make_key
<1>9. UNCHANGED <<metaFile, installed, cache, dirty, promised>> /\ metaCalls' = metaCalls + 1 /\ metaCalls < MaxMetaCalls /\ editor[c].pc = "idle"
  BY DEF BeginEdit, EditorAt
<1>10. metaCalls' \in 0 .. MaxMetaCalls
  BY <1>9, MetaAssumption DEF MetaTypeOK
<1>11. MetaShape' /\ MetaTypeOK'
  BY <1>5, <1>6, <1>8, <1>9, <1>10, TypedStep DEF MetaShape, MetaTypeOK
<1>12. ASSUME NEW k \in Keys \ blurred' PROVE Clear(k)'
  <2>1. Clear(k)
    BY <1>8
  <2>2. ~Changes(c, k) /\ \A d \in MetaClient : d # c => (Changes(d, k)' <=> Changes(d, k))
    BY <1>7, <1>9 DEF Changes
  <2>3. Changes(c, k)' => ~Busy(k)
    BY <1>1, <1>3, <1>7 DEF Changes, make_key
  <2>4. ~Busy(k)' => ~Busy(k)
    BY <2>2 DEF Busy
  <2>5. Met(k)'
    BY <2>1, <2>2, <2>3 DEF Clear, Met, Busy
  <2>6. OneStore' /\ StoreLoaded'
    BY <1>3, <1>7, <1>9, <2>1 DEF Clear, OneStore, StoreLoaded, EditWorking
  <2>7. OnFile(k)' /\ InMemory(k)'
    BY <1>9, <2>1, <2>4 DEF Clear, OnFile, InMemory
  <2>8. ToSave(k)'
    BY <1>3, <1>7, <1>9, <2>1, <2>2 DEF Clear, ToSave, Same
  <2> QED BY <2>5, <2>6, <2>7, <2>8 DEF Clear
<1> QED BY <1>11, <1>12

(* Taking the store, or making it.                                               *)
LEMMA InstanceStep ==
    ASSUME MetaInv, NEW c \in MetaClient, get_metadata_store_instance(c)
    PROVE  MetaShape' /\ MetaTypeOK' /\ \A k \in Keys \ blurred' : Clear(k)'
<1> USE DEF MetaInv
<1>1. /\ UNCHANGED <<metaFile, metaCalls>>
      /\ blurred' = IF editor[c].pc = "install" /\ installed # NoOne THEN Keys ELSE blurred
  BY DEF get_metadata_store_instance, EditorAt
<1>2. blurred \subseteq blurred' /\ blurred' \subseteq Keys
  BY <1>1 DEF MetaTypeOK
<1>3. EditorIs(editor[c])
  BY EditorIsAll
<1>4. CASE /\ EditorAt(c, "instance") /\ installed # NoOne
           /\ Edit(c, [editor[c] EXCEPT !.store = installed, !.pc = "get"]) /\ UNCHANGED <<installed, cache, dirty, promised>>
  <2>1. PICK r : r = [editor[c] EXCEPT !.store = installed, !.pc = "get"]
    OBVIOUS
  <2>2. r = [cmd |-> editor[c].cmd, pc |-> "get", key |-> editor[c].key, arg |-> editor[c].arg,
             store |-> installed, copy |-> editor[c].copy]
    BY <1>3, <2>1, NextStore DEF EditorIs
  <2>3. Edit(c, r) /\ editor[c].pc = "instance"
    BY <1>4, <2>1 DEF EditorAt
  <2>4. EditorIs(r)
    BY <1>3, <1>4, <2>2, <2>3 DEF EditorIs, IsRecord, EditWorking, MetaShape
  <2>5. editor'[c] = r /\ \A d \in MetaClient : d # c => editor'[d] = editor[d]
    BY <2>3, <2>4, ShapeMove
  <2>6. MetaShape' /\ MetaTypeOK'
    BY <1>1, <1>2, <1>4, <2>3, <2>4, TypedStep DEF MetaShape, MetaTypeOK
  <2>7. ASSUME NEW k \in Keys \ blurred' PROVE Clear(k)'
    <3>1. Clear(k)
      BY <1>2
    <3>2. /\ \A d \in MetaClient : Changes(d, k)' <=> Changes(d, k)
          /\ Busy(k)' <=> Busy(k)
      BY <2>2, <2>3, GoesOn DEF MetaShape
    <3>3. OneStore' /\ StoreLoaded'
      BY <1>1, <1>4, <2>2, <2>5, <3>1 DEF Clear, OneStore, StoreLoaded, EditWorking
    <3>4. Met(k)' /\ OnFile(k)' /\ InMemory(k)'
      BY <1>1, <1>4, <3>1, <3>2 DEF Clear, Met, OnFile, InMemory
    <3>5. ToSave(k)'
      BY <1>1, <1>4, <2>2, <2>3, <2>5, <3>1, <3>2 DEF Clear, ToSave, Same
    <3> QED BY <3>3, <3>4, <3>5 DEF Clear
  <2> QED BY <2>6, <2>7
<1>5. CASE /\ EditorAt(c, "instance") /\ installed = NoOne /\ metaFile # TornFile
           /\ cache' = [cache EXCEPT ![c] = metaFile.data] /\ dirty' = [dirty EXCEPT ![c] = FALSE]
           /\ EditTo(c, "install") /\ UNCHANGED <<installed, promised>>
  <2>1. editor[c].pc = "instance"
    BY <1>5 DEF EditorAt
  <2>2. PICK r : /\ Edit(c, r) /\ EditorIs(r) /\ r.pc = "install"
                 /\ r.cmd = editor[c].cmd /\ r.key = editor[c].key /\ r.store = editor[c].store
    BY <1>5, <2>1, EditToIs DEF EditWorking
  <2>3. editor'[c] = r /\ \A d \in MetaClient : d # c => editor'[d] = editor[d]
    BY <2>2, ShapeMove
  <2>4. \E m : DOMAIN m \subseteq Keys /\ cache' = [cache EXCEPT ![c] = m]
    BY <1>5 DEF MetaShape
  <2>5. dirty' \in [MetaClient -> BOOLEAN]
    BY <1>5 DEF MetaShape
  <2>6. MetaShape' /\ MetaTypeOK'
    BY <1>1, <1>2, <1>5, <2>2, <2>4, <2>5, TypedStep DEF MetaShape, MetaTypeOK
  <2>7. ASSUME NEW k \in Keys \ blurred' PROVE Clear(k)'
    <3>1. Clear(k)
      BY <1>2
    <3>2. /\ \A d \in MetaClient : Changes(d, k)' <=> Changes(d, k)
          /\ Busy(k)' <=> Busy(k)
      BY <2>1, <2>2, GoesOn DEF MetaShape
    <3>3. cache'[c] = metaFile.data /\ \A d \in MetaClient : d # c => cache'[d] = cache[d]
      BY <1>5 DEF MetaShape
    <3>4. OneStore' /\ StoreLoaded'
      BY <1>1, <1>5, <2>2, <2>3, <3>1, <3>3 DEF Clear, OneStore, StoreLoaded, EditWorking
    <3>5. Met(k)' /\ OnFile(k)' /\ InMemory(k)' /\ ToSave(k)'
      BY <1>1, <1>5, <3>1, <3>2 DEF Clear, Met, OnFile, InMemory, ToSave
    <3> QED BY <3>4, <3>5 DEF Clear
  <2> QED BY <2>6, <2>7
<1>6. CASE /\ EditorAt(c, "instance") /\ installed = NoOne /\ metaFile = TornFile
           /\ AnswerErr(c) /\ UNCHANGED <<installed, cache, dirty>>
  <2>1. Edit(c, Resting) /\ UNCHANGED promised /\ editor[c].pc = "instance"
    BY <1>6 DEF AnswerErr, EditorAt
  <2>2. editor'[c] = Resting /\ \A d \in MetaClient : d # c => editor'[d] = editor[d]
    BY <2>1, RestingIs, ShapeMove
  <2>3. MetaShape' /\ MetaTypeOK'
    BY <1>1, <1>2, <1>6, <2>1, RestingIs, TypedStep DEF MetaShape, MetaTypeOK
  <2>4. ASSUME NEW k \in Keys \ blurred' PROVE Clear(k)'
    <3>1. Clear(k)
      BY <1>2
    <3>2. /\ ~Changes(c, k)'
          /\ \A d \in MetaClient : d # c => (Changes(d, k)' <=> Changes(d, k))
      BY <2>1, GoesIdle DEF MetaShape
    <3>3. OneStore' /\ StoreLoaded'
      BY <1>1, <1>6, <2>2, <3>1 DEF Clear, OneStore, StoreLoaded, EditWorking, Resting
    <3>4. Met(k)' /\ OnFile(k)' /\ InMemory(k)' /\ ToSave(k)'
      BY <1>1, <1>6, <3>1, <3>2 DEF Clear, Met, OnFile, InMemory, ToSave
    <3> QED BY <3>3, <3>4 DEF Clear
  <2> QED BY <2>3, <2>4
<1>7. CASE /\ EditorAt(c, "install") /\ installed' = c
           /\ Edit(c, [editor[c] EXCEPT !.store = c, !.pc = "get"]) /\ UNCHANGED <<cache, dirty, promised>>
  <2>1. PICK r : r = [editor[c] EXCEPT !.store = c, !.pc = "get"]
    OBVIOUS
  <2>2. r = [cmd |-> editor[c].cmd, pc |-> "get", key |-> editor[c].key, arg |-> editor[c].arg,
             store |-> c, copy |-> editor[c].copy]
    BY <1>3, <2>1, NextStore DEF EditorIs
  <2>3. Edit(c, r) /\ editor[c].pc = "install"
    BY <1>7, <2>1 DEF EditorAt
  <2>4. EditorIs(r)
    BY <1>3, <2>2, <2>3 DEF EditorIs, IsRecord, EditWorking
  <2>5. editor'[c] = r /\ \A d \in MetaClient : d # c => editor'[d] = editor[d]
    BY <2>3, <2>4, ShapeMove
  <2>6. MetaShape' /\ MetaTypeOK'
    BY <1>1, <1>2, <1>7, <2>3, <2>4, TypedStep DEF MetaShape, MetaTypeOK
  <2>7. ASSUME NEW k \in Keys \ blurred' PROVE Clear(k)'
    <3>1. Clear(k)
      BY <1>2
    <3>2. installed = NoOne /\ c # NoOne
      BY <1>1, <2>3, MetaAssumption
    <3>3. /\ \A d \in MetaClient : Changes(d, k)' <=> Changes(d, k)
          /\ Busy(k)' <=> Busy(k)
      BY <2>2, <2>3, GoesOn DEF MetaShape
    <3>4. metaFile # TornFile /\ cache[c] = metaFile.data
      BY <2>3, <3>1, <3>2 DEF Clear, StoreLoaded
    <3>5. OneStore' /\ StoreLoaded'
      BY <1>7, <2>2, <2>5, <3>1, <3>2 DEF Clear, OneStore, StoreLoaded, EditWorking
    <3>6. Same(k)'
      BY <1>1, <1>7, <3>4 DEF Same
    <3>7. Met(k)' /\ OnFile(k)' /\ InMemory(k)'
      BY <1>1, <1>7, <3>1, <3>3, <3>4 DEF Clear, Met, OnFile, InMemory
    <3> QED BY <3>5, <3>6, <3>7 DEF Clear, ToSave
  <2> QED BY <2>6, <2>7
<1> QED BY <1>4, <1>5, <1>6, <1>7 DEF get_metadata_store_instance

(* A command that holds the store answers Ok: what it touched is then on the      *)
(* file as memory has it, so the promise holds in both places.                    *)
LEMMA AnswerClear ==
    ASSUME MetaShape, MetaTypeOK, NEW c \in MetaClient, NEW k \in Keys, Clear(k), AnswerOk(c),
           editor[c].pc \in EditWorking \cup {"get"}, editor[c].cmd \notin Queries,
           metaFile' = metaFile, installed' = installed,
           EntryOf(cache'[installed], k) = EntryOf(cache[installed], k),
           Changes(c, k) => metaFile = TornFile \/ Same(k),
           dirty'[installed] = dirty[installed] \/ metaFile = TornFile \/ Same(k)
    PROVE  Clear(k)'
<1>1. Edit(c, Resting)
  BY DEF AnswerOk
<1>2. editor'[c] = Resting /\ \A d \in MetaClient : d # c => editor'[d] = editor[d]
  BY <1>1, RestingIs, ShapeMove
<1>3. /\ ~Changes(c, k)'
      /\ \A d \in MetaClient : d # c => (Changes(d, k)' <=> Changes(d, k))
      /\ Busy(k)' <=> \E d \in MetaClient : d # c /\ Changes(d, k)
  BY <1>1, GoesIdle DEF MetaShape
<1>4. EntryOf(promised', k) = IF Changes(c, k) THEN EntryOf(cache[installed], k) ELSE EntryOf(promised, k)
  <2>1. EntryOf(promised', k) = IF k \in Touched(c) THEN EntryOf(Mine(c), k) ELSE EntryOf(promised, k)
    BY PromisedEntry
  <2>2. Changes(c, k) <=> k \in Touched(c)
    BY ChangesTouched DEF MetaShape, EditWorking
  <2>3. Mine(c) = cache[installed]
    BY DEF Clear, OneStore, Mine
  <2> QED BY <2>1, <2>2, <2>3
<1>5. OneStore' /\ StoreLoaded' /\ installed # NoOne
  BY <1>2 DEF Clear, OneStore, StoreLoaded, EditWorking, Resting
<1>6. Met(k)'
  BY <1>3 DEF Clear, Met
<1>7. Busy(k)' <=> Busy(k) /\ ~Changes(c, k)
  BY <1>3 DEF Clear, Met, Busy
<1>8. OnFile(k)' /\ InMemory(k)'
  BY <1>4, <1>5, <1>7 DEF Clear, OnFile, InMemory, Same
<1>9. Same(k)' <=> Same(k)
  BY DEF Same
<1>10. ToSave(k)'
  <2>1. CASE metaFile = TornFile
    BY <2>1 DEF ToSave
  <2>2. CASE Same(k)
    BY <1>9, <2>2 DEF ToSave
  <2>3. CASE metaFile # TornFile /\ ~Same(k)
    <3>1. ~Changes(c, k) /\ dirty'[installed] = dirty[installed]
      BY <2>3
    <3>2. \A d \in MetaClient : editor[d].pc # "clear"
      BY <1>5, <2>3 DEF Clear, ToSave
    <3>3. \A d \in MetaClient : editor'[d].pc # "clear"
      BY <1>2, <3>2 DEF Resting
    <3>4. dirty'[installed] \/ \E d \in MetaClient : Changes(d, k)' /\ editor'[d].pc = "mark"
      BY <1>2, <1>3, <1>5, <2>3, <3>1 DEF Clear, ToSave
    <3>5. \E d \in MetaClient : Changes(d, k)' /\ editor'[d].pc \in {"mark", "save", "lock", "write"}
      BY <1>2, <1>3, <1>5, <2>3, <3>1 DEF Clear, ToSave
    <3> QED BY <3>3, <3>4, <3>5 DEF ToSave
  <2> QED BY <2>1, <2>2, <2>3
<1> QED BY <1>5, <1>6, <1>8, <1>10 DEF Clear

(* A command that goes on without changing memory or the file leaves what is to   *)
(* be saved to the same command.                                                  *)
LEMMA GoOnClear ==
    ASSUME MetaShape, MetaTypeOK, NEW c \in MetaClient, NEW k \in Keys, Clear(k), NEW r, EditorIs(r), Edit(c, r),
           r.cmd = editor[c].cmd, r.key = editor[c].key, r.store = editor[c].store,
           editor[c].pc \in {"get", "save", "lock"}, r.pc \in {"insert", "lock", "write"},
           editor[c].pc # "get" => r.pc # "insert",
           UNCHANGED <<metaFile, installed, cache, dirty, promised>>
    PROVE  Clear(k)'
<1>1. editor'[c] = r /\ \A d \in MetaClient : d # c => editor'[d] = editor[d]
  BY ShapeMove
<1>2. /\ \A d \in MetaClient : Changes(d, k)' <=> Changes(d, k)
      /\ Busy(k)' <=> Busy(k)
  BY GoesOn DEF MetaShape
<1>3. OneStore' /\ StoreLoaded'
  BY <1>1 DEF Clear, OneStore, StoreLoaded, EditWorking
<1>4. Met(k)' /\ OnFile(k)' /\ InMemory(k)'
  BY <1>2 DEF Clear, Met, OnFile, InMemory
<1>5. ToSave(k)'
  BY <1>1, <1>2 DEF Clear, ToSave, Same
<1> QED BY <1>3, <1>4, <1>5 DEF Clear

(* Copying the entry.                                                             *)
LEMMA CopyStep ==
    ASSUME MetaInv, NEW c \in MetaClient, CopyEntry(c)
    PROVE  MetaShape' /\ MetaTypeOK' /\ \A k \in Keys \ blurred' : Clear(k)'
<1> USE DEF MetaInv
<1>1. /\ UNCHANGED <<metaFile, installed, cache, dirty, metaCalls, blurred>>
      /\ editor[c].pc = "get" /\ editor[c].cmd \notin Queries
  BY DEF CopyEntry, EditorAt
<1>2. EditorIs(editor[c]) /\ editor[c].store \in MetaClient
  BY <1>1, EditorIsAll DEF EditorIs, EditWorking
<1>3. CASE AnswerOk(c) /\ editor[c].cmd = "remove_tag"
  <2>1. Edit(c, Resting)
    BY <1>3 DEF AnswerOk
  <2>2. DOMAIN promised' \subseteq Keys
    BY <1>1, <1>3, PromisedEntry, TouchedKeys DEF MetaTypeOK
  <2>3. MetaShape' /\ MetaTypeOK'
    BY <1>1, <2>1, <2>2, RestingIs, TypedStep DEF MetaShape, MetaTypeOK
  <2>4. ASSUME NEW k \in Keys \ blurred' PROVE Clear(k)'
    <3>1. Clear(k)
      BY <1>1
    <3>2. Changes(c, k) => metaFile = TornFile \/ Same(k)
      BY <1>1, <3>1 DEF Clear, Met, ToSave, OneStore, EditWorking
    <3> QED BY <1>1, <1>3, <3>1, <3>2, AnswerClear
  <2> QED BY <2>3, <2>4
<1>4. CASE /\ UNCHANGED promised
           /\ \E r : /\ Edit(c, r) /\ EditorIs(r) /\ r.pc = "insert"
                     /\ r.cmd = editor[c].cmd /\ r.key = editor[c].key /\ r.store = editor[c].store
  <2>1. PICK r : /\ Edit(c, r) /\ EditorIs(r) /\ r.pc = "insert"
                 /\ r.cmd = editor[c].cmd /\ r.key = editor[c].key /\ r.store = editor[c].store
    BY <1>4
  <2>2. MetaShape' /\ MetaTypeOK'
    BY <1>1, <1>4, <2>1, TypedStep DEF MetaShape, MetaTypeOK
  <2>3. ASSUME NEW k \in Keys \ blurred' PROVE Clear(k)'
    BY <1>1, <1>4, <2>1, GoOnClear
  <2> QED BY <2>2, <2>3
<1>5. CASE editor[c].cmd = "remove_source"
  <2>1. EditTo(c, "insert") /\ UNCHANGED promised
    BY <1>5 DEF CopyEntry
  <2> QED BY <1>1, <1>2, <1>4, <2>1, EditToIs DEF EditWorking
<1>6. CASE editor[c].cmd # "remove_source"
  <2> DEFINE old == EntryOf(Mine(c), editor[c].key)
             made == Edited(old, editor[c].cmd, editor[c].arg)
  <2>1. IF editor[c].cmd = "remove_tag" /\ made = old THEN AnswerOk(c)
        ELSE Edit(c, [editor[c] EXCEPT !.copy = made, !.pc = "insert"]) /\ UNCHANGED promised
    BY <1>6 DEF CopyEntry
  <2> HIDE DEF old, made
  <2>2. CASE editor[c].cmd = "remove_tag" /\ made = old
    BY <1>3, <2>1, <2>2
  <2>3. CASE ~(editor[c].cmd = "remove_tag" /\ made = old)
    <3>1. PICK r : r = [editor[c] EXCEPT !.copy = made, !.pc = "insert"]
      OBVIOUS
    <3>2. r = [cmd |-> editor[c].cmd, pc |-> "insert", key |-> editor[c].key, arg |-> editor[c].arg,
               store |-> editor[c].store, copy |-> made]
      BY <1>2, <3>1, NextCopy DEF EditorIs
    <3>3. EditorIs(r)
      BY <1>1, <1>2, <3>2 DEF EditorIs, IsRecord, EditWorking
    <3>4. Edit(c, r) /\ UNCHANGED promised
      BY <2>1, <2>3, <3>1
    <3> QED BY <1>4, <3>2, <3>3, <3>4
  <2> QED BY <2>2, <2>3
<1> QED BY <1>5, <1>6

(* A change reaches memory: nobody is saving, and the command that made it will.   *)
LEMMA ChangeClear ==
    ASSUME MetaShape, MetaTypeOK, NEW c \in MetaClient, NEW k \in Keys, Clear(k), NEW r, EditorIs(r), Edit(c, r),
           r.cmd = editor[c].cmd, r.key = editor[c].key, r.store = editor[c].store,
           editor[c].pc = "insert", r.pc = "mark", Unlocked(editor[c].store),
           UNCHANGED <<metaFile, installed, dirty, promised>>,
           ~Changes(c, k) => EntryOf(cache'[installed], k) = EntryOf(cache[installed], k)
    PROVE  Clear(k)'
<1>1. editor'[c] = r /\ \A d \in MetaClient : d # c => editor'[d] = editor[d]
  BY ShapeMove
<1>2. /\ \A d \in MetaClient : Changes(d, k)' <=> Changes(d, k)
      /\ Busy(k)' <=> Busy(k)
  BY GoesOn DEF MetaShape
<1>3. OneStore' /\ StoreLoaded' /\ installed # NoOne /\ editor[c].store = installed
  BY <1>1 DEF Clear, OneStore, StoreLoaded, EditWorking
<1>4. \A d \in MetaClient : editor[d].pc # "clear"
  BY <1>3 DEF Clear, OneStore, Unlocked, EditWorking
<1>5. \A d \in MetaClient : editor'[d].pc # "clear"
  BY <1>1, <1>4
<1>6. Met(k)' /\ OnFile(k)'
  BY <1>2 DEF Clear, Met, OnFile
<1>7. InMemory(k)' /\ ToSave(k)'
  <2>1. CASE Changes(c, k)
    <3>1. Changes(c, k)' /\ editor'[c].pc = "mark"
      BY <1>1, <1>2, <2>1
    <3> QED BY <1>2, <1>5, <2>1, <3>1 DEF InMemory, ToSave, Busy
  <2>2. CASE ~Changes(c, k)
    <3>1. Same(k)' <=> Same(k)
      BY <2>2 DEF Same
    <3>2. InMemory(k)'
      BY <1>2, <2>2 DEF Clear, InMemory
    <3>3. ASSUME metaFile # TornFile
          PROVE  /\ Same(k) \/ dirty[installed] \/ \E d \in MetaClient : Changes(d, k) /\ editor[d].pc = "mark"
                 /\ Same(k) \/ \E d \in MetaClient : Changes(d, k) /\ editor[d].pc \in {"mark", "save", "lock", "write"}
      BY <1>3, <3>3 DEF Clear, ToSave
    <3>4. ASSUME metaFile # TornFile
          PROVE  /\ Same(k)' \/ dirty'[installed] \/ \E d \in MetaClient : Changes(d, k)' /\ editor'[d].pc = "mark"
                 /\ Same(k)' \/ \E d \in MetaClient : Changes(d, k)' /\ editor'[d].pc \in {"mark", "save", "lock", "write"}
      BY <1>1, <1>2, <2>2, <3>1, <3>3, <3>4
    <3> QED BY <1>5, <3>2, <3>4 DEF ToSave
  <2> QED BY <2>1, <2>2
<1> QED BY <1>3, <1>6, <1>7 DEF Clear

(* Putting the changed entry back, or taking a source's.                            *)
LEMMA UpdateStep ==
    ASSUME MetaInv, NEW c \in MetaClient, update(c)
    PROVE  MetaShape' /\ MetaTypeOK' /\ \A k \in Keys \ blurred' : Clear(k)'
<1> USE DEF MetaInv
<1> DEFINE s == editor[c].store
           m == cache[s]
           gone == EntriesOfSource(m, editor[c].key[1])
           left == [k \in DOMAIN m \ gone |-> m[k]]
           put == Inserted(m, editor[c].key, editor[c].copy)
<1>1. /\ UNCHANGED <<metaFile, installed, dirty, metaCalls, blurred>>
      /\ editor[c].pc = "insert" /\ Unlocked(s)
  BY DEF update, EditorAt
<1>2. EditorIs(editor[c]) /\ s \in MetaClient /\ editor[c].cmd \notin Queries /\ editor[c].key \in Keys
  BY <1>1, EditorIsAll DEF EditorIs, EditWorking
<1>3. ASSUME NEW k \in Keys \ blurred' PROVE Clear(k) /\ installed = s
  BY <1>1 DEF Clear, OneStore, EditWorking
<1>4. DOMAIN m \subseteq Keys
  BY <1>2 DEF MetaTypeOK
<1>5. CASE editor[c].cmd = "remove_source"
  <2>1. /\ cache' = [cache EXCEPT ![s] = left]
        /\ IF gone = {} THEN AnswerOk(c) ELSE EditTo(c, "mark") /\ UNCHANGED promised
    BY <1>5 DEF update
  <2>2. DOMAIN left \subseteq Keys
    BY <1>4
  <2>3. ASSUME NEW k \in Keys PROVE gone = {} \/ ~Changes(c, k) => EntryOf(left, k) = EntryOf(m, k)
    <3>1. gone = {} \/ ~Changes(c, k) => k \notin gone
      BY <1>1, <1>2, <1>5 DEF Changes, EntriesOfSource
    <3>2. k \notin gone => EntryOf(left, k) = EntryOf(m, k)
      BY DEF EntryOf
    <3> QED BY <3>1, <3>2
  <2> HIDE DEF left, gone
  <2>4. cache'[s] = left
    BY <1>2, <2>1 DEF MetaShape
  <2>5. CASE gone = {}
    <3>1. AnswerOk(c)
      BY <2>1, <2>5
    <3>2. DOMAIN promised' \subseteq Keys
      BY <1>1, <3>1, PromisedEntry, TouchedKeys DEF MetaTypeOK
    <3>3. Edit(c, Resting)
      BY <3>1 DEF AnswerOk
    <3>4. MetaShape' /\ MetaTypeOK'
      BY <1>1, <1>2, <2>1, <2>2, <3>2, <3>3, RestingIs, TypedStep DEF MetaShape, MetaTypeOK
    <3>5. ASSUME NEW k \in Keys \ blurred' PROVE Clear(k)'
      <4>1. Clear(k) /\ installed = s
        BY <1>3
      <4>2. Changes(c, k) => metaFile = TornFile \/ Same(k)
        BY <1>1, <4>1 DEF Clear, Met, ToSave, OneStore, EditWorking
      <4>3. EntryOf(cache'[installed], k) = EntryOf(cache[installed], k)
        BY <2>3, <2>4, <2>5, <4>1
      <4> QED BY <1>1, <1>2, <3>1, <4>1, <4>2, <4>3, AnswerClear DEF EditWorking
    <3> QED BY <3>4, <3>5
  <2>6. CASE gone # {}
    <3>1. EditTo(c, "mark") /\ UNCHANGED promised
      BY <2>1, <2>6
    <3>2. PICK r : /\ Edit(c, r) /\ EditorIs(r) /\ r.pc = "mark"
                   /\ r.cmd = editor[c].cmd /\ r.key = editor[c].key /\ r.store = editor[c].store
      BY <1>1, <1>2, <3>1, EditToIs DEF EditWorking
    <3>3. MetaShape' /\ MetaTypeOK'
      BY <1>1, <1>2, <2>1, <2>2, <3>1, <3>2, TypedStep DEF MetaShape, MetaTypeOK
    <3>4. ASSUME NEW k \in Keys \ blurred' PROVE Clear(k)'
      <4>1. Clear(k) /\ installed = s
        BY <1>3
      <4>2. ~Changes(c, k) => EntryOf(cache'[installed], k) = EntryOf(cache[installed], k)
        BY <2>3, <2>4, <4>1
      <4> QED BY <1>1, <3>1, <3>2, <4>1, <4>2, ChangeClear
    <3> QED BY <3>3, <3>4
  <2> QED BY <2>5, <2>6
<1>6. CASE editor[c].cmd # "remove_source"
  <2>1. cache' = [cache EXCEPT ![s] = put] /\ EditTo(c, "mark") /\ UNCHANGED promised
    BY <1>6 DEF update
  <2>2. DOMAIN put \subseteq Keys
    BY <1>2, <1>4 DEF Inserted
  <2>3. ASSUME NEW k \in Keys PROVE ~Changes(c, k) => EntryOf(put, k) = EntryOf(m, k)
    <3>1. ~Changes(c, k) => k # editor[c].key
      BY <1>1, <1>2 DEF Changes
    <3> QED BY <3>1 DEF Inserted, EntryOf
  <2> HIDE DEF put
  <2>4. cache'[s] = put
    BY <1>2, <2>1 DEF MetaShape
  <2>5. PICK r : /\ Edit(c, r) /\ EditorIs(r) /\ r.pc = "mark"
                 /\ r.cmd = editor[c].cmd /\ r.key = editor[c].key /\ r.store = editor[c].store
    BY <1>1, <1>2, <2>1, EditToIs DEF EditWorking
  <2>6. MetaShape' /\ MetaTypeOK'
    BY <1>1, <1>2, <2>1, <2>2, <2>5, TypedStep DEF MetaShape, MetaTypeOK
  <2>7. ASSUME NEW k \in Keys \ blurred' PROVE Clear(k)'
    <3>1. Clear(k) /\ installed = s
      BY <1>3
    <3>2. ~Changes(c, k) => EntryOf(cache'[installed], k) = EntryOf(cache[installed], k)
      BY <2>3, <2>4, <3>1
    <3> QED BY <1>1, <2>1, <2>5, <3>1, <3>2, ChangeClear
  <2> QED BY <2>6, <2>7
<1> QED BY <1>5, <1>6

(* Raising the flag.                                                               *)
LEMMA MarkStep ==
    ASSUME MetaInv, NEW c \in MetaClient, mark_dirty(c)
    PROVE  MetaShape' /\ MetaTypeOK' /\ \A k \in Keys \ blurred' : Clear(k)'
<1> USE DEF MetaInv
<1>1. /\ UNCHANGED <<metaFile, installed, cache, metaCalls, promised, blurred>>
      /\ dirty' = [dirty EXCEPT ![editor[c].store] = TRUE] /\ EditTo(c, "save") /\ editor[c].pc = "mark"
  BY DEF mark_dirty, EditorAt
<1>2. EditorIs(editor[c]) /\ editor[c].store \in MetaClient /\ editor[c].cmd \notin Queries
  BY <1>1, EditorIsAll DEF EditorIs, EditWorking
<1>3. PICK r : /\ Edit(c, r) /\ EditorIs(r) /\ r.pc = "save"
               /\ r.cmd = editor[c].cmd /\ r.key = editor[c].key /\ r.store = editor[c].store
  BY <1>1, <1>2, EditToIs DEF EditWorking
<1>4. dirty' \in [MetaClient -> BOOLEAN] /\ dirty'[editor[c].store]
  BY <1>1, <1>2 DEF MetaShape
<1>5. MetaShape' /\ MetaTypeOK'
  BY <1>1, <1>3, <1>4, TypedStep DEF MetaShape, MetaTypeOK
<1>6. ASSUME NEW k \in Keys \ blurred' PROVE Clear(k)'
  <2>1. Clear(k)
    BY <1>1
  <2>2. editor'[c] = r /\ \A d \in MetaClient : d # c => editor'[d] = editor[d]
    BY <1>3, ShapeMove
  <2>3. /\ \A d \in MetaClient : Changes(d, k)' <=> Changes(d, k)
        /\ Busy(k)' <=> Busy(k)
    BY <1>1, <1>3, GoesOn DEF MetaShape
  <2>4. OneStore' /\ StoreLoaded' /\ editor[c].store = installed
    BY <1>1, <1>3, <2>1, <2>2 DEF Clear, OneStore, StoreLoaded, EditWorking
  <2>5. Met(k)' /\ OnFile(k)' /\ InMemory(k)'
    BY <1>1, <2>1, <2>3 DEF Clear, Met, OnFile, InMemory
  <2>6. dirty'[installed]
    BY <1>4, <2>4
  <2>7. ToSave(k)'
    BY <1>1, <1>3, <2>1, <2>2, <2>3, <2>6 DEF Clear, ToSave, Same
  <2> QED BY <2>4, <2>5, <2>7 DEF Clear
<1> QED BY <1>5, <1>6

(* Saving: the flag is read, the lock taken, the file written, the flag cleared.     *)
LEMMA MetaSaveStep ==
    ASSUME MetaInv, NEW c \in MetaClient, save(c)
    PROVE  MetaShape' /\ MetaTypeOK' /\ \A k \in Keys \ blurred' : Clear(k)'
<1> USE DEF MetaInv
<1> DEFINE s == editor[c].store
<1>1. UNCHANGED <<installed, cache, metaCalls>> /\ editor[c].pc \in {"save", "lock", "write", "clear"}
  BY DEF save, EditorAt
<1>2. EditorIs(editor[c]) /\ s \in MetaClient /\ editor[c].cmd \notin Queries /\ editor[c].key \in Keys
  BY <1>1, EditorIsAll DEF EditorIs, EditWorking
<1>3. ASSUME NEW k \in Keys \ blurred PROVE Clear(k) /\ installed = s /\ installed # NoOne
  BY <1>1 DEF Clear, OneStore, EditWorking
<1>4. CASE EditorAt(c, "save") /\ ~dirty[s] /\ AnswerOk(c) /\ UNCHANGED <<metaFile, dirty, blurred>>
  <2>1. Edit(c, Resting)
    BY <1>4 DEF AnswerOk
  <2>2. DOMAIN promised' \subseteq Keys
    BY <1>1, <1>4, PromisedEntry, TouchedKeys DEF MetaTypeOK
  <2>3. MetaShape' /\ MetaTypeOK'
    BY <1>1, <1>4, <2>1, <2>2, RestingIs, TypedStep DEF MetaShape, MetaTypeOK
  <2>4. ASSUME NEW k \in Keys \ blurred' PROVE Clear(k)'
    <3>1. Clear(k) /\ installed = s /\ installed # NoOne
      BY <1>3, <1>4
    <3>2. Changes(c, k) => metaFile = TornFile \/ Same(k)
      BY <1>4, <3>1 DEF Clear, Met, ToSave, EditorAt
    <3> QED BY <1>1, <1>2, <1>4, <3>1, <3>2, AnswerClear DEF EditWorking
  <2> QED BY <2>3, <2>4
<1>5. CASE /\ UNCHANGED <<metaFile, dirty, promised, blurred>>
           /\ \/ EditorAt(c, "save") /\ EditTo(c, "lock")
              \/ EditorAt(c, "lock") /\ EditTo(c, "write")
  <2>1. PICK pc \in {"lock", "write"} : EditTo(c, pc) /\ editor[c].pc \in {"save", "lock"}
    BY <1>5 DEF EditorAt
  <2>2. PICK r : /\ Edit(c, r) /\ EditorIs(r) /\ r.pc = pc
                 /\ r.cmd = editor[c].cmd /\ r.key = editor[c].key /\ r.store = editor[c].store
    BY <1>2, <2>1, EditToIs DEF EditWorking
  <2>3. MetaShape' /\ MetaTypeOK'
    BY <1>1, <1>5, <2>2, TypedStep DEF MetaShape, MetaTypeOK
  <2>4. ASSUME NEW k \in Keys \ blurred' PROVE Clear(k)'
    BY <1>1, <1>3, <1>5, <2>1, <2>2, GoOnClear
  <2> QED BY <2>3, <2>4
<1>6. CASE /\ EditorAt(c, "write") /\ metaFile' = FileWith(Stored(cache[s])) /\ EditTo(c, "clear")
           /\ UNCHANGED <<dirty, promised, blurred>>
  <2>1. PICK r : /\ Edit(c, r) /\ EditorIs(r) /\ r.pc = "clear"
                 /\ r.cmd = editor[c].cmd /\ r.key = editor[c].key /\ r.store = editor[c].store
    BY <1>1, <1>2, <1>6, EditToIs DEF EditWorking
  <2>2. metaFile'.data = Stored(cache[s])
    BY <1>6 DEF FileWith
  <2>3. DOMAIN metaFile'.data \subseteq Keys
    BY <1>2, <2>2, StoredEntry DEF MetaTypeOK
  <2>4. MetaShape' /\ MetaTypeOK'
    BY <1>1, <1>6, <2>1, <2>3, TypedStep DEF MetaShape, MetaTypeOK
  <2>5. ASSUME NEW k \in Keys \ blurred' PROVE Clear(k)'
    <3>1. Clear(k) /\ installed = s /\ installed # NoOne
      BY <1>3, <1>6
    <3>2. editor'[c] = r /\ \A d \in MetaClient : d # c => editor'[d] = editor[d]
      BY <2>1, ShapeMove
    <3>3. /\ \A d \in MetaClient : Changes(d, k)' <=> Changes(d, k)
          /\ Busy(k)' <=> Busy(k)
      BY <1>1, <2>1, GoesOn DEF MetaShape
    <3>4. OneStore' /\ StoreLoaded'
      BY <1>1, <2>1, <3>1, <3>2 DEF Clear, OneStore, StoreLoaded, EditWorking
    <3>5. EntryOf(metaFile'.data, k) = EntryOf(cache[installed], k)
      BY <2>2, <3>1, StoredEntry
    <3>6. Same(k)'
      BY <1>1, <3>5 DEF Same
    <3>7. Met(k)' /\ InMemory(k)'
      BY <1>1, <1>6, <3>1, <3>3 DEF Clear, Met, InMemory
    <3>8. OnFile(k)'
      BY <1>1, <1>6, <3>1, <3>3, <3>5 DEF Clear, InMemory, OnFile
    <3> QED BY <3>4, <3>6, <3>7, <3>8 DEF Clear, ToSave
  <2> QED BY <2>4, <2>5
<1>7. CASE /\ EditorAt(c, "write") /\ \E f \in {metaFile, TornFile} : metaFile' = f
           /\ AnswerErr(c) /\ blurred' = blurred \cup Touched(c) /\ UNCHANGED dirty
  <2>1. Edit(c, Resting) /\ UNCHANGED promised
    BY <1>7 DEF AnswerErr
  <2>2. blurred' \subseteq Keys
    BY <1>1, <1>7, TouchedKeys DEF MetaTypeOK
  <2>3. DOMAIN metaFile'.data \subseteq Keys
    BY <1>7 DEF MetaShape, TornFile
  <2>4. MetaShape' /\ MetaTypeOK'
    BY <1>1, <1>7, <2>1, <2>2, <2>3, RestingIs, TypedStep DEF MetaShape, MetaTypeOK
  <2>5. ASSUME NEW k \in Keys \ blurred' PROVE Clear(k)'
    <3>1. Clear(k) /\ installed = s /\ installed # NoOne /\ k \notin Touched(c)
      BY <1>3, <1>7
    <3>2. editor'[c] = Resting /\ \A d \in MetaClient : d # c => editor'[d] = editor[d]
      BY <2>1, RestingIs, ShapeMove
    <3>3. ~Changes(c, k)
      BY <1>1, <3>1, ChangesTouched DEF MetaShape
    <3>4. \A d \in MetaClient : Changes(d, k)' <=> Changes(d, k)
      BY <2>1, <3>3, GoesIdle DEF MetaShape
    <3>5. Busy(k)' <=> Busy(k)
      BY <3>4 DEF Busy
    <3>6. OneStore' /\ StoreLoaded'
      BY <1>1, <3>1, <3>2 DEF Clear, OneStore, StoreLoaded, EditWorking, Resting
    <3>7. Met(k)' /\ OnFile(k)' /\ InMemory(k)'
      BY <1>1, <1>7, <2>1, <3>1, <3>4, <3>5 DEF Clear, Met, OnFile, InMemory
    <3>8. CASE metaFile' = TornFile
      BY <3>6, <3>7, <3>8 DEF Clear, ToSave
    <3>9. CASE metaFile' = metaFile
      <4>1. \A d \in MetaClient : Changes(d, k) => d # c
        BY <3>3
      <4>2. ToSave(k)'
        BY <1>1, <1>7, <3>1, <3>2, <3>4, <3>9, <4>1 DEF Clear, ToSave, Same, Resting
      <4> QED BY <3>6, <3>7, <4>2 DEF Clear
    <3> QED BY <1>7, <3>8, <3>9
  <2> QED BY <2>4, <2>5
<1>8. CASE EditorAt(c, "clear") /\ dirty' = [dirty EXCEPT ![s] = FALSE] /\ AnswerOk(c) /\ UNCHANGED <<metaFile, blurred>>
  <2>1. Edit(c, Resting)
    BY <1>8 DEF AnswerOk
  <2>2. DOMAIN promised' \subseteq Keys
    BY <1>1, <1>8, PromisedEntry, TouchedKeys DEF MetaTypeOK
  <2>3. dirty' \in [MetaClient -> BOOLEAN]
    BY <1>8 DEF MetaShape
  <2>4. MetaShape' /\ MetaTypeOK'
    BY <1>1, <1>8, <2>1, <2>2, <2>3, RestingIs, TypedStep DEF MetaShape, MetaTypeOK
  <2>5. ASSUME NEW k \in Keys \ blurred' PROVE Clear(k)'
    <3>1. Clear(k) /\ installed = s /\ installed # NoOne
      BY <1>3, <1>8
    <3>2. metaFile = TornFile \/ Same(k)
      BY <1>8, <3>1 DEF Clear, ToSave, EditorAt
    <3> QED BY <1>1, <1>2, <1>8, <3>1, <3>2, AnswerClear DEF EditWorking
  <2> QED BY <2>4, <2>5
<1> QED BY <1>4, <1>5, <1>6, <1>7, <1>8 DEF save

(* A query ends, and nobody's change is touched.                                     *)
LEMMA QueryStep ==
    ASSUME MetaInv, NEW c \in MetaClient, editor[c].pc # "idle", Edit(c, Resting),
           editor[c].cmd \in Queries, UNCHANGED <<metaFile, installed, cache, dirty, metaCalls, promised, blurred>>
    PROVE  MetaShape' /\ MetaTypeOK' /\ \A k \in Keys \ blurred' : Clear(k)'
<1> USE DEF MetaInv
<1>1. MetaShape' /\ MetaTypeOK'
  BY RestingIs, TypedStep DEF MetaShape, MetaTypeOK
<1>2. editor'[c] = Resting /\ \A d \in MetaClient : d # c => editor'[d] = editor[d]
  BY RestingIs, ShapeMove
<1>3. ASSUME NEW k \in Keys \ blurred' PROVE Clear(k)'
  <2>1. Clear(k)
    OBVIOUS
  <2>2. ~Changes(c, k)
    BY QueryIdle
  <2>3. \A d \in MetaClient : Changes(d, k)' <=> Changes(d, k)
    BY <2>2, GoesIdle DEF MetaShape
  <2>4. Busy(k)' <=> Busy(k)
    BY <2>3 DEF Busy
  <2>5. OneStore' /\ StoreLoaded'
    BY <1>2, <2>1 DEF Clear, OneStore, StoreLoaded, EditWorking, Resting
  <2>6. Met(k)' /\ OnFile(k)' /\ InMemory(k)'
    BY <2>1, <2>3, <2>4 DEF Clear, Met, OnFile, InMemory
  <2>7. \A d \in MetaClient : Changes(d, k) => d # c
    BY <2>2
  <2>8. ToSave(k)'
    BY <1>2, <2>1, <2>3, <2>7 DEF Clear, ToSave, Same, Resting
  <2> QED BY <2>5, <2>6, <2>8 DEF Clear
<1> QED BY <1>1, <1>3

(* The application stops: what was answered and is not being changed is on the file. *)
LEMMA StopStep ==
    ASSUME MetaInv, StopEditing
    PROVE  MetaShape' /\ MetaTypeOK' /\ \A k \in Keys \ blurred' : Clear(k)'
<1> USE DEF MetaInv
<1>1. /\ metaCalls < MaxMetaCalls /\ metaCalls' = metaCalls + 1 /\ installed' = NoOne
      /\ editor' = [c \in MetaClient |-> Resting] /\ cache' = [c \in MetaClient |-> << >>]
      /\ dirty' = [c \in MetaClient |-> FALSE] /\ (metaFile' = metaFile \/ metaFile' = TornFile)
      /\ blurred' = blurred \cup {k \in Keys : Busy(k)} /\ UNCHANGED promised
  BY DEF StopEditing
<1>2. metaCalls' \in 0 .. MaxMetaCalls
  BY <1>1, MetaAssumption DEF MetaTypeOK
<1>3. \A c \in MetaClient : EditorShape(c)' /\ editor'[c].pc = "idle"
  BY <1>1 DEF EditorShape, Resting, EditWorking, NoOne
<1>4. DOMAIN metaFile'.data \subseteq Keys
  BY <1>1 DEF MetaShape, TornFile
<1>5. (\A c \in MetaClient : DOMAIN cache'[c] \subseteq Keys) /\ DOMAIN cache' = MetaClient /\ cache' = [c \in MetaClient |-> cache'[c]]
  BY <1>1
<1>6. dirty' \in [MetaClient -> BOOLEAN]
  BY <1>1
<1>7. DOMAIN editor' = MetaClient /\ editor' = [c \in MetaClient |-> editor'[c]]
  BY <1>1
<1>8. MetaShape'
  BY <1>1, <1>3, <1>4, <1>5, <1>6, <1>7 DEF MetaShape
<1>9. MetaTypeOK'
  BY <1>1, <1>2, <1>3, <1>5, <1>6 DEF MetaTypeOK
<1>10. ASSUME NEW k \in Keys \ blurred' PROVE Clear(k)'
  <2>1. Clear(k) /\ ~Busy(k)
    BY <1>1
  <2>2. \A c \in MetaClient : ~Changes(c, k)'
    BY <1>3 DEF Changes
  <2>3. OneStore' /\ StoreLoaded' /\ Met(k)'
    BY <1>3, <2>2 DEF OneStore, StoreLoaded, Met, EditWorking
  <2>4. OnFile(k)'
    BY <1>1, <2>1 DEF Clear, OnFile
  <2> QED BY <1>1, <2>3, <2>4 DEF Clear, InMemory, ToSave
<1> QED BY <1>8, <1>9, <1>10

-----------------------------------------------------------------------------
(* What a query shows. *)

(* Two maps with the same entries, an absent one counting as a plain one, answer a   *)
(* query alike: no list shows a file whose entry is plain.                           *)
LEMMA AnswersAgree ==
    ASSUME NEW m, NEW p, DOMAIN m \subseteq Keys, DOMAIN p \subseteq Keys,
           NEW q \in Queries, NEW k \in Keys, NEW arg, q = "by_color" => arg # NoOne,
           \A x \in IF q \in {"get_metadata", "stat"} THEN {k} ELSE {x \in Keys : x[1] = k[1]} :
              EntryOf(m, x) = EntryOf(p, x)
    PROVE  AnswerTo(m, q, k, arg) = AnswerTo(p, q, k, arg)
<1>1. CASE q \in {"get_metadata", "stat"}
  BY <1>1 DEF AnswerTo, Queries
<1>2. CASE q \notin {"get_metadata", "stat"}
  <2>1. \A x \in Keys : x[1] = k[1] => EntryOf(m, x) = EntryOf(p, x)
    BY <1>2
  <2>2. CASE q = "favorites"
    <3>1. {x \in DOMAIN m : x[1] = k[1] /\ m[x].favorite} = {x \in DOMAIN p : x[1] = k[1] /\ p[x].favorite}
      BY <2>1 DEF EntryOf, Plain
    <3> QED BY <2>2, <3>1 DEF AnswerTo, list_favorites
  <2>3. CASE q = "by_tag"
    <3>1. {x \in DOMAIN m : x[1] = k[1] /\ \E t \in m[x].tags : t.name = arg}
          = {x \in DOMAIN p : x[1] = k[1] /\ \E t \in p[x].tags : t.name = arg}
      BY <2>1 DEF EntryOf, Plain
    <3> QED BY <2>3, <3>1 DEF AnswerTo, list_by_tag
  <2>4. CASE q = "by_color"
    <3>1. {x \in DOMAIN m : x[1] = k[1] /\ m[x].color = arg} = {x \in DOMAIN p : x[1] = k[1] /\ p[x].color = arg}
      BY <2>1, <2>4 DEF EntryOf, Plain
    <3> QED BY <2>4, <3>1 DEF AnswerTo, list_by_color
  <2>5. CASE q = "all_tags"
    <3>1. UNION {m[x].tags : x \in {x \in DOMAIN m : x[1] = k[1]}} = UNION {p[x].tags : x \in {x \in DOMAIN p : x[1] = k[1]}}
      BY <2>1 DEF EntryOf, Plain
    <3> QED BY <2>5, <3>1 DEF AnswerTo, list_all_tags
  <2> QED BY <1>2, <2>2, <2>3, <2>4, <2>5 DEF Queries
<1> QED BY <1>1, <1>2

(* A query that nobody's change is in the way of shows what was answered.             *)
LEMMA QueryCurrent ==
    ASSUME MetaInv, NEW c \in MetaClient, Query(c)
    PROVE  QueriesCurrent'
<1> USE DEF MetaInv
<1> DEFINE sure == \A k \in AskedAbout(c) : k \notin blurred /\ ~Busy(k)
           got  == AnswerTo(Mine(c), editor[c].cmd, editor[c].key, editor[c].arg)
           due == AnswerTo(promised, editor[c].cmd, editor[c].key, editor[c].arg)
<1>1. told' = [got |-> got, owed |-> due, clear |-> sure] /\ editor[c].pc = "get" /\ editor[c].cmd \in Queries
  BY DEF Query, Tell, EditorAt
<1>2. editor[c].key \in Keys /\ editor[c].store \in MetaClient /\ (editor[c].cmd = "by_color" => editor[c].arg # NoOne)
  BY <1>1, EditorIsAll DEF EditorIs, EditWorking
<1>3. ASSUME sure PROVE got = due
  <2>1. AskedAbout(c) \subseteq Keys /\ editor[c].key \in AskedAbout(c)
    BY <1>2 DEF AskedAbout
  <2>2. Clear(editor[c].key)
    BY <1>3, <2>1
  <2>3. Mine(c) = cache[installed] /\ installed # NoOne /\ installed \in MetaClient
    BY <1>1, <1>2, <2>2 DEF Clear, OneStore, Mine
  <2>4. \A k \in AskedAbout(c) : EntryOf(Mine(c), k) = EntryOf(promised, k)
    BY <1>3, <2>1, <2>3 DEF Clear, InMemory
  <2>5. DOMAIN Mine(c) \subseteq Keys /\ DOMAIN promised \subseteq Keys
    BY <2>3 DEF MetaTypeOK
  <2> QED BY <1>1, <1>2, <2>4, <2>5, AnswersAgree DEF AskedAbout
<1> HIDE DEF sure, got, due
<1> QED BY <1>1, <1>3 DEF QueriesCurrent

(* Every step keeps the invariant.                                                     *)
LEMMA MetaStep == MetaInv /\ [MetaNext]_metaVars => MetaInv'
<1> SUFFICES ASSUME MetaInv, [MetaNext]_metaVars PROVE MetaInv'
  OBVIOUS
<1>1. ASSUME told' = Untold PROVE QueriesCurrent'
  BY <1>1 DEF QueriesCurrent, Untold
<1>2. CASE told' = Untold /\ StopEditing
  BY <1>1, <1>2, StopStep DEF MetaInv
<1>3. ASSUME NEW c \in MetaClient, told' = Untold,
             BeginEdit(c) \/ get_metadata_store_instance(c) \/ CopyEntry(c) \/ update(c) \/ mark_dirty(c) \/ save(c)
      PROVE  MetaInv'
  <2>1. MetaShape' /\ MetaTypeOK' /\ \A k \in Keys \ blurred' : Clear(k)'
    BY <1>3, EditBeginStep, InstanceStep, CopyStep, UpdateStep, MarkStep, MetaSaveStep
  <2> QED BY <1>1, <1>3, <2>1 DEF MetaInv
<1>4. ASSUME NEW c \in MetaClient, Query(c) PROVE MetaInv'
  <2>1. /\ editor[c].pc # "idle" /\ Edit(c, Resting) /\ editor[c].cmd \in Queries
        /\ UNCHANGED <<metaFile, installed, cache, dirty, metaCalls, promised, blurred>>
    BY <1>4 DEF Query, EditorAt
  <2> QED BY <1>4, <2>1, QueryStep, QueryCurrent DEF MetaInv
<1>5. ASSUME NEW c \in MetaClient, vfs_stat(c) PROVE MetaInv'
  <2>1. /\ editor[c].pc # "idle" /\ Edit(c, Resting) /\ editor[c].cmd \in Queries
        /\ UNCHANGED <<metaFile, installed, cache, dirty, metaCalls, promised, blurred>>
    BY <1>5 DEF vfs_stat, EditorAt, Queries
  <2>2. QueriesCurrent'
    BY <1>5 DEF vfs_stat, Tell, QueriesCurrent
  <2> QED BY <2>1, <2>2, QueryStep DEF MetaInv
<1>6. CASE UNCHANGED metaVars
  <2>1. MetaShape' /\ MetaTypeOK' /\ QueriesCurrent'
    BY <1>6 DEF metaVars, MetaInv, MetaShape, EditorShape, MetaTypeOK, QueriesCurrent
  <2>2. ASSUME NEW k \in Keys \ blurred' PROVE Clear(k)'
    BY <1>6, <2>2 DEF metaVars, MetaInv, Clear, OneStore, StoreLoaded, Met, OnFile, InMemory, ToSave, Same, Changes, Busy
  <2> QED BY <2>1, <2>2 DEF MetaInv
<1> QED BY <1>2, <1>3, <1>4, <1>5, <1>6 DEF MetaNext

(* It holds at the start.                                                              *)
LEMMA MetaStart == MetaInit => MetaInv
<1> SUFFICES ASSUME MetaInit PROVE MetaInv
  OBVIOUS
<1>1. /\ metaFile = FileWith(<< >>) /\ installed = NoOne /\ cache = [c \in MetaClient |-> << >>]
      /\ dirty = [c \in MetaClient |-> FALSE] /\ editor = [c \in MetaClient |-> Resting]
      /\ metaCalls = 0 /\ promised = << >> /\ blurred = {} /\ told = Untold
  BY DEF MetaInit
<1>2. \A c \in MetaClient : EditorShape(c) /\ editor[c].pc = "idle"
  BY <1>1 DEF EditorShape, Resting, EditWorking, NoOne
<1>3. DOMAIN metaFile.data \subseteq Keys /\ metaFile.data = << >>
  BY <1>1 DEF FileWith
<1>4. (\A c \in MetaClient : DOMAIN cache[c] \subseteq Keys) /\ DOMAIN cache = MetaClient /\ cache = [c \in MetaClient |-> cache[c]]
  BY <1>1
<1>5. dirty \in [MetaClient -> BOOLEAN]
  BY <1>1
<1>6. DOMAIN editor = MetaClient /\ editor = [c \in MetaClient |-> editor[c]]
  BY <1>1
<1>7. MetaShape
  BY <1>1, <1>2, <1>3, <1>4, <1>5, <1>6 DEF MetaShape
<1>8. MetaTypeOK
  BY <1>1, <1>2, <1>4, <1>5, MetaAssumption DEF MetaTypeOK
<1>9. QueriesCurrent
  BY <1>1 DEF QueriesCurrent, Untold
<1>10. ASSUME NEW k \in Keys PROVE Clear(k)
  <2>1. \A c \in MetaClient : ~Changes(c, k)
    BY <1>2 DEF Changes
  <2>2. OneStore /\ StoreLoaded /\ Met(k)
    BY <1>2, <2>1 DEF OneStore, StoreLoaded, Met, EditWorking
  <2> QED BY <1>1, <1>3, <2>2 DEF Clear, OnFile, InMemory, ToSave
<1> QED BY <1>7, <1>8, <1>9, <1>10 DEF MetaInv

(* The invariant holds in every behaviour of metadata_store.rs and its commands.        *)
THEOREM MetadataInductive == MetaSpec => []MetaInv
<1>1. MetaInit => MetaInv
  BY MetaStart
<1>2. MetaInv /\ [MetaNext]_metaVars => MetaInv'
  BY MetaStep
<1> QED BY <1>1, <1>2, PTL DEF MetaSpec

(* Metadata that a command answered is on disk and stays there, and queries show it,     *)
(* for every number of commands and files: save answers Ok without writing when another    *)
(* command's save has cleared the flag (83-112), and that save carried the change.          *)
THEOREM MetadataCorrect == MetaSpec => []MetadataSafe
<1>1. MetaInv => MetadataSafe
  <2>1. ASSUME MetaInv, metaFile # TornFile, NEW k \in DOMAIN promised \ blurred, ~Busy(k)
        PROVE  EntryOf(metaFile.data, k) = promised[k]
    <3>1. Clear(k)
      BY <2>1 DEF MetaInv, MetaTypeOK
    <3> QED BY <2>1, <3>1 DEF Clear, OnFile, EntryOf
  <2> QED BY <2>1 DEF MetadataSafe, AnsweredIsSaved, MetaInv
<1> QED BY <1>1, MetadataInductive, PTL

(****************************************************************************)
(* The audit log                                                            *)
(****************************************************************************)
AuditStatus == {"none", "Pending", "Completed", "Failed", "Canceled", "gone"}
AuditEntry == {LegacyEntries[i] : i \in DOMAIN LegacyEntries} \cup (AuditTask \X AuditStatus)
Auditor == [pc : {"idle", "running", "get", "push", "save", "open", "write", "over"}, got : AuditStatus, snap : Seq(AuditEntry)]
AuditShape == /\ tracked \in [AuditTask -> AuditStatus] /\ auditor \in [AuditTask -> Auditor] /\ entries \in Seq(AuditEntry)
              /\ auditFile \in [torn : BOOLEAN, entries : Seq(AuditEntry)] /\ spoilt \in BOOLEAN /\ owed \subseteq AuditTask

\* An operation is in a log at most once.
Logged(t, s) == \E i \in DOMAIN s : s[i][1] = t
LoggedOnce(s) == \A i, j \in DOMAIN s : s[i][1] \in AuditTask /\ s[i][1] = s[j][1] => i = j
\* A task that has not appended its operation is in neither log; one that has saves what is in memory.
AuditSteps(t) ==
    /\ auditor[t].pc \in {"idle", "running", "get", "push"} => t \notin owed /\ ~Logged(t, entries) /\ ~Logged(t, auditFile.entries)
    /\ auditor[t].pc \in {"save", "open", "write"} => Logged(t, entries)
    /\ auditor[t].pc \in {"open", "write"} => auditor[t].snap = entries
\* Unless a save failed: the file is torn only while a task writes it, and holds what is owed otherwise.
OwedKept == ~spoilt => /\ auditFile.torn => \E t \in AuditTask : auditor[t].pc = "write"
                       /\ \A t \in owed : Logged(t, entries)
                       /\ ~auditFile.torn => \A t \in owed : Logged(t, auditFile.entries)

AuditInv == AuditShape /\ LoggedOnce(entries) /\ LoggedOnce(auditFile.entries) /\ (\A t \in AuditTask : AuditSteps(t)) /\ OwedKept

LEMMA NotYetFits == NotYet \in Auditor /\ NotYet.pc = "idle"
<1>1. << >> \in Seq(AuditEntry) OBVIOUS
<1> QED BY <1>1 DEF NotYet, Auditor, AuditStatus

LEMMA AuditStart == AuditInit => AuditInv
<1> SUFFICES ASSUME AuditInit PROVE AuditInv OBVIOUS
<1>1. LegacyEntries \in Seq(AuditEntry)
  <2>1. \A i \in DOMAIN LegacyEntries : LegacyEntries[i] \in AuditEntry BY DEF AuditEntry
  <2>2. LegacyEntries \in Seq({LegacyEntries[i] : i \in DOMAIN LegacyEntries}) BY LegacyAssumption
  <2>3. \A i \in 1..Len(LegacyEntries) : LegacyEntries[i] \in AuditEntry BY <2>1, <2>2
  <2> QED BY <2>2, <2>3
<1>2. auditFile.entries = LegacyEntries /\ auditFile.torn = FALSE /\ entries = LegacyEntries BY DEF AuditInit, Written
<1>3. AuditShape BY <1>1, NotYetFits DEF AuditInit, AuditShape, AuditStatus, Written
<1>4. LoggedOnce(entries) /\ LoggedOnce(auditFile.entries) BY <1>2, LegacyAssumption DEF LoggedOnce
<1>5. \A t \in AuditTask : auditor[t].pc = "idle" BY NotYetFits DEF AuditInit
<1>6. \A t \in AuditTask : ~Logged(t, LegacyEntries) BY LegacyAssumption DEF Logged
<1>7. \A t \in AuditTask : AuditSteps(t) BY <1>2, <1>5, <1>6 DEF AuditSteps, AuditInit
<1>8. OwedKept BY <1>2 DEF OwedKept, AuditInit
<1> QED BY <1>3, <1>4, <1>7, <1>8 DEF AuditInv

\* A task's step that leaves both logs alone.
LEMMA AuditorStep ==
    ASSUME AuditInv, NEW t \in AuditTask, NEW r \in Auditor, auditor' = [auditor EXCEPT ![t] = r],
           tracked' \in [AuditTask -> AuditStatus], UNCHANGED <<auditFile, entries, owed>>, spoilt' \in BOOLEAN, spoilt => spoilt',
           r.pc \in {"idle", "running", "get", "push"} => auditor[t].pc \in {"idle", "running", "get", "push"},
           r.pc \in {"save", "open", "write"} => auditor[t].pc \in {"save", "open", "write"},
           r.pc \in {"open", "write"} => r.snap = entries,
           spoilt' \/ auditor[t].pc # "write"
    PROVE  AuditInv'
<1>1. auditor \in [AuditTask -> Auditor] BY DEF AuditInv, AuditShape
<1>2. auditor'[t] = r /\ \A u \in AuditTask : u # t => auditor'[u] = auditor[u] BY <1>1
<1>3. AuditShape' BY <1>1 DEF AuditInv, AuditShape
<1>4. \A u \in AuditTask : AuditSteps(u)' BY <1>2 DEF AuditInv, AuditSteps
<1>5. OwedKept' BY <1>2 DEF AuditInv, OwedKept
<1> QED BY <1>3, <1>4, <1>5 DEF AuditInv

LEMMA AuditToStep ==
    ASSUME AuditInv, NEW t \in AuditTask, NEW p, AuditTo(t, p), p \in {"idle", "running", "get", "push", "save", "open", "write", "over"}
    PROVE  \E r \in Auditor : auditor' = [auditor EXCEPT ![t] = r] /\ r.pc = p /\ r.snap = auditor[t].snap
<1>1. auditor \in [AuditTask -> Auditor] BY DEF AuditInv, AuditShape
<1>2. PICK r : r = [auditor[t] EXCEPT !.pc = p] OBVIOUS
<1>3. r \in Auditor /\ r.pc = p /\ r.snap = auditor[t].snap BY <1>1, <1>2 DEF Auditor
<1> QED BY <1>1, <1>2, <1>3 DEF AuditTo

LEMMA TrackerStatusFits ==
    ASSUME AuditInv, NEW t \in AuditTask, NEW s \in AuditStatus, tracked' = [tracked EXCEPT ![t] = s]
    PROVE  tracked' \in [AuditTask -> AuditStatus]
BY DEF AuditInv, AuditShape

LEMMA SettlingFits == ASSUME AuditInv, NEW t \in AuditTask PROVE Completing(t) \in AuditStatus /\ Failing(t) \in AuditStatus
BY DEF AuditInv, AuditShape, Completing, Failing, AuditStatus

LEMMA HelperKeeps ==
    ASSUME AuditInv, NEW t \in AuditTask,
           track_operation_start(t) \/ complete_operation(t) \/ fail_operation(t) \/ SettleFails(t) \/ get_operation(t)
    PROVE  AuditInv'
<1>1. UNCHANGED <<auditFile, entries, owed, spoilt>> /\ spoilt \in BOOLEAN /\ auditor[t].pc \in {"idle", "running", "get"}
  BY DEF track_operation_start, complete_operation, fail_operation, SettleFails, get_operation, AuditAt, AuditInv, AuditShape
<1>2. tracked' \in [AuditTask -> AuditStatus]
  <2>1. Completing(t) \in AuditStatus /\ Failing(t) \in AuditStatus /\ "Pending" \in AuditStatus BY SettlingFits DEF AuditStatus
  <2>2. (\E s \in AuditStatus : tracked' = [tracked EXCEPT ![t] = s]) \/ UNCHANGED tracked
    BY <2>1 DEF track_operation_start, complete_operation, fail_operation, SettleFails, get_operation
  <2> QED BY <2>2, TrackerStatusFits DEF AuditInv, AuditShape
<1>3. CASE get_operation(t)
  <2>1. PICK r : r = [auditor[t] EXCEPT !.got = tracked[t], !.pc = IF tracked[t] = "gone" THEN "over" ELSE "push"] OBVIOUS
  <2>2. r \in Auditor /\ r.pc \in {"over", "push"} BY <2>1 DEF AuditInv, AuditShape, Auditor
  <2>3. auditor' = [auditor EXCEPT ![t] = r] BY <1>3, <2>1 DEF get_operation, AuditInv, AuditShape
  <2> QED BY <1>1, <1>2, <2>2, <2>3, AuditorStep
<1>4. CASE ~get_operation(t)
  <2>1. PICK p \in {"running", "get", "over"} : AuditTo(t, p)
    BY <1>4 DEF track_operation_start, complete_operation, fail_operation, SettleFails
  <2>2. PICK r \in Auditor : auditor' = [auditor EXCEPT ![t] = r] /\ r.pc = p BY <2>1, AuditToStep
  <2> QED BY <1>1, <1>2, <2>2, AuditorStep
<1> QED BY <1>3, <1>4

LEMMA LogKeeps == ASSUME AuditInv, NEW t \in AuditTask, log_operation(t) PROVE AuditInv'
<1>1. /\ UNCHANGED <<auditFile, tracked, owed, spoilt>> /\ auditor[t].pc = "push" /\ Reading = {} /\ AuditTo(t, "save")
      /\ entries' = Append(entries, <<t, auditor[t].got>>)
  BY DEF log_operation, AuditAt
<1>2. auditor \in [AuditTask -> Auditor] /\ entries \in Seq(AuditEntry) BY DEF AuditInv, AuditShape
<1>3. PICK r \in Auditor : auditor' = [auditor EXCEPT ![t] = r] /\ r.pc = "save" BY <1>1, AuditToStep
<1>4. auditor'[t] = r /\ \A u \in AuditTask : u # t => auditor'[u] = auditor[u] BY <1>2, <1>3
<1>5. PICK e : e = <<t, auditor[t].got>> OBVIOUS
<1>6. e \in AuditEntry /\ e[1] = t BY <1>2, <1>5 DEF AuditEntry, Auditor
<1>7. /\ entries' \in Seq(AuditEntry) /\ Len(entries') = Len(entries) + 1 /\ entries'[Len(entries) + 1] = e
      /\ \A i \in DOMAIN entries : entries'[i] = entries[i]
      /\ DOMAIN entries = 1..Len(entries) /\ DOMAIN entries' = 1..(Len(entries) + 1) /\ Len(entries) \in Nat
  BY <1>1, <1>2, <1>5, <1>6
<1>8. ~Logged(t, entries) BY <1>1 DEF AuditInv, AuditSteps
<1>9. LoggedOnce(entries') BY <1>6, <1>7, <1>8 DEF AuditInv, LoggedOnce, Logged
<1>10. \A u : Logged(u, entries') <=> Logged(u, entries) \/ u = t BY <1>6, <1>7 DEF Logged
<1>11. \A u \in AuditTask : auditor[u].pc \notin {"open", "write"} BY <1>1 DEF Reading
<1>12. \A u \in AuditTask : AuditSteps(u)' BY <1>1, <1>3, <1>4, <1>10, <1>11 DEF AuditInv, AuditSteps
<1>13. OwedKept' BY <1>1, <1>3, <1>4, <1>10, <1>11 DEF AuditInv, OwedKept
<1>14. AuditShape' BY <1>1, <1>2, <1>3, <1>7 DEF AuditInv, AuditShape
<1> QED BY <1>1, <1>9, <1>12, <1>13, <1>14 DEF AuditInv

LEMMA CopyKeeps == ASSUME AuditInv, NEW t \in AuditTask, CopyEntries(t) PROVE AuditInv'
<1>1. PICK r : r = [auditor[t] EXCEPT !.snap = entries, !.pc = "open"] OBVIOUS
<1>2. r \in Auditor /\ r.pc = "open" /\ r.snap = entries BY <1>1 DEF AuditInv, AuditShape, Auditor
<1>3. auditor' = [auditor EXCEPT ![t] = r] BY <1>1 DEF CopyEntries, AuditInv, AuditShape
<1>4. UNCHANGED <<auditFile, entries, tracked, owed, spoilt>> /\ auditor[t].pc = "save" BY DEF CopyEntries, AuditAt
<1> QED BY <1>2, <1>3, <1>4, AuditorStep DEF AuditInv, AuditShape

LEMMA OpenAuditKeeps == ASSUME AuditInv, NEW t \in AuditTask, OpenAudit(t) PROVE AuditInv'
<1>1. UNCHANGED <<entries, tracked, owed, spoilt>> /\ auditor[t].pc = "open" /\ AuditTo(t, "write") /\ auditFile' = TornAudit
  BY DEF OpenAudit, AuditAt
<1>2. auditor \in [AuditTask -> Auditor] BY DEF AuditInv, AuditShape
<1>3. PICK r \in Auditor : auditor' = [auditor EXCEPT ![t] = r] /\ r.pc = "write" /\ r.snap = auditor[t].snap BY <1>1, AuditToStep
<1>4. auditor'[t] = r /\ \A u \in AuditTask : u # t => auditor'[u] = auditor[u] BY <1>2, <1>3
<1>5. auditFile'.torn = TRUE /\ auditFile'.entries = << >> /\ << >> \in Seq(AuditEntry) BY <1>1 DEF TornAudit
<1>6. AuditShape' BY <1>1, <1>2, <1>3, <1>5 DEF AuditInv, AuditShape, TornAudit
<1>7. LoggedOnce(auditFile'.entries) /\ \A u : ~Logged(u, auditFile'.entries) BY <1>5 DEF LoggedOnce, Logged
<1>8. \A u \in AuditTask : AuditSteps(u)' BY <1>1, <1>3, <1>4, <1>7 DEF AuditInv, AuditSteps
<1>9. OwedKept' BY <1>1, <1>3, <1>4, <1>5 DEF AuditInv, OwedKept
<1> QED BY <1>1, <1>6, <1>7, <1>8, <1>9 DEF AuditInv

LEMMA WriteAuditKeeps == ASSUME AuditInv, NEW t \in AuditTask, WriteAudit(t) PROVE AuditInv'
<1>1. /\ UNCHANGED <<entries, tracked, spoilt>> /\ auditor[t].pc = "write" /\ AuditTo(t, "over")
      /\ auditFile' = Written(auditor[t].snap) /\ owed' = owed \cup {t}
  BY DEF WriteAudit, AuditAt
<1>2. auditor \in [AuditTask -> Auditor] /\ entries \in Seq(AuditEntry) BY DEF AuditInv, AuditShape
<1>3. PICK r \in Auditor : auditor' = [auditor EXCEPT ![t] = r] /\ r.pc = "over" BY <1>1, AuditToStep
<1>4. auditor'[t] = r /\ \A u \in AuditTask : u # t => auditor'[u] = auditor[u] BY <1>2, <1>3
<1>5. auditor[t].snap = entries /\ Logged(t, entries) BY <1>1 DEF AuditInv, AuditSteps
<1>6. auditFile'.torn = FALSE /\ auditFile'.entries = entries BY <1>1, <1>5 DEF Written
<1>7. AuditShape' BY <1>1, <1>2, <1>3, <1>5 DEF AuditInv, AuditShape, Written
<1>8. \A u \in AuditTask : AuditSteps(u)' BY <1>1, <1>3, <1>4, <1>6 DEF AuditInv, AuditSteps
<1>9. OwedKept' BY <1>1, <1>5, <1>6 DEF AuditInv, OwedKept
<1> QED BY <1>1, <1>6, <1>7, <1>8, <1>9 DEF AuditInv

LEMMA SaveFailsKeeps == ASSUME AuditInv, NEW t \in AuditTask, SaveFails(t) PROVE AuditInv'
<1>1. UNCHANGED <<auditFile, entries, tracked, owed>> /\ spoilt' = TRUE /\ AuditTo(t, "over") BY DEF SaveFails
<1>2. PICK r \in Auditor : auditor' = [auditor EXCEPT ![t] = r] /\ r.pc = "over" BY <1>1, AuditToStep
<1> QED BY <1>1, <1>2, AuditorStep DEF AuditInv, AuditShape

LEMMA TrackerCommandsKeep == ASSUME AuditInv, NEW t \in AuditTask, Cancelled(t) \/ Deleted(t) PROVE AuditInv'
<1>1. UNCHANGED <<auditFile, entries, auditor, owed, spoilt>> BY DEF Cancelled, Deleted
<1>2. tracked' \in [AuditTask -> AuditStatus]
  <2>1. "Canceled" \in AuditStatus /\ "gone" \in AuditStatus BY DEF AuditStatus
  <2> QED BY <2>1, TrackerStatusFits DEF Cancelled, Deleted
<1>3. AuditShape' BY <1>1, <1>2 DEF AuditInv, AuditShape
<1>4. (\A u \in AuditTask : AuditSteps(u)') /\ OwedKept' BY <1>1 DEF AuditInv, AuditSteps, OwedKept
<1> QED BY <1>1, <1>3, <1>4 DEF AuditInv

LEMMA StopAuditKeeps == ASSUME AuditInv, StopAudit PROVE AuditInv'
<1>1. UNCHANGED <<auditFile, tracked, owed>> /\ entries' = load /\ spoilt' = (spoilt \/ Reading # {}) BY DEF StopAudit
<1>2. auditor' \in [AuditTask -> Auditor]
  <2>1. [NotYet EXCEPT !.pc = "over"] \in Auditor BY NotYetFits DEF Auditor
  <2> QED BY <2>1, NotYetFits DEF StopAudit
<1>3. \A u \in AuditTask : auditor'[u].pc \in {"idle", "over"} /\ (auditor'[u].pc = "idle" => auditor[u].pc = "idle")
  BY NotYetFits DEF StopAudit, AuditAt, Auditor
<1>4. LegacyEntries \in Seq(AuditEntry) /\ LoggedOnce(LegacyEntries) /\ \A u \in AuditTask : ~Logged(u, LegacyEntries)
  <2>1. \A i \in DOMAIN LegacyEntries : LegacyEntries[i] \in AuditEntry BY DEF AuditEntry
  <2>2. LegacyEntries \in Seq({LegacyEntries[i] : i \in DOMAIN LegacyEntries}) BY LegacyAssumption
  <2>3. \A i \in 1..Len(LegacyEntries) : LegacyEntries[i] \in AuditEntry BY <2>1, <2>2
  <2>4. LegacyEntries \in Seq(AuditEntry) BY <2>2, <2>3
  <2> QED BY <2>4, LegacyAssumption DEF Logged, LoggedOnce
<1>5. \/ auditFile.torn /\ entries' = LegacyEntries
      \/ ~auditFile.torn /\ entries' = auditFile.entries
  BY <1>1 DEF load
<1>6. auditFile.entries \in Seq(AuditEntry) /\ LoggedOnce(auditFile.entries) /\ spoilt \in BOOLEAN BY DEF AuditInv, AuditShape
<1>7. AuditShape' BY <1>1, <1>2, <1>4, <1>5, <1>6 DEF AuditInv, AuditShape
<1>8. LoggedOnce(entries') BY <1>4, <1>5, <1>6
<1>9. \A u \in AuditTask : AuditSteps(u)' BY <1>1, <1>3, <1>4, <1>5 DEF AuditInv, AuditSteps
<1>10. OwedKept'
  <2>1. ASSUME ~spoilt' PROVE ~spoilt /\ ~auditFile.torn BY <1>1, <2>1 DEF Reading, AuditInv, OwedKept
  <2> QED BY <1>1, <1>5, <2>1 DEF AuditInv, OwedKept
<1> QED BY <1>1, <1>6, <1>7, <1>8, <1>9, <1>10 DEF AuditInv

LEMMA AuditStepKeeps == AuditInv /\ [AuditNext]_auditVars => AuditInv'
<1> SUFFICES ASSUME AuditInv, [AuditNext]_auditVars PROVE AuditInv' OBVIOUS
<1>1. CASE UNCHANGED auditVars
  <2>1. AuditShape' BY <1>1 DEF auditVars, AuditInv, AuditShape
  <2>2. (\A u \in AuditTask : AuditSteps(u)') /\ OwedKept' BY <1>1 DEF auditVars, AuditInv, AuditSteps, OwedKept
  <2> QED BY <1>1, <2>1, <2>2 DEF auditVars, AuditInv
<1> QED BY <1>1, HelperKeeps, LogKeeps, CopyKeeps, OpenAuditKeeps, WriteAuditKeeps, SaveFailsKeeps, TrackerCommandsKeep, StopAuditKeeps
        DEF AuditNext

\* The invariant of the audit log holds in every state.
THEOREM AuditInductive == AuditSpec => []AuditInv
BY AuditStart, AuditStepKeeps, PTL DEF AuditSpec

\* Unless a save failed or was cut off, an operation whose end was answered is in memory exactly
\* once, restarts included, and in the file whenever nobody saves (audit_log.rs).
THEOREM AuditCorrect == AuditSpec => []AuditKept
<1>1. AuditInv => AuditKept
  <2> SUFFICES ASSUME AuditInv, ~spoilt
               PROVE  /\ \A t \in owed : Cardinality({i \in DOMAIN entries : entries[i][1] = t}) = 1
                      /\ Reading = {} => /\ ~auditFile.torn
                                         /\ \A t \in owed : \E i \in DOMAIN auditFile.entries : auditFile.entries[i][1] = t
    BY DEF AuditKept
  <2>1. ASSUME NEW t \in owed PROVE Cardinality({i \in DOMAIN entries : entries[i][1] = t}) = 1
    <3>1. t \in AuditTask /\ Logged(t, entries) /\ LoggedOnce(entries) BY DEF AuditInv, AuditShape, OwedKept
    <3>2. PICK n \in DOMAIN entries : entries[n][1] = t BY <3>1 DEF Logged
    <3>3. {i \in DOMAIN entries : entries[i][1] = t} = {n} BY <3>1, <3>2 DEF LoggedOnce
    <3> QED BY <3>3, FS_Singleton
  <2>2. ASSUME Reading = {} PROVE ~auditFile.torn BY <2>2 DEF AuditInv, OwedKept, Reading
  <2>3. ASSUME Reading = {}, NEW t \in owed PROVE \E i \in DOMAIN auditFile.entries : auditFile.entries[i][1] = t
    BY <2>2, <2>3 DEF AuditInv, OwedKept, Logged
  <2> QED BY <2>1, <2>2, <2>3
<1> QED BY <1>1, AuditInductive, PTL

(****************************************************************************)
(* The settings and their migration                                         *)
(****************************************************************************)
SettingsTasks == SettingsClient \cup {Main}
NewData == <<"diaspor", "data">>
OldData == <<"ursly", "data">>
SettingsShape ==
    /\ task \in [SettingsTasks -> [pc : {"off", "migrate", "load", "save", "open", "write", "up", "idle"}, i : 1..3]]
    /\ DOMAIN stored = {"ursly", "diaspor", "fallback"} /\ writer \in SettingsClient \cup {Nobody}
    /\ cut \in BOOLEAN /\ refused \in BOOLEAN

\* Only the start writes a file: a client that has the write lock waits for itself.
OnlyMainSaves ==
    /\ \A c \in SettingsClient : task[c].pc \in {"idle", "save"} /\ (task[c].pc = "save" => writer = c)
    /\ task[Main].pc # "idle" /\ (task[Main].pc \in {"save", "open", "write"} => task[Main].i <= 2)
    /\ writer # Nobody => task[Main].pc = "up"

MainIs(pcs) == task[Main].pc \in pcs
AsStored == MainIs({"up"}) /\ writer = Nobody /\ task[Main].i <= 2 => Json(prefs) = stored[SettingsDirs[task[Main].i]]

\* The earlier settings are still under the old name: nothing has looked for the new one, or
\* something was refused.
StillOld ==
    /\ stored["ursly"].of = earlier
    /\ ~refused => /\ NewData \notin dirs /\ stored["diaspor"] = Absent /\ MainIs({"off", "migrate", "load"})
                   /\ MainIs({"load"}) \/ (MainIs({"migrate"}) /\ task[Main].i = 3) => OldData \notin dirs
\* Or they are under the new one, or in memory while they are written there.
NowNew ==
    /\ NewData \in dirs
    /\ stored["diaspor"].of = earlier \/ (MainIs({"write"}) /\ task[Main].i = 1)
    /\ MainIs({"save", "open", "write"}) /\ task[Main].i = 1 => prefs = earlier
OldFile == OldData \notin dirs => stored["ursly"].of = DefaultSettings
UnlessCut == ~cut => /\ StillOld \/ NowNew
                     /\ ~refused /\ MainIs({"load", "save", "open", "write", "up"}) => task[Main].i = 1

SettingsInv == SettingsShape /\ OnlyMainSaves /\ AsStored /\ OldFile /\ UnlessCut

LEMMA SettingsLists == /\ Len(Kinds) = 3 /\ Kinds[1] = "config" /\ Kinds[2] = "data" /\ Kinds[3] = "cache"
                       /\ Len(SettingsDirs) = 2 /\ SettingsDirs[1] = "diaspor" /\ SettingsDirs[2] = "fallback"
BY DEF Kinds, SettingsDirs

LEMMA SettingsStart == SettingsInit => SettingsInv
<1> SUFFICES ASSUME SettingsInit PROVE SettingsInv OBVIOUS
<1>1. PICK ds \in {{}, {"ursly"}, {"diaspor"}, {"ursly", "diaspor"}} :
         /\ dirs = ds \X {"config", "data", "cache"}
         /\ stored \in [{"ursly", "diaspor", "fallback"} -> {Json(s) : s \in EarlierSettings} \cup {Absent}]
         /\ stored["fallback"] = Absent /\ \A d \in {"ursly", "diaspor"} : stored[d] # Absent => d \in ds
         /\ earlier = Parsed(stored[IF "diaspor" \in ds THEN "diaspor" ELSE "ursly"])
  BY DEF SettingsInit
<1>2. task = [c \in SettingsTasks |-> [pc |-> IF c = Main THEN "off" ELSE "idle", i |-> 1]] /\ writer = Nobody /\ ~cut /\ ~refused
  BY DEF SettingsInit, SettingsTasks
<1>3. /\ task[Main].pc = "off" /\ task[Main].i = 1 /\ \A c \in SettingsClient : task[c].pc = "idle"
      /\ task \in [SettingsTasks -> [pc : {"off", "migrate", "load", "save", "open", "write", "up", "idle"}, i : 1..3]]
  BY <1>2, SettingsClientAssumption DEF SettingsTasks
<1>4. SettingsShape BY <1>1, <1>2, <1>3 DEF SettingsShape, SettingsInit
<1>5. OnlyMainSaves /\ AsStored BY <1>2, <1>3 DEF OnlyMainSaves, AsStored, MainIs
<1>6. Absent.of = DefaultSettings BY DEF Absent
<1>7. OldFile
  <2>1. "ursly" \in ds => OldData \in dirs BY <1>1 DEF OldData
  <2> QED BY <1>1, <1>6, <2>1 DEF OldFile
<1>8. UnlessCut
  <2>1. CASE "diaspor" \in ds
    <3>1. NewData \in dirs BY <1>1, <2>1 DEF NewData
    <3>2. stored["diaspor"].of = earlier BY <1>1, <2>1 DEF Parsed
    <3> QED BY <1>2, <1>3, <3>1, <3>2 DEF UnlessCut, NowNew, MainIs
  <2>2. CASE "diaspor" \notin ds
    <3>1. NewData \notin dirs BY <1>1, <2>2 DEF NewData
    <3>2. stored["ursly"].of = earlier /\ stored["diaspor"] = Absent BY <1>1, <2>2 DEF Parsed
    <3> QED BY <1>2, <1>3, <3>1, <3>2 DEF UnlessCut, StillOld, MainIs
  <2> QED BY <2>1, <2>2
<1> QED BY <1>4, <1>5, <1>7, <1>8 DEF SettingsInv

\* A step of the start.
LEMMA MainGoes ==
    ASSUME SettingsInv, NEW pc \in {"off", "migrate", "load", "save", "open", "write", "up"}, NEW i \in 1..3, TaskTo(Main, pc, i)
    PROVE  /\ task' \in [SettingsTasks -> [pc : {"off", "migrate", "load", "save", "open", "write", "up", "idle"}, i : 1..3]]
           /\ task'[Main].pc = pc /\ task'[Main].i = i /\ \A c \in SettingsClient : task'[c] = task[c]
BY SettingsClientAssumption DEF TaskTo, SettingsInv, SettingsShape, SettingsTasks

LEMMA MainStep ==
    ASSUME SettingsInv, NEW pc \in {"off", "migrate", "load", "save", "open", "write", "up"}, NEW i \in 1..3, TaskTo(Main, pc, i),
           UNCHANGED writer, task[Main].pc # "up", pc \in {"save", "open", "write"} => i <= 2,
           DOMAIN stored' = DOMAIN stored, cut' \in BOOLEAN, refused' \in BOOLEAN, AsStored', OldFile', UnlessCut'
    PROVE  SettingsInv'
<1>1. /\ task' \in [SettingsTasks -> [pc : {"off", "migrate", "load", "save", "open", "write", "up", "idle"}, i : 1..3]]
      /\ task'[Main].pc = pc /\ task'[Main].i = i /\ \A c \in SettingsClient : task'[c] = task[c]
  BY MainGoes
<1>2. SettingsShape' BY <1>1 DEF SettingsInv, SettingsShape
<1>3. OnlyMainSaves' BY <1>1 DEF SettingsInv, OnlyMainSaves
<1> QED BY <1>2, <1>3 DEF SettingsInv

LEMMA StartKeeps == ASSUME SettingsInv, start_run PROVE SettingsInv'
<1>1. UNCHANGED <<dirs, stored, prefs, writer, earlier, refused, cut>> /\ task[Main].pc = "off" /\ TaskTo(Main, "migrate", 1)
  BY DEF start_run, TaskAt
<1>2. task'[Main].pc = "migrate" /\ task'[Main].i = 1 BY <1>1, MainGoes
<1>3. AsStored' BY <1>2 DEF AsStored, MainIs
<1>4. OldFile' BY <1>1 DEF SettingsInv, OldFile
<1>5. UnlessCut' BY <1>1, <1>2 DEF SettingsInv, UnlessCut, StillOld, NowNew, MainIs
<1> QED BY <1>1, <1>3, <1>4, <1>5, MainStep DEF SettingsInv, SettingsShape

LEMMA MigrateKeeps == ASSUME SettingsInv, migrate_ursly_to_diaspor PROVE SettingsInv'
<1>1. PICK i : i = task[Main].i OBVIOUS
<1>2. i \in 1..3 /\ task[Main].pc = "migrate" /\ UNCHANGED <<prefs, writer, earlier, cut>>
  BY <1>1 DEF migrate_ursly_to_diaspor, TaskAt, SettingsInv, SettingsShape, SettingsTasks
<1>3. PICK from, to : from = <<"ursly", Kinds[i]>> /\ to = <<"diaspor", Kinds[i]>> OBVIOUS
<1>4. MigrationDone(i) /\ \/ (from \notin dirs \/ to \in dirs) /\ UNCHANGED <<dirs, stored, refused>>
                          \/ /\ from \in dirs /\ to \notin dirs /\ UNCHANGED refused /\ dirs' = (dirs \ {from}) \cup {to}
                             /\ stored' = IF Kinds[i] # "data" THEN stored
                                          ELSE [stored EXCEPT !["diaspor"] = stored["ursly"], !["ursly"] = Absent]
                          \/ refused' = TRUE /\ UNCHANGED <<dirs, stored>>
  BY <1>1, <1>3 DEF migrate_ursly_to_diaspor
<1>5. PICK pc \in {"migrate", "load"}, n \in 1..3 : TaskTo(Main, pc, n) /\ ((pc = "load" /\ n = 1 /\ i = 3) \/ (pc = "migrate" /\ n = i + 1))
  BY <1>2, <1>4, SettingsLists DEF MigrationDone
<1>6. task'[Main].pc = pc /\ task'[Main].i = n BY <1>5, MainGoes
<1>7. AsStored' BY <1>6 DEF AsStored, MainIs
<1>8. DOMAIN stored' = DOMAIN stored /\ refused' \in BOOLEAN /\ cut' \in BOOLEAN BY <1>2, <1>4 DEF SettingsInv, SettingsShape
<1>9. ~cut /\ ~cut' => StillOld \/ NowNew BY DEF SettingsInv, UnlessCut
<1>10. cut' = cut /\ (~refused' /\ MainIs({"load", "save", "open", "write", "up"})' => task'[Main].i = 1)
  BY <1>2, <1>5, <1>6 DEF MainIs
<1>11. i = 2 => from = OldData /\ to = NewData BY <1>3, SettingsLists DEF OldData, NewData
<1>12. i # 2 => /\ from # OldData /\ to # NewData /\ from # NewData /\ to # OldData /\ Kinds[i] # "data"
  BY <1>2, <1>3, SettingsLists DEF OldData, NewData
<1>13. OldData # NewData BY DEF OldData, NewData
<1>14. CASE (from \notin dirs \/ to \in dirs) /\ UNCHANGED <<dirs, stored, refused>>
  <2>1. OldFile' BY <1>14 DEF SettingsInv, OldFile
  <2>2. StillOld => StillOld' BY <1>1, <1>2, <1>5, <1>6, <1>11, <1>14 DEF StillOld, MainIs
  <2>3. NowNew => NowNew' BY <1>2, <1>5, <1>6, <1>14 DEF NowNew, MainIs
  <2>4. UnlessCut' BY <1>9, <1>10, <2>2, <2>3 DEF UnlessCut
  <2> QED BY <1>2, <1>5, <1>7, <1>8, <2>1, <2>4, MainStep
<1>15. CASE refused' = TRUE /\ UNCHANGED <<dirs, stored>>
  <2>1. OldFile' BY <1>15 DEF SettingsInv, OldFile
  <2>2. StillOld => StillOld' BY <1>2, <1>15 DEF StillOld
  <2>3. NowNew => NowNew' BY <1>2, <1>5, <1>6, <1>15 DEF NowNew, MainIs
  <2>4. UnlessCut' BY <1>9, <1>10, <2>2, <2>3 DEF UnlessCut
  <2> QED BY <1>2, <1>5, <1>7, <1>8, <2>1, <2>4, MainStep
<1>16. CASE i = 2 /\ from \in dirs /\ to \notin dirs /\ UNCHANGED refused /\ dirs' = (dirs \ {from}) \cup {to}
  <2>1. stored' = [stored EXCEPT !["diaspor"] = stored["ursly"], !["ursly"] = Absent]
    BY <1>4, <1>16, SettingsLists, <1>15
  <2>2. stored'["diaspor"] = stored["ursly"] /\ stored'["ursly"] = Absent BY <2>1 DEF SettingsInv, SettingsShape
  <2>3. OldFile' BY <2>2 DEF OldFile, Absent
  <2>4. NewData \in dirs' /\ NewData \notin dirs BY <1>11, <1>16
  <2>5. ~NowNew BY <2>4 DEF NowNew
  <2>6. StillOld => NowNew' BY <1>2, <1>5, <1>6, <2>2, <2>4 DEF StillOld, NowNew, MainIs
  <2>7. UnlessCut' BY <1>9, <1>10, <2>5, <2>6 DEF UnlessCut
  <2> QED BY <1>2, <1>5, <1>7, <1>8, <2>3, <2>7, MainStep
<1>17. CASE i # 2 /\ from \in dirs /\ to \notin dirs /\ UNCHANGED refused /\ dirs' = (dirs \ {from}) \cup {to} /\ stored' = stored
  <2>1. (NewData \in dirs' <=> NewData \in dirs) /\ (OldData \in dirs' <=> OldData \in dirs) BY <1>12, <1>17
  <2>2. OldFile' BY <1>17, <2>1 DEF SettingsInv, OldFile
  <2>3. StillOld => StillOld' BY <1>1, <1>2, <1>5, <1>6, <1>17, <2>1 DEF StillOld, MainIs
  <2>4. NowNew => NowNew' BY <1>2, <1>5, <1>6, <1>17, <2>1 DEF NowNew, MainIs
  <2>5. UnlessCut' BY <1>9, <1>10, <2>3, <2>4 DEF UnlessCut
  <2> QED BY <1>2, <1>5, <1>7, <1>8, <2>2, <2>5, MainStep
<1> QED BY <1>4, <1>12, <1>14, <1>15, <1>16, <1>17

LEMMA NewKeeps == ASSUME SettingsInv, new PROVE SettingsInv'
<1>1. PICK i : i = task[Main].i OBVIOUS
<1>2. i \in 1..3 /\ task[Main].pc = "load" /\ UNCHANGED <<stored, writer, earlier, refused, cut>>
  BY <1>1 DEF new, TaskAt, SettingsInv, SettingsShape, SettingsTasks
<1>3. CASE i > 2
  <2>1. prefs' = DefaultSettings /\ TaskTo(Main, "up", 3) /\ UNCHANGED dirs BY <1>1, <1>2, <1>3, SettingsLists DEF new
  <2>2. task'[Main].pc = "up" /\ task'[Main].i = 3 BY <2>1, MainGoes
  <2>3. AsStored' BY <2>2 DEF AsStored
  <2>4. OldFile' BY <1>2, <2>1 DEF SettingsInv, OldFile
  <2>5. UnlessCut'
    <3> SUFFICES ASSUME ~cut' PROVE UnlessCut' BY DEF UnlessCut
    <3>1. refused BY <1>1, <1>2, <1>3 DEF SettingsInv, UnlessCut, MainIs
    <3> QED BY <1>2, <2>1, <2>2, <3>1 DEF SettingsInv, UnlessCut, StillOld, NowNew, MainIs
  <2> QED BY <1>2, <2>1, <2>3, <2>4, <2>5, MainStep DEF SettingsInv, SettingsShape
<1>4. CASE i <= 2
  <2>1. /\ prefs' = stored[SettingsDirs[i]].of /\ TaskTo(Main, "save", i)
        /\ dirs' = IF i = 1 THEN dirs \cup {NewData} ELSE dirs
    BY <1>1, <1>2, <1>4, SettingsLists DEF new, Parsed, NewData
  <2>2. task'[Main].pc = "save" /\ task'[Main].i = i BY <1>2, <2>1, MainGoes
  <2>3. AsStored' BY <2>2 DEF AsStored, MainIs
  <2>4. OldData # NewData /\ (OldData \in dirs' <=> OldData \in dirs) BY <2>1 DEF OldData, NewData
  <2>5. OldFile' BY <1>2, <2>4 DEF SettingsInv, OldFile
  <2>6. UnlessCut'
    <3> SUFFICES ASSUME ~cut' PROVE UnlessCut' BY DEF UnlessCut
    <3>1. ~cut /\ (~refused => i = 1) BY <1>1, <1>2 DEF SettingsInv, UnlessCut, MainIs
    <3>2. CASE NowNew
      <4>1. i = 1 => prefs' = earlier BY <1>2, <2>1, <3>2, SettingsLists DEF NowNew, MainIs
      <4> QED BY <1>2, <2>1, <2>2, <3>1, <3>2, <4>1 DEF UnlessCut, NowNew, MainIs
    <3>3. CASE StillOld /\ refused BY <1>2, <3>3 DEF UnlessCut, StillOld
    <3>4. CASE StillOld /\ ~refused
      <4>1. OldData \notin dirs /\ stored["diaspor"] = Absent /\ stored["ursly"].of = earlier BY <1>2, <3>4 DEF StillOld, MainIs
      <4>2. earlier = DefaultSettings /\ Absent.of = DefaultSettings BY <4>1 DEF SettingsInv, OldFile, Absent
      <4>3. prefs' = earlier /\ stored["diaspor"].of = earlier BY <2>1, <3>1, <3>4, <4>1, <4>2, SettingsLists
      <4> QED BY <1>2, <2>1, <2>2, <3>1, <3>4, <4>3 DEF UnlessCut, NowNew, MainIs
    <3> QED BY <3>1, <3>2, <3>3, <3>4 DEF SettingsInv, UnlessCut
  <2> QED BY <1>2, <1>4, <2>1, <2>3, <2>5, <2>6, MainStep DEF SettingsInv, SettingsShape
<1> QED BY <1>2, <1>3, <1>4

LEMMA NewFailsKeeps == ASSUME SettingsInv, NewFails PROVE SettingsInv'
<1>1. PICK n : n = task[Main].i + 1 OBVIOUS
<1>2. /\ n \in 1..3 /\ task[Main].pc = "load" /\ UNCHANGED <<dirs, stored, prefs, writer, earlier, cut>> /\ refused' = TRUE
      /\ TaskTo(Main, "load", n)
  BY <1>1, SettingsLists DEF NewFails, TaskAt, SettingsInv, SettingsShape, SettingsTasks
<1>3. task'[Main].pc = "load" BY <1>2, MainGoes
<1>4. AsStored' BY <1>3 DEF AsStored, MainIs
<1>5. OldFile' BY <1>2 DEF SettingsInv, OldFile
<1>6. UnlessCut' BY <1>2, <1>3 DEF SettingsInv, UnlessCut, StillOld, NowNew, MainIs
<1> QED BY <1>2, <1>4, <1>5, <1>6, MainStep DEF SettingsInv, SettingsShape

LEMMA FirstSaveFailsKeeps == ASSUME SettingsInv, FirstSaveFails PROVE SettingsInv'
<1>1. PICK n : n = task[Main].i + 1 OBVIOUS
<1>2. /\ n \in 1..3 /\ task[Main].pc # "up" /\ UNCHANGED <<dirs, stored, prefs, writer, earlier, refused>> /\ cut' = TRUE
      /\ TaskTo(Main, "load", n)
  BY <1>1 DEF FirstSaveFails, SettingsInv, SettingsShape, OnlyMainSaves, SettingsTasks
<1>3. task'[Main].pc = "load" BY <1>2, MainGoes
<1>4. AsStored' BY <1>3 DEF AsStored, MainIs
<1>5. OldFile' BY <1>2 DEF SettingsInv, OldFile
<1>6. UnlessCut' BY <1>2 DEF UnlessCut
<1> QED BY <1>2, <1>4, <1>5, <1>6, MainStep DEF SettingsInv, SettingsShape

LEMMA SavesKeep == ASSUME SettingsInv, NEW c \in SettingsClient \cup {Main}, save_prefs(c) \/ OpenSettings(c) \/ WriteSettings(c) PROVE SettingsInv'
<1>1. c = Main
  BY SettingsClientAssumption DEF SettingsInv, OnlyMainSaves, save_prefs, OpenSettings, WriteSettings, TaskAt
<1>2. PICK i : i = task[Main].i OBVIOUS
<1>3. i \in 1..2 /\ task[Main].pc \in {"save", "open", "write"} /\ UNCHANGED <<dirs, prefs, writer, earlier, refused, cut>>
  BY <1>1, <1>2 DEF SettingsInv, OnlyMainSaves, SettingsShape, SettingsTasks, save_prefs, OpenSettings, WriteSettings, TaskAt
<1>4. PICK f : f = SettingsDirs[i] OBVIOUS
<1>5. f \in DOMAIN stored /\ f # "ursly" /\ (f = "diaspor" <=> i = 1) BY <1>3, <1>4, SettingsLists DEF SettingsInv, SettingsShape
<1>6. CASE save_prefs(c)
  <2>1. task[Main].pc = "save" /\ TaskTo(Main, "open", i) /\ UNCHANGED stored BY <1>1, <1>2, <1>6 DEF save_prefs, TaskAt
  <2>2. task'[Main].pc = "open" /\ task'[Main].i = i BY <1>3, <2>1, MainGoes
  <2>3. AsStored' BY <2>2 DEF AsStored, MainIs
  <2>4. OldFile' BY <1>3, <2>1 DEF SettingsInv, OldFile
  <2>5. UnlessCut' BY <1>2, <1>3, <2>1, <2>2 DEF SettingsInv, UnlessCut, StillOld, NowNew, MainIs
  <2> QED BY <1>3, <2>1, <2>3, <2>4, <2>5, MainStep DEF SettingsInv, SettingsShape
<1>7. CASE OpenSettings(c)
  <2>1. task[Main].pc = "open" /\ TaskTo(Main, "write", i) /\ stored' = [stored EXCEPT ![f] = Torn]
    BY <1>1, <1>2, <1>4, <1>7 DEF OpenSettings, TaskAt, File
  <2>2. task'[Main].pc = "write" /\ task'[Main].i = i BY <1>3, <2>1, MainGoes
  <2>3. AsStored' BY <2>2 DEF AsStored, MainIs
  <2>4. DOMAIN stored' = DOMAIN stored /\ stored'["ursly"] = stored["ursly"] /\ (i # 1 => stored'["diaspor"] = stored["diaspor"])
    BY <1>5, <2>1 DEF SettingsInv, SettingsShape
  <2>5. OldFile' BY <1>3, <2>4 DEF SettingsInv, OldFile
  <2>6. UnlessCut' BY <1>2, <1>3, <2>1, <2>2, <2>4 DEF SettingsInv, UnlessCut, StillOld, NowNew, MainIs
  <2> QED BY <1>3, <2>1, <2>3, <2>4, <2>5, <2>6, MainStep DEF SettingsInv, SettingsShape
<1>8. CASE WriteSettings(c)
  <2>1. task[Main].pc = "write" /\ TaskTo(Main, "up", i) /\ stored' = [stored EXCEPT ![f] = Json(prefs)]
    BY <1>1, <1>2, <1>4, <1>8 DEF WriteSettings, TaskAt, File
  <2>2. task'[Main].pc = "up" /\ task'[Main].i = i BY <1>3, <2>1, MainGoes
  <2>3. /\ DOMAIN stored' = DOMAIN stored /\ stored'["ursly"] = stored["ursly"] /\ (i # 1 => stored'["diaspor"] = stored["diaspor"])
        /\ stored'[f] = Json(prefs)
    BY <1>5, <2>1 DEF SettingsInv, SettingsShape
  <2>4. AsStored' BY <1>3, <1>4, <2>2, <2>3 DEF AsStored
  <2>5. OldFile' BY <1>3, <2>3 DEF SettingsInv, OldFile
  <2>6. i = 1 => stored'["diaspor"].of = prefs BY <1>5, <2>3 DEF Json
  <2>7. UnlessCut' BY <1>2, <1>3, <2>1, <2>2, <2>3, <2>6 DEF SettingsInv, UnlessCut, StillOld, NowNew, MainIs
  <2> QED BY <1>3, <2>1, <2>3, <2>4, <2>5, <2>7, MainStep DEF SettingsInv, SettingsShape
<1> QED BY <1>6, <1>7, <1>8

LEMMA ClientsKeep == ASSUME SettingsInv, NEW c \in SettingsClient, get_settings(c) \/ update_settings(c) \/ reset_settings(c) PROVE SettingsInv'
<1>1. CASE get_settings(c)
  <2>1. UNCHANGED <<dirs, stored, prefs, writer, task, earlier, refused, cut>> BY <1>1 DEF get_settings
  <2> QED BY <2>1 DEF SettingsInv, SettingsShape, OnlyMainSaves, AsStored, OldFile, UnlessCut, StillOld, NowNew, MainIs
<1>2. CASE ~get_settings(c)
  <2>1. PICK new_settings : ChangeSettings(c, new_settings) BY <1>2 DEF update_settings, reset_settings
  <2>2. /\ task[Main].pc = "up" /\ writer' = c /\ UNCHANGED <<dirs, stored, earlier, refused, cut>>
        /\ task' = [task EXCEPT ![c] = [pc |-> "save", i |-> task[Main].i]] /\ writer = Nobody
    BY <2>1 DEF ChangeSettings, Call, TaskAt, TaskTo
  <2>3. c # Main /\ c # Nobody /\ c \in SettingsTasks /\ Main \in SettingsTasks BY SettingsClientAssumption DEF SettingsTasks
  <2>4. /\ task' \in [SettingsTasks -> [pc : {"off", "migrate", "load", "save", "open", "write", "up", "idle"}, i : 1..3]]
        /\ task'[c].pc = "save" /\ task'[Main] = task[Main] /\ \A d \in SettingsClient : d # c => task'[d] = task[d]
    <3>1. task[Main].i \in 1..3 BY <2>3 DEF SettingsInv, SettingsShape
    <3>2. [pc |-> "save", i |-> task[Main].i] \in [pc : {"off", "migrate", "load", "save", "open", "write", "up", "idle"}, i : 1..3]
      BY <3>1
    <3> QED BY <2>2, <2>3, <3>2 DEF SettingsInv, SettingsShape, SettingsTasks
  <2>5. SettingsShape' BY <2>2, <2>4 DEF SettingsInv, SettingsShape
  <2>6. OnlyMainSaves' BY <2>2, <2>3, <2>4, SettingsClientAssumption DEF SettingsInv, OnlyMainSaves
  <2>7. AsStored' BY <2>2, <2>3 DEF AsStored
  <2>8. OldFile' BY <2>2 DEF SettingsInv, OldFile
  <2>9. UnlessCut' BY <2>2, <2>4 DEF SettingsInv, UnlessCut, StillOld, NowNew, MainIs
  <2> QED BY <2>5, <2>6, <2>7, <2>8, <2>9 DEF SettingsInv
<1> QED BY <1>1, <1>2

LEMMA StopSettingsKeeps == ASSUME SettingsInv, StopSettings PROVE SettingsInv'
<1>1. /\ UNCHANGED <<dirs, stored, earlier, refused>> /\ writer' = Nobody /\ cut' = (cut \/ \E c \in DOMAIN task : TaskAt(c, "write"))
      /\ task' = [c \in DOMAIN task |-> [pc |-> IF c = Main THEN "off" ELSE "idle", i |-> 1]]
  BY DEF StopSettings
<1>2. DOMAIN task = SettingsTasks /\ Main \in SettingsTasks /\ cut \in BOOLEAN BY DEF SettingsInv, SettingsShape, SettingsTasks
<1>3. /\ task' \in [SettingsTasks -> [pc : {"off", "migrate", "load", "save", "open", "write", "up", "idle"}, i : 1..3]]
      /\ task'[Main].pc = "off" /\ task'[Main].i = 1 /\ \A c \in SettingsClient : task'[c].pc = "idle"
  BY <1>1, <1>2, SettingsClientAssumption DEF SettingsTasks
<1>4. SettingsShape' BY <1>1, <1>2, <1>3 DEF SettingsInv, SettingsShape
<1>5. OnlyMainSaves' BY <1>1, <1>3 DEF OnlyMainSaves
<1>6. AsStored' BY <1>3 DEF AsStored, MainIs
<1>7. OldFile' BY <1>1 DEF SettingsInv, OldFile
<1>8. UnlessCut'
  <2> SUFFICES ASSUME ~cut' PROVE UnlessCut' BY DEF UnlessCut
  <2>1. ~cut /\ task[Main].pc # "write" BY <1>1, <1>2 DEF TaskAt
  <2> QED BY <1>1, <1>3, <2>1 DEF SettingsInv, UnlessCut, StillOld, NowNew, MainIs
<1> QED BY <1>4, <1>5, <1>6, <1>7, <1>8 DEF SettingsInv

LEMMA SettingsStepKeeps == SettingsInv /\ [SettingsNext]_settingsVars => SettingsInv'
<1> SUFFICES ASSUME SettingsInv, [SettingsNext]_settingsVars PROVE SettingsInv' OBVIOUS
<1>1. CASE UNCHANGED settingsVars
  BY <1>1 DEF settingsVars, SettingsInv, SettingsShape, OnlyMainSaves, AsStored, OldFile, UnlessCut, StillOld, NowNew, MainIs
<1> QED BY <1>1, StartKeeps, MigrateKeeps, NewKeeps, NewFailsKeeps, FirstSaveFailsKeeps, StopSettingsKeeps, SavesKeep, ClientsKeep
        DEF SettingsNext

\* The invariant of the application's settings holds in every state.
THEOREM SettingsInductive == SettingsSpec => []SettingsInv
BY SettingsStart, SettingsStepKeeps, PTL DEF SettingsSpec

\* Unless a save was cut off no start loses the settings of the earlier installation, whatever
\* was interrupted, and what a command is answered is what the file holds (settings.rs,
\* migrate_config.rs).
THEOREM SettingsCorrect == SettingsSpec => []SettingsKept
<1>1. SettingsInv => SettingsKept
  <2> SUFFICES ASSUME SettingsInv PROVE SettingsKept OBVIOUS
  <2>1. Main \in DOMAIN task BY DEF SettingsInv, SettingsShape, SettingsTasks
  <2>2. ASSUME ~cut, ~\E c \in DOMAIN task : TaskAt(c, "write")
        PROVE  \E d \in {"ursly", "diaspor"} : Parsed(stored[d]) = earlier
    <3>1. task[Main].pc # "write" BY <2>1, <2>2 DEF TaskAt
    <3> QED BY <2>2, <3>1 DEF SettingsInv, UnlessCut, StillOld, NowNew, MainIs, Parsed
  <2>3. ASSUME TaskAt(Main, "up"), writer = Nobody, task[Main].i <= Len(SettingsDirs)
        PROVE  Json(prefs) = stored[SettingsDirs[task[Main].i]]
    BY <2>3, SettingsLists DEF SettingsInv, AsStored, MainIs, TaskAt
  <2>4. ASSUME TaskAt(Main, "up"), writer = Nobody, ~cut, ~refused
        PROVE  prefs = earlier
    <3>1. task[Main].pc = "up" /\ task[Main].i = 1 BY <2>4 DEF SettingsInv, UnlessCut, MainIs, TaskAt
    <3>2. Json(prefs) = stored["diaspor"] BY <2>3, <2>4, <3>1, SettingsLists
    <3>3. stored["diaspor"].of = earlier BY <2>4, <3>1 DEF SettingsInv, UnlessCut, StillOld, NowNew, MainIs
    <3> QED BY <3>2, <3>3 DEF Json
  <2> QED BY <2>2, <2>3, <2>4 DEF SettingsKept
<1> QED BY <1>1, SettingsInductive, PTL
=============================================================================
