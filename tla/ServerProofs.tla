---------------------------- MODULE ServerProofs ----------------------------
(***************************************************************************)
(* Proofs about two components of the run server: the quotas and answers of the *)
(* API server, and the changes of storage tiers.                              *)
(***************************************************************************)
EXTENDS ApiServer, Tiers, FiniteSetTheorems, TLAPS

-----------------------------------------------------------------------------
(* Tiers. *)
BusyPcs == {"read", "temp", "delete", "rewrite", "clean"}
OpenPcs == BusyPcs \cup {"copy"}
TierSources == DOMAIN TierSource \cup {"none"}
TierChange == [src : TierSources, target : TierSources, tier : {"none", "nearline", "cold", "local", "frozen"}, offered : BOOLEAN,
               paths : Seq(TierKey), pc : OpenPcs \cup {"idle", "next", "done", "refused"}, at : Nat, data : Nat, synced : Nat,
               failed : Nat, ops : SUBSET Nat]
TierOperation == [key : TierKey, status : {"open", "completed", "failed"}]
TierShape == /\ tiering \in [TierClient -> TierChange] /\ operations \in Seq(TierOperation) /\ latest \in [TierKey -> Nat]
             /\ objects \in [DOMAIN objects -> Nat] /\ trouble \in Nat

\* How far a command is in its paths, and what became of their operations: all are settled but
\* the one of the path it is at, which is the newest of them.
Completed(r, os) == {i \in r.ops : os[i].status = "completed"}
OpsRight(r, os) ==
    /\ r.ops \subseteq 1..Len(os) /\ r.at = r.synced + r.failed + 1 /\ Cardinality(Completed(r, os)) = r.synced
    /\ r.pc \in OpenPcs => /\ r.at <= Len(r.paths)
                           /\ \E i \in r.ops : /\ os[i].status = "open"
                                               /\ \A j \in r.ops : j <= i /\ (j # i => os[j].status # "open")
    /\ r.pc \notin OpenPcs => \A j \in r.ops : os[j].status # "open"
    /\ r.pc = "next" => r.at <= Len(r.paths) + 1
    /\ r.pc = "done" => r.at = Len(r.paths) + 1
RefusedRight(r) == r.pc = "refused" /\ r.offered => Type(r.src) \in {"gcs", "azure"} \/ r.tier = "local"
OwnOps == \A c, d \in TierClient : c # d => tiering[c].ops \cap tiering[d].ops = {}
OpsInv == OwnOps /\ \A c \in TierClient : OpsRight(tiering[c], operations) /\ RefusedRight(tiering[c])

\* Where the newest version of an object is while a change of it is under way.
BusyAt(r, k) == r.pc \in BusyPcs /\ r.paths[r.at] = k
WholeKept(k) == Whole(k) \in DOMAIN objects
TempKept(k)  == Temp(k) \in DOMAIN objects /\ objects[Temp(k)] = latest[k]
KeyHeld(r, k) == BusyAt(r, k) => /\ r.pc \in {"temp", "delete", "clean"} => WholeKept(k)
                                 /\ r.pc \in {"temp", "delete", "rewrite"} => r.data = latest[k]
                                 /\ r.pc \in {"delete", "rewrite"} => TempKept(k)
KeyThere(k) == /\ WholeKept(k) => objects[Whole(k)] = latest[k]
               /\ WholeKept(k) \/ (TempKept(k) /\ (trouble > 0 \/ \E c \in TierClient : BusyAt(tiering[c], k) /\ tiering[c].pc = "rewrite"))
KeyRight(k) == /\ KeyThere(k) /\ \A c \in TierClient : KeyHeld(tiering[c], k)
               /\ \A c, d \in TierClient : BusyAt(tiering[c], k) /\ BusyAt(tiering[d], k) => c = d
KeysInv == \A k \in TierKey \ contested : KeyRight(k)

TierInv == TierShape /\ OpsInv /\ KeysInv

LEMMA ObjectNames == \A j, k : Whole(j) # Temp(k) /\ (Whole(j) = Whole(k) => j = k) /\ (Temp(j) = Temp(k) => j = k)
BY DEF Whole, Temp

LEMMA NoChangeFits == NoChange \in TierChange /\ RefusedRight(NoChange) /\ (\A k : ~BusyAt(NoChange, k))
                      /\ \A os : OpsRight(NoChange, os)
<1>1. NoChange.ops = {} /\ NoChange.pc = "idle" /\ NoChange.at = 1 /\ NoChange.synced = 0 /\ NoChange.failed = 0 /\ NoChange.paths = << >>
  BY DEF NoChange
<1>2. NoChange \in TierChange
  <2>1. << >> \in Seq(TierKey) OBVIOUS
  <2> QED BY <2>1 DEF NoChange, TierChange, TierSources
<1>3. RefusedRight(NoChange) /\ \A k : ~BusyAt(NoChange, k) BY <1>1 DEF RefusedRight, BusyAt, BusyPcs
<1>4. ASSUME NEW os PROVE OpsRight(NoChange, os)
  <2>1. Completed(NoChange, os) = {} BY <1>1 DEF Completed
  <2>2. Cardinality(Completed(NoChange, os)) = 0 BY <2>1, FS_EmptySet
  <2> QED BY <1>1, <2>2 DEF OpsRight, OpenPcs, BusyPcs
<1> QED BY <1>2, <1>3, <1>4

LEMMA TierStart == TierInit => TierInv
<1> SUFFICES ASSUME TierInit PROVE TierInv OBVIOUS
<1>1. \A c \in TierClient : tiering[c] = NoChange BY DEF TierInit
<1>2. TierShape
  <2>1. tiering \in [TierClient -> TierChange] BY NoChangeFits DEF TierInit
  <2> QED BY <2>1 DEF TierInit, TierShape
<1>3. OpsInv
  <2>1. NoChange.ops = {} BY DEF NoChange
  <2> QED BY <1>1, <2>1, NoChangeFits DEF OpsInv, OwnOps
<1>4. ASSUME NEW k \in TierKey PROVE KeyRight(k)
  <2>1. WholeKept(k) /\ objects[Whole(k)] = latest[k] BY <1>4 DEF TierInit, WholeKept
  <2> QED BY <1>1, <2>1, NoChangeFits DEF KeyRight, KeyThere, KeyHeld
<1> QED BY <1>2, <1>3, <1>4 DEF TierInv, KeysInv

-----------------------------------------------------------------------------
(* Steps of a command: its record, its operations, its object. *)
\* A command may add operations and change its own.
LEMMA OpsMove ==
    ASSUME TierShape, OpsInv, NEW c \in TierClient, NEW r \in TierChange, tiering' = [tiering EXCEPT ![c] = r],
           operations' \in Seq(TierOperation), Len(operations') >= Len(operations),
           \A i \in 1..Len(operations) : i \notin tiering[c].ops => operations'[i] = operations[i],
           r.ops \ tiering[c].ops \subseteq (Len(operations) + 1)..Len(operations'),
           OpsRight(r, operations'), RefusedRight(r)
    PROVE  OpsInv'
<1> USE DEF TierShape
<1>1. tiering'[c] = r /\ \A d \in TierClient : d # c => tiering'[d] = tiering[d] OBVIOUS
<1>2. ASSUME NEW d \in TierClient, d # c
      PROVE  /\ tiering[d].ops \subseteq 1..Len(operations) /\ tiering[d].ops \cap tiering[c].ops = {}
             /\ tiering[d].ops \cap r.ops = {} /\ OpsRight(tiering[d], operations') /\ RefusedRight(tiering[d])
  <2>1. OpsRight(tiering[d], operations) /\ RefusedRight(tiering[d]) BY <1>2 DEF OpsInv
  <2>2. tiering[d].ops \subseteq 1..Len(operations) /\ Len(operations) \in Nat /\ Len(operations') \in Nat BY <2>1 DEF OpsRight
  <2>3. tiering[d].ops \cap tiering[c].ops = {} BY <1>2 DEF OpsInv, OwnOps
  <2>4. tiering[d].ops \cap r.ops = {} BY <2>2, <2>3
  <2>5. \A i \in tiering[d].ops : operations'[i] = operations[i] BY <2>2, <2>3
  <2>6. Completed(tiering[d], operations') = Completed(tiering[d], operations) BY <2>5 DEF Completed
  <2>7. tiering[d].ops \subseteq 1..Len(operations') BY <2>2
  <2>8. OpsRight(tiering[d], operations') BY <2>1, <2>5, <2>6, <2>7 DEF OpsRight
  <2> QED BY <2>1, <2>2, <2>3, <2>4, <2>8
<1>3. OwnOps'
  <2> SUFFICES ASSUME NEW d \in TierClient, NEW e \in TierClient, d # e PROVE tiering'[d].ops \cap tiering'[e].ops = {}
    BY DEF OwnOps
  <2>1. CASE d = c BY <1>1, <1>2, <2>1
  <2>2. CASE e = c BY <1>1, <1>2, <2>2
  <2>3. CASE d # c /\ e # c BY <1>1, <2>3 DEF OpsInv, OwnOps
  <2> QED BY <2>1, <2>2, <2>3
<1>4. ASSUME NEW d \in TierClient PROVE OpsRight(tiering'[d], operations') /\ RefusedRight(tiering'[d])
  <2>1. CASE d = c BY <1>1, <2>1
  <2>2. CASE d # c BY <1>1, <1>2, <2>2
  <2> QED BY <2>1, <2>2
<1> QED BY <1>3, <1>4 DEF OpsInv, RefusedRight

\* The operations are as they were, and the command goes on.
LEMMA OpsStay ==
    ASSUME TierShape, OpsInv, NEW c \in TierClient, NEW r \in TierChange, tiering' = [tiering EXCEPT ![c] = r], operations' = operations,
           r.ops = tiering[c].ops, r.at = tiering[c].at, r.paths = tiering[c].paths, r.synced = tiering[c].synced,
           r.failed = tiering[c].failed, tiering[c].pc \in OpenPcs, r.pc \in OpenPcs
    PROVE  OpsInv'
<1>1. OpsRight(tiering[c], operations) BY DEF OpsInv
<1>2. Completed(r, operations) = Completed(tiering[c], operations) BY DEF Completed
<1>3. OpsRight(r, operations') BY <1>1, <1>2 DEF OpsRight, OpenPcs, BusyPcs
<1>4. RefusedRight(r) BY DEF RefusedRight, OpenPcs, BusyPcs
<1>5. operations' \in Seq(TierOperation) /\ Len(operations) \in Nat BY DEF TierShape
<1>6. Len(operations') >= Len(operations) /\ (\A i \in 1..Len(operations) : i \notin tiering[c].ops => operations'[i] = operations[i])
      /\ r.ops \ tiering[c].ops \subseteq (Len(operations) + 1)..Len(operations')
  BY <1>5
<1> QED BY <1>3, <1>4, <1>5, <1>6, OpsMove

\* Settling counts the path once and closes its operation.
LEMMA SettleKeeps ==
    ASSUME TierShape, OpsInv, NEW c \in TierClient, NEW ok \in BOOLEAN, tiering[c].pc \in OpenPcs, Settle(c, ok)
    PROVE  /\ OpsInv' /\ operations' \in Seq(TierOperation) /\ tiering'[c].pc = "next"
           /\ \E r \in TierChange : tiering' = [tiering EXCEPT ![c] = r] /\ r.pc = "next"
<1>1. OpsRight(tiering[c], operations) /\ tiering[c] \in TierChange /\ operations \in Seq(TierOperation)
  BY DEF OpsInv, TierShape
<1>2. PICK i \in tiering[c].ops : /\ operations[i].status = "open"
                                  /\ \A j \in tiering[c].ops : j <= i /\ (j # i => operations[j].status # "open")
  BY <1>1 DEF OpsRight
<1>3. tiering[c].ops \subseteq 1..Len(operations) /\ tiering[c].ops \in SUBSET Nat /\ Len(operations) \in Nat
  BY <1>1 DEF OpsRight, TierChange
<1>4. MyOperation(c) = i
  <2>1. \A j \in tiering[c].ops : (\A m \in tiering[c].ops : m <= j) => j = i BY <1>2, <1>3
  <2> QED BY <1>2, <2>1 DEF MyOperation
<1> DEFINE st == IF ok THEN "completed" ELSE "failed"
<1>5. i \in 1..Len(operations) /\ operations[i] \in TierOperation BY <1>1, <1>2, <1>3
<1>6. PICK o : o = [operations[i] EXCEPT !.status = st] OBVIOUS
<1>7. o \in TierOperation /\ o.status = st BY <1>5, <1>6 DEF TierOperation
<1>8. operations' = [operations EXCEPT ![i] = o] BY <1>4, <1>5, <1>6 DEF Settle
<1>9. operations' \in Seq(TierOperation) /\ Len(operations') = Len(operations) /\ operations'[i] = o
      /\ \A j \in 1..Len(operations) : j # i => operations'[j] = operations[j]
  BY <1>1, <1>5, <1>7, <1>8
<1>10. PICK n \in Nat, m \in Nat : n = (IF ok THEN 1 ELSE 0) /\ m = (IF ok THEN 0 ELSE 1) OBVIOUS
<1>11. PICK r : r = [tiering[c] EXCEPT !.pc = "next", !.at = @ + 1, !.synced = @ + n, !.failed = @ + m] OBVIOUS
<1>12. tiering' = [tiering EXCEPT ![c] = r] BY <1>1, <1>10, <1>11 DEF Settle, TierChange, TierShape
<1>13. r \in TierChange /\ r.pc = "next" /\ r.at = tiering[c].at + 1 /\ r.synced = tiering[c].synced + n
       /\ r.failed = tiering[c].failed + m /\ r.ops = tiering[c].ops /\ r.paths = tiering[c].paths
  <2>0. tiering[c].at \in Nat /\ tiering[c].synced \in Nat /\ tiering[c].failed \in Nat BY <1>1 DEF TierChange
  <2>1. tiering[c].at + 1 \in Nat /\ tiering[c].synced + n \in Nat /\ tiering[c].failed + m \in Nat
    <3>1. \A a, b \in Nat : a + b \in Nat OBVIOUS
    <3> QED BY <1>10, <2>0, <3>1
  <2>2. PICK x, y, z : x = tiering[c].at + 1 /\ y = tiering[c].synced + n /\ z = tiering[c].failed + m OBVIOUS
  <2>3. r = [tiering[c] EXCEPT !.pc = "next", !.at = x, !.synced = y, !.failed = z]
    <3>1. DOMAIN tiering[c] = {"src", "target", "tier", "offered", "paths", "pc", "at", "data", "synced", "failed", "ops"} BY <1>1 DEF TierChange
    <3>2. PICK q : q = tiering[c] OBVIOUS
    <3>3. r = [q EXCEPT !.pc = "next", !.at = @ + 1, !.synced = @ + n, !.failed = @ + m] BY <1>11, <3>2
    <3>4. x = q.at + 1 /\ y = q.synced + n /\ z = q.failed + m BY <2>2, <3>2
    <3>5. r = [q EXCEPT !.pc = "next", !.at = x, !.synced = y, !.failed = z] BY <3>1, <3>2, <3>3, <3>4
    <3> QED BY <3>2, <3>5
  <2>4. x \in Nat /\ y \in Nat /\ z \in Nat BY <2>1, <2>2
  <2>5. r \in TierChange /\ r.pc = "next" /\ r.at = x /\ r.synced = y /\ r.failed = z /\ r.ops = tiering[c].ops /\ r.paths = tiering[c].paths
    BY <1>1, <2>3, <2>4 DEF TierChange
  <2> QED BY <2>2, <2>5
<1>14. Cardinality(Completed(r, operations')) = r.synced
  <2>1. IsFiniteSet(Completed(tiering[c], operations))
    <3>0. 1 \in Int /\ Len(operations) \in Int BY <1>3
    <3>1. IsFiniteSet(1..Len(operations)) BY <3>0, FS_Interval
    <3>2. Completed(tiering[c], operations) \in SUBSET (1..Len(operations)) BY <1>3 DEF Completed
    <3> QED BY <3>1, <3>2, FS_Subset
  <2>2. i \notin Completed(tiering[c], operations) BY <1>2 DEF Completed
  <2>3. Completed(r, operations') = Completed(tiering[c], operations) \cup (IF ok THEN {i} ELSE {})
    BY <1>2, <1>3, <1>7, <1>9, <1>13 DEF Completed
  <2>4. CASE ok
    <3>1. Cardinality(Completed(tiering[c], operations) \cup {i}) = Cardinality(Completed(tiering[c], operations)) + 1
      BY <2>1, <2>2, FS_AddElement
    <3> QED BY <1>1, <1>10, <1>13, <2>3, <2>4, <3>1 DEF OpsRight
  <2>5. CASE ~ok
    <3>1. tiering[c].synced \in Nat BY <1>1 DEF TierChange
    <3> QED BY <1>1, <1>10, <1>13, <2>3, <2>5, <3>1 DEF OpsRight
  <2> QED BY <2>4, <2>5
<1>15. \A j \in r.ops : operations'[j].status # "open" BY <1>2, <1>3, <1>7, <1>9, <1>13
<1>16. tiering[c].at \in Nat /\ tiering[c].synced \in Nat /\ tiering[c].failed \in Nat /\ Len(tiering[c].paths) \in Nat
       /\ tiering[c].at = tiering[c].synced + tiering[c].failed + 1 /\ tiering[c].at <= Len(tiering[c].paths)
  BY <1>1 DEF OpsRight, TierChange
<1>17. r.at = r.synced + r.failed + 1 /\ r.at <= Len(r.paths) + 1 BY <1>10, <1>13, <1>16
<1>18. OpsRight(r, operations') BY <1>3, <1>9, <1>13, <1>14, <1>15, <1>17 DEF OpsRight, OpenPcs, BusyPcs
<1>19. RefusedRight(r) BY <1>13 DEF RefusedRight
<1>20. OpsInv'
  <2>1. Len(operations') >= Len(operations) /\ r.ops \ tiering[c].ops \subseteq (Len(operations) + 1)..Len(operations')
        /\ \A j \in 1..Len(operations) : j \notin tiering[c].ops => operations'[j] = operations[j]
    BY <1>2, <1>3, <1>9, <1>13
  <2> QED BY <1>9, <1>12, <1>13, <1>18, <1>19, <2>1, OpsMove
<1>21. tiering'[c].pc = "next" BY <1>12, <1>13 DEF TierShape
<1> QED BY <1>9, <1>12, <1>13, <1>20, <1>21

-----------------------------------------------------------------------------
(* The object a command is at, and the others. *)
\* What happens elsewhere leaves an object alone.
LEMMA KeyElsewhere ==
    ASSUME TierShape, NEW k \in TierKey, KeyRight(k), NEW c \in TierClient, NEW r, tiering' = [tiering EXCEPT ![c] = r],
           ~BusyAt(tiering[c], k), ~BusyAt(r, k), latest'[k] = latest[k], trouble' \in Nat, trouble' >= trouble,
           Whole(k) \in DOMAIN objects' <=> Whole(k) \in DOMAIN objects, Temp(k) \in DOMAIN objects' <=> Temp(k) \in DOMAIN objects,
           Whole(k) \in DOMAIN objects => objects'[Whole(k)] = objects[Whole(k)],
           Temp(k) \in DOMAIN objects => objects'[Temp(k)] = objects[Temp(k)]
    PROVE  KeyRight(k)'
<1>1. tiering'[c] = r /\ \A d \in TierClient : d # c => tiering'[d] = tiering[d] BY DEF TierShape
<1>2. \A d \in TierClient : /\ BusyAt(tiering'[d], k) <=> BusyAt(tiering[d], k)
                            /\ BusyAt(tiering[d], k) => tiering'[d] = tiering[d]
  <2> TAKE d \in TierClient
  <2>1. CASE d = c BY <1>1, <2>1
  <2>2. CASE d # c BY <1>1, <2>2
  <2> QED BY <2>1, <2>2
<1>3. (WholeKept(k)' <=> WholeKept(k)) /\ (TempKept(k)' <=> TempKept(k)) BY DEF WholeKept, TempKept
<1>4. KeyThere(k)' BY <1>2, <1>3 DEF KeyRight, KeyThere, WholeKept, TierShape, BusyAt
<1>5. ASSUME NEW d \in TierClient PROVE KeyHeld(tiering[d], k)'
  <2>1. CASE d = c BY <1>1, <2>1 DEF KeyHeld, BusyAt
  <2>2. CASE d # c BY <1>1, <1>3, <2>2 DEF KeyRight, KeyHeld, BusyAt
  <2> QED BY <2>1, <2>2
<1>6. \A d, e \in TierClient : BusyAt(tiering[d], k)' /\ BusyAt(tiering[e], k)' => d = e BY <1>2 DEF KeyRight, BusyAt
<1> QED BY <1>4, <1>5, <1>6 DEF KeyRight

\* Where only one command is at an object, it answers for it alone.
LEMMA KeyHere ==
    ASSUME TierShape, NEW k \in TierKey, NEW c \in TierClient, NEW r, tiering' = [tiering EXCEPT ![c] = r],
           \A d \in TierClient : d # c => ~BusyAt(tiering[d], k),
           WholeKept(k)' => objects'[Whole(k)] = latest'[k],
           WholeKept(k)' \/ (TempKept(k)' /\ (trouble' > 0 \/ (BusyAt(r, k) /\ r.pc = "rewrite"))),
           KeyHeld(r, k)'
    PROVE  KeyRight(k)'
<1>1. tiering'[c] = r /\ \A d \in TierClient : d # c => tiering'[d] = tiering[d] BY DEF TierShape
<1>2. \A d \in TierClient : d # c => ~BusyAt(tiering'[d], k) BY <1>1
<1>3. KeyThere(k)' BY <1>1 DEF KeyThere, BusyAt
<1>4. ASSUME NEW d \in TierClient PROVE KeyHeld(tiering[d], k)'
  <2>1. CASE d = c BY <1>1, <2>1 DEF KeyHeld, BusyAt
  <2>2. CASE d # c BY <1>2, <2>2 DEF KeyHeld, BusyAt
  <2> QED BY <2>1, <2>2
<1>5. \A d, e \in TierClient : BusyAt(tiering[d], k)' /\ BusyAt(tiering[e], k)' => d = e BY <1>2 DEF BusyAt
<1> QED BY <1>3, <1>4, <1>5 DEF KeyRight

\* A command away from the objects changes none.
LEMMA AwayStep ==
    ASSUME TierInv, NEW c \in TierClient, NEW r \in TierChange, tiering' = [tiering EXCEPT ![c] = r],
           tiering[c].pc \notin BusyPcs, r.pc \notin BusyPcs, objects' = objects, latest' = latest, contested' = contested,
           trouble' \in Nat, trouble' >= trouble, operations' \in Seq(TierOperation), OpsInv'
    PROVE  TierInv'
<1>1. TierShape' BY DEF TierInv, TierShape
<1>2. ASSUME NEW k \in TierKey, k \notin contested' PROVE KeyRight(k)'
  <2>1. KeyRight(k) /\ TierShape BY <1>2 DEF TierInv, KeysInv
  <2>2. ~BusyAt(tiering[c], k) /\ ~BusyAt(r, k) BY DEF BusyAt
  <2> QED BY <1>2, <2>1, <2>2, KeyElsewhere
<1> QED BY <1>1, <1>2 DEF TierInv, KeysInv

\* The object a busy command is at.
LEMMA KeyIs ==
    ASSUME TierInv, NEW c \in TierClient, tiering[c].pc \in OpenPcs
    PROVE  /\ tiering[c] \in TierChange /\ Key(c) \in TierKey /\ Key(c) = tiering[c].paths[tiering[c].at]
           /\ tiering[c].pc \in BusyPcs => /\ BusyAt(tiering[c], Key(c))
                                           /\ Key(c) \notin contested => KeyRight(Key(c)) /\ KeyHeld(tiering[c], Key(c))
<1>1. tiering[c] \in TierChange BY DEF TierInv, TierShape
<1>2. OpsRight(tiering[c], operations) BY DEF TierInv, OpsInv
<1>3. tiering[c].paths \in Seq(TierKey) /\ tiering[c].at \in 1..Len(tiering[c].paths)
  BY <1>1, <1>2 DEF TierChange, OpsRight
<1>4. Key(c) \in TierKey BY <1>3 DEF Key
<1> QED BY <1>1, <1>4 DEF TierInv, KeysInv, KeyRight, Key, BusyAt

\* A step of a change of an object, which it does alone or the object is contested.
LEMMA BusyStep ==
    ASSUME TierInv, NEW c \in TierClient, NEW r \in TierChange, tiering' = [tiering EXCEPT ![c] = r], tiering[c].pc \in BusyPcs,
           r.pc \in BusyPcs => r.paths = tiering[c].paths /\ r.at = tiering[c].at,
           latest' = latest, contested' = contested, trouble' \in Nat, trouble' >= trouble, operations' \in Seq(TierOperation), OpsInv',
           objects' \in [DOMAIN objects' -> Nat], NEW k \in TierKey, k = Key(c),
           \A o : o \notin {Whole(k), Temp(k)} => /\ o \in DOMAIN objects' <=> o \in DOMAIN objects
                                                  /\ o \in DOMAIN objects => objects'[o] = objects[o],
           k \notin contested => /\ WholeKept(k)' => objects'[Whole(k)] = latest[k]
                                 /\ WholeKept(k)' \/ (TempKept(k)' /\ (trouble' > 0 \/ (BusyAt(r, k) /\ r.pc = "rewrite")))
                                 /\ KeyHeld(r, k)'
    PROVE  TierInv'
<1>1. TierShape' BY DEF TierInv, TierShape
<1>2. ASSUME NEW j \in TierKey, j \notin contested' PROVE KeyRight(j)'
  <2>1. KeyRight(j) /\ TierShape BY <1>2 DEF TierInv, KeysInv
  <2>2. CASE j = k
    <3>1. BusyAt(tiering[c], j) BY <2>2 DEF BusyAt, Key
    <3>2. \A d \in TierClient : d # c => ~BusyAt(tiering[d], j) BY <2>1, <3>1 DEF KeyRight
    <3>3. /\ WholeKept(j)' => objects'[Whole(j)] = latest'[j]
          /\ WholeKept(j)' \/ (TempKept(j)' /\ (trouble' > 0 \/ (BusyAt(r, j) /\ r.pc = "rewrite")))
          /\ KeyHeld(r, j)'
      BY <1>2, <2>2
    <3> QED BY <2>1, <3>2, <3>3, KeyHere
  <2>3. CASE j # k
    <3>1. ~BusyAt(tiering[c], j) /\ ~BusyAt(r, j) BY <2>3 DEF BusyAt, Key
    <3>2. Whole(j) \notin {Whole(k), Temp(k)} /\ Temp(j) \notin {Whole(k), Temp(k)} BY <2>3, ObjectNames
    <3> QED BY <2>1, <3>1, <3>2, KeyElsewhere
  <2> QED BY <2>2, <2>3
<1> QED BY <1>1, <1>2 DEF TierInv, KeysInv

\* A change of an object that ends with a settled operation.
LEMMA SettleStep ==
    ASSUME TierInv, NEW c \in TierClient, NEW ok \in BOOLEAN, Settle(c, ok), tiering[c].pc \in BusyPcs,
           latest' = latest, contested' = contested, trouble' \in Nat, trouble' >= trouble,
           objects' \in [DOMAIN objects' -> Nat], NEW k \in TierKey, k = Key(c),
           \A o : o \notin {Whole(k), Temp(k)} => /\ o \in DOMAIN objects' <=> o \in DOMAIN objects
                                                  /\ o \in DOMAIN objects => objects'[o] = objects[o],
           k \notin contested => /\ WholeKept(k)' => objects'[Whole(k)] = latest[k]
                                 /\ WholeKept(k)' \/ (TempKept(k)' /\ trouble' > 0)
    PROVE  TierInv'
<1>1. tiering[c].pc \in OpenPcs /\ TierShape /\ OpsInv BY DEF OpenPcs, TierInv
<1>2. OpsInv' /\ operations' \in Seq(TierOperation) /\ \E r \in TierChange : tiering' = [tiering EXCEPT ![c] = r] /\ r.pc = "next"
  BY <1>1, SettleKeeps
<1>3. PICK r \in TierChange : tiering' = [tiering EXCEPT ![c] = r] /\ r.pc = "next" BY <1>2
<1>4. r.pc \notin BusyPcs /\ ~BusyAt(r, k) /\ KeyHeld(r, k)' BY <1>3 DEF BusyPcs, BusyAt, KeyHeld
<1> QED BY <1>2, <1>3, <1>4, BusyStep

\* A change of an object that goes on.
GoesOn(c, pc, x) == tiering' = [tiering EXCEPT ![c].pc = pc, ![c].data = x]
LEMMA GoOnStep ==
    ASSUME TierInv, NEW c \in TierClient, NEW pc \in BusyPcs, NEW x \in Nat, tiering[c].pc \in BusyPcs,
           GoesOn(c, pc, x), operations' = operations,
           latest' = latest, contested' = contested, trouble' \in Nat, trouble' >= trouble,
           objects' \in [DOMAIN objects' -> Nat], NEW k \in TierKey, k = Key(c),
           \A o : o \notin {Whole(k), Temp(k)} => /\ o \in DOMAIN objects' <=> o \in DOMAIN objects
                                                  /\ o \in DOMAIN objects => objects'[o] = objects[o],
           k \notin contested => /\ WholeKept(k)' => objects'[Whole(k)] = latest[k]
                                 /\ WholeKept(k)' \/ (TempKept(k)' /\ (trouble' > 0 \/ pc = "rewrite"))
                                 /\ pc \in {"temp", "delete", "clean"} => WholeKept(k)'
                                 /\ pc \in {"temp", "delete", "rewrite"} => x = latest[k]
                                 /\ pc \in {"delete", "rewrite"} => TempKept(k)'
    PROVE  TierInv'
<1>1. tiering[c].pc \in OpenPcs /\ pc \in OpenPcs /\ TierShape /\ OpsInv BY DEF OpenPcs, TierInv
<1>2. tiering[c] \in TierChange /\ operations' \in Seq(TierOperation) BY <1>1 DEF TierShape
<1>3. PICK r : r = [tiering[c] EXCEPT !.pc = pc, !.data = x] OBVIOUS
<1>4. r \in TierChange /\ r.pc = pc /\ r.data = x /\ r.paths = tiering[c].paths /\ r.at = tiering[c].at /\ r.ops = tiering[c].ops
      /\ r.synced = tiering[c].synced /\ r.failed = tiering[c].failed
  BY <1>1, <1>2, <1>3 DEF TierChange
<1>5. tiering' = [tiering EXCEPT ![c] = r] BY <1>1, <1>2, <1>3 DEF GoesOn, TierShape, TierChange
<1>6. OpsInv' BY <1>1, <1>4, <1>5, OpsStay
<1>7. BusyAt(r, k) BY <1>4 DEF BusyAt, Key
<1>8. k \notin contested => KeyHeld(r, k)' BY <1>4, <1>7 DEF KeyHeld
<1> QED BY <1>2, <1>4, <1>5, <1>6, <1>7, <1>8, BusyStep

-----------------------------------------------------------------------------
(* The actions. *)
LEMMA SyncKeeps ==
    ASSUME TierInv, NEW c \in TierClient, vfs_sync_to_tier(c)
    PROVE  TierInv'
<1>0. PICK s \in DOMAIN TierSource, ps \in TierPaths : \E o \in vfs_get_tier_targets(s) \cup {Offer("frozen", "none")} :
         LET told == [NoChange EXCEPT !.src = s, !.target = o.target, !.tier = o.tier, !.paths = ps, !.offered = o \in vfs_get_tier_targets(s)]
             right == parse_tier(o.tier) /\ (o.target # "none" \/ Rewritable(s))
         IN  tiering' = [tiering EXCEPT ![c] = [told EXCEPT !.pc = IF right THEN "next" ELSE "refused"]]
  BY DEF vfs_sync_to_tier
<1>1. PICK o \in vfs_get_tier_targets(s) \cup {Offer("frozen", "none")} :
         LET told == [NoChange EXCEPT !.src = s, !.target = o.target, !.tier = o.tier, !.paths = ps, !.offered = o \in vfs_get_tier_targets(s)]
             right == parse_tier(o.tier) /\ (o.target # "none" \/ Rewritable(s))
         IN  tiering' = [tiering EXCEPT ![c] = [told EXCEPT !.pc = IF right THEN "next" ELSE "refused"]]
  BY <1>0
<1> DEFINE fine == parse_tier(o.tier) /\ (o.target # "none" \/ Rewritable(s))
<1>2. ASSUME o \in vfs_get_tier_targets(s)
      PROVE  /\ o.target \in TierSources /\ o.tier \in {"nearline", "cold", "local"}
             /\ ~fine => Type(s) \in {"gcs", "azure"} \/ o.tier = "local"
  <2>1. CASE category(Type(s)) = "cloud"
    <3>1. Type(s) \in {"s3", "s3_compatible", "gcs", "azure"} /\ o \in {Offer("nearline", "none"), Offer("cold", "none")}
      BY <1>2, <2>1 DEF vfs_get_tier_targets, CloudOffers
    <3> QED BY <2>1, <3>1 DEF Offer, TierSources, parse_tier, Rewritable
  <2>2. CASE category(Type(s)) = "local"
    <3>1. PICK x \in TierSources, t \in {"local", "cold"} : o = Offer(t, x) /\ (t = "cold" => x # "none")
      BY <1>2, <2>2, TierRequestAssumption DEF vfs_get_tier_targets, TierSources
    <3> QED BY <3>1 DEF Offer, parse_tier
  <2>3. CASE category(Type(s)) \notin {"cloud", "local"} BY <1>2, <2>3 DEF vfs_get_tier_targets
  <2> QED BY <2>1, <2>2, <2>3
<1>3. o.target \in TierSources /\ o.tier \in {"nearline", "cold", "local", "frozen"}
  BY <1>2 DEF Offer, TierSources
<1>3a. \E off \in BOOLEAN, pc \in {"next", "refused"} :
         off = (o \in vfs_get_tier_targets(s)) /\ pc = IF fine THEN "next" ELSE "refused"
  <2> WITNESS (o \in vfs_get_tier_targets(s)) \in BOOLEAN, (IF fine THEN "next" ELSE "refused") \in {"next", "refused"}
  <2> QED OBVIOUS
<1>4. PICK off \in BOOLEAN, pc \in {"next", "refused"} :
         off = (o \in vfs_get_tier_targets(s)) /\ pc = IF fine THEN "next" ELSE "refused"
  BY <1>3a
<1>5. PICK r : r = [NoChange EXCEPT !.src = s, !.target = o.target, !.tier = o.tier, !.paths = ps, !.offered = off, !.pc = pc] OBVIOUS
<1>6. tiering' = [tiering EXCEPT ![c] = r] BY <1>1, <1>4, <1>5 DEF NoChange
<1>7. r \in TierChange /\ r.pc = pc /\ r.offered = off /\ r.src = s /\ r.tier = o.tier /\ r.ops = {} /\ r.at = 1 /\ r.synced = 0 /\ r.failed = 0
      /\ r.paths \in Seq(TierKey)
  <2>1. ps \in Seq(TierKey) BY TierRequestAssumption
  <2>2. s \in TierSources BY DEF TierSources
  <2>3. NoChange \in TierChange BY NoChangeFits
  <2>4. NoChange.ops = {} /\ NoChange.at = 1 /\ NoChange.synced = 0 /\ NoChange.failed = 0 BY DEF NoChange
  <2> QED BY <1>3, <1>4, <1>5, <2>1, <2>2, <2>3, <2>4 DEF TierChange
<1>8. OpsRight(r, operations')
  <2>1. Completed(r, operations') = {} BY <1>7 DEF Completed
  <2>2. Cardinality(Completed(r, operations')) = 0 BY <2>1, FS_EmptySet
  <2>3. Len(r.paths) \in Nat BY <1>7
  <2> QED BY <1>4, <1>7, <2>2, <2>3 DEF OpsRight, OpenPcs, BusyPcs
<1>9. RefusedRight(r) BY <1>2, <1>4, <1>7 DEF RefusedRight
<1>10. TierShape /\ OpsInv /\ tiering[c].pc = "idle" /\ operations' = operations /\ objects' = objects /\ latest' = latest
       /\ contested' = contested /\ trouble' = trouble
  BY DEF TierInv, vfs_sync_to_tier, Is
<1>11. operations' \in Seq(TierOperation) /\ Len(operations) \in Nat BY <1>10 DEF TierShape
<1>12. OpsInv'
  <2>1. Len(operations') >= Len(operations) /\ (\A i \in 1..Len(operations) : i \notin tiering[c].ops => operations'[i] = operations[i])
        /\ r.ops \ tiering[c].ops \subseteq (Len(operations) + 1)..Len(operations')
    BY <1>7, <1>10, <1>11
  <2> QED BY <1>6, <1>7, <1>8, <1>9, <1>10, <1>11, <2>1, OpsMove
<1>13. trouble' \in Nat /\ trouble' >= trouble BY <1>10 DEF TierShape
<1>14. tiering[c].pc \notin BusyPcs /\ r.pc \notin BusyPcs BY <1>4, <1>7, <1>10 DEF BusyPcs
<1> QED BY <1>6, <1>7, <1>10, <1>11, <1>12, <1>13, <1>14, AwayStep

\* A command opens the operation of its next path.
LEMMA OpenedKeeps ==
    ASSUME TierInv, NEW c \in TierClient, tiering[c].pc = "next", tiering[c].at <= Len(tiering[c].paths), NEW pc \in OpenPcs, Opened(c, pc)
    PROVE  /\ OpsInv' /\ operations' \in Seq(TierOperation)
           /\ \E r \in TierChange : /\ tiering' = [tiering EXCEPT ![c] = r] /\ r.pc = pc
                                    /\ r.paths = tiering[c].paths /\ r.at = tiering[c].at
<1>0. TierShape /\ OpsInv /\ tiering[c] \in TierChange /\ operations \in Seq(TierOperation) /\ OpsRight(tiering[c], operations)
  BY DEF TierInv, TierShape, OpsInv
<1>1. tiering[c].paths \in Seq(TierKey) /\ tiering[c].at \in 1..Len(tiering[c].paths) /\ Len(operations) \in Nat
      /\ tiering[c].ops \subseteq 1..Len(operations)
  BY <1>0 DEF TierChange, OpsRight
<1> DEFINE n == Len(operations) + 1
<1>2. PICK o : o = [key |-> Key(c), status |-> "open"] OBVIOUS
<1>3. o \in TierOperation /\ o.status = "open" BY <1>1, <1>2 DEF TierOperation, Key
<1>4. operations' = Append(operations, o) BY <1>2 DEF Opened
<1>5. operations' \in Seq(TierOperation) /\ Len(operations') = n /\ operations'[n] = o
      /\ \A i \in 1..Len(operations) : operations'[i] = operations[i]
  BY <1>0, <1>3, <1>4
<1>6. PICK os : os = tiering[c].ops \cup {n} OBVIOUS
<1>7. PICK r : r = [tiering[c] EXCEPT !.pc = pc, !.ops = os, !.data = 0] OBVIOUS
<1>8. tiering' = [tiering EXCEPT ![c] = r] BY <1>0, <1>6, <1>7 DEF Opened, TierShape, TierChange
<1>9. os \in SUBSET Nat BY <1>1, <1>6
<1>10. r \in TierChange /\ r.pc = pc /\ r.ops = os /\ r.paths = tiering[c].paths /\ r.at = tiering[c].at
       /\ r.synced = tiering[c].synced /\ r.failed = tiering[c].failed
  BY <1>0, <1>7, <1>9 DEF TierChange
<1>11. Completed(r, operations') = Completed(tiering[c], operations)
  BY <1>1, <1>3, <1>5, <1>6, <1>10 DEF Completed
<1>12. \A j \in tiering[c].ops : operations[j].status # "open" BY <1>0 DEF OpsRight, OpenPcs, BusyPcs
<1>13. OpsRight(r, operations')
  <2>1. n \in r.ops /\ operations'[n].status = "open" /\ r.ops \subseteq 1..Len(operations')
    BY <1>1, <1>3, <1>5, <1>6, <1>10
  <2>2. \A j \in r.ops : j <= n /\ (j # n => operations'[j].status # "open")
    BY <1>1, <1>5, <1>6, <1>10, <1>12
  <2>3. r.at = r.synced + r.failed + 1 /\ r.at <= Len(r.paths) /\ Cardinality(Completed(r, operations')) = r.synced
    BY <1>0, <1>10, <1>11 DEF OpsRight
  <2> HIDE DEF n
  <2> QED BY <1>10, <2>1, <2>2, <2>3 DEF OpsRight, OpenPcs, BusyPcs
<1>14. RefusedRight(r) BY <1>10 DEF RefusedRight, OpenPcs, BusyPcs
<1>15. OpsInv'
  <2>1. Len(operations') >= Len(operations) /\ (\A i \in 1..Len(operations) : i \notin tiering[c].ops => operations'[i] = operations[i])
        /\ r.ops \ tiering[c].ops \subseteq (Len(operations) + 1)..Len(operations')
    BY <1>1, <1>5, <1>6, <1>10
  <2> QED BY <1>0, <1>5, <1>8, <1>10, <1>13, <1>14, <2>1, OpsMove
<1> QED BY <1>5, <1>8, <1>10, <1>15

LEMMA NextPathKeeps ==
    ASSUME TierInv, NEW c \in TierClient, NextPath(c)
    PROVE  TierInv'
<1>0. TierShape /\ OpsInv /\ tiering[c] \in TierChange /\ tiering[c].pc = "next" /\ OpsRight(tiering[c], operations)
      /\ objects' = objects /\ latest' = latest /\ trouble' = trouble /\ trouble \in Nat
  BY DEF TierInv, TierShape, OpsInv, NextPath, Is
<1>1. tiering[c].paths \in Seq(TierKey) /\ Len(tiering[c].paths) \in Nat /\ tiering[c].at \in Nat BY <1>0 DEF TierChange
<1>2. CASE tiering[c].at > Len(tiering[c].paths)
  <2>1. tiering' = [tiering EXCEPT ![c].pc = "done"] /\ operations' = operations /\ contested' = contested BY <1>2 DEF NextPath, Go
  <2>2. PICK r : r = [tiering[c] EXCEPT !.pc = "done"] OBVIOUS
  <2>3. r \in TierChange /\ r.pc = "done" /\ r.ops = tiering[c].ops /\ r.at = tiering[c].at /\ r.paths = tiering[c].paths
        /\ r.synced = tiering[c].synced /\ r.failed = tiering[c].failed
    BY <1>0, <2>2 DEF TierChange
  <2>4. tiering' = [tiering EXCEPT ![c] = r] BY <1>0, <2>1, <2>2 DEF TierShape, TierChange
  <2>5. Completed(r, operations') = Completed(tiering[c], operations) BY <2>1, <2>3 DEF Completed
  <2>6. r.at = Len(r.paths) + 1 BY <1>0, <1>1, <1>2, <2>3 DEF OpsRight
  <2>7. OpsRight(r, operations') BY <1>0, <2>1, <2>3, <2>5, <2>6 DEF OpsRight, OpenPcs, BusyPcs
  <2>8. RefusedRight(r) BY <2>3 DEF RefusedRight
  <2>9. operations' \in Seq(TierOperation) /\ Len(operations) \in Nat BY <1>0, <2>1 DEF TierShape
  <2>10. Len(operations') >= Len(operations) /\ (\A i \in 1..Len(operations) : i \notin tiering[c].ops => operations'[i] = operations[i])
         /\ r.ops \ tiering[c].ops \subseteq (Len(operations) + 1)..Len(operations')
    BY <2>1, <2>3, <2>9
  <2>11. OpsInv' BY <1>0, <2>3, <2>4, <2>7, <2>8, <2>9, <2>10, OpsMove
  <2>12. r.pc \notin BusyPcs /\ tiering[c].pc \notin BusyPcs /\ trouble' >= trouble BY <1>0, <2>3 DEF BusyPcs
  <2> QED BY <1>0, <2>1, <2>3, <2>4, <2>9, <2>11, <2>12, AwayStep
<1>3. CASE tiering[c].at <= Len(tiering[c].paths) /\ Opened(c, "copy") /\ contested' = contested
  <2>1. OpsInv' /\ operations' \in Seq(TierOperation) /\ \E r \in TierChange : tiering' = [tiering EXCEPT ![c] = r] /\ r.pc = "copy"
    BY <1>0, <1>3, OpenedKeeps DEF OpenPcs
  <2>2. PICK r \in TierChange : tiering' = [tiering EXCEPT ![c] = r] /\ r.pc = "copy" BY <2>1
  <2>3. r.pc \notin BusyPcs /\ tiering[c].pc \notin BusyPcs /\ trouble' >= trouble BY <1>0, <2>2 DEF BusyPcs
  <2> QED BY <1>0, <1>3, <2>1, <2>2, <2>3, AwayStep
<1>4. CASE tiering[c].at <= Len(tiering[c].paths) /\ Opened(c, "read") /\ Contest(Key(c))
  <2>1. "read" \in OpenPcs BY DEF OpenPcs, BusyPcs
  <2>2. OpsInv' /\ operations' \in Seq(TierOperation)
        /\ \E r \in TierChange : tiering' = [tiering EXCEPT ![c] = r] /\ r.pc = "read" /\ r.paths = tiering[c].paths /\ r.at = tiering[c].at
    BY <1>0, <1>4, <2>1, OpenedKeeps
  <2>3. PICK r \in TierChange : tiering' = [tiering EXCEPT ![c] = r] /\ r.pc = "read" /\ r.paths = tiering[c].paths /\ r.at = tiering[c].at
    BY <2>2
  <2>4. TierShape' BY <1>0, <2>2, <2>3 DEF TierShape
  <2>5. ASSUME NEW k \in TierKey, k \notin contested' PROVE KeyRight(k)'
    <3>1. k \notin contested /\ (k = Key(c) => Busy(k) = {}) BY <1>4, <2>5 DEF Contest
    <3>2. KeyRight(k) BY <3>1 DEF TierInv, KeysInv
    <3>3. CASE k = Key(c)
      <4>1. \A d \in TierClient : ~BusyAt(tiering[d], k) BY <3>1, <3>3 DEF Busy, BusyAt, BusyPcs, Key
      <4>2. WholeKept(k)' <=> WholeKept(k) BY <1>0 DEF WholeKept
      <4>3. TempKept(k)' <=> TempKept(k) BY <1>0 DEF TempKept
      <4>4. WholeKept(k)' => objects'[Whole(k)] = latest'[k] BY <1>0, <3>2, <4>2 DEF KeyRight, KeyThere
      <4>5. WholeKept(k)' \/ (TempKept(k)' /\ (trouble' > 0 \/ (BusyAt(r, k) /\ r.pc = "rewrite")))
        BY <1>0, <3>2, <4>1, <4>2, <4>3 DEF KeyRight, KeyThere
      <4>6. KeyHeld(r, k)' BY <2>3 DEF KeyHeld
      <4> QED BY <1>0, <2>3, <4>1, <4>4, <4>5, <4>6, KeyHere
    <3>4. CASE k # Key(c)
      <4>1. ~BusyAt(tiering[c], k) /\ ~BusyAt(r, k) BY <1>0, <2>3, <3>4 DEF BusyAt, BusyPcs, Key
      <4>2. trouble' >= trouble /\ trouble' \in Nat BY <1>0
      <4> QED BY <1>0, <2>3, <3>2, <4>1, <4>2, KeyElsewhere
    <3> QED BY <3>3, <3>4
  <2> QED BY <2>2, <2>4, <2>5 DEF TierInv, KeysInv
<1>5. \/ tiering[c].at > Len(tiering[c].paths)
      \/ tiering[c].at <= Len(tiering[c].paths)
  BY <1>1
<1> QED BY <1>1, <1>2, <1>3, <1>4, <1>5 DEF NextPath

\* What one more failure does to the count.
LEMMA TroubleGrows == ASSUME TierInv, Fails PROVE trouble' \in Nat /\ trouble' >= trouble /\ trouble' > 0
BY DEF TierInv, TierShape, Fails

LEMMA CopyAcrossKeeps == ASSUME TierInv, NEW c \in TierClient, CopyAcross(c) PROVE TierInv'
<1>1. PICK ok \in BOOLEAN : Settle(c, ok) BY DEF CopyAcross
<1>2. tiering[c].pc = "copy" /\ objects' = objects /\ latest' = latest /\ contested' = contested BY DEF CopyAcross, Is
<1>3. trouble' \in Nat /\ trouble' >= trouble
  <2>1. CASE trouble' = trouble BY <2>1 DEF TierInv, TierShape
  <2>2. CASE Fails BY <2>2, TroubleGrows
  <2> QED BY <2>1, <2>2 DEF CopyAcross
<1>4. tiering[c].pc \in OpenPcs /\ TierShape /\ OpsInv BY <1>2 DEF TierInv, OpenPcs
<1>5. OpsInv' /\ operations' \in Seq(TierOperation) /\ \E r \in TierChange : tiering' = [tiering EXCEPT ![c] = r] /\ r.pc = "next"
  BY <1>1, <1>4, SettleKeeps
<1>6. PICK r \in TierChange : tiering' = [tiering EXCEPT ![c] = r] /\ r.pc = "next" BY <1>5
<1>7. tiering[c].pc \notin BusyPcs /\ r.pc \notin BusyPcs BY <1>2, <1>6 DEF BusyPcs
<1> QED BY <1>2, <1>3, <1>5, <1>6, <1>7, AwayStep

\* What a busy command knows of its object and its settings.
LEMMA BusyKnows ==
    ASSUME TierInv, NEW c \in TierClient, tiering[c].pc \in BusyPcs, NEW k, k = Key(c)
    PROVE  /\ k \in TierKey /\ tiering[c] \in TierChange /\ tiering[c].data \in Nat /\ latest[k] \in Nat
           /\ objects \in [DOMAIN objects -> Nat] /\ trouble \in Nat
           /\ k \notin contested => /\ WholeKept(k) => objects[Whole(k)] = latest[k]
                                    /\ tiering[c].pc # "rewrite" => WholeKept(k) \/ (TempKept(k) /\ trouble > 0)
                                    /\ tiering[c].pc \in {"temp", "delete", "clean"} => WholeKept(k)
                                    /\ tiering[c].pc \in {"temp", "delete", "rewrite"} => tiering[c].data = latest[k]
                                    /\ tiering[c].pc \in {"delete", "rewrite"} => TempKept(k)
<1>1. tiering[c].pc \in OpenPcs BY DEF OpenPcs
<1>2. tiering[c] \in TierChange /\ k \in TierKey /\ BusyAt(tiering[c], k) /\ (k \notin contested => KeyRight(k) /\ KeyHeld(tiering[c], k))
  BY <1>1, KeyIs
<1>3. tiering[c].data \in Nat BY <1>2 DEF TierChange
<1>4. latest[k] \in Nat /\ objects \in [DOMAIN objects -> Nat] /\ trouble \in Nat BY <1>2 DEF TierInv, TierShape
<1>5. ASSUME k \notin contested
      PROVE  /\ WholeKept(k) => objects[Whole(k)] = latest[k]
             /\ tiering[c].pc # "rewrite" => WholeKept(k) \/ (TempKept(k) /\ trouble > 0)
  BY <1>2, <1>5 DEF KeyRight, KeyThere
<1> QED BY <1>2, <1>3, <1>4, <1>5 DEF KeyHeld

\* An object put into or dropped from the bucket; the others stay.
LEMMA BucketChange ==
    ASSUME objects \in [DOMAIN objects -> Nat], NEW o, NEW v \in Nat
    PROVE  /\ Put(o, v) => /\ objects' \in [DOMAIN objects' -> Nat] /\ o \in DOMAIN objects' /\ objects'[o] = v
                           /\ \A x : x # o => (x \in DOMAIN objects' <=> x \in DOMAIN objects) /\ (x \in DOMAIN objects => objects'[x] = objects[x])
           /\ DropObject(o) => /\ objects' \in [DOMAIN objects' -> Nat] /\ o \notin DOMAIN objects'
                               /\ \A x : x # o => (x \in DOMAIN objects' <=> x \in DOMAIN objects) /\ (x \in DOMAIN objects => objects'[x] = objects[x])
<1>1. ASSUME Put(o, v)
      PROVE  /\ objects' \in [DOMAIN objects' -> Nat] /\ o \in DOMAIN objects' /\ objects'[o] = v
             /\ \A x : x # o => (x \in DOMAIN objects' <=> x \in DOMAIN objects) /\ (x \in DOMAIN objects => objects'[x] = objects[x])
  BY <1>1 DEF Put, Entered
<1>2. ASSUME DropObject(o)
      PROVE  /\ objects' \in [DOMAIN objects' -> Nat] /\ o \notin DOMAIN objects'
             /\ \A x : x # o => (x \in DOMAIN objects' <=> x \in DOMAIN objects) /\ (x \in DOMAIN objects => objects'[x] = objects[x])
  BY <1>2 DEF DropObject
<1> QED BY <1>1, <1>2

LEMMA ReadObjectKeeps == ASSUME TierInv, NEW c \in TierClient, ReadObject(c) PROVE TierInv'
<1>1. PICK k : k = Key(c) OBVIOUS
<1>2. tiering[c].pc = "read" /\ tiering[c].pc \in BusyPcs /\ objects' = objects /\ latest' = latest /\ contested' = contested
  BY DEF ReadObject, Is, Still, BusyPcs
<1>3. k \in TierKey /\ objects \in [DOMAIN objects -> Nat] /\ trouble \in Nat /\ tiering[c] \in TierChange
      /\ (k \notin contested => (WholeKept(k) => objects[Whole(k)] = latest[k]) /\ (WholeKept(k) \/ (TempKept(k) /\ trouble > 0)))
  BY <1>1, <1>2, BusyKnows
<1>4. (WholeKept(k)' <=> WholeKept(k)) /\ (TempKept(k)' <=> TempKept(k)) BY <1>2 DEF WholeKept, TempKept
<1>5. objects' \in [DOMAIN objects' -> Nat] BY <1>2, <1>3
<1>6. CASE trouble' = trouble /\ Whole(k) \in DOMAIN objects /\ operations' = operations
           /\ tiering' = [tiering EXCEPT ![c].pc = "temp", ![c].data = objects[Whole(Key(c))]]
  <2>1. PICK x \in Nat : x = objects[Whole(k)] BY <1>3, <1>6
  <2>2. GoesOn(c, "temp", x) BY <1>1, <1>6, <2>1 DEF GoesOn
  <2>3. WholeKept(k) /\ (k \notin contested => x = latest[k]) BY <1>3, <1>6, <2>1 DEF WholeKept
  <2>4. "temp" \in BusyPcs BY DEF BusyPcs
  <2>5. trouble' >= trouble /\ trouble' \in Nat BY <1>3, <1>6
  <2>9. \A o : o \notin {Whole(k), Temp(k)} => /\ o \in DOMAIN objects' <=> o \in DOMAIN objects
                                               /\ o \in DOMAIN objects => objects'[o] = objects[o]
    BY <1>2
  <2> QED BY <2>9, <1>1, <1>2, <1>3, <1>4, <1>5, <1>6, <2>1, <2>2, <2>3, <2>4, <2>5, GoOnStep
<1>7. CASE Settle(c, FALSE) /\ trouble' \in Nat /\ trouble' >= trouble
  <2>1. k \notin contested => /\ WholeKept(k)' => objects'[Whole(k)] = latest[k]
                              /\ WholeKept(k)' \/ (TempKept(k)' /\ trouble' > 0)
    BY <1>2, <1>3, <1>4, <1>7
  <2> QED BY <1>1, <1>2, <1>3, <1>5, <1>7, <2>1, SettleStep
<1>8. Fails => trouble' \in Nat /\ trouble' >= trouble BY TroubleGrows
<1>9. trouble' = trouble => trouble' \in Nat /\ trouble' >= trouble BY <1>3
<1> QED BY <1>1, <1>6, <1>7, <1>8, <1>9 DEF ReadObject

LEMMA WriteTempKeeps == ASSUME TierInv, NEW c \in TierClient, WriteTemp(c) PROVE TierInv'
<1>1. PICK k : k = Key(c) OBVIOUS
<1>2. tiering[c].pc = "temp" /\ tiering[c].pc \in BusyPcs /\ latest' = latest /\ contested' = contested
  BY DEF WriteTemp, Is, Still, BusyPcs
<1>3. k \in TierKey /\ objects \in [DOMAIN objects -> Nat] /\ trouble \in Nat /\ tiering[c] \in TierChange /\ tiering[c].data \in Nat
      /\ (k \notin contested => WholeKept(k) /\ objects[Whole(k)] = latest[k] /\ tiering[c].data = latest[k])
  BY <1>1, <1>2, BusyKnows
<1>4. CASE Put(Temp(k), tiering[c].data) /\ tiering' = [tiering EXCEPT ![c].pc = "delete"] /\ operations' = operations /\ trouble' = trouble
  <2>1. GoesOn(c, "delete", tiering[c].data) BY <1>3, <1>4 DEF GoesOn, TierInv, TierShape, TierChange
  <2>2. /\ objects' \in [DOMAIN objects' -> Nat] /\ Temp(k) \in DOMAIN objects' /\ objects'[Temp(k)] = tiering[c].data
        /\ \A x : x # Temp(k) => (x \in DOMAIN objects' <=> x \in DOMAIN objects) /\ (x \in DOMAIN objects => objects'[x] = objects[x])
    BY <1>3, <1>4, BucketChange
  <2>3. Whole(k) # Temp(k) BY ObjectNames
  <2>4. k \notin contested => WholeKept(k)' /\ objects'[Whole(k)] = latest[k] /\ TempKept(k)'
    BY <1>2, <1>3, <2>2, <2>3 DEF WholeKept, TempKept
  <2>5. "delete" \in BusyPcs /\ trouble' \in Nat /\ trouble' >= trouble BY <1>3, <1>4 DEF BusyPcs
  <2>9. \A o : o \notin {Whole(k), Temp(k)} => /\ o \in DOMAIN objects' <=> o \in DOMAIN objects
                                               /\ o \in DOMAIN objects => objects'[o] = objects[o]
    BY <2>2
  <2> QED BY <2>9, <1>1, <1>2, <1>3, <1>4, <2>1, <2>2, <2>4, <2>5, GoOnStep
<1>5. CASE Fails /\ Settle(c, FALSE) /\ objects' = objects
  <2>1. trouble' \in Nat /\ trouble' >= trouble BY <1>5, TroubleGrows
  <2>2. k \notin contested => WholeKept(k)' /\ objects'[Whole(k)] = latest[k] BY <1>3, <1>5 DEF WholeKept
  <2>3. objects' \in [DOMAIN objects' -> Nat] BY <1>3, <1>5
  <2> QED BY <1>1, <1>2, <1>3, <1>5, <2>1, <2>2, <2>3, SettleStep
<1> QED BY <1>1, <1>4, <1>5 DEF WriteTemp, AfterTemp, Go

LEMMA DeleteObjectKeeps == ASSUME TierInv, NEW c \in TierClient, DeleteObject(c) PROVE TierInv'
<1>1. PICK k : k = Key(c) OBVIOUS
<1>2. tiering[c].pc = "delete" /\ tiering[c].pc \in BusyPcs /\ latest' = latest /\ contested' = contested /\ operations' = operations
      /\ tiering' = [tiering EXCEPT ![c].pc = "rewrite"]
  BY DEF DeleteObject, Is, Still, BusyPcs, Go
<1>3. k \in TierKey /\ objects \in [DOMAIN objects -> Nat] /\ trouble \in Nat /\ tiering[c] \in TierChange /\ tiering[c].data \in Nat
      /\ (k \notin contested => /\ WholeKept(k) /\ objects[Whole(k)] = latest[k] /\ tiering[c].data = latest[k] /\ TempKept(k))
  BY <1>1, <1>2, BusyKnows
<1>4. GoesOn(c, "rewrite", tiering[c].data) BY <1>2, <1>3 DEF GoesOn, TierInv, TierShape, TierChange
<1>5. "rewrite" \in BusyPcs BY DEF BusyPcs
<1>6. CASE DropObject(Whole(k)) /\ trouble' = trouble
  <2>1. /\ objects' \in [DOMAIN objects' -> Nat] /\ Whole(k) \notin DOMAIN objects'
        /\ \A x : x # Whole(k) => (x \in DOMAIN objects' <=> x \in DOMAIN objects) /\ (x \in DOMAIN objects => objects'[x] = objects[x])
    BY <1>3, <1>6, BucketChange
  <2>2. Whole(k) # Temp(k) BY ObjectNames
  <2>3. ~WholeKept(k)' /\ (k \notin contested => TempKept(k)') BY <1>2, <1>3, <2>1, <2>2 DEF WholeKept, TempKept
  <2>4. trouble' \in Nat /\ trouble' >= trouble BY <1>3, <1>6
  <2>9. \A o : o \notin {Whole(k), Temp(k)} => /\ o \in DOMAIN objects' <=> o \in DOMAIN objects
                                               /\ o \in DOMAIN objects => objects'[o] = objects[o]
    BY <2>1
  <2> QED BY <2>9, <1>1, <1>2, <1>3, <1>4, <1>5, <2>1, <2>3, <2>4, GoOnStep
<1>7. CASE Fails /\ objects' = objects
  <2>1. trouble' \in Nat /\ trouble' >= trouble BY <1>7, TroubleGrows
  <2>2. k \notin contested => WholeKept(k)' /\ objects'[Whole(k)] = latest[k] /\ TempKept(k)' BY <1>2, <1>3, <1>7 DEF WholeKept, TempKept
  <2>3. objects' \in [DOMAIN objects' -> Nat] BY <1>3, <1>7
  <2> QED BY <1>1, <1>2, <1>3, <1>4, <1>5, <1>7, <2>1, <2>2, <2>3, GoOnStep
<1> QED BY <1>1, <1>6, <1>7 DEF DeleteObject

LEMMA WriteObjectKeeps == ASSUME TierInv, NEW c \in TierClient, WriteObject(c) PROVE TierInv'
<1>1. PICK k : k = Key(c) OBVIOUS
<1>2. tiering[c].pc = "rewrite" /\ tiering[c].pc \in BusyPcs /\ latest' = latest /\ contested' = contested
  BY DEF WriteObject, Is, Still, BusyPcs
<1>3. k \in TierKey /\ objects \in [DOMAIN objects -> Nat] /\ trouble \in Nat /\ tiering[c] \in TierChange /\ tiering[c].data \in Nat
      /\ (k \notin contested => (WholeKept(k) => objects[Whole(k)] = latest[k]) /\ tiering[c].data = latest[k] /\ TempKept(k))
  BY <1>1, <1>2, BusyKnows
<1>4. CASE Put(Whole(k), tiering[c].data) /\ tiering' = [tiering EXCEPT ![c].pc = "clean"] /\ operations' = operations /\ trouble' = trouble
  <2>1. GoesOn(c, "clean", tiering[c].data) BY <1>3, <1>4 DEF GoesOn, TierInv, TierShape, TierChange
  <2>2. /\ objects' \in [DOMAIN objects' -> Nat] /\ Whole(k) \in DOMAIN objects' /\ objects'[Whole(k)] = tiering[c].data
        /\ \A x : x # Whole(k) => (x \in DOMAIN objects' <=> x \in DOMAIN objects) /\ (x \in DOMAIN objects => objects'[x] = objects[x])
    BY <1>3, <1>4, BucketChange
  <2>3. WholeKept(k)' BY <2>2 DEF WholeKept
  <2>4. "clean" \in BusyPcs /\ trouble' \in Nat /\ trouble' >= trouble BY <1>3, <1>4 DEF BusyPcs
  <2>9. \A o : o \notin {Whole(k), Temp(k)} => /\ o \in DOMAIN objects' <=> o \in DOMAIN objects
                                               /\ o \in DOMAIN objects => objects'[o] = objects[o]
    BY <2>2
  <2> QED BY <2>9, <1>1, <1>2, <1>3, <1>4, <2>1, <2>2, <2>3, <2>4, GoOnStep
<1>5. CASE Fails /\ Settle(c, FALSE) /\ objects' = objects
  <2>1. trouble' \in Nat /\ trouble' >= trouble /\ trouble' > 0 BY <1>5, TroubleGrows
  <2>2. k \notin contested => (WholeKept(k)' => objects'[Whole(k)] = latest[k]) /\ TempKept(k)'
    BY <1>2, <1>3, <1>5 DEF WholeKept, TempKept
  <2>3. objects' \in [DOMAIN objects' -> Nat] BY <1>3, <1>5
  <2> QED BY <1>1, <1>2, <1>3, <1>5, <2>1, <2>2, <2>3, SettleStep
<1> QED BY <1>1, <1>4, <1>5 DEF WriteObject, AfterRewrite, Go

LEMMA CleanUpKeeps == ASSUME TierInv, NEW c \in TierClient, CleanUp(c) PROVE TierInv'
<1>1. PICK k : k = Key(c) OBVIOUS
<1>2. tiering[c].pc = "clean" /\ tiering[c].pc \in BusyPcs /\ latest' = latest /\ contested' = contested /\ Settle(c, TRUE)
  BY DEF CleanUp, Is, Still, BusyPcs
<1>3. k \in TierKey /\ objects \in [DOMAIN objects -> Nat] /\ trouble \in Nat
      /\ (k \notin contested => WholeKept(k) /\ objects[Whole(k)] = latest[k])
  BY <1>1, <1>2, BusyKnows
<1>4. CASE DropObject(Temp(k)) /\ trouble' = trouble
  <2>1. /\ objects' \in [DOMAIN objects' -> Nat]
        /\ \A x : x # Temp(k) => (x \in DOMAIN objects' <=> x \in DOMAIN objects) /\ (x \in DOMAIN objects => objects'[x] = objects[x])
    BY <1>3, <1>4, BucketChange
  <2>2. Whole(k) # Temp(k) BY ObjectNames
  <2>3. k \notin contested => WholeKept(k)' /\ objects'[Whole(k)] = latest[k] BY <1>3, <2>1, <2>2 DEF WholeKept
  <2>4. trouble' \in Nat /\ trouble' >= trouble BY <1>3, <1>4
  <2> QED BY <1>1, <1>2, <1>3, <2>1, <2>3, <2>4, SettleStep
<1>5. CASE Fails /\ objects' = objects
  <2>1. trouble' \in Nat /\ trouble' >= trouble BY <1>5, TroubleGrows
  <2>2. k \notin contested => WholeKept(k)' /\ objects'[Whole(k)] = latest[k] BY <1>3, <1>5 DEF WholeKept
  <2>3. objects' \in [DOMAIN objects' -> Nat] BY <1>3, <1>5
  <2> QED BY <1>1, <1>2, <1>3, <1>5, <2>1, <2>2, <2>3, SettleStep
<1> QED BY <1>1, <1>4, <1>5 DEF CleanUp

LEMMA AnswerTierKeeps == ASSUME TierInv, NEW c \in TierClient, AnswerTier(c) PROVE TierInv'
<1>1. tiering[c].pc \in {"done", "refused"} /\ tiering' = [tiering EXCEPT ![c] = NoChange] /\ objects' = objects /\ latest' = latest
      /\ operations' = operations /\ contested' = contested /\ trouble' = trouble
  BY DEF AnswerTier, Still
<1>2. TierShape /\ OpsInv /\ trouble' \in Nat /\ trouble' >= trouble /\ operations' \in Seq(TierOperation) /\ Len(operations) \in Nat
  BY <1>1 DEF TierInv, TierShape
<1>3. NoChange.ops = {} /\ NoChange.pc = "idle" BY DEF NoChange
<1>4. NoChange \in TierChange /\ RefusedRight(NoChange) /\ OpsRight(NoChange, operations') BY NoChangeFits
<1>5. Len(operations') >= Len(operations) /\ (\A i \in 1..Len(operations) : i \notin tiering[c].ops => operations'[i] = operations[i])
      /\ NoChange.ops \ tiering[c].ops \subseteq (Len(operations) + 1)..Len(operations')
  BY <1>1, <1>2, <1>3
<1>6. OpsInv' BY <1>1, <1>2, <1>4, <1>5, OpsMove
<1>7. tiering[c].pc \notin BusyPcs /\ NoChange.pc \notin BusyPcs BY <1>1, <1>3 DEF BusyPcs
<1> QED BY <1>1, <1>2, <1>4, <1>6, <1>7, AwayStep

\* A writer puts a new version where nobody is, or the object is contested.
LEMMA OverwriteKeeps == ASSUME TierInv, NEW j \in TierKey, Overwrite(j) PROVE TierInv'
<1>1. tiering' = tiering /\ operations' = operations /\ trouble' \in Nat /\ trouble' >= trouble /\ Contest(j)
      /\ Put(Whole(j), latest[j] + 1) /\ latest' = [latest EXCEPT ![j] = @ + 1]
  BY TroubleGrows DEF Overwrite
<1>2. TierShape /\ OpsInv /\ latest[j] + 1 \in Nat /\ objects \in [DOMAIN objects -> Nat] BY DEF TierInv, TierShape
<1>3. /\ objects' \in [DOMAIN objects' -> Nat] /\ Whole(j) \in DOMAIN objects' /\ objects'[Whole(j)] = latest[j] + 1
      /\ \A x : x # Whole(j) => (x \in DOMAIN objects' <=> x \in DOMAIN objects) /\ (x \in DOMAIN objects => objects'[x] = objects[x])
  BY <1>1, <1>2, BucketChange
<1>4. latest' \in [TierKey -> Nat] /\ latest'[j] = latest[j] + 1 /\ \A k \in TierKey : k # j => latest'[k] = latest[k]
  BY <1>1, <1>2 DEF TierShape
<1>5. TierShape' BY <1>1, <1>2, <1>3, <1>4 DEF TierShape
<1>6. OpsInv' BY <1>1, <1>2 DEF OpsInv, OwnOps
<1>7. ASSUME NEW k \in TierKey, k \notin contested' PROVE KeyRight(k)'
  <2>1. k \notin contested /\ (k = j => Busy(k) = {}) BY <1>1, <1>7 DEF Contest
  <2>2. KeyRight(k) BY <2>1 DEF TierInv, KeysInv
  <2>3. CASE k = j
    <3>1. \A d \in TierClient : ~BusyAt(tiering[d], k) BY <2>1, <2>3 DEF Busy, BusyAt, BusyPcs, Key
    <3>2. WholeKept(k)' /\ objects'[Whole(k)] = latest'[k] BY <1>3, <1>4, <2>3 DEF WholeKept
    <3>3. \A d \in TierClient : ~BusyAt(tiering[d], k)' BY <1>1, <3>1 DEF BusyAt
    <3> QED BY <3>2, <3>3 DEF KeyRight, KeyThere, KeyHeld
  <2>4. CASE k # j
    <3>1. Whole(k) # Whole(j) /\ Temp(k) # Whole(j) BY <2>4, ObjectNames
    <3>2. WholeKept(k)' <=> WholeKept(k) BY <1>3, <3>1 DEF WholeKept
    <3>3. TempKept(k)' <=> TempKept(k) BY <1>3, <1>4, <2>4, <3>1 DEF TempKept
    <3>4. WholeKept(k) => objects'[Whole(k)] = objects[Whole(k)] BY <1>3, <3>1 DEF WholeKept
    <3>5. KeyThere(k)'
      <4>1. KeyThere(k) BY <2>2 DEF KeyRight
      <4>2. trouble > 0 => trouble' > 0 BY <1>1, <1>2 DEF TierShape
      <4> QED BY <1>1, <1>4, <2>4, <3>2, <3>3, <3>4, <4>1, <4>2 DEF KeyThere, BusyAt
    <3>6. ASSUME NEW d \in TierClient PROVE KeyHeld(tiering[d], k)'
      <4>1. KeyHeld(tiering[d], k) BY <2>2 DEF KeyRight
      <4> QED BY <1>1, <1>4, <2>4, <3>2, <3>3, <4>1 DEF KeyHeld, BusyAt
    <3>7. \A d, e \in TierClient : BusyAt(tiering[d], k)' /\ BusyAt(tiering[e], k)' => d = e BY <1>1, <2>2 DEF KeyRight, BusyAt
    <3> QED BY <3>5, <3>6, <3>7 DEF KeyRight
  <2> QED BY <2>3, <2>4
<1> QED BY <1>5, <1>6, <1>7 DEF TierInv, KeysInv

\* The program stops: the objects stay as they are, and what was under way is forgotten.
LEMMA StopKeeps == ASSUME TierInv, Stop PROVE TierInv'
<1>1. tiering' = [c \in TierClient |-> NoChange] /\ operations' = << >> /\ objects' = objects /\ latest' = latest /\ contested' = contested
      /\ trouble' \in Nat /\ trouble' > 0 /\ trouble' >= trouble
  BY TroubleGrows DEF Stop, Still
<1>2. TierShape'
  <2>1. tiering' \in [TierClient -> TierChange] BY <1>1, NoChangeFits
  <2>2. operations' \in Seq(TierOperation) BY <1>1
  <2> QED BY <1>1, <2>1, <2>2 DEF TierInv, TierShape
<1>3. \A c \in TierClient : tiering'[c] = NoChange BY <1>1
<1>4. OpsInv'
  <2>1. NoChange.ops = {} BY DEF NoChange
  <2>2. \A c \in TierClient : OpsRight(tiering'[c], operations') /\ RefusedRight(tiering'[c]) BY <1>3, NoChangeFits
  <2>3. OwnOps' BY <1>3, <2>1 DEF OwnOps
  <2> QED BY <2>2, <2>3 DEF OpsInv, RefusedRight
<1>5. ASSUME NEW k \in TierKey, k \notin contested' PROVE KeyRight(k)'
  <2>1. KeyRight(k) BY <1>1, <1>5 DEF TierInv, KeysInv
  <2>2. \A d \in TierClient : ~BusyAt(tiering'[d], k) BY <1>3, NoChangeFits
  <2>3. (WholeKept(k)' <=> WholeKept(k)) /\ (TempKept(k)' <=> TempKept(k)) BY <1>1 DEF WholeKept, TempKept
  <2>4. KeyThere(k)' BY <1>1, <2>1, <2>3 DEF KeyRight, KeyThere
  <2> QED BY <2>2, <2>4 DEF KeyRight, KeyHeld, BusyAt
<1> QED BY <1>2, <1>4, <1>5 DEF TierInv, KeysInv

LEMMA TierStepKeeps == TierInv /\ [TierNext]_tierVars => TierInv'
<1> SUFFICES ASSUME TierInv, [TierNext]_tierVars PROVE TierInv' OBVIOUS
<1>1. ASSUME NEW c \in TierClient, vfs_sync_to_tier(c) PROVE TierInv' BY <1>1, SyncKeeps
<1>2. ASSUME NEW c \in TierClient, TierStep(c) PROVE TierInv'
  BY <1>2, NextPathKeeps, CopyAcrossKeeps, ReadObjectKeeps, WriteTempKeeps, DeleteObjectKeeps, WriteObjectKeeps, CleanUpKeeps, AnswerTierKeeps
     DEF TierStep
<1>3. ASSUME NEW k \in TierKey, Overwrite(k) PROVE TierInv' BY <1>3, OverwriteKeeps
<1>4. CASE Stop BY <1>4, StopKeeps
<1>5. CASE UNCHANGED tierVars
  <2>1. tiering' = tiering /\ operations' = operations /\ objects' = objects /\ latest' = latest /\ contested' = contested /\ trouble' = trouble
    BY <1>5 DEF tierVars
  <2>2. TierShape' /\ OpsInv' BY <2>1 DEF TierInv, TierShape, OpsInv, OwnOps
  <2>3. ASSUME NEW k \in TierKey \ contested' PROVE KeyRight(k)'
    BY <2>1, <2>3 DEF TierInv, KeysInv, KeyRight, KeyThere, KeyHeld, WholeKept, TempKept, BusyAt
  <2> QED BY <2>2, <2>3 DEF TierInv, KeysInv
<1> QED BY <1>1, <1>2, <1>3, <1>4, <1>5 DEF TierNext

(* TierInv is inductive: while nobody else touches an object, a change of it     *)
(* always leaves the newest version in the object or in its temporary copy, and    *)
(* every command's count agrees with the operations it opened.                     *)
THEOREM TierInductive == TierSpec => []TierInv
<1> QED BY TierStart, TierStepKeeps, PTL DEF TierSpec

(* Whichever call of vfs_sync_to_tier fails and wherever the program stops, an     *)
(* uncontested object is not lost, and answers agree with the tracked operations:   *)
(* for any number of commands, sources, objects and failures.                       *)
THEOREM TieringCorrect == TierSpec => []TieringSafe
<1>1. TierInv => TieringSafe
  <2> SUFFICES ASSUME TierInv PROVE TieringSafe OBVIOUS
  <2>1. TieringLosesNothing
    <3> SUFFICES ASSUME NEW k \in TierKey \ contested
                 PROVE  /\ \E o \in {Whole(k), Temp(k)} : o \in DOMAIN objects /\ objects[o] = latest[k]
                        /\ trouble = 0 /\ Busy(k) = {} => Whole(k) \in DOMAIN objects /\ objects[Whole(k)] = latest[k]
      BY DEF TieringLosesNothing
    <3>1. KeyThere(k) BY DEF TierInv, KeysInv, KeyRight
    <3>2. Busy(k) = {} => \A c \in TierClient : ~BusyAt(tiering[c], k) BY DEF Busy, BusyAt, BusyPcs, Key
    <3> QED BY <3>1, <3>2 DEF KeyThere, WholeKept, TempKept
  <2>2. ASSUME NEW c \in TierClient, Is(c, "done")
        PROVE  /\ tiering[c].synced + tiering[c].failed = Len(tiering[c].paths)
               /\ Cardinality({i \in tiering[c].ops : operations[i].status = "completed"}) = tiering[c].synced
               /\ \A i \in tiering[c].ops : operations[i].status # "open"
    <3>1. OpsRight(tiering[c], operations) /\ tiering[c] \in TierChange BY DEF TierInv, OpsInv, TierShape
    <3>2. tiering[c].synced \in Nat /\ tiering[c].failed \in Nat /\ Len(tiering[c].paths) \in Nat BY <3>1 DEF TierChange
    <3>3. tiering[c].at = Len(tiering[c].paths) + 1 /\ tiering[c].at = tiering[c].synced + tiering[c].failed + 1
      BY <2>2, <3>1 DEF OpsRight, Is
    <3>4. Cardinality({i \in tiering[c].ops : operations[i].status = "completed"}) = tiering[c].synced
      BY <3>1 DEF OpsRight, Completed
    <3>5. \A i \in tiering[c].ops : operations[i].status # "open" BY <2>2, <3>1 DEF OpsRight, OpenPcs, BusyPcs, Is
    <3> QED BY <3>2, <3>3, <3>4, <3>5
  <2>3. ASSUME NEW c \in TierClient, Is(c, "refused"), tiering[c].offered
        PROVE  Type(tiering[c].src) \in {"gcs", "azure"} \/ tiering[c].tier = "local"
    BY <2>3 DEF TierInv, OpsInv, RefusedRight, Is
  <2> QED BY <2>1, <2>2, <2>3 DEF TieringSafe, TierAnswersRight
<1> QED BY <1>1, TierInductive, PTL
-----------------------------------------------------------------------------
(* ApiServer: arithmetic. *)
Refilled(x) == x * TickSeconds * PerMinute
LEMMA RefillAdds ==
    /\ \A x \in Int : Refilled(x) \in Int
    /\ \A x \in Nat : Refilled(x) >= 0
    /\ \A x, y \in Int : Refilled(x) + Refilled(y) = Refilled(x + y)
BY ApiAssumption DEF Refilled

LEMMA TwoGaps == \A t, u, v \in Int : t - v \in Int /\ v - u \in Int /\ (t - v) + (v - u) = t - u
OBVIOUS

LEMMA Divided ==
    ASSUME NEW a \in Int, NEW b \in Nat \ {0}
    PROVE  /\ a \div b \in Int /\ b * (a \div b) <= a /\ a < b * (a \div b) + b
OBVIOUS

LEMMA DividedWhole ==
    ASSUME NEW q \in Int, NEW b \in Nat \ {0}
    PROVE  (q * b) \div b = q
<1>1. q * b \in Int OBVIOUS
<1>2. PICK d : d = (q * b) \div b OBVIOUS
<1>3. d \in Int /\ b * d <= q * b /\ q * b < b * d + b BY <1>1, <1>2, Divided
<1> QED BY <1>2, <1>3

-----------------------------------------------------------------------------
(* ApiServer: the buckets. *)
\* A bucket and the admissions it paid for: what it holds now and what was taken since any of
\* them is at most a full bucket and the refill of that time.
BucketRight(b, a) ==
    /\ b = [tokens |-> b.tokens, last_refill_at |-> b.last_refill_at] /\ b.tokens \in Nat /\ b.tokens <= 60 * PerMinute
    /\ b.last_refill_at \in Nat
    /\ \A i \in 1..Len(a) : a[i] <= b.last_refill_at /\ b.tokens + 60 * (Len(a) - i + 1) <= 60 * PerMinute + Refilled(b.last_refill_at - a[i])
PairsRight(a) == \A j \in 1..Len(a) : \A i \in 1..j : 60 * (j - i + 1) <= 60 * PerMinute + Refilled(a[j] - a[i])
KeyQuota(k) ==
    /\ admitted[k] \in Seq(Nat) /\ PairsRight(admitted[k])
    /\ IF k \in DOMAIN rate_buckets THEN BucketRight(rate_buckets[k], admitted[k]) /\ rate_buckets[k].last_refill_at <= clock
       ELSE admitted[k] = << >>

LEMMA RefillRight ==
    ASSUME NEW a \in Seq(Nat), NEW b, BucketRight(b, a), NEW t \in Nat, b.last_refill_at <= t
    PROVE  BucketRight(refill(b, t), a) /\ refill(b, t).last_refill_at = t
<1>1. b.tokens \in Nat /\ b.last_refill_at \in Nat /\ t - b.last_refill_at \in Nat /\ 60 * PerMinute \in Nat
  BY ApiAssumption DEF BucketRight
<1>9. b.last_refill_at \in Nat /\ b.tokens \in Nat BY <1>1
<1>0. PICK d \in Nat : d = t - b.last_refill_at BY <1>1
<1>2. PICK x \in Int : x = Refilled(d) /\ x >= 0
  <2>1. d \in Nat /\ d \in Int BY <1>0
  <2>2. Refilled(d) \in Int /\ Refilled(d) >= 0 BY <2>1, RefillAdds
  <2> QED BY <2>2
<1>3. refill(b, t).tokens = Least(b.tokens + x, 60 * PerMinute) /\ refill(b, t).last_refill_at = t
      /\ refill(b, t) = [tokens |-> refill(b, t).tokens, last_refill_at |-> refill(b, t).last_refill_at]
  BY <1>0, <1>2 DEF refill, Refilled
<1>4. PICK y : y = refill(b, t).tokens OBVIOUS
<1>5. y \in Nat /\ y <= 60 * PerMinute /\ y <= b.tokens + x BY <1>1, <1>2, <1>3, <1>4 DEF Least
<1>6. ASSUME NEW i \in 1..Len(a) PROVE a[i] <= t /\ y + 60 * (Len(a) - i + 1) <= 60 * PerMinute + Refilled(t - a[i])
  <2>1. a[i] \in Nat /\ Len(a) \in Nat /\ i \in Nat OBVIOUS
  <2>2. a[i] <= b.last_refill_at /\ b.tokens + 60 * (Len(a) - i + 1) <= 60 * PerMinute + Refilled(b.last_refill_at - a[i])
    BY DEF BucketRight
  <2>3. PICK g : g = b.last_refill_at - a[i] OBVIOUS
  <2>0. d \in Int /\ g \in Int /\ d + g = t - a[i]
    <3>1. PICK u \in Nat, v \in Nat : u = a[i] /\ v = b.last_refill_at BY <1>9, <2>1
    <3>2. d = t - v /\ g = v - u /\ t \in Int /\ u \in Int /\ v \in Int BY <1>0, <2>3, <3>1
    <3>3. d \in Int /\ g \in Int /\ d + g = t - u BY <3>2, TwoGaps
    <3> QED BY <3>1, <3>3
  <2>4. x + Refilled(g) = Refilled(t - a[i])
    <3>1. Refilled(d) + Refilled(g) = Refilled(d + g) BY <2>0, RefillAdds
    <3> QED BY <1>2, <2>0, <3>1
  <2>5. PICK z \in Int : z = Refilled(g) BY <2>0, RefillAdds
  <2>6. PICK n \in Int : n = 60 * (Len(a) - i + 1) BY <2>1
  <2>7. y + n <= 60 * PerMinute + (x + z)
    <3>1. b.tokens + n <= 60 * PerMinute + z BY <2>2, <2>3, <2>5, <2>6
    <3>2. PICK p \in Int : p = 60 * PerMinute BY <1>1
    <3>3. b.tokens \in Int /\ y \in Int /\ x \in Int /\ z \in Int /\ n \in Int /\ p \in Int /\ y <= b.tokens + x /\ b.tokens + n <= p + z
      BY <1>1, <1>2, <1>5, <2>5, <2>6, <3>1, <3>2
    <3>4. y + n <= p + (x + z) BY <3>3
    <3> QED BY <3>2, <3>4
  <2>8. a[i] <= t BY <1>1, <2>1, <2>2
  <2> QED BY <2>4, <2>5, <2>6, <2>7, <2>8
<1> QED BY <1>3, <1>4, <1>5, <1>6 DEF BucketRight

LEMMA TakeRight ==
    ASSUME NEW a \in Seq(Nat), NEW b, BucketRight(b, a), PairsRight(a), b.tokens >= 60, NEW t, t = b.last_refill_at
    PROVE  /\ BucketRight([b EXCEPT !.tokens = @ - 60], Append(a, t)) /\ PairsRight(Append(a, t))
           /\ Append(a, t) \in Seq(Nat) /\ [b EXCEPT !.tokens = @ - 60].last_refill_at = t
<1>1. b = [tokens |-> b.tokens, last_refill_at |-> t] /\ b.tokens \in Nat /\ t \in Nat /\ b.tokens <= 60 * PerMinute /\ 60 * PerMinute \in Nat
  BY ApiAssumption DEF BucketRight
<1>2. PICK c : c = [b EXCEPT !.tokens = @ - 60] OBVIOUS
<1>3. c.tokens = b.tokens - 60 /\ c.last_refill_at = t /\ c = [tokens |-> c.tokens, last_refill_at |-> c.last_refill_at]
  BY <1>1, <1>2
<1>4. PICK e : e = Append(a, t) OBVIOUS
<1>5. e \in Seq(Nat) /\ Len(e) = Len(a) + 1 /\ e[Len(a) + 1] = t /\ Len(a) \in Nat /\ \A i \in 1..Len(a) : e[i] = a[i]
  BY <1>1, <1>4
<1>6. Refilled(t - t) = 0 BY <1>1, ApiAssumption DEF Refilled
<1>7. ASSUME NEW i \in 1..Len(e)
      PROVE  /\ e[i] <= t /\ c.tokens + 60 * (Len(e) - i + 1) <= 60 * PerMinute + Refilled(t - e[i])
             /\ 60 * (Len(e) - i + 1) <= 60 * PerMinute + Refilled(t - e[i])
  <2>1. CASE i = Len(a) + 1 BY <1>1, <1>3, <1>5, <1>6, <2>1
  <2>2. CASE i \in 1..Len(a)
    <3>1. a[i] <= t /\ b.tokens + 60 * (Len(a) - i + 1) <= 60 * PerMinute + Refilled(t - a[i]) /\ a[i] \in Nat
      <4>1. a[i] <= b.last_refill_at /\ b.tokens + 60 * (Len(a) - i + 1) <= 60 * PerMinute + Refilled(b.last_refill_at - a[i])
        BY <2>2 DEF BucketRight
      <4>2. a[i] \in Nat BY <2>2
      <4> QED BY <4>1, <4>2
    <3>2. PICK g \in Int : g = t - a[i] BY <1>1, <3>1
    <3>3. PICK z \in Int : z = Refilled(g) BY <3>2, RefillAdds
    <3>4. PICK n, p : n = 60 * (Len(a) - i + 1) /\ p = 60 * PerMinute OBVIOUS
    <3>9. n \in Int /\ p \in Int /\ n + 60 = 60 * (Len(e) - i + 1)
      <4>1. p \in Int BY <1>1, <3>4
      <4>2. n \in Int /\ n + 60 = 60 * (Len(e) - i + 1) BY <1>5, <2>2, <3>4
      <4> QED BY <4>1, <4>2
    <3>5. b.tokens + n <= p + z BY <3>1, <3>2, <3>3, <3>4
    <3>6. c.tokens + (n + 60) <= p + z /\ n + 60 <= p + z
      <4>1. b.tokens \in Int /\ b.tokens >= 60 /\ c.tokens = b.tokens - 60 /\ z \in Int BY <1>1, <1>3, <3>3
      <4> QED BY <3>5, <3>9, <4>1
    <3>7. e[i] = a[i] BY <1>5, <2>2
    <3> QED BY <3>1, <3>2, <3>3, <3>4, <3>6, <3>7, <3>9
  <2> QED BY <1>5, <2>1, <2>2
<1>8. BucketRight(c, e)
  <2>1. c.tokens \in Nat /\ c.tokens <= 60 * PerMinute /\ c.last_refill_at \in Nat BY <1>1, <1>3
  <2> QED BY <1>3, <1>7, <2>1 DEF BucketRight
<1>9. PairsRight(e)
  <2> SUFFICES ASSUME NEW j \in 1..Len(e), NEW i \in 1..j PROVE 60 * (j - i + 1) <= 60 * PerMinute + Refilled(e[j] - e[i])
    BY DEF PairsRight
  <2>1. CASE j = Len(e)
    <3>1. e[j] = t /\ i \in 1..Len(e) BY <1>5, <2>1
    <3> QED BY <1>7, <2>1, <3>1
  <2>2. CASE j \in 1..Len(a)
    <3>1. e[j] = a[j] /\ e[i] = a[i] BY <1>5, <2>2
    <3> QED BY <2>2, <3>1 DEF PairsRight
  <2> QED BY <1>5, <2>1, <2>2
<1> QED BY <1>2, <1>3, <1>4, <1>5, <1>8, <1>9

LEMMA NewBucketRight == ASSUME clock \in Nat PROVE BucketRight([tokens |-> 60 * PerMinute, last_refill_at |-> clock], << >>) /\ PairsRight(<< >>)
BY ApiAssumption DEF BucketRight, PairsRight

-----------------------------------------------------------------------------
(* ApiServer: the daily counters. *)
\* A counter counts what was charged to its own day, and no later day was charged.
DayCount(d) == d = [date |-> d.date, count |-> d.count] /\ d.date \in Int /\ d.count \in 0..DailyCap
Charged(k, day) == IF <<k, day>> \in DOMAIN charged THEN charged[<<k, day>>] ELSE 0
CountersRight ==
    /\ \A k \in DOMAIN daily_counts : DayCount(daily_counts[k]) /\ Charged(k, daily_counts[k].date) = daily_counts[k].count
    /\ \A k : \A day \in Int : <<k, day>> \in DOMAIN charged => k \in DOMAIN daily_counts /\ day <= daily_counts[k].date
    /\ \A c \in DOMAIN charged : charged[c] \in 0..DailyCap

\* The counter a request meets: the day's own, a fresh one, or one of a later day.
LEMMA RolledRight ==
    ASSUME CountersRight, NEW k, NEW today \in Int, NEW d, d = Rolled(Counter(k, today), today)
    PROVE  /\ DayCount(d) /\ Charged(k, d.date) = d.count /\ (k \in DOMAIN daily_counts => daily_counts[k].date <= d.date)
<1>1. 0 \in 0..DailyCap BY ApiAssumption
<1>2. CASE k \in DOMAIN daily_counts /\ ~(today > daily_counts[k].date)
  <2>1. d = daily_counts[k] BY <1>2 DEF Rolled, Counter
  <2> QED BY <1>2, <2>1 DEF CountersRight, DayCount
<1>3. CASE k \in DOMAIN daily_counts /\ today > daily_counts[k].date
  <2>1. d = [date |-> today, count |-> 0] BY <1>3 DEF Rolled, Counter
  <2>2. daily_counts[k].date \in Int BY <1>3 DEF CountersRight, DayCount
  <2>3. <<k, today>> \notin DOMAIN charged BY <1>3, <2>2 DEF CountersRight
  <2>4. DayCount(d) BY <1>1, <2>1 DEF DayCount
  <2> QED BY <1>3, <2>1, <2>2, <2>3, <2>4 DEF Charged
<1>4. CASE k \notin DOMAIN daily_counts
  <2>1. d = [date |-> today, count |-> 0] BY <1>4 DEF Rolled, Counter
  <2>2. <<k, today>> \notin DOMAIN charged BY <1>4 DEF CountersRight
  <2>3. DayCount(d) BY <1>1, <2>1 DEF DayCount
  <2> QED BY <1>4, <2>1, <2>2, <2>3 DEF Charged
<1> QED BY <1>2, <1>3, <1>4

\* The counter is kept as it was met, or charged with one request more.
LEMMA KeptCounters ==
    ASSUME CountersRight, NEW k, NEW d, DayCount(d), Charged(k, d.date) = d.count, k \in DOMAIN daily_counts => daily_counts[k].date <= d.date,
           daily_counts' = Entered(daily_counts, k, d), charged' = charged
    PROVE  CountersRight'
<1>1. DOMAIN daily_counts' = DOMAIN daily_counts \cup {k} /\ daily_counts'[k] = d /\ \A j \in DOMAIN daily_counts : j # k => daily_counts'[j] = daily_counts[j]
  BY DEF Entered
<1>2. ASSUME NEW j \in DOMAIN daily_counts' PROVE (DayCount(daily_counts[j]) /\ Charged(j, daily_counts[j].date) = daily_counts[j].count)'
  <2>1. CASE j = k BY <1>1, <2>1 DEF DayCount, Charged
  <2>2. CASE j # k BY <1>1, <2>2 DEF CountersRight, DayCount, Charged
  <2> QED BY <2>1, <2>2
<1>3. ASSUME NEW j, NEW day \in Int, <<j, day>> \in DOMAIN charged' PROVE j \in DOMAIN daily_counts' /\ day <= daily_counts'[j].date
  <2>1. j \in DOMAIN daily_counts /\ day <= daily_counts[j].date /\ daily_counts[j].date \in Int BY <1>3 DEF CountersRight, DayCount
  <2>2. CASE j = k BY <1>1, <2>1, <2>2 DEF DayCount
  <2>3. CASE j # k BY <1>1, <2>1, <2>3
  <2> QED BY <2>2, <2>3
<1>4. \A c \in DOMAIN charged' : charged'[c] \in 0..DailyCap BY DEF CountersRight
<1> QED BY <1>2, <1>3, <1>4 DEF CountersRight

LEMMA ChargedCounters ==
    ASSUME CountersRight, NEW k, NEW d, DayCount(d), Charged(k, d.date) = d.count, k \in DOMAIN daily_counts => daily_counts[k].date <= d.date,
           d.count < DailyCap, daily_counts' = Entered(daily_counts, k, [d EXCEPT !.count = @ + 1]),
           charged' = Entered(charged, <<k, d.date>>, 1 + Charged(k, d.date))
    PROVE  CountersRight'
<1>1. PICK e : e = [d EXCEPT !.count = @ + 1] OBVIOUS
<1>2. d.count \in Nat /\ d.count + 1 \in 0..DailyCap /\ d.date \in Int BY ApiAssumption DEF DayCount
<1>3. DayCount(e) /\ e.date = d.date /\ e.count = d.count + 1 BY <1>1, <1>2 DEF DayCount
<1>4. DOMAIN daily_counts' = DOMAIN daily_counts \cup {k} /\ daily_counts'[k] = e /\ \A j \in DOMAIN daily_counts : j # k => daily_counts'[j] = daily_counts[j]
  BY <1>1 DEF Entered
<1>5. /\ DOMAIN charged' = DOMAIN charged \cup {<<k, d.date>>} /\ charged'[<<k, d.date>>] = d.count + 1
      /\ \A c \in DOMAIN charged : c # <<k, d.date>> => charged'[c] = charged[c]
  <2>1. 1 + Charged(k, d.date) = d.count + 1 BY <1>2
  <2> QED BY <2>1 DEF Entered
<1>6. ASSUME NEW j \in DOMAIN daily_counts' PROVE (DayCount(daily_counts[j]) /\ Charged(j, daily_counts[j].date) = daily_counts[j].count)'
  <2>1. CASE j = k
    <3>1. DayCount(daily_counts'[j]) BY <1>3, <1>4, <2>1
    <3>2. Charged(j, daily_counts[j].date)' = daily_counts'[j].count BY <1>3, <1>4, <1>5, <2>1 DEF Charged
    <3> QED BY <3>1, <3>2 DEF DayCount
  <2>2. CASE j # k
    <3>1. <<j, daily_counts[j].date>> # <<k, d.date>> BY <2>2
    <3>2. Charged(j, daily_counts[j].date)' = Charged(j, daily_counts[j].date) BY <1>4, <1>5, <2>2, <3>1 DEF Charged
    <3> QED BY <1>4, <2>2, <3>2 DEF CountersRight, DayCount
  <2> QED BY <2>1, <2>2
<1>7. ASSUME NEW j, NEW day \in Int, <<j, day>> \in DOMAIN charged' PROVE j \in DOMAIN daily_counts' /\ day <= daily_counts'[j].date
  <2>1. CASE <<j, day>> = <<k, d.date>>
    <3>1. j = k /\ day = d.date BY <2>1
    <3> QED BY <1>2, <1>3, <1>4, <3>1
  <2>2. CASE <<j, day>> # <<k, d.date>>
    <3>1. j \in DOMAIN daily_counts /\ day <= daily_counts[j].date /\ daily_counts[j].date \in Int
      BY <1>5, <1>7, <2>2 DEF CountersRight, DayCount
    <3>2. CASE j = k BY <1>2, <1>3, <1>4, <3>1, <3>2
    <3>3. CASE j # k BY <1>4, <3>1, <3>3
    <3> QED BY <3>2, <3>3
  <2> QED BY <2>1, <2>2
<1>8. \A c \in DOMAIN charged' : charged'[c] \in 0..DailyCap BY <1>2, <1>5 DEF CountersRight
<1> QED BY <1>6, <1>7, <1>8 DEF CountersRight

-----------------------------------------------------------------------------
(* ApiServer: the requests on their way. *)
IsServing(s) == DOMAIN s = {"req", "pc", "seen", "now", "part", "left", "rank", "asked", "status", "retry", "by"}
Served == {200, 400, 403, 500, 501}
RefusedVerticals == {"forensic", "hiring", "insurance", "law_enforcement", "eu_workplace", "eu_education"}
PastAuth(s) == s.req.signed /\ s.seen <= s.req.exp
BackAtMidnight(t, part, n) == /\ Midnight(t) - SecondParts < TimeOfDay(t, part) + n * SecondParts
                              /\ TimeOfDay(t, part) + n * SecondParts < Midnight(t) + SecondParts
WaitRight(s) ==
    /\ s.by = "bucket" /\ PerMinute > 0 => s.left + s.retry * PerMinute >= 60 /\ (s.retry > 1 => s.left + (s.retry - 1) * PerMinute < 60)
    /\ s.by = "day" => BackAtMidnight(s.now, s.part, s.retry)
AnswerRight(s) ==
    /\ WaitRight(s) /\ (s.status \in Served /\ s.req.route # "health" => PastAuth(s))
    /\ s.status = 501 /\ s.req.route = "credibility" => s.req.vertical \notin RefusedVerticals
\* A request past the auth layer has a token that had not expired when it was looked at.
ServingRight(s, keys) ==
    /\ IsServing(s) /\ s.now \in Nat /\ s.part \in 0 .. SecondParts - 1 /\ (s.pc # "idle" => s.req.key \in keys)
    /\ s.pc \in {"bucket", "day", "cap", "run", "generate"} => PastAuth(s)
    /\ IF s.pc = "answered" THEN AnswerRight(s) ELSE s.by = "none"

ApiInv ==
    /\ clock \in Nat /\ serving \in [ApiTask -> {serving[w] : w \in ApiTask}]
    /\ DOMAIN admitted = {r.key : r \in mix.requests}
    /\ \A k \in DOMAIN admitted : KeyQuota(k)
    /\ CountersRight
    /\ \A w \in ApiTask : ServingRight(serving[w], DOMAIN admitted)

LEMMA WaitingRight == \A keys : ServingRight(Waiting, keys)
BY ApiAssumption DEF Waiting, NoRequest, ServingRight, IsServing

LEMMA ApiStart == ApiInit => ApiInv
<1> SUFFICES ASSUME ApiInit PROVE ApiInv OBVIOUS
<1>1. \A w \in ApiTask : serving[w] = Waiting BY DEF ApiInit
<1>2. DOMAIN << >> = {} OBVIOUS
<1>3. CountersRight BY <1>2 DEF ApiInit, CountersRight
<1>4. ASSUME NEW k \in DOMAIN admitted PROVE KeyQuota(k)
  <2>1. admitted[k] = << >> /\ clock \in Nat BY DEF ApiInit
  <2>2. k \notin DOMAIN rate_buckets BY <1>2 DEF ApiInit
  <2>3. << >> \in Seq(Nat) OBVIOUS
  <2> QED BY <2>1, <2>2, <2>3, NewBucketRight DEF KeyQuota
<1>5. \A w \in ApiTask : ServingRight(serving[w], DOMAIN admitted) BY <1>1, WaitingRight
<1>6. clock \in Nat /\ DOMAIN admitted = {r.key : r \in mix.requests} /\ serving \in [ApiTask -> {serving[w] : w \in ApiTask}]
  BY DEF ApiInit
<1> QED BY <1>3, <1>4, <1>5, <1>6 DEF ApiInv

\* A request's step that touches no bucket or counter.
LEMMA ServeStep ==
    ASSUME ApiInv, NEW w \in ApiTask, NEW s, ApiSet(w, s), ServingRight(s, DOMAIN admitted), UNCHANGED <<clock, mix>>, DOMAIN admitted' = DOMAIN admitted,
           \A k \in DOMAIN admitted : KeyQuota(k)', CountersRight'
    PROVE  ApiInv'
<1>1. DOMAIN serving' = ApiTask /\ serving'[w] = s /\ \A v \in ApiTask : v # w => serving'[v] = serving[v]
  BY DEF ApiInv, ApiSet
<1>2. serving' \in [ApiTask -> {serving'[v] : v \in ApiTask}] BY <1>1 DEF ApiSet, ApiInv
<1>3. \A v \in ApiTask : ServingRight(serving'[v], DOMAIN admitted') BY <1>1 DEF ApiInv
<1> QED BY <1>2, <1>3 DEF ApiInv

LEMMA GatesStay ==
    ASSUME ApiInv, NoGates, clock' = clock
    PROVE  CountersRight' /\ DOMAIN admitted' = DOMAIN admitted /\ \A k \in DOMAIN admitted : KeyQuota(k)'
<1>1. rate_buckets' = rate_buckets /\ daily_counts' = daily_counts /\ admitted' = admitted /\ charged' = charged BY DEF NoGates
<1>2. CountersRight' BY <1>1 DEF ApiInv, CountersRight, Charged
<1>3. \A k \in DOMAIN admitted : KeyQuota(k)' BY <1>1 DEF ApiInv, KeyQuota
<1> QED BY <1>1, <1>2, <1>3

LEMMA ServingFields ==
    ASSUME ApiInv, NEW w \in ApiTask
    PROVE  /\ IsServing(serving[w]) /\ serving[w].now \in Nat /\ serving[w].part \in 0 .. SecondParts - 1 /\ (serving[w].pc # "idle" => serving[w].req.key \in DOMAIN admitted)
           /\ serving[w].pc \in {"bucket", "day", "cap", "run", "generate"} => PastAuth(serving[w])
           /\ serving[w].pc # "answered" => serving[w].by = "none"
BY DEF ApiInv, ServingRight

\* A reply after the auth layer, and a refusal by it.
LEMMA ReplyRight ==
    ASSUME ApiInv, NEW w \in ApiTask, serving[w].pc \in {"auth", "run", "generate"}, NEW n,
           serving[w].pc = "auth" => n = 401,
           n = 501 /\ serving[w].req.route = "credibility" => serving[w].req.vertical \notin RefusedVerticals,
           Reply(w, n), ApiQuiet, NoGates
    PROVE  ApiInv'
<1>1. PICK s : s = [serving[w] EXCEPT !.pc = "answered", !.status = n] OBVIOUS
<1>2. IsServing(s) /\ s.pc = "answered" /\ s.status = n /\ s.req = serving[w].req /\ s.now = serving[w].now /\ s.part = serving[w].part /\ s.by = serving[w].by /\ s.seen = serving[w].seen
  <2>1. PICK q : q = serving[w] /\ IsServing(q) BY ServingFields
  <2> QED BY <2>1, <1>1 DEF IsServing
<1>3. s.by = "none" /\ s.now \in Nat /\ s.part \in 0 .. SecondParts - 1 /\ s.req.key \in DOMAIN admitted BY <1>2, ServingFields
<1>4. s.status \in Served => PastAuth(s) BY <1>2, ServingFields DEF PastAuth, Served
<1>5. ServingRight(s, DOMAIN admitted) BY <1>2, <1>3, <1>4 DEF ServingRight, AnswerRight, WaitRight
<1>6. ApiSet(w, s) BY <1>1 DEF Reply
<1> QED BY <1>5, <1>6, ServeStep, GatesStay DEF ApiQuiet

LEMMA TickRight == ASSUME ApiInv, Tick PROVE ApiInv'
<1>1. /\ clock' = clock + 1 /\ clock \in Nat /\ rate_buckets' = rate_buckets /\ daily_counts' = daily_counts /\ admitted' = admitted
      /\ charged' = charged /\ serving' = serving /\ mix' = mix
  BY DEF Tick, ApiInv
<1>2. CountersRight' BY <1>1 DEF ApiInv, CountersRight, Charged
<1>3. ASSUME NEW k \in DOMAIN admitted PROVE KeyQuota(k)'
  <2>1. KeyQuota(k) BY DEF ApiInv
  <2>2. CASE k \in DOMAIN rate_buckets
    <3>1. BucketRight(rate_buckets[k], admitted[k]) /\ rate_buckets[k].last_refill_at \in Nat /\ rate_buckets[k].last_refill_at <= clock
      BY <2>1, <2>2 DEF KeyQuota, BucketRight
    <3>2. rate_buckets[k].last_refill_at <= clock' BY <1>1, <3>1
    <3> QED BY <1>1, <2>1, <2>2, <3>1, <3>2 DEF KeyQuota
  <2>3. CASE k \notin DOMAIN rate_buckets BY <1>1, <2>1, <2>3 DEF KeyQuota
  <2> QED BY <2>2, <2>3
<1> QED BY <1>1, <1>2, <1>3 DEF ApiInv

LEMMA ReceiveRight == ASSUME ApiInv, NEW w \in ApiTask, Receive(w) PROVE ApiInv'
<1>1. PICK r \in mix.requests : ApiSet(w, [Waiting EXCEPT !.req = r, !.pc = IF r.route = "health" THEN "answered" ELSE "auth",
                                                         !.status = IF r.route = "health" THEN 200 ELSE 0])
  BY DEF Receive
<1>2. PICK pc : pc = (IF r.route = "health" THEN "answered" ELSE "auth") OBVIOUS
<1>3. PICK n : n = (IF r.route = "health" THEN 200 ELSE 0) OBVIOUS
<1>4. PICK s : s = [Waiting EXCEPT !.req = r, !.pc = pc, !.status = n] OBVIOUS
<1>5. s = [req |-> r, pc |-> pc, seen |-> 0, now |-> 0, part |-> 0, left |-> 0, rank |-> << >>, asked |-> << >>, status |-> n, retry |-> 0, by |-> "none"]
  BY <1>4 DEF Waiting
<1>6. IsServing(s) /\ s.req = r /\ s.pc = pc /\ s.now = 0 /\ s.part = 0 /\ s.status = n /\ s.by = "none" BY <1>5 DEF IsServing
<1>7. r.key \in DOMAIN admitted BY <1>1 DEF ApiInv
<1>8. s.pc = "answered" => AnswerRight(s) BY <1>2, <1>3, <1>6 DEF AnswerRight, WaitRight
<1>9. ServingRight(s, DOMAIN admitted) BY <1>2, <1>6, <1>7, <1>8, ApiAssumption DEF ServingRight
<1>10. ApiSet(w, s) BY <1>1, <1>2, <1>3, <1>4
<1>11. UNCHANGED <<clock, mix>> /\ NoGates BY DEF Receive
<1> QED BY <1>9, <1>10, <1>11, ServeStep, GatesStay

LEMMA AuthRight == ASSUME ApiInv, NEW w \in ApiTask, auth_middleware(w) PROVE ApiInv'
<1>1. serving[w].pc = "auth" /\ ApiQuiet /\ NoGates BY DEF auth_middleware, ApiIs
<1>2. CASE TokenAccepted(Req(w))
  <2>1. PICK q : q = serving[w] /\ IsServing(q) BY ServingFields
  <2>2. PICK s : s = [q EXCEPT !.pc = "bucket", !.seen = clock] OBVIOUS
  <2>4. IsServing(s) /\ s.req = q.req /\ s.pc = "bucket" /\ s.seen = clock /\ s.now = q.now /\ s.part = q.part /\ s.by = q.by BY <2>1, <2>2 DEF IsServing
  <2>5. PastAuth(s) BY <1>2, <2>1, <2>4 DEF PastAuth, TokenAccepted, Req
  <2>6. ServingRight(s, DOMAIN admitted) BY <1>1, <2>1, <2>4, <2>5, ServingFields DEF ServingRight
  <2>7. ApiSet(w, s) BY <1>2, <2>1, <2>2 DEF auth_middleware
  <2> QED BY <1>1, <2>6, <2>7, ServeStep, GatesStay DEF ApiQuiet
<1>3. CASE ~TokenAccepted(Req(w))
  <2>1. Reply(w, 401) BY <1>3 DEF auth_middleware
  <2> QED BY <1>1, <2>1, ReplyRight
<1> QED BY <1>2, <1>3

LEMMA ReadDayRight == ASSUME ApiInv, NEW w \in ApiTask, ReadDay(w) PROVE ApiInv'
<1>1. PICK q : q = serving[w] /\ IsServing(q) BY ServingFields
<1>2a. PICK part \in 0 .. SecondParts - 1 : ApiSet(w, [q EXCEPT !.now = clock, !.part = part, !.pc = "cap"]) BY <1>1 DEF ReadDay
<1>2. PICK s : s = [q EXCEPT !.now = clock, !.part = part, !.pc = "cap"] OBVIOUS
<1>4. IsServing(s) /\ s.req = q.req /\ s.pc = "cap" /\ s.seen = q.seen /\ s.now = clock /\ s.part = part /\ s.by = q.by BY <1>1, <1>2 DEF IsServing
<1>5. q.pc = "day" /\ ApiQuiet /\ NoGates /\ ApiSet(w, s) BY <1>1, <1>2, <1>2a DEF ReadDay, ApiIs
<1>6. PastAuth(s) BY <1>1, <1>4, <1>5, ServingFields DEF PastAuth
<1>7. clock \in Nat BY DEF ApiInv
<1>8. ServingRight(s, DOMAIN admitted) BY <1>1, <1>4, <1>5, <1>6, <1>7, ServingFields DEF ServingRight
<1> QED BY <1>5, <1>8, ServeStep, GatesStay DEF ApiQuiet

LEMMA DispatchedRight == ASSUME ApiInv, NEW w \in ApiTask, Dispatched(w) PROVE ApiInv'
BY WaitingRight, ServeStep, GatesStay DEF Dispatched, ApiQuiet

LEMMA GenerateRight == ASSUME ApiInv, NEW w \in ApiTask, GenerateNext(w) PROVE ApiInv'
<1>1. PICK q : q = serving[w] /\ IsServing(q) BY ServingFields
<1>2. q.pc = "generate" /\ ApiQuiet /\ NoGates BY <1>1 DEF GenerateNext, ApiIs
<1>3. CASE q.rank = << >>
  <2>1. Reply(w, 500) BY <1>1, <1>3 DEF GenerateNext
  <2> QED BY <1>1, <1>2, <2>1, ReplyRight
<1>4. CASE q.rank # << >>
  <2>1. PICK o \in Outcome(Head(q.rank), Req(w)) :
           ApiSet(w, CASE o = "image" -> [q EXCEPT !.pc = "answered", !.status = 200, !.asked = Append(@, Head(q.rank))]
                       [] o = "error" -> [q EXCEPT !.rank = Tail(@), !.asked = Append(@, Head(q.rank))]
                       [] OTHER -> [q EXCEPT !.pc = "silence", !.asked = Append(@, Head(q.rank))])
    BY <1>1, <1>4 DEF GenerateNext
  <2>0. PICK asked, rest : asked = Append(q.asked, Head(q.rank)) /\ rest = Tail(q.rank) OBVIOUS
  <2>2. PICK s : s = CASE o = "image" -> [q EXCEPT !.pc = "answered", !.status = 200, !.asked = asked]
                       [] o = "error" -> [q EXCEPT !.rank = rest, !.asked = asked]
                       [] OTHER -> [q EXCEPT !.pc = "silence", !.asked = asked]
    OBVIOUS
  <2>3. ApiSet(w, s) BY <2>0, <2>1, <2>2
  <2>5. /\ IsServing(s) /\ s.req = q.req /\ s.seen = q.seen /\ s.now = q.now /\ s.part = q.part /\ s.by = q.by
        /\ (s.pc = "answered" /\ s.status = 200) \/ s.pc \in {"generate", "silence"}
    BY <1>2, <1>1, <2>2 DEF IsServing
  <2>6. PastAuth(s) /\ s.by = "none" /\ s.now \in Nat /\ s.part \in 0 .. SecondParts - 1 /\ s.req.key \in DOMAIN admitted
    BY <1>1, <1>2, <2>5, ServingFields DEF PastAuth
  <2>7. s.pc = "answered" => AnswerRight(s) BY <2>5, <2>6 DEF AnswerRight, WaitRight
  <2>8. ServingRight(s, DOMAIN admitted) BY <2>5, <2>6, <2>7 DEF ServingRight
  <2> QED BY <1>2, <2>3, <2>8, ServeStep, GatesStay DEF ApiQuiet
<1> QED BY <1>3, <1>4

LEMMA HandlerRight == ASSUME ApiInv, NEW w \in ApiTask, RunHandler(w) PROVE ApiInv'
<1>1. PICK q : q = serving[w] /\ IsServing(q) BY ServingFields
<1>2. q.pc = "run" /\ ApiQuiet /\ NoGates BY <1>1 DEF RunHandler, ApiIs
<1>3. CASE q.req.route = "credibility"
  <2>1. CASE vertical_check(q.req.vertical)
    <3>1. Reply(w, 501) BY <1>1, <1>3, <2>1 DEF RunHandler, Req
    <3>2. q.req.vertical \notin RefusedVerticals BY <2>1 DEF vertical_check, is_allowed_for_credibility, RefusedVerticals
    <3> QED BY <1>1, <1>2, <3>1, <3>2, ReplyRight
  <2>2. CASE ~vertical_check(q.req.vertical)
    <3>1. Reply(w, 403) BY <1>1, <1>3, <2>2 DEF RunHandler, Req
    <3> QED BY <1>1, <1>2, <3>1, ReplyRight
  <2> QED BY <2>1, <2>2
<1>4. CASE q.req.route = "images"
  <2>1. CASE ~parse_policy(q.req.policy)
    <3>1. Reply(w, 400) BY <1>1, <1>4, <2>1 DEF RunHandler, Req
    <3> QED BY <1>1, <1>2, <3>1, ReplyRight
  <2>2. CASE parse_policy(q.req.policy)
    <3>1. PICK ranks : ranks = ranked_generators(q.req.policy) OBVIOUS
    <3>2. PICK s : s = [q EXCEPT !.pc = "generate", !.rank = ranks] OBVIOUS
    <3>3. ApiSet(w, s) BY <1>1, <1>4, <2>2, <3>1, <3>2 DEF RunHandler, Req
    <3>5. IsServing(s) /\ s.req = q.req /\ s.pc = "generate" /\ s.seen = q.seen /\ s.now = q.now /\ s.part = q.part /\ s.by = q.by BY <1>1, <3>2 DEF IsServing
    <3>6. PastAuth(s) /\ s.by = "none" /\ s.now \in Nat /\ s.part \in 0 .. SecondParts - 1 /\ s.req.key \in DOMAIN admitted BY <1>1, <1>2, <3>5, ServingFields DEF PastAuth
    <3>7. ServingRight(s, DOMAIN admitted) BY <3>5, <3>6 DEF ServingRight
    <3> QED BY <1>2, <3>3, <3>7, ServeStep, GatesStay DEF ApiQuiet
  <2> QED BY <2>1, <2>2
<1>5. CASE q.req.route \notin {"credibility", "images"}
  <2>1. Reply(w, 501) BY <1>1, <1>5 DEF RunHandler, Req
  <2> QED BY <1>1, <1>2, <1>5, <2>1, ReplyRight
<1> QED BY <1>3, <1>4, <1>5

\* What a request is told to wait: until a token is there, or until midnight.
LEMMA RetryRight ==
    ASSUME NEW left \in Nat, left < 60, NEW n, n = RetryAfter(left), PerMinute > 0
    PROVE  left + n * PerMinute >= 60 /\ (n > 1 => left + (n - 1) * PerMinute < 60)
<1>1. PerMinute \in Nat \ {0} BY ApiAssumption
<1>2. PICK a \in Int : a = 60 - left + PerMinute - 1 BY <1>1
<1>3. PICK d : d = a \div PerMinute OBVIOUS
<1>4. d \in Int /\ PerMinute * d <= a /\ a < PerMinute * d + PerMinute BY <1>1, <1>2, <1>3, Divided
<1>5. PICK x \in Int : x = PerMinute * d BY <1>1, <1>4
<1>6. 60 <= left + x /\ left + x - PerMinute < 60 BY <1>1, <1>2, <1>4, <1>5
<1>7. n = Clamp(d) BY <1>1, <1>2, <1>3 DEF RetryAfter
<1>8. d >= 1
  <2>1. x > 0 BY <1>5, <1>6
  <2> QED BY <1>1, <1>4, <1>5, <2>1
<1>9. n = d BY <1>4, <1>7, <1>8 DEF Clamp
<1>10. n * PerMinute = x /\ (n - 1) * PerMinute = x - PerMinute BY <1>1, <1>4, <1>5, <1>9
<1> QED BY <1>1, <1>5, <1>6, <1>10

LEMMA MidnightRight ==
    ASSUME NEW t \in Nat, NEW part \in 0 .. SecondParts - 1, NEW n, n = seconds_until_utc_midnight(t, part)
    PROVE  BackAtMidnight(t, part, n)
<1>1. TickSeconds \in Nat \ {0} /\ DayTicks \in Nat \ {0} /\ SecondParts \in Nat \ {0} BY ApiAssumption
<1>2. PICK d : d = Day(t) OBVIOUS
<1>3. d \in Int /\ t < DayTicks * d + DayTicks BY <1>1, <1>2, Divided DEF Day
<1>4. PICK m \in Int : m = (d + 1) * DayTicks BY <1>1, <1>3
<1>5. t + 1 <= m BY <1>1, <1>3, <1>4
<1>6. PICK u \in Int, v \in Int : u = t * TickSeconds /\ v = m * TickSeconds BY <1>1, <1>4
<1>7. v - u >= 1
  <2>1. (m - t) * TickSeconds = v - u BY <1>1, <1>4, <1>6
  <2>2. m - t \in Nat /\ m - t >= 1 BY <1>4, <1>5
  <2>3. (m - t) * TickSeconds >= 1 BY <1>1, <2>2
  <2> QED BY <2>1, <2>3
<1>8. PICK now \in Int, end \in Int : now = u * SecondParts + part /\ end = v * SecondParts BY <1>1, <1>6
<1>9. TimeOfDay(t, part) = now /\ Midnight(t) = end BY <1>2, <1>4, <1>6, <1>8 DEF TimeOfDay, Midnight
<1>10. end - now >= 1
  <2>1. end - now = (v - u) * SecondParts - part BY <1>1, <1>6, <1>8
  <2>2. (v - u) * SecondParts >= SecondParts BY <1>1, <1>6, <1>7
  <2>3. PICK x \in Int : x = (v - u) * SecondParts BY <1>1, <1>6
  <2> QED BY <1>1, <2>1, <2>2, <2>3
<1>11. PICK w \in Int : w = end - now BY <1>8
<1>12. PICK c : c = w \div SecondParts OBVIOUS
<1>13. c \in Int /\ SecondParts * c <= w /\ w < SecondParts * c + SecondParts BY <1>1, <1>11, <1>12, Divided
<1>14. n = Clamp(c) BY <1>9, <1>11, <1>12 DEF seconds_until_utc_midnight
<1>15. PICK x \in Int : x = SecondParts * c BY <1>1, <1>13
<1>16. CASE c >= 1
  <2>1. n * SecondParts = x BY <1>1, <1>13, <1>14, <1>15, <1>16 DEF Clamp
  <2>2. x <= w /\ w < x + SecondParts BY <1>13, <1>15
  <2>3. end - SecondParts < now + x /\ now + x < end + SecondParts BY <1>1, <1>8, <1>11, <1>15, <2>2
  <2> QED BY <1>9, <2>1, <2>3 DEF BackAtMidnight
<1>17. CASE c < 1
  <2>1. n = 1 /\ n * SecondParts = SecondParts BY <1>1, <1>13, <1>14, <1>17 DEF Clamp
  <2>2. x <= 0 BY <1>1, <1>13, <1>15, <1>17
  <2>3. w < SecondParts /\ w >= 1 BY <1>1, <1>10, <1>11, <1>13, <1>15, <2>2
  <2>4. end - SecondParts < now + SecondParts /\ now + SecondParts < end + SecondParts BY <1>1, <1>8, <1>11, <2>3
  <2> QED BY <1>9, <2>1, <2>4 DEF BackAtMidnight
<1> QED BY <1>13, <1>16, <1>17

\* The bucket a request meets, filled up to now.
LEMMA MetBucketRight ==
    ASSUME ApiInv, NEW k \in DOMAIN admitted, NEW b, b = refill(Bucket(k), clock)
    PROVE  BucketRight(b, admitted[k]) /\ b.last_refill_at = clock /\ PairsRight(admitted[k]) /\ admitted[k] \in Seq(Nat)
<1>1. KeyQuota(k) /\ clock \in Nat BY DEF ApiInv
<1>2. admitted[k] \in Seq(Nat) /\ PairsRight(admitted[k]) BY <1>1 DEF KeyQuota
<1>3. BucketRight(Bucket(k), admitted[k]) /\ Bucket(k).last_refill_at <= clock
  <2>1. CASE k \in DOMAIN rate_buckets BY <1>1, <2>1 DEF KeyQuota, Bucket
  <2>2. CASE k \notin DOMAIN rate_buckets
    <3>1. admitted[k] = << >> /\ Bucket(k) = [tokens |-> 60 * PerMinute, last_refill_at |-> clock] BY <1>1, <2>2 DEF KeyQuota, Bucket
    <3> QED BY <1>1, <3>1, NewBucketRight
  <2> QED BY <2>1, <2>2
<1> QED BY <1>1, <1>2, <1>3, RefillRight

\* One key's bucket and admissions change, the others' stay.
LEMMA BucketStep ==
    ASSUME ApiInv, NEW k \in DOMAIN admitted, NEW b, NEW a, rate_buckets' = Entered(rate_buckets, k, b), clock' = clock,
           DOMAIN admitted' = DOMAIN admitted, admitted'[k] = a, \A j \in DOMAIN admitted : j # k => admitted'[j] = admitted[j],
           BucketRight(b, a), b.last_refill_at = clock, PairsRight(a), a \in Seq(Nat)
    PROVE  DOMAIN admitted' = DOMAIN admitted /\ \A j \in DOMAIN admitted : KeyQuota(j)'
<1>1. DOMAIN rate_buckets' = DOMAIN rate_buckets \cup {k} /\ rate_buckets'[k] = b /\ \A j \in DOMAIN rate_buckets : j # k => rate_buckets'[j] = rate_buckets[j]
  BY DEF Entered
<1>2. DOMAIN admitted' = DOMAIN admitted /\ admitted'[k] = a /\ \A j \in DOMAIN admitted : j # k => admitted'[j] = admitted[j] OBVIOUS
<1>3. ASSUME NEW j \in DOMAIN admitted PROVE KeyQuota(j)'
  <2>1. CASE j = k
    <3>1. clock \in Nat BY DEF ApiInv
    <3> QED BY <1>1, <1>2, <2>1, <3>1 DEF KeyQuota
  <2>2. CASE j # k
    <3>1. KeyQuota(j) BY DEF ApiInv
    <3> QED BY <1>1, <1>2, <2>2, <3>1 DEF KeyQuota
  <2> QED BY <2>1, <2>2
<1> QED BY <1>2, <1>3

LEMMA ConsumeRight == ASSUME ApiInv, NEW w \in ApiTask, try_consume(w) PROVE ApiInv'
<1>1. PICK q : q = serving[w] /\ IsServing(q) BY ServingFields
<1>2. q.pc = "bucket" /\ ApiQuiet /\ daily_counts' = daily_counts /\ charged' = charged BY <1>1 DEF try_consume, ApiIs
<1>3. PICK k : k = q.req.key OBVIOUS
<1>4. k \in DOMAIN admitted /\ q.now \in Nat /\ q.part \in 0 .. SecondParts - 1 /\ PastAuth(q) /\ q.by = "none" BY <1>1, <1>2, <1>3, ServingFields
<1>5. PICK b : b = refill(Bucket(k), clock) OBVIOUS
<1>6. BucketRight(b, admitted[k]) /\ b.last_refill_at = clock /\ PairsRight(admitted[k]) /\ admitted[k] \in Seq(Nat)
  BY <1>4, <1>5, MetBucketRight
<1>7. CountersRight' BY <1>2 DEF ApiInv, CountersRight, Charged
<1>8. CASE b.tokens >= 60
  <2>1. /\ rate_buckets' = Entered(rate_buckets, k, [b EXCEPT !.tokens = @ - 60]) /\ ApiSet(w, [q EXCEPT !.pc = "day"])
        /\ admitted' = [admitted EXCEPT ![k] = Append(admitted[k], clock)]
    BY <1>1, <1>3, <1>5, <1>8 DEF try_consume, Req
  <2>2. PICK c, a : c = [b EXCEPT !.tokens = @ - 60] /\ a = Append(admitted[k], clock) OBVIOUS
  <2>3. BucketRight(c, a) /\ PairsRight(a) /\ a \in Seq(Nat) /\ c.last_refill_at = clock BY <1>6, <1>8, <2>2, TakeRight
  <2>3a. /\ rate_buckets' = Entered(rate_buckets, k, c) /\ DOMAIN admitted' = DOMAIN admitted /\ admitted'[k] = a
         /\ \A j \in DOMAIN admitted : j # k => admitted'[j] = admitted[j]
    BY <1>4, <2>1, <2>2
  <2>4. DOMAIN admitted' = DOMAIN admitted /\ \A j \in DOMAIN admitted : KeyQuota(j)' BY <1>2, <1>4, <2>2, <2>3, <2>3a, BucketStep DEF ApiQuiet
  <2>5. PICK s : s = [q EXCEPT !.pc = "day"] OBVIOUS
  <2>7. IsServing(s) /\ s.req = q.req /\ s.pc = "day" /\ s.seen = q.seen /\ s.now = q.now /\ s.part = q.part /\ s.by = q.by BY <1>1, <2>5 DEF IsServing
  <2>8. PastAuth(s) BY <1>4, <2>7 DEF PastAuth
  <2>9. ServingRight(s, DOMAIN admitted) BY <1>3, <1>4, <2>7, <2>8 DEF ServingRight
  <2> QED BY <1>2, <1>7, <2>1, <2>4, <2>5, <2>9, ServeStep DEF ApiQuiet
<1>9. CASE ~(b.tokens >= 60)
  <2>0. b.tokens \in Nat /\ b.tokens < 60 BY <1>6, <1>9 DEF BucketRight
  <2>1a. PICK n, left : n = RetryAfter(b.tokens) /\ left = b.tokens OBVIOUS
  <2>1. PICK s : s = [q EXCEPT !.pc = "answered", !.status = 429, !.retry = n, !.left = left, !.by = "bucket"] OBVIOUS
  <2>2. rate_buckets' = Entered(rate_buckets, k, b) /\ admitted' = admitted /\ ApiSet(w, s)
    BY <1>1, <1>3, <1>5, <1>9, <2>1a, <2>1 DEF try_consume, Req
  <2>4. DOMAIN admitted' = DOMAIN admitted /\ \A j \in DOMAIN admitted : KeyQuota(j)' BY <1>2, <1>4, <1>6, <2>2, BucketStep DEF ApiQuiet
  <2>6. IsServing(s) /\ s.req = q.req /\ s.pc = "answered" /\ s.now = q.now /\ s.part = q.part /\ s.by = "bucket" /\ s.status = 429 /\ s.retry = n /\ s.left = left
    BY <1>1, <2>1 DEF IsServing
  <2>7. WaitRight(s) BY <2>0, <2>1a, <2>6, RetryRight DEF WaitRight
  <2>8. AnswerRight(s) BY <2>6, <2>7 DEF AnswerRight, Served
  <2>9. ServingRight(s, DOMAIN admitted) BY <1>3, <1>4, <2>6, <2>8 DEF ServingRight
  <2> QED BY <1>2, <1>7, <2>2, <2>4, <2>9, ServeStep DEF ApiQuiet
<1> QED BY <1>8, <1>9

LEMMA IncrementRight == ASSUME ApiInv, NEW w \in ApiTask, try_increment(w) PROVE ApiInv'
<1>1. PICK q : q = serving[w] /\ IsServing(q) BY ServingFields
<1>2. q.pc = "cap" /\ ApiQuiet /\ rate_buckets' = rate_buckets /\ admitted' = admitted BY <1>1 DEF try_increment, ApiIs
<1>3. PICK k, today : k = q.req.key /\ today = Day(q.now) OBVIOUS
<1>4. k \in DOMAIN admitted /\ q.now \in Nat /\ q.part \in 0 .. SecondParts - 1 /\ PastAuth(q) /\ q.by = "none" BY <1>1, <1>2, <1>3, ServingFields
<1>5. today \in Int BY <1>3, <1>4, Divided, ApiAssumption DEF Day
<1>6. PICK d : d = Rolled(Counter(k, today), today) OBVIOUS
<1>7. DayCount(d) /\ Charged(k, d.date) = d.count /\ (k \in DOMAIN daily_counts => daily_counts[k].date <= d.date) /\ CountersRight
  BY <1>5, <1>6, RolledRight DEF ApiInv
<1>8. \A j \in DOMAIN admitted : KeyQuota(j)' BY <1>2 DEF ApiInv, KeyQuota, ApiQuiet
<1>9. CASE d.count >= DailyCap
  <2>1a. PICK n : n = seconds_until_utc_midnight(q.now, q.part) OBVIOUS
  <2>1. PICK s : s = [q EXCEPT !.pc = "answered", !.status = 429, !.retry = n, !.by = "day"] OBVIOUS
  <2>2. daily_counts' = Entered(daily_counts, k, d) /\ charged' = charged /\ ApiSet(w, s)
    BY <1>1, <1>3, <1>6, <1>9, <2>1a, <2>1 DEF try_increment, Req, Refused
  <2>3. CountersRight' BY <1>7, <2>2, KeptCounters
  <2>5. IsServing(s) /\ s.req = q.req /\ s.pc = "answered" /\ s.now = q.now /\ s.part = q.part /\ s.by = "day" /\ s.status = 429 /\ s.retry = n
    BY <1>1, <2>1 DEF IsServing
  <2>6. WaitRight(s) BY <1>4, <2>1a, <2>5, MidnightRight DEF WaitRight
  <2>7. AnswerRight(s) BY <2>5, <2>6 DEF AnswerRight, Served
  <2>8. ServingRight(s, DOMAIN admitted) BY <1>3, <1>4, <2>5, <2>7 DEF ServingRight
  <2> QED BY <1>2, <1>8, <2>2, <2>3, <2>8, ServeStep DEF ApiQuiet
<1>10. CASE ~(d.count >= DailyCap)
  <2>1. PICK s : s = [q EXCEPT !.pc = "run", !.now = 0, !.part = 0] OBVIOUS
  <2>2. /\ daily_counts' = Entered(daily_counts, k, [d EXCEPT !.count = @ + 1]) /\ ApiSet(w, s)
        /\ charged' = Entered(charged, <<k, d.date>>, 1 + Charged(k, d.date))
    BY <1>1, <1>3, <1>6, <1>10, <2>1 DEF try_increment, Req, Charged
  <2>3. d.count < DailyCap BY <1>7, <1>10, ApiAssumption DEF DayCount
  <2>4. CountersRight' BY <1>7, <2>2, <2>3, ChargedCounters
  <2>6. IsServing(s) /\ s.req = q.req /\ s.pc = "run" /\ s.seen = q.seen /\ s.now = 0 /\ s.part = 0 /\ s.by = q.by BY <1>1, <2>1 DEF IsServing
  <2>7. PastAuth(s) BY <1>4, <2>6 DEF PastAuth
  <2>8. ServingRight(s, DOMAIN admitted) BY <1>3, <1>4, <2>6, <2>7, ApiAssumption DEF ServingRight
  <2> QED BY <1>2, <1>8, <2>2, <2>4, <2>8, ServeStep DEF ApiQuiet
<1> QED BY <1>9, <1>10

LEMMA ApiStepKeeps == ApiInv /\ [ApiNext]_apiVars => ApiInv'
<1> SUFFICES ASSUME ApiInv, [ApiNext]_apiVars PROVE ApiInv' OBVIOUS
<1>1. CASE Tick BY <1>1, TickRight
<1>2. ASSUME NEW w \in ApiTask, Receive(w) PROVE ApiInv' BY <1>2, ReceiveRight
<1>3. ASSUME NEW w \in ApiTask, Serve(w) PROVE ApiInv'
  BY <1>3, AuthRight, ConsumeRight, ReadDayRight, IncrementRight, HandlerRight, GenerateRight, DispatchedRight DEF Serve
<1>4. CASE UNCHANGED apiVars
  <2>1. /\ clock' = clock /\ rate_buckets' = rate_buckets /\ daily_counts' = daily_counts /\ admitted' = admitted /\ charged' = charged
        /\ serving' = serving /\ mix' = mix
    BY <1>4 DEF apiVars
  <2>2. CountersRight' /\ \A k \in DOMAIN admitted : KeyQuota(k)' BY <2>1, GatesStay DEF NoGates
  <2> QED BY <2>1, <2>2 DEF ApiInv
<1> QED BY <1>1, <1>2, <1>3, <1>4 DEF ApiNext

\* Every key's bucket never holds more than a full one and the refill paid for, its day's
\* counter is what was charged to that day, and every request past the auth layer had a
\* token that had not expired (TokenBucket, DailyCounter and auth_middleware).
THEOREM ApiInductive == ApiSpec => []ApiInv
BY ApiStart, ApiStepKeeps, PTL DEF ApiSpec

\* For any rate, cap, clock and mix of requests: no key gets more tokens between two of its
\* admissions than a full bucket and the refill, and no day is charged above the cap.
THEOREM QuotasCorrect == ApiSpec => []QuotasHold
<1>1. ApiInv => QuotasHold
  <2> SUFFICES ASSUME ApiInv PROVE QuotasHold OBVIOUS
  <2>1. ASSUME NEW k \in DOMAIN admitted, NEW j \in DOMAIN admitted[k], NEW i \in 1..j
        PROVE  60 * (j - i + 1) <= 60 * PerMinute + Between(k, i, j)
    <3>1. admitted[k] \in Seq(Nat) /\ PairsRight(admitted[k]) BY DEF ApiInv, KeyQuota
    <3>2. j \in 1..Len(admitted[k]) BY <3>1
    <3>3. 60 * (j - i + 1) <= 60 * PerMinute + Refilled(admitted[k][j] - admitted[k][i]) BY <3>1, <3>2 DEF PairsRight
    <3> QED BY <3>3 DEF Refilled, Between
  <2>2. ASSUME NEW c \in DOMAIN charged PROVE charged[c] <= DailyCap
    <3>1. charged[c] \in 0..DailyCap BY DEF ApiInv, CountersRight
    <3> QED BY <3>1, ApiAssumption
  <2> QED BY <2>1, <2>2 DEF QuotasHold
<1> QED BY <1>1, ApiInductive, PTL

\* What a request is answered is right, whatever the others do: served only past a token that
\* had not expired, told to wait exactly until a token is there, or to within a second of the next midnight.
THEOREM AnswersCorrect == ApiSpec => []AnswersRight
<1>1. ApiInv => AnswersRight
  <2> SUFFICES ASSUME ApiInv, NEW w \in ApiTask, serving[w].pc = "answered" PROVE AnswerRight(serving[w])
    BY DEF AnswersRight, AnswerRight, WaitRight, BackAtMidnight, PastAuth, Served, RefusedVerticals, ApiIs
  <2> QED BY DEF ApiInv, ServingRight
<1> QED BY <1>1, ApiInductive, PTL

\* For any requests at once: the rates and the daily caps hold, and every answer of the layers
\* is right for the moment it was given.
THEOREM ApiCorrect == ApiSpec => []ApiSafe
<1>1. QuotasHold /\ AnswersRight => ApiSafe BY DEF ApiSafe
<1> QED BY <1>1, QuotasCorrect, AnswersCorrect, PTL
=============================================================================
