-------------------------------- MODULE Tiers --------------------------------
(***************************************************************************)
(* The tier commands: what targets a source is offered, and vfs_sync_to_tier,      *)
(* which copies to another source or, for S3, rewrites every object through a      *)
(* temporary ".tiering" object.  Every call of the object store may fail or be the  *)
(* last before the program stops; others write the same objects.                   *)
(***************************************************************************)
EXTENDS Integers, Sequences, FiniteSets, Maps

CONSTANTS TierClient, TierSource,   \* source -> its type
          TierKey,                  \* object names
          TierPaths,                \* the sequences of objects a command is given
          MaxTierCalls, MaxTierTrouble   \* commands; failures, writes of others and stops

ASSUME TierAssumption == MaxTierCalls \in Nat /\ MaxTierTrouble \in Nat
\* Commands are given objects of the bucket, and "none" stands for the absent target.
ASSUME TierRequestAssumption == TierPaths \subseteq Seq(TierKey) /\ "none" \notin DOMAIN TierSource

VARIABLES objects,     \* the bucket: [key, temp] -> version
          latest,      \* history: key -> the version last written by its owner
          copied,      \* objects copied to another source
          tiering,     \* client -> its command
          operations,  \* the tracker: sequence of [key, status]
          contested,   \* history: keys another client or writer touched meanwhile
          tierCalls, trouble

tierVars == <<objects, latest, copied, tiering, operations, contested, tierCalls, trouble>>

NoChange == [src |-> "none", target |-> "none", tier |-> "none", offered |-> FALSE, paths |-> << >>, pc |-> "idle", at |-> 1, data |-> 0,
             synced |-> 0, failed |-> 0, ops |-> {}]
Type(s)  == TierSource[s]
category(t) == CASE t \in {"s3", "s3_compatible", "gcs", "azure", "oracle"} -> "cloud" [] t = "local" -> "local" [] OTHER -> "network"
Whole(k) == [key |-> k, temp |-> FALSE]
Temp(k)  == [key |-> k, temp |-> TRUE]

-----------------------------------------------------------------------------
(* vfs_get_tier_targets: the tiers, and for local sources the cloud sources, offered. *)
Offer(tier, target) == [tier |-> tier, target |-> target]
CloudOffers(t) == IF t \in {"s3", "s3_compatible", "gcs", "azure"} THEN {Offer("nearline", "none"), Offer("cold", "none")} ELSE {}
vfs_get_tier_targets(s) ==
    LET clouds == {x \in DOMAIN TierSource : category(Type(x)) = "cloud"}
    IN  CASE category(Type(s)) = "cloud" -> CloudOffers(Type(s))
          [] category(Type(s)) = "local" -> IF clouds = {} THEN {Offer("local", "none")} ELSE {Offer("cold", x) : x \in clouds}
          [] OTHER -> {}

parse_tier(t) == t \in {"hot", "warm", "cold", "nearline", "archive", "instant-retrieval"}
Rewritable(s) == category(Type(s)) = "cloud" /\ Type(s) \in {"s3", "s3_compatible"}

-----------------------------------------------------------------------------
Key(c)       == tiering[c].paths[tiering[c].at]
Is(c, pc)    == tiering[c].pc = pc
Go(c, pc)    == tiering' = [tiering EXCEPT ![c].pc = pc]
Busy(k)      == {c \in TierClient : tiering[c].pc \in {"read", "temp", "delete", "rewrite", "clean"} /\ Key(c) = k}
Contest(k)   == contested' = IF Busy(k) # {} THEN contested \cup {k} ELSE contested
CanFail      == trouble < MaxTierTrouble
Fails        == CanFail /\ trouble' = trouble + 1
Still        == UNCHANGED <<latest, copied, contested, tierCalls>>

\* The command, from an offer or with any tier and target.
vfs_sync_to_tier(c) ==
    /\ Is(c, "idle") /\ tierCalls < MaxTierCalls /\ tierCalls' = tierCalls + 1
    /\ \E s \in DOMAIN TierSource, ps \in TierPaths :
          \E o \in vfs_get_tier_targets(s) \cup {Offer("frozen", "none")} :
             LET told == [NoChange EXCEPT !.src = s, !.target = o.target, !.tier = o.tier, !.paths = ps, !.offered = o \in vfs_get_tier_targets(s)]
                 fine == parse_tier(o.tier) /\ (o.target # "none" \/ Rewritable(s))
             IN  tiering' = [tiering EXCEPT ![c] = [told EXCEPT !.pc = IF fine THEN "next" ELSE "refused"]]
    /\ UNCHANGED <<objects, latest, copied, operations, contested, trouble>>

Opened(c, pc) == /\ operations' = Append(operations, [key |-> Key(c), status |-> "open"])
                 /\ tiering' = [tiering EXCEPT ![c].pc = pc, ![c].ops = @ \cup {Len(operations) + 1}, ![c].data = 0]
MyOperation(c) == CHOOSE i \in tiering[c].ops : \A j \in tiering[c].ops : j <= i
Settle(c, ok) ==
    /\ operations' = [operations EXCEPT ![MyOperation(c)].status = IF ok THEN "completed" ELSE "failed"]
    /\ tiering' = [tiering EXCEPT ![c].pc = "next", ![c].at = @ + 1, ![c].synced = @ + (IF ok THEN 1 ELSE 0), ![c].failed = @ + (IF ok THEN 0 ELSE 1)]

\* One path after the other, each with an operation of its own.
NextPath(c) ==
    /\ Is(c, "next") /\ UNCHANGED <<objects, latest, copied, tierCalls, trouble>>
    /\ IF tiering[c].at > Len(tiering[c].paths) THEN Go(c, "done") /\ UNCHANGED <<operations, contested>>
       ELSE IF tiering[c].target # "none" THEN Opened(c, "copy") /\ UNCHANGED contested
       ELSE Opened(c, "read") /\ Contest(Key(c))
CopyAcross(c) ==
    /\ Is(c, "copy") /\ UNCHANGED <<objects, latest, contested, tierCalls>>
    /\ \/ Whole(Key(c)) \in DOMAIN objects /\ copied' = copied \cup {Key(c)} /\ Settle(c, TRUE) /\ UNCHANGED trouble
       \/ Whole(Key(c)) \notin DOMAIN objects /\ Settle(c, FALSE) /\ UNCHANGED <<copied, trouble>>
       \/ Fails /\ Settle(c, FALSE) /\ UNCHANGED copied

\* change_object_storage_tier: read, write the temporary object, delete, write again,
\* delete the temporary object; both deletes are best effort.
ReadObject(c) ==
    /\ Is(c, "read") /\ UNCHANGED objects /\ Still
    /\ \/ Whole(Key(c)) \in DOMAIN objects /\ tiering' = [tiering EXCEPT ![c].pc = "temp", ![c].data = objects[Whole(Key(c))]] /\ UNCHANGED <<operations, trouble>>
       \/ Whole(Key(c)) \notin DOMAIN objects /\ Settle(c, FALSE) /\ UNCHANGED trouble
       \/ Fails /\ Settle(c, FALSE)
Put(o, v) == objects' = Entered(objects, o, v)
DropObject(o)   == objects' = [x \in DOMAIN objects \ {o} |-> objects[x]]
\* Mutant of AfterTemp: a temporary object that could not be written is not missed.
AfterTempAnyway(c, ok) == Go(c, "delete") /\ UNCHANGED operations
AfterTemp(c, ok) == IF ok THEN Go(c, "delete") /\ UNCHANGED operations ELSE Settle(c, FALSE)
WriteTemp(c) ==
    /\ Is(c, "temp") /\ Still
    /\ \/ Put(Temp(Key(c)), tiering[c].data) /\ AfterTemp(c, TRUE) /\ UNCHANGED trouble
       \/ Fails /\ AfterTemp(c, FALSE) /\ UNCHANGED objects
DeleteObject(c) ==
    /\ Is(c, "delete") /\ Go(c, "rewrite") /\ UNCHANGED operations /\ Still
    /\ \/ DropObject(Whole(Key(c))) /\ UNCHANGED trouble
       \/ Fails /\ UNCHANGED objects
AfterRewrite(c, ok) == IF ok THEN Go(c, "clean") /\ UNCHANGED operations ELSE Settle(c, FALSE)
WriteObject(c) ==
    /\ Is(c, "rewrite") /\ Still
    /\ \/ Put(Whole(Key(c)), tiering[c].data) /\ AfterRewrite(c, TRUE) /\ UNCHANGED trouble
       \/ Fails /\ AfterRewrite(c, FALSE) /\ UNCHANGED objects
CleanUp(c) ==
    /\ Is(c, "clean") /\ Settle(c, TRUE) /\ Still
    /\ \/ DropObject(Temp(Key(c))) /\ UNCHANGED trouble
       \/ Fails /\ UNCHANGED objects

\* vfs_change_tier reports the failures of its one path as an error of its own.
AnswerTier(c) ==
    /\ tiering[c].pc \in {"done", "refused"} /\ tiering' = [tiering EXCEPT ![c] = NoChange]
    /\ UNCHANGED <<objects, operations, trouble>> /\ Still

\* Another writer replaces an object; the program stops.
Overwrite(k) ==
    /\ Fails /\ Put(Whole(k), latest[k] + 1) /\ latest' = [latest EXCEPT ![k] = @ + 1] /\ Contest(k)
    /\ UNCHANGED <<copied, tiering, operations, tierCalls>>
Stop ==
    /\ Fails /\ tiering' = [c \in TierClient |-> NoChange] /\ operations' = << >> /\ UNCHANGED objects /\ Still

TierInit ==
    /\ objects = [o \in {Whole(k) : k \in TierKey} |-> 1] /\ latest = [k \in TierKey |-> 1] /\ copied = {}
    /\ tiering = [c \in TierClient |-> NoChange] /\ operations = << >> /\ contested = {} /\ tierCalls = 0 /\ trouble = 0
TierStep(c) == \/ NextPath(c) \/ CopyAcross(c) \/ ReadObject(c) \/ WriteTemp(c) \/ DeleteObject(c) \/ WriteObject(c) \/ CleanUp(c) \/ AnswerTier(c)
TierNext == \/ \E c \in TierClient : vfs_sync_to_tier(c) \/ TierStep(c)
            \/ \E k \in TierKey : Overwrite(k)
            \/ Stop
TierSpec == TierInit /\ [][TierNext]_tierVars

-----------------------------------------------------------------------------
(* Properties *)
\* Whatever call of a tier change fails and wherever the program stops, the newest version of
\* an object is still in the bucket, under its name or its ".tiering" name, and under its name
\* when no change of it is under way and none failed; unless two tier changes, or a change and
\* a writer, met at the same object.
TieringLosesNothing ==
    \A k \in TierKey \ contested :
        /\ \E o \in {Whole(k), Temp(k)} : o \in DOMAIN objects /\ objects[o] = latest[k]
        /\ trouble = 0 /\ Busy(k) = {} => Whole(k) \in DOMAIN objects /\ objects[Whole(k)] = latest[k]

\* A command that came to its end settled the operation of every path and counted it once, as
\* synced exactly when its operation is completed, and a target that was offered for an S3 or
\* a local source is refused only when there was no cloud source to offer.
TierAnswersRight ==
    \A c \in TierClient :
        /\ Is(c, "done") => /\ tiering[c].synced + tiering[c].failed = Len(tiering[c].paths)
                            /\ Cardinality({i \in tiering[c].ops : operations[i].status = "completed"}) = tiering[c].synced
                            /\ \A i \in tiering[c].ops : operations[i].status # "open"
        /\ Is(c, "refused") /\ tiering[c].offered => Type(tiering[c].src) \in {"gcs", "azure"} \/ tiering[c].tier = "local"

\* Tier changes lose nothing and say what they did.
TieringSafe == TieringLosesNothing /\ TierAnswersRight
=============================================================================
