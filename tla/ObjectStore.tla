----------------------------- MODULE ObjectStore -----------------------------
(***************************************************************************)
(* vfs/adapters/{s3,gcs,azure_blob,oracle_object}_storage.rs: a file tree on *)
(* top of a flat bucket.  A method is the sequence of OpenDAL requests it     *)
(* makes: rename is a copy and a delete, append a read and a write, a         *)
(* recursive delete a listing and many deletes.  Each request is a step, each  *)
(* may fail, and what a request answers decides the requests that follow.      *)
(*                                                                         *)
(* The adapters do not agree on what OpenDAL's listing returns, so it is a     *)
(* parameter `dal' of the model: entry names are whole keys or last segments,  *)
(* the listing is deep or stops at the next slash, a key is found when only    *)
(* keys below it exist, and a key with a trailing slash can be written.        *)
(***************************************************************************)
EXTENDS Integers, Sequences, FiniteSets, Functions, SequencesExt, FiniteSetsExt

CONSTANTS StorePath,    \* paths: sequences of names, the root is << >>
          TempName,     \* names with .part, .chunk. or .tmp in them
          StoreByte,    \* bytes of a content
          StorePair,    \* sources and destinations of copies and moves
          InitialBucket \* the buckets a call may find

ASSUME StorePathAssumption == StorePath \subseteq Seq(UNION {ToSet(p) : p \in StorePath})

VARIABLES provider,  \* which adapter: "s3", "gcs", "azure", "oracle"
          dal,       \* how OpenDAL answers: [full, deep, dirStat, dirWrite]
          bucket,    \* key -> content
          request    \* the call: its arguments, the requests left, its result

storeVars == <<provider, dal, bucket, request>>

Provider == {"s3", "gcs", "azure", "oracle"}
Dal == [full : BOOLEAN, deep : BOOLEAN, dirStat : BOOLEAN, dirWrite : BOOLEAN]

\* A key of the bucket; the key of a directory marker ends with a slash.
Obj(p)    == [path |-> p, dir |-> FALSE]
Marker(p) == [path |-> p, dir |-> TRUE]
Below(p, k) == IsStrictPrefix(p, k.path) \/ k = Marker(p)

-----------------------------------------------------------------------------
(* OpenDAL, as the adapters use it. *)

IsExist(k) == \/ k \in DOMAIN bucket
              \/ dal.dirStat /\ ~k.dir /\ \E j \in DOMAIN bucket : Below(k.path, j)
StatIsDir(k) == IsExist(k) /\ k \notin DOMAIN bucket

\* The keys a listing of prefix p reports: those below p, or the first level.
Listed(p) ==
    LET inside == {k \in DOMAIN bucket : IsStrictPrefix(p, k.path)}
        First(k) == IF Len(k.path) = Len(p) + 1 THEN k
                    ELSE Marker(SubSeq(k.path, 1, Len(p) + 1))
    IN  IF dal.deep THEN inside ELSE {First(k) : k \in inside}
EntryName(k) == IF dal.full THEN k ELSE [k EXCEPT !.path = <<Last(@)>>]
List(p) == {EntryName(k) : k \in Listed(p)}

-----------------------------------------------------------------------------
(* Listings.  Temporary names are left out; a child is listed once.          *)

IsTemp(name) == \E i \in DOMAIN name.path : name.path[i] \in TempName

S3ListFiles(p) ==
    {n.path[Len(p) + 1] : n \in {m \in List(p) : IsStrictPrefix(p, m.path) /\ ~IsTemp(m)}}
GcsListFiles(p) ==
    {n.path[Len(p) + 1] : n \in {m \in List(p) : IsStrictPrefix(p, m.path) /\ ~IsTemp(m)}}
\* What does not start with the prefix is taken for a path relative to it.
Relative(p, path) == IF IsStrictPrefix(p, path) THEN SubSeq(path, Len(p) + 1, Len(path)) ELSE path
AzureListFiles(p)  == {Head(Relative(p, n.path)) : n \in {m \in List(p) : ~IsTemp(m)}}
OracleListFiles(p) == AzureListFiles(p)

ListFiles(p) == CASE provider = "s3"     -> S3ListFiles(p)
                  [] provider = "gcs"    -> GcsListFiles(p)
                  [] provider = "azure"  -> AzureListFiles(p)
                  [] provider = "oracle" -> OracleListFiles(p)

NoToken == 0
\* list_files_paginated: the page after the token's entry, from the first one
\* when no entry is the token, and the token of the page that follows.
S3Page(listing, limit, token) ==
    LET start == SelectInSeq(listing, LAMBDA e : e = token)
        page  == SubSeq(listing, start + 1, Min({start + limit, Len(listing)}))
    IN  [page |-> page,
         token |-> IF start + limit < Len(listing) /\ page # << >> THEN Last(page) ELSE NoToken]

-----------------------------------------------------------------------------
(* Requests.  `soft': an error of this request is ignored by the method.      *)

Ask(do, k)        == [do |-> do, key |-> k, soft |-> FALSE, how |-> "same"]
Absent(k)         == Ask("absent", k)    \* Err when k exists
Present(k)        == Ask("present", k)   \* Err when k does not exist
Unless(k)         == Ask("unless", k)    \* Ok at once when k exists
Read(k)           == Ask("read", k)
ReadOrEmpty(k)    == [Ask("read", k) EXCEPT !.soft = TRUE]
Write(k, how)     == [Ask("write", k) EXCEPT !.how = how]
WriteMarker(k)    == Write(k, "marker")  \* "is a directory" counts as Ok
Probe(k)          == Ask("probe", k)     \* the answer changes nothing, an error does
Delete(k)         == Ask("delete", k)
DeleteIgnored(k)  == [Delete(k) EXCEPT !.soft = TRUE]
\* Requests that are decided by an answer: a stat or a listing.
StatCopy(f, t, over, rec) == [do |-> "statCopy", key |-> Obj(f), to |-> t, over |-> over,
                              rec |-> rec, soft |-> FALSE]
StatRename(f, t)    == [do |-> "statRename", key |-> Obj(f), to |-> t, soft |-> FALSE]
ListDelete(p)       == [Ask("listDelete", Obj(p)) EXCEPT !.soft = TRUE]
\* Deletes in flight; bad counts the ones that failed, of total.
DeleteAll(ks, strict) == [do |-> "deleteAll", keys |-> ks, total |-> Cardinality(ks), bad |-> 0,
                          strict |-> strict]

\* S3: copy, with overwrite or not, recursive or not.
S3Copy(from, to, over, rec) ==
    IF from = << >> \/ to = << >> THEN <<Ask("refuse", Obj(from))>>
    ELSE (IF over THEN << >> ELSE <<Absent(Obj(to))>>)
         \o <<Present(Obj(from)), StatCopy(from, to, over, rec)>>

\* The rest of a copy once the stat has answered; a directory is copied entry
\* by entry and then its marker, whose errors are ignored.
S3CopyTree(from, to, over, entries) ==
    FlattenSeq([i \in DOMAIN entries |-> S3Copy(from \o entries[i], to \o entries[i], over, TRUE)])
    \o (IF Marker(from) \in DOMAIN bucket
        THEN <<[WriteMarker(Marker(to)) EXCEPT !.soft = TRUE]>> ELSE << >>)
\* One plan for every order in which the listing may report the entries.
S3CopyRests(from, to, over, rec) ==
    IF StatIsDir(Obj(from)) /\ rec
      THEN {S3CopyTree(from, to, over, entries) :
              entries \in SetToSeqs({Relative(from, n.path) : n \in List(from)})}
    ELSE {<<Read(Obj(from)), Write(Obj(to), "same")>>}

S3Rename(from, to) ==
    <<Present(Obj(from))>> \o (IF from = to THEN << >> ELSE <<Absent(Obj(to))>>)
    \o <<StatRename(from, to)>>
S3RenameRest(from, to) ==
    IF StatIsDir(Obj(from)) THEN S3Copy(from, to, TRUE, TRUE) \o <<ListDelete(from)>>
    ELSE S3Copy(from, to, TRUE, FALSE) \o <<Delete(Obj(from))>>
\* Mutant of S3Mv: the source is deleted first.
S3MvDeletesFirst(from, to, over) == <<ListDelete(from)>> \o S3Copy(from, to, over, TRUE)
S3Mv(from, to, over) == S3Copy(from, to, over, TRUE) \o <<ListDelete(from)>>

\* rm_rf: with entries or a marker, the keys that start with the prefix are
\* deleted; the call fails only when all of them failed.  Otherwise one key.
S3RmRf(p, listed) ==
    LET keys == {n \in listed : IsStrictPrefix(p, n.path)}
                \cup (IF IsExist(Marker(p)) THEN {Marker(p)} ELSE {})
    IN  IF keys # {} THEN <<DeleteAll(keys, TRUE)>> ELSE <<Delete(Obj(p))>>
S3Mkdir(p)  == IF p = << >> THEN <<Ask("refuse", Obj(p))>>
               ELSE <<[Unless(Marker(p)) EXCEPT !.soft = TRUE], WriteMarker(Marker(p))>>
S3Append(p) == <<ReadOrEmpty(Obj(p)), Write(Obj(p), "append")>>
S3WriteAt(p)  == <<Read(Obj(p)), Write(Obj(p), "at")>>
S3Truncate(p) == <<Read(Obj(p)), Write(Obj(p), "cut")>>

GcsCopy(from, to, over) ==
    (IF over THEN << >> ELSE <<Absent(Obj(to))>>) \o <<Read(Obj(from)), Write(Obj(to), "same")>>
GcsRename(from, to)   == GcsCopy(from, to, FALSE) \o <<Delete(Obj(from))>>
GcsMv(from, to, over) == GcsCopy(from, to, over) \o <<ListDelete(from)>>
\* Every entry's name is joined to the path and removed the same way.
GcsRmRf(p, listed) ==
    LET names == SetToSeq({n.path : n \in listed})
    IN  [i \in DOMAIN names |-> ListDelete(p \o names[i])]
        \o <<DeleteIgnored(Obj(p)), DeleteIgnored(Marker(p))>>
GcsMkdir(p)    == <<Write(Marker(p), "empty")>>
GcsAppend(p)   == <<ReadOrEmpty(Obj(p)), Write(Obj(p), "append")>>
GcsWriteAt(p)  == <<Read(Obj(p)), Write(Obj(p), "at")>>
GcsTruncate(p) == <<Read(Obj(p)), Write(Obj(p), "cut")>>

AzureCopy(from, to, over) ==
    (IF over THEN << >> ELSE <<Absent(Obj(to))>>) \o <<Read(Obj(from)), Write(Obj(to), "same")>>
AzureRename(from, to)   == AzureCopy(from, to, FALSE) \o <<Delete(Obj(from))>>
AzureMv(from, to, over) == AzureCopy(from, to, over) \o <<ListDelete(from)>>
AzureRmRf(p, listed) ==
    (IF listed = {} THEN << >> ELSE <<DeleteAll(listed, FALSE)>>)
    \o <<DeleteIgnored(Obj(p)), DeleteIgnored(Marker(p))>>
AzureMkdir(p)    == <<Write(Marker(p), "empty")>>
AzureAppend(p)   == <<Probe(Obj(p)), ReadOrEmpty(Obj(p)), Write(Obj(p), "append")>>
AzureWriteAt(p)  == <<Read(Obj(p)), Write(Obj(p), "atWithin")>>
AzureTruncate(p) == <<Read(Obj(p)), Write(Obj(p), "cut")>>

\* oracle_object_storage.rs makes the same requests.
OracleCopy(from, to, over) == AzureCopy(from, to, over)
OracleRename(from, to)     == AzureRename(from, to)
OracleMv(from, to, over)   == AzureMv(from, to, over)
OracleRmRf(p, listed)      == AzureRmRf(p, listed)
OracleMkdir(p)             == AzureMkdir(p)
OracleAppend(p)            == AzureAppend(p)
OracleWriteAt(p)           == AzureWriteAt(p)
OracleTruncate(p)          == AzureTruncate(p)

\* Methods every adapter has in the same form.
Put(p)   == <<Write(Obj(p), "put")>>
Rm(p)    == <<Delete(Obj(p))>>
RmDir(p) == <<Delete(Marker(p))>>
Touch(p) == <<Unless(Obj(p)), Write(Obj(p), "empty")>>

By(s3, gcs, azure, oracle) ==
    CASE provider = "s3" -> s3 [] provider = "gcs" -> gcs
      [] provider = "azure" -> azure [] provider = "oracle" -> oracle

PlanOf(op, from, to, over) ==
    CASE op = "rename" -> By(S3Rename(from, to), GcsRename(from, to), AzureRename(from, to),
                             OracleRename(from, to))
      [] op = "copy"   -> By(S3Copy(from, to, over, TRUE), GcsCopy(from, to, over),
                             AzureCopy(from, to, over), OracleCopy(from, to, over))
      [] op = "mv"     -> By(S3Mv(from, to, over), GcsMv(from, to, over), AzureMv(from, to, over),
                             OracleMv(from, to, over))
      [] op = "append"   -> By(S3Append(from), GcsAppend(from), AzureAppend(from), OracleAppend(from))
      [] op = "writeAt"  -> By(S3WriteAt(from), GcsWriteAt(from), AzureWriteAt(from), OracleWriteAt(from))
      [] op = "truncate" -> By(S3Truncate(from), GcsTruncate(from), AzureTruncate(from),
                               OracleTruncate(from))
      [] op = "mkdir"  -> By(S3Mkdir(from), GcsMkdir(from), AzureMkdir(from), OracleMkdir(from))
      [] op = "rmrf"   -> <<ListDelete(from)>>
      [] op = "write"  -> Put(from)
      [] op = "rm"     -> Rm(from)
      [] op = "rmdir"  -> RmDir(from)
      [] op = "touch"  -> Touch(from)

-----------------------------------------------------------------------------
NoCall == [op |-> "none", plan |-> << >>, data |-> << >>, res |-> "none"]

StoreInit == /\ provider \in Provider /\ dal \in Dal
             /\ bucket \in InitialBucket
             /\ request = NoCall

\* A call of a method; `start' is the bucket it finds.
Begin(op, from, to, over, off, b) ==
    /\ request.res = "none" /\ request.op = "none"
    /\ request' = [op |-> op, from |-> from, to |-> to, off |-> off, byte |-> b, start |-> bucket,
                   plan |-> PlanOf(op, from, to, over), data |-> << >>, faults |-> 0, res |-> "none"]
    /\ UNCHANGED <<provider, dal, bucket>>

Running == request.op # "none" /\ request.res = "none"
Now == Head(request.plan)
Doing(do) == Running /\ request.plan # << >> /\ Now.do = do
Finish(res) == request' = [request EXCEPT !.res = res, !.plan = << >>]
Then(rest) == request' = [request EXCEPT !.plan = rest \o Tail(@)]

Return == /\ Running /\ request.plan = << >>
          /\ Finish("Ok")
          /\ UNCHANGED <<provider, dal, bucket>>

\* Any request may fail: the method returns the error unless it ignores it.
RequestFails ==
    /\ Running /\ request.plan # << >> /\ Now.do \notin {"deleteAll", "refuse"}
    /\ request.faults = 0
    /\ IF Now.do = "listDelete"
         THEN request' = [request EXCEPT !.faults = 1,
                                         !.plan = By(S3RmRf(Now.key.path, {}), GcsRmRf(Now.key.path, {}),
                                            AzureRmRf(Now.key.path, {}), OracleRmRf(Now.key.path, {})) \o Tail(@)]
       ELSE IF Now.soft THEN request' = [request EXCEPT !.faults = 1, !.plan = Tail(@), !.data = << >>]
       ELSE request' = [request EXCEPT !.faults = 1, !.res = "Err", !.plan = << >>]
    /\ UNCHANGED <<provider, dal, bucket>>

Check ==
    /\ \/ Doing("absent") /\ IF IsExist(Now.key) THEN Finish("Err") ELSE Then(<< >>)
       \/ Doing("present") /\ IF IsExist(Now.key) THEN Then(<< >>) ELSE Finish("Err")
       \/ Doing("unless") /\ IF IsExist(Now.key) THEN Finish("Ok") ELSE Then(<< >>)
       \/ Doing("probe") /\ Then(<< >>)
       \/ Doing("refuse") /\ Finish("Err")
    /\ UNCHANGED <<provider, dal, bucket>>

ReadKey ==
    /\ Doing("read")
    /\ IF Now.key \in DOMAIN bucket
         THEN request' = [request EXCEPT !.data = bucket[Now.key], !.plan = Tail(@)]
       ELSE IF Now.soft THEN request' = [request EXCEPT !.data = << >>, !.plan = Tail(@)]
       ELSE Finish("Err")
    /\ UNCHANGED <<provider, dal, bucket>>

\* What write_at leaves: zeros up to the offset (S3, GCS).
Patched(d, off, b) == [i \in 1 .. Max({Len(d), off + 1}) |->
                          IF i = off + 1 THEN b ELSE IF i <= Len(d) THEN d[i] ELSE 0]
Written(how) ==
    LET d == request.data
    IN  CASE how = "same"   -> d
          [] how \in {"empty", "marker"} -> << >>
          [] how = "put"    -> <<request.byte>>
          [] how = "append" -> Append(d, request.byte)
          [] how \in {"at", "atWithin"} -> Patched(d, request.off, request.byte)
          [] how = "cut"    -> SubSeq(d, 1, Min({request.off, Len(d)}))

WriteKey ==
    /\ Doing("write")
    /\ IF Now.key.dir /\ ~dal.dirWrite
         THEN /\ IF Now.how = "marker" THEN Then(<< >>) ELSE Finish("Err")
              /\ UNCHANGED bucket
       ELSE IF Now.how = "atWithin" /\ request.off >= Len(request.data)
         THEN Finish("Panic") /\ UNCHANGED bucket
       ELSE /\ bucket' = (Now.key :> Written(Now.how)) @@ bucket
            /\ Then(<< >>)
    /\ UNCHANGED <<provider, dal>>

DeleteKey ==
    /\ Doing("delete")
    /\ bucket' = Restrict(bucket, DOMAIN bucket \ {Now.key})
    /\ Then(<< >>)
    /\ UNCHANGED <<provider, dal>>

Decide ==
    /\ \/ Doing("statCopy") /\ (\E rest \in S3CopyRests(Now.key.path, Now.to, Now.over, Now.rec) : Then(rest))
       \/ Doing("statRename") /\ Then(S3RenameRest(Now.key.path, Now.to))
       \/ /\ Doing("listDelete")
          /\ LET p == Now.key.path
             IN  Then(By(S3RmRf(p, List(p)), GcsRmRf(p, List(p)), AzureRmRf(p, List(p)),
                         OracleRmRf(p, List(p))))
    /\ UNCHANGED <<provider, dal, bucket>>

\* buffer_unordered: the deletes end in any order, each for itself.
DeleteOneOf(k, fails) ==
    /\ Doing("deleteAll") /\ k \in Now.keys
    /\ fails => request.faults < 2
    /\ bucket' = IF fails THEN bucket ELSE Restrict(bucket, DOMAIN bucket \ {k})
    /\ LET left == [Now EXCEPT !.keys = @ \ {k}, !.bad = IF fails THEN @ + 1 ELSE @]
           r == [request EXCEPT !.faults = IF fails THEN @ + 1 ELSE @]
       IN  request' = IF left.keys # {} THEN [r EXCEPT !.plan = <<left>> \o Tail(@)]
                      ELSE IF left.strict /\ left.bad = left.total
                             THEN [r EXCEPT !.res = "Err", !.plan = << >>]
                      ELSE [r EXCEPT !.plan = Tail(@)]
    /\ UNCHANGED <<provider, dal>>

StoreNext ==
    \/ \E ft \in StorePair, over \in BOOLEAN :
          \/ ~over /\ Begin("rename", ft[1], ft[2], over, 0, 0)
          \/ Begin("copy", ft[1], ft[2], over, 0, 0)
          \/ Begin("mv", ft[1], ft[2], over, 0, 0)
    \/ \E p \in StorePath, b \in StoreByte, off \in 0 .. 2 :
          \/ Begin("writeAt", p, p, FALSE, off, b) \/ Begin("truncate", p, p, FALSE, off, b)
          \/ off = 0 /\ (Begin("append", p, p, FALSE, 0, b) \/ Begin("write", p, p, FALSE, 0, b))
    \/ \E p \in StorePath, op \in {"mkdir", "rmrf", "rm", "rmdir", "touch"} :
          Begin(op, p, p, FALSE, 0, 0)
    \/ Return \/ RequestFails \/ Check \/ ReadKey \/ WriteKey \/ DeleteKey \/ Decide
    \/ \E k \in IF Doing("deleteAll") THEN Now.keys ELSE {}, fails \in BOOLEAN : DeleteOneOf(k, fails)

StoreSpec == StoreInit /\ [][StoreNext]_storeVars

-----------------------------------------------------------------------------
(* Type invariant. *)
StoreTypeOK ==
    /\ provider \in Provider /\ dal \in Dal
    /\ \A k \in DOMAIN bucket : k.dir \in BOOLEAN /\ (k.dir => bucket[k] = << >>)
    /\ request.res \in {"none", "Ok", "Err", "Panic"}

Objects(b) == Restrict(b, {k \in DOMAIN b : ~k.dir})
InTree(p, k) == k = Obj(p) \/ Below(p, k)
MovedKey(k, from, to) == [k EXCEPT !.path = to \o SubSeq(@, Len(from) + 1, Len(@))]
Holds(k, content) == k \in DOMAIN bucket /\ bucket[k] = content

\* No adapter compares the two keys.  rename and mv of a key onto itself or into
\* its own subtree delete what they have just written, and a copy into its own
\* subtree may write over an entry it has yet to copy.
IntoItself == \/ request.op \in {"rename", "mv"} /\ IsPrefix(request.from, request.to)
              \/ request.op = "copy" /\ IsStrictPrefix(request.from, request.to)

\* The call's key is an object and there are keys below it: the stat answers
\* that it is a file, the listing that it is a directory.
Shadowed == /\ Obj(request.from) \in DOMAIN request.start
            /\ \E k \in DOMAIN request.start : Below(request.from, k)

\* mv copies what the stat has shown and deletes what the listing shows
\* (s3_storage.rs 1132-1147): of a shadowed key, the keys below are lost.
MvLoses(k) == request.op = "mv" /\ Shadowed /\ Below(request.from, k)

(* rename and mv copy first and delete afterwards (s3_storage.rs 986-1147):   *)
(* whichever request fails, and however far the deletes have come, the        *)
(* content of every object of the source is at its old place or at its new    *)
(* one.  Left out is what the code loses: calls into their own subtree         *)
(* (IntoItself), and what is below an object of the same name when mv is       *)
(* asked to move that (MvLoses).                                              *)
NothingLost ==
    request.op \in {"rename", "mv", "copy"} /\ ~IntoItself =>
        \A k \in DOMAIN request.start : InTree(request.from, k) /\ ~k.dir /\ ~MvLoses(k) =>
            \/ Holds(k, request.start[k])
            \/ Holds(MovedKey(k, request.from, request.to), request.start[k])

\* The reading of OpenDAL's entry names that an adapter's rm_rf was written for.
RmRfReading == IF provider = "gcs" THEN ~dal.full /\ ~dal.deep ELSE dal.full /\ dal.deep

(* No method touches an object outside the trees it was asked to work on, as   *)
(* long as the listing returns the names its rm_rf expects; with last segments *)
(* the Azure and Oracle rm_rf delete objects of that name in the root.         *)
OnlyItsPaths ==
    request.op # "none" /\ RmRfReading =>
        \A k \in DOMAIN request.start : ~InTree(request.from, k) /\ ~InTree(request.to, k) =>
            Holds(k, request.start[k])

\* What a method promises, as one step on the objects of the bucket.
Expected ==
    LET b == Objects(request.start)
        f == request.from
        tree == {k \in DOMAIN b : InTree(f, k)}
        moved == {MovedKey(k, f, request.to) : k \in tree}
        target == [m \in moved |-> b[MovedKey(m, request.to, f)]]
        old == IF Obj(f) \in DOMAIN b THEN b[Obj(f)] ELSE << >>
        Without(ks) == Restrict(b, DOMAIN b \ ks)
        With(content) == (Obj(f) :> content) @@ b
    IN  CASE request.op \in {"rename", "mv"} -> target @@ Without(tree)
          [] request.op = "copy"     -> target @@ b
          [] request.op = "append"   -> With(Append(old, request.byte))
          [] request.op = "writeAt"  -> With(Patched(old, request.off, request.byte))
          [] request.op = "truncate" -> With(SubSeq(old, 1, Min({request.off, Len(old)})))
          [] request.op = "write"    -> With(<<request.byte>>)
          [] request.op = "touch"    -> IF tree # {} /\ dal.dirStat THEN b ELSE With(old)
          [] request.op = "rm"       -> Without({Obj(f)})
          [] request.op = "rmrf"     -> Without(tree)
          [] request.op \in {"mkdir", "rmdir"} -> b

\* Of a shadowed key, rename and copy take only the object, and the rm_rf of S3
\* deletes only the keys below it: an Ok is then half of the change.
HalfDone == \/ IntoItself
            \/ Shadowed /\ request.op \in {"rename", "copy", "mv"}
            \/ Shadowed /\ request.op = "rmrf" /\ provider = "s3"

(* A method that answers Ok after requests that all succeeded has done to the  *)
(* bucket what one atomic operation of a file system would have done, the      *)
(* calls of HalfDone apart.                                                    *)
OkMeansDone ==
    request.res = "Ok" /\ request.faults = 0 /\ RmRfReading /\ ~HalfDone => Objects(bucket) = Expected

(* list_files (s3_storage.rs 491-570): every child that has an object is       *)
(* listed, and neither temporary files of an upload nor anything else is.      *)
ListShowsChildren ==
    dal.full \/ (~dal.deep /\ provider \in {"azure", "oracle"}) =>
        \A p \in StorePath \cup {<< >>} :
            LET inside == {k \in DOMAIN bucket : IsStrictPrefix(p, k.path)}
                Child(k) == k.path[Len(p) + 1]
            IN  /\ {Child(k) : k \in {j \in inside : ~IsTemp(j)}} \subseteq ListFiles(p)
                /\ ListFiles(p) \subseteq {Child(k) : k \in inside} \ TempName

(* Following the tokens of list_files_paginated (627-675) over a listing that  *)
(* does not change shows every entry once, in order, and ends.                 *)
PagesCover ==
    request = NoCall /\ bucket \in InitialBucket =>
        \A n \in 0 .. 5, limit \in 1 .. 3 :
            LET listing == [i \in 1 .. n |-> i]
                page[i \in 0 .. n] == IF i = 0 THEN S3Page(listing, limit, NoToken)
                                      ELSE S3Page(listing, limit, page[i - 1].token)
            IN  \E last \in 0 .. n :
                    /\ \A i \in 0 .. last : (page[i].token = NoToken) = (i = last)
                    /\ FlattenSeq([i \in 1 .. last + 1 |-> page[i - 1].page]) = listing

(* What a listing shows, whole or page by page, is what is in the directory.   *)
ListingsWhole == ListShowsChildren /\ PagesCover

(* However far a method has come and whichever of its requests fails, the     *)
(* bucket holds what the method was not told to change, an Ok is the whole    *)
(* change (s3_storage.rs 677-1147), and listings show it.                     *)
ObjectStoreSafe == StoreTypeOK /\ NothingLost /\ OnlyItsPaths /\ OkMeansDone /\ ListingsWhole
=============================================================================
