------------------------------ MODULE Thumbnails ------------------------------
(***************************************************************************)
(* The thumbnail commands: a memory cache over a persistent cache over the        *)
(* system's generator, at most MaxConcurrent generators at once.  The memory cache *)
(* is locked while a thumbnail is saved; the persistent cache is read without the   *)
(* lock.  On macOS the generator leaves its output in the directory of the         *)
(* persistent cache, under the file's name only.                                 *)
(***************************************************************************)
EXTENDS Integers, Sequences, FiniteSets, TLC

CONSTANTS ThumbFile,      \* paths: records [dir, name, kind, plain]
          ThumbCaller, ThumbRequest,   \* caller -> its requests: [one, local, paths, size]
          ThumbPlatform,  \* of {"linux", "windows", "macos"}
          FirstFiles,     \* which files may be there at first: a set of sets
          CachedSize,     \* they may have been cached in this size by an earlier run
          MaxConcurrent, MaxThumbCalls,
          MaxThumbEvents  \* changes of files, failed writes and restarts

ASSUME ThumbAssumption == MaxConcurrent \in Nat \ {0} /\ MaxThumbCalls \in Nat /\ MaxThumbEvents \in Nat

VARIABLES platform, files,   \* path -> [ver, mtime], ver 0 when there is none
          moment,            \* the time, counted in writes
          memory,            \* path -> thumbnail
          pngs,              \* the cache directory: name -> [data, mtime]
          opened,            \* the queue is there
          saver,             \* the task that holds the memory cache's write lock
          asking,            \* caller -> its call
          thumbCalls, thumbEvents,
          dirty              \* history: paths that changed behind a thumbnail, were saved by several
                             \* or lost a save halfway

thumbVars == <<platform, files, moment, memory, pngs, opened, saver, asking, thumbCalls, thumbEvents, dirty>>

Blank   == [of |-> {}, ver |-> 0, size |-> 0, whole |-> FALSE]
NoAsk   == [one |-> TRUE, local |-> FALSE, paths |-> << >>, size |-> 0]
Resting == [req |-> NoAsk, pc |-> "idle", slots |-> << >>]
Nobody  == [who |-> "none", at |-> 0]
Picture(p, size) == [of |-> {p}, ver |-> files[p].ver, size |-> size, whole |-> TRUE]
get_cache_key(p, size) == [dir |-> p.dir, name |-> p.name, size |-> size]
OutputName(p) == [dir |-> "", name |-> p.name, size |-> 0]     \* where qlmanage writes
is_supported(p) == p.kind \in {"image", "pdf"} \/ (p.kind = "video" /\ platform # "linux")

Slot(c, i)       == asking[c].slots[i]
ThumbAt(c, i, pc)     == asking[c].pc = "run" /\ Slot(c, i).pc = pc
To(c, i, pc)     == asking' = [asking EXCEPT ![c].slots[i].pc = pc]
Got(c, i, d, pc) == asking' = [asking EXCEPT ![c].slots[i].pc = pc, ![c].slots[i].data = d]
Quiet            == UNCHANGED <<platform, thumbCalls, thumbEvents, opened>>
Holding          == {"again", "generate", "collect", "store", "write"}
Holders          == {s \in UNION {{<<c, i>> : i \in DOMAIN asking[c].slots} : c \in ThumbCaller} : Slot(s[1], s[2]).pc \in Holding}
Unlocked         == saver = Nobody
UsersOf(p)       == {s \in UNION {{<<c, i>> : i \in DOMAIN asking[c].slots} : c \in ThumbCaller} :
                        Slot(s[1], s[2]).path = p /\ Slot(s[1], s[2]).pc # "done"}

-----------------------------------------------------------------------------
(* The commands. *)
\* vfs_get_thumbnail(s_batch): files of other than local sources have no thumbnail.
AskThumbnails(c) ==
    /\ asking[c].pc = "idle" /\ thumbCalls < MaxThumbCalls /\ thumbCalls' = thumbCalls + 1
    /\ \E r \in ThumbRequest[c] : asking' = IF r.local THEN [asking EXCEPT ![c] = [req |-> r, pc |-> "open", slots |-> << >>]] ELSE asking
    /\ UNCHANGED <<platform, files, moment, memory, pngs, opened, saver, thumbEvents, dirty>>

\* get_thumbnail_queue: made once, under its lock; a failure is retried by the next call.
\* The batch keeps the files that exist and can have a thumbnail, the single command those
\* that exist.
Wanted(r) == SelectSeq(r.paths, LAMBDA p : files[p].ver > 0 /\ (r.one \/ is_supported(p)))
Slots(ps) == [i \in DOMAIN ps |-> [path |-> ps[i], pc |-> "memory", data |-> Blank]]
OpenQueue(c) ==
    /\ asking[c].pc = "open" /\ \E ok \in BOOLEAN :
          /\ opened => ok
          /\ opened' = ok
          /\ asking' = [asking EXCEPT ![c] = IF ok THEN [@ EXCEPT !.pc = "run", !.slots = Slots(Wanted(asking[c].req))] ELSE Resting]
    /\ dirty' = dirty \cup {p \in ThumbFile : UsersOf(p) # {} /\ \E i \in DOMAIN asking[c].req.paths : asking[c].req.paths[i] = p}
    /\ UNCHANGED <<platform, files, moment, memory, pngs, saver, thumbCalls, thumbEvents>>

\* get_thumbnails_batch: a chunk of MaxConcurrent at a time.
Chunk(i) == (i - 1) \div MaxConcurrent
MyTurn(c, i) == \A j \in DOMAIN asking[c].slots : Chunk(j) < Chunk(i) => Slot(c, j).pc = "done"
FinishThumbnails(c) ==
    /\ asking[c].pc = "run" /\ \A i \in DOMAIN asking[c].slots : Slot(c, i).pc = "done"
    /\ asking' = [asking EXCEPT ![c] = Resting] /\ Quiet /\ UNCHANGED <<files, moment, memory, pngs, saver, dirty>>

-----------------------------------------------------------------------------
(* ThumbnailQueue::get_thumbnail. *)
\* The cache is looked at before and after the permit.
LookInMemory(c, i, pc, next) ==
    /\ ThumbAt(c, i, pc) /\ MyTurn(c, i) /\ Unlocked
    /\ IF Slot(c, i).path \in DOMAIN memory THEN Got(c, i, memory[Slot(c, i).path], "done") ELSE To(c, i, next)
    /\ Quiet /\ UNCHANGED <<files, moment, memory, pngs, saver, dirty>>

\* Mutant of StillValid: a cached file is as good as new.
StillValidAlways(p, k) == TRUE
StillValid(p, k) == pngs[k].mtime >= files[p].mtime
check_persistent_cache(c, i) ==
    LET p == Slot(c, i).path
        k == get_cache_key(p, asking[c].req.size)
    IN  /\ ThumbAt(c, i, "disk")
        /\ IF k \in DOMAIN pngs /\ files[p].ver > 0 /\ StillValid(p, k) THEN Got(c, i, pngs[k].data, "remember") ELSE To(c, i, "permit")
        /\ Quiet /\ UNCHANGED <<files, moment, memory, pngs, saver, dirty>>
Remember(c, i) ==
    /\ ThumbAt(c, i, "remember") /\ Unlocked /\ memory' = (Slot(c, i).path :> Slot(c, i).data) @@ memory /\ To(c, i, "done")
    /\ Quiet /\ UNCHANGED <<files, moment, pngs, saver, dirty>>

\* The semaphore; it is given back when the call returns.
acquire == Cardinality(Holders) < MaxConcurrent
TakePermit(c, i) == ThumbAt(c, i, "permit") /\ acquire /\ To(c, i, "again") /\ Quiet /\ UNCHANGED <<files, moment, memory, pngs, saver, dirty>>

\* generate_linux_thumbnail, generate_windows_thumbnail: an output of its own name,
\* read and removed; it fails, is given up after 10 seconds, or shows the file.
GenerateAlone(c, i) ==
    LET p == Slot(c, i).path
    IN  /\ ThumbAt(c, i, "generate") /\ platform # "macos"
        /\ \/ is_supported(p) /\ files[p].ver > 0 /\ Got(c, i, Picture(p, asking[c].req.size), "store")
           \/ Got(c, i, Blank, "done")
        /\ Quiet /\ UNCHANGED <<files, moment, memory, pngs, saver, dirty>>
\* generate_macos_thumbnail: qlmanage writes into the shared directory; a name of other
\* than plain characters is not looked for, and the newest .png is taken instead.
RunQlmanage(c, i) ==
    LET p == Slot(c, i).path
    IN  /\ ThumbAt(c, i, "generate") /\ platform = "macos"
        /\ \/ /\ is_supported(p) /\ files[p].ver > 0 /\ To(c, i, "collect") /\ moment' = moment + 1
              /\ pngs' = (OutputName(p) :> [data |-> Picture(p, asking[c].req.size), mtime |-> moment + 1]) @@ pngs
           \/ Got(c, i, Blank, "done") /\ UNCHANGED <<moment, pngs>>
        /\ Quiet /\ UNCHANGED <<files, memory, saver, dirty>>
Newest == {k \in DOMAIN pngs : \A j \in DOMAIN pngs : pngs[j].mtime <= pngs[k].mtime}
Taken(p) == IF p.plain /\ OutputName(p) \in DOMAIN pngs THEN {OutputName(p)} ELSE Newest
CollectOutput(c, i) ==
    /\ ThumbAt(c, i, "collect")
    /\ \/ \E k \in Taken(Slot(c, i).path) :
             Got(c, i, pngs[k].data, "store") /\ pngs' = [j \in DOMAIN pngs \ {k} |-> pngs[j]]
       \/ pngs = << >> /\ Got(c, i, Blank, "done") /\ UNCHANGED pngs
    /\ Quiet /\ UNCHANGED <<files, moment, memory, saver, dirty>>

\* save_to_persistent_cache, under the same hold of the lock as the memory cache is filled:
\* the file is emptied, then written; a failure is ignored.
Saved(c, i, d) ==
    /\ moment' = moment + 1
    /\ pngs' = (get_cache_key(Slot(c, i).path, asking[c].req.size) :> [data |-> d, mtime |-> moment + 1]) @@ pngs
Store(c, i) ==
    /\ ThumbAt(c, i, "store") /\ Unlocked /\ memory' = (Slot(c, i).path :> Slot(c, i).data) @@ memory
    /\ \/ saver' = [who |-> c, at |-> i] /\ Saved(c, i, [Slot(c, i).data EXCEPT !.whole = FALSE]) /\ To(c, i, "write")
       \/ To(c, i, "done") /\ UNCHANGED <<saver, moment, pngs>>
    /\ Quiet /\ UNCHANGED <<files, dirty>>
Save(c, i) ==
    /\ ThumbAt(c, i, "write") /\ To(c, i, "done") /\ saver' = Nobody
    /\ \/ Saved(c, i, Slot(c, i).data) /\ UNCHANGED dirty
       \/ thumbEvents < MaxThumbEvents /\ dirty' = dirty \cup {Slot(c, i).path} /\ UNCHANGED <<moment, pngs>>
    /\ thumbEvents' = thumbEvents + (IF dirty' = dirty THEN 0 ELSE 1) /\ UNCHANGED <<platform, thumbCalls, opened, files, memory>>

-----------------------------------------------------------------------------
\* A file is written, made or removed by somebody, or another one is moved over it, which
\* brings its own, older or equal, modification time.
FirstTime == 1     \* that of the files and thumbnails of an earlier run
CachedSince(p, t) == \E k \in DOMAIN pngs : k.dir = p.dir /\ k.name = p.name /\ pngs[k].mtime >= t
ChangeFile(p) ==
    /\ thumbEvents < MaxThumbEvents /\ thumbEvents' = thumbEvents + 1 /\ moment' = moment + 1
    /\ \E gone \in BOOLEAN, t \in {FirstTime, moment + 1} :
          /\ files' = [files EXCEPT ![p] = [ver |-> IF gone THEN 0 ELSE moment + 1, mtime |-> t]]
          /\ gone => t = moment + 1
          /\ dirty' = IF UsersOf(p) # {} \/ p \in DOMAIN memory \/ CachedSince(p, t) THEN dirty \cup {p} ELSE dirty
    /\ UNCHANGED <<platform, memory, pngs, opened, saver, asking, thumbCalls>>
\* The program stops and starts again.
Restart ==
    /\ thumbEvents < MaxThumbEvents /\ thumbEvents' = thumbEvents + 1
    /\ memory' = << >> /\ opened' = FALSE /\ saver' = Nobody /\ asking' = [c \in ThumbCaller |-> Resting]
    /\ dirty' = dirty \cup {p \in ThumbFile : \E s \in UsersOf(p) : Slot(s[1], s[2]).pc \in {"collect", "write"}}
    /\ UNCHANGED <<platform, files, moment, pngs, thumbCalls>>

ThumbInit ==
    /\ platform \in ThumbPlatform /\ moment = 1 /\ memory = << >>
    /\ \E there \in FirstFiles : \E known \in {{}, there} :
          /\ files = [p \in ThumbFile |-> IF p \in there THEN [ver |-> 1, mtime |-> FirstTime] ELSE [ver |-> 0, mtime |-> 0]]
          /\ pngs = [k \in {get_cache_key(p, CachedSize) : p \in known} |->
                        [data |-> [of |-> {p \in known : get_cache_key(p, CachedSize) = k}, ver |-> 1, size |-> CachedSize, whole |-> TRUE], mtime |-> FirstTime]]
    /\ opened = FALSE /\ saver = Nobody /\ asking = [c \in ThumbCaller |-> Resting] /\ thumbCalls = 0 /\ thumbEvents = 0 /\ dirty = {}
GetThumbnail(c, i) == \/ LookInMemory(c, i, "memory", "disk") \/ check_persistent_cache(c, i) \/ Remember(c, i) \/ TakePermit(c, i)
                      \/ LookInMemory(c, i, "again", "generate") \/ GenerateAlone(c, i) \/ RunQlmanage(c, i) \/ CollectOutput(c, i)
                      \/ Store(c, i) \/ Save(c, i)
CallThumbnails(c) == \/ OpenQueue(c) \/ FinishThumbnails(c) \/ \E i \in DOMAIN asking[c].slots : GetThumbnail(c, i)
ThumbNext == \/ \E c \in ThumbCaller : AskThumbnails(c) \/ CallThumbnails(c)
             \/ \E p \in ThumbFile : ChangeFile(p)
             \/ Restart

-----------------------------------------------------------------------------
(* Properties *)
Ever  == {p \in ThumbFile : files[p].mtime > 0}
Alike == platform = "macos" /\ (dirty # {} \/ \E p, q \in Ever : p # q /\ (p.name = q.name \/ ~p.plain))

\* However callers, changes of the files and restarts interleave, a thumbnail shows the file
\* it was asked for, unless macOS' generator leaves files of one name for two of them; and it
\* shows the file's newest contents and all of it, also when it comes from the cache of an
\* earlier run, unless the file changed while its thumbnail was in memory or being made, was
\* replaced by one whose modification time is not later than that of the cached thumbnail, or
\* the thumbnail was made by two callers at once or its saving was cut off.
ThumbnailsRight ==
    \A c \in ThumbCaller : \A i \in DOMAIN asking[c].slots :
        LET s == Slot(c, i)
        IN  s.pc = "done" /\ s.data.ver > 0 =>
               /\ Alike \/ s.data.of = {s.path}
               /\ Alike \/ s.path \in dirty \/ (s.data.ver = files[s.path].ver /\ s.data.whole)

\* Never more than MaxConcurrent generators run, and a batch never has more of its files
\* under way than that, so that two batches share the machine.
FewGenerators ==
    /\ Cardinality(Holders) <= MaxConcurrent
    /\ \A c \in ThumbCaller : Cardinality({i \in DOMAIN asking[c].slots : Slot(c, i).pc \notin {"memory", "done"}}) <= MaxConcurrent

\* Thumbnails show their files, and few are made at once.
ThumbnailsSafe == ThumbnailsRight /\ FewGenerators
=============================================================================
