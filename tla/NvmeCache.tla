------------------------------- MODULE NvmeCache -------------------------------
(***************************************************************************)
(* The cache of VfsService: adapters/nvme_cache.rs, and the reads that fill it  *)
(* (read_file and hydrate_file of application/vfs_service.rs).  The index and   *)
(* the statistics have locks of their own and are released across every await:  *)
(* calls interleave between choosing what to evict, dropping it from the index,  *)
(* deleting it, writing the new file and indexing it.                            *)
(***************************************************************************)
EXTENDS Integers, Sequences, FiniteSets, FiniteSetsExt, SequencesExt, Functions, TLC

CONSTANTS CacheClient, \* calls that may run at the same time
          FileSize,    \* path -> size of the file at the source
          CacheConfigs, \* the configurations: [max_size, policy]
          CacheRequest, \* client -> set of [call, path]
          MaxCacheCalls, MaxChanges

ASSUME CacheAssumption ==
    /\ CacheConfigs \subseteq [max_size : Nat, policy : {"LRU", "LFU", "FIFO"}]
    /\ \A p \in DOMAIN FileSize : FileSize[p] \in Nat \ {0}

VARIABLES config,     \* as the cache was opened
          index,      \* entries: path -> [used, count, at]
          diskCache,  \* the files of the cache directory: path -> version
          stats,      \* [size, count]
          origins,    \* path -> version at the source, which others change
          call,       \* client -> its call
          now, cacheCalls,
          stray,      \* the files of the directory whose deletion failed last
          crossed     \* two calls overlapped, or a fetch or a write failed

cacheVars == <<config, index, diskCache, stats, origins, call, now, cacheCalls, stray, crossed>>

max_size == config.max_size
Paths == DOMAIN FileSize
SizeOf(ps) == MapThenSumSet(LAMBDA p : FileSize[p], ps)
current_size == SizeOf(DOMAIN index)
Free == [call |-> "none", pc |-> "idle", path |-> "none", got |-> -1, evict |-> << >>, answer |-> "none"]
Part == -2     \* a file that is being written
Lone(c) == \A d \in CacheClient \ {c} : call[d].call = "none"

CacheTypeOK ==
    /\ DOMAIN index \subseteq Paths /\ DOMAIN diskCache \subseteq Paths
    /\ \A p \in DOMAIN index : /\ index[p].at <= index[p].used /\ index[p].used <= now /\ index[p].count >= 1
    /\ stats.size >= 0 /\ stats.count >= 0
    /\ \A c \in CacheClient : ToSet(call[c].evict) \subseteq Paths

-----------------------------------------------------------------------------
(* What is evicted. *)
Order(p) == CASE config.policy = "LRU" -> index[p].used
              [] config.policy = "LFU" -> index[p].count
              [] config.policy = "FIFO" -> index[p].at
Before(p, q) == Order(p) < Order(q)
Candidates == {s \in SetToAllKPermutations(DOMAIN index) :
                 /\ Len(s) = Cardinality(DOMAIN index)
                 /\ \A i, j \in DOMAIN s : Before(s[i], s[j]) => i < j}
\* The first candidates that free enough; all of them if none do.
Chosen(s, needed) ==
    LET cuts == {n \in 0..Len(s) : SizeOf(ToSet(SubSeq(s, 1, n))) >= needed}
    IN  SubSeq(s, 1, IF cuts = {} THEN Len(s) ELSE Min(cuts))
select_for_eviction(space) ==
    IF current_size + space <= max_size THEN {<< >>}
    ELSE {Chosen(s, current_size + space - max_size) : s \in Candidates}

-----------------------------------------------------------------------------
(* Calls. *)
OnNvme(c, pc)    == call[c].pc = pc
To(c, pc)    == call' = [call EXCEPT ![c].pc = pc]
Done(c, a)   == call' = [call EXCEPT ![c] = [Free EXCEPT !.answer = a]]
is_cached(p) == p \in DOMAIN diskCache /\ p \in DOMAIN index
Same         == UNCHANGED crossed
\* A cache without a limit is never evicted from.
BeforeWrite  == IF max_size > 0 THEN "select" ELSE "truncate"

read_file(c, r) ==
    /\ r.call = "read"
    /\ call' = [call EXCEPT ![c] = [Free EXCEPT !.call = "read", !.path = r.path,
                                                !.pc = IF is_cached(r.path) THEN "touch" ELSE "fetch"]]
hydrate_file(c, r) ==
    /\ r.call = "hydrate"
    /\ call' = [call EXCEPT ![c] = [Free EXCEPT !.call = "hydrate", !.path = r.path, !.pc = "fetch"]]
invalidate(c, r) ==
    /\ r.call = "invalidate"
    /\ call' = [call EXCEPT ![c] = [Free EXCEPT !.call = "invalidate", !.path = r.path, !.pc = "drop", !.evict = <<r.path>>]]
clear_cache(c, r) ==
    /\ r.call = "clear"
    /\ call' = [call EXCEPT ![c] = [Free EXCEPT !.call = "clear", !.path = r.path, !.pc = "empty"]]
BeginCache(c) ==
    /\ call[c].call = "none" /\ cacheCalls < MaxCacheCalls /\ cacheCalls' = cacheCalls + 1
    /\ \E r \in CacheRequest[c] : read_file(c, r) \/ hydrate_file(c, r) \/ invalidate(c, r) \/ clear_cache(c, r)
    /\ crossed' = (crossed \/ ~Lone(c))
    /\ UNCHANGED <<index, diskCache, stats, origins, now, stray>>

\* A hit is recorded first; the file may be gone by then and the read fails.
read_from_cache(c) ==
    /\ \/ /\ OnNvme(c, "touch") /\ To(c, "readCached") /\ now' = now + 1
          /\ index' = [p \in DOMAIN index |->
                         IF p = call[c].path THEN [index[p] EXCEPT !.used = now + 1, !.count = @ + 1] ELSE index[p]]
       \/ /\ OnNvme(c, "readCached") /\ UNCHANGED <<index, now>>
          /\ Done(c, IF call[c].path \in DOMAIN diskCache THEN ToString(diskCache[call[c].path]) ELSE "Err")
    /\ Same /\ UNCHANGED <<diskCache, stats, origins, cacheCalls, stray>>
Fetch(c) ==
    /\ OnNvme(c, "fetch")
    /\ \/ call' = [call EXCEPT ![c].pc = BeforeWrite, ![c].got = origins[call[c].path]] /\ Same
       \/ Done(c, "Err") /\ crossed' = TRUE
    /\ UNCHANGED <<index, diskCache, stats, origins, now, cacheCalls, stray>>

\* What is deleted: of the victims, those the index still had.
\* Mutant of Victims: nothing.
VictimsForgotten(c, out) == << >>
Victims(c, out) == IF call[c].call = "invalidate" THEN call[c].evict ELSE SelectSeq(call[c].evict, LAMBDA p : p \in out)
\* evict_if_needed: choose, drop from the index, delete the files one by one.
ChooseVictims(c) ==
    /\ OnNvme(c, "select")
    /\ \E s \in select_for_eviction(FileSize[call[c].path]) :
          call' = [call EXCEPT ![c].evict = s, ![c].pc = IF s = << >> THEN "truncate" ELSE "drop"]
    /\ Same /\ UNCHANGED <<index, diskCache, stats, origins, now, cacheCalls, stray>>
evict_if_needed(c) ==
    /\ OnNvme(c, "drop")
    /\ LET out == ToSet(call[c].evict) \cap DOMAIN index
       IN  /\ index' = Restrict(index, DOMAIN index \ out)
           /\ stats' = [size |-> Max({0, stats.size - SizeOf(out)}), count |-> Max({0, stats.count - Cardinality(out)})]
           /\ call' = [call EXCEPT ![c].pc = "delete", ![c].evict = Victims(c, out)]
    /\ Same /\ UNCHANGED <<diskCache, origins, now, cacheCalls, stray>>
\* A file that cannot be deleted stays in the directory, out of the index and of
\* the statistics: an eviction goes on, invalidate and clear answer with the error.
DeleteVictim(c) ==
    /\ OnNvme(c, "delete")
    /\ IF call[c].evict = << >>
       THEN /\ UNCHANGED <<diskCache, stray>>
            /\ IF call[c].call \in {"invalidate", "clear"} THEN Done(c, "Ok") ELSE To(c, "truncate")
       ELSE LET p == Head(call[c].evict) IN
            \/ /\ diskCache' = Restrict(diskCache, DOMAIN diskCache \ {p}) /\ stray' = stray \ {p}
               /\ call' = [call EXCEPT ![c].evict = Tail(@)]
            \/ /\ stray' = stray \cup ((IF call[c].call = "clear" THEN ToSet(call[c].evict) ELSE {p}) \cap DOMAIN diskCache)
               /\ UNCHANGED diskCache
               /\ IF call[c].call \in {"invalidate", "clear"} THEN Done(c, "Err") ELSE call' = [call EXCEPT ![c].evict = Tail(@)]
    /\ Same /\ UNCHANGED <<index, stats, origins, now, cacheCalls>>

\* The file is written, which others may see half done; then the index, then the
\* statistics.  An entry that was there already is counted again.
Insert(p, t) == (p :> [used |-> t, count |-> 1, at |-> t]) @@ index
cache_file(c) ==
    LET p == call[c].path IN
    /\ \/ /\ OnNvme(c, "truncate") /\ diskCache' = (p :> Part) @@ diskCache /\ To(c, "write") /\ UNCHANGED <<index, stats, now>> /\ Same
       \/ /\ OnNvme(c, "write") /\ UNCHANGED <<index, stats, now>>
          /\ \/ diskCache' = (p :> call[c].got) @@ diskCache /\ To(c, "index") /\ Same
             \/ UNCHANGED diskCache /\ Done(c, "Err") /\ crossed' = TRUE
       \/ /\ OnNvme(c, "index") /\ index' = Insert(p, now + 1) /\ now' = now + 1 /\ To(c, "count")
          /\ UNCHANGED <<diskCache, stats>> /\ Same
       \/ /\ OnNvme(c, "count") /\ stats' = [size |-> stats.size + FileSize[p], count |-> stats.count + 1]
          /\ Done(c, ToString(call[c].got)) /\ UNCHANGED <<index, diskCache, now>> /\ Same
    /\ stray' = IF OnNvme(c, "index") THEN stray \ {p} ELSE stray
    /\ UNCHANGED <<origins, cacheCalls>>

\* The index and the statistics first, then whatever is in the directory.
clear(c) ==
    /\ OnNvme(c, "empty")
    /\ index' = << >> /\ stats' = [size |-> 0, count |-> 0]
    /\ call' = [call EXCEPT ![c].pc = "delete", ![c].evict = SetToSeq(DOMAIN diskCache)]
    /\ Same /\ UNCHANGED <<diskCache, origins, now, cacheCalls, stray>>

\* Somebody else writes the file at the source; nothing tells the cache.
Change(p) == /\ MapThenSumSet(LAMBDA q : origins[q], Paths) < MaxChanges /\ origins' = [origins EXCEPT ![p] = @ + 1]
             /\ UNCHANGED <<index, diskCache, stats, call, now, cacheCalls, stray, crossed>>

CacheInit == /\ config \in CacheConfigs /\ index = << >> /\ diskCache = << >> /\ stats = [size |-> 0, count |-> 0] /\ now = 0
             /\ origins = [p \in Paths |-> 0] /\ call = [c \in CacheClient |-> Free] /\ cacheCalls = 0 /\ stray = {} /\ crossed = FALSE
CacheStep == \/ \E c \in CacheClient : \/ BeginCache(c) \/ read_from_cache(c) \/ Fetch(c) \/ ChooseVictims(c)
                                       \/ evict_if_needed(c) \/ DeleteVictim(c) \/ cache_file(c) \/ clear(c)
             \/ \E p \in Paths : Change(p)
CacheNext == CacheStep /\ UNCHANGED config

-----------------------------------------------------------------------------
(* Properties *)
Largest == Max({FileSize[p] : p \in Paths})

\* What the index holds exceeds the limit by at most one file for each other call that was
\* filling it at the same time, however they interleave (a single file that is
\* larger than the cache is kept alone).
OvershootBounded ==
    max_size > 0 => \/ current_size <= max_size + (Cardinality(CacheClient) - 1) * Largest
                    \/ Cardinality(DOMAIN index) = 1

\* Calls that do not overlap: every indexed file is on disk, whole, and the directory
\* holds no other file than those it failed to delete, which nothing counts and only
\* clear tries again (nvme_cache.rs 194, 213, 257).
IndexMatchesDisk ==
    ~crossed /\ (\A c \in CacheClient : call[c].call = "none") =>
        /\ DOMAIN index \subseteq DOMAIN diskCache /\ DOMAIN diskCache \ DOMAIN index = stray
        /\ \A p \in DOMAIN index : diskCache[p] # Part

\* The cache is well formed, its index bounded, and its directory is the index and
\* the files that could not be deleted.
CacheSafe == CacheTypeOK /\ OvershootBounded /\ IndexMatchesDisk
=============================================================================
