------------------------------- MODULE Listings -------------------------------
(***************************************************************************)
(* Looking at a mounted directory while others change it: list_files and           *)
(* get_metadata of the local, NAS and FSx adapters, under vfs_list_files and        *)
(* vfs_get_folder_size.  A directory is read entry by entry, the metadata of an     *)
(* entry after its name, the tier of an FSx file after its metadata, and what the     *)
(* cache holds when the listing is complete.                                     *)
(***************************************************************************)
EXTENDS FileTree, TLC

CONSTANTS Looker, LookRequest,  \* looker -> its requests: [cmd, path, native]
          LookTree,             \* trees at first
          LookAge,              \* path -> days since the last access
          LookCached,           \* files the cache may hold: a set of sets of [path, native]
          LookSpare,            \* paths others write, make or remove
          LookBarred,           \* sets of paths: a file whose metadata, a directory whose
                                \* entries cannot be read
          LookDepth,            \* max_depth of calculate_dir_size (100 in the code)
          MaxLooks, MaxLookChanges

ASSUME LookAssumption == LookDepth \in Nat /\ MaxLooks \in Nat /\ MaxLookChanges \in Nat

VARIABLES lookMount, lookTree, warm,   \* the adapter, its tree, what the cache holds
          barred,       \* what cannot be read
          looks,        \* looker -> its look
          kept,         \* history: looker -> paths no one touched since it began
          madeMeanwhile,  \* history: looker -> paths that were there at some time since it began
          lookCount, lookChanges

lookVars == <<lookMount, lookTree, warm, barred, looks, kept, madeMeanwhile, lookCount, lookChanges>>

NoLook   == [cmd |-> "none", path |-> << >>, native |-> FALSE, pc |-> "idle", todo |-> {}, entry |-> << >>, rows |-> << >>, size |-> 0, timed |-> FALSE]
Local    == lookMount = "local"
\* The size of a directory's own entry; the local adapter lists 0.
DirEntry == 4
Below(p) == {q \in DOMAIN lookTree : Len(q) = Len(p) + 1 /\ IsPrefix(p, q)}
Size(p)  == Len(lookTree[p].data)
\* resolve_path: a path under the mount point is taken as it is, another is joined to it.
resolve_path(r) == r.path
Entry(l, p, dirSize, tier, cached) ==
    [path |-> p, native |-> looks[l].native, dir |-> lookTree[p].dir,
     size |-> IF lookTree[p].dir THEN dirSize ELSE Size(p), tier |-> tier, cached |-> cached]
LocalRow(l, p) == Entry(l, p, 0, "cold", FALSE)
NasRow(l, p)   == Entry(l, p, DirEntry, "warm", FALSE)
FsxnRow(l, p)  == Entry(l, p, DirEntry, "hot", TRUE)
RowOf(l, p) == CASE lookMount = "local" -> LocalRow(l, p) [] lookMount = "nas" -> NasRow(l, p) [] lookMount = "fsxn" -> FsxnRow(l, p)

At(l, pc)  == looks[l].pc = pc
Set(l, r)  == looks' = [looks EXCEPT ![l] = r]
Steady     == UNCHANGED <<lookMount, lookTree, warm, barred, kept, madeMeanwhile, lookCount, lookChanges>>
Failure(l) == Set(l, [looks[l] EXCEPT !.pc = "failed"])

StartLook(l, cmd, pc) ==
    /\ At(l, "idle") /\ lookCount < MaxLooks /\ lookCount' = lookCount + 1
    /\ \E r \in LookRequest[l] : r.cmd = cmd /\ Set(l, [NoLook EXCEPT !.cmd = r.cmd, !.path = resolve_path(r), !.native = r.native, !.pc = pc])
    /\ kept' = [kept EXCEPT ![l] = DOMAIN lookTree] /\ madeMeanwhile' = [madeMeanwhile EXCEPT ![l] = DOMAIN lookTree]
    /\ UNCHANGED <<lookMount, lookTree, warm, barred, lookChanges>>
vfs_list_files(l)      == StartLook(l, "list", "open")
vfs_get_folder_size(l) == StartLook(l, "size", "measure")

\* A directory that is not there is an empty listing of the local adapter, an error of
\* the others.
OpenDirectory(l) ==
    /\ At(l, "open") /\ Steady
    /\ IF IsFolder(lookTree, looks[l].path)
       THEN \/ Set(l, [looks[l] EXCEPT !.pc = "next", !.todo = Below(looks[l].path)])
            \/ looks[l].path \in barred /\ Failure(l)
       ELSE IF Local /\ ~Has(lookTree, looks[l].path) THEN Set(l, [looks[l] EXCEPT !.pc = "done"])
       ELSE Failure(l)

\* next_entry: an entry that was there at first, or one made meanwhile, in any order, or the
\* error of a directory that cannot be read.
Shown(l) == {looks[l].rows[i].path : i \in DOMAIN looks[l].rows}
NextEntry(l) ==
    /\ At(l, "next") /\ Steady
    /\ \/ \E p \in looks[l].todo : Set(l, [looks[l] EXCEPT !.pc = "entry", !.entry = p, !.todo = @ \ {p}])
       \/ \E p \in (madeMeanwhile[l] \ kept[l]) \cap Below(looks[l].path) :
             p \notin Shown(l) /\ Set(l, [looks[l] EXCEPT !.pc = "entry", !.entry = p, !.todo = @ \ {p}])
       \/ looks[l].path \in barred /\ Failure(l)
       \/ looks[l].todo = {} /\ looks[l].path \notin barred /\ Set(l, [looks[l] EXCEPT !.pc = "cache", !.todo = Shown(l)])

\* The metadata of the entry: one that is gone or cannot be read is skipped, or fails the listing.
LocalEntryGone(l) == Set(l, [looks[l] EXCEPT !.pc = "next"])
\* Mutant of MountEntryGone: the rest of the listing is given up.
MountEntryGoneQuietly(l) == Set(l, [looks[l] EXCEPT !.pc = "cache", !.todo = Shown(l)])
MountEntryGone(l) == Failure(l)
EntryMetadata(l) ==
    LET p == looks[l].entry
    IN  /\ At(l, "entry") /\ Steady
        /\ IF p \notin DOMAIN lookTree \/ (IsFile(lookTree, p) /\ p \in barred) THEN IF Local THEN LocalEntryGone(l) ELSE MountEntryGone(l)
           ELSE Set(l, [looks[l] EXCEPT !.rows = Append(@, RowOf(l, p)),
                                        !.pc = IF lookMount = "fsxn" /\ ~lookTree[p].dir THEN "tier" ELSE "next"])
\* detect_tier: a file not accessed for 30 days is cold; another, and one that is gone by now,
\* is hot and said to be cached.
Cooled(days) == days > 30
detect_tier(l) ==
    LET n == Len(looks[l].rows)
    IN  /\ At(l, "tier") /\ Steady
        /\ LET cold == looks[l].entry \in DOMAIN lookTree /\ Cooled(LookAge[looks[l].entry])
           IN  Set(l, [looks[l] EXCEPT !.pc = "next", !.rows[n].tier = IF cold THEN "cold" ELSE "hot", !.rows[n].cached = ~cold])

\* VfsService::list_files(_paginated): a file the cache holds is hot.
Warmed(row) == IF ~row.dir /\ [path |-> row.path, native |-> row.native] \in warm THEN [row EXCEPT !.tier = "hot", !.cached = TRUE] ELSE row
\* The order of the adapters: directories first, then by name; the names are ranked.
Precedes(a, b) == (a.dir /\ ~b.dir) \/ (a.dir = b.dir /\ Last(a.path) < Last(b.path))
MarkCached(l) ==
    /\ At(l, "cache") /\ Steady
    /\ Set(l, [looks[l] EXCEPT !.pc = "done", !.todo = {}, !.rows = SortSeq([i \in DOMAIN @ |-> Warmed(@[i])], Precedes)])

\* get_metadata and calculate_dir_size: the entries below, each when the walk comes to
\* it; what cannot be read is not counted, nor what is deeper than LookDepth.
Deeper(root, p) == IF p \in barred \/ Len(p) - Len(root) >= LookDepth THEN {} ELSE Below(p)
Measure(l) ==
    /\ At(l, "measure") /\ Steady
    /\ IF ~Has(lookTree, looks[l].path) THEN Failure(l)
       ELSE IF IsFile(lookTree, looks[l].path)
       THEN IF looks[l].path \in barred THEN Failure(l) ELSE Set(l, [looks[l] EXCEPT !.pc = "done", !.size = Size(looks[l].path)])
       ELSE Set(l, [looks[l] EXCEPT !.pc = "walk", !.todo = Deeper(looks[l].path, looks[l].path)])
calculate_dir_size(l) ==
    /\ At(l, "walk") /\ Steady
    /\ \/ looks[l].todo = {} /\ Set(l, [looks[l] EXCEPT !.pc = "done"])
       \/ \E p \in looks[l].todo :
             Set(l, CASE p \notin DOMAIN lookTree \/ (IsFile(lookTree, p) /\ p \in barred) -> [looks[l] EXCEPT !.todo = @ \ {p}]
                      [] IsFolder(lookTree, p) -> [looks[l] EXCEPT !.todo = (@ \ {p}) \cup Deeper(looks[l].path, p)]
                      [] OTHER -> [looks[l] EXCEPT !.todo = @ \ {p}, !.size = @ + Size(p)])

\* vfs_list_files gives up after 10 seconds.
Timeout(l) == looks[l].cmd = "list" /\ looks[l].pc \in {"open", "next", "entry", "tier", "cache"} /\ Steady
              /\ Set(l, [looks[l] EXCEPT !.pc = "failed", !.timed = TRUE])
EndLook(l) == looks[l].pc \in {"done", "failed"} /\ Set(l, NoLook) /\ Steady

\* Somebody else writes, makes or removes; the cache takes a file.
Touch(ps) == kept' = [l \in Looker |-> kept[l] \ ps] /\ madeMeanwhile' = [l \in Looker |-> madeMeanwhile[l] \cup (ps \cap DOMAIN lookTree')]
ChangeTree(p) ==
    /\ lookChanges < MaxLookChanges /\ lookChanges' = lookChanges + 1
    /\ \E r \in {PutFile(lookTree, p, <<7, 7, 7>>), LocalMkdir(lookTree, p), LocalRmRf(lookTree, p)} :
          r.ok /\ r.tree # lookTree /\ lookTree' = r.tree
    /\ Touch(Tree(lookTree, p) \cup {p}) /\ UNCHANGED <<lookMount, warm, barred, looks, lookCount>>

LookInit == /\ lookMount \in {"local", "nas", "fsxn"} /\ lookTree \in LookTree /\ warm \in LookCached /\ barred \in LookBarred
            /\ looks = [l \in Looker |-> NoLook] /\ kept = [l \in Looker |-> {}] /\ madeMeanwhile = [l \in Looker |-> {}] /\ lookCount = 0 /\ lookChanges = 0
Look(l) == \/ OpenDirectory(l) \/ NextEntry(l) \/ EntryMetadata(l) \/ detect_tier(l) \/ MarkCached(l) \/ Measure(l) \/ calculate_dir_size(l)
           \/ Timeout(l) \/ EndLook(l)
LookNext == \/ \E l \in Looker : vfs_list_files(l) \/ vfs_get_folder_size(l) \/ Look(l)
            \/ \E p \in LookSpare : ChangeTree(p)

-----------------------------------------------------------------------------
(* Properties *)
Files(ps) == {q \in ps : IsFile(lookTree, q)}
Total(ps) == FoldSet(LAMBDA q, n : n + Size(q), 0, Files(ps))
Untouched(l, ps) == ps \cap kept[l]

Unreadable(p) == p \in barred /\ IsFile(lookTree, p)

\* However the directory changes while it is listed, a listing that succeeds shows every entry
\* nobody touched, once, as a file or a directory of its size, with the tier its age and the
\* cache give it, shows nothing that was never there, and shows the directories first; only
\* the local adapter leaves out a file it cannot read, and its listing fails only when the
\* path is no directory, cannot be read, or the time is over. A file is said to be cached
\* when the cache holds it; FSx says so also of every directory and every file that is not cold.
ListingsRight ==
    \A l \in Looker : LET k == looks[l] IN
        /\ At(l, "done") /\ k.cmd = "list" =>
              /\ {p \in Untouched(l, Below(k.path)) : ~(Local /\ Unreadable(p))} \subseteq Shown(l) /\ Shown(l) \subseteq madeMeanwhile[l] /\ Cardinality(Shown(l)) = Len(k.rows)
              /\ \A i \in DOMAIN k.rows : LET w == k.rows[i] IN w.path \in kept[l] =>
                    /\ w.dir = IsFolder(lookTree, w.path) /\ (~w.dir => w.size = Size(w.path))
                    /\ LET held == ~w.dir /\ [path |-> w.path, native |-> w.native] \in warm
                       IN  IF lookMount = "fsxn" THEN /\ w.cached = (w.dir \/ held \/ LookAge[w.path] <= 30)
                                                      /\ ~w.dir => w.cached = (w.tier = "hot")
                           ELSE w.cached = held
              /\ \A i, j \in DOMAIN k.rows : i < j => ~(k.rows[j].dir /\ ~k.rows[i].dir)
        /\ At(l, "failed") /\ k.cmd = "list" /\ Local /\ ~k.timed => k.path \notin kept[l] \/ IsFile(lookTree, k.path) \/ k.path \in barred

\* The files calculate_dir_size can come to: LookDepth down at most, none of them and no
\* directory on the way barred.
Reached(p) == {q \in Inside(lookTree, p) : Len(q) - Len(p) <= LookDepth /\ \A i \in Len(p) .. Len(q) : SubSeq(q, 1, i) \notin barred}

\* The size of a directory is the size of all files the walk can come to below it when nobody
\* touched anything, and never less than the size of those nobody touched.
SizesRight ==
    \A l \in Looker : LET k == looks[l]
                          all == Reached(k.path)
                      IN  At(l, "done") /\ k.cmd = "size" =>
                             /\ k.size >= Total(all \cap kept[l])
                             /\ all \subseteq kept[l] /\ kept[l] = madeMeanwhile[l] /\ IsFolder(lookTree, k.path) => k.size = Total(all)

\* Listings and sizes tell what is there.
ListingsSafe == ListingsRight /\ SizesRight
=============================================================================
