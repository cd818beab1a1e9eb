---------------------------- MODULE MetadataStore ----------------------------
(***************************************************************************)
(* vfs/adapters/metadata_store.rs and the commands of commands/metadata.rs:    *)
(* tags, favourites, labels, ratings and comments of files.  A command takes    *)
(* the store (made on first use), copies the file's entry, changes the copy,      *)
(* puts it back under the write lock, raises the dirty flag and saves all            *)
(* entries under the read lock.  Commands interleave at every await; a write may       *)
(* fail and the application may stop.                                              *)
(***************************************************************************)
EXTENDS Integers, FiniteSets

CONSTANTS MetaClient,    \* commands that may run at the same time
          MetaRequest,   \* client -> set of [cmd, source, path, arg]
          MaxMetaCalls


VARIABLES metaFile,  \* metadata.json: [torn, data], data : key -> entry
          installed, \* METADATA_STORE: the client that made the store, or NoOne
          cache,     \* client that made it -> the store's entries
          dirty,     \* client that made it -> the store's dirty flag
          editor,    \* client -> its command
          metaCalls,
          promised,  \* history: key -> entry after the last command answered Ok
          blurred,   \* history: keys two commands met on, or one failed or was cut
          told       \* history: [got, owed, clear] of the last query: its answer, the one
                     \* the promises ask for, and whether they are clear

metaVars == <<metaFile, installed, cache, dirty, editor, metaCalls, promised, blurred, told>>

NoOne == "none"
TornFile == [torn |-> TRUE, data |-> << >>]
FileWith(m) == [torn |-> FALSE, data |-> m]
Plain == [tags |-> {}, favorite |-> FALSE, color |-> NoOne, rating |-> 0, comment |-> NoOne]
make_key(s, p) == <<s, p>>
Resting == [cmd |-> "none", pc |-> "idle", key |-> <<NoOne, NoOne>>, arg |-> NoOne, store |-> NoOne, copy |-> Plain]
Untold == [got |-> {}, owed |-> {}, clear |-> FALSE]
Queries == {"get_metadata", "stat", "favorites", "by_tag", "by_color", "all_tags"}
\* A color to list is one of the labels, never the absent one (list_by_color, 255).
ASSUME MetaAssumption == /\ MaxMetaCalls \in Nat /\ NoOne \notin MetaClient
                         /\ \A c \in MetaClient : \A r \in MetaRequest[c] : r.cmd = "by_color" => r.arg # NoOne

\* c is changing the entry of k.
Changes(c, k) == /\ editor[c].cmd \notin Queries /\ editor[c].pc # "idle"
                 /\ editor[c].key = k \/ (editor[c].cmd = "remove_source" /\ editor[c].key[1] = k[1])
Busy(k)  == \E c \in MetaClient : Changes(c, k)
Keys     == {<<r.source, r.path>> : r \in UNION {MetaRequest[c] : c \in MetaClient}}

is_empty(m) == m = Plain
Stored(m) == [k \in {k \in DOMAIN m : ~is_empty(m[k])} |-> m[k]]
Inserted(m, k, e) == [q \in DOMAIN m \cup {k} |-> IF q = k THEN e ELSE m[q]]
EntryOf(m, k) == IF k \in DOMAIN m THEN m[k] ELSE Plain

\* The changed copy.
add_tag(m, t)         == [m EXCEPT !.tags = {u \in @ : u.name # t.name} \cup {t}]
remove_tag(m, n)      == [m EXCEPT !.tags = {u \in @ : u.name # n}]
set_favorite(m, b)    == [m EXCEPT !.favorite = b]
toggle_favorite(m)    == [m EXCEPT !.favorite = ~@]
set_color_label(m, c) == [m EXCEPT !.color = c]
set_rating(m, r)      == [m EXCEPT !.rating = IF r > 5 THEN 5 ELSE r]
set_comment(m, t)     == [m EXCEPT !.comment = t]
Edited(m, cmd, arg) ==
    CASE cmd = "add_tag" -> add_tag(m, arg) [] cmd = "remove_tag" -> remove_tag(m, arg)
      [] cmd = "set_favorite" -> set_favorite(m, arg) [] cmd = "toggle_favorite" -> toggle_favorite(m)
      [] cmd = "set_color_label" -> set_color_label(m, arg) [] cmd = "set_rating" -> set_rating(m, arg)
      [] cmd = "set_comment" -> set_comment(m, arg)

-----------------------------------------------------------------------------
EditorAt(c, pc) == editor[c].pc = pc
Edit(c, r)      == editor' = [editor EXCEPT ![c] = r]
EditTo(c, pc)   == Edit(c, [editor[c] EXCEPT !.pc = pc])
Mine(c)         == cache[editor[c].store]
Touched(c) == IF editor[c].cmd = "remove_source" THEN {k \in Keys : k[1] = editor[c].key[1]} ELSE {editor[c].key}
AnswerOk(c)  == Edit(c, Resting)
                /\ promised' = [k \in DOMAIN promised \cup Touched(c) |-> IF k \in Touched(c) THEN EntryOf(Mine(c), k) ELSE promised[k]]
AnswerErr(c) == Edit(c, Resting) /\ UNCHANGED promised

BeginEdit(c) ==
    /\ EditorAt(c, "idle") /\ metaCalls < MaxMetaCalls /\ metaCalls' = metaCalls + 1
    /\ \E r \in MetaRequest[c] :
          LET k == make_key(r.source, r.path)
              all == IF r.cmd = "remove_source" THEN {q \in Keys : q[1] = r.source} ELSE {k}
          IN  /\ Edit(c, [Resting EXCEPT !.cmd = r.cmd, !.key = k, !.arg = r.arg, !.pc = "instance"])
              /\ blurred' = IF r.cmd \in Queries THEN blurred ELSE blurred \cup {q \in all : Busy(q)}
    /\ UNCHANGED <<metaFile, installed, cache, dirty, promised>>

\* The store is taken, or made: two first commands both make one.
get_metadata_store_instance(c) ==
    /\ \/ /\ EditorAt(c, "instance") /\ installed # NoOne
          /\ Edit(c, [editor[c] EXCEPT !.store = installed, !.pc = "get"]) /\ UNCHANGED <<installed, cache, dirty, promised>>
       \/ /\ EditorAt(c, "instance") /\ installed = NoOne /\ metaFile # TornFile
          /\ cache' = [cache EXCEPT ![c] = metaFile.data] /\ dirty' = [dirty EXCEPT ![c] = FALSE]
          /\ EditTo(c, "install") /\ UNCHANGED <<installed, promised>>
       \/ /\ EditorAt(c, "instance") /\ installed = NoOne /\ metaFile = TornFile /\ editor[c].cmd # "stat"
          /\ AnswerErr(c) /\ UNCHANGED <<installed, cache, dirty>>
       \/ /\ EditorAt(c, "install") /\ installed' = c
          /\ Edit(c, [editor[c] EXCEPT !.store = c, !.pc = "get"]) /\ UNCHANGED <<cache, dirty, promised>>
    \* with a second store nothing can be promised
    /\ blurred' = IF EditorAt(c, "install") /\ installed # NoOne THEN Keys ELSE blurred
    /\ UNCHANGED <<metaFile, metaCalls>>

\* get_or_create, and the change of the copy; a tag that is not there is no change.
CopyEntry(c) ==
    /\ EditorAt(c, "get") /\ editor[c].cmd \notin Queries
    /\ IF editor[c].cmd = "remove_source" THEN EditTo(c, "insert") /\ UNCHANGED promised
       ELSE LET old == EntryOf(Mine(c), editor[c].key)
                new == Edited(old, editor[c].cmd, editor[c].arg)
            IN  IF editor[c].cmd = "remove_tag" /\ new = old THEN AnswerOk(c)
                ELSE Edit(c, [editor[c] EXCEPT !.copy = new, !.pc = "insert"]) /\ UNCHANGED promised
    /\ UNCHANGED <<metaFile, installed, cache, dirty, metaCalls, blurred>>

\* remove_source_metadata takes all entries of the source at once.
EntriesOfSource(m, s) == {k \in DOMAIN m : k[1] = s}
\* A saver holds the read lock from the moment it copies the entries until it has
\* cleared the dirty flag.
\* Mutant of Unlocked: the entries may change while they are written.
UnlockedAlways(s) == TRUE
Unlocked(s) == \A d \in MetaClient : editor[d].store = s => editor[d].pc \notin {"write", "clear"}
update(c) ==
    LET s == editor[c].store
        gone == EntriesOfSource(cache[s], editor[c].key[1])
    IN  /\ EditorAt(c, "insert") /\ Unlocked(s)
        /\ IF editor[c].cmd = "remove_source"
           THEN /\ cache' = [cache EXCEPT ![s] = [k \in DOMAIN @ \ gone |-> @[k]]]
                /\ IF gone = {} THEN AnswerOk(c) ELSE EditTo(c, "mark") /\ UNCHANGED promised
           ELSE cache' = [cache EXCEPT ![s] = Inserted(@, editor[c].key, editor[c].copy)] /\ EditTo(c, "mark") /\ UNCHANGED promised
        /\ UNCHANGED <<metaFile, installed, dirty, metaCalls, blurred>>
mark_dirty(c) ==
    /\ EditorAt(c, "mark") /\ dirty' = [dirty EXCEPT ![editor[c].store] = TRUE] /\ EditTo(c, "save")
    /\ UNCHANGED <<metaFile, installed, cache, metaCalls, promised, blurred>>

\* save: nothing to do when another save has cleared the flag.
save(c) ==
    LET s == editor[c].store
    IN  /\ \/ /\ EditorAt(c, "save") /\ ~dirty[s] /\ AnswerOk(c) /\ UNCHANGED <<metaFile, dirty, blurred>>
           \/ /\ EditorAt(c, "save") /\ dirty[s] /\ EditTo(c, "lock") /\ UNCHANGED <<metaFile, dirty, promised, blurred>>
           \/ /\ EditorAt(c, "lock") /\ EditTo(c, "write") /\ UNCHANGED <<metaFile, dirty, promised, blurred>>
           \/ /\ EditorAt(c, "write") /\ metaFile' = FileWith(Stored(cache[s])) /\ EditTo(c, "clear")
              /\ UNCHANGED <<dirty, promised, blurred>>
           \/ /\ EditorAt(c, "write") /\ \E f \in {metaFile, TornFile} : metaFile' = f
              /\ AnswerErr(c) /\ blurred' = blurred \cup Touched(c) /\ UNCHANGED dirty
           \/ /\ EditorAt(c, "clear") /\ dirty' = [dirty EXCEPT ![s] = FALSE] /\ AnswerOk(c) /\ UNCHANGED <<metaFile, blurred>>
        /\ UNCHANGED <<installed, cache, metaCalls>>

-----------------------------------------------------------------------------
(* What the list commands show. *)
list_favorites(m, s)   == {k[2] : k \in {k \in DOMAIN m : k[1] = s /\ m[k].favorite}}
list_by_tag(m, s, n)   == {k[2] : k \in {k \in DOMAIN m : k[1] = s /\ \E t \in m[k].tags : t.name = n}}
list_by_color(m, s, c) == {k[2] : k \in {k \in DOMAIN m : k[1] = s /\ m[k].color = c}}
list_all_tags(m, s)    == {t.name : t \in UNION {m[k].tags : k \in {k \in DOMAIN m : k[1] = s}}}

\* A query answers from memory under the read lock.
AnswerTo(m, q, k, arg) ==
    CASE q = "get_metadata" -> EntryOf(m, k)
      [] q = "stat" -> [tags |-> EntryOf(m, k).tags, comment |-> EntryOf(m, k).comment]
      [] q = "favorites" -> list_favorites(m, k[1]) [] q = "all_tags" -> list_all_tags(m, k[1])
      [] q = "by_tag" -> list_by_tag(m, k[1], arg) [] q = "by_color" -> list_by_color(m, k[1], arg)
AskedAbout(c) == IF editor[c].cmd \in {"get_metadata", "stat"} THEN {editor[c].key} ELSE {k \in Keys : k[1] = editor[c].key[1]}
Tell(c, m, sure) == told' = [got |-> AnswerTo(m, editor[c].cmd, editor[c].key, editor[c].arg),
                              owed |-> AnswerTo(promised, editor[c].cmd, editor[c].key, editor[c].arg), clear |-> sure]
Query(c) ==
    /\ EditorAt(c, "get") /\ editor[c].cmd \in Queries
    /\ Tell(c, Mine(c), \A k \in AskedAbout(c) : k \notin blurred /\ ~Busy(k))
    /\ Edit(c, Resting) /\ UNCHANGED <<metaFile, installed, cache, dirty, metaCalls, promised, blurred>>
\* vfs_stat does without the store when it cannot be opened.
vfs_stat(c) ==
    /\ EditorAt(c, "instance") /\ editor[c].cmd = "stat" /\ installed = NoOne /\ metaFile = TornFile
    /\ Tell(c, << >>, FALSE)
    /\ Edit(c, Resting) /\ UNCHANGED <<metaFile, installed, cache, dirty, metaCalls, promised, blurred>>

\* The application stops; a file being written may be torn.
StopEditing ==
    /\ metaCalls < MaxMetaCalls /\ metaCalls' = metaCalls + 1
    /\ installed' = NoOne /\ editor' = [c \in MetaClient |-> Resting]
    /\ cache' = [c \in MetaClient |-> << >>] /\ dirty' = [c \in MetaClient |-> FALSE]
    /\ \/ UNCHANGED metaFile
       \/ (\E c \in MetaClient : EditorAt(c, "write")) /\ metaFile' = TornFile
    /\ blurred' = blurred \cup {k \in Keys : Busy(k)} /\ UNCHANGED promised

MetaInit == /\ metaFile = FileWith(<< >>) /\ installed = NoOne /\ cache = [c \in MetaClient |-> << >>]
            /\ dirty = [c \in MetaClient |-> FALSE] /\ editor = [c \in MetaClient |-> Resting]
            /\ metaCalls = 0 /\ promised = << >> /\ blurred = {} /\ told = Untold
MetaNext == \/ /\ told' = Untold
               /\ \/ StopEditing
                  \/ \E c \in MetaClient : \/ BeginEdit(c) \/ get_metadata_store_instance(c) \/ CopyEntry(c) \/ update(c)
                                           \/ mark_dirty(c) \/ save(c)
            \/ \E c \in MetaClient : Query(c) \/ vfs_stat(c)
MetaSpec == MetaInit /\ [][MetaNext]_metaVars

-----------------------------------------------------------------------------
(* Properties *)
MetaTypeOK ==
    /\ DOMAIN promised \subseteq Keys /\ blurred \subseteq Keys /\ metaCalls \in 0 .. MaxMetaCalls
    /\ \A c \in MetaClient : /\ editor[c].pc \in {"idle", "instance", "install", "get", "insert", "mark", "save", "lock", "write", "clear"}
                             /\ DOMAIN cache[c] \subseteq Keys /\ dirty[c] \in BOOLEAN

\* A command that answered Ok is on disk and stays there: whatever was saved
\* beside it, whoever cleared the dirty flag (83-112) and whatever stopped, the
\* file holds the file's entry as of the last answer, while no other command meets
\* it on the same file, none fails on it and only one store was made.
AnsweredIsSaved ==
    metaFile # TornFile => \A k \in DOMAIN promised \ blurred : ~Busy(k) => EntryOf(metaFile.data, k) = promised[k]

\* A query answers what the last answered changes left, restarts included, while no
\* command is changing a file it asks about and the promises on them are clear.
QueriesCurrent == told.clear => told.got = told.owed

\* Metadata that was answered is saved, and queries show it.
MetadataSafe == MetaTypeOK /\ AnsweredIsSaved /\ QueriesCurrent
=============================================================================
