------------------------------ MODULE Clipboard ------------------------------
(***************************************************************************)
(* vfs/adapters/clipboard.rs and its commands: the clipboard of the program    *)
(* (behind a tokio RwLock, which is fair), the clipboard of the operating       *)
(* system, the background tasks that copy the first to the second, and paste.   *)
(* A paste copies its items at the same time and, when the content was cut,     *)
(* deletes the sources afterwards.                                             *)
(***************************************************************************)
EXTENDS FileTree

CONSTANTS ClipUser,       \* commands that may run at the same time
          ClipRequest,    \* user -> set of [cmd, at, paths]
          FirstClipTrees, \* [source or "native" -> tree] at first
          TempDir,        \* native path of the exported files
          NameLimit,      \* names tried for a copy in its own directory (1000 in the code)
          MaxClipCalls,   \* bound on the commands
          OsPaths         \* native paths the user may copy in the file manager

ASSUME ClipAssumption == NameLimit \in Nat \ {0} /\ MaxClipCalls \in Nat

VARIABLES clip,     \* internal_clipboard
          osClip,   \* paths on the clipboard of the operating system
          exports,  \* contents on their way to it
          held,     \* place -> tree
          first,    \* the trees at the start
          readCache,\* VfsService's cache: path -> data, whatever the source
          job,      \* user -> its command
          clipCalls \* commands so far

clipVars == <<clip, osClip, exports, held, first, readCache, job, clipCalls>>

NoClip == [op |-> "none", at |-> "native", paths |-> << >>]
NoJob  == [pc |-> "idle", req |-> [cmd |-> "none"], content |-> NoClip, goal |-> << >>,
           item |-> << >>, op |-> "none", res |-> "none", unlisted |-> FALSE]

ClipInit == /\ clip = NoClip /\ osClip = << >> /\ exports = {}
            /\ held \in FirstClipTrees /\ first = held
            /\ readCache = << >>
            /\ job = [u \in ClipUser |-> NoJob] /\ clipCalls = 0

-----------------------------------------------------------------------------
(* The lock.  get_clipboard keeps its read guard until it returns, and asks for *)
(* the write guard when the operating system has files: nobody gets a guard     *)
(* after that.                                                                 *)
ReadFree  == \A u \in ClipUser : job[u].pc # "cacheNative"
WriteFree == \A u \in ClipUser : job[u].pc \notin {"readNative", "cacheNative"}

Become(u, k) == job' = [job EXCEPT ![u] = k]
GoTo(u, pc)  == Become(u, [job[u] EXCEPT !.pc = pc])
Reply(u, res) == Become(u, [job[u] EXCEPT !.pc = "idle", !.res = res])

ClipCall(u, r) ==
    /\ job[u].pc = "idle" /\ clipCalls < MaxClipCalls
    /\ clipCalls' = clipCalls + 1
    /\ Become(u, [NoJob EXCEPT !.req = r, !.pc = CASE r.cmd \in {"copy", "cut"} -> "store"
                                                   [] r.cmd = "clear" -> "clear"
                                                   [] r.cmd = "get" -> "get"
                                                   [] r.cmd = "paste_to_vfs" -> "has"
                                                   [] r.cmd = "paste_to_native" -> "get"])
    /\ UNCHANGED <<clip, osClip, exports, held, first, readCache>>

\* copy_files and cut_files: the content is stored and a task exports it.
store(u) ==
    LET content == [op |-> job[u].req.cmd, at |-> job[u].req.at, paths |-> job[u].req.paths]
    IN  /\ job[u].pc = "store" /\ WriteFree
        /\ clip' = content /\ exports' = exports \cup {content}
        /\ Reply(u, "Ok") /\ UNCHANGED <<osClip, held, first, readCache, clipCalls>>
\* The lock is waited for 2 seconds.
store_timeout(u) == /\ job[u].pc = "store" /\ ~WriteFree
                    /\ Reply(u, "Err")
                    /\ UNCHANGED <<clip, osClip, exports, held, first, readCache, clipCalls>>
clear_clipboard(u) == /\ job[u].pc = "clear" /\ WriteFree
                      /\ clip' = NoClip
                      /\ IF job[u].req.cmd = "paste_to_native" THEN GoTo(u, "report") ELSE Reply(u, "Ok")
                      /\ UNCHANGED <<osClip, exports, held, first, readCache, clipCalls>>

Existing(paths) == SelectSeq(paths, LAMBDA p : Has(held["native"], p))
has_files(u) ==
    /\ job[u].pc = "has" /\ ReadFree
    /\ \/ /\ clip.paths # << >> \/ Existing(osClip) # << >>
          /\ GoTo(u, "get")
       \/ \* nothing there, or the tool that reads the clipboard fails
          clip.paths = << >> /\ Reply(u, "Err")
    /\ UNCHANGED <<clip, osClip, exports, held, first, readCache, clipCalls>>

Copying(k) == [k EXCEPT !.pc = "copy", !.item = [i \in DOMAIN k.content.paths |-> "todo"],
                        !.goal = [i \in DOMAIN k.content.paths |-> << >>]]
\* What the caller of get_clipboard does with the answer.
Got(u, content) ==
    LET k == [job[u] EXCEPT !.content = content]
    IN  CASE k.req.cmd = "get" -> [k EXCEPT !.pc = "idle", !.res = "Ok"]
          [] content.paths = << >> -> [k EXCEPT !.pc = "idle", !.res = "Err"]
          [] k.req.cmd = "paste_to_vfs" -> [k EXCEPT !.pc = "validate", !.op = "InProgress"]
          [] k.req.cmd = "paste_to_native" -> Copying(k)
get_clipboard(u) ==
    /\ job[u].pc = "get" /\ ReadFree
    /\ IF clip # NoClip THEN Become(u, Got(u, clip)) ELSE GoTo(u, "readNative")
    /\ UNCHANGED <<clip, osClip, exports, held, first, readCache, clipCalls>>
get_clipboard_native(u) ==
    /\ job[u].pc = "readNative"
    /\ \/ Existing(osClip) # << >> /\ GoTo(u, "cacheNative")
       \/ Become(u, Got(u, NoClip))
    /\ UNCHANGED <<clip, osClip, exports, held, first, readCache, clipCalls>>

-----------------------------------------------------------------------------
(* The clipboard of the operating system.  Writing it may fail; macOS is only    *)
(* given paths that exist, and keeps what it has when there are none.            *)
PutAsIs(paths)    == osClip' = paths
PutExisting(paths) == osClip' = IF Existing(paths) = << >> THEN osClip ELSE Existing(paths)
write_native_clipboard(paths) ==
    \/ UNCHANGED osClip
    \/ paths # << >> /\ (PutAsIs(paths) \/ PutExisting(paths))
CopyInFileManager(paths) == /\ osClip = << >> /\ osClip' = paths
                            /\ UNCHANGED <<clip, exports, held, first, readCache, job, clipCalls>>

\* VfsService::read_file.
Served(at, p) == IF p \in DOMAIN readCache THEN readCache[p] ELSE held[at][p].data
ServedTree(at, new, from, to) ==
    [q \in DOMAIN new |-> LET p == from \o SubSeq(q, Len(to) + 1, Len(q))
                          IN  IF new[q].dir THEN new[q] ELSE FileOf(Served(at, p))]
\* Every parent of a node of part that new has is in part.
Closed(part, new) == \A q \in part : \A r \in DOMAIN new : IsPrefix(r, q) => r \in part
Parts(new, t) == {Restrict(new, part) : part \in
                    {x \in SUBSET DOMAIN new : Closed(x, new) /\ Fits(t, Restrict(new, x))}}
Filled(at, from, to, part) ==
    [p \in {from \o SubSeq(q, Len(to) + 1, Len(q)) : q \in {x \in DOMAIN part : ~part[x].dir}} |-> Served(at, p)]

\* export_vfs_to_temp and the task that calls it: an item may fail, and the
\* timeout of 5 seconds may end it before the clipboard is written.
Exported(e, p) == ServedTree(e.at, Sub(held[e.at], p, TempDir \o <<Last(p)>>), p, TempDir \o <<Last(p)>>)
export(e) ==
    /\ e \in exports /\ exports' = exports \ {e}
    /\ IF e.at = "native" THEN write_native_clipboard(e.paths) /\ UNCHANGED <<held, readCache>>
       ELSE \E done \in SUBSET DOMAIN e.paths :
              LET there == {i \in done : Has(held[e.at], e.paths[i])}
                  above == CreateDirAll(held["native"], TempDir).tree
                  Put(t, i) == IF Fits(t, Exported(e, e.paths[i])) THEN Exported(e, e.paths[i]) @@ t ELSE t
                  Take(c, i) == Filled(e.at, e.paths[i], TempDir \o <<Last(e.paths[i])>>, Exported(e, e.paths[i])) @@ c
              IN  /\ held' = [held EXCEPT !["native"] = FoldSet(LAMBDA i, t : Put(t, i), above, there)]
                  /\ readCache' = FoldSet(LAMBDA i, c : Take(c, i), readCache, there)
                  /\ \/ there # {} /\ osClip' = SetToSeq({TempDir \o <<Last(e.paths[i])>> : i \in there})
                     \/ UNCHANGED osClip
    /\ UNCHANGED <<clip, first, job, clipCalls>>

-----------------------------------------------------------------------------
(* Paste. *)

Dest(u)   == job[u].req.paths[1]
Place(u)  == job[u].req.at
From(u, i) == job[u].content.paths[i]
SrcAt(u)  == job[u].content.at
Named(dir, name) == dir \o <<name>>

\* The destination must be a directory.
validate(u) ==
    /\ job[u].pc = "validate"
    /\ Become(u, IF IsFolder(held[Place(u)], Dest(u)) THEN Copying(job[u])
                 ELSE [job[u] EXCEPT !.pc = "idle", !.op = "Failed", !.res = "Err"])
    /\ UNCHANGED <<clip, osClip, exports, held, first, readCache, clipCalls>>

\* generate_unique_name: the name itself, then "name copy", "name copy 2", ...
Names(at, dir, name) == {k \in 0 .. NameLimit : ~Has(held[at], Named(dir, [name EXCEPT !.copy = k]))}
generate_unique_name(at, dir, name) == Named(dir, [name EXCEPT !.copy = Min(Names(at, dir, name))])

\* The first half of the four copy functions: where the item goes.
\* Mutant of Refused: a directory may go into itself.
RefusedOntoItself(u, i) == Place(u) = "native" /\ SrcAt(u) = "native" /\ From(u, i) = Named(Dest(u), Last(From(u, i)))
\* Refused: into itself, and onto itself outside the VFS.
Refused(u, i) ==
    LET p == From(u, i)
        to == Named(Dest(u), Last(p))
    IN  /\ SrcAt(u) = Place(u)
        /\ IF Place(u) = "native" THEN p = to \/ (IsFolder(held["native"], p) /\ IsPrefix(p, Dest(u)))
           ELSE IsFolder(held[SrcAt(u)], p) /\ IsStrictPrefix(p, to)
\* In its own directory an item gets a new name; a native path is compared with
\* the path in the VFS as text.
OwnDirectory(u, i) ==
    LET p == From(u, i)
        to == Named(Dest(u), Last(p))
    IN  CASE Place(u) = "native" -> FALSE
          [] SrcAt(u) = Place(u) -> p = to
          [] SrcAt(u) = "native" -> p = to \/ (IsFolder(held["native"], p) /\ IsPrefix(p, to))
          [] OTHER -> FALSE
\* paste_to_native copies one item after the other.
Turn(u, i) == Place(u) = "native" => \A j \in 1 .. i - 1 : job[u].item[j] \in {"ok", "err"}
choose(u, i) ==
    LET name == Last(From(u, i))
        own == OwnDirectory(u, i)
        bad == Refused(u, i) \/ (own /\ Names(Place(u), Dest(u), name) = {})
        goal == IF own THEN generate_unique_name(Place(u), Dest(u), name) ELSE Named(Dest(u), name)
    IN  /\ job[u].pc = "copy" /\ job[u].item[i] = "todo" /\ Turn(u, i)
        /\ Become(u, IF bad THEN [job[u] EXCEPT !.item[i] = "err"]
                     ELSE [job[u] EXCEPT !.item[i] = "named", !.goal[i] = goal])
        /\ UNCHANGED <<clip, osClip, exports, held, first, readCache, clipCalls>>

\* Where the copy really goes: copy_to_source appends the name once more.
Landing(u, i) ==
    LET k == job[u]
    IN  IF k.content.at # k.req.at /\ "native" \notin {k.content.at, k.req.at}
        THEN Named(k.goal[i], Last(From(u, i))) ELSE k.goal[i]
Carried(u, i) ==
    LET new == Sub(held[SrcAt(u)], From(u, i), Landing(u, i))
    IN  IF SrcAt(u) # "native" /\ Place(u) = "native" THEN ServedTree(SrcAt(u), new, From(u, i), Landing(u, i))
        ELSE new
\* A directory of the VFS that cannot be listed counts as copied to the native
\* file system without its content.
Unlisted(u, new) ==
    IF SrcAt(u) = "native" \/ Place(u) # "native" THEN {}
    ELSE {Restrict(new, DOMAIN new \ Inside(new, q)) : q \in {x \in DOMAIN new : new[x].dir /\ Inside(new, x) # {}}}
copy_item(u, i) ==
    LET new == Carried(u, i)
        to == Landing(u, i)
        above == CreateDirAll(held[Place(u)], Front(to))
        \* the outcomes: all of it, a directory unlisted, or an error after a part
        Whole == {[part |-> x, end |-> "ok"] : x \in {y \in {new} : DOMAIN y # {} /\ Fits(above.tree, y)}}
        Hollow == {[part |-> x, end |-> "unlisted"] : x \in {y \in Unlisted(u, new) : Fits(above.tree, y)}}
        Broken == {[part |-> x, end |-> "err"] : x \in Parts(new, above.tree)}
    IN  /\ job[u].pc = "copy" /\ job[u].item[i] = "named"
        /\ \E r \in IF above.ok THEN Whole \cup Hollow \cup Broken ELSE {[part |-> << >>, end |-> "err"]} :
              /\ held' = [held EXCEPT ![Place(u)] = r.part @@ above.tree]
              /\ Become(u, [job[u] EXCEPT !.item[i] = IF r.end = "err" THEN "err" ELSE "ok",
                                          !.unlisted = @ \/ r.end = "unlisted"])
              /\ readCache' = IF SrcAt(u) # "native" /\ Place(u) = "native"
                              THEN Filled(SrcAt(u), From(u, i), to, r.part) @@ readCache ELSE readCache
        /\ UNCHANGED <<clip, osClip, exports, first, clipCalls>>

\* Mutant of settle: an item that failed does not stop the deletion.
settle_deletes(u) ==
    LET k == job[u]
        bad == \E i \in DOMAIN k.item : k.item[i] = "err"
    IN  /\ k.pc = "copy" /\ \A i \in DOMAIN k.item : k.item[i] \in {"ok", "err"}
        /\ LET told == IF k.op = "none" THEN k ELSE [k EXCEPT !.op = IF bad THEN "Failed" ELSE "Completed"]
           IN  Become(u, IF k.content.op = "cut" THEN [told EXCEPT !.pc = "delete"]
                         ELSE IF k.req.cmd = "paste_to_native" THEN [told EXCEPT !.pc = "report"]
                         ELSE [told EXCEPT !.pc = "idle", !.res = "Ok"])
        /\ UNCHANGED <<clip, osClip, exports, held, first, readCache, clipCalls>>
settle(u) ==
    LET k == job[u]
        bad == \E i \in DOMAIN k.item : k.item[i] = "err"
    IN  /\ k.pc = "copy" /\ \A i \in DOMAIN k.item : k.item[i] \in {"ok", "err"}
        /\ LET told == IF k.op = "none" THEN k ELSE [k EXCEPT !.op = IF bad THEN "Failed" ELSE "Completed"]
           IN  Become(u, IF k.content.op = "cut" /\ ~bad THEN [told EXCEPT !.pc = "delete"]
                         ELSE IF k.req.cmd = "paste_to_native" THEN [told EXCEPT !.pc = "report"]
                         ELSE [told EXCEPT !.pc = "idle", !.res = "Ok"])
        /\ UNCHANGED <<clip, osClip, exports, held, first, readCache, clipCalls>>

\* Deleting the cut sources; a failure is logged.  paste_to_native removes native
\* files only: a directory stays.
Removed(u, i) ==
    LET t == held[SrcAt(u)]
    IN  IF SrcAt(u) = "native" /\ Place(u) = "native" THEN RemoveFile(t, From(u, i)).tree
        ELSE LocalRmRf(t, From(u, i)).tree
delete_item(u, i) ==
    /\ job[u].pc = "delete" /\ job[u].item[i] \in {"ok", "err"}
    /\ held' \in {held, [held EXCEPT ![SrcAt(u)] = Removed(u, i)]}
    /\ LET rest == {j \in DOMAIN job[u].item \ {i} : job[u].item[j] # "gone"}
       IN  Become(u, [job[u] EXCEPT !.item[i] = "gone", !.pc = IF rest = {} THEN "clear" ELSE "delete"])
    /\ UNCHANGED <<clip, osClip, exports, first, readCache, clipCalls>>

\* paste_to_native offers what it pasted to the file manager; it answers an
\* error when that fails.
report(u) ==
    LET k == job[u]
        done == SelectSeq([i \in DOMAIN k.item |-> IF k.item[i] = "err" THEN << >> ELSE k.goal[i]],
                          LAMBDA p : p # << >>)
    IN  /\ k.pc = "report"
        /\ \/ /\ osClip' = IF done = << >> THEN osClip ELSE done
              /\ Reply(u, "Ok")
           \/ UNCHANGED osClip /\ done # << >> /\ Reply(u, "Err")
        /\ UNCHANGED <<clip, exports, held, first, readCache, clipCalls>>

ClipStep(u) ==
    \/ store(u) \/ store_timeout(u) \/ clear_clipboard(u) \/ has_files(u) \/ get_clipboard(u)
    \/ get_clipboard_native(u) \/ validate(u) \/ settle(u) \/ report(u)
    \/ \E i \in DOMAIN job[u].item : choose(u, i) \/ copy_item(u, i) \/ delete_item(u, i)
ClipNext ==
    \/ \E u \in ClipUser : ClipStep(u) \/ \E r \in ClipRequest[u] : ClipCall(u, r)
    \/ \E e \in exports : export(e)
    \/ \E paths \in OsPaths : CopyInFileManager(paths)

\* The runtime polls every task that can go on.
ClipFairness == \A u \in ClipUser : WF_clipVars(ClipStep(u))
ClipSpec == ClipInit /\ [][ClipNext]_clipVars /\ ClipFairness

-----------------------------------------------------------------------------
(* Type invariant. *)
ClipTypeOK ==
    /\ clip.op \in {"none", "copy", "cut"} /\ (clip.op = "none") = (clip.paths = << >>)
    /\ \A u \in ClipUser : /\ job[u].pc \in {"idle", "store", "clear", "has", "get", "readNative", "cacheNative",
                                             "validate", "copy", "delete", "report"}
                           /\ job[u].op \in {"none", "InProgress", "Completed", "Failed"}
                           /\ \A i \in DOMAIN job[u].item : job[u].item[i] \in {"todo", "named", "ok", "err", "gone"}
    /\ \A s \in DOMAIN held : \A p \in DOMAIN held[s] : IsFolder(held[s], Front(p))

\* Two items of a content with one name go to one place and the second replaces
\* the first; the cache answers by path only; an unlisted directory is copied
\* empty: in these cases, and no other, a cut loses data.
SameNames(k) == \E i, j \in DOMAIN k.content.paths : i # j /\ Last(k.content.paths[i]) = Last(k.content.paths[j])
Incoherent(at) == \E p \in DOMAIN readCache : ~IsFile(held[at], p) \/ held[at][p].data # readCache[p]
KnownLoss(k) == SameNames(k) \/ k.unlisted \/ (k.content.at \in DOMAIN held /\ Incoherent(k.content.at))
\* A paste replaces what has the name of an item at the destination.
Replaced(k, s, p) ==
    /\ k.pc = "copy" /\ k.req.at = s
    /\ \E i \in DOMAIN k.goal : k.goal[i] # << >> /\ IsPrefix(k.goal[i], p)
KeptSomewhere(data, trees) == \E s \in DOMAIN trees : \E p \in DOMAIN trees[s] : trees[s][p] = FileOf(data)
(* No step makes the content of a file disappear from every place, except a      *)
(* paste that replaces the file of that name at its destination: the sources of  *)
(* a cut go only once they are copied (clipboard.rs 1047).                       *)
CutKeepsData ==
    [][\A s \in DOMAIN held : \A p \in DOMAIN held[s] :
          IsFile(held[s], p) /\ ~KeptSomewhere(held[s][p].data, held') =>
             \/ s = "native" /\ IsPrefix(TempDir, p)
             \/ \E u \in ClipUser : Replaced(job[u], s, p) \/ KnownLoss(job[u])]_clipVars

(* A paste that failed on an item leaves every item it was to move where it was,  *)
(* and one that ended has settled its operation.                                 *)
FailedCutKeepsSources ==
    \A u \in ClipUser :
       LET k == job[u]
       IN  /\ k.pc = "idle" => k.op # "InProgress"
           /\ k.op = "Failed" /\ ~SameNames(k) =>
                \A i \in DOMAIN k.content.paths :
                   Has(first[k.content.at], k.content.paths[i]) => Has(held[k.content.at], k.content.paths[i])

\* The type invariant, with what a paste leaves behind.
ClipboardSafe == ClipTypeOK /\ FailedCutKeepsSources

(* Files copied in the file manager can be pasted: the command answers           *)
(* (clipboard.rs 807: "This allows paste to work directly after copying files     *)
(* externally").                                                                *)
ExternalPasteAnswers ==
    \A u \in ClipUser : job[u].pc = "get" /\ job[u].req.cmd = "paste_to_vfs" ~> job[u].pc = "idle"
=============================================================================
