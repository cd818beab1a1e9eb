----------------------------- MODULE FileCommands -----------------------------
(***************************************************************************)
(* The commands the user interface calls on files: vfs/commands/files.rs,      *)
(* commands/cross_storage.rs, vfs_open_file and use_cases/move_ops.rs, over     *)
(* the storage sources of VfsService.  A command is the sequence of its awaits  *)
(* (its plan): the calls of two commands interleave and every call may fail.    *)
(* An adapter's rename or mv is its system calls, any other call of an adapter  *)
(* one step; ObjectStore and MountedStorage have the steps inside those.        *)
(***************************************************************************)
EXTENDS FileTree

CONSTANTS Client,    \* commands that may run at the same time
          Adapter,   \* source -> "local", "nas" or "object"
          Request,   \* client -> [cmd, src, from, dst, to]; a batch has several from and to
          FirstTrees \* [source or "native" -> tree] the commands may start from

VARIABLES trees,  \* place -> tree
          origin, \* the trees at the start
          cached, \* the NVMe cache: path -> data, whatever the source
          cmd     \* client -> its command

cmdVars == <<trees, origin, cached, cmd>>

Source == DOMAIN Adapter
Kind(s) == IF s \in Source THEN Adapter[s] ELSE "local"

-----------------------------------------------------------------------------
(* Steps.  err: what an error does: "leave" answers Err and says nothing to     *)
(* the tracker, "fail" fails the operation first, "undo" removes the target     *)
(* first, "next" goes on with the next item, "go" ignores it.                    *)

Do(call, at, p, q, err) ==
    [call |-> call, at |-> at, p |-> p, q |-> q, err |-> err, item |-> 0, par |-> FALSE]
Track    == Do("track", "native", << >>, << >>, "go")
Complete == Do("complete", "native", << >>, << >>, "go")
\* A batch is Completed when no item failed and Failed otherwise; it answers Ok.
Settle   == Do("settle", "native", << >>, << >>, "go")
Item(i, steps, par) == [k \in DOMAIN steps |-> [steps[k] EXCEPT !.item = i, !.par = par]]
ForItems(r, Steps(_, _), par) ==
    FlattenSeq([i \in DOMAIN r.from |-> Item(i, Steps(r.from[i], r.to[i]), par)])

NotRoot(p)        == Do("notRoot", "native", p, << >>, "leave")
Exists(s, p)      == Do("exists", s, p, << >>, "leave")
AbsentAt(s, p)    == Do("absent", s, p, << >>, "leave")
NoObjectDir(s, p) == Do("noObjectDir", s, p, << >>, "leave")
\* The system calls of an adapter's method, for a caller that treats an error as err.
Calls(s, sys, err) == [i \in DOMAIN sys |-> Do(sys[i].sys, s, sys[i].p, sys[i].q, err)]
RenameBy(s, p, q, err) == Calls(s, IF Kind(s) = "local" THEN LocalRename(p, q) ELSE NasRename(p, q), err)
MvBy(s, p, q, over, err) ==
    Calls(s, IF Kind(s) = "local" THEN LocalMv(p, q, over) ELSE NasMv(p, q, over), err)
Tracked(steps)    == <<Track>> \o steps \o <<Complete>>

vfs_mkdir(r)   == Tracked(<<Do("mkdir", r.src, r.from, << >>, "fail")>>)
vfs_mkdir_p(r) == Tracked(<<Do("mkdir_p", r.src, r.from, << >>, "fail")>>)
vfs_rmdir(r)   == Tracked(<<Do("rmdir", r.src, r.from, << >>, "fail")>>)
vfs_rename(r) ==
    <<NotRoot(r.from), NotRoot(r.to), Exists(r.src, r.from), NoObjectDir(r.src, r.from)>>
    \o (IF r.from = r.to THEN << >> ELSE <<AbsentAt(r.src, r.to)>>)
    \o Tracked(RenameBy(r.src, r.from, r.to, "fail"))
vfs_copy(r)    == Tracked(<<Do("copy", r.src, r.from, r.to, "fail")>>)
vfs_move(r)    == <<NoObjectDir(r.src, r.from)>> \o Tracked(MvBy(r.src, r.from, r.to, FALSE, "fail"))
vfs_delete(r)  == <<NotRoot(r.from), Exists(r.src, r.from)>>
                  \o Tracked(<<Do("rm", r.src, r.from, << >>, "fail")>>)
vfs_delete_recursive(r) == Tracked(<<Do("rm_rf", r.src, r.from, << >>, "fail")>>)
vfs_batch_delete(r) ==
    <<Track>> \o ForItems(r, LAMBDA p, q : <<Do("rm_rf", r.src, p, << >>, "next")>>, TRUE) \o <<Settle>>
vfs_batch_move(r) ==
    <<Track>> \o ForItems(r, LAMBDA p, q : MvBy(r.src, p, q, FALSE, "next"), TRUE) \o <<Settle>>

\* An existing file is written too: touching it empties it.
vfs_touch(r)      == <<Do("empty", r.src, r.from, << >>, "leave")>>
vfs_write_text(r) == <<Do("new", r.src, r.from, << >>, "leave")>>
\* A file that cannot be read counts as empty.
vfs_append_text(r) == <<Do("readOrEmpty", r.src, r.from, << >>, "go"),
                        Do("extend", r.src, r.from, << >>, "leave")>>

\* Object storage: the download manager goes on in the background.
vfs_download_file(r) ==
    IF Kind(r.src) = "object" THEN <<Track, Do("background", r.src, r.from, r.to, "leave")>>
    ELSE <<Track, Do("read", r.src, r.from, << >>, "fail"), Do("write", "native", r.to, << >>, "fail"), Complete>>
\* The first free name is looked for, then the download starts.
vfs_download_to_downloads(r) == <<Do("freeName", "native", r.to, << >>, "go")>>
vfs_open_file(r) ==
    <<Do("file", r.src, r.from, << >>, "leave")>>
    \o (IF Kind(r.src) = "local" THEN << >>
        ELSE <<Do("readCached", r.src, r.from, << >>, "leave"), Do("write", "native", r.to, << >>, "leave")>>)

\* An error of the read leaves the operation in progress.
vfs_copy_to_source(r) ==
    <<Track, Do("read", r.src, r.from, << >>, "leave"), Do("write", r.dst, r.to, << >>, "fail"), Complete>>
\* Mutant of vfs_move_to_source: the source goes first.
vfs_move_to_source_early(r) ==
    <<Track, Do("read", r.src, r.from, << >>, "leave"), Do("rm", r.src, r.from, << >>, "leave"),
      Do("write", r.dst, r.to, << >>, "leave"), Complete>>
vfs_move_to_source(r) ==
    <<Track, Do("read", r.src, r.from, << >>, "leave"), Do("write", r.dst, r.to, << >>, "leave"),
      Do("rm", r.src, r.from, << >>, "undo"), Complete>>
Joined(dir, p) == dir \o <<Last(p)>>
vfs_batch_copy_to_source(r) ==
    ForItems(r, LAMBDA p, dir : <<Do("read", r.src, p, << >>, "next"),
                                  Do("write", r.dst, Joined(dir, p), << >>, "next")>>, FALSE)
vfs_batch_move_to_source(r) ==
    ForItems(r, LAMBDA p, dir : <<Do("read", r.src, p, << >>, "next"),
                                  Do("write", r.dst, Joined(dir, p), << >>, "next"),
                                  Do("rmOrUndo", r.src, p, Joined(dir, p), "next")>>, FALSE)

MoveWithinVfs(r) ==
    IF r.from = r.to THEN <<Do("refuse", r.src, r.from, << >>, "leave")>>
    ELSE <<Exists(r.src, r.from)>> \o MvBy(r.src, r.from, r.to, TRUE, "leave")
MoveBetweenVfs(r) ==
    IF r.src = r.dst THEN <<Do("refuse", r.src, r.from, << >>, "leave")>>
    ELSE <<Exists(r.src, r.from), Do("copy_to_source", r.src, r.from, r.to, "leave"),
           Do("statRemove", r.src, r.from, << >>, "leave")>>
MoveVfsToNative(r) ==
    <<Exists(r.src, r.from), Do("readCached", r.src, r.from, << >>, "leave"),
      Do("write", "native", r.to, << >>, "leave"), Do("rm", r.src, r.from, << >>, "leave")>>
MoveNativeToVfs(r) ==
    <<Exists("native", r.from), Do("read", "native", r.from, << >>, "leave"),
      Do("write", r.dst, r.to, << >>, "leave"), Do("rm", "native", r.from, << >>, "leave")>>

Plan(r) ==
    CASE r.cmd = "mkdir" -> vfs_mkdir(r)       [] r.cmd = "mkdir_p" -> vfs_mkdir_p(r)
      [] r.cmd = "rmdir" -> vfs_rmdir(r)       [] r.cmd = "rename" -> vfs_rename(r)
      [] r.cmd = "copy" -> vfs_copy(r)         [] r.cmd = "move" -> vfs_move(r)
      [] r.cmd = "delete" -> vfs_delete(r)     [] r.cmd = "delete_recursive" -> vfs_delete_recursive(r)
      [] r.cmd = "batch_delete" -> vfs_batch_delete(r)
      [] r.cmd = "batch_move" -> vfs_batch_move(r)
      [] r.cmd = "touch" -> vfs_touch(r)       [] r.cmd = "write_text" -> vfs_write_text(r)
      [] r.cmd = "append_text" -> vfs_append_text(r)
      [] r.cmd = "download" -> vfs_download_file(r)
      [] r.cmd = "to_downloads" -> vfs_download_to_downloads(r)
      [] r.cmd = "open" -> vfs_open_file(r)
      [] r.cmd = "copy_to_source" -> vfs_copy_to_source(r)
      [] r.cmd = "move_to_source" -> vfs_move_to_source(r)
      [] r.cmd = "batch_copy_to_source" -> vfs_batch_copy_to_source(r)
      [] r.cmd = "batch_move_to_source" -> vfs_batch_move_to_source(r)
      [] r.cmd = "MoveWithinVfs" -> MoveWithinVfs(r)
      [] r.cmd = "MoveBetweenVfs" -> MoveBetweenVfs(r)
      [] r.cmd = "MoveVfsToNative" -> MoveVfsToNative(r)
      [] r.cmd = "MoveNativeToVfs" -> MoveNativeToVfs(r)

-----------------------------------------------------------------------------
(* What a call does to the tree of its place. *)

CopyTree(t, from, to) ==
    IF Has(t, to) \/ ~Has(t, from) \/ IsStrictPrefix(from, to) THEN Failed(t)
    ELSE AndThen(CreateDirAll(t, Front(to)), LAMBDA u : Done(Sub(t, from, to) @@ u))
RmBy(kind, t, p) == IF kind = "object" THEN Done(Drop(t, {p})) ELSE RemoveFile(t, p)
RmRfBy(kind, t, p) == IF kind = "local" THEN LocalRmRf(t, p) ELSE NasRmRf(t, p)
Effect(call, kind, t, p, q, data) ==
    CASE call = "mkdir" -> LocalMkdir(t, p)
      [] call = "mkdir_p" -> LocalCreateDir(t, p)
      [] call = "rmdir" -> RemoveDir(t, p)
      [] call \in {"create_dir_all", "rename"} -> SysResult(t, Sys(call, p, q))
      [] call = "copy" -> CopyTree(t, p, q)
      [] call \in {"rm", "rmOrUndo"} -> RmBy(kind, t, p)
      [] call = "rm_rf" -> RmRfBy(kind, t, p)
      [] call = "write" -> LocalWrite(t, p, data)
      [] call = "empty" -> LocalWrite(t, p, << >>)
      [] call = "new" -> LocalWrite(t, p, <<"new">>)
      [] call = "extend" -> LocalWrite(t, p, data \o <<"new">>)
Changing == {"mkdir", "mkdir_p", "rmdir", "create_dir_all", "rename", "copy", "rm", "rmOrUndo", "rm_rf",
             "write", "empty", "new", "extend"}
Checks(s) ==
    CASE s.call = "notRoot" -> s.p # << >>
      [] s.call = "exists" -> Has(trees[s.at], s.p)
      [] s.call = "absent" -> ~Has(trees[s.at], s.p)
      [] s.call = "noObjectDir" -> ~(Kind(s.at) = "object" /\ IsFolder(trees[s.at], s.p))
      [] s.call = "file" -> IsFile(trees[s.at], s.p)
      [] s.call = "refuse" -> FALSE
Checking == {"notRoot", "exists", "absent", "noObjectDir", "file", "refuse"}

-----------------------------------------------------------------------------
NoCommand == [req |-> [cmd |-> "none"], todo |-> << >>, data |-> << >>, op |-> "none",
              bad |-> FALSE, res |-> "none"]

CmdInit == /\ trees \in FirstTrees /\ origin = trees
           /\ cached = << >>
           /\ cmd = [c \in Client |-> NoCommand]

Start(c, r) ==
    /\ cmd[c] = NoCommand
    /\ cmd' = [cmd EXCEPT ![c] = [NoCommand EXCEPT !.req = r, !.todo = Plan(r)]]
    /\ UNCHANGED <<trees, origin, cached>>

\* The steps of a command that may run now: the first, and of a parallel batch
\* the first of every item (its semaphore of 16 never runs out here).
Ready(todo) ==
    {i \in DOMAIN todo : \A j \in 1 .. i - 1 : todo[i].par /\ todo[j].par /\ todo[j].item # todo[i].item}
Without(todo, i) == RemoveAt(todo, i)
Answer(k, res) == [k EXCEPT !.todo = << >>, !.res = res]
\* The command once step i has gone well; the last one answers Ok.
Onward(k, i) == LET rest == Without(k.todo, i)
                IN  [k EXCEPT !.todo = rest, !.res = IF rest = << >> THEN "Ok" ELSE "none"]
OnError(k, i) ==
    LET s == k.todo[i]
        rest == SelectSeq(k.todo, LAMBDA x : x.item # s.item)
    IN  CASE s.err = "next" -> [k EXCEPT !.todo = rest, !.bad = TRUE,
                                         !.res = IF rest = << >> THEN "Ok" ELSE "none"]
          [] s.err = "go" -> Onward(k, i)
          [] s.err = "leave" -> Answer(k, "Err")
          [] s.err = "fail" -> Answer([k EXCEPT !.op = "Failed"], "Err")
          [] s.err = "undo" -> [k EXCEPT !.todo = <<Do("rm", k.req.dst, k.req.to, << >>, "fail"),
                                                    Do("giveUp", "native", << >>, << >>, "fail")>>]

Set(c, k) == cmd' = [cmd EXCEPT ![c] = k]
Fails(c, i) == Set(c, OnError(cmd[c], i)) /\ UNCHANGED <<trees, origin, cached>>

CheckStep(c, i) ==
    LET s == cmd[c].todo[i]
    IN  /\ s.call \in Checking
        /\ Set(c, IF Checks(s) THEN Onward(cmd[c], i) ELSE OnError(cmd[c], i))
        /\ UNCHANGED <<trees, origin, cached>>

Change(c, i) ==
    LET s == cmd[c].todo[i]
        r == Effect(s.call, Kind(s.at), trees[s.at], s.p, s.q, cmd[c].data)
    IN  /\ s.call \in Changing
        /\ trees' = [trees EXCEPT ![s.at] = r.tree]
        /\ Set(c, IF r.ok THEN Onward(cmd[c], i) ELSE OnError(cmd[c], i))
        /\ UNCHANGED <<origin, cached>>
\* An item of vfs_batch_move_to_source whose source stays: its copy is removed.
ChangeFails(c, i) ==
    LET s == cmd[c].todo[i]
    IN  /\ s.call \in (Changing \ {"rmOrUndo"}) \cup {"background"}
        /\ Fails(c, i)
UndoItem(c, i) ==
    LET s == cmd[c].todo[i]
        dst == cmd[c].req.dst
    IN  /\ s.call = "rmOrUndo"
        /\ trees' = [trees EXCEPT ![dst] = RmBy(Kind(dst), @, s.q).tree]
        /\ Set(c, OnError(cmd[c], i)) /\ UNCHANGED <<origin, cached>>

ReadFile(c, i) ==
    LET s == cmd[c].todo[i]
    IN  /\ s.call \in {"read", "readOrEmpty"} /\ IsFile(trees[s.at], s.p)
        /\ Set(c, [Onward(cmd[c], i) EXCEPT !.data = trees[s.at][s.p].data])
        /\ UNCHANGED <<trees, origin, cached>>
\* VfsService::read_file: the cache is asked by path only and filled.
ReadCached(c, i) ==
    LET s == cmd[c].todo[i]
        hit == s.p \in DOMAIN cached
    IN  /\ s.call = "readCached" /\ (hit \/ IsFile(trees[s.at], s.p))
        /\ LET d == IF hit THEN cached[s.p] ELSE trees[s.at][s.p].data
           IN  /\ Set(c, [Onward(cmd[c], i) EXCEPT !.data = d])
               /\ cached' = (s.p :> d) @@ cached
        /\ UNCHANGED <<trees, origin>>
ReadFails(c, i) ==
    /\ cmd[c].todo[i].call \in {"read", "readOrEmpty", "readCached"}
    /\ Set(c, [OnError(cmd[c], i) EXCEPT !.data = << >>]) /\ UNCHANGED <<trees, origin, cached>>

\* VfsService::copy_to_source appends the name of the source to the path it is
\* given; a directory is made, listed and copied entry by entry.
copy_file(src, p, dst, to) == <<Do("read", src, p, << >>, "leave"), Do("write", dst, to, << >>, "leave")>>
copy_dir_to_source(src, p, dst, to) ==
    <<Do("mkdir_p", dst, Joined(to, p), << >>, "leave"), Do("list", src, p, Joined(to, p), "leave")>>
CopyEntry(src, isDir, p, dst, dir) ==
    IF isDir THEN copy_dir_to_source(src, p, dst, dir) ELSE copy_file(src, p, dst, Joined(dir, p))

\* The calls that may follow an answer: a stat, or a listing in any order.
Follow(s, dst) ==
    LET t == trees[s.at]
        entries == {p \in Inside(t, s.p) : Len(p) = Len(s.p) + 1}
    IN  CASE s.call = "copy_to_source" -> {CopyEntry(s.at, IsFolder(t, s.p), s.p, dst, s.q)}
          [] s.call = "list" -> {FlattenSeq([i \in DOMAIN es |-> CopyEntry(s.at, IsFolder(t, es[i]), es[i], dst, s.q)]) :
                                   es \in SetToSeqs(entries)}
          [] s.call = "statRemove" ->
                {<<Do(IF IsFolder(t, s.p) THEN "rm_rf" ELSE "rm", s.at, s.p, << >>, "leave")>>}
Asked(c, i) ==
    LET s == cmd[c].todo[i]
        dst == cmd[c].req.dst
        there == IF s.call = "list" THEN IsFolder(trees[s.at], s.p) ELSE Has(trees[s.at], s.p)
    IN  /\ s.call \in {"copy_to_source", "list", "statRemove"}
        /\ \/ there /\ \E more \in Follow(s, dst) :
                  Set(c, [cmd[c] EXCEPT !.todo = more \o Without(@, i)])
           \/ Set(c, OnError(cmd[c], i))
        /\ UNCHANGED <<trees, origin, cached>>

\* vfs_download_to_downloads: the first of name, name (1), ... that is free.
FreeName(c, i) ==
    LET s == cmd[c].todo[i]
        taken(k) == Has(trees["native"], Front(s.p) \o <<[Last(s.p) EXCEPT !.copy = k]>>)
        k == Min({n \in 0 .. Cardinality(DOMAIN trees["native"]) : ~taken(n)})
        r == [cmd[c].req EXCEPT !.to = Front(s.p) \o <<[Last(s.p) EXCEPT !.copy = k]>>]
    IN  /\ s.call = "freeName"
        /\ Set(c, [cmd[c] EXCEPT !.req = r, !.todo = vfs_download_file(r)])
        /\ UNCHANGED <<trees, origin, cached>>

Tell(c, i) ==
    LET s == cmd[c].todo[i]
        k == cmd[c]
    IN  /\ \/ s.call = "track" /\ Set(c, Onward([k EXCEPT !.op = "InProgress"], i))
           \/ s.call = "complete" /\ Set(c, Onward([k EXCEPT !.op = "Completed"], i))
           \/ s.call = "settle" /\ Set(c, Onward([k EXCEPT !.op = IF k.bad THEN "Failed" ELSE "Completed"], i))
           \/ s.call = "giveUp" /\ Set(c, OnError(k, i))
           \/ s.call = "background" /\ Set(c, Onward(k, i))
        /\ UNCHANGED <<trees, origin, cached>>

CmdStep(c) ==
    \E i \in Ready(cmd[c].todo) :
       \/ CheckStep(c, i) \/ Change(c, i) \/ ChangeFails(c, i) \/ UndoItem(c, i) \/ ReadFile(c, i)
       \/ ReadCached(c, i) \/ ReadFails(c, i) \/ Asked(c, i) \/ FreeName(c, i) \/ Tell(c, i)
CmdNext == \E c \in Client : (\E r \in Request[c] : Start(c, r)) \/ CmdStep(c)

CmdSpec == CmdInit /\ [][CmdNext]_cmdVars

-----------------------------------------------------------------------------
(* Type invariant. *)
CmdTypeOK ==
    /\ \A c \in Client : /\ cmd[c].res \in {"none", "Ok", "Err"}
                         /\ cmd[c].op \in {"none", "InProgress", "Completed", "Failed"}
                         /\ cmd[c].res # "none" => cmd[c].todo = << >>
    /\ \A s \in DOMAIN trees : \A p \in DOMAIN trees[s] : p # << >> /\ IsFolder(trees[s], Front(p))

Ranging(x) == {x[i] : i \in DOMAIN x}
\* Paths of place s a request is told to delete, to write or to replace.  A
\* rename, a copy and the moves without overwrite replace nothing; the local
\* adapter's mv does (local_storage.rs 617).
Replaces(r, s) ==
    CASE r.cmd \in {"delete", "delete_recursive", "rmdir", "touch", "write_text", "append_text"} ->
            IF s = r.src THEN {r.from} ELSE {}
      [] r.cmd = "batch_delete" -> IF s = r.src THEN Ranging(r.from) ELSE {}
      [] r.cmd = "move" -> IF s = r.src /\ Kind(s) = "local" THEN {r.to} ELSE {}
      [] r.cmd = "batch_move" -> IF s = r.src /\ Kind(s) = "local" THEN Ranging(r.to) ELSE {}
      [] r.cmd = "MoveWithinVfs" -> IF s = r.src THEN {r.to} ELSE {}
      [] r.cmd = "MoveBetweenVfs" -> IF s = r.dst THEN {Joined(r.to, r.from)} ELSE {}
      [] r.cmd \in {"copy_to_source", "move_to_source", "MoveNativeToVfs"} -> IF s = r.dst THEN {r.to} ELSE {}
      [] r.cmd \in {"batch_copy_to_source", "batch_move_to_source"} ->
            IF s = r.dst THEN {Joined(r.to[i], r.from[i]) : i \in DOMAIN r.from} ELSE {}
      [] r.cmd \in {"download", "open", "MoveVfsToNative"} -> IF s = "native" THEN {r.to} ELSE {}
      [] OTHER -> {}
\* What a request moves: from a path to a place and a path there.
Moves(r) ==
    CASE r.cmd \in {"rename", "move", "MoveWithinVfs"} -> {<<r.from, r.src, r.to>>}
      [] r.cmd = "batch_move" -> {<<r.from[i], r.src, r.to[i]>> : i \in DOMAIN r.from}
      [] r.cmd = "batch_move_to_source" ->
            {<<r.from[i], r.dst, Joined(r.to[i], r.from[i])>> : i \in DOMAIN r.from}
      [] r.cmd \in {"move_to_source", "MoveNativeToVfs"} -> {<<r.from, r.dst, r.to>>}
      [] r.cmd = "MoveBetweenVfs" -> {<<r.from, r.dst, Joined(r.to, r.from)>>}
      [] r.cmd = "MoveVfsToNative" -> {<<r.from, "native", r.to>>}
      [] OTHER -> {}
\* Where request r takes the file p of place s, as <<place, path>>.
NewPlaces(r, s, p) ==
    IF r.cmd = "none" \/ r.src # s THEN {}
    ELSE {<<m[2], m[3] \o SubSeq(p, Len(m[1]) + 1, Len(p))>> : m \in {n \in Moves(r) : IsPrefix(n[1], p)}}
\* What a move between places removes once it is copied: another command may
\* have put a file there in between, and it goes too.
Clears(r, s) ==
    CASE r.cmd \in {"move_to_source", "MoveBetweenVfs", "MoveVfsToNative", "MoveNativeToVfs"} ->
            IF s = r.src THEN {r.from} ELSE {}
      [] r.cmd = "batch_move_to_source" -> IF s = r.src THEN Ranging(r.from) ELSE {}
      [] OTHER -> {}
\* Told to replace the file, or the place where another command takes this file.
Told(s, p) ==
    \E c \in Client :
       \/ \E q \in Replaces(cmd[c].req, s) : IsPrefix(q, p)
       \/ \E e \in Client \ {c} : \E t \in NewPlaces(cmd[e].req, s, p) :
            \E q \in Replaces(cmd[c].req, t[1]) \cup Clears(cmd[c].req, t[1]) : IsPrefix(q, t[2])
\* Another command renames to the place where this file is taken: it tests that
\* the place is free before it renames, not when it does (files.rs 340-485,
\* nas_storage.rs 515-523).
Outrun(s, p) ==
    \E c \in Client : \E e \in Client \ {c} : \E t \in NewPlaces(cmd[e].req, s, p) :
       /\ cmd[c].req.cmd \in {"rename", "move", "batch_move"}
       /\ \E m \in Moves(cmd[c].req) : t = <<m[2], m[3]>>
\* The cache answered a move to the native file system with another file.
Misread(p) == \E c \in Client : /\ cmd[c].req.cmd = "MoveVfsToNative" /\ cmd[c].req.from = p
                                /\ p \in DOMAIN cached
                                /\ cached[p] # origin[cmd[c].req.src][p].data

(* Whatever fails and however two commands interleave, the content of a file    *)
(* that was there is still somewhere unless a command was told to delete or to  *)
(* replace that file, or the place another command takes that file to (a file    *)
(* moved onto itself between sources is among those).  Two                      *)
(* exceptions: a rename to a place that has just been filled (Outrun), and the   *)
(* cache, which is asked by path only (vfs_service.rs:590), so that a move to    *)
(* the native file system may write the file of another source and then delete   *)
(* the one it should have moved.                                                *)
NothingLostByCommands ==
    \A s \in DOMAIN origin : \A p \in DOMAIN origin[s] :
       IsFile(origin[s], p) /\ ~Told(s, p) /\ ~Outrun(s, p) /\ ~Misread(p) =>
          \E x \in DOMAIN trees : \E q \in DOMAIN trees[x] : trees[x][q] = origin[s][p]

\* Commands that return with ? between the start and the end of an operation
\* (cross_storage.rs 56, 122 and 126), or hand it to the download manager.
LeavesOpen(r) == \/ r.cmd \in {"copy_to_source", "move_to_source"}
                 \/ r.cmd \in {"download", "to_downloads"} /\ Kind(r.src) = "object"
(* A command that has answered has ended its operation, as Completed only when  *)
(* it answers Ok and no item of a batch failed, and an Ok of a tracked command   *)
(* has completed it.                                                            *)
OperationsSettled ==
    \A c \in Client :
       LET k == cmd[c]
       IN  k.res # "none" =>
             /\ k.op = "InProgress" => LeavesOpen(k.req)
             /\ k.op = "Completed" => k.res = "Ok" /\ ~k.bad
             /\ k.op = "Failed" => k.res = "Err" \/ k.bad

(* Two commands at a time lose no file they were not told to lose and settle     *)
(* their operations (commands/files.rs, commands/cross_storage.rs).               *)
CommandsSafe == CmdTypeOK /\ NothingLostByCommands /\ OperationsSettled
=============================================================================
