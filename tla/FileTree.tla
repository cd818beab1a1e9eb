------------------------------- MODULE FileTree -------------------------------
(***************************************************************************)
(* A file system as a function from paths to nodes, the system calls the code   *)
(* makes on one, and the methods of vfs/adapters/{local,nas,fsxn}_storage.rs    *)
(* that are one step.  A path is a sequence of names, << >> the root.          *)
(***************************************************************************)
EXTENDS Integers, Sequences, FiniteSets, Functions, SequencesExt, FiniteSetsExt

Folder == [dir |-> TRUE, data |-> << >>]
FileOf(data) == [dir |-> FALSE, data |-> data]

-----------------------------------------------------------------------------
(* The file system.  A call answers [ok, tree]. *)

Done(t)   == [ok |-> TRUE, tree |-> t]
Failed(t) == [ok |-> FALSE, tree |-> t]

Has(t, p)    == p = << >> \/ p \in DOMAIN t
IsFolder(t, p) == p = << >> \/ (p \in DOMAIN t /\ t[p].dir)
IsFile(t, p) == p \in DOMAIN t /\ ~t[p].dir
Inside(t, p) == {q \in DOMAIN t : IsStrictPrefix(p, q)}
Tree(t, p)   == {q \in DOMAIN t : IsPrefix(p, q)}
Drop(t, ps)  == Restrict(t, DOMAIN t \ ps)

CreateDirAll(t, p) ==
    LET above == {SubSeq(p, 1, i) : i \in 1 .. Len(p)}
    IN  IF \E q \in above : IsFile(t, q) THEN Failed(t)
        ELSE Done(t @@ [q \in above |-> Folder])
PutFile(t, p, data) ==
    IF IsFolder(t, p) \/ ~IsFolder(t, Front(p)) THEN Failed(t)
    ELSE Done((p :> FileOf(data)) @@ t)
RenameNode(t, from, to) ==
    LET moved == {to \o SubSeq(q, Len(from) + 1, Len(q)) : q \in Tree(t, from)}
        ok == /\ from \in DOMAIN t /\ IsFolder(t, Front(to)) /\ ~IsStrictPrefix(from, to)
              /\ ~IsStrictPrefix(to, from)
              /\ to \in DOMAIN t => t[to].dir = t[from].dir /\ (from = to \/ Inside(t, to) = {})
    IN  IF ~ok THEN Failed(t)
        ELSE Done([q \in moved |-> t[from \o SubSeq(q, Len(to) + 1, Len(q))]]
                  @@ Drop(t, Tree(t, from)))
RemoveDir(t, p)  == IF IsFolder(t, p) /\ Inside(t, p) = {} THEN Done(Drop(t, {p})) ELSE Failed(t)
RemoveFile(t, p) == IF IsFile(t, p) THEN Done(Drop(t, {p})) ELSE Failed(t)
RemoveDirAll(t, p) == Done(Drop(t, Tree(t, p)))

\* A file copied onto itself is truncated before it is read.
FileCopied(t, from, to) ==
    IF IsFile(t, from) THEN PutFile(t, to, IF from = to THEN << >> ELSE t[from].data) ELSE Failed(t)

\* Runs Second on what First leaves, when First succeeds.
AndThen(first, Second(_)) == IF first.ok THEN Second(first.tree) ELSE first

\* The nodes of t at and below from, carried to to.
Sub(t, from, to) == [q \in {to \o SubSeq(x, Len(from) + 1, Len(x)) : x \in Tree(t, from)} |->
                        t[from \o SubSeq(q, Len(to) + 1, Len(q))]]
\* No file of new meets a directory of t, nor the other way round.
Fits(t, new) == /\ \A q \in DOMAIN new \cap DOMAIN t : new[q].dir = t[q].dir
                /\ \A q \in DOMAIN new : ~\E r \in DOMAIN t : IsStrictPrefix(r, q) /\ ~t[r].dir

-----------------------------------------------------------------------------
(* The methods of the mounted adapters that are one step. *)

LocalWrite(t, p, d) == AndThen(CreateDirAll(t, Front(p)), LAMBDA u : PutFile(u, p, d))
LocalAppend(t, p, d) == PutFile(t, p, IF IsFile(t, p) THEN t[p].data \o d ELSE d)
Overlay(old, off, d) == [i \in 1 .. Max({Len(old), off + Len(d)}) |->
                            IF i > off /\ i <= off + Len(d) THEN d[i - off]
                            ELSE IF i <= Len(old) THEN old[i] ELSE 0]
LocalWriteAt(t, p, off, d) ==
    IF IsFile(t, p) THEN PutFile(t, p, Overlay(t[p].data, off, d)) ELSE Failed(t)
Resized(old, len) == [i \in 1 .. len |-> IF i <= Len(old) THEN old[i] ELSE 0]
LocalTruncate(t, p, len) ==
    IF IsFile(t, p) THEN PutFile(t, p, Resized(t[p].data, len)) ELSE Failed(t)
LocalMkdir(t, p)  == IF Has(t, p) \/ ~IsFolder(t, Front(p)) THEN Failed(t) ELSE Done((p :> Folder) @@ t)
LocalCreateDir(t, p) == CreateDirAll(t, p)
LocalDelete(t, p) == IF ~Has(t, p) THEN Failed(t)
                     ELSE IF IsFolder(t, p) THEN RemoveDir(t, p) ELSE RemoveFile(t, p)
LocalRmRf(t, p)   == IF IsFolder(t, p) THEN RemoveDirAll(t, p) ELSE RemoveFile(t, p)
LocalTouch(t, p)  == IF Has(t, p) THEN Done(t)
                     ELSE AndThen(CreateDirAll(t, Front(p)), LAMBDA u : PutFile(u, p, << >>))

NasWrite(t, p, d)  == AndThen(CreateDirAll(t, Front(p)), LAMBDA u : PutFile(u, p, d))
NasAppend(t, p, d) == AndThen(CreateDirAll(t, Front(p)),
                              LAMBDA u : PutFile(u, p, IF IsFile(u, p) THEN u[p].data \o d ELSE d))
\* The file is opened for reading only: set_len fails.
NasTruncate(t, p, len) == Failed(t)
NasDelete(t, p) == IF IsFolder(t, p) THEN RemoveDirAll(t, p) ELSE RemoveFile(t, p)
NasRmRf(t, p)   == IF ~Has(t, p) THEN Done(t) ELSE NasDelete(t, p)

\* fsxn_storage.rs has the same statements.
FsxnWrite(t, p, d)        == NasWrite(t, p, d)
FsxnAppend(t, p, d)       == NasAppend(t, p, d)
FsxnTruncate(t, p, len)   == NasTruncate(t, p, len)
FsxnDelete(t, p)          == NasDelete(t, p)
FsxnRmRf(t, p)            == NasRmRf(t, p)

-----------------------------------------------------------------------------
(* rename and mv, as the system calls they make one after the other. *)

Sys(do, p, q) == [sys |-> do, p |-> p, q |-> q]
SysResult(t, s) == CASE s.sys = "absent" -> IF Has(t, s.p) THEN Failed(t) ELSE Done(t)
                     [] s.sys = "create_dir_all" -> CreateDirAll(t, s.p)
                     [] s.sys = "rename" -> RenameNode(t, s.p, s.q)

LocalRename(from, to) == <<Sys("create_dir_all", Front(to), << >>), Sys("rename", from, to)>>
\* The options, overwrite among them, are not looked at.
LocalMv(from, to, over) == LocalRename(from, to)
NasRename(from, to) == <<Sys("create_dir_all", Front(to), << >>), Sys("rename", from, to)>>
NasMv(from, to, over) == (IF over THEN << >> ELSE <<Sys("absent", to, << >>)>>) \o NasRename(from, to)
FsxnRename(from, to)   == NasRename(from, to)
FsxnMv(from, to, over) == NasMv(from, to, over)
=============================================================================
