---------------------------- MODULE MountedStorage ----------------------------
(***************************************************************************)
(* vfs/adapters/{local,nas,fsxn}_storage.rs: the storage adapters over a      *)
(* mounted file system.  Most methods are one system call after their tests    *)
(* and an atomic step (FileTree).  A copy is a step per test and per change, a   *)
(* rename or a mv a step per system call: other calls run in between and any    *)
(* step may fail.  The local adapter walks the whole tree first, the other two  *)
(* list a directory when they reach it.                                        *)
(***************************************************************************)
EXTENDS FileTree

CONSTANTS MountPath,    \* paths callers name; a name is [base, copy]
          MountTree,    \* trees the mount may hold at first
          CopyLimit,    \* copies of one file before copy gives up (100 in the code)
          MaxMountCalls \* bound on the calls beside the running copy

ASSUME CopyLimitAssumption == CopyLimit \in Nat \ {0} /\ MaxMountCalls \in Nat

VARIABLES mount,   \* the adapter: "local", "nas", "fsxn"
          tree,    \* path -> node, without the root
          copying, \* the copy that runs
          others   \* calls made beside it so far

mountVars == <<mount, tree, copying, others>>

OnMount(local, nas, fsxn) ==
    CASE mount = "local" -> local [] mount = "nas" -> nas [] mount = "fsxn" -> fsxn

-----------------------------------------------------------------------------
(* copy.  A step of it is [do, q], q being an entry of the source. *)

Idling == [active |-> FALSE, from |-> << >>, to |-> << >>, over |-> FALSE, rec |-> FALSE, todo |-> << >>,
           start |-> << >>, seen |-> {}, missed |-> {}, clean |-> TRUE, res |-> "none"]

\* The first free name among "x copy", "x copy 2", ...
UniqueNames(t, p) ==
    {k \in 1 .. CopyLimit : Front(p) \o <<[Last(p) EXCEPT !.copy = k]>> \notin DOMAIN t}
UniqueName(t, p) == Front(p) \o <<[Last(p) EXCEPT !.copy = Min(UniqueNames(t, p))]>>

\* Entries below p in an order in which a directory comes before its content.
\* The walk drops the entries it cannot read, and what is below them.
Unread(t, bad) == UNION {Tree(t, q) : q \in bad}
Walk(t, p, bad) == SetToSortSeq(Inside(t, p) \ Unread(t, bad), LAMBDA q, r : Len(q) < Len(r))
Children(t, p) == SetToSeq({q \in Inside(t, p) : Len(q) = Len(p) + 1})

Step(do, q) == [do |-> do, q |-> q]
Steps(do, qs) == [i \in DOMAIN qs |-> Step(do, qs[i])]
FilesOf(t) == {q \in DOMAIN t : IsFile(t, q)}

\* The call: what is tested before its first await.
Begun(from, to, over, rec, refused) ==
    LET call == [Idling EXCEPT !.from = from, !.to = to, !.over = over, !.rec = rec, !.start = tree]
    IN  copying' = IF refused THEN [call EXCEPT !.res = "Err"]
                   ELSE [call EXCEPT !.active = TRUE, !.seen = IF mount = "local" THEN {} ELSE FilesOf(tree),
                                     !.todo = <<Step("parents", from), Step("kind", from)>>]
\* A copy to its own path goes to a new name; into itself it is refused.
LocalCopyTo(from, to, over) == Begun(from, to, over, TRUE, IsStrictPrefix(from, to) /\ IsFolder(tree, from))
LocalCopy(from, to, over) ==
    IF from # to THEN LocalCopyTo(from, to, over)
    ELSE IF UniqueNames(tree, to) = {} THEN Begun(from, to, over, TRUE, TRUE)
    ELSE LocalCopyTo(from, UniqueName(tree, to), over)
NasCopy(from, to, over, rec)  == Begun(from, to, over, rec, Has(tree, to) /\ ~over)
FsxnCopy(from, to, over, rec) == NasCopy(from, to, over, rec)

Copy(from, to, over, rec) ==
    /\ ~copying.active /\ copying.res = "none"
    /\ OnMount(LocalCopy(from, to, over), NasCopy(from, to, over, rec), FsxnCopy(from, to, over, rec))
    /\ UNCHANGED <<mount, tree, others>>

Target(q) == copying.to \o SubSeq(q, Len(copying.from) + 1, Len(q))
\* The step at the head is done: r is what it did, more what it has decided.
Go(r, more) ==
    /\ tree' = r.tree
    /\ copying' = IF r.ok THEN [copying EXCEPT !.todo = more \o Tail(@)]
                  ELSE [copying EXCEPT !.active = FALSE, !.todo = << >>, !.res = "Err"]
Decided(ok, more) == Go(IF ok THEN Done(tree) ELSE Failed(tree), more)

\* File or directory?
LocalKind == Decided(TRUE, IF IsFolder(tree, copying.from)
                             THEN <<Step("toDir", copying.from), Step("walk", copying.from)>>
                           ELSE <<Step("check", copying.from), Step("copy", copying.from)>>)
NasKind == Decided(Has(tree, copying.from) /\ (IsFolder(tree, copying.from) => copying.rec),
                   <<Step("entry", copying.from)>>)
\* The destination directory: an existing one is only merged into with overwrite.
LocalToDir == Decided(Has(tree, copying.to) => copying.over,
                      IF Has(tree, copying.to) THEN << >> ELSE <<Step("mkdir", copying.from)>>)
\* At most one entry cannot be read.
LocalWalk ==
    \E bad \in {{}} \cup {{q} : q \in Inside(tree, copying.from)} :
       /\ copying' = [copying EXCEPT !.todo = Steps("entry", Walk(tree, copying.from, bad)) \o Tail(@),
                                     !.missed = Unread(tree, bad)]
       /\ UNCHANGED tree

LocalCopyEntry(q) ==
    Decided(TRUE, IF IsFolder(tree, q) THEN IF Has(tree, Target(q)) THEN << >> ELSE <<Step("mkdir", q)>>
                  ELSE (IF Has(tree, Front(Target(q))) THEN << >> ELSE <<Step("parents", q)>>)
                       \o <<Step("check", q), Step("copy", q)>>)
\* Without overwrite an existing file is skipped, or refused when it is the call's.
LocalCheck(q) ==
    IF Has(tree, Target(q)) /\ ~copying.over
      THEN IF q = copying.from THEN Decided(FALSE, << >>)
           ELSE copying' = [copying EXCEPT !.todo = Tail(Tail(@))] /\ UNCHANGED tree
    ELSE copying' = [copying EXCEPT !.todo = Tail(@), !.seen = FilesOf(tree)] /\ UNCHANGED tree

\* Mutant of NasCopyEntry: subdirectories are created and not entered.
NasCopyEntryFlat(q) ==
    Decided(TRUE, IF ~IsFolder(tree, q) THEN <<Step("copy", q)>>
                  ELSE IF q # copying.from THEN <<Step("mkdir", q)>>
                  ELSE <<Step("mkdir", q), Step("list", q)>>)
NasCopyEntry(q) ==
    Decided(TRUE, IF IsFolder(tree, q) THEN <<Step("mkdir", q), Step("list", q)>> ELSE <<Step("copy", q)>>)
FsxnCopyEntry(q) == NasCopyEntry(q)
NasList(q) == Decided(IsFolder(tree, q), Steps("entry", Children(tree, q)))

CopyStep ==
    /\ copying.active
    /\ IF copying.todo = << >>
         THEN copying' = [copying EXCEPT !.active = FALSE, !.res = "Ok"] /\ UNCHANGED tree
       ELSE LET do == Head(copying.todo).do
                q == Head(copying.todo).q
            IN  \/ do = "parents" /\ Go(CreateDirAll(tree, Front(Target(q))), << >>)
                \/ do = "kind" /\ OnMount(LocalKind, NasKind, NasKind)
                \/ do = "toDir" /\ LocalToDir
                \/ do = "mkdir" /\ Go(CreateDirAll(tree, Target(q)), << >>)
                \/ do = "walk" /\ LocalWalk
                \/ do = "list" /\ NasList(q)
                \/ do = "entry" /\ OnMount(LocalCopyEntry(q), NasCopyEntry(q), FsxnCopyEntry(q))
                \/ do = "check" /\ LocalCheck(q)
                \/ do = "copy" /\ Go(FileCopied(tree, q, Target(q)), << >>)
    /\ UNCHANGED <<mount, others>>

CopyFails == /\ copying.active
             /\ copying' = [copying EXCEPT !.active = FALSE, !.todo = << >>, !.res = "Err"]
             /\ UNCHANGED <<mount, tree, others>>

-----------------------------------------------------------------------------
NoOther == [count |-> 0, op |-> "none", over |-> TRUE, todo |-> << >>, seen |-> {}]
MountInit == /\ mount \in {"local", "nas", "fsxn"}
             /\ tree \in MountTree
             /\ copying = Idling
             /\ others = NoOther

Other(op, over, r) ==
    /\ others.count < MaxMountCalls /\ others.todo = << >>
    /\ others' = [NoOther EXCEPT !.count = others.count + 1, !.op = op, !.over = over]
    /\ tree' = r.tree
    /\ copying' = [copying EXCEPT !.clean = FALSE]
    /\ UNCHANGED mount

\* A rename or a mv: its system calls, until one fails.
OtherSys(op, over, sys) ==
    /\ others.count < MaxMountCalls /\ others.todo = << >>
    /\ others' = [NoOther EXCEPT !.count = others.count + 1, !.op = op, !.over = over, !.todo = sys]
    /\ UNCHANGED <<mount, tree, copying>>
OtherStep ==
    /\ others.todo # << >>
    /\ LET s == Head(others.todo)
           r == SysResult(tree, s)
       IN  /\ tree' = r.tree
           /\ others' = [others EXCEPT !.todo = IF r.ok THEN Tail(@) ELSE << >>,
                                       !.seen = IF s.sys = "absent" THEN FilesOf(tree) ELSE @]
    /\ copying' = [copying EXCEPT !.clean = FALSE]
    /\ UNCHANGED mount

\* Data written by callers: one byte.
New == <<9>>
OtherCall ==
    \/ \E p \in MountPath :
         \/ Other("write", TRUE, OnMount(LocalWrite(tree, p, New), NasWrite(tree, p, New), FsxnWrite(tree, p, New)))
         \/ Other("append", TRUE, OnMount(LocalAppend(tree, p, New), NasAppend(tree, p, New), FsxnAppend(tree, p, New)))
         \/ Other("write_at", TRUE, LocalWriteAt(tree, p, 1, New))
         \/ Other("truncate", TRUE, OnMount(LocalTruncate(tree, p, 0), NasTruncate(tree, p, 0), FsxnTruncate(tree, p, 0)))
         \/ Other("mkdir", TRUE, LocalMkdir(tree, p))
         \/ Other("mkdir_p", TRUE, LocalCreateDir(tree, p))
         \/ Other("delete", TRUE, OnMount(LocalDelete(tree, p), NasDelete(tree, p), FsxnDelete(tree, p)))
         \/ Other("rm", TRUE, RemoveFile(tree, p))
         \/ Other("rmdir", TRUE, RemoveDir(tree, p))
         \/ Other("rm_rf", TRUE, OnMount(LocalRmRf(tree, p), NasRmRf(tree, p), FsxnRmRf(tree, p)))
         \/ Other("touch", TRUE, LocalTouch(tree, p))
    \/ \E p, q \in MountPath :
         \/ OtherSys("rename", TRUE, OnMount(LocalRename(p, q), NasRename(p, q), FsxnRename(p, q)))
         \/ \E over \in BOOLEAN :
              OtherSys("mv", over, OnMount(LocalMv(p, q, over), NasMv(p, q, over), FsxnMv(p, q, over)))
    \/ OtherStep

\* The other two adapters would copy a directory into itself without end.
MountNext ==
    \/ \E from, to \in MountPath, over, rec \in BOOLEAN :
          /\ mount # "local" => ~IsStrictPrefix(from, to)
          /\ Copy(from, to, over, rec)
    \/ CopyStep \/ CopyFails \/ OtherCall

MountSpec == MountInit /\ [][MountNext]_mountVars

-----------------------------------------------------------------------------
(* Type invariant: the nodes form a tree, every parent is a directory.        *)
MountTypeOK ==
    /\ \A p \in DOMAIN tree : /\ p # << >> /\ IsFolder(tree, Front(p))
                              /\ tree[p].dir => tree[p].data = << >>
    /\ others.count \in 0 .. MaxMountCalls

ByCopy == others' = others
\* What a copy has to leave alone: all but the tree it copies to.
Untouched(to) == \A q \in DOMAIN tree : ~IsPrefix(to, q) => q \in DOMAIN tree' /\ tree'[q] = tree[q]

(* However its steps interleave with other calls, a copy changes nothing that   *)
(* existed outside its destination: the source least of all.  A local copy onto *)
(* itself goes to a name that was free (523-560).                              *)
CopyTouchesOnlyTarget == [][ByCopy => Untouched(copying'.to)]_mountVars

(* "overwrite: false": a copy, and a mv of the NAS and FSx adapters, replace no  *)
(* file that was there when the destination was last tested.  The test and the   *)
(* change are two system calls (local_storage.rs 149-153, nas_storage.rs 515-523):  *)
(* a file that another call puts there in between is replaced.                    *)
KeepsFiles ==
    [][/\ ByCopy /\ ~copying.over =>
            \A q \in copying.seen : IsFile(tree, q) => q \in DOMAIN tree' /\ tree'[q] = tree[q]
       /\ ~ByCopy /\ others.todo # << >> /\ others.op = "mv" /\ ~others.over /\ mount # "local" =>
            \A q \in others.seen : IsFile(tree, q) => \E r \in DOMAIN tree' : tree'[r] = tree[q]]_mountVars

(* A copy that answers Ok and met no other call has put every file of the source *)
(* at its place, with its content, except for what the walk of the local adapter  *)
(* could not read: it drops those entries and still answers Ok (local_storage.rs   *)
(* 114-117).  The NAS and FSx adapters answer Err there, and empty the files of a   *)
(* directory that is copied onto itself.                                          *)
CopyComplete ==
    [][copying.active /\ copying'.res = "Ok" /\ copying.clean /\ copying.from # copying.to
       => \A q \in Tree(copying.start, copying.from) \ copying.missed : IsFile(copying.start, q) =>
             Target(q) \in DOMAIN tree /\ tree[Target(q)] = copying.start[q]]_mountVars

(* A copy between mounted places does what it was asked and nothing else.       *)
CopiesSafe == []MountTypeOK /\ CopyTouchesOnlyTarget /\ KeepsFiles /\ CopyComplete
=============================================================================
