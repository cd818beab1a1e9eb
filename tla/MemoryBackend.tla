---------------------------- MODULE MemoryBackend ----------------------------
(***************************************************************************)
(* crates/diaspor-backend-memory: the in-memory VfsBackend.  The tree is a  *)
(* flat map from path to node behind one RwLock; every method takes the     *)
(* lock for its whole body, so every method is one atomic action.  Handles  *)
(* keep only a PATH and look the node up again on every call, so a handle   *)
(* can outlive the node it was opened on.                                   *)
(*                                                                         *)
(* A VfsPath is the sequence of its segments (root is the empty sequence):  *)
(* "k starts with path + '/'" is then "path is a proper prefix of k".       *)
(***************************************************************************)
EXTENDS Integers, Sequences, FiniteSets

CONSTANTS Name,        \* path segments
          Path,        \* the paths clients use
          Byte, Zero,  \* byte values; Zero is what Vec::resize fills with
          Handle,      \* handle slots of the clients
          Offset,      \* offsets clients write at
          Chunk,       \* byte sequences clients write
          NoNode       \* result of a lookup that finds nothing

Root == <<>>

Parent(p) == SubSeq(p, 1, Len(p) - 1)

ASSUME PathAssumption  == Path \subseteq Seq(Name) /\ Root \in Path
ASSUME ByteAssumption  == Zero \in Byte
ASSUME WriteAssumption == Offset \subseteq Nat /\ Chunk \subseteq Seq(Byte)

Flag == {"CREATE", "EXCL", "TRUNC"}

DirNode  == [kind |-> "dir", data |-> << >>]
FileNode == [kind |-> "file", data |-> << >>]
Node     == [kind : {"dir", "file"}, data : Seq(Byte)]

VARIABLES nodes,    \* the HashMap<VfsPath, Node>
          handles,  \* handle slot -> path, or NoNode when the slot is free
          written,  \* history: offsets written since creation or truncation
          res       \* result of the last call

vars == <<nodes, handles, written, res>>

Outcome == {"Ok", "NotFound", "KindMismatch", "AlreadyExists",
            "PermissionDenied", "InvalidPath", "NotEmpty"}

-----------------------------------------------------------------------------
Exists(p) == p \in DOMAIN nodes
IsDir(p)  == Exists(p) /\ nodes[p].kind = "dir"
IsFile(p) == Exists(p) /\ nodes[p].kind = "file"

\* p is a proper ancestor of k: k.starts_with(p + "/")
Below(p, k) == Len(p) < Len(k) /\ SubSeq(k, 1, Len(p)) = p

\* The keys MemoryBackend::list returns for a directory p.
Children(p) == {k \in DOMAIN nodes :
                  /\ k # Root
                  /\ Below(p, k)
                  /\ Len(k) = Len(p) + 1}

Put(f, p, v) == [q \in DOMAIN f \cup {p} |-> IF q = p THEN v ELSE f[q]]
Drop(f, p)   == [q \in DOMAIN f \ {p} |-> f[q]]

Fail(e) == res' = e /\ UNCHANGED <<nodes, handles, written>>

\* Result of looking up the parent of p, shared by open and create_dir.
ParentError(p) == IF ~Exists(Parent(p)) THEN "NotFound"
                  ELSE IF ~IsDir(Parent(p)) THEN "KindMismatch" ELSE "Ok"

-----------------------------------------------------------------------------
Init == /\ nodes = [p \in {Root} |-> DirNode]
        /\ handles = [h \in Handle |-> NoNode]
        /\ written = [p \in {Root} |-> {}]
        /\ res = "Ok"

\* What MemoryBackend::open answers before it touches the tree.
OpenError(p, flags) ==
    IF p = Root THEN "KindMismatch"
    ELSE IF Exists(p) THEN IF {"CREATE", "EXCL"} \subseteq flags THEN "AlreadyExists"
                           ELSE IF IsFile(p) THEN "Ok" ELSE "KindMismatch"
    ELSE IF "CREATE" \notin flags THEN "NotFound" ELSE ParentError(p)

\* Mutant of OpenedNode: TRUNC is ignored on an existing file.
OpenedNodeKeepsData(p, flags) == IF ~Exists(p) THEN FileNode ELSE nodes[p]

\* The node after a successful open: created when missing, cleared by TRUNC.
OpenedNode(p, flags) ==
    IF ~Exists(p) \/ "TRUNC" \in flags THEN FileNode ELSE nodes[p]

Open(h, p, flags) ==
    /\ handles[h] = NoNode
    /\ OpenError(p, flags) = "Ok"
    /\ nodes' = Put(nodes, p, OpenedNode(p, flags))
    /\ written' = Put(written, p,
                      IF ~Exists(p) \/ "TRUNC" \in flags THEN {} ELSE written[p])
    /\ handles' = [handles EXCEPT ![h] = p]
    /\ res' = "Ok"

\* Mutant of OpenFails: the file is inserted before its parent is looked up.
OpenFailsAfterInsert(p, flags) ==
    /\ OpenError(p, flags) # "Ok"
    /\ res' = OpenError(p, flags)
    /\ nodes' = IF "CREATE" \in flags /\ ~Exists(p)
                THEN Put(nodes, p, FileNode) ELSE nodes
    /\ UNCHANGED <<handles, written>>

OpenFails(p, flags) ==
    OpenError(p, flags) # "Ok" /\ Fail(OpenError(p, flags))

\* MemoryBackend::create_dir: the parent is looked at before the path itself.
CreateDirError(p) ==
    IF p = Root THEN "InvalidPath"
    ELSE IF ParentError(p) # "Ok" THEN ParentError(p)
    ELSE IF Exists(p) THEN "AlreadyExists" ELSE "Ok"

CreateDir(p) ==
    /\ CreateDirError(p) = "Ok"
    /\ nodes' = Put(nodes, p, DirNode)
    /\ written' = Put(written, p, {})
    /\ res' = "Ok"
    /\ UNCHANGED handles

CreateDirFails(p) == CreateDirError(p) # "Ok" /\ Fail(CreateDirError(p))

RemoveError(p) ==
    IF p = Root THEN "PermissionDenied"
    ELSE IF ~Exists(p) THEN "NotFound"
    ELSE IF IsDir(p) /\ \E k \in DOMAIN nodes : Below(p, k) THEN "NotEmpty"
    ELSE "Ok"

\* Open handles on p are not closed: they are found stale on their next call.
Remove(p) ==
    /\ RemoveError(p) = "Ok"
    /\ nodes' = Drop(nodes, p)
    /\ written' = Drop(written, p)
    /\ res' = "Ok"
    /\ UNCHANGED handles

RemoveFails(p) == RemoveError(p) # "Ok" /\ Fail(RemoveError(p))

-----------------------------------------------------------------------------
\* MemoryHandle methods: each call looks handles[h] up in the map again.
HandleError(h) == IF ~Exists(handles[h]) THEN "NotFound"
                  ELSE IF ~IsFile(handles[h]) THEN "KindMismatch" ELSE "Ok"

\* Vec::resize(needed, 0) followed by copy_from_slice.
Splice(data, off, chunk) ==
    LET needed == off + Len(chunk)
        size   == IF needed > Len(data) THEN needed ELSE Len(data)
    IN  [i \in 1 .. size |->
            IF off < i /\ i <= needed THEN chunk[i - off]
            ELSE IF i <= Len(data) THEN data[i] ELSE Zero]

Write(h, off, chunk) ==
    /\ handles[h] # NoNode
    /\ HandleError(h) = "Ok"
    /\ nodes' = [nodes EXCEPT ![handles[h]].data = Splice(@, off, chunk)]
    /\ written' = [written EXCEPT ![handles[h]] = @ \cup (off + 1 .. off + Len(chunk))]
    /\ res' = "Ok"
    /\ UNCHANGED handles

\* read and write fail alike on a handle whose path no longer names a file.
StaleCall(h) ==
    /\ handles[h] # NoNode
    /\ HandleError(h) # "Ok"
    /\ Fail(HandleError(h))

\* The client drops the handle; nothing happens to the node.
DropHandle(h) ==
    /\ handles[h] # NoNode
    /\ handles' = [handles EXCEPT ![h] = NoNode]
    /\ UNCHANGED <<nodes, written, res>>

Next ==
    \/ \E h \in Handle, p \in Path, flags \in SUBSET Flag : Open(h, p, flags)
    \/ \E p \in Path, flags \in SUBSET Flag : OpenFails(p, flags)
    \/ \E p \in Path : CreateDir(p) \/ CreateDirFails(p)
    \/ \E p \in Path : Remove(p) \/ RemoveFails(p)
    \/ \E h \in Handle, off \in Offset, chunk \in Chunk : Write(h, off, chunk)
    \/ \E h \in Handle : StaleCall(h) \/ DropHandle(h)

Spec == Init /\ [][Next]_vars

-----------------------------------------------------------------------------
(* Type invariant: the map, the handle slots and the history are well typed. *)
TypeOK ==
    /\ DOMAIN nodes \subseteq Path
    /\ nodes \in [DOMAIN nodes -> Node]
    /\ handles \in [Handle -> Path \cup {NoNode}]
    /\ DOMAIN written = DOMAIN nodes
    /\ written \in [DOMAIN nodes -> SUBSET Nat]
    /\ res \in Outcome

(* The flat map is always a tree: the root directory is there and every      *)
(* other node hangs under an existing directory.  No order of open(CREATE),  *)
(* create_dir and remove leaves an orphan (lib.rs 159-258).                  *)
TreeOK ==
    /\ IsDir(Root)
    /\ \A p \in DOMAIN nodes : p # Root => IsDir(Parent(p))

\* Type invariant and tree together: the inductive invariant of the backend.
BackendOK == TypeOK /\ TreeOK

(* list finds every node exactly once: each non-root node is listed by one   *)
(* directory, its parent, and directories hold no data (list, 123-157).      *)
ListFindsAll ==
    /\ \A p \in DOMAIN nodes \ {Root} :
          {q \in DOMAIN nodes : IsDir(q) /\ p \in Children(q)} = {Parent(p)}
    /\ \A p \in DOMAIN nodes : IsDir(p) => nodes[p].data = << >>

(* A byte no client wrote since the file was created or truncated reads as   *)
(* zero: neither a sparse write, nor TRUNC, nor remove + create under a      *)
(* handle that is still open, brings old contents back (resize, 309-313).    *)
UnwrittenIsZero ==
    \A p \in DOMAIN nodes : \A i \in 1 .. Len(nodes[p].data) :
        i \notin written[p] => nodes[p].data[i] = Zero

(* What clients see: list finds every node once, and no read returns bytes    *)
(* that nobody wrote.                                                        *)
ContentsOK == ListFindsAll /\ UnwrittenIsZero

(* The map is a tree whatever handles outlived their nodes, and clients see   *)
(* exactly what is in it (lib.rs 123-330).                                   *)
BackendSafe == BackendOK /\ ContentsOK

(* A path never changes kind in place, and handle calls, stale or not, never *)
(* bring a removed path back: it takes open or create_dir under a live       *)
(* parent.                                                                  *)
KindStable ==
    [][/\ \A p \in DOMAIN nodes \cap DOMAIN nodes' : nodes[p].kind = nodes'[p].kind
       /\ \A p \in DOMAIN nodes' \ DOMAIN nodes : p # Root /\ IsDir(Parent(p))]_vars

(* A call that answers with an error leaves the tree and every file as they  *)
(* were: no half-done open or create_dir.                                   *)
FailureChangesNothing == [][res' # "Ok" => nodes' = nodes]_vars

(* What one call may do to the tree, with handles that outlived their nodes.   *)
CallsSound == KindStable /\ FailureChangesNothing
=============================================================================
