------------------------ MODULE MemoryBackendProofs ------------------------
(***************************************************************************)
(* Proofs about MemoryBackend, for every set of paths, handles and bytes.   *)
(***************************************************************************)
EXTENDS MemoryBackend, SequenceTheorems, TLAPS

(* Splicing a chunk into the data of a file, as MemoryHandle::write does,    *)
(* yields a byte sequence again.                                            *)
LEMMA SpliceType ==
    ASSUME NEW data \in Seq(Byte), NEW off \in Nat, NEW chunk \in Seq(Byte)
    PROVE  Splice(data, off, chunk) \in Seq(Byte)
<1> DEFINE needed == off + Len(chunk)
           size   == IF needed > Len(data) THEN needed ELSE Len(data)
           f      == [i \in 1 .. size |->
                        IF off < i /\ i <= needed THEN chunk[i - off]
                        ELSE IF i <= Len(data) THEN data[i] ELSE Zero]
<1>1. size \in Nat
  OBVIOUS
<1>2. ASSUME NEW i \in 1 .. size PROVE f[i] \in Byte
  <2>1. CASE off < i /\ i <= needed
    <3>1. i - off \in 1 .. Len(chunk)
      BY <2>1
    <3> QED BY <2>1, <3>1
  <2>2. CASE ~(off < i /\ i <= needed) /\ i <= Len(data)
    <3>1. i \in 1 .. Len(data)
      BY <2>2
    <3> QED BY <2>2, <3>1
  <2>3. CASE ~(off < i /\ i <= needed) /\ ~(i <= Len(data))
    BY <2>3, ByteAssumption
  <2> QED BY <2>1, <2>2, <2>3
<1>3. f \in [1 .. size -> Byte]
  BY <1>2
<1>4. f \in Seq(Byte)
  BY <1>1, <1>3
<1> QED BY <1>4 DEF Splice

(* TypeOK is inductive: every method keeps the map, the handle slots and the *)
(* write history well typed.                                                *)
THEOREM TypeCorrect == Spec => []TypeOK
<1>1. Init => TypeOK
  BY PathAssumption DEF Init, TypeOK, DirNode, Node, Outcome, Root
<1>2. TypeOK /\ [Next]_vars => TypeOK'
  <2> SUFFICES ASSUME TypeOK, [Next]_vars PROVE TypeOK'
    OBVIOUS
  <2> USE DEF TypeOK
  <2>1. ASSUME NEW h \in Handle, NEW p \in Path, NEW flags \in SUBSET Flag,
               Open(h, p, flags)
        PROVE  TypeOK'
    <3>1. OpenedNode(p, flags) \in Node
      BY DEF OpenedNode, FileNode, Node, Exists
    <3>2. DOMAIN nodes' = DOMAIN nodes \cup {p} /\ DOMAIN written' = DOMAIN written \cup {p}
      BY <2>1 DEF Open, Put
    <3>3. nodes' \in [DOMAIN nodes' -> Node]
      BY <2>1, <3>1 DEF Open, Put
    <3>4. written' \in [DOMAIN nodes' -> SUBSET Nat]
      BY <2>1, <3>2 DEF Open, Put, Exists
    <3> QED BY <2>1, <3>2, <3>3, <3>4 DEF Open, Outcome
  <2>2. ASSUME NEW p \in Path, NEW flags \in SUBSET Flag, OpenFails(p, flags)
        PROVE  TypeOK'
    BY <2>2 DEF OpenFails, Fail, OpenError, ParentError, Outcome
  <2>3. ASSUME NEW p \in Path, CreateDir(p) PROVE TypeOK'
    <3>1. DOMAIN nodes' = DOMAIN nodes \cup {p} /\ DOMAIN written' = DOMAIN written \cup {p}
      BY <2>3 DEF CreateDir, Put
    <3>2. nodes' \in [DOMAIN nodes' -> Node]
      BY <2>3 DEF CreateDir, Put, DirNode, Node
    <3>3. written' \in [DOMAIN nodes' -> SUBSET Nat]
      BY <2>3, <3>1 DEF CreateDir, Put
    <3> QED BY <2>3, <3>1, <3>2, <3>3 DEF CreateDir, Outcome
  <2>4. ASSUME NEW p \in Path, CreateDirFails(p) PROVE TypeOK'
    BY <2>4 DEF CreateDirFails, Fail, CreateDirError, ParentError, Outcome
  <2>5. ASSUME NEW p \in Path, Remove(p) PROVE TypeOK'
    BY <2>5 DEF Remove, Drop, Outcome
  <2>6. ASSUME NEW p \in Path, RemoveFails(p) PROVE TypeOK'
    BY <2>6 DEF RemoveFails, Fail, RemoveError, Outcome
  <2>7. ASSUME NEW h \in Handle, NEW off \in Offset, NEW chunk \in Chunk,
               Write(h, off, chunk)
        PROVE  TypeOK'
    <3>1. handles[h] \in DOMAIN nodes
      BY <2>7 DEF Write, HandleError, Exists
    <3>2. Splice(nodes[handles[h]].data, off, chunk) \in Seq(Byte)
      BY <3>1, SpliceType, WriteAssumption DEF Node
    <3>3. nodes' \in [DOMAIN nodes -> Node]
      BY <2>7, <3>1, <3>2 DEF Write, Node
    <3>4. off + 1 .. off + Len(chunk) \subseteq Nat
      BY WriteAssumption
    <3>5. written' \in [DOMAIN nodes -> SUBSET Nat]
      BY <2>7, <3>1, <3>4 DEF Write
    <3> QED BY <2>7, <3>3, <3>5 DEF Write, Outcome
  <2>8. ASSUME NEW h \in Handle, StaleCall(h) PROVE TypeOK'
    BY <2>8 DEF StaleCall, Fail, HandleError, Outcome
  <2>9. ASSUME NEW h \in Handle, DropHandle(h) PROVE TypeOK'
    BY <2>9 DEF DropHandle
  <2>10. CASE UNCHANGED vars
    BY <2>10 DEF vars
  <2> QED BY <2>1, <2>2, <2>3, <2>4, <2>5, <2>6, <2>7, <2>8, <2>9, <2>10 DEF Next
<1> QED BY <1>1, <1>2, PTL DEF Spec

-----------------------------------------------------------------------------
(* A directory is only removed when no key lies below it, so its children    *)
(* cannot be orphaned: the parent of a key lies directly above the key.      *)
LEMMA ParentAbove ==
    ASSUME NEW k \in Seq(Name), k # Root
    PROVE  Below(Parent(k), k) /\ Parent(k) \in Seq(Name)
<1>1. Len(k) \in Nat /\ Len(k) > 0
  BY DEF Root
<1>2. Parent(k) \in Seq(Name) /\ Len(Parent(k)) = Len(k) - 1
  <2> DEFINE m == Len(k) - 1
  <2>1. m \in Int /\ 1 \in Int /\ \A i \in 1 .. m : k[i] \in Name
    BY <1>1
  <2>2. SubSeq(k, 1, m) \in Seq(Name) /\ Len(SubSeq(k, 1, m)) = IF 1 <= m THEN m - 1 + 1 ELSE 0
    <3> HIDE DEF m
    <3> QED BY <2>1, SubSeqProperties
  <2>3. Parent(k) = SubSeq(k, 1, m)
    BY DEF Parent
  <2>4. m = Len(k) - 1 /\ m >= 0
    BY <1>1
  <2> HIDE DEF m
  <2> QED BY <2>1, <2>2, <2>3, <2>4
<1>3. SubSeq(k, 1, Len(Parent(k))) = Parent(k)
  BY <1>2 DEF Parent
<1> QED BY <1>1, <1>2, <1>3 DEF Below

(* The flat map of MemoryBackend is a tree in every reachable state: no      *)
(* interleaving of open, create_dir, remove and stale handle calls orphans a *)
(* node or removes the root.                                                *)
THEOREM TreeCorrect == Spec => []TreeOK
<1> DEFINE IInv == TypeOK /\ TreeOK
<1>1. Init => TreeOK
  BY DEF Init, TreeOK, IsDir, Exists, DirNode, Root
<1>2. IInv /\ [Next]_vars => TreeOK'
  <2> SUFFICES ASSUME IInv, [Next]_vars PROVE TreeOK'
    OBVIOUS
  <2>1. ASSUME NEW h \in Handle, NEW p \in Path, NEW flags \in SUBSET Flag,
               Open(h, p, flags)
        PROVE  TreeOK'
    <3>1. p # Root
      BY <2>1 DEF Open, OpenError
    <3>2. p \in DOMAIN nodes \/ IsDir(Parent(p))
      BY <2>1 DEF Open, OpenError, ParentError, Exists
    <3>3. p \in DOMAIN nodes => nodes[p].kind = "file"
      BY <2>1, <3>1 DEF Open, OpenError, Exists, IsFile
    <3>4. OpenedNode(p, flags).kind = "file"
      BY <3>3 DEF OpenedNode, FileNode, Exists
    <3>5. \A q : IsDir(q) => IsDir(q)'
      BY <2>1, <3>3 DEF Open, IsDir, Exists, Put
    <3>6. DOMAIN nodes' = DOMAIN nodes \cup {p}
      BY <2>1 DEF Open, Put
    <3> QED BY <3>2, <3>5, <3>6 DEF TreeOK
  <2>2. ASSUME NEW p \in Path, CreateDir(p) PROVE TreeOK'
    <3>1. IsDir(Parent(p)) /\ p \notin DOMAIN nodes
      BY <2>2 DEF CreateDir, CreateDirError, ParentError, Exists
    <3>2. \A q : IsDir(q) => IsDir(q)'
      BY <2>2, <3>1 DEF CreateDir, IsDir, Exists, Put
    <3>3. DOMAIN nodes' = DOMAIN nodes \cup {p}
      BY <2>2 DEF CreateDir, Put
    <3> QED BY <3>1, <3>2, <3>3 DEF TreeOK
  <2>3. ASSUME NEW p \in Path, Remove(p) PROVE TreeOK'
    <3>1. p # Root
      BY <2>3 DEF Remove, RemoveError
    <3>2. IsDir(p) => ~ \E k \in DOMAIN nodes : Below(p, k)
      BY <2>3 DEF Remove, RemoveError
    <3>3. nodes' = [q \in DOMAIN nodes \ {p} |-> nodes[q]]
      BY <2>3 DEF Remove, Drop
    <3>4. \A q : q # p /\ IsDir(q) => IsDir(q)'
      BY <3>3 DEF IsDir, Exists
    <3>5. ASSUME NEW k \in DOMAIN nodes', k # Root PROVE IsDir(Parent(k))'
      <4>1. k \in DOMAIN nodes /\ IsDir(Parent(k))
        BY <3>3, <3>5 DEF TreeOK
      <4>2. Below(Parent(k), k)
        BY <4>1, <3>5, ParentAbove, PathAssumption DEF TypeOK
      <4>3. Parent(k) # p
        BY <4>1, <4>2, <3>2
      <4> QED BY <4>1, <4>3, <3>4
    <3> QED BY <3>1, <3>4, <3>5 DEF TreeOK
  <2>4. ASSUME NEW h \in Handle, NEW off \in Offset, NEW chunk \in Chunk,
               Write(h, off, chunk)
        PROVE  TreeOK'
    <3>1. DOMAIN nodes' = DOMAIN nodes
      BY <2>4 DEF Write
    <3>2. \A q \in DOMAIN nodes : nodes'[q].kind = nodes[q].kind
      BY <2>4 DEF Write, TypeOK, Node
    <3>3. \A q : IsDir(q)' <=> IsDir(q)
      BY <3>1, <3>2 DEF IsDir, Exists
    <3> QED BY <3>1, <3>3 DEF TreeOK
  <2>5. CASE UNCHANGED nodes
    BY <2>5 DEF TreeOK, IsDir, Exists
  <2>6. ASSUME NEW p \in Path, NEW flags \in SUBSET Flag, OpenFails(p, flags)
        PROVE  UNCHANGED nodes
    BY <2>6 DEF OpenFails, Fail
  <2>7. ASSUME NEW p \in Path, CreateDirFails(p) \/ RemoveFails(p)
        PROVE  UNCHANGED nodes
    BY <2>7 DEF CreateDirFails, RemoveFails, Fail
  <2>8. ASSUME NEW h \in Handle, StaleCall(h) \/ DropHandle(h)
        PROVE  UNCHANGED nodes
    BY <2>8 DEF StaleCall, DropHandle, Fail
  <2>9. UNCHANGED vars => UNCHANGED nodes
    BY DEF vars
  <2> QED BY <2>1, <2>2, <2>3, <2>4, <2>5, <2>6, <2>7, <2>8, <2>9 DEF Next
<1> QED BY <1>1, <1>2, TypeCorrect, PTL DEF Spec

(* Together: the flat map is well typed and always a tree.                    *)
THEOREM BackendCorrect == Spec => []BackendOK
<1>1. TypeOK /\ TreeOK => BackendOK
  BY DEF BackendOK
<1> QED BY <1>1, TypeCorrect, TreeCorrect, PTL

(* A failing call changes nothing, no path changes its kind, and a path comes   *)
(* into being only under a live directory.                                    *)
THEOREM CallsCorrect == Spec => CallsSound
<1> DEFINE Kinds == /\ \A p \in DOMAIN nodes \cap DOMAIN nodes' : nodes[p].kind = nodes'[p].kind
                    /\ \A p \in DOMAIN nodes' \ DOMAIN nodes : p # Root /\ IsDir(Parent(p))
<1>1. BackendOK /\ [Next]_vars => [Kinds]_vars
  <2> SUFFICES ASSUME TypeOK, TreeOK, Next PROVE Kinds
    BY DEF BackendOK, vars
  <2>1. CASE UNCHANGED nodes
    BY <2>1
  <2>2. ASSUME NEW h \in Handle, NEW p \in Path, NEW flags \in SUBSET Flag, Open(h, p, flags)
        PROVE  Kinds
    BY <2>2 DEF Open, OpenError, ParentError, OpenedNode, FileNode, Put, IsFile, IsDir, Exists
  <2>3. ASSUME NEW p \in Path, CreateDir(p) PROVE Kinds
    BY <2>3 DEF CreateDir, CreateDirError, ParentError, Put, IsDir, Exists
  <2>4. ASSUME NEW p \in Path, Remove(p) PROVE Kinds
    BY <2>4 DEF Remove, Drop
  <2>5. ASSUME NEW h \in Handle, NEW off \in Offset, NEW chunk \in Chunk, Write(h, off, chunk)
        PROVE  Kinds
    BY <2>5 DEF Write, TypeOK, Node
  <2>6. ASSUME NEW p \in Path, NEW flags \in SUBSET Flag, OpenFails(p, flags)
        PROVE  UNCHANGED nodes
    BY <2>6 DEF OpenFails, Fail
  <2>7. ASSUME NEW p \in Path, CreateDirFails(p) \/ RemoveFails(p)
        PROVE  UNCHANGED nodes
    BY <2>7 DEF CreateDirFails, RemoveFails, Fail
  <2>8. ASSUME NEW h \in Handle, StaleCall(h) \/ DropHandle(h)
        PROVE  UNCHANGED nodes
    BY <2>8 DEF StaleCall, DropHandle, Fail
  <2> HIDE DEF Kinds
  <2> QED BY <2>1, <2>2, <2>3, <2>4, <2>5, <2>6, <2>7, <2>8 DEF Next
<1>2. [Next]_vars => [res' # "Ok" => nodes' = nodes]_vars
  BY DEF Next, Open, OpenFails, CreateDir, CreateDirFails, Remove, RemoveFails, Write, StaleCall,
         DropHandle, Fail, vars
<1> QED BY <1>1, <1>2, BackendCorrect, PTL DEF Spec, CallsSound, KindStable, FailureChangesNothing
-----------------------------------------------------------------------------
(* What a splice holds: the chunk where it was written, the old bytes around  *)
(* it, zeros between the old end and the offset.                             *)
LEMMA SpliceContents ==
    ASSUME NEW data \in Seq(Byte), NEW off \in Nat, NEW chunk \in Seq(Byte),
           NEW i \in 1 .. Len(Splice(data, off, chunk)),
           i \notin off + 1 .. off + Len(chunk)
    PROVE  /\ i \in 1 .. Len(data) => Splice(data, off, chunk)[i] = data[i]
           /\ i \notin 1 .. Len(data) => Splice(data, off, chunk)[i] = Zero
<1> DEFINE needed == off + Len(chunk)
           size   == IF needed > Len(data) THEN needed ELSE Len(data)
           f      == [j \in 1 .. size |->
                        IF off < j /\ j <= needed THEN chunk[j - off]
                        ELSE IF j <= Len(data) THEN data[j] ELSE Zero]
<1>1. Len(data) \in Nat /\ needed \in Nat /\ size \in Nat
  OBVIOUS
<1>2. Splice(data, off, chunk) = f
  BY DEF Splice
<1>3. Splice(data, off, chunk) \in Seq(Byte)
  BY SpliceType
<1>4. DOMAIN f = 1 .. size
  OBVIOUS
<1>5. i \in 1 .. size
  BY <1>2, <1>3, <1>4
<1>6. i \in Int /\ ~(off < i /\ i <= needed)
  BY <1>5, <1>1
<1>7. f[i] = IF i <= Len(data) THEN data[i] ELSE Zero
  BY <1>5, <1>6
<1>8. i \in 1 .. Len(data) <=> i <= Len(data)
  BY <1>5, <1>1
<1> HIDE DEF f
<1> QED BY <1>2, <1>7, <1>8

(* A directory lists exactly the keys whose parent it is: a key one segment    *)
(* longer than a prefix of it is a child of that prefix and of nothing else.  *)
LEMMA OnlyParentLists ==
    ASSUME NEW q \in Seq(Name), NEW p \in Seq(Name), p # Root
    PROVE  (Below(q, p) /\ Len(p) = Len(q) + 1) <=> q = Parent(p)
<1>1. Below(Parent(p), p) /\ Parent(p) \in Seq(Name)
  BY ParentAbove
<1>2. Len(p) \in Nat /\ Len(q) \in Nat /\ Len(p) > 0
  BY DEF Root
<1>3. ASSUME Below(q, p), Len(p) = Len(q) + 1 PROVE q = Parent(p)
  <2>1. Len(q) = Len(p) - 1
    BY <1>2, <1>3
  <2> QED BY <2>1, <1>3 DEF Below, Parent
<1>4. Len(Parent(p)) = Len(p) - 1
  <2> DEFINE m == Len(p) - 1
  <2>1. m \in Int /\ 1 \in Int /\ (\A i \in 1 .. m : p[i] \in Name) /\ m >= 0
    BY <1>2
  <2>2. Len(SubSeq(p, 1, m)) = IF 1 <= m THEN m - 1 + 1 ELSE 0
    <3> HIDE DEF m
    <3> QED BY <2>1, SubSeqProperties
  <2>3. Parent(p) = SubSeq(p, 1, m) /\ m = Len(p) - 1
    BY DEF Parent
  <2> HIDE DEF m
  <2> QED BY <2>1, <2>2, <2>3
<1> QED BY <1>1, <1>2, <1>3, <1>4

DirsEmpty == \A p \in DOMAIN nodes : nodes[p].kind = "dir" => nodes[p].data = << >>

\* What UnwrittenIsZero says of one path.
ZeroAt(p) == \A i \in 1 .. Len(nodes[p].data) : i \notin written[p] => nodes[p].data[i] = Zero

(* The inductive step of the contents: creation and TRUNC start from an empty  *)
(* file and an empty history, a write extends both by the same offsets, and   *)
(* remove drops both, so a stale handle finds no old byte.                    *)
LEMMA ContentsStep ==
    ASSUME BackendOK, DirsEmpty, UnwrittenIsZero, [Next]_vars
    PROVE  DirsEmpty' /\ UnwrittenIsZero'
<1> USE DEF BackendOK
<1>1. CASE UNCHANGED <<nodes, written>>
  BY <1>1 DEF DirsEmpty, UnwrittenIsZero
<1>2. ASSUME NEW h \in Handle, NEW p \in Path, NEW flags \in SUBSET Flag, Open(h, p, flags)
      PROVE  DirsEmpty' /\ UnwrittenIsZero'
  <2>1. DOMAIN nodes' = DOMAIN nodes \cup {p}
    BY <1>2 DEF Open, Put
  <2>2. \A q \in DOMAIN nodes : q # p => nodes'[q] = nodes[q] /\ written'[q] = written[q]
    BY <1>2 DEF Open, Put, TypeOK
  <2>3. \/ nodes'[p] = FileNode /\ written'[p] = {}
        \/ p \in DOMAIN nodes /\ nodes'[p] = nodes[p] /\ written'[p] = written[p]
    BY <1>2 DEF Open, Put, OpenedNode, Exists
  <2>4. DirsEmpty'
    BY <2>1, <2>2, <2>3 DEF DirsEmpty, FileNode
  <2>5. FileNode.data = << >> /\ Len(FileNode.data) = 0
    BY DEF FileNode
  <2>6. ASSUME NEW q \in DOMAIN nodes' PROVE ZeroAt(q)'
    <3>1. CASE q \in DOMAIN nodes /\ nodes'[q] = nodes[q] /\ written'[q] = written[q]
      BY <3>1 DEF UnwrittenIsZero, ZeroAt
    <3>2. CASE nodes'[q] = FileNode
      BY <3>2, <2>5 DEF ZeroAt
    <3> QED BY <2>1, <2>2, <2>3, <3>1, <3>2
  <2> QED BY <2>4, <2>6 DEF UnwrittenIsZero, ZeroAt
<1>3. ASSUME NEW p \in Path, CreateDir(p)
      PROVE  DirsEmpty' /\ UnwrittenIsZero'
  <2>1. DOMAIN nodes' = DOMAIN nodes \cup {p}
    BY <1>3 DEF CreateDir, Put
  <2>2. \A q \in DOMAIN nodes : q # p => nodes'[q] = nodes[q] /\ written'[q] = written[q]
    BY <1>3 DEF CreateDir, Put, TypeOK
  <2>3. nodes'[p] = DirNode
    BY <1>3 DEF CreateDir, Put
  <2>4. DirsEmpty'
    BY <2>1, <2>2, <2>3 DEF DirsEmpty, DirNode
  <2>5. Len(DirNode.data) = 0
    BY DEF DirNode
  <2>6. ASSUME NEW q \in DOMAIN nodes' PROVE ZeroAt(q)'
    <3>1. CASE q # p
      BY <3>1, <2>1, <2>2 DEF UnwrittenIsZero, ZeroAt
    <3>2. CASE q = p
      BY <3>2, <2>3, <2>5 DEF ZeroAt
    <3> QED BY <3>1, <3>2
  <2> QED BY <2>4, <2>6 DEF UnwrittenIsZero, ZeroAt
<1>4. ASSUME NEW p \in Path, Remove(p)
      PROVE  DirsEmpty' /\ UnwrittenIsZero'
  <2>1. DOMAIN nodes' = DOMAIN nodes \ {p}
    BY <1>4 DEF Remove, Drop
  <2>2. \A q \in DOMAIN nodes' : nodes'[q] = nodes[q] /\ written'[q] = written[q]
    BY <1>4 DEF Remove, Drop, TypeOK
  <2>3. ASSUME NEW q \in DOMAIN nodes' PROVE ZeroAt(q)'
    BY <2>1, <2>2 DEF UnwrittenIsZero, ZeroAt
  <2> QED BY <2>1, <2>2, <2>3 DEF UnwrittenIsZero, DirsEmpty, ZeroAt
<1>5. ASSUME NEW h \in Handle, NEW off \in Offset, NEW chunk \in Chunk, Write(h, off, chunk)
      PROVE  DirsEmpty' /\ UnwrittenIsZero'
  <2> DEFINE p == handles[h]
             data == nodes[p].data
  <2>1. p \in DOMAIN nodes /\ nodes[p].kind = "file"
    BY <1>5 DEF Write, HandleError, Exists, IsFile
  <2>2. DOMAIN nodes' = DOMAIN nodes
    BY <1>5 DEF Write
  <2>3. \A q \in DOMAIN nodes : q # p => nodes'[q] = nodes[q] /\ written'[q] = written[q]
    BY <1>5 DEF Write, TypeOK
  <2>4. nodes'[p].kind = "file" /\ nodes'[p].data = Splice(data, off, chunk)
    BY <1>5, <2>1 DEF Write, TypeOK, Node
  <2>5. written'[p] = written[p] \cup (off + 1 .. off + Len(chunk))
    BY <1>5, <2>1 DEF Write, TypeOK
  <2>6. DirsEmpty'
    BY <2>1, <2>2, <2>3, <2>4 DEF DirsEmpty
  <2>7. data \in Seq(Byte) /\ off \in Nat /\ chunk \in Seq(Byte)
    BY <2>1, WriteAssumption DEF TypeOK, Node
  <2>8. \A i \in 1 .. Len(data) : i \notin written[p] => data[i] = Zero
    BY <2>1 DEF UnwrittenIsZero
  <2>9. ASSUME NEW q \in DOMAIN nodes' PROVE ZeroAt(q)'
    <3>1. CASE q # p
      BY <3>1, <2>2, <2>3 DEF UnwrittenIsZero, ZeroAt
    <3>2. CASE q = p
      <4> HIDE DEF p, data
      <4>1. ASSUME NEW i \in 1 .. Len(Splice(data, off, chunk)), i \notin written'[p]
            PROVE  Splice(data, off, chunk)[i] = Zero
        <5>1. i \notin written[p] /\ i \notin off + 1 .. off + Len(chunk)
          BY <4>1, <2>5
        <5>2. CASE i \in 1 .. Len(data)
          <6>1. Splice(data, off, chunk)[i] = data[i]
            BY <5>1, <5>2, <2>7, SpliceContents
          <6>2. data[i] = Zero
            BY <5>1, <5>2, <2>8
          <6> QED BY <6>1, <6>2
        <5>3. CASE i \notin 1 .. Len(data)
          BY <5>1, <5>3, <2>7, SpliceContents
        <5> QED BY <5>2, <5>3
      <4> QED BY <3>2, <4>1, <2>4 DEF ZeroAt
    <3> QED BY <3>1, <3>2
  <2> QED BY <2>6, <2>9 DEF UnwrittenIsZero, ZeroAt
<1>6. ASSUME NEW p \in Path, NEW flags \in SUBSET Flag, OpenFails(p, flags)
      PROVE  UNCHANGED <<nodes, written>>
  BY <1>6 DEF OpenFails, Fail
<1>7. ASSUME NEW p \in Path, CreateDirFails(p) \/ RemoveFails(p)
      PROVE  UNCHANGED <<nodes, written>>
  BY <1>7 DEF CreateDirFails, RemoveFails, Fail
<1>8. ASSUME NEW h \in Handle, StaleCall(h) \/ DropHandle(h)
      PROVE  UNCHANGED <<nodes, written>>
  BY <1>8 DEF StaleCall, DropHandle, Fail
<1>9. UNCHANGED vars => UNCHANGED <<nodes, written>>
  BY DEF vars
<1> QED BY <1>1, <1>2, <1>3, <1>4, <1>5, <1>6, <1>7, <1>8, <1>9 DEF Next

(* What clients read is what clients wrote: list finds every node of the tree  *)
(* exactly once, under its parent, and a byte that nobody wrote since the     *)
(* file was created or truncated reads as zero, whatever handles outlived the *)
(* nodes they were opened on.                                                *)
THEOREM ContentsCorrect == Spec => []ContentsOK
<1>1. Init => DirsEmpty /\ UnwrittenIsZero
  BY DEF Init, DirNode, DirsEmpty, UnwrittenIsZero
<1>2. BackendOK /\ DirsEmpty /\ UnwrittenIsZero /\ [Next]_vars => DirsEmpty' /\ UnwrittenIsZero'
  BY ContentsStep
<1>3. BackendOK /\ DirsEmpty /\ UnwrittenIsZero => ContentsOK
  <2> SUFFICES ASSUME BackendOK, DirsEmpty PROVE ListFindsAll
    BY DEF ContentsOK
  <2>1. ASSUME NEW p \in DOMAIN nodes \ {Root}
        PROVE  {q \in DOMAIN nodes : IsDir(q) /\ p \in Children(q)} = {Parent(p)}
    <3>1. \A q \in DOMAIN nodes : q \in Seq(Name)
      BY PathAssumption DEF BackendOK, TypeOK
    <3>2. \A q \in DOMAIN nodes : p \in Children(q) <=> q = Parent(p)
      BY <3>1, OnlyParentLists DEF Children
    <3>3. IsDir(Parent(p)) /\ Parent(p) \in DOMAIN nodes
      BY DEF BackendOK, TreeOK, IsDir, Exists
    <3> QED BY <3>2, <3>3
  <2> QED BY <2>1 DEF ListFindsAll, DirsEmpty, IsDir
<1> QED BY <1>1, <1>2, <1>3, BackendCorrect, PTL DEF Spec

(* What the backend promises its clients: open, create_dir, remove, write and  *)
(* stale handles keep the map a tree, list shows all of it and read returns    *)
(* nothing that was not written.                                              *)
THEOREM BackendSafeCorrect == Spec => []BackendSafe
<1>1. BackendOK /\ ContentsOK => BackendSafe
  BY DEF BackendSafe
<1> QED BY <1>1, BackendCorrect, ContentsCorrect, PTL
=============================================================================
