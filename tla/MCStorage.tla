------------------------------ MODULE MCStorage ------------------------------
(* The storage layer: one component moves in a behaviour, the others rest. *)
EXTENDS ObjectStore, MountedStorage, FileCommands, Clipboard

CONSTANTS c1, c2, u1, u2
VARIABLE subject

N(s) == [base |-> s, copy |-> 0]
A == <<N("a")>>
B == <<N("b")>>
X == <<N("x")>>
Y == <<N("y")>>
D == <<N("d")>>
E == <<N("e")>>
G == <<N("g")>>
AX == A \o X
BX == B \o X
AS == A \o <<N("s")>>
ASX == AS \o X
DX == D \o X

\* ObjectStore: objects, an object beside a prefix of its name, a marker, nested
\* keys without a marker, a temporary file; a key onto itself, into its subtree
\* and out of it.
MCStorePath == {<<"a">>, <<"b">>, <<"x">>, <<"a", "x">>, <<"a", "s", "x">>}
MCStorePair == {<<<<"a">>, <<"b">>>>, <<<<"x">>, <<"b">>>>, <<<<"a", "x">>, <<"a", "y">>>>,
                <<<<"x">>, <<"x">>>>, <<<<"a">>, <<"a", "s">>>>, <<<<"a", "s">>, <<"a">>>>}
Contents(ks) == [k \in ks |-> IF k.dir THEN << >> ELSE [i \in DOMAIN k.path |-> i]]
MCBucket == {Contents({Obj(<<"a">>), Obj(<<"x">>)}),
             Contents({Obj(<<"a">>), Obj(<<"a", "x">>), Obj(<<"x">>)}),
             Contents({Marker(<<"a">>), Obj(<<"a", "x">>), Obj(<<"x">>)}),
             Contents({Obj(<<"a", "x">>), Obj(<<"a", "s", "x">>), Obj(<<"b", "x">>)}),
             Contents({Obj(<<"a", "x">>), Obj(<<"a", "t.part">>), Obj(<<"b">>)})}

\* MountedStorage: a nested directory, two directories, two files.
MCMountPath == {A, B, AX, BX}
MCMountTree == {(A :> Folder) @@ (AX :> FileOf(<<1>>)) @@ (AS :> Folder) @@ (ASX :> FileOf(<<2>>)),
                (A :> Folder) @@ (AX :> FileOf(<<1>>)) @@ (B :> Folder) @@ (BX :> FileOf(<<3>>)),
                (A :> FileOf(<<1>>)) @@ (B :> FileOf(<<2>>))}

\* FileCommands: c1 makes any of the commands, c2 one that may hurt it.
MCAdapter == [s \in {"s1", "s2", "ob"} |-> CASE s = "s1" -> "local" [] s = "s2" -> "nas" [] s = "ob" -> "object"]
MCTrees == {[p \in {"s1", "s2", "native", "ob"} |->
               CASE p = "s1" -> (X :> FileOf(<<"a">>)) @@ (D :> Folder) @@ (DX :> FileOf(<<"b">>))
                 [] p = "s2" -> (X :> FileOf(<<"c">>)) @@ (Y :> FileOf(<<"d">>))
                 [] p = "native" -> (X :> FileOf(<<"e">>))
                 [] p = "ob" -> (D :> Folder) @@ (DX :> FileOf(<<"f">>))]}
Cmd(c, s, f, d, t) == [cmd |-> c, src |-> s, from |-> f, dst |-> d, to |-> t]
AnyCommand ==
    {Cmd(c, "s1", p, "s1", E) : c \in {"mkdir", "mkdir_p", "rmdir", "delete", "delete_recursive", "touch",
                                       "write_text", "append_text"}, p \in {X, D, Y}}
    \cup {Cmd(c, "s2", X, "s2", t) : c \in {"rename", "copy", "move", "MoveWithinVfs"}, t \in {Y, E}}
    \cup {Cmd(c, "s1", p, "s1", t) : c \in {"rename", "copy", "move", "MoveWithinVfs"}, p \in {X, D}, t \in {DX, E}}
    \cup {Cmd(c, "ob", D, "ob", E) : c \in {"rename", "move"}}
    \cup {Cmd(c, s, X, "s2", E) : c \in {"download", "open"}, s \in {"s1", "s2"}}
    \cup {Cmd("download", "ob", DX, "s1", E)} \cup {Cmd("to_downloads", s, X, "s1", X) : s \in {"s1", "s2"}}
    \cup {Cmd(c, "s1", X, d, t) : c \in {"copy_to_source", "move_to_source"}, d \in {"s1", "s2"}, t \in {X, E}}
    \cup {Cmd("move_to_source", "s2", X, "s1", t) : t \in {X, E}}
    \cup {Cmd("MoveBetweenVfs", "s1", p, d, E) : p \in {X, D}, d \in {"s1", "s2"}}
    \cup {Cmd("MoveVfsToNative", s, X, s, t) : s \in {"s1", "s2"}, t \in {X, E}}
    \cup {Cmd("MoveNativeToVfs", "native", X, "s2", t) : t \in {Y, E}}
    \cup {Cmd(c, "s1", <<X, D>>, "s2", <<E, G>>) : c \in {"batch_delete", "batch_move"}}
    \cup {Cmd(c, "s1", <<X, DX>>, "s2", << << >>, D>>) : c \in {"batch_copy_to_source", "batch_move_to_source"}}
Rival == {Cmd("delete_recursive", "s1", D, "s1", E), Cmd("write_text", "s1", X, "s1", E),
          Cmd("MoveWithinVfs", "s1", X, "s1", DX), Cmd("move_to_source", "s2", X, "s1", X),
          Cmd("MoveVfsToNative", "s2", X, "s2", E), Cmd("open", "s2", X, "s2", Y), Cmd("rename", "s2", X, "s2", E)}
MCRequest == (c1 :> AnyCommand) @@ (c2 :> Rival)

\* Clipboard: u1 copies, cuts and pastes while u2 copies, clears or looks.
MCClipTrees == {[p \in {"s1", "s2", "native"} |->
                   CASE p = "s1" -> (X :> FileOf(<<"a">>)) @@ (D :> Folder) @@ (DX :> FileOf(<<"b">>)) @@ (E :> Folder)
                     [] p = "s2" -> (X :> FileOf(<<"c">>)) @@ (E :> Folder)
                     [] p = "native" -> (X :> FileOf(<<"e">>)) @@ (E :> Folder)]}
Clip(c, at, ps) == [cmd |-> c, at |-> at, paths |-> ps]
Takes == {Clip("cut", "s1", <<X>>), Clip("cut", "s1", <<X, D>>), Clip("cut", "s1", <<DX, X>>),
          Clip("copy", "native", <<X>>)}
Pastes == {Clip("paste_to_vfs", "s1", <<p>>) : p \in {<< >>, D, X}} \cup {Clip("paste_to_vfs", "s2", << << >> >>)}
          \cup {Clip("paste_to_native", "native", <<p>>) : p \in {<< >>, E}}
MCClipRequest == (u1 :> Takes \cup Pastes \cup {Clip("clear", "native", << >>)})
                 @@ (u2 :> {Clip("copy", "s2", <<X>>), Clip("get", "native", << >>)})
MCTempDir == <<N("tmp")>>
MCOsPaths == {<<X>>}

\* A component at rest.
StoreRest == provider = "s3" /\ dal = [full |-> FALSE, deep |-> TRUE, dirStat |-> TRUE, dirWrite |-> TRUE] /\ bucket = << >> /\ request = NoCall
MountRest == mount = "local" /\ tree = << >> /\ copying = Idling /\ others = NoOther
CmdRest   == trees = << >> /\ origin = << >> /\ cached = << >> /\ cmd = [c \in Client |-> NoCommand]
ClipRest  == /\ clip = NoClip /\ osClip = << >> /\ exports = {} /\ held = << >> /\ first = << >> /\ readCache = << >>
             /\ job = [u \in ClipUser |-> NoJob] /\ clipCalls = 0
MCInit == /\ subject \in {"store", "mount", "commands", "clipboard"}
          /\ IF subject = "store" THEN StoreInit ELSE StoreRest
          /\ IF subject = "mount" THEN MountInit ELSE MountRest
          /\ IF subject = "commands" THEN CmdInit ELSE CmdRest
          /\ IF subject = "clipboard" THEN ClipInit ELSE ClipRest
MCNext == /\ UNCHANGED subject
          /\ \/ subject = "store" /\ StoreNext /\ UNCHANGED <<mountVars, cmdVars, clipVars>>
             \/ subject = "mount" /\ MountNext /\ UNCHANGED <<storeVars, cmdVars, clipVars>>
             \/ subject = "commands" /\ CmdNext /\ UNCHANGED <<storeVars, mountVars, clipVars>>
             \/ subject = "clipboard" /\ ClipNext /\ UNCHANGED <<storeVars, mountVars, cmdVars>>
MCVars == <<subject, storeVars, mountVars, cmdVars, clipVars>>
MCSpec == MCInit /\ [][MCNext]_MCVars

\* The clipboard alone.
WedgeInit == MCInit /\ subject = "clipboard"
WedgeSpec == WedgeInit /\ [][MCNext]_MCVars /\ ClipFairness
=============================================================================
