------------------------------ MODULE MCService ------------------------------
(* The application's own state and files: one component moves in a behaviour,    *)
(* the others stay in their initial state.                                        *)
EXTENDS SourceRegistry, NvmeCache, TokenAccount, BatchUpload, MetadataStore, AuditLog, LogFiles, AppSettings

CONSTANTS r1, r2, n1, n2, t1, t2, m1, m2, a1, a2, a3
VARIABLE subject

\* SourceRegistry: an S3 source with a key, one on the keys of the
\* environment, and a folder.
Reg(c, i) == [cmd |-> c, id |-> i, key |-> "k1"]
MCRegRequest == (r1 :> {[Reg("register", 2) EXCEPT !.key = "env"], Reg("remove", 1), Reg("test", 1),
                        Reg("eject", 1), Reg("mount", 3)})
                @@ (r2 :> {Reg("register", 1), Reg("remove", 1), [Reg("update", 1) EXCEPT !.key = "k2"], Reg("remove", Home)})

MCTokenOf == ("k1" :> "t1") @@ ("k2" :> NoToken)

\* NvmeCache: a cache of two units and files of one and two.
MCFileSize == ("x" :> 1) @@ ("y" :> 2) @@ ("z" :> 2)
Cache(c, p) == [call |-> c, path |-> p]
MCCacheRequest == (n1 :> {Cache("read", p) : p \in {"x", "y"}} \cup {Cache("clear", "x")})
                  @@ (n2 :> {Cache("hydrate", "x"), Cache("read", "z"), Cache("invalidate", "y")})
Unbounded == [max_size |-> 0, policy |-> "LRU"]
MCCacheConfigs == [max_size : {2}, policy : {"LRU", "LFU", "FIFO"}] \cup {Unbounded}

\* TokenAccount: a free plan of two tokens and a paid one of three.
Token(c, n, p) == [cmd |-> c, n |-> n, plan |-> p]
MCTokenRequest == (t1 :> {Token("consume", 1, "free"), Token("purchase", 0, "pro"),
                          Token("purchase", 0, "unlimited")})
                  @@ (t2 :> {Token("consume", 2, "free"), Token("get", 0, "free")})

\* BatchUpload: a file, and a folder with a file and a folder in it.
Item(t, p) == [type |-> t, path |-> p]
MCBatchDisk == {(<<"d">> :> "dir") @@ (<<"d", "x">> :> "file") @@ (<<"d", "s">> :> "dir") @@ (<<"d", "s", "y">> :> "file")
                @@ (<<"z">> :> "file")}
MCBatchItems == {<<Item("file", <<"z">>), Item("folder", <<"d", "s">>)>>, <<Item("folder", <<"d">>), Item("other", <<"z">>)>>,
                 <<Item("folder", <<"z">>), Item("file", <<"d">>)>>, <<Item("file", <<"z">>)>>}
MCBasePath == <<"b">>
\* Several other commands meet only in a batch of one item.
FewRequests == Len(batch'.items) > 1 => requests' <= 1

\* MetadataStore: two files of a source.
Meta(c, p, a) == [cmd |-> c, source |-> "s", path |-> p, arg |-> a]
TagOf(n, c) == [name |-> n, color |-> c]
MCMetaRequest == (m1 :> {Meta("add_tag", "x", TagOf("t", "red")), Meta("toggle_favorite", "x", NoOne), Meta("remove_tag", "x", "t"),
                         Meta("set_rating", "x", 9), Meta("set_comment", "y", "hi"), Meta("get_metadata", "y", NoOne),
                         Meta("by_tag", "x", "t"), Meta("stat", "y", NoOne)})
                 @@ (m2 :> {Meta("add_tag", "y", TagOf("t", "blue")), Meta("set_favorite", "y", TRUE),
                            Meta("set_color_label", "x", "red"), Meta("remove_source", "y", NoOne),
                            Meta("favorites", "x", NoOne), Meta("all_tags", "x", NoOne), Meta("by_color", "y", "red")})

\* AuditLog: an entry of an earlier version.
MCLegacy == <<<<a3, "Completed">>>>

\* AppSettings: a field of the logging settings and one of the user interface's.
Prefs(p, t) == ("log_path" :> p) @@ ("theme" :> t)
MCDefaultSettings == Prefs("none", "auto")
MCEarlierSettings == {Prefs("none", "dark"), Prefs("logs", "auto")}
MCSettingsUpdate == {"log_path" :> "other", "theme" :> "light"}

MCInit == /\ subject \in {"registry", "cache", "tokens", "batch", "metadata", "audit", "logs", "settings"}
          /\ RegInit /\ CacheInit /\ TokenInit /\ BatchInit /\ MetaInit /\ AuditInit /\ LogInit /\ SettingsInit
          /\ subject # "settings" => dirs = {}
          /\ subject # "cache" => config = Unbounded
MCNext == /\ UNCHANGED subject
          /\ \/ subject = "registry" /\ RegNext /\ UNCHANGED <<cacheVars, tokenVars, batchVars, metaVars, auditVars, logVars, settingsVars>>
             \/ subject = "cache" /\ CacheNext /\ UNCHANGED <<regVars, tokenVars, batchVars, metaVars, auditVars, logVars, settingsVars>>
             \/ subject = "tokens" /\ TokenNext /\ UNCHANGED <<regVars, cacheVars, batchVars, metaVars, auditVars, logVars, settingsVars>>
             \/ subject = "batch" /\ BatchNext /\ FewRequests /\ UNCHANGED <<regVars, cacheVars, tokenVars, metaVars, auditVars, logVars, settingsVars>>
             \/ subject = "metadata" /\ MetaNext /\ UNCHANGED <<regVars, cacheVars, tokenVars, batchVars, auditVars, logVars, settingsVars>>
             \/ subject = "audit" /\ AuditNext /\ UNCHANGED <<regVars, cacheVars, tokenVars, batchVars, metaVars, logVars, settingsVars>>
             \/ subject = "logs" /\ LogNext /\ UNCHANGED <<regVars, cacheVars, tokenVars, batchVars, metaVars, auditVars, settingsVars>>
             \/ subject = "settings" /\ SettingsNext /\ UNCHANGED <<regVars, cacheVars, tokenVars, batchVars, metaVars, auditVars, logVars>>
MCVars == <<subject, regVars, cacheVars, tokenVars, batchVars, metaVars, auditVars, logVars, settingsVars>>
MCSpec == MCInit /\ [][MCNext]_MCVars

\* Nothing is counted twice or lost on its way through several files: log lines through
\* rotations (logging.rs 76) and the files of a batch through the walk (uploads.rs 546).
EachOnce == LinesKept /\ BatchFindsFilesOnce
=============================================================================
