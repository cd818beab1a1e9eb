---------------------------- MODULE SourceRegistry ----------------------------
(***************************************************************************)
(* The storage sources of VfsService (vfs/application/vfs_service.rs), the     *)
(* commands that register, update, test, eject and remove them                 *)
(* (commands/storage.rs, commands/init.rs), the file they are kept in           *)
(* (infrastructure/storage_persistence.rs) and the settings file with their     *)
(* credentials (adapters/settings.rs).  A command is several awaits; commands    *)
(* overlap, a write may fail, and the application may crash inside a write.      *)
(***************************************************************************)
EXTENDS Naturals, FiniteSets, Functions

CONSTANTS RegClient,  \* commands that may run at the same time
          RegRequest, \* client -> set of [cmd, id, key]; an id is given once
          TokenOf,    \* key -> the session token given with it, or NoToken
          MaxRegCalls, MaxCrashes

VARIABLES sources,  \* id -> [type, status, adapter, ops], in memory
          file,     \* storage_sources.json: id -> type
          settings, \* settings.json: id -> the key of its credentials
          torn,     \* the files a crash left unreadable
          usedIds,     \* the identifiers given so far
          run,      \* client -> its command
          environment, \* the AWS variables of the process: [access, token]
          running,  \* vfs_init has set the service
          regCalls, crashes,
          spoiled,  \* two commands overlapped, or a write or a restore failed
          goneForGood,     \* removed by a command that ran alone and saved what it did
          ejected   \* removed from memory only, since the last start

regVars == <<sources, file, settings, torn, usedIds, run, environment, running, regCalls, crashes, spoiled,
             goneForGood, ejected>>

NoToken == "none"
\* The environment the process is started with.
StartEnvironment == [access |-> "env", token |-> NoToken]
\* A credential: the key it was given ("env": none), whether its secret is known,
\* and the access key and the token that requests are signed with.
Credential(k, secret, access, token) == [key |-> k, secret |-> secret, access |-> access, token |-> token]
\* S3StorageAdapter::new: what is not given is taken from the environment, as it
\* is at that moment.
Access(k) == IF k = "env" THEN environment.access ELSE k
S3StorageAdapter(k, token) ==
    Credential(k, TRUE, Access(k), IF token = NoToken THEN environment.token ELSE token)
\* The adapter that lists is made by the factory, which has no session token; the
\* one for the file operations gets it.
Listing(k)    == S3StorageAdapter(k, NoToken)
Operations(k) == S3StorageAdapter(k, IF k = "env" THEN NoToken ELSE TokenOf[k])
\* The plaintext of an EncryptedString is not serialized, and nothing encrypts it:
\* the settings give back the key only.
Deserialized(k) == Credential(k, FALSE, k, environment.token)
NoCredential == Credential("env", TRUE, "none", NoToken)
Local(t) == [type |-> t, status |-> "Connected", adapter |-> NoCredential, ops |-> NoCredential]
Home == 0
RegIdle == [cmd |-> "none"]
Placed(f, i, v) == [j \in DOMAIN f \cup {i} |-> IF j = i THEN v ELSE f[j]]
S3 == {i \in DOMAIN sources : sources[i].type = "s3"}
Alone(c) == \A d \in RegClient \ {c} : run[d] = RegIdle

RegTypeOK ==
    /\ \A i \in DOMAIN sources : /\ i \in usedIds
                                 /\ sources[i].type \in {"s3", "local", "system"}
                                 /\ sources[i].status \in {"Connected", "Disconnected", "Error"}
                                 /\ sources[i].type # "s3" => sources[i].status = "Connected"
    /\ DOMAIN file \subseteq usedIds /\ \A i \in DOMAIN file : file[i] # "system"
    /\ DOMAIN settings \subseteq usedIds
    /\ torn \subseteq {"sources", "settings"}
    /\ ~running => sources = << >> /\ \A c \in RegClient : run[c] = RegIdle

-----------------------------------------------------------------------------
(* A command's next step, its answer, and what spoils the bookkeeping. *)
At(c, pc)   == run[c].cmd # "none" /\ run[c].pc = pc
Goes(c, r) == run' = [run EXCEPT ![c] = r]
Step(c, pc) == Goes(c, [run[c] EXCEPT !.pc = pc])
Answer(c)   == Goes(c, RegIdle)
Fails       == spoiled' = TRUE
Still       == UNCHANGED spoiled

\* A command starts, or is refused before it awaits anything.
Enter(c, r, pc) ==
    /\ Goes(c, [cmd |-> r.cmd, id |-> r.id, key |-> r.key, pc |-> pc, seen |-> << >>, alone |-> Alone(c)])
    /\ usedIds' = usedIds \cup {r.id} /\ regCalls' = regCalls + 1 /\ spoiled' = (spoiled \/ ~Alone(c))
Refuse == regCalls' = regCalls + 1 /\ UNCHANGED <<run, usedIds, spoiled>>
\* The keys and the token that are given become those of the environment.
SetVars(k) == [access |-> k, token |-> IF TokenOf[k] = NoToken THEN environment.token ELSE TokenOf[k]]
vfs_register_s3_source(c, r) ==
    /\ r.cmd = "register" /\ r.id \notin usedIds /\ Enter(c, r, "create")
    /\ environment' = IF r.key = "env" THEN environment ELSE SetVars(r.key)
vfs_mount_local(c, r)        == r.cmd = "mount" /\ r.id \notin usedIds /\ Enter(c, r, "create")
vfs_remove_source(c, r) ==
    r.cmd = "remove" /\ (IF r.id \in DOMAIN sources THEN Enter(c, r, "drop") ELSE Refuse)
vfs_eject(c, r) ==
    r.cmd = "eject" /\ (IF r.id \in DOMAIN sources THEN Enter(c, r, "drop") ELSE Refuse)
vfs_update_s3_credentials(c, r) == r.cmd = "update" /\ (IF r.id \in S3 THEN Enter(c, r, "load") ELSE Refuse)
vfs_test_s3_connection(c, r)    == r.cmd = "test" /\ (IF r.id \in S3 THEN Enter(c, r, "probe") ELSE Refuse)
BeginReg(c) ==
    /\ running /\ run[c] = RegIdle /\ regCalls < MaxRegCalls
    /\ \E r \in RegRequest[c] :
          \/ vfs_register_s3_source(c, r)
          \/ /\ \/ vfs_mount_local(c, r) \/ vfs_remove_source(c, r) \/ vfs_eject(c, r)
                \/ vfs_update_s3_credentials(c, r) \/ vfs_test_s3_connection(c, r)
             /\ UNCHANGED environment
    /\ UNCHANGED <<sources, file, settings, torn, running, crashes, goneForGood, ejected>>

add_local_source(c) ==
    /\ At(c, "create") /\ run[c].cmd = "mount"
    /\ \/ sources' = Placed(sources, run[c].id, Local("local"))
       \/ UNCHANGED sources
    /\ Answer(c) /\ Still
    /\ UNCHANGED <<file, settings, torn, usedIds, environment, running, regCalls, crashes, goneForGood, ejected>>

\* The adapter that lists is made first, when a source is added and when its
\* credentials are updated; other commands run before the second one is made.
create_adapter(c) ==
    /\ \/ At(c, "create") /\ run[c].cmd = "register" /\ run[c].seen = << >>
       \/ At(c, "rebuild")
    /\ \/ /\ Goes(c, [run[c] EXCEPT !.pc = IF @ = "rebuild" THEN "install" ELSE @, !.seen = Listing(run[c].key)])
          /\ Still
       \/ Answer(c) /\ (IF At(c, "rebuild") THEN Fails ELSE Still)
    /\ UNCHANGED <<sources, file, settings, torn, usedIds, environment, running, regCalls, crashes, goneForGood, ejected>>

\* A failed connection test only shows in the status; a failed adapter ends it.
add_s3_source(c) ==
    /\ At(c, "create") /\ run[c].cmd = "register" /\ run[c].seen # << >>
    /\ \/ /\ \E st \in {"Connected", "Error"} :
               sources' = Placed(sources, run[c].id, [type |-> "s3", status |-> st, adapter |-> run[c].seen,
                                                      ops |-> Operations(run[c].key)])
          /\ Step(c, IF run[c].key = "env" THEN "list" ELSE "load")
       \/ UNCHANGED sources /\ Answer(c)
    /\ Still /\ UNCHANGED <<file, settings, torn, usedIds, environment, running, regCalls, crashes, goneForGood, ejected>>

-----------------------------------------------------------------------------
(* save_credentials and remove_credentials read the whole settings file, change  *)
(* one source in it and write it back.  Only an update stops when that fails.     *)
AfterCredentials(c) == IF run[c].cmd = "update" THEN "rebuild" ELSE "list"
CredentialsFail(c)  == IF run[c].cmd = "update" THEN Answer(c) ELSE Step(c, "list")
load_settings(c) ==
    /\ At(c, "load")
    /\ \/ "settings" \notin torn /\ Goes(c, [run[c] EXCEPT !.pc = "save", !.seen = settings]) /\ Still
       \/ CredentialsFail(c) /\ Fails
    /\ UNCHANGED <<sources, file, settings, torn, usedIds, environment, running, regCalls, crashes, goneForGood, ejected>>
EditedSettings(c) == IF run[c].cmd = "remove" THEN Restrict(run[c].seen, DOMAIN run[c].seen \ {run[c].id})
             ELSE Placed(run[c].seen, run[c].id, run[c].key)
save_settings(c) ==
    /\ At(c, "save")
    /\ \/ settings' = EditedSettings(c) /\ Step(c, AfterCredentials(c)) /\ Still
       \/ UNCHANGED settings /\ CredentialsFail(c) /\ Fails
    /\ UNCHANGED <<sources, file, torn, usedIds, environment, running, regCalls, crashes, goneForGood, ejected>>

\* Mutant of Install: only the file operations get the new key.
InstallOpsOnly(i, k, listing) == [sources EXCEPT ![i].ops = Operations(k)]
Install(i, k, listing) == [sources EXCEPT ![i].ops = Operations(k), ![i].adapter = listing]
\* The two adapters are set under one lock; the source may be gone.
update_s3_credentials(c) ==
    /\ At(c, "install")
    /\ \/ /\ run[c].id \in DOMAIN sources
          /\ sources' = Install(run[c].id, run[c].key, run[c].seen) /\ Still
       \/ UNCHANGED sources /\ Fails
    /\ Answer(c)
    /\ UNCHANGED <<file, settings, torn, usedIds, environment, running, regCalls, crashes, goneForGood, ejected>>

-----------------------------------------------------------------------------
(* Removing, ejecting, testing. *)
Without(i) == Restrict(sources, DOMAIN sources \ {i})
remove_source_async(c) ==
    /\ At(c, "drop") /\ run[c].cmd = "remove"
    /\ sources' = Without(run[c].id)
    /\ IF run[c].id \in DOMAIN sources THEN Step(c, "load") ELSE Answer(c)
    /\ Still /\ UNCHANGED <<file, settings, torn, usedIds, environment, running, regCalls, crashes, goneForGood, ejected>>
\* The file and the credentials stay.
eject_source(c) ==
    /\ At(c, "drop") /\ run[c].cmd = "eject"
    /\ sources' = Without(run[c].id) /\ ejected' = ejected \cup {run[c].id}
    /\ Answer(c) /\ Still
    /\ UNCHANGED <<file, settings, torn, usedIds, environment, running, regCalls, crashes, goneForGood>>
update_source_status(c) ==
    /\ At(c, "probe")
    /\ \E st \in {"Connected", "Error"} :
          sources' = [i \in DOMAIN sources |->
                        IF i = run[c].id THEN [sources[i] EXCEPT !.status = st] ELSE sources[i]]
    /\ Answer(c) /\ Still
    /\ UNCHANGED <<file, settings, torn, usedIds, environment, running, regCalls, crashes, goneForGood, ejected>>

-----------------------------------------------------------------------------
(* save_sources: the list is taken, then written.  A failed write is a warning. *)
Persisted == [i \in {j \in DOMAIN sources : sources[j].type # "system"} |-> sources[i].type]
list_sources(c) ==
    /\ At(c, "list")
    /\ Goes(c, [run[c] EXCEPT !.pc = "write", !.seen = Persisted])
    /\ Still /\ UNCHANGED <<sources, file, settings, torn, usedIds, environment, running, regCalls, crashes, goneForGood, ejected>>
save_sources(c) ==
    /\ At(c, "write") /\ Answer(c)
    /\ \/ /\ file' = run[c].seen /\ torn' = torn \ {"sources"} /\ Still
          /\ goneForGood' = IF run[c].cmd = "remove" /\ run[c].alone /\ Alone(c) THEN goneForGood \cup {run[c].id} ELSE goneForGood
       \/ UNCHANGED <<file, torn, goneForGood>> /\ Fails
    /\ UNCHANGED <<sources, settings, usedIds, environment, running, regCalls, crashes, ejected>>

-----------------------------------------------------------------------------
(* The application stops at any point; a file it was writing may be torn.        *)
Crash ==
    /\ running /\ crashes < MaxCrashes /\ crashes' = crashes + 1
    /\ running' = FALSE /\ sources' = << >> /\ run' = [c \in RegClient |-> RegIdle] /\ ejected' = {}
    /\ environment' = StartEnvironment
    /\ LET hit == {f \in {"sources", "settings"} :
                    \E c \in RegClient : At(c, IF f = "sources" THEN "write" ELSE "save")}
       IN  \E t \in SUBSET hit :
              /\ torn' = torn \cup t
              /\ file' = IF "sources" \in t THEN << >> ELSE file
              /\ settings' = IF "settings" \in t THEN << >> ELSE settings
    /\ spoiled' = (spoiled \/ \E c \in RegClient : run[c] # RegIdle)
    /\ UNCHANGED <<usedIds, regCalls, goneForGood>>

\* Only cloud sources are restored, the listing without credentials and the
\* operations with the stored ones; a source whose adapter fails is left out.
Restorable(i) == file[i] = "s3"
Restored(i) == [type |-> file[i], status |-> "Disconnected", adapter |-> Listing("env"),
                ops |-> IF i \in DOMAIN settings THEN Deserialized(settings[i]) ELSE Operations("env")]
load_sources(failing) == [i \in {j \in DOMAIN file : Restorable(j)} \ failing |-> Restored(i)]
\* The folders of the user are mounted, then the saved sources loaded.
vfs_init ==
    /\ ~running /\ running' = TRUE
    /\ \E failing \in SUBSET {j \in DOMAIN file : Restorable(j)} :
          /\ sources' = Placed(load_sources(failing), Home, Local("system"))
          /\ spoiled' = (spoiled \/ failing # {})
    /\ UNCHANGED <<file, settings, torn, usedIds, run, environment, regCalls, crashes, goneForGood, ejected>>

RegInit == /\ sources = << >> /\ file = << >> /\ settings = << >> /\ torn = {} /\ usedIds = {Home} /\ run = [c \in RegClient |-> RegIdle]
           /\ environment = StartEnvironment /\ running = FALSE /\ regCalls = 0 /\ crashes = 0 /\ spoiled = FALSE /\ goneForGood = {} /\ ejected = {}
RegNext == \/ Crash \/ vfs_init
           \/ \E c \in RegClient :
                 \/ BeginReg(c) \/ add_local_source(c) \/ create_adapter(c) \/ add_s3_source(c) \/ load_settings(c) \/ save_settings(c)
                 \/ update_s3_credentials(c) \/ remove_source_async(c) \/ eject_source(c) \/ update_source_status(c)
                 \/ list_sources(c) \/ save_sources(c)
RegSpec == RegInit /\ [][RegNext]_regVars

-----------------------------------------------------------------------------
(* Properties *)

\* The listing adapter has the key of the file operations, or none and the source
\* was restored, its secret not having been saved.
KeysAgree(s) == s.adapter.key = s.ops.key \/ (s.adapter.key = "env" /\ ~s.ops.secret)
AccessAgrees(s) == s.ops.secret => s.adapter.access = s.ops.access

\* Listing (the adapter) and reading (the file operations) of a source were given
\* the same key, whatever updates overlap, and only a restored listing was given
\* none while the operations have one.  As long as no commands overlap they also
\* sign with the same access key; a registration that overlaps changes the
\* environment between the two constructions (storage.rs 331-339).  The session
\* token is not claimed: an update gives it to the operations only (factories.rs 69).
AdapterOpsAgree ==
    \A i \in S3 : KeysAgree(sources[i]) /\ (~spoiled => AccessAgrees(sources[i]))

\* Between commands, when none overlapped, failed or was cut by a crash, the file
\* has every S3 source of memory and the settings have the key each was given, or
\* no key when it was given none: a restart loses no source and takes for it no
\* other key than that, or the environment's.
RestartKeepsSources ==
    running /\ ~spoiled /\ (\A c \in RegClient : run[c] = RegIdle) =>
        /\ S3 \subseteq DOMAIN file
        /\ \A i \in S3 : sources[i].ops.key = IF i \in DOMAIN settings THEN settings[i] ELSE "env"
        /\ {i \in DOMAIN file : file[i] = "s3"} \subseteq S3 \cup ejected

\* A source that was removed by a command nothing disturbed never comes back, in
\* memory or in the file, whatever overlaps, fails or crashes later; only the folders
\* of the user are mounted again by every start.
RemovedStaysRemoved ==
    /\ goneForGood \cap DOMAIN sources \subseteq {Home}
    /\ goneForGood \cap DOMAIN file = {}

\* The sources are well formed, have one key each, survive a restart and, once
\* removed, stay removed (vfs_service.rs, storage_persistence.rs).
RegistrySafe == RegTypeOK /\ AdapterOpsAgree /\ RestartKeepsSources /\ RemovedStaysRemoved
=============================================================================
