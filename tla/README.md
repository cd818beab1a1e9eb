# A TLA+ model of Diaspor

Diaspor is a virtual file system written in Rust: a set of crates
(`crates/diaspor-*`) with backends, events, an inference layer and an API
server, and a Tauri desktop application (`apps/vfs-desktop/src-tauri`) with
storage adapters, transfer managers and a registry of running operations.  This
directory holds TLA+ modules for the stateful parts of the program, the TLC
configurations that check them on small instances, and proofs for TLAPS.

Contents: 1 inventory, 2 modules and the code, 3 runs, 4 what the runs found,
5 bounds and fairness, 6 proofs, 7 what is not modelled, 8 plan.

Run a configuration with `tlc -config MCUploadTasks.cfg MCMultipartUpload` and
check a proof with `tlapm ModelHubProofs.tla`.

In this text `app/` stands for `src/apps/vfs-desktop/src-tauri/src/` and `vfs/`
for `app/vfs/`.

## 1. Inventory

### Components, their state and their operations

| Component | State | Operations that change it | Module |
|---|---|---|---|
| In-memory backend, `crates/diaspor-backend-memory` | a flat map from path to node behind one RwLock; handles hold a path | open, create_dir, remove, write | MemoryBackend |
| Operation tracker, `vfs/operation_tracker.rs` | map of operations, `operations.json`, `audit_log.jsonl` | create, progress, complete, fail, cancel, delete, clear, pruning, load | OperationTracker |
| Upload manager, `vfs/multipart_upload.rs` | map of uploads, `multipart_uploads.json`, the bucket | start, resume, upload, pause, cancel, remove, load, save | MultipartUpload |
| Download manager, `vfs/download_manager.rs` | map of downloads, `downloads.json`, the destination files | start, resume, download, pause, cancel, remove, load, save | DownloadManager, Transfer |
| Model hub, `crates/diaspor-infer/src/hub.rs` | the cache directory with models and partial files | resolve, download_to | ModelHub |
| Object storage adapters, `vfs/adapters/{s3,gcs,azure_blob,oracle_object}_storage.rs` | the bucket | every method of the file operations port | ObjectStore |
| Mounted storage adapters, `vfs/adapters/{local,nas,fsxn}_storage.rs` | the file tree | the same methods; listings | FileTree, MountedStorage, Listings |
| File commands, `vfs/commands/{files,cross_storage,file_ops}.rs`, `vfs/use_cases/move_ops.rs` | the sources' trees, the cache, operations | all commands on files | FileCommands |
| Clipboard, `vfs/adapters/clipboard.rs` | the program's and the system's clipboard | copy, cut, paste, export | Clipboard |
| VFS service and registry, `vfs/application/vfs_service.rs`, `vfs/infrastructure/storage_persistence.rs`, `vfs/adapters/settings.rs` | sources with adapters and operations, two files | register, update, test, eject, remove, restore | SourceRegistry |
| NVMe cache, `vfs/adapters/nvme_cache.rs` | index, statistics, files | read, hydrate, evict, invalidate, clear | NvmeCache |
| Token commands, `app/commands.rs` | balances, account identifier, two files | consume, purchase, get, monthly reset | TokenAccount |
| Batch upload, `vfs/commands/uploads.rs` | one operation over many uploads | the walk, the tasks, cancel, clear, restart | BatchUpload |
| Metadata store, `vfs/adapters/metadata_store.rs` | entries, a dirty flag, a file | tags, favourites, labels, ratings, comments | MetadataStore |
| Audit log, `vfs/audit_log.rs`, `vfs/operation_tracking.rs` | entries and a file | log, save, load | AuditLog |
| Log files, `app/logging.rs` | files, an open handle | write, rotate, read, clear | LogFiles |
| Settings, `app/settings.rs`, `app/migrate_config.rs` | settings behind an RwLock, a file, directories of two names | start, migrate, update, reset | AppSettings |
| Transcription, `vfs/adapters/transcription.rs`, `vfs/commands/transcription.rs` | jobs, temporary files, operations | transcribe, start, stop | Transcription |
| Ollama and tools, `app/commands.rs` | the running model, the server's library | start, stop, pull, run, delete, serve, install | OllamaSetup |
| Media jobs, `vfs/commands/{cache,auto_ops}.rs`, `vfs/adapters/ffmpeg_media.rs` | jobs, operations, the media service | transcode, tag, cancel, poll | MediaJobs |
| API server, `crates/diaspor-api-server`, `crates/diaspor-imagegen/src/studio.rs` | token buckets, daily counters | a request through its layers | ApiServer |
| Event sinks, `crates/diaspor-events/src/sink.rs` | files of a VFS, a broadcast channel | emit, subscribe, receive | EventSinks |
| Thumbnails, `vfs/adapters/{thumbnail_queue,native_thumbnail}.rs` | two caches, permits | request, generate, save | Thumbnails |
| Tiers, `vfs/adapters/object_storage_tiering.rs`, `vfs/commands/sync.rs` | objects and temporary objects | sync to a tier | Tiers |

### How they interact

Commands run on the async runtime and call global managers and services.  A
command that starts a transfer, a job or an export spawns a task and returns; the
task shares only the manager's map with the commands that pause, cancel or list.
Locks are held for single accesses, never for a whole operation, so every `await`
is a point where others run.  Nearly everything reports to the operation tracker;
some tasks report progress from the side and may do so late.  State files are
rewritten whole, in place, by whoever changed the state.  Callers of the model hub
and generators of thumbnails meet in a directory only.

### What is hard, and what makes each part correct

* Several steps for what the user takes for one: a rename in a bucket, a move
  between sources, a cut and paste, a tier change, a recursive copy.  Whichever
  step fails or is the last before a stop, no content may disappear that nobody
  was told to delete or replace.
* A copy of shared state that is changed and stored later: token balances,
  metadata entries, source credentials, daily counters.  What was answered must
  be kept, and two pieces of state must not contradict each other.
* State that is saved in files: an answered change must survive a restart;
  overlapping saves must not take one another's entries back.
* Two tasks on one transfer, resume points from counters or file lengths, stale
  maps loaded over newer ones.  A transfer reported as complete must have moved
  the whole file.
* Reports that come late or never: a settled operation must stay settled, and
  every operation must settle.
* Caches: a thumbnail, a cached model, a cached file must be what was asked for.
* Limits: the cache's size, the number of generators, the quotas of the API,
  the history of the tracker, the capacity of a channel.

The hazards behind these, each with its source line and the properties that
cover it, are listed under `hazards` in `PROJECT.json`.

## 2. Modules and the code

`PROJECT.json` maps every definition to the lines it stands for.  The general
conventions are these.

* Where the code holds a lock for a whole method, the method is one action.
  Where a method releases its lock or awaits, it is cut there: a record of the
  client, thread or task has a `pc` naming the stretch that comes next.
* A call of the outside world (a request to a bucket, a file write, a child
  process, a server) is a step that may fail where the code handles a failure.
  `std::fs::write` is two steps, so that a stop in between leaves a torn file.
* A refused call is an action only when the refusal can be told apart from no
  call at all.
* A file's content is a sequence of chunk numbers or a version: it shows from
  which pieces of which file it was put together.
* Variables called history in their comment are read by properties only.
* Definitions introduced by a comment `Mutant of X` are faulty variants of `X`.
  No specification uses them; replacing `X` by one of them must make TLC report
  the property it is paired with in `PROJECT.json`.

**MemoryBackend** - `nodes` is the map, `handles` the paths that open handles
carry, `written` a history variable with the offsets written since the file was
created or truncated.  A path is its sequence of segments.

**OperationTracker** - `ops` is the map, `disk` the state file, `spawned` the
snapshots that the tasks spawned by create have not yet written, `audit` the
entries of the log, `recent` the order of the time stamps as a relation, the only
thing the pruning uses them for.  `writer` is a thread that keeps the write guard across
its save: `delete_operation` and `update_operation_metadata`.  An append to the log and
a write of the state file may fail, which the code only logs; `unaudited` and `saved`
keep track of that for the properties.

**MultipartUpload** - `task[t]` is one call of the manager or one spawned
`upload_chunks`; with `saving` set the task saves before it goes on.  `object` is
the bucket (external: OpenDAL's `write` replaces an object as a whole), a map from
destination keys: several uploads may name one key (`KeyOf`), and what a task writes
and verifies is the object of the key.  Error
texts are abstracted to the kind of the error and to whether the stored text
still holds a marker.

**DownloadManager** - the same shape; the resume point is the length of the
destination file, `local`.  **Transfer** is what a download promises: the copy
grows by the next piece and only a whole copy is reported.  `ImplementsTransfer`
maps `copy` to the destination file and `reported` to what memory or the state
file call Completed.

**ModelHub** - `target` and `partial` are the names in the cache directory and
`file` the inodes behind them, so that a task which has opened the partial file
keeps writing to it after somebody has renamed it.

**ObjectStore** - a bucket is a map from keys (with or without a trailing slash)
to contents; a method is a plan, the sequence of requests it makes, and what a
request answers decides the ones that follow.  The four adapters do not agree on
what OpenDAL's listing returns, so that is a parameter `dal` of the behaviour.

**FileTree**, **MountedStorage**, **Listings** - a file system as a function from
paths to nodes with the system calls as operators; a copy is a step per test and per
change, a rename or mv its system calls (`Sys`), beside other calls; listings one entry
per step with the metadata read after the name, and the tier of an FSx file after that.
What cannot be read is part of both: `copying.missed`, `barred`.

**FileCommands** - a command is its plan, the list of its awaits, over the trees
of four places and the cache.  A rename or mv of an adapter is its system calls, a copy
between sources the loop of its stats, listings, reads and writes (`Asked`, `Follow`), any
other call of an adapter one step; ObjectStore and MountedStorage have the steps inside one.

**Clipboard** - the lock of the internal clipboard is a fair queue (tokio's
RwLock); a paste copies its items at the same time and deletes the cut sources
afterwards; background tasks carry the content to the system's clipboard.

**SourceRegistry** - `sources` is the map of the service with the credential in
the adapter and in the operations, `file` and `settings` the two files, `environment` the
AWS variables of the process, which a registration changes and both adapters fall back
to.  The adapter that lists (`Listing`) is made by the factory, without a session token,
the one for the file operations (`Operations`) after it, with the token.

**NvmeCache**, **TokenAccount**, **MetadataStore**, **AuditLog** - one client
record each with the stretches between two accesses of shared state.  `stray` are the
files the cache failed to delete and no longer counts.

**BatchUpload** - composes the walk over the local disk with an upload manager
(`manager`, `store`, `driver`) and a tracker entry (`entry`, `tracker`); the parts are
abstractions of MultipartUpload and OperationTracker that keep what the batch can see:
the ids that were saved and that a list of the uploads loads back, and that the tracker
answers nobody once an operation was deleted.

**LogFiles** - names and inodes apart: a line may go to a file that has been
shifted or removed since its handle was taken.

**AppSettings** - a start is migration, loading, writing back, with a fallback
directory and memory as the last resort; `writer` is the write lock that an update
never gives back.

**Transcription**, **MediaJobs**, **OllamaSetup** - commands, the tasks they
spawn and the outside processes (FFmpeg, Whisper, Ollama), which are external and
may fail, stall or stop.  A transcription is given a path and reads it later (`PathHas`,
`ReadFrom`); the program may stop at any step of one.  Where the code waits without a
timeout the step has an alternative that never ends: `ProgramHangs`, `BodyStops`,
`BodyStalls`.

**ApiServer** - tokens are counted in sixtieths, so that a second's refill is a
whole number, a tick is a number of seconds, and a second has `SecondParts` parts, which
the wait until midnight cuts off.  A paid provider answers, fails or keeps silent.
**EventSinks** - one emit is three sinks at once, the VFS sink one call of a backend per
step, which may fail and may leave a part of a body; `backend` is the memory or the local one.
**Thumbnails** - slots of a batch, permits, a memory cache under a lock and a
persistent one without.  **Tiers** - the five requests of an object's tier change.

**Maps** - what `insert` does to a map of the program (`Entered`), written so that it
can be reasoned about.

## 3. Runs

| Run | Checks | Instance |
|---|---|---|
| memory | BackendSafe, CallsSound | five paths on three levels, two handles, writes at offsets 0 and 1 of 0 to 2 bytes |
| tracker | TrackerSound, PruneKeepsNewest, CallsReturn | one thread, one operation with two files and a restart; or two threads, two operations, three calls, max_history 1; appends and writes that fail |
| upload_tasks | BucketSound, ConfirmedIsWhole, TasksNeverResurrect, TasksEnd | two tasks and write errors: one upload of two parts with one restart, or two uploads of different length to one key |
| download_resume | FilesSound, ImplementsTransfer, TasksEnd | three chunks, two tasks of which one drives the download, two restarts |
| hub | ResolvedIsGood, CacheKept, CallsEnd | one call at a time with wrong bytes and two crashes; or two calls at a time with one crash |
| storage | ObjectStoreSafe, CommandsSafe, ClipboardSafe, CopiesSafe, CutKeepsData | four buckets, four readings of listings, three mounted trees, two commands of all kinds over four places, two clipboard users with three calls |
| service | RegistrySafe, CacheSafe, AccountSafe, BatchSafe, MetadataSafe, AuditKept, SettingsKept, EachOnce | two clients each; a stop, a failed write or a failed delete wherever one is possible; a batch with three commands beside it, lists of the uploads among them |
| media | TranscriptsWhole, SetupSafe, DoneIsThere, SettledStaysSettled, OverStaysOver, PullOkMeansStored, EverythingSettles | two commands of each kind with their jobs, reporters, one mishap and one stop of the program |
| server | ApiSafe, EventsSafe, ThumbnailsSafe, TieringSafe, AnswersWhole | two requests at a time around midnight, two events of one window at once and a failing store, two thumbnail callers, two tier changes, a directory that changes twice and has an entry that cannot be read |

The modules MCStorage, MCService, MCMedia and MCServer hold several components.
`subject` says which of them moves in a behaviour; the others keep their initial
state, so the components are checked side by side and not multiplied.

Some of these are conjunctions of properties that are stated, and mostly proved, one by
one: BackendSafe of BackendOK (well typed and a tree) and ContentsOK; TrackerSound of
EveryOperationAudited, CompletedMeansAllFiles and StateFileCurrent; ObjectStoreSafe
includes ListingsWhole; AccountSafe is BalancesConsistent and EveryGrantCounted;
BatchSafe includes BatchFindsEveryFile; ApiSafe is QuotasHold and AnswersRight; EachOnce
is LinesKept and BatchFindsFilesOnce; AnswersWhole is ImagesAnswered and ListingsSafe.

What the passing runs say of the code:

* memory: the tree stays a tree under every order of calls, and a stale handle
  never reads or leaves behind bytes of the node it was opened on.
* tracker: an operation is shown as Completed only with complete files, in
  memory, in the state file and in every snapshot on its way there.  Every operation that
  can be seen is in the audit log, about to be, or its own append failed, which nobody is
  told.  When the calls have returned the file is the map, unless its last write failed
  or held an older snapshot.
* upload_tasks: the size check at the end of `upload_chunks` is what protects a
  caller: an Ok from it means that the whole file was under the key, or that another
  upload to the same key left as many bytes there.  The status stored before that check
  means less (see 4).
* download_resume: taking the length of the destination file as resume point
  makes downloads robust against stale state files and restarts: the manager
  implements Transfer, provided one task at a time works on a download
  (`PoliteSpec`).
* hub: one caller gets the pinned model or an error, although files are renamed
  before they are verified and are not synced.  Overlapping calls never damage a
  complete cached model.
* storage: a rename or move that copies first and deletes afterwards keeps every
  content at its old or new place, whichever request fails; an Ok is the whole
  change; pages show every entry once; all apart from the three cases in 4.  A copy
  touches nothing but its destination, and one that nobody disturbed is whole but for
  what could not be read.  Two commands at a time lose nothing but
  what one was told to delete or replace, apart from the cases in 4.  The sources
  of a cut go only when every item is copied.
* service: the adapter and the operations of a source were given one key, and sign
  with one access key while commands do not overlap; a
  restart after undisturbed commands loses no source; the cache's index exceeds its limit
  by at most one file per concurrent call; balances add up; a batch finds every
  file once and shows every failure of a chosen file; an answered metadata change is on disk; audit
  entries, log lines and settings survive.
* media: a transcription hears one whole version of its file, apart from the cases in 4;
  no late report reopens a settled operation; a Completed transcode has its playlist, a
  Completed tagging has stored every tag it reports but those whose own save failed;
  `install_all_ai_dependencies` says success only with the tools there, although the
  script for Linux may say so without installing anything; and everything settles that
  does not wait without a timeout.
* server: no key gets more tokens than bucket and refill pay for, nor is a day
  charged beyond its cap; a request is served only behind a valid token and told to
  wait until a token is there, no second longer, or to within a second of midnight; an
  image request goes to the next provider when one answers with an error; an event whose
  emit did not answer with the store's own error is in the store until another of its
  window opens the file; a thumbnail shows
  the file it was asked for; a failed tier change leaves the newest version in
  the bucket; listings show every entry nobody touched, the local ones except a file that
  cannot be read, and sizes count every file the walk can come to.

## 4. Where the code does something else

### Runs that end with a counterexample

The comments these contradict are quoted under `findings` in `PROJECT.json`.

| Run | Property | What the counterexample shows |
|---|---|---|
| tracker_delete | DeleteReturns | `delete_operation` asks for the read lock while it holds the write lock and never returns; `update_operation_metadata` has the same shape |
| upload_resume | CompletedIsWhole | a resumed upload writes only the remainder of the file over the object and stores Completed before the size is verified |
| clipboard_wedge | ExternalPasteAnswers | `get_clipboard` asks for the write lock while it holds the read lock: a paste after copying in the file manager never answers |

### Behaviours the models contain

Each of these is a behaviour of a module; the property concerned names it as an
exception (`IntoItself`, `MvLoses`, `Told`, `Outrun`, `Overwritten`, `tainted`,
`blurred`, `jostled`, `contested`, `mixed`, `lost`, ...), or the instance leaves it out
as said.

Locks.  Every update and reset of the settings takes the write lock and then, in
`save`, the read lock (`ChangeSettings`, `save_prefs`; `app/settings.rs` 261,
351): the first one never returns and the settings commands after it wait.
`select_for_eviction` reads the cache's index twice, nested
(`vfs/adapters/nvme_cache.rs` 62).

Tracker.  A failed append to the audit log is only logged: the operation goes on
unaudited (`operation_tracker.rs` 347); so is a failed write of the state file, which then
stays behind the map.  Operations finished by file updates are neither pruned nor given a
final audit entry; a snapshot write that is late brings back what `clear_all`
removed; a torn `operations.json` makes the initialisation panic.

Transfers.  `upload_chunks` never looks at the status, so a paused upload is written all
the same and one that is cancelled while it runs is written after its object was
deleted; the text stored for a permanent error no longer holds the marker
`resume_upload` looks for; `vfs_list_uploads` replaces the map by a file that may be
older.  Two uploads may have one key, and the check compares sizes only: an Ok may be
given for the other upload's bytes when there are as many of them (`Overwritten`;
`multipart_upload.rs` 393, 488).  A download resumed while a task still works on it is
written twice (`PoliteSpec` leaves this out); foreign bytes at the destination count as
a partial download; a task stores InProgress over Paused.  Two overlapping calls of the
hub share the partial file: one may answer Ok for a file the other has just truncated
(`ResolvedIsGood` is claimed for calls that no other call overlapped).

Storage.  No adapter compares source and destination: a rename or mv onto itself or
into its own subtree deletes what it has just written, a copy into its own subtree may
overwrite an entry it has yet to copy (`IntoItself`).  Of an object beside a prefix of its
own name (`Shadowed`) mv loses the keys below (`MvLoses`), rename and copy take the object
only, and the rm_rf of S3 deletes only the keys below (`HalfDone`; `s3_storage.rs` 1132,
1238).  A local copy answers Ok although it has skipped what it could not read
(`copying.missed`; `local_storage.rs` 114); what somebody puts at the destination between a
test and the change after it is replaced.  An append
whose read fails replaces the object; Azure's and Oracle's `write_at` past the end
panics.  rm_rf of Azure and Oracle deletes root objects when listings return last
segments.  truncate of the NAS and FSx adapters always fails, their copy onto
itself empties the file and into itself never ends; the local mv ignores
`overwrite: false`.

Commands.  `vfs_touch` empties an existing file; `vfs_append_text` replaces a file
it could not read; a move between sources to the same place deletes the file, two
opposite moves lose both; a rename takes the place of a file that has just been put there
(`Outrun`); a move of a directory deletes what was put there meanwhile; three paths
out of the cross-source commands leave the operation InProgress.  The cache is
keyed by path only, so a move to the native file system may write another
source's file.

Clipboard.  A cut clears a newer clipboard; a late export overwrites a newer
system clipboard; a directory that cannot be listed counts as copied and a cut then
deletes it; of two cut items with one name one is lost; `paste_to_native` leaves
cut directories; a paste between sources lands at `dest/x/x`.

Registry.  The session token is given to the file operations and not to the adapter that
lists (`factories.rs` 69).  A registration changes the environment both fall back to
(`storage.rs` 331), so that one which overlaps another may leave a source with two
access keys.  The secret of a credential is never stored; ejecting is not saved; a source
that could not be restored is erased by the next save; mounted folders are saved and not
restored; the user's folders are mounted by every start, also after they were removed
(`RemovedStaysRemoved` excepts them); two commands lose one another's change of a file;
a torn settings file fails every later save of credentials.

Cache, tokens, metadata.  A failed `remove_file` is ignored and the entry dropped: the
file stays and is no longer counted (`stray`; `nvme_cache.rs` 194, 210, 257).  Caching a
file again counts its size twice; a reader may see a file half written; files of an
earlier run are never evicted.  Two consumes at once grant the same tokens; two first
commands make two accounts; a torn `tokens.json` or `metadata.json` blocks its
commands.  Two commands on one file's metadata lose one change; two first commands make
two stores.

Batch upload.  No file is ever marked Completed, so a batch never completes; the
operation stays Pending when the source is refused; a cancelled operation turns
Failed when its task notices; uploads started after the cancel's listing stay.  A list
of the uploads that is loaded again brings back one that was removed or drops one that was
not yet saved.  The operation of a chosen folder lists the folder and not what is in it: the
failure of a file below it is shown nowhere (`uploads.rs` 399, 668).  `delete_operation`
takes the tracker with it: what needs its lock later waits for ever.

Records.  A multi-file operation with incomplete files is logged while it still runs; a
torn audit log is silently dropped for the legacy one.  Two threads may rotate the log at
once and lose lines (`jostled`; `LinesKept` speaks of the others); after `clear_logs`
lines go to a removed file until the next start; max_files 0 never rotates.  A start that
is stopped while it writes the settings back leaves a file the next start replaces by
the defaults; a rename that fails leaves the old brand's state where no later start
looks for it, because by then the new directory exists.

Media.  A transcription gets a path that FFmpeg reads later: a mounted file may change
before or while it is read (`Mixed`).  A program stopped while it writes the copy of a remote
file leaves half of it, which `exists` accepts from then on; two commands may write one copy
at once.  A start without FFmpeg leaves its operation Pending; a stopped job may end
as Completed; a cache file is never looked at again.  `curl | sh` succeeds when `curl` fails:
the command that installs Ollama on Linux may report an installation that did nothing
(`commands.rs` 1006); that the
other installers' success is the tool's presence is assumed of them.  `ollama stop`, the
`ollama list` of the fallback, the installers and the rest of an answer of Ollama's that has
begun are waited for without a timeout and may never end; the list of the models is read
under the write lock of the transcription service.  A tag that could not be added is only
warned about, reported all the same, and the operation Completed.  A pull that ends counts as a
success when the list cannot be read or holds a longer name; two error paths of
tagging and a job cancelled between its end and the next poll leave their
operation open; two first users make two media services.

Server.  The wait until midnight is cut to whole seconds (`rate_limit.rs` 243) and ends
up to a second early: a client that waits as long as it was told is refused again,
although the comment promises a retry after the rollover (191).  `AnswersRight` allows
that second.  A provider that keeps silent keeps its request: there is no timeout and no
next provider (`openai.rs` 44, `gemini.rs` 43).  A request that read the old day is
charged to the new day's counter; one the daily cap refuses has spent a token; an
invalid image request is tried on every provider and answered 500.  Two events of one
window may both open its file before either writes, and the shorter body over the longer
one leaves a mix of both, where the comment promises that one replaces the other
(`sink.rs` 43); a failed write leaves a torn file.  The local backend reports an existing
directory as an I/O error, so the sink over it refuses every event after the one that
made the directories, although they are said to be tolerated (42).  A file moved over
another with an equal or older modification time keeps the old thumbnail
(`thumbnail_queue.rs` 191), also over a restart.  A thumbnail's memory cache ignores size
and change; macOS output is taken by file name; a cut-off save leaves a partial
entry.  Tier targets are offered for GCS and Azure and then refused; two tier changes of
one object, or one and a writer, may lose a version.  A NAS or FSx listing fails when an
entry vanishes; the local listing and every size leave out what cannot be read, and
sizes what is deeper than 100 levels.  FSx says that every directory and every file that
is not cold is cached, whatever the cache holds (`fsxn_storage.rs` 123, 271).

## 5. Bounds and fairness

Bounds.  Two tasks, clients or threads are enough for the hazards listed: each is
one actor's step between two steps of another.  Two parts are the fewest with a
resume point strictly inside an upload; a download has three chunks, so that the
resume point can also lie behind what the last save counted.  One crash is enough
for what is lost in memory and two for a crash during the recovery.  `SaveEvery`
is 2 where the code has 5, `MaxHistory` is 1, `ChannelCapacity` 1 where the code
has 1024, `MaxFiles` and `MaxFileSize` of the log 1: the limit is met within the
instance.  `PerMinute` and `DailyCap` are 2 and a day has three ticks, so that
bucket, cap and midnight fall into one behaviour; a second has two parts (`SecondParts`),
the fewest of which a whole second can be cut.  Three calls are the fewest with which two
uploads to one key overlap and one is verified.  One failing call of the event store
(`MaxVfsErrors`), one stop of the program (`MaxStops`) and one entry that cannot be read
(`LookBarred`) can each fall on any step; `LookDepth` is 2 where the code has 100, and one
file lies deeper.  The constants named `Max...`
bound calls, crashes, failures and changes; each is a guard of the action it
counts.  Requests are the members of a small set per client (`MCRegRequest`,
`MCRequest`, ...), chosen so that every command occurs and so that two clients
meet on one file, source, key or account.  No symmetry is declared: requests differ
per client, and some runs check liveness, where it is not sound.

Deadlock checking is off where the model really may stop: when all calls are used
up and have returned, or when a lock is never given back.

Fairness.  It is weak fairness of each started call's next step, one conjunct per
task or thread (`Proceed`, `Continue`, `CommandStep`, `JobStep`, `CallerStep`,
`JobRuns`, `PollJob`).  The runtime polls every task that is ready and the
operating system runs every thread and child process, and none of these steps
waits for anything but the lock its guard names, a timeout the code has, or a program
outside.  Nothing is assumed about commands being issued.  Requests to Ollama get their
answer or the client's timeout; where the code waits without one (`ollama stop`, the
fallback `ollama list`, the installers, the rest of an answer) a step that never ends is an
alternative, and the liveness properties except what it leaves open (`Stuck`, `lost`, a
caller in `hung`).  That FFmpeg and the engines of a transcription end by themselves is an
assumption about these programs.  Errors are not fair: they may always or never happen.

## 6. Proofs

Eight modules hold proofs.  Each extends the modules it is about, so the theorems
speak of the specifications TLC checks, for every value of the constants that
satisfies the ASSUMEs: any number of clients, tasks, files, sources and crashes.
Where a run moves one of several components, the component has a specification of
its own (`TokenSpec`, `MetaSpec`, `BatchSpec`, ...) and the theorem is about that one.

| Module | Theorem | States |
|---|---|---|
| MemoryBackendProofs | BackendCorrect | `Spec => []BackendOK` |
| | ContentsCorrect | `Spec => []ContentsOK` |
| | BackendSafeCorrect | `Spec => []BackendSafe` |
| | CallsCorrect | `Spec => CallsSound` |
| OperationTrackerProofs | CompletedCorrect, MapsCorrect | `Spec => []CompletedMeansAllFiles`, `Spec => []MapsTyped` |
| | TrackerCorrect | `Spec => []TrackerSound` |
| | PruneCorrect | `Spec => PruneKeepsNewest` |
| MultipartUploadProofs | BucketCorrect | `Spec => []BucketSound` |
| | ConfirmedCorrect | `Spec => ConfirmedIsWhole` |
| | ResurrectionImpossible | `Spec => TasksNeverResurrect` |
| | WalkCorrect | `BatchSpec => []BatchFindsEveryFile` |
| | BatchCorrect | `BatchSpec => []BatchSafe` |
| DownloadManagerProofs | FilesCorrect | `Existing \subseteq {0} => (PoliteSpec => []FilesSound)` |
| | RefinesTransfer | `Existing \subseteq {0} => (PoliteSpec => ImplementsTransfer)` |
| ModelHubProofs | CacheCorrect | `~Corrupt => (Spec => CacheKept)` |
| | ResolvedCorrect | `Spec => ResolvedIsGood` |
| ServiceProofs | RegistryCorrect | `RegSpec => []RegistrySafe` |
| | BalancesCorrect, GrantsCorrect | `TokenSpec => []BalancesConsistent`, `TokenSpec => []EveryGrantCounted` |
| | AccountCorrect | `TokenSpec => []AccountSafe` |
| | MetadataCorrect | `MetaSpec => []MetadataSafe` |
| | AuditCorrect | `AuditSpec => []AuditKept` |
| | SettingsCorrect | `SettingsSpec => []SettingsKept` |
| MediaProofs | TranscriptsCorrect, SettledCorrect | `TransSpec => []TranscriptsWhole`, `TransSpec => SettledStaysSettled` |
| | SetupCorrect, PullsCorrect | `AiSpec => []SetupSafe`, `AiSpec => PullOkMeansStored` |
| | DoneCorrect, OverCorrect | `MediaSpec => []DoneIsThere`, `MediaSpec => OverStaysOver` |
| ServerProofs | TieringCorrect | `TierSpec => []TieringSafe` |
| | QuotasCorrect, AnswersCorrect | `ApiSpec => []QuotasHold`, `ApiSpec => []AnswersRight` |
| | ApiCorrect | `ApiSpec => []ApiSafe` |

**Hypotheses.**  Two theorems need one beyond the constants' types.  Downloads: no
foreign bytes at a destination (`Existing \subseteq {0}`) and one task at a time on
a download (`PoliteSpec`); without either the code really mixes files (section 4).
`CacheCorrect`: the server sends the model, because a complete download of wrong
bytes does replace the file in the cache; `ResolvedCorrect` has no such hypothesis.
The ASSUMEs are about the types of the constants and say that the values that mean
"none" are no member of the sets they are joined to.  Some say what a request may be:
a listing of metadata by colour asks for a colour; a command on media, recordings,
tiers or models is one of the commands there are and names a file, object or model
there is (`MediaRequestAssumption`, `TransRequestAssumption`,
`TierRequestAssumption`, `AiRequestAssumption`).  `LegacyAssumption`: the log of an
earlier version names no operation of this one, ids being made anew.
`BatchDiskAssumption`: a local disk is finite and what holds an entry is a directory of it.

**MemoryBackendProofs.**  `TypeOK /\ TreeOK` is inductive.  The type needs that a
sparse write gives a sequence of bytes again (`SpliceType`); the tree needs the
emptiness test of `remove`: a node whose parent is removed would lie below it
(`ParentAbove`), and the test says there is none.  `ContentsOK` adds what a write
does to each byte: inside the chunk it is the chunk's, in the gap it is zero,
elsewhere it is what it was, and the history changes in the same places.

**OperationTrackerProofs.**  `CompletedMeansAllFiles` is not inductive for the map
alone: a restart installs the state file and a spawned write installs a snapshot, and
a status can only be recomputed soundly for a record of the right type.  `IInv`
therefore says of the map, of the file and of every snapshot that each record is
well typed and sound.  `TrackerSound` needs a second invariant, `AuditInv`: where a
creating thread stands says whether its operation may already be seen and by whom; every
operation that can be seen has its entry, is about to get it, or belongs to a thread whose
append failed (`unaudited`).  `FileInv` is about the state file: when no thread is saving and
no snapshot is on its way it equals the map, unless the last write failed or held an older
map, and every write compares what it holds with the map of that moment (`saved`).
`PruneKeepsNewest` is about cardinalities: that `max_history` finished operations are
more recent than a pruned one does not yet say that they stay, but the most recent
pruned one among them (there is one, the map being finite) is followed by
`max_history` that do (`EnoughKept`).

**MultipartUploadProofs.**  An object is the rest of its file from some resume point
that lies before the end, and a task's resume point lies before the end too: a write
never leaves an empty object.  The object of a key is such a rest of a file of some upload
to that key.  As long as the whole file it is that file, or comes from another upload to the
key: this is what the size check gives, and no more (`Overwritten`).

Of the batch, `BatchInv` says that a file that failed has failed the tracker's record
whatever is done to the record meanwhile (`EntryRight`; one lemma per operation of the
tracker), that tasks and uploads belong to queued files, and that what a cancellation
found when it listed the uploads still contains every upload there is, if the batch had
been started (`CancelRight`).  A list loaded again holds ids that were saved once, and
these belong to queued files too (`TasksRight`).  `WalkInv` is about the walk: the items
dealt with are a beginning of the argument list, and what is queued together with the
files below the paths on the stack makes up what they and the folder being walked ask
for.  The step is `BelowEntries`: on a disk whose directories hold their entries, the
files below a directory are those below its entries.  `AllListed` gives the rest:
`read_dir` puts every entry on the stack, in whatever order.

**DownloadManagerProofs.**  From the look at the destination's length to the end of
the loop a task's offset is that length (`TaskSound`), every file is a beginning of its
remote file, and whatever calls a download Completed (the map, the state file, a
snapshot being installed) finds it whole.  One lemma per action then shows the step of
Transfer or the stutter.

**ModelHubProofs.**  `CacheCorrect` joins `HubTyped` (the cache path and the partial
name never denote the same file), `OfflineCorrect` (with offline set no call is past
the gate) and `CachedCorrect` (truncation hits only the partial file, and a late write
of chunk n at position n leaves a good file as it is, `WriteAtGood`).
`ResolvedCorrect` follows a call that nobody overlaps: after a verified lookup or a
verified download the file under the cache path is the model until the answer; what
other calls left there before does not matter.

**ServiceProofs.**  One part per component.

*The source registry.*  `RestartKeepsSources` speaks of moments between
commands.  `RegInv` says what each command on its way has done and still owes: `Always`
holds whatever overlaps, fails or crashes (what a command read never names a source that
is removed for good, a source being made is nobody else's, the two adapters were given
one key), and `Undisturbed`, while nothing overlapped, that memory and the two files
differ only in what the one running command owes, and that the adapters also sign with
one access key: the environment changes only at the start of a registration, before
either adapter is made.  `CommandStep` and `AloneStep` carry the two parts over any step
of a command; one lemma per action gives them their premises.

*The token account.*  The invariant has four parts, `Copies`, `Memory`, `OnDisk`
and `Others`: a balance a command has copied is stored later, and one that was saved
is loaded by a later start, so all three places have to be sound at once.
`EveryGrantCounted` adds what the one running command has granted and not yet stored
or not yet saved, and when the next reset is due for the copies.

*The metadata store.*  `save` answers Ok without writing when the dirty flag is
down.  `MetaInv` says why that is sound: an entry that memory holds and the file does
not is still to be saved by the command that changed it, the flag is up once that
command has raised it, and a save that is about to clear the flag has written
everything (`ToSave`).  It is claimed per entry, for the entries no two commands
changed at once.

*The audit log.*  `AuditInv`: a task that has appended its operation holds a copy of the
log only while it keeps the read lock, so the copy is the log itself (`AuditSteps`), and
overlapping saves write the same; a file is torn only while a task writes it.  An
operation is appended once because its task appends once and the old log does not
name it.

*The settings.*  Only the start ever writes the file: a client that takes the write lock
waits for itself, and from then on nobody is answered (`OnlyMainSaves`): the theorem says
that the settings are kept, not that a client is ever answered.  The earlier
settings are either still under the old name, and then no start has got beyond loading
unless something was refused (`StillOld`), or under the new one or in memory on the
way there (`NowNew`).

**MediaProofs.**  *Transcription*: `Owns` ties a command under way to an operation of
its own, and `WholeCopies`, `WholeJobs` and `WholeHeard` follow a version of a recording
from the file over the cache to what is heard; `tainted` are the remote files whose copy
two commands filled at once, or a failed write or a stop of the program left half
written.  `OpenOperations` says that what a command or a job still has to settle is open
and nobody else's; a late report then meets a settled operation only in the two places
that look at the status first.  *OllamaSetup*: `AiInv` knows after each step of
`install_all_ai_dependencies` which tools are there or that an error was noted
(`Installing`; that Ollama is there follows from the server's answer before the pull,
not from the script's success), and that at most one process of `start_model` is
unaccounted for.  *MediaJobs*: `MediaInv` says that a Completed job has its playlist and
that an operation is polled, or a tagging's, or over (`Watched`, `Serves`); from the
choice of a model to the stored tags a tagging knows a model that sees, tags that fit,
and of each tag it has dealt with that it is stored or that its own `add_tag` failed
(`Sees`, `Finds`).

**ServerProofs.**  *Tiers*: `KeysInv` says for every object that no second change or writer
met where its newest version is after each of the five requests; `OpsInv` that a command's
counts are those of its settled operations and that at most the newest is open.
*ApiServer*: what a bucket holds and what was taken from it since any admission is at most
a full bucket and the refill of that time, which every refill and every debit keeps; a
counter is what was charged to its own day and no later day was charged, so a request
that read the day before midnight is charged to the counter it meets; and a request past the
auth layer keeps the moment its token was looked at.  `AnswersRight` is then arithmetic on
the bucket's wait, which is rounded up, and on the one until midnight, which is cut to whole
seconds and so ends less than a second from midnight on either side (`BackAtMidnight`).

**Checked by TLC only.**

* The liveness properties (CallsReturn, TasksEnd, CallsEnd, EverythingSettles): the prover
  has no rule for ENABLED under fairness.
* What sums and sorts compute: BatchFindsFilesOnce (the number of files a batch queues),
  CacheSafe (the sizes of the cached files), ImagesAnswered and ListingsSafe (sorted
  sequences), LinesKept (the viewer sorts the lines of several files), the sizes in
  ListingsWhole.  The prover cannot use induction over data, and `SortSeq` and `SelectSeq`
  are opaque to its backends.
* EventsSafe: what a leaf holds depends on the order of the opens and writes of any number
  of emits (`leafOpen`), and what a subscriber has seen is a recursion over the channel.
* ClipboardSafe and CommandsSafe: their exceptions name what the other client of the run
  does; for any number of clients they would have to be restated first.
* ObjectStoreSafe, CopiesSafe, CutKeepsData and ThumbnailsSafe: no obstacle of principle.
  A method there is a plan of requests, a copy a work list, so their invariants would have
  to follow the plan of every method.

## 7. What is not modelled

* Time stamps (except where they order something), speeds and estimates.
* Torn writes of the tracker's and the transfer managers' state files; they are
  modelled for the hub, the registry, tokens, metadata, audit log and settings.
* Destination writes of a download that are still in tokio's buffer when the next
  step runs, and failures of `save_states`.
* Of a tier change: its refusals for a target removed meanwhile (`sync.rs` 107) and for an
  adapter that cannot be made (187), and an operation cleared meanwhile, whose end is then
  only logged (135, 142, 211, 218).  The temporary object is `k.tiering`; an object of the
  user's own with that name would be overwritten and deleted, and no instance has one.
* The exit status of the installers but `curl | sh`: success is taken to mean that the tool
  is there.
* Characters of paths, keys and texts beyond what is said in 2; encodings of the
  systems' clipboards; FFmpeg's and the installers' arguments.
* The hydrated operator and the FUSE mount of the desktop application
  (`vfs/hydration.rs`, `vfs/mount.rs`, `vfs/filesystem.rs`): no command mounts it,
  its writes and deletes have no callers, and its callbacks ask for the handle of a
  runtime their thread does not have.
* Code without callers or without effect: `use_cases/transcription.rs`,
  `model_manager`, `vfs_warm_file`, `vfs_sync`, `vfs_start_upload` and other stubs,
  the `track_*_operation` wrappers, `refresh_s3_credentials`.
* The local backend beyond what the event sink sees of it (one system call per call), the
  model catalog (a table), the
  conformance suite (tests), GPU metrics, the command line, and the crates for
  index, vision, frames, streams and training (numeric pipelines).

## 8. Plan

Done: the core (MemoryBackend, OperationTracker, MultipartUpload, DownloadManager,
ModelHub), then the storage layer, the application's own state, media and server
components, the abstract Transfer and its refinement, and the proofs of section 6.

Open:

1. ThumbnailsSafe and ObjectStoreSafe, whose proofs meet no obstacle but their length.
2. CommandsSafe and ClipboardSafe, restated so that the exceptions speak of any client.
3. The counting properties, once the prover can use induction over finite sets.
