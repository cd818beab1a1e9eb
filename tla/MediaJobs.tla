------------------------------ MODULE MediaJobs ------------------------------
(***************************************************************************)
(* Transcoding and automatic tagging: vfs_transcode_video of                  *)
(* commands/cache.rs, vfs_auto_transcode and vfs_auto_tag_file of              *)
(* commands/auto_ops.rs, the jobs of adapters/ffmpeg_media.rs and the media      *)
(* service of infrastructure/media_state.rs.  A transcode runs as a task of its    *)
(* own that another task polls; tagging runs in the command, beside a task that    *)
(* reports made-up progress.  Sources are removed and jobs cancelled meanwhile.   *)
(***************************************************************************)
EXTENDS Integers, Sequences, FiniteSets, Maps

CONSTANTS MediaClient,    \* commands that may run at the same time
          MediaRequest,   \* client -> set of [cmd, file, format, max]
          FileKind,       \* file -> "video", "image" or "other"
          RemoteFiles,         \* files of a source that is not mounted
          Analyses,       \* what a vision model may answer: sequences of tags
          Vision,         \* sets of installed models
          MaxMediaCalls,  \* bound on the commands
          MaxTrouble      \* bound on cancels and removals of the source

ASSUME MediaAssumption == MaxMediaCalls \in Nat /\ MaxTrouble \in Nat

\* What the frontend may ask for: a command, one of the files, at most so many tags; and
\* a vision model answers with a sequence of tags.
MediaCommands == {"transcode", "auto_transcode", "tag"}
ASSUME MediaRequestAssumption ==
    /\ \A c \in MediaClient : \A r \in MediaRequest[c] : r.cmd \in MediaCommands /\ r.file \in DOMAIN FileKind /\ r.max \in Nat
    /\ \A f \in DOMAIN FileKind : FileKind[f] \in {"video", "image", "other"}
    /\ \A a \in Analyses : a \in Seq({a[i] : i \in DOMAIN a})

VARIABLES media,     \* MEDIA state: the client that made the installed service, or NoService
          maker,     \* client -> the command it runs
          mediaJobs,      \* job id -> [status, task, file, format, owner, playlist]
          mediaTracked,   \* operation id -> its status in the tracker
          watching,  \* operations whose job a task polls
          pretending, \* operations a task reports made-up progress for
          tagsOf,    \* operation id -> [kind, max, reported, saved, failed]: the tags it
                     \* reports, and those add_tag has stored or not stored
          aiCache,   \* remote files fetched to the temporary directory
          removed,   \* the source was removed
          installedModels,
          mediaCalls, trouble,
          lost       \* history: operations nobody will settle any more

mediaVars == <<media, maker, mediaJobs, mediaTracked, watching, pretending, tagsOf, aiCache, removed, installedModels, mediaCalls, trouble, lost>>

NoService == "none"
Unused == [cmd |-> "none", pc |-> "idle", id |-> 0, svc |-> NoService, file |-> "none", format |-> "hls", max |-> 0, found |-> << >>, model |-> "none"]
Open    == {"Pending", "InProgress"}
MediaSettled == {"Completed", "Failed"}

\* preferred_models, then any model that sees.
Preferred == <<"llava:13b", "llava:34b", "llava:latest", "llava", "bakllava", "moondream">>
is_vision_model(m) == m \in {Preferred[i] : i \in 1 .. Len(Preferred)} \cup {"llava:7b", "cogvlm"}
find_best_vision_model(ms) ==
    LET known == {i \in 1 .. Len(Preferred) : Preferred[i] \in ms}
    IN  IF known # {} THEN Preferred[CHOOSE i \in known : \A j \in known : i <= j]
        ELSE IF \E m \in ms : is_vision_model(m) THEN CHOOSE m \in ms : is_vision_model(m) ELSE "none"

\* The tags kept of an answer: room for the kind's tag first, then the limit.
MediaTaken(s, n) == SubSeq(s, 1, IF n < Len(s) THEN n ELSE Len(s))
Within(s)   == {s[i] : i \in 1 .. Len(s)}
WithKind(tags, kind) ==
    CASE kind = "video" /\ "video" \notin Within(tags) -> <<"video">> \o tags
      [] kind = "image" /\ Within(tags) \cap {"image", "photo"} = {} -> <<"image">> \o tags
      [] OTHER -> tags
\* Mutant of KeptTags: no room is kept for the kind.
KeptTagsCrowded(answer, kind, max) == MediaTaken(MediaTaken(answer, max) \o <<kind>>, max)
KeptTags(answer, kind, max) == MediaTaken(WithKind(MediaTaken(answer, IF max = 0 THEN 0 ELSE max - 1), kind), max)

-----------------------------------------------------------------------------
At(c, pc)  == maker[c].pc = pc
Go(c, r)   == maker' = [maker EXCEPT ![c] = r]
GoTo(c, p) == Go(c, [maker[c] EXCEPT !.pc = p])
End(c)     == Go(c, Unused)
\* Mutant of MediaProgressed: any operation is in progress again.
MediaProgressedAgain(s) == "InProgress"
MediaProgressed(s) == IF s = "Pending" THEN "InProgress" ELSE s
Track(id, s)  == mediaTracked' = Entered(mediaTracked, id, s)
Id(c)         == maker[c].id
Same          == UNCHANGED <<removed, installedModels, mediaCalls, trouble>>

BeginMedia(c) ==
    /\ At(c, "idle") /\ mediaCalls < MaxMediaCalls /\ mediaCalls' = mediaCalls + 1
    /\ \E r \in MediaRequest[c] :
          /\ Go(c, IF r.cmd = "auto_transcode" /\ FileKind[r.file] # "video" THEN Unused ELSE
                   [Unused EXCEPT !.cmd = r.cmd, !.id = mediaCalls + 1, !.file = r.file, !.format = r.format, !.max = r.max,
                                  !.pc = IF r.cmd = "tag" THEN "ask" ELSE "service"])
          /\ IF r.cmd = "tag" THEN Track(mediaCalls + 1, "Pending") ELSE UNCHANGED mediaTracked
    /\ UNCHANGED <<media, mediaJobs, watching, pretending, tagsOf, aiCache, removed, installedModels, trouble, lost>>

\* The first user makes the service; of two first users both do, and the later
\* one's service replaces the other's with its jobs.
get_or_init_service(c) ==
    /\ \/ At(c, "service") /\ media # NoService /\ Go(c, [maker[c] EXCEPT !.svc = media, !.pc = "resolve"]) /\ UNCHANGED media
       \/ At(c, "service") /\ media = NoService /\ GoTo(c, "install") /\ UNCHANGED media
       \/ At(c, "service") /\ media = NoService /\ End(c) /\ UNCHANGED media   \* no output directory, no FFmpeg
       \/ At(c, "install") /\ media' = c /\ GoTo(c, "service")
    /\ Same /\ UNCHANGED <<aiCache, mediaJobs, mediaTracked, watching, pretending, tagsOf, lost>>

\* A remote file is fetched once and never again; fetching asks the source, which
\* may fail or be gone.
CanFetch(f) == f \notin RemoteFiles \/ f \in aiCache \/ ~removed
get_or_cache_file(f) == CanFetch(f) /\ aiCache' = aiCache \cup ({f} \cap RemoteFiles)

\* vfs_transcode_video asks for a mounted source, vfs_auto_transcode fetches the
\* file; either may find no file.
Resolve(c) ==
    /\ At(c, "resolve")
    /\ \/ End(c) /\ UNCHANGED aiCache
       \/ /\ ~removed /\ (maker[c].cmd = "transcode" => maker[c].file \notin RemoteFiles)
          /\ get_or_cache_file(maker[c].file) /\ GoTo(c, "start")
    /\ Same /\ UNCHANGED <<media, mediaJobs, mediaTracked, watching, pretending, tagsOf, lost>>

\* transcode: the job is entered and its task started; vfs_transcode_video
\* tracks an operation and polls the job, vfs_auto_transcode does neither.
transcode(c) ==
    /\ At(c, "start")
    /\ mediaJobs' = Entered(mediaJobs, Id(c), [status |-> "Pending", task |-> "starting", file |-> maker[c].file, format |-> maker[c].format, owner |-> maker[c].svc, playlist |-> FALSE])
    /\ IF maker[c].cmd = "transcode" THEN Track(Id(c), "Pending") /\ watching' = watching \cup {Id(c)}
       ELSE UNCHANGED <<mediaTracked, watching>>
    /\ End(c) /\ Same /\ UNCHANGED <<aiCache, media, pretending, tagsOf, lost>>

\* The job's task writes its status without looking at it: a cancelled job goes
\* on, and its FFmpeg is not stopped.
Process(j) == mediaJobs[j].task = "starting" /\ mediaJobs' = [mediaJobs EXCEPT ![j].status = "Processing", ![j].task = "running"]
Over(j, s, made) == mediaJobs' = [mediaJobs EXCEPT ![j].status = s, ![j].task = "over", ![j].playlist = made]
transcode_hls_static(j) == (mediaJobs[j].format = "hls" /\ Over(j, "Completed", TRUE)) \/ Over(j, "Failed", FALSE)
JobRuns(j) == /\ Process(j) \/ (mediaJobs[j].task = "running" /\ transcode_hls_static(j))
              /\ Same /\ UNCHANGED <<aiCache, media, maker, mediaTracked, watching, pretending, tagsOf, lost>>

\* One cancel or one removal of the source at a time.
Trouble == trouble < MaxTrouble /\ trouble' = trouble + 1 /\ UNCHANGED mediaCalls
cancel_transcode(j) ==
    /\ Trouble /\ mediaJobs' = [mediaJobs EXCEPT ![j].status = "Cancelled"]
    /\ lost' = lost \cup (IF mediaJobs[j].task = "over" THEN {j} ELSE {})
    /\ UNCHANGED <<media, maker, mediaTracked, watching, pretending, tagsOf, aiCache, removed, installedModels>>

Ended(s) == s \in MediaSettled
\* The polling task, every second: it ends when it sees Completed or Failed.
PollJob(j) ==
    /\ j \in watching
    /\ \/ /\ Ended(mediaJobs[j].status) /\ Track(j, mediaJobs[j].status) /\ watching' = watching \ {j}
       \/ /\ ~Ended(mediaJobs[j].status) /\ mediaTracked[j] = "Pending" /\ Track(j, MediaProgressed(mediaTracked[j])) /\ UNCHANGED watching
    /\ Same /\ UNCHANGED <<aiCache, media, maker, mediaJobs, pretending, tagsOf, lost>>

-----------------------------------------------------------------------------
(* vfs_auto_tag_file. *)
MarkFailed(c) == Track(Id(c), "Failed") /\ End(c)
\* Ollama, the service, the listing, the file's kind and a model that sees.
AskForTags(c) ==
    /\ At(c, "ask")
    /\ LET m == find_best_vision_model(installedModels)
       IN  IF FileKind[maker[c].file] = "other" \/ m = "none" THEN MarkFailed(c)
           ELSE \/ MarkFailed(c)
                \/ Go(c, [maker[c] EXCEPT !.model = m, !.pc = "source"]) /\ UNCHANGED mediaTracked
    /\ Same /\ UNCHANGED <<aiCache, media, mediaJobs, watching, pretending, tagsOf, lost>>
\* A source removed since is an error that leaves the operation as it is.
FindSource(c) ==
    /\ At(c, "source") /\ UNCHANGED mediaTracked
    /\ IF removed THEN End(c) /\ lost' = lost \cup {Id(c)} /\ UNCHANGED pretending
       ELSE GoTo(c, "analyze") /\ pretending' = pretending \cup {Id(c)} /\ UNCHANGED lost
    /\ Same /\ UNCHANGED <<aiCache, media, mediaJobs, watching, tagsOf>>
\* The file is fetched, a frame extracted, the model asked: each may fail.
Analyze(c) ==
    /\ At(c, "analyze")
    /\ \/ MarkFailed(c) /\ (UNCHANGED aiCache \/ get_or_cache_file(maker[c].file))
       \/ \E a \in Analyses : get_or_cache_file(maker[c].file) /\ Go(c, [maker[c] EXCEPT !.found = KeptTags(a, FileKind[maker[c].file], maker[c].max), !.pc = "store"])
                              /\ UNCHANGED mediaTracked
    /\ Same /\ UNCHANGED <<media, mediaJobs, watching, pretending, tagsOf, lost>>
\* Without a metadata store the operation is left as it is.
OpenStore(c) ==
    /\ At(c, "store") /\ UNCHANGED mediaTracked
    /\ \/ GoTo(c, "save") /\ UNCHANGED lost
          /\ tagsOf' = Entered(tagsOf, Id(c), [kind |-> FileKind[maker[c].file], max |-> maker[c].max, reported |-> maker[c].found,
                                              saved |-> {}, failed |-> {}])
       \/ End(c) /\ lost' = lost \cup {Id(c)} /\ UNCHANGED tagsOf
    /\ Same /\ UNCHANGED <<aiCache, media, mediaJobs, watching, pretending>>
\* A tag that cannot be stored is only warned about: the others are stored all the same.
SaveTag(c) ==
    /\ At(c, "save") /\ maker[c].found # << >>
    /\ \/ tagsOf' = [tagsOf EXCEPT ![Id(c)].saved = @ \cup {Head(maker[c].found)}]
       \/ tagsOf' = [tagsOf EXCEPT ![Id(c)].failed = @ \cup {Head(maker[c].found)}]
    /\ Go(c, [maker[c] EXCEPT !.found = Tail(@)])
    /\ Same /\ UNCHANGED <<aiCache, media, mediaJobs, mediaTracked, watching, pretending, lost>>
CompleteTagging(c) ==
    /\ At(c, "save") /\ maker[c].found = << >> /\ Track(Id(c), "Completed") /\ End(c)
    /\ Same /\ UNCHANGED <<aiCache, media, mediaJobs, watching, pretending, tagsOf, lost>>
\* Ollama answers and then sends no more: only its first answer is waited for with a
\* timeout, not the body of the list of models nor that of the analysis.
BodyStalls(c) ==
    /\ At(c, "ask") \/ At(c, "analyze")
    /\ GoTo(c, "hung") /\ lost' = lost \cup {Id(c)}
    /\ Same /\ UNCHANGED <<aiCache, media, mediaJobs, mediaTracked, watching, pretending, tagsOf>>
\* The made-up progress goes on after the tagging is over.
Pretend(id) ==
    /\ id \in pretending
    /\ \/ mediaTracked[id] # MediaProgressed(mediaTracked[id]) /\ Track(id, MediaProgressed(mediaTracked[id])) /\ UNCHANGED pretending
       \/ pretending' = pretending \ {id} /\ UNCHANGED mediaTracked
    /\ Same /\ UNCHANGED <<aiCache, media, maker, mediaJobs, watching, tagsOf, lost>>

RemoveSource ==
    /\ Trouble /\ ~removed /\ removed' = TRUE
    /\ UNCHANGED <<media, maker, mediaJobs, mediaTracked, watching, pretending, tagsOf, aiCache, installedModels, lost>>

MediaInit == /\ media = NoService /\ maker = [c \in MediaClient |-> Unused] /\ mediaJobs = << >> /\ mediaTracked = << >>
             /\ watching = {} /\ pretending = {} /\ tagsOf = << >> /\ aiCache = {} /\ removed = FALSE /\ installedModels \in Vision
             /\ mediaCalls = 0 /\ trouble = 0 /\ lost = {}
Proceed(c) == \/ get_or_init_service(c) \/ Resolve(c) \/ transcode(c) \/ AskForTags(c) \/ FindSource(c) \/ Analyze(c)
              \/ OpenStore(c) \/ SaveTag(c) \/ CompleteTagging(c)
MediaNext == \/ RemoveSource \/ \E c \in MediaClient : BeginMedia(c) \/ Proceed(c) \/ BodyStalls(c)
             \/ \E j \in DOMAIN mediaJobs : JobRuns(j) \/ cancel_transcode(j) \/ PollJob(j)
             \/ \E id \in pretending : Pretend(id)
MediaSpec == MediaInit /\ [][MediaNext]_mediaVars

-----------------------------------------------------------------------------
(* Properties *)
get_stream_url(f, fmt) == {j \in DOMAIN mediaJobs : mediaJobs[j].owner = media /\ mediaJobs[j].file = f /\ mediaJobs[j].format = fmt /\ mediaJobs[j].status = "Completed"}

\* The tags of a tagging: no more than were asked for, the file's kind among them, and
\* each was stored or is one whose own add_tag failed.
TagsThere(t) ==
    /\ Len(t.reported) <= t.max /\ Within(t.reported) = t.saved \cup t.failed
    /\ t.max > 0 /\ t.kind = "video" => "video" \in Within(t.reported)
    /\ t.max > 0 /\ t.kind = "image" => Within(t.reported) \cap {"image", "photo"} # {}

\* What is reported as done is there: an operation that is Completed, and every job
\* a stream address is given for, has its playlist; and a tagging that is Completed has
\* stored every tag it reports but those whose own add_tag failed, which
\* vfs_auto_tag_file reports all the same; its model is one that sees.
DoneIsThere ==
    /\ \A j \in DOMAIN mediaJobs : j \in DOMAIN mediaTracked /\ mediaTracked[j] = "Completed" => mediaJobs[j].playlist
    /\ \A f \in DOMAIN FileKind : \A j \in get_stream_url(f, "hls") : mediaJobs[j].playlist
    /\ \A id \in DOMAIN mediaTracked : mediaTracked[id] = "Completed" /\ id \in DOMAIN tagsOf => TagsThere(tagsOf[id])
    /\ \A c \in MediaClient : At(c, "store") => is_vision_model(maker[c].model) /\ maker[c].model \in installedModels

\* Neither the polling nor the made-up progress, which goes on after the end,
\* reopens an operation.
OverStaysOver == [][\A id \in DOMAIN mediaTracked : mediaTracked[id] \in MediaSettled => mediaTracked'[id] = mediaTracked[id]]_mediaVars

\* Every tracked transcode and tagging is settled in the end, also when it was
\* cancelled while it ran; except where the code lets go of it: a source removed or a
\* metadata store that fails in the middle of a tagging, an answer of Ollama that stops in
\* the middle, a job cancelled between its end and the next poll.
AllMade == \A id \in DOMAIN mediaTracked : id \in lost \/ mediaTracked[id] \in MediaSettled
=============================================================================
