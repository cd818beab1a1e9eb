----------------------------- MODULE Transcription -----------------------------
(***************************************************************************)
(* Transcription: commands/transcription.rs over adapters/transcription.rs.     *)
(* A command gets the file (from the mount, or into a cache that is never        *)
(* checked again), then either runs the whole transcription itself while a        *)
(* second task simulates its progress, or starts a job: a task that runs FFmpeg,   *)
(* and one that reads progress off its stderr.  Each reports to the operation      *)
(* tracker.  What they pass on is a path: FFmpeg reads what is there when it gets     *)
(* to it, and as long as it reads.  What is said in a recording is the version of    *)
(* the file it was read from.                                                      *)
(***************************************************************************)
EXTENDS Integers, Sequences, FiniteSets, Functions, Maps

CONSTANTS Viewer,       \* commands that may run at the same time
          Mounted, Remote, \* recordings, by where their source is
          ViewRequest,  \* command -> set of [cmd, file]
          ToolSets,     \* sets of installed tools
          MaxTrans, MaxEdits, MaxStops, Updates \* progress updates a task makes

ASSUME TransAssumption == MaxTrans \in Nat /\ MaxEdits \in Nat /\ MaxStops \in Nat /\ Updates \in Nat

VARIABLES tools,      \* the installed tools; those of TranscriptionService::new
          service,    \* whether the service was made
          recording,  \* path -> version, or Missing
          copied,     \* the transcription cache: path -> version or Half
          tracked,    \* the operations, in order: [file, status, bytes]
          jobs,       \* operation -> its live job
          updates,    \* operation -> progress updates still to come
          wavs,       \* extracted audio: operation -> version
          viewer,     \* command -> where it is
          heard,      \* operation -> the version that was listened to
          tainted,    \* the files that two commands wanted at once, or whose copy was not
                      \* written to its end
          stops, cut  \* stops of the program, and the operations they left open

transVars == <<tools, service, recording, copied, tracked, jobs, updates, wavs, viewer, heard, tainted, stops, cut>>

Engines == <<"whisper-cli", "insanely-fast-whisper", "ollama-whisper", "ffmpeg-whisper">>
Missing == -1
Half == -2
Mixed == -3    \* read while it was changed
Recordings == Mounted \cup Remote
ASSUME TransRequestAssumption ==
    /\ "none" \notin Recordings /\ Mounted \cap Remote = {}
    /\ \A v \in Viewer : \A r \in ViewRequest[v] : r.cmd \in {"start", "transcribe"} /\ r.file \in Recordings
Settled == {"Completed", "Failed"}
Off == [cmd |-> "none", pc |-> "idle", op |-> 0, file |-> "none", got |-> Missing]

TransTypeOK ==
    /\ \A o \in DOMAIN tracked : tracked[o].status \in {"Pending", "InProgress"} \cup Settled
    /\ \A o \in DOMAIN jobs : /\ jobs[o].status \in {"Starting", "Running", "Stopped"} \cup Settled
                              /\ jobs[o].pc = "over" => jobs[o].status \in Settled \cup {"Stopped"}
    /\ DOMAIN wavs \cup DOMAIN heard \cup DOMAIN jobs \cup DOMAIN updates \subseteq DOMAIN tracked
    /\ \A v \in Viewer : viewer[v].op \in 0..Len(tracked)

-----------------------------------------------------------------------------
(* The tracker, as these commands use it. *)
create_operation(f) == tracked' = Append(tracked, [file |-> f, status |-> "Pending", bytes |-> 0])
Finish(o, s) == tracked' = [tracked EXCEPT ![o].status = s]
\* Mutant of Progressed: any operation is in progress again.
ProgressedAgain(op, n) == [op EXCEPT !.status = "InProgress", !.bytes = n]
Progressed(op, n) == [op EXCEPT !.status = IF @ = "Pending" THEN "InProgress" ELSE @, !.bytes = n]

-----------------------------------------------------------------------------
(* A command, step by step. *)
At_(v, pc)  == viewer[v].pc = pc
Next_(v, pc) == viewer' = [viewer EXCEPT ![v].pc = pc]
Hangs_up(v) == viewer' = [viewer EXCEPT ![v] = Off]
FailsOp(v)  == Finish(viewer[v].op, "Failed") /\ Hangs_up(v)
Idle_(v)    == viewer[v].cmd = "none"

\* vfs_start_transcription and vfs_transcribe_file register the operation first.
BeginTranscription(v) ==
    /\ Idle_(v) /\ Len(tracked) < MaxTrans
    /\ \E r \in ViewRequest[v] :
          /\ create_operation(r.file)
          /\ viewer' = [viewer EXCEPT ![v] = [cmd |-> r.cmd, pc |-> "find", op |-> Len(tracked) + 1, file |-> r.file, got |-> Missing]]
          /\ tainted' = tainted \cup ({viewer[u].file : u \in Viewer} \cap {r.file})
    /\ UNCHANGED <<tools, service, recording, copied, jobs, updates, wavs, heard, stops, cut>>

\* get_or_cache_file_for_transcription: a mounted file is used where it is, a cached
\* one as it is; else it is read, and written to the cache, which others may see
\* half done.  The answer is the path.
Holds(v, pc, x) == viewer' = [viewer EXCEPT ![v].pc = pc, ![v].got = x]
\* Mutant of Written: the write is not waited for.
WrittenLater(x) == Half
Written(x) == x
get_or_cache_file_for_transcription(v) ==
    LET f == viewer[v].file IN
    /\ \/ /\ At_(v, "find") /\ f \in Mounted /\ UNCHANGED <<copied, tainted>>
          /\ IF recording[f] = Missing THEN FailsOp(v) ELSE Next_(v, "service") /\ UNCHANGED tracked
       \/ /\ At_(v, "find") /\ f \in Remote /\ UNCHANGED <<copied, tracked, tainted>>
          /\ Next_(v, IF f \in DOMAIN copied THEN "service" ELSE "read")
       \/ /\ At_(v, "read") /\ UNCHANGED <<copied, tainted>>
          /\ \/ recording[f] # Missing /\ Holds(v, "create", recording[f]) /\ UNCHANGED tracked
             \/ FailsOp(v)
       \/ /\ At_(v, "create") /\ copied' = Entered(copied, f, Half) /\ Next_(v, "write") /\ UNCHANGED <<tracked, tainted>>
       \/ /\ At_(v, "write")
          /\ \/ copied' = Entered(copied, f, Written(viewer[v].got)) /\ Next_(v, "service") /\ UNCHANGED <<tracked, tainted>>
             \/ UNCHANGED copied /\ FailsOp(v) /\ tainted' = tainted \cup {f}
    /\ UNCHANGED <<tools, service, recording, jobs, updates, wavs, heard, stops, cut>>
\* What is at the path it answered.
PathHas(f) == IF f \in Mounted THEN recording[f] ELSE IF f \in DOMAIN copied THEN copied[f] ELSE Missing
\* What FFmpeg has read that opened the path when x was there.
ReadFrom(f, x) == {x} \cup (IF PathHas(f) \in {x, Missing} THEN {} ELSE {Mixed})

\* The service is made once, by whoever asks first; if that fails, the next one tries.
\* Making it asks Ollama for its models under the write lock that everyone waits for.
Making == {v \in Viewer : At_(v, "making")}
get_transcription_service(v) ==
    /\ At_(v, "service") /\ Making = {}
    /\ \/ service' = TRUE /\ Next_(v, "available") /\ UNCHANGED tracked
       \/ ~service /\ UNCHANGED service /\ FailsOp(v)
    /\ UNCHANGED <<tools, recording, copied, jobs, updates, wavs, heard, tainted, stops, cut>>
is_transcription_available == {"ffmpeg", "ffprobe"} \subseteq tools
\* Only one of the two commands fails the operation when FFmpeg is missing.
CheckAvailable(v) ==
    /\ At_(v, "available")
    /\ CASE is_transcription_available /\ viewer[v].cmd = "start" -> Next_(v, "probe") /\ UNCHANGED <<tracked, updates>>
         [] is_transcription_available /\ viewer[v].cmd = "transcribe" ->
              Next_(v, "extract") /\ UNCHANGED tracked /\ updates' = Entered(updates, viewer[v].op, Updates)
         [] ~is_transcription_available /\ viewer[v].cmd = "start" -> Hangs_up(v) /\ UNCHANGED <<tracked, updates>>
         [] OTHER -> FailsOp(v) /\ UNCHANGED updates
    /\ UNCHANGED <<tools, service, recording, copied, jobs, wavs, heard, tainted, stops, cut>>

-----------------------------------------------------------------------------
(* vfs_transcribe_file *)
extract_audio(v) ==
    /\ \/ /\ At_(v, "extract") /\ UNCHANGED wavs
          /\ LET x == PathHas(viewer[v].file)
             IN  IF x = Missing THEN FailsOp(v) ELSE Holds(v, "extracting", x) /\ UNCHANGED tracked
       \/ /\ At_(v, "extracting")
          /\ \/ /\ \E x \in ReadFrom(viewer[v].file, viewer[v].got) : wavs' = Entered(wavs, viewer[v].op, x)
                /\ Next_(v, "engine") /\ UNCHANGED tracked
             \/ wavs' \in {wavs, Entered(wavs, viewer[v].op, Half)} /\ FailsOp(v)
    /\ UNCHANGED <<tools, service, recording, copied, jobs, updates, heard, tainted, stops, cut>>
\* The first engine that is installed, and no other if it fails.
EngineUsed == IF \E i \in DOMAIN Engines : Engines[i] \in tools
              THEN Engines[CHOOSE i \in DOMAIN Engines : Engines[i] \in tools /\ \A j \in 1..(i - 1) : Engines[j] \notin tools]
              ELSE "none"
\* What an engine printed is read as one of four formats, else as plain text: only
\* blank output gives no segments.
parse_whisper_json(o, x) == IF o = "blank" THEN << >> ELSE <<x>>
EngineOutputs == {"segments", "transcription", "text", "unknown", "blank"}
transcribe_audio_file(v) ==
    /\ At_(v, "engine")
    /\ \/ /\ EngineUsed # "none" /\ Next_(v, "clean") /\ UNCHANGED tracked
          /\ \E o \in EngineOutputs : heard' = Entered(heard, viewer[v].op, parse_whisper_json(o, wavs[viewer[v].op]))
       \/ FailsOp(v) /\ UNCHANGED heard
    /\ UNCHANGED <<tools, service, recording, copied, jobs, updates, wavs, tainted, stops, cut>>
\* The audio is removed (which may fail), and the operation completed.
vfs_transcribe_file(v) ==
    /\ At_(v, "clean") /\ Hangs_up(v) /\ Finish(viewer[v].op, "Completed")
    /\ wavs' \in {wavs, Restrict(wavs, DOMAIN wavs \ {viewer[v].op})}
    /\ UNCHANGED <<tools, service, recording, copied, jobs, updates, heard, tainted, stops, cut>>

-----------------------------------------------------------------------------
(* vfs_start_transcription *)
start_live_transcription(v) ==
    /\ At_(v, "probe")
    /\ \/ /\ PathHas(viewer[v].file) # Missing
          /\ jobs' = Entered(jobs, viewer[v].op, [status |-> "Starting", pc |-> "start", file |-> viewer[v].file, got |-> Missing])
          /\ Hangs_up(v) /\ UNCHANGED tracked
       \/ FailsOp(v) /\ UNCHANGED jobs
    /\ UNCHANGED <<tools, service, recording, copied, updates, wavs, heard, tainted, stops, cut>>
\* The task is Running whatever a stop said before; it ends Completed whatever ended FFmpeg.
RunJob(o) ==
    /\ jobs[o].pc = "start" /\ jobs' = [jobs EXCEPT ![o].pc = "spawn", ![o].status = "Running"]
    /\ UNCHANGED <<tools, service, recording, copied, tracked, updates, wavs, viewer, heard, tainted, stops, cut>>
SpawnFfmpeg(o) ==
    /\ jobs[o].pc = "spawn"
    /\ jobs' = [jobs EXCEPT ![o].pc = "read", ![o].got = PathHas(jobs[o].file)]
    /\ updates' = Entered(updates, o, Updates)
    /\ UNCHANGED <<tools, service, recording, copied, tracked, wavs, viewer, heard, tainted, stops, cut>>
SpawnFails(o) ==
    /\ jobs[o].pc = "spawn" /\ jobs' = [jobs EXCEPT ![o].pc = "over", ![o].status = "Failed"] /\ Finish(o, "Failed")
    /\ UNCHANGED <<tools, service, recording, copied, updates, wavs, viewer, heard, tainted, stops, cut>>
JobOver(o) == Finish(o, "Completed")
EndOfStream(o) ==
    /\ jobs[o].pc = "read" /\ jobs' = [jobs EXCEPT ![o].pc = "over", ![o].status = "Completed"] /\ JobOver(o)
    /\ IF jobs[o].got = Missing THEN UNCHANGED heard
       ELSE \E x \in ReadFrom(jobs[o].file, jobs[o].got) : heard' = Entered(heard, o, <<x>>)
    /\ UNCHANGED <<tools, service, recording, copied, updates, wavs, viewer, tainted, stops, cut>>
\* vfs_stop_transcription and vfs_cancel_transcription, with an identifier that
\* vfs_list_transcriptions gave (the one a start answers names no job: nothing happens).
\* Any job is Stopped; FFmpeg is killed if it was started, and its stream ends.
stop_transcription(o) ==
    /\ jobs[o].status # "Stopped" /\ jobs' = [jobs EXCEPT ![o].status = "Stopped"]
    /\ UNCHANGED <<tools, service, recording, copied, tracked, updates, wavs, viewer, heard, tainted, stops, cut>>

\* The simulated progress of a command, or what FFmpeg's stderr said: neither task
\* looks whether the operation is over.
ReportProgress(o) ==
    /\ updates[o] > 0 /\ updates' = [updates EXCEPT ![o] = @ - 1]
    /\ tracked' = [tracked EXCEPT ![o] = Progressed(@, Updates - updates[o] + 1)]
    /\ UNCHANGED <<tools, service, recording, copied, jobs, wavs, viewer, heard, tainted, stops, cut>>

\* A recording is changed or deleted at its source.
EditRecording(f) ==
    /\ recording[f] \in 0..(MaxEdits - 1)
    /\ recording' = [recording EXCEPT ![f] = @ + 1] \/ recording' = [recording EXCEPT ![f] = Missing]
    /\ UNCHANGED <<tools, service, copied, tracked, jobs, updates, wavs, viewer, heard, tainted, stops, cut>>

\* The program stops and is started again: the copies and the tracked operations are
\* still there, whatever was being done is not.
StopProgram ==
    /\ stops < MaxStops /\ stops' = stops + 1
    /\ viewer' = [v \in Viewer |-> Off] /\ service' = FALSE /\ jobs' = << >> /\ updates' = << >>
    /\ tainted' = tainted \cup {viewer[v].file : v \in {u \in Viewer : At_(u, "write")}}
    /\ cut' = cut \cup {o \in DOMAIN tracked : tracked[o].status \notin Settled}
    /\ UNCHANGED <<tools, recording, copied, tracked, wavs, heard>>

TransInit == /\ tools \in ToolSets /\ service = FALSE /\ recording = [f \in Recordings |-> 0] /\ copied = << >>
             /\ tracked = << >> /\ jobs = << >> /\ updates = << >> /\ wavs = << >> /\ heard = << >>
             /\ viewer = [v \in Viewer |-> Off] /\ tainted = {} /\ stops = 0 /\ cut = {}
CommandStep(v) == \/ get_or_cache_file_for_transcription(v) \/ get_transcription_service(v) \/ CheckAvailable(v)
                  \/ extract_audio(v) \/ transcribe_audio_file(v) \/ vfs_transcribe_file(v) \/ start_live_transcription(v)
\* Ollama answers and then sends no more, for ever: only its first answer is waited for
\* with a timeout.  The body is the list of models when the service is made, or the
\* transcript of the engine.
BodyStops(v) ==
    /\ \/ At_(v, "service") /\ Making = {} /\ ~service /\ Next_(v, "making")
       \/ At_(v, "engine") /\ EngineUsed = "ollama-whisper" /\ Next_(v, "hung")
    /\ UNCHANGED <<tools, service, recording, copied, tracked, jobs, updates, wavs, heard, tainted, stops, cut>>
JobStep(o) == RunJob(o) \/ SpawnFfmpeg(o) \/ SpawnFails(o) \/ EndOfStream(o)
TransNext == \/ \E v \in Viewer : BeginTranscription(v) \/ CommandStep(v) \/ BodyStops(v)
             \/ \E o \in DOMAIN jobs : JobStep(o) \/ stop_transcription(o)
             \/ \E o \in DOMAIN updates : ReportProgress(o)
             \/ (\E f \in Recordings : EditRecording(f)) \/ StopProgram
TransSpec == TransInit /\ [][TransNext]_transVars

-----------------------------------------------------------------------------
(* Properties *)
\* What FFmpeg read, for a transcription that is answered or a job, is of one version
\* of the file, or of several when a mounted file was changed while it was read; of a
\* remote file it is never what was half written, unless two commands filled the copy
\* at once, or a failed write or a stop of the program left it so (exists() takes it).
HearsWholeFile ==
    \A o \in DOMAIN heard : \A i \in DOMAIN heard[o] :
        LET f == tracked[o].file
        IN  \/ heard[o][i] \in 0..MaxEdits \/ (f \in Mounted /\ heard[o][i] = Mixed)
            \/ (f \in Remote /\ f \in tainted)

\* Progress that arrives late (from the simulation, or from the stderr reader, when
\* the command or the job is over) never brings a settled operation back.
SettledStaysSettled ==
    [][\A o \in DOMAIN tracked : tracked[o].status \in Settled => tracked'[o].status = tracked[o].status]_transVars

\* Every operation is Completed or Failed once the commands are over, through any
\* failure of any step and a stop of the job at any moment; only a start without FFmpeg,
\* a stop of the program and an answer of Ollama that stops in the middle leave one open,
\* the last also those of the commands that wait for the service then.
Stuck(v) == viewer[v].pc \in {"making", "hung"} \/ (At_(v, "service") /\ Making # {})
AllTranscribed == is_transcription_available =>
    \A o \in DOMAIN tracked \ cut : tracked[o].status \in Settled \/ \E v \in Viewer : viewer[v].op = o /\ Stuck(v)

\* What was transcribed is one whole version of the file.
TranscriptsWhole == TransTypeOK /\ HearsWholeFile
=============================================================================
