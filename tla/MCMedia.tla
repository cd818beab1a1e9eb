------------------------------- MODULE MCMedia -------------------------------
(* Transcription, the set-up of local models, transcoding and tagging: one       *)
(* component moves in a behaviour, the others stay in an initial state.           *)
EXTENDS TLC, Transcription, OllamaSetup, MediaJobs

CONSTANTS v1, v2, a1, a2, p1, p2
VARIABLE subject

\* Transcription: a file on a mounted disk and one that is fetched into a cache.
View(c, f) == [cmd |-> c, file |-> f]
MCViewRequest == (v1 :> {View("start", "r"), View("transcribe", "r")}) @@ (v2 :> {View("start", "m"), View("transcribe", "r")})
MCToolSets == {{}, {"ffmpeg", "ffprobe", "ollama-whisper", "ffmpeg-whisper"}}

\* OllamaSetup: the required model and one whose name contains its name.
Ai(c, w) == [cmd |-> c, what |-> w]
MCAiModel == {"llava", "llava:13b"}
MCContains == {<<"llava:13b", "llava">>}
MCAiRequest == (a1 :> {Ai("all", "none"), Ai("pull", "llava"), Ai("start_model", "llava"), Ai("serve", "none"), Ai("install", "ollama")})
               @@ (a2 :> {Ai("delete", "llava"), Ai("run", "llava"), Ai("stop", "llava"), Ai("stop_model", "none"), Ai("start_model", "llava")})

\* MediaJobs: videos, one of them remote, an image and a text.
Media(c, f, fmt, n) == [cmd |-> c, file |-> f, format |-> fmt, max |-> n]
MCMediaRequest == (p1 :> {Media("transcode", "v", "hls", 0), Media("transcode", "v", "dash", 0), Media("tag", "t", "hls", 2)})
                  @@ (p2 :> {Media("auto_transcode", "r", "hls", 0), Media("auto_transcode", "t", "hls", 0),
                             Media("tag", "r", "hls", 2), Media("tag", "i", "hls", 1)})
MCFileKind == ("v" :> "video") @@ ("r" :> "video") @@ ("i" :> "image") @@ ("t" :> "other")
MCAnalyses == {<< >>, <<"cat", "dog">>, <<"photo", "video", "cat">>}
MCVision == {{"llama"}, {"moondream", "llava"}, {"llama", "cogvlm"}}

MCInit == /\ subject \in {"transcription", "setup", "jobs"}
          /\ TransInit /\ AiInit /\ MediaInit
          /\ subject # "transcription" => tools = {}
          /\ subject # "setup" => platform = "macos" /\ present = {} /\ library = {}
          /\ subject # "jobs" => installedModels = {"llama"}
MCNext == /\ UNCHANGED subject
          /\ \/ subject = "transcription" /\ TransNext /\ UNCHANGED <<aiVars, mediaVars>>
             \/ subject = "setup" /\ AiNext /\ UNCHANGED <<transVars, mediaVars>>
             \/ subject = "jobs" /\ MediaNext /\ UNCHANGED <<transVars, aiVars>>
MCVars == <<subject, transVars, aiVars, mediaVars>>
\* Weak fairness of the component that moves: a command's task is polled until it ends,
\* a job's child process ends or is killed, and its poller keeps polling.
MCFairness == /\ \A v \in Viewer : WF_MCVars(subject = "transcription" /\ CommandStep(v) /\ UNCHANGED <<subject, aiVars, mediaVars>>)
              /\ \A o \in 1..MaxTrans : WF_MCVars(subject = "transcription" /\ o \in DOMAIN jobs /\ JobStep(o) /\ UNCHANGED <<subject, aiVars, mediaVars>>)
              /\ \A c \in Caller : WF_MCVars(subject = "setup" /\ CallerStep(c) /\ UNCHANGED <<platform, subject, transVars, mediaVars>>)
              /\ \A c \in MediaClient : WF_MCVars(subject = "jobs" /\ Proceed(c) /\ UNCHANGED <<subject, transVars, aiVars>>)
              /\ \A j \in 1..MaxMediaCalls : WF_MCVars(subject = "jobs" /\ j \in DOMAIN mediaJobs /\ JobRuns(j) /\ UNCHANGED <<subject, transVars, aiVars>>)
              /\ \A j \in 1..MaxMediaCalls : WF_MCVars(subject = "jobs" /\ j \in DOMAIN mediaJobs /\ PollJob(j) /\ UNCHANGED <<subject, transVars, aiVars>>)
MCSpec == MCInit /\ [][MCNext]_MCVars /\ MCFairness


\* Every transcription, set-up command, transcode and tagging comes to its end.
EverythingSettles == <>[](AllTranscribed /\ AllReturned /\ AllMade)
=============================================================================
