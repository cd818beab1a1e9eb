------------------------------ MODULE OllamaSetup ------------------------------
(***************************************************************************)
(* The model and installer commands of src-tauri/src/commands.rs: start and     *)
(* stop a model, pull, run, delete and serve with Ollama, install the tools,      *)
(* and install_all_ai_dependencies, which does all of it in turn.  Ollama is a     *)
(* server of its own (external): it stores a model and then says so in a stream    *)
(* of lines, and may stall, fail, close the stream or stop at any moment.           *)
(***************************************************************************)
EXTENDS Integers, FiniteSets

CONSTANTS Caller,        \* commands that may run at the same time
          AiModel, Contains, \* names of models; which name contains which other
          AiRequest,     \* caller -> set of [cmd, what]
          AiPlatforms,   \* the platforms of the builds
          MaxAiCalls, MaxWaits, MaxLines

ASSUME AiAssumption == Contains \subseteq AiModel \X AiModel /\ MaxWaits \in Nat /\ MaxLines \in Nat
\* The commands: those about a model name one, an installer its tool.
AiCommands == {"start_model", "stop_model", "run", "stop", "delete", "serve", "pull", "install", "all"}
AiNames == AiModel \cup {"ffmpeg", "whisper", "ollama", "none"}
ASSUME AiRequestAssumption ==
    /\ "none" \notin AiModel /\ "llava" \in AiModel
    /\ \A c \in Caller : \A r \in AiRequest[c] :
          /\ r.cmd \in AiCommands /\ r.what \in AiNames
          /\ r.cmd \in {"start_model", "pull"} => r.what \in AiModel

VARIABLES platform, \* of the build
          present,  \* installed tools
          server,   \* whether Ollama answers
          library,  \* the models it has
          loaded,   \* the models it has in memory
          running,  \* RUNNING_MODEL, or "none"
          procs,    \* processes of start_model that live
          caller,   \* command -> where it is
          told,     \* command -> its last answer
          aiCalls

aiVars == <<platform, present, server, library, loaded, running, procs, caller, told, aiCalls>>

Required == "llava"
NoCall_ == [cmd |-> "none", pc |-> "idle", what |-> "none", lines |-> 0, waits |-> 0,
            stored |-> FALSE, errors |-> {}, pulled |-> "no"]
NoAnswer == [cmd |-> "none", ok |-> FALSE, pulled |-> "no"]

AiTypeOK ==
    /\ library \subseteq AiModel /\ loaded \subseteq library /\ running \in AiModel \cup {"none"}
    /\ \A c \in Caller : caller[c].waits \in 0..MaxWaits /\ caller[c].lines \in 0..MaxLines
    /\ ~server => loaded = {}

-----------------------------------------------------------------------------
(* start_model and stop_model hold one mutex throughout. *)
In(c, pc)  == caller[c].pc = pc
Goto(c, pc) == caller' = [caller EXCEPT ![c].pc = pc]
Tell(c, ok) == /\ caller' = [caller EXCEPT ![c] = NoCall_]
               /\ told' = [told EXCEPT ![c] = [cmd |-> caller[c].cmd, ok |-> ok, pulled |-> caller[c].pulled]]
BeginAi(c) ==
    /\ caller[c].cmd = "none" /\ aiCalls < MaxAiCalls /\ aiCalls' = aiCalls + 1
    /\ \E r \in AiRequest[c] :
          caller' = [caller EXCEPT ![c] = [NoCall_ EXCEPT !.cmd = r.cmd, !.what = r.what, !.pc = r.cmd]]
    /\ told' = [told EXCEPT ![c] = NoAnswer]
    /\ UNCHANGED <<present, server, library, loaded, running, procs>>
\* A model that died is still the running one until it is stopped.
start_model(c) ==
    /\ In(c, "start_model")
    /\ \/ /\ running = "none" /\ "ollama" \in present /\ running' = caller[c].what /\ procs' = procs \cup {<<caller[c].what, aiCalls>>} /\ Tell(c, TRUE)
       \/ UNCHANGED <<running, procs>> /\ Tell(c, FALSE)
    /\ UNCHANGED <<present, server, library, loaded, aiCalls>>
\* Mutant of Killed: the process is only forgotten.
KilledLater == procs
Killed == {}
stop_model(c) ==
    /\ In(c, "stop_model")
    /\ IF running = "none" THEN UNCHANGED <<running, procs>> /\ Tell(c, FALSE)
       ELSE running' = "none" /\ procs' = Killed /\ Tell(c, TRUE)
    /\ UNCHANGED <<present, server, library, loaded, aiCalls>>
ModelDies == /\ procs # {} /\ procs' = {}
             /\ UNCHANGED <<present, server, library, loaded, running, caller, told, aiCalls>>

-----------------------------------------------------------------------------
(* Ollama. *)
ollama_run(c) ==
    /\ In(c, "run")
    /\ \/ server /\ caller[c].what \in library /\ loaded' = loaded \cup {caller[c].what} /\ Tell(c, TRUE)
       \/ UNCHANGED loaded /\ Tell(c, FALSE)
    /\ UNCHANGED <<present, server, library, running, procs, aiCalls>>
ollama_stop(c) ==
    /\ In(c, "stop")
    /\ \/ server /\ loaded' = loaded \ {caller[c].what} /\ Tell(c, TRUE)
       \/ UNCHANGED loaded /\ Tell(c, FALSE)
    /\ UNCHANGED <<present, server, library, running, procs, aiCalls>>
ollama_delete(c) ==
    /\ In(c, "delete")
    /\ \/ /\ server /\ caller[c].what \in library /\ library' = library \ {caller[c].what} /\ loaded' = loaded \ {caller[c].what}
          /\ Tell(c, TRUE)
       \/ UNCHANGED <<library, loaded>> /\ Tell(c, FALSE)
    /\ UNCHANGED <<present, server, running, procs, aiCalls>>
\* Elsewhere the process is started and not waited for; on Windows it is only looked for.
ollama_serve(c) ==
    /\ In(c, "serve") /\ UNCHANGED <<present, library, loaded, running, procs, aiCalls>>
    /\ IF platform = "windows" THEN UNCHANGED server /\ Tell(c, server)
       ELSE /\ server' \in {server, server \/ "ollama" \in present} /\ Tell(c, "ollama" \in present)
ServerStops == /\ server /\ server' = FALSE /\ loaded' = {}
               /\ UNCHANGED <<present, library, running, procs, caller, told, aiCalls>>
ServerStarts == /\ ~server /\ "ollama" \in present /\ server' = TRUE
                /\ UNCHANGED <<present, library, loaded, running, procs, caller, told, aiCalls>>

-----------------------------------------------------------------------------
(* ollama_pull: for the command, and from install_all_ai_dependencies. *)
PullOk(c, how) == caller' = [caller EXCEPT ![c].pc = "report", ![c].pulled = how] /\ UNCHANGED told
PullErr(c)     == caller' = [caller EXCEPT ![c].pc = "report", ![c].errors = @ \cup {"model"}] /\ UNCHANGED told
ollama_pull(c) ==
    /\ In(c, "pull") /\ (IF server THEN Goto(c, "stream") /\ UNCHANGED told ELSE PullErr(c))
    /\ UNCHANGED <<present, server, library, loaded, running, procs, aiCalls>>
\* The server stores the model, then says success.
ServerStores(c) ==
    /\ In(c, "stream") /\ server /\ ~caller[c].stored
    /\ library' = library \cup {caller[c].what} /\ caller' = [caller EXCEPT ![c].stored = TRUE]
    /\ UNCHANGED <<present, server, loaded, running, procs, told, aiCalls>>
\* A line: progress, success, or an error; a stream error, or a stop of the server.
PullLine(c) ==
    /\ In(c, "stream")
    /\ \/ server /\ caller[c].lines < MaxLines /\ caller' = [caller EXCEPT ![c].lines = @ + 1] /\ UNCHANGED told
       \/ server /\ caller[c].stored /\ PullOk(c, "stored")
       \/ PullErr(c)
    /\ UNCHANGED <<present, server, library, loaded, running, procs, aiCalls>>
\* No chunk for two minutes, or ten minutes in all.
\* Mutant of PullTimeout: it waits on.
PullTimeoutNever(c) == FALSE /\ PullErr(c)
PullTimeout(c) == PullErr(c)
PullTimesOut(c) == In(c, "stream") /\ PullTimeout(c) /\ UNCHANGED <<present, server, library, loaded, running, procs, aiCalls>>
\* The stream ends without success: the library is asked, and a name that contains
\* the model's will do; if it cannot be asked, all is well.
\* Mutant of StreamEnds: the end of the stream is the end of the pull.
StreamEndsWell(c) ==
    /\ In(c, "stream") /\ PullOk(c, "stored") /\ UNCHANGED <<present, server, library, loaded, running, procs, aiCalls>>
StreamEnds(c) ==
    /\ In(c, "stream") /\ Goto(c, "verify") /\ UNCHANGED <<present, server, library, loaded, running, procs, told, aiCalls>>
Found(m) == \E n \in library : n = m \/ <<n, m>> \in Contains
VerifyPull(c) ==
    /\ \/ In(c, "verify") /\ server /\ Found(caller[c].what) /\ PullOk(c, IF caller[c].what \in library THEN "stored" ELSE "alike")
       \/ In(c, "verify") /\ server /\ ~Found(caller[c].what) /\ PullErr(c)
       \/ In(c, "verify") /\ ~server /\ PullOk(c, "unverified")
    /\ UNCHANGED <<present, server, library, loaded, running, procs, aiCalls>>

-----------------------------------------------------------------------------
(* The installers. *)
\* Through Homebrew, winget, a package manager or a script; whisper.cpp only by hand on
\* Windows.  Each of these programs (external) leaves the tool behind when it exits with
\* success, except the script for Linux: it is piped into a shell, and a shell that was
\* given nothing because the script could not be fetched succeeds all the same.
Installs(t) == CASE platform = "macos" -> "brew" \in present
                 [] platform = "windows" -> t # "whisper"
                 [] platform = "linux" -> TRUE
Installed(t, ok) == /\ (t = "ffmpeg" /\ t \in present) => ok
                    /\ ok => t \in present \/ Installs(t)
                    /\ \/ present' = IF ok THEN present \cup {t} ELSE present
                       \/ platform = "linux" /\ t = "ollama" /\ ok /\ UNCHANGED present
install_tool(c) ==
    /\ In(c, "install")
    /\ \E ok \in BOOLEAN : Installed(caller[c].what, ok) /\ Tell(c, ok)
    /\ UNCHANGED <<server, library, loaded, running, procs, aiCalls>>

ErrorIf(c, bad, e) == IF bad THEN caller[c].errors \cup {e} ELSE caller[c].errors
\* install_all_ai_dependencies, in its order.  whisper.cpp may fail.
InstallFfmpeg(c) ==
    /\ In(c, "all") /\ UNCHANGED <<server, library, loaded, running, procs, told, aiCalls>>
    /\ \E ok \in BOOLEAN : /\ Installed("ffmpeg", ok)
                           /\ caller' = [caller EXCEPT ![c].pc = "whisper", ![c].errors = ErrorIf(c, ~ok, "ffmpeg")]
InstallWhisper(c) ==
    /\ In(c, "whisper") /\ UNCHANGED <<server, library, loaded, running, procs, told, aiCalls>>
    /\ IF "whisper" \in present THEN UNCHANGED present ELSE \E ok \in BOOLEAN : Installed("whisper", ok)
    /\ Goto(c, "ollama")
InstallOllama(c) ==
    /\ In(c, "ollama") /\ UNCHANGED <<server, library, loaded, running, procs, told, aiCalls>>
    /\ \E ok \in BOOLEAN :
          /\ Installed("ollama", ok)
          /\ caller' = [caller EXCEPT ![c].pc = IF ok THEN "wait" ELSE "report", ![c].errors = ErrorIf(c, ~ok, "ollama")]
WaitForOllama(c) ==
    /\ In(c, "wait") /\ UNCHANGED <<present, server, library, loaded, running, procs, told, aiCalls>>
    /\ IF server \/ caller[c].waits = MaxWaits THEN Goto(c, "recheck")
       ELSE caller' = [caller EXCEPT ![c].waits = @ + 1]
NotRunning(c) == ErrorIf(c, ~server, "down")
RecheckOllama(c) ==
    /\ In(c, "recheck") /\ UNCHANGED <<present, server, library, loaded, running, procs, told, aiCalls>>
    /\ caller' = [caller EXCEPT ![c].errors = NotRunning(c), ![c].what = Required, ![c].pc = IF server THEN "pull" ELSE "report"]
\* A program whose end is waited for without a timeout may never end: ollama stop, the
\* installers, what starts the service, and the ollama list by which a server that does
\* not answer is looked for.
WaitsForProgram == {"stop", "install", "all", "whisper", "ollama", "wait", "recheck", "pull"}
ProgramHangs(c) ==
    /\ \E pc \in WaitsForProgram : In(c, pc)
    /\ Goto(c, "hung") /\ UNCHANGED <<present, server, library, loaded, running, procs, told, aiCalls>>
ReportAll(c) ==
    /\ In(c, "report") /\ Tell(c, caller[c].errors = {})
    /\ UNCHANGED <<present, server, library, loaded, running, procs, aiCalls>>

AiInit == /\ platform \in AiPlatforms /\ present \in {{}, {"brew", "ffmpeg", "ollama"}} /\ server = FALSE
          /\ library \in {{}} \cup {{m} : m \in AiModel \ {Required}} /\ loaded = {} /\ running = "none" /\ procs = {}
          /\ caller = [c \in Caller |-> NoCall_] /\ told = [c \in Caller |-> NoAnswer] /\ aiCalls = 0
CallerStep(c) == \/ start_model(c) \/ stop_model(c) \/ ollama_run(c) \/ ollama_stop(c) \/ ollama_delete(c) \/ ollama_serve(c)
                 \/ ollama_pull(c) \/ PullTimesOut(c) \/ VerifyPull(c) \/ install_tool(c)
                 \/ InstallFfmpeg(c) \/ InstallWhisper(c) \/ InstallOllama(c) \/ WaitForOllama(c) \/ RecheckOllama(c) \/ ReportAll(c)
AiNext == /\ \/ \E c \in Caller : BeginAi(c) \/ CallerStep(c) \/ ServerStores(c) \/ PullLine(c) \/ StreamEnds(c) \/ ProgramHangs(c)
             \/ ModelDies \/ ServerStops \/ ServerStarts
          /\ UNCHANGED platform
AiSpec == AiInit /\ [][AiNext]_aiVars

-----------------------------------------------------------------------------
(* Properties *)
\* A process that start_model started and that still lives is the running model:
\* none is forgotten, whatever starts, stops and deaths came before.
NoForgottenModel == procs # {} => running # "none" /\ Cardinality(procs) = 1

\* install_all_ai_dependencies says success only when FFmpeg and Ollama are there and
\* the model was stored (or could not be verified, or was mistaken for one whose name
\* contains its own), through stops of the server between any two steps, and although
\* the script that installs Ollama may say success and have done nothing: a server that
\* answered is asked for before the pull.
SuccessMeansInstalled ==
    \A c \in Caller : told[c].cmd = "all" /\ told[c].ok =>
        {"ffmpeg", "ollama"} \subseteq present /\ told[c].pulled # "no"

\* A pull ends well only when the model was stored during it, or it or one whose
\* name contains its own was in the library, or the library could not be asked: a
\* stream that just ends is not taken for a success.
PullOkMeansStored ==
    [][\A c \in Caller : caller[c].pulled = "no" /\ caller'[c].pulled # "no" =>
          \/ caller[c].stored \/ ~server
          \/ \E n \in library : n = caller[c].what \/ <<n, caller[c].what>> \in Contains]_aiVars

\* Every command returns, though Ollama may stall in the middle of a stream for ever;
\* except one that waits for a program that never ends.
AllReturned == \A c \in Caller : caller[c].cmd = "none" \/ In(c, "hung")

\* One model runs at most, and a success is an installation.
SetupSafe == AiTypeOK /\ NoForgottenModel /\ SuccessMeansInstalled
=============================================================================
