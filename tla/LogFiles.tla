------------------------------- MODULE LogFiles -------------------------------
(***************************************************************************)
(* logging.rs: the application's log files.  Every thread that logs a line       *)
(* looks at the size of diaspor.log, shifts the files when it is full, takes a      *)
(* clone of the shared handle (opening the file when there is none) and appends.    *)
(* Only the handle is under the lock: sizes and names are looked at and changed       *)
(* outside it.  get_logs reads the files one after the other and clear_logs             *)
(* removes them while threads log.  A file is an inode: it outlives its name.             *)
(***************************************************************************)
EXTENDS Naturals, Sequences, FiniteSets, TLC

CONSTANTS LogThread,
          MaxFileSize, \* lines in a file, for max_file_size
          MaxFiles,    \* rotated files kept, for max_files
          ReadFiles,   \* files read_logs and clear_logs look at: 6
          Limit,       \* lines asked for by get_logs
          MaxLines, MaxLogTrouble

ASSUME LogAssumption == MaxFileSize \in Nat \ {0} /\ MaxFiles \in Nat /\ MaxLines \in Nat /\ MaxLogTrouble \in Nat

VARIABLES named,    \* index -> inode of diaspor.log, diaspor.1.log, ...; None without
          content,  \* inodes 1..Len(content): their lines
          handle,   \* current_file: an inode, or None
          logger,   \* thread -> [pc, line, i, file, since]
          viewer,   \* get_logs or clear_logs: [pc, i, got, whole]
          lines,    \* lines begun, numbered by their timestamp
          logTrouble,
          rotations,  \* history: rotations finished
          appended,   \* history: line -> rotations when its handle was taken
          jostled     \* history: two threads rotated at once, or the logs were cleared

logVars == <<named, content, handle, logger, viewer, lines, logTrouble, rotations, appended, jostled>>

None == 0
LogIdle == [pc |-> "idle", line |-> 0, i |-> 0, file |-> None, since |-> 0]
Away == [pc |-> "idle", i |-> 0, got |-> << >>, whole |-> TRUE]
LogAt(t, pc) == logger[t].pc = pc
LogTo(t, pc) == logger' = [logger EXCEPT ![t].pc = pc]
Rotating == {t \in LogThread : logger[t].pc \in {"shift", "target", "remove", "rename", "close"}}
Linked == {named[i] : i \in DOMAIN named} \ {None}
Held(f) == {content[f][k] : k \in DOMAIN content[f]}
OnDisk == UNION {Held(f) : f \in Linked}
\* The files change under a reader.
Stirred == viewer' = [viewer EXCEPT !.whole = FALSE]

\* write_log makes the entry, with its timestamp, and looks at the size first.
write_log(t) ==
    /\ LogAt(t, "idle") /\ lines < MaxLines /\ lines' = lines + 1
    /\ logger' = [logger EXCEPT ![t] = [LogIdle EXCEPT !.line = lines + 1, !.pc = "check"]]
    /\ UNCHANGED <<named, content, handle, viewer, logTrouble, rotations, appended, jostled>>

Full == named[0] # None /\ Len(content[named[0]]) >= MaxFileSize
rotate_if_needed(t) ==
    /\ LogAt(t, "check")
    /\ IF Full THEN /\ logger' = [logger EXCEPT ![t].pc = "shift", ![t].i = MaxFiles]
                    /\ jostled' = (jostled \/ Rotating # {})
       ELSE LogTo(t, "open") /\ UNCHANGED jostled
    /\ UNCHANGED <<named, content, handle, viewer, lines, logTrouble, rotations, appended>>

\* i - 1 is the source and i the target of each move, from the oldest file down.
ShiftFile(t) ==
    /\ LogAt(t, "shift")
    /\ LET i == logger[t].i
       IN  logger' = [logger EXCEPT ![t] = CASE i = 0 -> [@ EXCEPT !.pc = "close"]
                                             [] i > 0 /\ named[i - 1] = None -> [@ EXCEPT !.i = i - 1]
                                             [] OTHER -> [@ EXCEPT !.pc = "target"]]
    /\ UNCHANGED <<named, content, handle, viewer, lines, logTrouble, rotations, appended, jostled>>
LookAtTarget(t) ==
    /\ LogAt(t, "target") /\ LogTo(t, IF named[logger[t].i] = None THEN "rename" ELSE "remove")
    /\ UNCHANGED <<named, content, handle, viewer, lines, logTrouble, rotations, appended, jostled>>
\* A name another thread took away is an error, and LogWriter drops the line.
RemoveTarget(t) ==
    /\ LogAt(t, "remove")
    /\ IF named[logger[t].i] = None THEN logger' = [logger EXCEPT ![t] = LogIdle] /\ UNCHANGED <<named, viewer>>
       ELSE named' = [named EXCEPT ![logger[t].i] = None] /\ LogTo(t, "rename") /\ Stirred
    /\ UNCHANGED <<content, handle, lines, logTrouble, rotations, appended, jostled>>
Moved(i) == [named EXCEPT ![i] = named[i - 1], ![i - 1] = None]
RenameFile(t) ==
    /\ LogAt(t, "rename")
    /\ LET i == logger[t].i
       IN  IF named[i - 1] = None THEN logger' = [logger EXCEPT ![t] = LogIdle] /\ UNCHANGED <<named, viewer>>
           ELSE /\ named' = Moved(i) /\ Stirred
                /\ logger' = [logger EXCEPT ![t].pc = "shift", ![t].i = i - 1]
    /\ UNCHANGED <<content, handle, lines, logTrouble, rotations, appended, jostled>>
\* Mutant of CloseHandle: the next line goes on into the shifted file.
CloseHandleLater(t) ==
    /\ LogAt(t, "close") /\ UNCHANGED handle /\ rotations' = rotations + 1 /\ LogTo(t, "open")
    /\ UNCHANGED <<named, content, viewer, lines, logTrouble, appended, jostled>>
CloseHandle(t) ==
    /\ LogAt(t, "close") /\ handle' = None /\ rotations' = rotations + 1 /\ LogTo(t, "open")
    /\ UNCHANGED <<named, content, viewer, lines, logTrouble, appended, jostled>>

\* Under the lock: the shared handle, or a new one on diaspor.log.
Opened == IF named[0] # None THEN named[0] ELSE Len(content) + 1
get_or_create_file(t) ==
    /\ LogAt(t, "open")
    /\ handle' = IF handle # None THEN handle ELSE Opened
    /\ logger' = [logger EXCEPT ![t].file = handle', ![t].since = rotations, ![t].pc = "append"]
    /\ IF handle = None /\ named[0] = None
       THEN named' = [named EXCEPT ![0] = Opened] /\ content' = Append(content, << >>) /\ Stirred
       ELSE UNCHANGED <<named, content, viewer>>
    /\ UNCHANGED <<lines, logTrouble, rotations, appended, jostled>>
AppendLine(t) ==
    /\ LogAt(t, "append")
    /\ content' = [content EXCEPT ![logger[t].file] = Append(@, logger[t].line)]
    /\ appended' = (logger[t].line :> logger[t].since) @@ appended
    /\ logger' = [logger EXCEPT ![t] = LogIdle] /\ Stirred
    /\ UNCHANGED <<named, handle, lines, logTrouble, rotations, jostled>>

\* read_logs looks at each name and reads it; one that vanishes in between is an
\* error, as is one that vanishes from under clear_logs.
ViewTo(pc) == viewer' = [viewer EXCEPT !.pc = pc]
BeginView ==
    /\ viewer.pc \in {"idle", "answered"} /\ logTrouble < MaxLogTrouble /\ logTrouble' = logTrouble + 1
    /\ \/ viewer' = [Away EXCEPT !.pc = "look"] /\ UNCHANGED jostled
       \/ viewer' = [Away EXCEPT !.pc = "clear"] /\ jostled' = TRUE
    /\ UNCHANGED <<named, content, handle, logger, lines, rotations, appended>>
Exists(i) == i \in DOMAIN named /\ named[i] # None
Newest(s) == LET u == SortSeq(s, >) IN SubSeq(u, 1, IF Len(u) < Limit THEN Len(u) ELSE Limit)
read_logs ==
    /\ \/ /\ viewer.pc = "look" /\ viewer.i < ReadFiles
          /\ viewer' = IF Exists(viewer.i) THEN [viewer EXCEPT !.pc = "read"] ELSE [viewer EXCEPT !.i = @ + 1]
       \/ /\ viewer.pc = "read" /\ Exists(viewer.i)
          /\ viewer' = [viewer EXCEPT !.got = @ \o content[named[viewer.i]], !.i = @ + 1, !.pc = "look"]
       \/ viewer.pc = "read" /\ ~Exists(viewer.i) /\ viewer' = Away
       \/ /\ viewer.pc = "look" /\ viewer.i = ReadFiles
          /\ viewer' = [viewer EXCEPT !.got = Newest(@), !.pc = "answered"]
    /\ UNCHANGED <<named, content, handle, logger, lines, logTrouble, rotations, appended, jostled>>
\* The handle stays open on the removed file.
clear_logs ==
    /\ \/ /\ viewer.pc = "clear" /\ viewer.i < ReadFiles /\ UNCHANGED named
          /\ viewer' = IF Exists(viewer.i) THEN [viewer EXCEPT !.pc = "unlink"] ELSE [viewer EXCEPT !.i = @ + 1]
       \/ /\ viewer.pc = "unlink" /\ Exists(viewer.i) /\ named' = [named EXCEPT ![viewer.i] = None]
          /\ viewer' = [viewer EXCEPT !.i = @ + 1, !.pc = "clear"]
       \/ viewer.pc = "unlink" /\ ~Exists(viewer.i) /\ viewer' = Away /\ UNCHANGED named
       \/ viewer.pc = "clear" /\ viewer.i = ReadFiles /\ viewer' = Away /\ UNCHANGED named
    /\ UNCHANGED <<content, handle, logger, lines, logTrouble, rotations, appended, jostled>>

\* The application stops and starts: a new writer without a handle.  A rotation cut
\* off leaves the files where they are.
init_file_logging ==
    /\ logTrouble < MaxLogTrouble /\ logTrouble' = logTrouble + 1
    /\ handle' = None /\ logger' = [t \in LogThread |-> LogIdle] /\ viewer' = Away
    /\ rotations' = IF Rotating = {} THEN rotations ELSE rotations + 1
    /\ UNCHANGED <<named, content, lines, appended, jostled>>

LogInit == /\ named = [i \in 0..MaxFiles |-> None] /\ content = << >> /\ handle = None
           /\ logger = [t \in LogThread |-> LogIdle] /\ viewer = Away /\ lines = 0 /\ logTrouble = 0
           /\ rotations = 0 /\ appended = << >> /\ jostled = FALSE
LogNext == \/ BeginView \/ read_logs \/ clear_logs \/ init_file_logging
           \/ \E t \in LogThread : \/ write_log(t) \/ rotate_if_needed(t) \/ ShiftFile(t) \/ LookAtTarget(t)
                                   \/ RemoveTarget(t) \/ RenameFile(t) \/ CloseHandle(t)
                                   \/ get_or_create_file(t) \/ AppendLine(t)
LogSpec == LogInit /\ [][LogNext]_logVars

-----------------------------------------------------------------------------
(* Unless the logs were cleared or two threads rotated at once, a line that was    *)
(* appended is missing from the files only after MaxFiles rotations since its        *)
(* handle was taken, however late it was written; no line is in two files; and         *)
(* get_logs, while nobody logs, answers the newest lines of all files, each once.        *)
LinesKept ==
    /\ ~jostled => \A l \in DOMAIN appended : l \notin OnDisk => rotations - appended[l] >= MaxFiles
    /\ \A f, g \in Linked : f # g => Held(f) \cap Held(g) = {}
    /\ viewer.pc = "answered" /\ viewer.whole =>
          LET n == Cardinality(OnDisk)
              asked == IF n < Limit THEN n ELSE Limit
          IN  /\ Len(viewer.got) = asked
              /\ \A k \in 1..asked : Cardinality({l \in OnDisk : l > viewer.got[k]}) = k - 1
=============================================================================
