----------------------------- MODULE MediaProofs -----------------------------
(***************************************************************************)
(* Proofs about the commands of the run media: Transcription, OllamaSetup     *)
(* and MediaJobs.                                                              *)
(***************************************************************************)
EXTENDS Transcription, OllamaSetup, MediaJobs, FiniteSetTheorems, TLAPS

-----------------------------------------------------------------------------
(* Maps. *)
\* A map with an entry more has it, and the others as they were.
LEMMA EnteredMap ==
    ASSUME NEW f, NEW k, NEW x
    PROVE  /\ DOMAIN Entered(f, k, x) = DOMAIN f \cup {k} /\ Entered(f, k, x)[k] = x
           /\ \A j \in DOMAIN f : j # k => Entered(f, k, x)[j] = f[j]
BY DEF Entered

LEMMA EmptyMap == DOMAIN << >> = {}
OBVIOUS

-----------------------------------------------------------------------------
(* Transcription. *)
ViewPcs == {"idle", "find", "read", "create", "write", "service", "available", "extract", "extracting", "engine", "clean", "probe",
            "making", "hung"}
ViewCall == [cmd : {"none", "start", "transcribe"}, pc : ViewPcs, op : Nat, file : Recordings \cup {"none"}, got : -3..MaxEdits]
Operation == [file : Recordings, status : {"Pending", "InProgress"} \cup Settled, bytes : Int]
Job == [status : {"Starting", "Running", "Stopped"} \cup Settled, pc : {"start", "spawn", "read", "over"},
        file : Recordings, got : -3..MaxEdits]
TransShape ==
    /\ tracked \in Seq(Operation) /\ viewer \in [Viewer -> ViewCall] /\ recording \in [Recordings -> -1..MaxEdits]
    /\ \A o \in DOMAIN jobs : jobs[o] \in Job /\ (jobs[o].pc = "over" => jobs[o].status \in Settled \cup {"Stopped"})
    /\ (\A o \in DOMAIN updates : updates[o] \in Int) /\ \A f \in DOMAIN copied : copied[f] \in -2..MaxEdits
    /\ DOMAIN wavs \cup DOMAIN heard \cup DOMAIN jobs \cup DOMAIN updates \subseteq 1..Len(tracked)

\* A command under way has an operation and a file; an idle one has neither.
Owns(r) == /\ r.cmd = "none" <=> r.pc = "idle"
           /\ IF r.cmd = "none" THEN r = Off
              ELSE r.op \in 1..Len(tracked) /\ r.file \in Recordings /\ tracked[r.op].file = r.file
OwnOperations == \A u, v \in Viewer : u # v /\ viewer[u].cmd # "none" => viewer[u].op # viewer[v].op
OwnFiles == \A u, v \in Viewer : u # v /\ viewer[u].cmd # "none" /\ viewer[u].file = viewer[v].file => viewer[u].file \in tainted

\* The copy of a remote file that nothing went wrong with is whole, what FFmpeg opened is that
\* copy or a version of a mounted file, and what it read is whole.
Version == 0..MaxEdits
Copied(f) == f \in Remote \ tainted => f \in DOMAIN copied /\ copied[f] \in Version
Reads(f, x) == (f \in Mounted => x \in Version) /\ (f \in Remote \ tainted => x = copied[f])
Whole(f, x) == x \in Version \/ (f \in Mounted /\ x = Mixed) \/ (f \in Remote /\ f \in tainted)

\* Where a command is: from the lookup of its file over its path to the audio read from there.
Ready == {"service", "available", "extract", "extracting", "engine", "clean", "probe"}
WholeWav(f, o) == o \in DOMAIN wavs /\ Whole(f, wavs[o])
StageAt(pc, f, o, x) ==
    /\ pc \in Ready => Copied(f)
    /\ pc \in {"read", "create", "write"} /\ f \in Remote \ tainted => ~(f \in DOMAIN copied /\ copied[f] \in Version)
    /\ pc \in {"create", "write"} => x \in Version
    /\ pc = "extracting" => Reads(f, x)
    /\ pc = "engine" => WholeWav(f, o)
Stage(r) == StageAt(r.pc, r.file, r.op, r.got)
WholeCopies == \A f \in DOMAIN copied : f \in Remote \ tainted =>
                  copied[f] \in Version \/ \E v \in Viewer : viewer[v].pc = "write" /\ viewer[v].file = f
JobFile(o) == /\ jobs[o].file = tracked[o].file /\ Copied(jobs[o].file)
              /\ jobs[o].pc = "read" /\ jobs[o].got # Missing => Reads(jobs[o].file, jobs[o].got)
WholeJobs == \A o \in DOMAIN jobs : JobFile(o)
HeardFile(o) == \A i \in DOMAIN heard[o] : Whole(tracked[o].file, heard[o][i])
WholeHeard == \A o \in DOMAIN heard : HeardFile(o)

TransInv == /\ TransShape /\ (\A v \in Viewer : Owns(viewer[v])) /\ OwnOperations /\ OwnFiles
            /\ (\A v \in Viewer : Stage(viewer[v])) /\ WholeCopies /\ WholeJobs /\ WholeHeard

LEMMA TransStart == TransInit => TransInv
<1> SUFFICES ASSUME TransInit PROVE TransInv OBVIOUS
<1>1. Off \in ViewCall BY TransAssumption DEF Off, ViewCall, ViewPcs, Missing
<1>2. DOMAIN jobs = {} /\ DOMAIN updates = {} /\ DOMAIN wavs = {} /\ DOMAIN heard = {} /\ DOMAIN copied = {}
  BY EmptyMap DEF TransInit
<1>3. TransShape
  <2>1. tracked \in Seq(Operation) /\ Len(tracked) = 0 BY DEF TransInit
  <2>2. viewer \in [Viewer -> ViewCall] BY <1>1 DEF TransInit
  <2>3. recording \in [Recordings -> -1..MaxEdits] BY TransAssumption DEF TransInit
  <2> QED BY <1>2, <2>1, <2>2, <2>3 DEF TransShape
<1>4. \A v \in Viewer : viewer[v] = Off /\ Off.cmd = "none" /\ Off.pc = "idle" BY DEF TransInit, Off
<1>5. \A v \in Viewer : Owns(viewer[v]) BY <1>4 DEF Owns
<1>6. OwnOperations /\ OwnFiles BY <1>4 DEF OwnOperations, OwnFiles
<1>7. \A v \in Viewer : Stage(viewer[v]) BY <1>4 DEF Stage, StageAt, Ready
<1>8. WholeCopies /\ WholeJobs /\ WholeHeard BY <1>2 DEF WholeCopies, WholeJobs, WholeHeard
<1> QED BY <1>3, <1>5, <1>6, <1>7, <1>8 DEF TransInv

\* A step that spoils no whole copy, and takes back no taint and no operation's file.
Kept == /\ tainted \subseteq tainted'
        /\ \A f \in Remote : f \notin tainted' /\ f \in DOMAIN copied /\ copied[f] \in Version => f \in DOMAIN copied' /\ copied'[f] = copied[f]
SameFiles == Len(tracked') >= Len(tracked) /\ \A o \in 1..Len(tracked) : tracked'[o].file = tracked[o].file

LEMMA FileKeeps ==
    ASSUME NEW f, NEW x, Kept
    PROVE  (Copied(f) => Copied(f)') /\ (Copied(f) /\ Reads(f, x) => Reads(f, x)') /\ (Whole(f, x) => Whole(f, x)')
BY DEF Kept, Copied, Reads, Whole

LEMMA JobFileKeeps ==
    ASSUME TransInv, Kept, SameFiles, NEW o \in DOMAIN jobs, o \in DOMAIN jobs', jobs'[o] = jobs[o]
    PROVE  JobFile(o)'
<1>1. PICK j : j = jobs[o] /\ j = jobs'[o] OBVIOUS
<1>2. JobFile(o) /\ o \in 1..Len(tracked) BY DEF TransInv, TransShape, WholeJobs
<1>3. PICK f : f = j.file OBVIOUS
<1>4. PICK x : x = j.got OBVIOUS
<1>5. f = tracked'[o].file /\ Copied(f) /\ (j.pc = "read" /\ x # Missing => Reads(f, x))
  BY <1>1, <1>2, <1>3, <1>4 DEF JobFile, SameFiles
<1>6. Copied(f)' /\ (j.pc = "read" /\ x # Missing => Reads(f, x)') BY <1>5, FileKeeps
<1> QED BY <1>1, <1>3, <1>4, <1>5, <1>6 DEF JobFile

LEMMA HeardKeeps ==
    ASSUME TransInv, Kept, SameFiles, NEW o \in DOMAIN heard, o \in DOMAIN heard', heard'[o] = heard[o]
    PROVE  HeardFile(o)'
<1>1. o \in 1..Len(tracked) /\ HeardFile(o) BY DEF TransInv, TransShape, WholeHeard
<1>2. PICK f : f = tracked[o].file /\ f = tracked'[o].file BY <1>1 DEF SameFiles
<1>3. PICK h : h = heard[o] /\ h = heard'[o] OBVIOUS
<1>4. \A i \in DOMAIN h : Whole(f, h[i]) BY <1>1, <1>2, <1>3 DEF HeardFile
<1>5. ASSUME NEW i \in DOMAIN h PROVE Whole(f, h[i])'
  <2>1. PICK x : x = h[i] OBVIOUS
  <2>2. Whole(f, x)' BY <1>4, <2>1, FileKeeps
  <2> QED BY <2>1, <2>2
<1> QED BY <1>2, <1>3, <1>5 DEF HeardFile

\* A step of others leaves the jobs and what was heard whole.
LEMMA RestKeeps == ASSUME TransInv, Kept, SameFiles, UNCHANGED <<jobs, heard>> PROVE WholeJobs' /\ WholeHeard'
<1>1. \A o \in DOMAIN jobs' : JobFile(o)' BY JobFileKeeps
<1>2. \A o \in DOMAIN heard' : HeardFile(o)' BY HeardKeeps
<1> QED BY <1>1, <1>2 DEF WholeJobs, WholeHeard

\* A command's step: it ends, or goes on with the same operation and file.
SameCall(r, q) == r = Off \/ (r.cmd = q.cmd /\ r.op = q.op /\ r.file = q.file /\ r.pc # "idle")
\* Only the copy of file f is changed.
OnlyCopy(f) == \A g \in Recordings : g # f => (g \in DOMAIN copied' <=> g \in DOMAIN copied) /\ (g \in DOMAIN copied => copied'[g] = copied[g])
OnlyWav(q) == DOMAIN wavs' \subseteq DOMAIN wavs \cup {q} /\ \A o \in DOMAIN wavs : o # q => o \in DOMAIN wavs' /\ wavs'[o] = wavs[o]

LEMMA ViewStep ==
    ASSUME TransInv, NEW v \in Viewer, viewer[v].cmd # "none", NEW r \in ViewCall, viewer' = [viewer EXCEPT ![v] = r],
           SameCall(r, viewer[v]), Len(tracked') = Len(tracked), SameFiles, Kept, TransShape', OnlyCopy(viewer[v].file), OnlyWav(viewer[v].op),
           Stage(r)', WholeCopies', WholeJobs', WholeHeard'
    PROVE  TransInv'
<1>1. Off.cmd = "none" /\ Off.pc = "idle" /\ Off.op = 0 /\ Off.file = "none" BY DEF Off
<1>2. viewer'[v] = r /\ \A u \in Viewer : u # v => viewer'[u] = viewer[u] BY DEF TransInv, TransShape
<1>3. ASSUME NEW u \in Viewer PROVE Owns(viewer[u])'
  <2>1. Owns(viewer[u]) /\ Owns(viewer[v]) BY DEF TransInv
  <2>2. CASE u = v
    <3>1. CASE r = Off BY <1>1, <1>2, <2>2, <3>1 DEF Owns
    <3>2. CASE r.cmd = viewer[v].cmd /\ r.op = viewer[v].op /\ r.file = viewer[v].file /\ r.pc # "idle"
      <4>1. tracked'[r.op].file = tracked[r.op].file BY <2>1, <3>2 DEF Owns, SameFiles
      <4> QED BY <1>2, <2>1, <2>2, <3>2, <4>1 DEF Owns
    <3> QED BY <3>1, <3>2 DEF SameCall
  <2>3. CASE u # v BY <1>2, <2>1, <2>3 DEF Owns, SameFiles
  <2> QED BY <2>2, <2>3
<1>4. OwnOperations'
  <2> SUFFICES ASSUME NEW u \in Viewer, NEW w \in Viewer, u # w, viewer'[u].cmd # "none" PROVE viewer'[u].op # viewer'[w].op
    BY DEF OwnOperations
  <2>1. viewer'[u].op = viewer[u].op /\ viewer[u].cmd # "none" BY <1>1, <1>2 DEF SameCall
  <2>2. viewer'[w].op \in {0, viewer[w].op} BY <1>1, <1>2 DEF SameCall
  <2>3. viewer[u].op # 0 BY <2>1 DEF TransInv, TransShape, Owns
  <2> QED BY <2>1, <2>2, <2>3 DEF TransInv, OwnOperations
<1>5. OwnFiles'
  <2> SUFFICES ASSUME NEW u \in Viewer, NEW w \in Viewer, u # w, viewer'[u].cmd # "none", viewer'[u].file = viewer'[w].file
               PROVE  viewer'[u].file \in tainted'
    BY DEF OwnFiles
  <2>1. viewer'[u].file = viewer[u].file /\ viewer[u].cmd # "none" BY <1>1, <1>2 DEF SameCall
  <2>2. viewer'[w].file \in {"none", viewer[w].file} BY <1>1, <1>2 DEF SameCall
  <2>3. viewer[u].file # "none" BY <2>1, TransRequestAssumption DEF TransInv, Owns
  <2>4. viewer[u].file \in tainted BY <2>1, <2>2, <2>3 DEF TransInv, OwnFiles
  <2> QED BY <2>1, <2>4 DEF Kept
<1>6. ASSUME NEW u \in Viewer PROVE Stage(viewer[u])'
  <2>1. CASE u = v BY <1>2, <2>1 DEF Stage
  <2>2. CASE u # v
    <3>1. viewer'[u] = viewer[u] /\ Owns(viewer[u]) /\ Stage(viewer[u]) BY <1>2, <2>2 DEF TransInv
    <3>2. PICK q : q = viewer[u] /\ q = viewer'[u] BY <3>1
    <3>3. PICK f : f = q.file OBVIOUS
    <3>4. StageAt(q.pc, f, q.op, q.got) BY <3>1, <3>2, <3>3 DEF Stage
    <3>5. CASE q.cmd = "none" BY <3>1, <3>2, <3>3, <3>5 DEF Stage, StageAt, Owns, Ready
    <3>6. CASE q.cmd # "none"
      <4>1. f \in Recordings /\ q.op # viewer[v].op /\ (f = viewer[v].file => f \in tainted /\ f \in tainted')
        BY <2>2, <3>1, <3>2, <3>3, <3>6 DEF TransInv, Owns, OwnOperations, OwnFiles, Kept
      <4>2. q.pc \in Ready => Copied(f)' BY <3>4, FileKeeps DEF StageAt
      <4>3. q.pc = "extracting" => Reads(f, q.got)' BY <3>4, FileKeeps DEF StageAt, Ready
      <4>4. q.pc = "engine" => WholeWav(f, q.op)'
        <5> SUFFICES ASSUME q.pc = "engine" PROVE WholeWav(f, q.op)' OBVIOUS
        <5>1. WholeWav(f, q.op) BY <3>4 DEF StageAt
        <5>2. q.op \in DOMAIN wavs' /\ wavs'[q.op] = wavs[q.op] BY <4>1, <5>1 DEF OnlyWav, WholeWav
        <5>3. PICK x : x = wavs[q.op] /\ x = wavs'[q.op] BY <5>2
        <5>4. Whole(f, x)' BY <5>1, <5>3, FileKeeps DEF WholeWav
        <5> QED BY <5>2, <5>3, <5>4 DEF WholeWav
      <4>5. q.pc \in {"read", "create", "write"} /\ f \in Remote \ tainted' => ~(f \in DOMAIN copied' /\ copied'[f] \in Version)
        BY <3>4, <4>1 DEF StageAt, OnlyCopy, Kept
      <4>6. q.pc \in {"create", "write"} => q.got \in Version BY <3>4 DEF StageAt
      <4>7. StageAt(q.pc, f, q.op, q.got)' BY <4>2, <4>3, <4>4, <4>5, <4>6 DEF StageAt
      <4> QED BY <3>2, <3>3, <4>7 DEF Stage
    <3> QED BY <3>5, <3>6
  <2> QED BY <2>1, <2>2
<1> QED BY <1>3, <1>4, <1>5, <1>6 DEF TransInv

LEMMA OffFits == Off \in ViewCall /\ Off.pc = "idle" /\ Off.cmd = "none" /\ Stage(Off)'
<1>1. Off \in ViewCall /\ Off.pc = "idle" /\ Off.cmd = "none" BY TransAssumption DEF Off, ViewCall, ViewPcs, Missing
<1>2. Stage(Off)' BY DEF Off, Stage, StageAt, Ready
<1> QED BY <1>1, <1>2

LEMMA FinishFits ==
    ASSUME tracked \in Seq(Operation), NEW o \in 1..Len(tracked), NEW st \in Settled, Finish(o, st)
    PROVE  tracked' \in Seq(Operation) /\ Len(tracked') = Len(tracked) /\ SameFiles
<1>1. tracked[o] \in Operation OBVIOUS
<1>2. PICK x : x = [tracked[o] EXCEPT !.status = st] OBVIOUS
<1>3. x \in Operation /\ x.file = tracked[o].file BY <1>1, <1>2 DEF Operation
<1>4. tracked' = [tracked EXCEPT ![o] = x] BY <1>2 DEF Finish
<1>5. tracked' \in Seq(Operation) /\ Len(tracked') = Len(tracked) BY <1>3, <1>4
<1>6. \A q \in 1..Len(tracked) : tracked'[q].file = tracked[q].file BY <1>3, <1>4
<1> QED BY <1>5, <1>6 DEF SameFiles

LEMMA NothingCopied == ASSUME UNCHANGED copied, tainted \subseteq tainted' PROVE Kept /\ \A f : OnlyCopy(f)
BY DEF Kept, OnlyCopy

\* A command that ends: it settles its operation, or leaves it to a job or as it is.
LEMMA EndStep ==
    ASSUME TransInv, NEW v \in Viewer, viewer[v].cmd # "none", Hangs_up(v), tracked' \in Seq(Operation), Len(tracked') = Len(tracked), SameFiles,
           UNCHANGED <<recording, copied, updates, heard>>, tainted \subseteq tainted',
           viewer[v].pc = "write" => viewer[v].file \in tainted', OnlyWav(viewer[v].op),
           DOMAIN jobs' \subseteq DOMAIN jobs \cup {viewer[v].op},
           \A o \in DOMAIN jobs' : jobs'[o] \in Job /\ (jobs'[o].pc = "over" => jobs'[o].status \in Settled \cup {"Stopped"}), WholeJobs'
    PROVE  TransInv'
<1>1. viewer[v].op \in 1..Len(tracked) BY DEF TransInv, Owns
<1>2. Kept /\ OnlyCopy(viewer[v].file) BY NothingCopied
<1>3. viewer' = [viewer EXCEPT ![v] = Off] BY DEF Hangs_up
<1>4. viewer' \in [Viewer -> ViewCall] BY <1>3, OffFits DEF TransInv, TransShape
<1>5. TransShape' BY <1>1, <1>4 DEF TransInv, TransShape, OnlyWav
<1>6. WholeHeard'
  <2>1. \A o \in DOMAIN heard' : HeardFile(o)' BY <1>2, HeardKeeps
  <2> QED BY <2>1 DEF WholeHeard
<1>7. WholeCopies'
  <2> SUFFICES ASSUME NEW f \in DOMAIN copied, f \in Remote \ tainted', copied[f] \notin Version
               PROVE  \E u \in Viewer : viewer'[u].pc = "write" /\ viewer'[u].file = f
    BY DEF WholeCopies
  <2>1. PICK u \in Viewer : viewer[u].pc = "write" /\ viewer[u].file = f BY DEF TransInv, WholeCopies
  <2>2. u # v BY <2>1
  <2> QED BY <1>3, <2>1, <2>2 DEF TransInv, TransShape
<1> QED BY <1>2, <1>3, <1>5, <1>6, <1>7, OffFits, ViewStep DEF SameCall

LEMMA FailStep ==
    ASSUME TransInv, NEW v \in Viewer, viewer[v].cmd # "none", FailsOp(v),
           UNCHANGED <<recording, copied, jobs, updates, heard>>, tainted \subseteq tainted',
           viewer[v].pc = "write" => viewer[v].file \in tainted', OnlyWav(viewer[v].op)
    PROVE  TransInv'
<1>1. viewer[v].op \in 1..Len(tracked) /\ tracked \in Seq(Operation) BY DEF TransInv, TransShape, Owns
<1>2. Finish(viewer[v].op, "Failed") /\ "Failed" \in Settled /\ Hangs_up(v) BY DEF FailsOp, Settled
<1>3. tracked' \in Seq(Operation) /\ Len(tracked') = Len(tracked) /\ SameFiles BY <1>1, <1>2, FinishFits
<1>4. WholeJobs' BY <1>3, NothingCopied, RestKeeps
<1>5. DOMAIN jobs' \subseteq DOMAIN jobs \cup {viewer[v].op} /\ \A o \in DOMAIN jobs' : jobs'[o] \in Job /\ (jobs'[o].pc = "over" => jobs'[o].status \in Settled \cup {"Stopped"})
  BY DEF TransInv, TransShape
<1> QED BY <1>2, <1>3, <1>4, <1>5, EndStep

\* A command that goes on to p, holding x, without touching the tracker.
LEMMA GoStep ==
    ASSUME TransInv, NEW v \in Viewer, viewer[v].cmd # "none", NEW p \in ViewPcs \ {"idle"}, NEW x \in -3..MaxEdits, Holds(v, p, x),
           NEW f, f = viewer[v].file, NEW o, o = viewer[v].op, StageAt(p, f, o, x)',
           UNCHANGED <<recording, jobs, heard, tracked, tainted>>, Kept, OnlyCopy(f), \A g \in DOMAIN copied' : copied'[g] \in -2..MaxEdits,
           \A q \in DOMAIN updates' : updates'[q] \in Int, DOMAIN updates' \subseteq DOMAIN updates \cup {o}, OnlyWav(o),
           (viewer[v].pc = "write" \/ ~UNCHANGED copied) => f \in DOMAIN copied' /\ (copied'[f] \in Version \/ p = "write")
    PROVE  TransInv'
<1>1. viewer[v].op \in 1..Len(tracked) BY DEF TransInv, Owns
<1>2. viewer[v] \in ViewCall /\ viewer \in [Viewer -> ViewCall] BY DEF TransInv, TransShape
<1>3. PICK r : r = [viewer[v] EXCEPT !.pc = p, !.got = x] OBVIOUS
<1>4. viewer' = [viewer EXCEPT ![v] = r] BY <1>2, <1>3 DEF Holds
<1>5. r \in ViewCall BY <1>2, <1>3 DEF ViewCall
<1>6. r.cmd = viewer[v].cmd /\ r.op = o /\ r.file = f /\ r.pc = p /\ r.got = x BY <1>2, <1>3 DEF ViewCall
<1>7. SameCall(r, viewer[v]) BY <1>6 DEF SameCall
<1>8. viewer' \in [Viewer -> ViewCall] BY <1>2, <1>4, <1>5
<1>9. TransShape' BY <1>1, <1>8 DEF TransInv, TransShape, OnlyWav
<1>10. SameFiles /\ Len(tracked') = Len(tracked) BY DEF SameFiles, TransInv, TransShape
<1>11. WholeJobs' /\ WholeHeard' BY <1>10, RestKeeps
<1>12. Stage(r)' BY <1>6 DEF Stage
<1>13. WholeCopies'
  <2> SUFFICES ASSUME NEW g \in DOMAIN copied', g \in Remote \ tainted, copied'[g] \notin Version
               PROVE  \E u \in Viewer : viewer'[u].pc = "write" /\ viewer'[u].file = g
    BY DEF WholeCopies
  <2>1. viewer'[v] = r BY <1>2, <1>4
  <2>2. CASE g = f /\ (viewer[v].pc = "write" \/ ~UNCHANGED copied) BY <1>6, <2>1, <2>2
  <2>3. CASE g # f \/ (viewer[v].pc # "write" /\ UNCHANGED copied)
    <3>1. g \in DOMAIN copied /\ copied'[g] = copied[g] BY <2>3 DEF OnlyCopy, Recordings
    <3>2. PICK u \in Viewer : viewer[u].pc = "write" /\ viewer[u].file = g BY <3>1 DEF TransInv, WholeCopies
    <3>3. u # v BY <2>3, <3>2
    <3>4. viewer'[u] = viewer[u] BY <1>2, <1>4, <3>3
    <3> QED BY <3>2, <3>4
  <2> QED BY <2>2, <2>3
<1> QED BY <1>4, <1>5, <1>6, <1>7, <1>9, <1>10, <1>11, <1>12, <1>13, ViewStep

LEMMA NextIsGo ==
    ASSUME TransInv, NEW v \in Viewer, NEW p, Next_(v, p)
    PROVE  Holds(v, p, viewer[v].got) /\ viewer[v].got \in -3..MaxEdits
<1>1. viewer[v] \in ViewCall BY DEF TransInv, TransShape
<1>2. [viewer[v] EXCEPT !.pc = p] = [viewer[v] EXCEPT !.pc = p, !.got = viewer[v].got] BY <1>1 DEF ViewCall
<1>3. viewer[v].got \in -3..MaxEdits BY <1>1 DEF ViewCall
<1> QED BY <1>2, <1>3 DEF Next_, Holds, TransInv, TransShape

\* A command that is somewhere has an operation and a file.
LEMMA UnderWay ==
    ASSUME TransInv, NEW v \in Viewer, viewer[v].pc # "idle"
    PROVE  viewer[v].cmd # "none" /\ viewer[v].file \in Recordings /\ viewer[v].op \in 1..Len(tracked) /\ tracked[viewer[v].op].file = viewer[v].file
BY DEF TransInv, Owns

\* What is at a path that is ready is a version, or the copy.
LEMMA PathReads ==
    ASSUME TransInv, NEW f \in Recordings, Copied(f), PathHas(f) # Missing
    PROVE  Reads(f, PathHas(f)) /\ PathHas(f) \in -3..MaxEdits
<1>1. recording[f] \in -1..MaxEdits /\ \A g \in DOMAIN copied : copied[g] \in -2..MaxEdits BY DEF TransInv, TransShape
<1> QED BY <1>1, TransAssumption, TransRequestAssumption DEF Reads, PathHas, Copied, Recordings, Missing, Version

\* What was read off a path that was ready is whole.
LEMMA ReadWhole ==
    ASSUME NEW f \in Recordings, NEW x, Copied(f), Reads(f, x), NEW y \in ReadFrom(f, x)
    PROVE  Whole(f, y)
<1>1. CASE f \in Mounted BY <1>1 DEF Reads, ReadFrom, Whole
<1>2. CASE f \in Remote \ tainted
  <2>1. PathHas(f) = x BY <1>2, TransRequestAssumption DEF PathHas, Copied, Reads
  <2> QED BY <1>2, <2>1 DEF Reads, ReadFrom, Whole, Copied
<1> QED BY <1>1, <1>2 DEF Whole, Recordings

LEMMA FindKeeps == ASSUME TransInv, NEW v \in Viewer, get_or_cache_file_for_transcription(v) PROVE TransInv'
<1>1. PICK f : f = viewer[v].file OBVIOUS
<1>2. PICK o : o = viewer[v].op OBVIOUS
<1>3. viewer[v].pc \in {"find", "read", "create", "write"} BY DEF get_or_cache_file_for_transcription, At_
<1>4. viewer[v].cmd # "none" /\ f \in Recordings BY <1>1, <1>3, UnderWay
<1>5. UNCHANGED <<recording, jobs, updates, wavs, heard>> BY DEF get_or_cache_file_for_transcription
<1>6. OnlyWav(o) /\ OnlyWav(viewer[v].op) BY <1>2, <1>5 DEF OnlyWav
<1>7. (\A q \in DOMAIN updates' : updates'[q] \in Int) /\ DOMAIN updates' \subseteq DOMAIN updates \cup {o} BY <1>5 DEF TransInv, TransShape
<1>8. recording[f] \in -1..MaxEdits BY <1>4 DEF TransInv, TransShape
<1>9. StageAt(viewer[v].pc, f, o, viewer[v].got) BY <1>1, <1>2 DEF TransInv, Stage
<1>10. CASE FailsOp(v) /\ UNCHANGED copied /\ ((UNCHANGED tainted /\ viewer[v].pc # "write") \/ tainted' = tainted \cup {f})
  BY <1>1, <1>4, <1>5, <1>6, <1>10, FailStep
<1>11. ASSUME NEW p \in ViewPcs \ {"idle"}, NEW x \in -3..MaxEdits, Holds(v, p, x), StageAt(p, f, o, x)',
              UNCHANGED <<copied, tracked, tainted>>, viewer[v].pc # "write"
       PROVE  TransInv'
  <2>1. Kept /\ OnlyCopy(f) BY <1>11, NothingCopied
  <2>2. \A g \in DOMAIN copied' : copied'[g] \in -2..MaxEdits BY <1>11 DEF TransInv, TransShape
  <2> QED BY <1>1, <1>2, <1>4, <1>5, <1>6, <1>7, <1>11, <2>1, <2>2, GoStep
<1>12. CASE At_(v, "find") /\ f \in Mounted /\ UNCHANGED <<copied, tainted>> /\ Next_(v, "service") /\ UNCHANGED tracked
  <2>1. Holds(v, "service", viewer[v].got) /\ viewer[v].got \in -3..MaxEdits BY <1>12, NextIsGo
  <2>2. PICK x : x = viewer[v].got OBVIOUS
  <2>3. StageAt("service", f, o, x)' BY <1>12, TransRequestAssumption DEF StageAt, Copied
  <2>4. "service" \in ViewPcs \ {"idle"} /\ viewer[v].pc # "write" BY <1>12 DEF ViewPcs, At_
  <2> QED BY <1>11, <1>12, <2>1, <2>2, <2>3, <2>4
<1>13. CASE At_(v, "find") /\ f \in DOMAIN copied /\ f \in Remote /\ Next_(v, "service") /\ UNCHANGED <<copied, tracked, tainted>>
  <2>1. Holds(v, "service", viewer[v].got) /\ viewer[v].got \in -3..MaxEdits BY <1>13, NextIsGo
  <2>2. PICK x : x = viewer[v].got OBVIOUS
  <2>3. Copied(f)
    <3> SUFFICES ASSUME f \notin tainted PROVE copied[f] \in Version BY <1>13 DEF Copied
    <3>1. ASSUME NEW u \in Viewer, viewer[u].pc = "write", viewer[u].file = f PROVE FALSE
      <4>1. u # v /\ viewer[u].cmd # "none" BY <1>13, <3>1, UnderWay DEF At_
      <4> QED BY <1>1, <3>1, <4>1 DEF TransInv, OwnFiles
    <3> QED BY <1>13, <3>1 DEF TransInv, WholeCopies
  <2>4. Copied(f)' BY <1>13, <2>3 DEF Copied
  <2>5. StageAt("service", f, o, x)' BY <2>4 DEF StageAt
  <2>6. "service" \in ViewPcs \ {"idle"} /\ viewer[v].pc # "write" BY <1>13 DEF ViewPcs, At_
  <2> QED BY <1>11, <1>13, <2>1, <2>2, <2>5, <2>6
<1>14. CASE At_(v, "find") /\ f \notin DOMAIN copied /\ Next_(v, "read") /\ UNCHANGED <<copied, tracked, tainted>>
  <2>1. Holds(v, "read", viewer[v].got) /\ viewer[v].got \in -3..MaxEdits BY <1>14, NextIsGo
  <2>2. PICK x : x = viewer[v].got OBVIOUS
  <2>3. StageAt("read", f, o, x)' BY <1>14 DEF StageAt, Ready
  <2>4. "read" \in ViewPcs \ {"idle"} /\ viewer[v].pc # "write" BY <1>14 DEF ViewPcs, At_
  <2> QED BY <1>11, <1>14, <2>1, <2>2, <2>3, <2>4
<1>15. CASE At_(v, "read") /\ recording[f] # Missing /\ UNCHANGED <<copied, tracked, tainted>> /\ Holds(v, "create", recording[f])
  <2>1. PICK x : x = recording[f] OBVIOUS
  <2>2. x \in -3..MaxEdits /\ x \in Version BY <1>8, <1>15, <2>1 DEF Missing, Version
  <2>3. f \in Remote \ tainted => ~(f \in DOMAIN copied /\ copied[f] \in Version) BY <1>9, <1>15 DEF StageAt, At_
  <2>4. StageAt("create", f, o, x)' BY <1>15, <2>2, <2>3 DEF StageAt, Ready
  <2>5. "create" \in ViewPcs \ {"idle"} /\ viewer[v].pc # "write" BY <1>15 DEF ViewPcs, At_
  <2> QED BY <1>11, <1>15, <2>1, <2>2, <2>4, <2>5
<1>16. ASSUME NEW p \in {"write", "service"}, NEW y \in -2..MaxEdits, copied' = Entered(copied, f, y), Next_(v, p), UNCHANGED <<tracked, tainted>>,
              viewer[v].pc \in {"create", "write"},
              (p = "write" /\ y = Half) \/ (p = "service" /\ y = viewer[v].got)
       PROVE  TransInv'
  <2>1. Holds(v, p, viewer[v].got) /\ viewer[v].got \in -3..MaxEdits BY <1>16, NextIsGo
  <2>2. PICK x : x = viewer[v].got OBVIOUS
  <2>3. x \in Version BY <1>9, <1>16, <2>2 DEF StageAt
  <2>4. f \in Remote \ tainted => ~(f \in DOMAIN copied /\ copied[f] \in Version) BY <1>9, <1>16 DEF StageAt
  <2>5. DOMAIN copied' = DOMAIN copied \cup {f} /\ copied'[f] = y /\ \A g \in DOMAIN copied : g # f => copied'[g] = copied[g]
    BY <1>16 DEF Entered
  <2>6. \A g \in Recordings : g # f => (g \in DOMAIN copied' <=> g \in DOMAIN copied)
    BY <2>5
  <2>7. Kept /\ OnlyCopy(f) BY <1>16, <2>4, <2>5, <2>6 DEF Kept, OnlyCopy
  <2>8. Half \notin Version BY DEF Half, Version
  <2>9. StageAt(p, f, o, x)'
    <3>1. CASE p = "write" BY <1>16, <2>3, <2>5, <2>8, <3>1 DEF StageAt, Ready
    <3>2. CASE p = "service" BY <1>16, <2>2, <2>3, <2>5, <3>2 DEF StageAt, Copied
    <3> QED BY <3>1, <3>2
  <2>10. f \in DOMAIN copied' /\ (copied'[f] \in Version \/ p = "write") BY <1>16, <2>2, <2>3, <2>5
  <2>11. \A g \in DOMAIN copied' : copied'[g] \in -2..MaxEdits BY <2>5 DEF TransInv, TransShape
  <2>12. p \in ViewPcs \ {"idle"} BY DEF ViewPcs
  <2> QED BY <1>1, <1>2, <1>4, <1>5, <1>6, <1>7, <1>16, <2>1, <2>2, <2>7, <2>9, <2>10, <2>11, <2>12, GoStep
<1>17. CASE At_(v, "create") /\ copied' = Entered(copied, f, Half) /\ Next_(v, "write") /\ UNCHANGED <<tracked, tainted>>
  <2>1. Half \in -2..MaxEdits BY TransAssumption DEF Half
  <2> QED BY <1>16, <1>17, <2>1 DEF At_
<1>18. CASE At_(v, "write") /\ copied' = Entered(copied, f, Written(viewer[v].got)) /\ Next_(v, "service") /\ UNCHANGED <<tracked, tainted>>
  <2>1. viewer[v].got \in Version BY <1>9, <1>18 DEF StageAt, At_
  <2>2. viewer[v].got \in -2..MaxEdits BY <2>1 DEF Version
  <2> QED BY <1>16, <1>18, <2>2 DEF At_, Written
<1> QED BY <1>1, <1>10, <1>12, <1>13, <1>14, <1>15, <1>17, <1>18 DEF get_or_cache_file_for_transcription, At_

\* A command at a path that is ready goes on; neither the copies nor the jobs change.
LEMMA ReadyStep ==
    ASSUME TransInv, NEW v \in Viewer, viewer[v].pc \in Ready, NEW p \in ViewPcs \ {"idle"}, NEW x \in -3..MaxEdits, Holds(v, p, x),
           NEW f, f = viewer[v].file, NEW o, o = viewer[v].op, StageAt(p, f, o, x)',
           UNCHANGED <<recording, copied, jobs, heard, tracked, tainted>>,
           \A q \in DOMAIN updates' : updates'[q] \in Int, DOMAIN updates' \subseteq DOMAIN updates \cup {o}, OnlyWav(o)
    PROVE  TransInv'
<1>1. viewer[v].cmd # "none" /\ viewer[v].pc # "write" BY UnderWay DEF Ready
<1>2. Kept /\ OnlyCopy(f) BY NothingCopied
<1>3. \A g \in DOMAIN copied' : copied'[g] \in -2..MaxEdits BY DEF TransInv, TransShape
<1> QED BY <1>1, <1>2, <1>3, GoStep

LEMMA ServiceKeeps == ASSUME TransInv, NEW v \in Viewer, get_transcription_service(v) \/ CheckAvailable(v) \/ BodyStops(v) PROVE TransInv'
<1>1. viewer[v].pc \in {"service", "available", "engine"} BY DEF get_transcription_service, CheckAvailable, BodyStops, At_
<1>2. viewer[v].cmd # "none" /\ viewer[v].pc \in Ready BY <1>1, UnderWay DEF Ready
<1>3. UNCHANGED <<recording, copied, jobs, wavs, heard, tainted>> BY DEF get_transcription_service, CheckAvailable, BodyStops
<1>4. PICK f : f = viewer[v].file OBVIOUS
<1>5. PICK o : o = viewer[v].op OBVIOUS
<1>6. OnlyWav(o) /\ OnlyWav(viewer[v].op) BY <1>3, <1>5 DEF OnlyWav
<1>7. Copied(f)
  <2>1. Stage(viewer[v]) BY DEF TransInv
  <2> QED BY <1>2, <1>4, <2>1 DEF Stage, StageAt
<1>8. Copied(f)' BY <1>3, <1>7 DEF Copied
<1>9. ASSUME NEW p \in {"available", "probe", "extract", "making", "hung"}, Next_(v, p), UNCHANGED tracked,
             UNCHANGED updates \/ updates' = Entered(updates, viewer[v].op, Updates)
      PROVE  TransInv'
  <2>1. Holds(v, p, viewer[v].got) /\ viewer[v].got \in -3..MaxEdits BY <1>9, NextIsGo
  <2>2. PICK x : x = viewer[v].got OBVIOUS
  <2>3. p \in ViewPcs \ {"idle"} BY DEF ViewPcs
  <2>4. StageAt(p, f, o, x)' BY <1>8 DEF StageAt
  <2>5. (\A q \in DOMAIN updates' : updates'[q] \in Int) /\ DOMAIN updates' \subseteq DOMAIN updates \cup {o}
    BY <1>5, <1>9, TransAssumption DEF Entered, TransInv, TransShape
  <2> QED BY <1>2, <1>3, <1>4, <1>5, <1>6, <1>9, <2>1, <2>2, <2>3, <2>4, <2>5, ReadyStep
<1>10. CASE FailsOp(v) /\ UNCHANGED updates BY <1>1, <1>2, <1>3, <1>6, <1>10, FailStep
<1>11. CASE Hangs_up(v) /\ UNCHANGED <<tracked, updates>>
  <2>1. tracked' \in Seq(Operation) /\ Len(tracked') = Len(tracked) /\ SameFiles BY <1>11 DEF TransInv, TransShape, SameFiles
  <2>2. WholeJobs' BY <1>3, <2>1, NothingCopied, RestKeeps
  <2>3. DOMAIN jobs' \subseteq DOMAIN jobs \cup {viewer[v].op}
        /\ \A q \in DOMAIN jobs' : jobs'[q] \in Job /\ (jobs'[q].pc = "over" => jobs'[q].status \in Settled \cup {"Stopped"})
    BY <1>3 DEF TransInv, TransShape
  <2> QED BY <1>1, <1>2, <1>3, <1>6, <1>11, <2>1, <2>2, <2>3, EndStep
<1>12. CASE get_transcription_service(v) BY <1>9, <1>10, <1>12 DEF get_transcription_service
<1>13. CASE CheckAvailable(v)
  <2>1. CASE Next_(v, "probe") /\ UNCHANGED <<tracked, updates>> BY <1>9, <2>1
  <2>2. CASE Next_(v, "extract") /\ UNCHANGED tracked /\ updates' = Entered(updates, viewer[v].op, Updates) BY <1>9, <2>2
  <2> QED BY <1>10, <1>11, <1>13, <2>1, <2>2 DEF CheckAvailable
<1>14. CASE BodyStops(v) BY <1>9, <1>14 DEF BodyStops
<1> QED BY <1>12, <1>13, <1>14

LEMMA ExtractKeeps == ASSUME TransInv, NEW v \in Viewer, extract_audio(v) PROVE TransInv'
<1>1. viewer[v].pc \in {"extract", "extracting"} BY DEF extract_audio, At_
<1>2. viewer[v].cmd # "none" /\ viewer[v].pc \in Ready /\ viewer[v].file \in Recordings BY <1>1, UnderWay DEF Ready
<1>3. UNCHANGED <<recording, copied, jobs, updates, heard, tainted>> BY DEF extract_audio
<1>4. PICK f : f = viewer[v].file OBVIOUS
<1>5. PICK o : o = viewer[v].op OBVIOUS
<1>6. (\A q \in DOMAIN updates' : updates'[q] \in Int) /\ DOMAIN updates' \subseteq DOMAIN updates \cup {o} BY <1>3 DEF TransInv, TransShape
<1>7. StageAt(viewer[v].pc, f, o, viewer[v].got) BY <1>4, <1>5 DEF TransInv, Stage
<1>8. Copied(f) BY <1>2, <1>7 DEF StageAt
<1>9. Kept /\ Copied(f)' BY <1>3, <1>8, NothingCopied, FileKeeps
<1>10. CASE FailsOp(v) /\ wavs' \in {wavs, Entered(wavs, viewer[v].op, Half)}
  <2>1. OnlyWav(viewer[v].op) BY <1>10 DEF OnlyWav, Entered
  <2> QED BY <1>1, <1>2, <1>3, <1>10, <2>1, FailStep
<1>11. CASE At_(v, "extract") /\ UNCHANGED wavs /\ PathHas(f) # Missing /\ Holds(v, "extracting", PathHas(f)) /\ UNCHANGED tracked
  <2>1. PICK x : x = PathHas(f) OBVIOUS
  <2>2. Reads(f, x) /\ x \in -3..MaxEdits BY <1>2, <1>4, <1>8, <1>11, <2>1, PathReads
  <2>3. Reads(f, x)' BY <1>8, <1>9, <2>2, FileKeeps
  <2>4. StageAt("extracting", f, o, x)' BY <1>9, <2>3 DEF StageAt
  <2>5. OnlyWav(o) /\ "extracting" \in ViewPcs \ {"idle"} BY <1>11 DEF OnlyWav, ViewPcs
  <2> QED BY <1>2, <1>3, <1>4, <1>5, <1>6, <1>11, <2>1, <2>2, <2>4, <2>5, ReadyStep
<1>12. CASE /\ At_(v, "extracting") /\ Next_(v, "engine") /\ UNCHANGED tracked
            /\ \E x \in ReadFrom(viewer[v].file, viewer[v].got) : wavs' = Entered(wavs, viewer[v].op, x)
  <2>1. PICK x \in ReadFrom(f, viewer[v].got) : wavs' = Entered(wavs, o, x) BY <1>4, <1>5, <1>12
  <2>2. PICK y : y = viewer[v].got OBVIOUS
  <2>3. Reads(f, y) BY <1>7, <1>12, <2>2 DEF StageAt, At_
  <2>4. Whole(f, x) BY <1>2, <1>4, <1>8, <2>1, <2>2, <2>3, ReadWhole
  <2>5. Whole(f, x)' BY <1>9, <2>4, FileKeeps
  <2>6. OnlyWav(o) /\ o \in DOMAIN wavs' /\ wavs'[o] = x BY <2>1 DEF OnlyWav, Entered
  <2>7. WholeWav(f, o)' BY <2>5, <2>6 DEF WholeWav
  <2>8. Holds(v, "engine", y) /\ y \in -3..MaxEdits BY <1>12, <2>2, NextIsGo
  <2>9. StageAt("engine", f, o, y)' BY <1>9, <2>7 DEF StageAt
  <2>10. "engine" \in ViewPcs \ {"idle"} BY DEF ViewPcs
  <2> QED BY <1>2, <1>3, <1>4, <1>5, <1>6, <1>12, <2>6, <2>8, <2>9, <2>10, ReadyStep
<1>13. CASE At_(v, "extract") /\ UNCHANGED wavs
             /\ LET x == PathHas(viewer[v].file)
                IN  IF x = Missing THEN FailsOp(v) ELSE Holds(v, "extracting", x) /\ UNCHANGED tracked
  BY <1>4, <1>10, <1>11, <1>13
<1> QED BY <1>10, <1>12, <1>13 DEF extract_audio

LEMMA EngineKeeps == ASSUME TransInv, NEW v \in Viewer, transcribe_audio_file(v) PROVE TransInv'
<1>1. viewer[v].pc = "engine" BY DEF transcribe_audio_file, At_
<1>2. viewer[v].cmd # "none" /\ viewer[v].op \in 1..Len(tracked) /\ tracked[viewer[v].op].file = viewer[v].file BY <1>1, UnderWay
<1>3. UNCHANGED <<recording, copied, jobs, updates, wavs, tainted>> BY DEF transcribe_audio_file
<1>4. PICK f : f = viewer[v].file OBVIOUS
<1>5. PICK o : o = viewer[v].op OBVIOUS
<1>6. OnlyWav(o) /\ Kept /\ OnlyCopy(f) BY <1>3, NothingCopied DEF OnlyWav
<1>7. StageAt("engine", f, o, viewer[v].got) BY <1>1, <1>4, <1>5 DEF TransInv, Stage
<1>8. viewer \in [Viewer -> ViewCall] BY DEF TransInv, TransShape
<1>9. CASE FailsOp(v) /\ UNCHANGED heard BY <1>1, <1>2, <1>3, <1>5, <1>6, <1>9, FailStep
<1>10. CASE Next_(v, "clean") /\ UNCHANGED tracked
            /\ \E w \in EngineOutputs : heard' = Entered(heard, viewer[v].op, parse_whisper_json(w, wavs[viewer[v].op]))
  <2>1. PICK h : h \in {<< >>, <<wavs[o]>>} /\ heard' = Entered(heard, o, h) BY <1>5, <1>10 DEF parse_whisper_json
  <2>2. PICK r : r = [viewer[v] EXCEPT !.pc = "clean"] OBVIOUS
  <2>3. viewer' = [viewer EXCEPT ![v] = r] BY <1>8, <1>10, <2>2 DEF Next_
  <2>4. r \in ViewCall BY <1>8, <2>2 DEF ViewCall, ViewPcs
  <2>5. r.cmd = viewer[v].cmd /\ r.op = o /\ r.file = f /\ r.pc = "clean" BY <1>4, <1>5, <1>8, <2>2 DEF ViewCall
  <2>6. SameCall(r, viewer[v]) BY <1>4, <1>5, <2>5 DEF SameCall
  <2>7. viewer' \in [Viewer -> ViewCall] BY <1>8, <2>3, <2>4
  <2>8. DOMAIN heard' = DOMAIN heard \cup {o} /\ heard'[o] = h /\ \A q \in DOMAIN heard : q # o => heard'[q] = heard[q] BY <2>1 DEF Entered
  <2>9. TransShape' BY <1>2, <1>3, <1>5, <1>10, <2>7, <2>8 DEF TransInv, TransShape
  <2>10. SameFiles /\ Len(tracked') = Len(tracked) BY <1>10 DEF SameFiles, TransInv, TransShape
  <2>11. Stage(r)'
    <3>1. Copied(f) BY <1>7 DEF StageAt, Ready
    <3>2. Copied(f)' BY <1>6, <3>1, FileKeeps
    <3> QED BY <2>5, <3>2 DEF Stage, StageAt
  <2>12. WholeCopies'
    <3>1. \A u \in Viewer : viewer[u].pc = "write" => viewer'[u] = viewer[u] BY <1>1, <1>8, <2>3
    <3> QED BY <1>3, <3>1 DEF TransInv, WholeCopies
  <2>13. WholeJobs'
    <3>1. \A q \in DOMAIN jobs' : JobFile(q)' BY <1>3, <1>6, <2>10, JobFileKeeps
    <3> QED BY <3>1 DEF WholeJobs
  <2>14. WholeHeard'
    <3>1. PICK x : x = wavs[o] OBVIOUS
    <3>2. Whole(f, x) BY <1>7, <3>1 DEF StageAt, WholeWav
    <3>3. Whole(f, x)' BY <1>6, <3>2, FileKeeps
    <3>4. tracked'[o].file = f BY <1>2, <1>4, <1>5, <1>10
    <3>5. HeardFile(o)'
      <4>1. \A i \in DOMAIN heard'[o] : heard'[o][i] = x BY <2>1, <2>8, <3>1
      <4> QED BY <3>3, <3>4, <4>1 DEF HeardFile
    <3>6. ASSUME NEW q \in DOMAIN heard', q # o PROVE HeardFile(q)'
      <4>1. q \in DOMAIN heard /\ heard'[q] = heard[q] BY <2>8, <3>6
      <4> QED BY <1>6, <2>10, <4>1, HeardKeeps
    <3> QED BY <3>5, <3>6 DEF WholeHeard
  <2> QED BY <1>2, <1>4, <1>5, <1>6, <2>3, <2>4, <2>6, <2>9, <2>10, <2>11, <2>12, <2>13, <2>14, ViewStep
<1> QED BY <1>9, <1>10 DEF transcribe_audio_file

LEMMA HandOverKeeps == ASSUME TransInv, NEW v \in Viewer, vfs_transcribe_file(v) \/ start_live_transcription(v) PROVE TransInv'
<1>1. viewer[v].pc \in {"clean", "probe"} BY DEF vfs_transcribe_file, start_live_transcription, At_
<1>2. /\ viewer[v].cmd # "none" /\ viewer[v].op \in 1..Len(tracked) /\ viewer[v].file \in Recordings
      /\ tracked[viewer[v].op].file = viewer[v].file BY <1>1, UnderWay
<1>3. UNCHANGED <<recording, copied, updates, heard, tainted>> BY DEF vfs_transcribe_file, start_live_transcription
<1>4. tracked \in Seq(Operation) BY DEF TransInv, TransShape
<1>5. CASE vfs_transcribe_file(v)
  <2>1. Finish(viewer[v].op, "Completed") /\ "Completed" \in Settled /\ Hangs_up(v) /\ UNCHANGED jobs
    BY <1>5 DEF vfs_transcribe_file, Settled
  <2>2. tracked' \in Seq(Operation) /\ Len(tracked') = Len(tracked) /\ SameFiles BY <1>2, <1>4, <2>1, FinishFits
  <2>3. OnlyWav(viewer[v].op) BY <1>5 DEF vfs_transcribe_file, Restrict, OnlyWav
  <2>4. WholeJobs' BY <1>3, <2>1, <2>2, NothingCopied, RestKeeps
  <2>5. /\ DOMAIN jobs' \subseteq DOMAIN jobs \cup {viewer[v].op}
        /\ \A o \in DOMAIN jobs' : jobs'[o] \in Job /\ (jobs'[o].pc = "over" => jobs'[o].status \in Settled \cup {"Stopped"})
    BY <2>1 DEF TransInv, TransShape
  <2> QED BY <1>1, <1>2, <1>3, <2>1, <2>2, <2>3, <2>4, <2>5, EndStep
<1>6. CASE start_live_transcription(v)
  <2>1. OnlyWav(viewer[v].op) BY <1>6 DEF start_live_transcription, OnlyWav
  <2>2. CASE FailsOp(v) /\ UNCHANGED jobs BY <1>1, <1>2, <1>3, <2>1, <2>2, FailStep
  <2>3. CASE /\ jobs' = Entered(jobs, viewer[v].op, [status |-> "Starting", pc |-> "start", file |-> viewer[v].file, got |-> Missing])
             /\ Hangs_up(v) /\ UNCHANGED tracked
    <3>1. PICK f : f = viewer[v].file OBVIOUS
    <3>2. PICK o : o = viewer[v].op OBVIOUS
    <3>3. PICK j : j = [status |-> "Starting", pc |-> "start", file |-> f, got |-> Missing] OBVIOUS
    <3>4. j \in Job /\ j.pc = "start" /\ j.file = f BY <1>2, <3>1, <3>3, TransAssumption DEF Job, Missing
    <3>5. DOMAIN jobs' = DOMAIN jobs \cup {o} /\ jobs'[o] = j /\ \A q \in DOMAIN jobs : q # o => jobs'[q] = jobs[q]
      BY <2>3, <3>1, <3>2, <3>3 DEF Entered
    <3>6. \A q \in DOMAIN jobs' : jobs'[q] \in Job /\ (jobs'[q].pc = "over" => jobs'[q].status \in Settled \cup {"Stopped"})
      BY <3>4, <3>5 DEF TransInv, TransShape
    <3>7. tracked' \in Seq(Operation) /\ Len(tracked') = Len(tracked) /\ SameFiles BY <1>4, <2>3 DEF SameFiles
    <3>8. Kept BY <1>3, NothingCopied
    <3>9. WholeJobs'
      <4>1. Stage(viewer[v]) BY DEF TransInv
      <4>2. Copied(f) BY <1>1, <3>1, <4>1 DEF Stage, StageAt, Ready
      <4>3. Copied(f)' BY <3>8, <4>2, FileKeeps
      <4>4. JobFile(o)' BY <1>2, <2>3, <3>1, <3>2, <3>4, <3>5, <4>3 DEF JobFile
      <4>5. ASSUME NEW q \in DOMAIN jobs', q # o PROVE JobFile(q)'
        <5>1. q \in DOMAIN jobs /\ jobs'[q] = jobs[q] BY <3>5, <4>5
        <5> QED BY <3>7, <3>8, <4>5, <5>1, JobFileKeeps
      <4> QED BY <4>4, <4>5 DEF WholeJobs
    <3>10. DOMAIN jobs' \subseteq DOMAIN jobs \cup {viewer[v].op} BY <3>2, <3>5
    <3> QED BY <1>1, <1>2, <1>3, <2>1, <2>3, <3>6, <3>7, <3>9, <3>10, EndStep
  <2> QED BY <1>6, <2>2, <2>3 DEF start_live_transcription
<1> QED BY <1>5, <1>6

LEMMA BeginTransKeeps == ASSUME TransInv, NEW v \in Viewer, BeginTranscription(v) PROVE TransInv'
<1>1. PICK r \in ViewRequest[v] :
        /\ create_operation(r.file)
        /\ viewer' = [viewer EXCEPT ![v] = [cmd |-> r.cmd, pc |-> "find", op |-> Len(tracked) + 1, file |-> r.file, got |-> Missing]]
        /\ tainted' = tainted \cup ({viewer[u].file : u \in Viewer} \cap {r.file})
  BY DEF BeginTranscription
<1>2. PICK q : q = [cmd |-> r.cmd, pc |-> "find", op |-> Len(tracked) + 1, file |-> r.file, got |-> Missing] OBVIOUS
<1>3. r.cmd \in {"start", "transcribe"} /\ r.file \in Recordings BY TransRequestAssumption
<1>4. tracked \in Seq(Operation) /\ Len(tracked) \in Nat /\ viewer \in [Viewer -> ViewCall] BY DEF TransInv, TransShape
<1>5. q \in ViewCall BY <1>2, <1>3, <1>4, TransAssumption DEF ViewCall, ViewPcs, Missing
<1>6. q.cmd = r.cmd /\ q.pc = "find" /\ q.op = Len(tracked) + 1 /\ q.file = r.file BY <1>2
<1>7. viewer'[v] = q /\ \A u \in Viewer : u # v => viewer'[u] = viewer[u] BY <1>1, <1>2, <1>4
<1>8. tracked' \in Seq(Operation) /\ Len(tracked') = Len(tracked) + 1 /\ tracked'[q.op].file = r.file
      /\ \A o \in 1..Len(tracked) : tracked'[o] = tracked[o]
  <2>1. PICK x : x = [file |-> r.file, status |-> "Pending", bytes |-> 0] OBVIOUS
  <2>2. x \in Operation /\ x.file = r.file BY <1>3, <2>1 DEF Operation
  <2>3. tracked' = Append(tracked, x) BY <1>1, <2>1 DEF create_operation
  <2> QED BY <1>4, <1>6, <2>2, <2>3
<1>9. UNCHANGED <<recording, copied, jobs, updates, wavs, heard>> BY DEF BeginTranscription
<1>10. Kept /\ SameFiles BY <1>1, <1>4, <1>8, <1>9, NothingCopied DEF SameFiles
<1>11. viewer' \in [Viewer -> ViewCall] BY <1>1, <1>2, <1>4, <1>5
<1>12. TransShape' BY <1>4, <1>8, <1>9, <1>11 DEF TransInv, TransShape
<1>13. ASSUME NEW u \in Viewer PROVE Owns(viewer[u])'
  <2>1. CASE u = v BY <1>3, <1>4, <1>6, <1>7, <1>8, <2>1 DEF Owns
  <2>2. CASE u # v BY <1>4, <1>7, <1>8, <2>2 DEF TransInv, Owns
  <2> QED BY <2>1, <2>2
<1>14. \A u \in Viewer : viewer[u].op \in 0..Len(tracked) BY <1>4 DEF TransInv, Owns, Off
<1>15. OwnOperations'
  <2> SUFFICES ASSUME NEW u \in Viewer, NEW w \in Viewer, u # w, viewer'[u].cmd # "none" PROVE viewer'[u].op # viewer'[w].op
    BY DEF OwnOperations
  <2>1. CASE u = v BY <1>4, <1>6, <1>7, <1>14, <2>1
  <2>2. CASE w = v BY <1>4, <1>6, <1>7, <1>14, <2>2
  <2>3. CASE u # v /\ w # v BY <1>7, <2>3 DEF TransInv, OwnOperations
  <2> QED BY <2>1, <2>2, <2>3
<1>16. OwnFiles'
  <2> SUFFICES ASSUME NEW u \in Viewer, NEW w \in Viewer, u # w, viewer'[u].cmd # "none", viewer'[u].file = viewer'[w].file
               PROVE  viewer'[u].file \in tainted'
    BY DEF OwnFiles
  <2>1. CASE u = v BY <1>1, <1>6, <1>7, <2>1
  <2>2. CASE w = v BY <1>1, <1>6, <1>7, <2>2
  <2>3. CASE u # v /\ w # v BY <1>1, <1>7, <2>3 DEF TransInv, OwnFiles
  <2> QED BY <2>1, <2>2, <2>3
<1>17. ASSUME NEW u \in Viewer PROVE Stage(viewer[u])'
  <2>1. CASE u = v BY <1>6, <1>7, <2>1 DEF Stage, StageAt, Ready
  <2>2. CASE u # v
    <3>1. viewer'[u] = viewer[u] /\ Stage(viewer[u]) BY <1>7, <2>2 DEF TransInv
    <3>2. PICK s : s = viewer[u] /\ s = viewer'[u] BY <3>1
    <3>3. StageAt(s.pc, s.file, s.op, s.got) BY <3>1, <3>2 DEF Stage
    <3>4. StageAt(s.pc, s.file, s.op, s.got)' BY <1>9, <1>10, <3>3 DEF StageAt, Copied, Reads, WholeWav, Whole, Kept
    <3> QED BY <3>2, <3>4 DEF Stage
  <2> QED BY <2>1, <2>2
<1>18. WholeCopies'
  <2>1. viewer[v].pc # "write" BY DEF BeginTranscription, Idle_, TransInv, Owns
  <2>2. \A u \in Viewer : viewer[u].pc = "write" => viewer'[u] = viewer[u] BY <1>7, <2>1
  <2> QED BY <1>9, <1>10, <2>2 DEF TransInv, WholeCopies, Kept
<1>19. WholeJobs' /\ WholeHeard' BY <1>9, <1>10, RestKeeps
<1> QED BY <1>12, <1>13, <1>15, <1>16, <1>17, <1>18, <1>19 DEF TransInv

\* A step that no command takes.
LEMMA OutsideStep ==
    ASSUME TransInv, UNCHANGED <<viewer, copied, wavs, tainted>>, TransShape', Len(tracked') = Len(tracked), SameFiles,
           WholeJobs', WholeHeard'
    PROVE  TransInv'
<1>1. ASSUME NEW v \in Viewer PROVE Owns(viewer[v])' BY DEF TransInv, Owns, SameFiles
<1>2. OwnOperations' /\ OwnFiles' BY DEF TransInv, OwnOperations, OwnFiles
<1>3. ASSUME NEW v \in Viewer PROVE Stage(viewer[v])'
  BY DEF TransInv, Stage, StageAt, Copied, Reads, WholeWav, Whole
<1>4. WholeCopies' BY DEF TransInv, WholeCopies
<1> QED BY <1>1, <1>2, <1>3, <1>4 DEF TransInv

\* A job's new record: the same file, read when it is opened, and Settled or Stopped when it is over.
LEMMA JobFits ==
    ASSUME TransInv, Kept, SameFiles, NEW o \in DOMAIN jobs, NEW j \in Job, j.file = jobs[o].file,
           j.pc = "read" /\ j.got # Missing => Reads(j.file, j.got)',
           j.pc = "over" => j.status \in Settled \cup {"Stopped"}, jobs' = [jobs EXCEPT ![o] = j]
    PROVE  /\ DOMAIN jobs' = DOMAIN jobs
           /\ \A q \in DOMAIN jobs' : jobs'[q] \in Job /\ (jobs'[q].pc = "over" => jobs'[q].status \in Settled \cup {"Stopped"})
           /\ WholeJobs'
<1>1. DOMAIN jobs' = DOMAIN jobs /\ jobs'[o] = j /\ \A q \in DOMAIN jobs : q # o => jobs'[q] = jobs[q] OBVIOUS
<1>2. JobFile(o)'
  <2>1. JobFile(o) /\ o \in 1..Len(tracked) BY DEF TransInv, TransShape, WholeJobs
  <2>2. PICK f : f = j.file OBVIOUS
  <2>3. f = tracked'[o].file /\ Copied(f) BY <2>1, <2>2 DEF JobFile, SameFiles
  <2>4. Copied(f)' BY <2>3, FileKeeps
  <2> QED BY <1>1, <2>2, <2>3, <2>4 DEF JobFile
<1>3. ASSUME NEW q \in DOMAIN jobs', q # o PROVE JobFile(q)' BY <1>1, <1>3, JobFileKeeps
<1> QED BY <1>1, <1>2, <1>3 DEF TransInv, TransShape, WholeJobs

LEMMA JobKeeps == ASSUME TransInv, NEW o \in DOMAIN jobs, JobStep(o) \/ stop_transcription(o) PROVE TransInv'
<1>1. jobs[o] \in Job /\ o \in 1..Len(tracked) /\ tracked \in Seq(Operation) BY DEF TransInv, TransShape
<1>2. UNCHANGED <<viewer, recording, copied, wavs, tainted>>
  BY DEF JobStep, RunJob, SpawnFfmpeg, SpawnFails, EndOfStream, stop_transcription
<1>3. PICK f : f = jobs[o].file OBVIOUS
<1>4. JobFile(o) /\ f \in Recordings BY <1>1, <1>3 DEF TransInv, WholeJobs, Job
<1>5. Copied(f) /\ f = tracked[o].file BY <1>3, <1>4 DEF JobFile
<1>6. tracked' \in Seq(Operation) /\ Len(tracked') = Len(tracked) /\ SameFiles
  <2>1. CASE UNCHANGED tracked BY <1>1, <2>1 DEF SameFiles
  <2>2. CASE SpawnFails(o) \/ EndOfStream(o)
    <3>1. \E st \in Settled : Finish(o, st) BY <2>2 DEF SpawnFails, EndOfStream, JobOver, Settled
    <3> QED BY <1>1, <3>1, FinishFits
  <2> QED BY <2>1, <2>2 DEF JobStep, RunJob, SpawnFfmpeg, stop_transcription
<1>7. Kept BY <1>2, NothingCopied
<1>8. PICK j : /\ jobs' = [jobs EXCEPT ![o] = j] /\ j \in Job /\ j.file = jobs[o].file
               /\ j.pc = "over" => j.status \in Settled \cup {"Stopped"}
               /\ j.pc = "read" /\ j.got # Missing => Reads(j.file, j.got)'
  <2>1. CASE RunJob(o)
    <3>1. PICK j : j = [jobs[o] EXCEPT !.pc = "spawn", !.status = "Running"] OBVIOUS
    <3>2. jobs' = [jobs EXCEPT ![o] = j] BY <2>1, <3>1 DEF RunJob
    <3>3. j \in Job /\ j.file = jobs[o].file /\ j.pc = "spawn" BY <1>1, <3>1 DEF Job
    <3> QED BY <3>2, <3>3
  <2>2. CASE SpawnFfmpeg(o)
    <3>1. PICK x : x = PathHas(f) OBVIOUS
    <3>2. x \in -3..MaxEdits /\ (x # Missing => Reads(f, x))
      <4>1. CASE x = Missing BY <4>1, TransAssumption DEF Missing
      <4>2. CASE x # Missing BY <1>4, <1>5, <3>1, <4>2, PathReads
      <4> QED BY <4>1, <4>2
    <3>3. x # Missing => Reads(f, x)' BY <1>5, <1>7, <3>2, FileKeeps
    <3>4. PICK j : j = [jobs[o] EXCEPT !.pc = "read", !.got = x] OBVIOUS
    <3>5. jobs' = [jobs EXCEPT ![o] = j] BY <1>3, <2>2, <3>1, <3>4 DEF SpawnFfmpeg
    <3>6. j \in Job /\ j.file = f /\ j.pc = "read" /\ j.got = x BY <1>1, <1>3, <3>2, <3>4 DEF Job
    <3> QED BY <1>3, <3>3, <3>5, <3>6
  <2>3. ASSUME NEW st \in Settled, jobs' = [jobs EXCEPT ![o].pc = "over", ![o].status = st]
        PROVE  \E j \in Job : jobs' = [jobs EXCEPT ![o] = j] /\ j.file = jobs[o].file /\ j.status \in Settled /\ j.pc = "over"
    <3>1. PICK j : j = [jobs[o] EXCEPT !.pc = "over", !.status = st] OBVIOUS
    <3>2. jobs' = [jobs EXCEPT ![o] = j] BY <2>3, <3>1
    <3>3. j \in Job /\ j.file = jobs[o].file /\ j.status = st /\ j.pc = "over" BY <1>1, <3>1 DEF Job
    <3> QED BY <3>2, <3>3
  <2>4. CASE SpawnFails(o) \/ EndOfStream(o)
    <3>1. PICK st \in Settled : jobs' = [jobs EXCEPT ![o].pc = "over", ![o].status = st] BY <2>4 DEF SpawnFails, EndOfStream, Settled
    <3>2. PICK j \in Job : jobs' = [jobs EXCEPT ![o] = j] /\ j.file = jobs[o].file /\ j.status \in Settled /\ j.pc = "over" BY <2>3, <3>1
    <3>3. j.pc # "read" BY <3>2
    <3> QED BY <3>2, <3>3
  <2>5. CASE stop_transcription(o)
    <3>1. PICK j : j = [jobs[o] EXCEPT !.status = "Stopped"] OBVIOUS
    <3>2. jobs' = [jobs EXCEPT ![o] = j] BY <2>5, <3>1 DEF stop_transcription
    <3>3. j \in Job /\ j.file = f /\ j.status = "Stopped" /\ j.pc = jobs[o].pc /\ j.got = jobs[o].got BY <1>1, <1>3, <3>1 DEF Job
    <3>4. PICK x : x = j.got OBVIOUS
    <3>5. j.pc = "read" /\ x # Missing => Reads(f, x) BY <1>3, <1>4, <3>3, <3>4 DEF JobFile
    <3>6. j.pc = "read" /\ x # Missing => Reads(f, x)' BY <1>5, <1>7, <3>5, FileKeeps
    <3> QED BY <1>3, <3>2, <3>3, <3>4, <3>6
  <2> QED BY <2>1, <2>2, <2>4, <2>5 DEF JobStep
<1>9. /\ DOMAIN jobs' = DOMAIN jobs /\ WholeJobs'
      /\ \A q \in DOMAIN jobs' : jobs'[q] \in Job /\ (jobs'[q].pc = "over" => jobs'[q].status \in Settled \cup {"Stopped"})
  BY <1>6, <1>7, <1>8, JobFits
<1>10. (\A q \in DOMAIN updates' : updates'[q] \in Int) /\ DOMAIN updates' \subseteq DOMAIN updates \cup {o}
  <2>1. CASE UNCHANGED updates BY <2>1 DEF TransInv, TransShape
  <2>2. CASE SpawnFfmpeg(o) BY <2>2, TransAssumption DEF SpawnFfmpeg, Entered, TransInv, TransShape
  <2> QED BY <2>1, <2>2 DEF JobStep, RunJob, SpawnFails, EndOfStream, stop_transcription
<1>11. DOMAIN heard' \subseteq DOMAIN heard \cup {o} /\ WholeHeard'
  <2>1. CASE UNCHANGED heard
    <3>1. \A q \in DOMAIN heard' : HeardFile(q)' BY <1>6, <1>7, <2>1, HeardKeeps
    <3> QED BY <2>1, <3>1 DEF WholeHeard
  <2>2. CASE EndOfStream(o) /\ jobs[o].got # Missing
    <3>1. PICK x : x = jobs[o].got OBVIOUS
    <3>2. PICK y \in ReadFrom(f, x) : heard' = Entered(heard, o, <<y>>) BY <1>3, <2>2, <3>1 DEF EndOfStream
    <3>3. Reads(f, x) BY <1>3, <1>4, <2>2, <3>1 DEF JobFile, EndOfStream
    <3>4. Whole(f, y) BY <1>4, <1>5, <3>3, ReadWhole
    <3>5. Whole(f, y)' BY <1>7, <3>4, FileKeeps
    <3>6. DOMAIN heard' = DOMAIN heard \cup {o} /\ heard'[o] = <<y>> /\ \A q \in DOMAIN heard : q # o => heard'[q] = heard[q] BY <3>2 DEF Entered
    <3>7. tracked'[o].file = f BY <1>1, <1>5, <1>6 DEF SameFiles
    <3>8. HeardFile(o)' BY <3>5, <3>6, <3>7 DEF HeardFile
    <3>9. ASSUME NEW q \in DOMAIN heard', q # o PROVE HeardFile(q)'
      <4>1. q \in DOMAIN heard /\ heard'[q] = heard[q] BY <3>6, <3>9
      <4> QED BY <1>6, <1>7, <4>1, HeardKeeps
    <3> QED BY <3>6, <3>8, <3>9 DEF WholeHeard
  <2> QED BY <2>1, <2>2 DEF JobStep, RunJob, SpawnFfmpeg, SpawnFails, EndOfStream, stop_transcription
<1>12. TransShape' BY <1>1, <1>2, <1>6, <1>9, <1>10, <1>11 DEF TransInv, TransShape
<1> QED BY <1>2, <1>6, <1>9, <1>11, <1>12, OutsideStep

LEMMA ProgressFits ==
    ASSUME TransInv, NEW o \in DOMAIN updates, ReportProgress(o)
    PROVE  /\ o \in DOMAIN tracked /\ tracked \in Seq(Operation) /\ tracked' \in Seq(Operation) /\ Len(tracked') = Len(tracked)
           /\ tracked[o].status \in Settled => tracked'[o].status = tracked[o].status
           /\ tracked'[o].status \in Settled => tracked[o].status \in Settled
           /\ tracked'[o].file = tracked[o].file
           /\ \A q \in DOMAIN tracked : q # o => tracked'[q] = tracked[q]
<1>1. tracked \in Seq(Operation) /\ o \in 1..Len(tracked) /\ updates[o] \in Int BY DEF TransInv, TransShape
<1>2. PICK n : n = Updates - updates[o] + 1 OBVIOUS
<1>3. PICK x : x = Progressed(tracked[o], n) OBVIOUS
<1>4. tracked[o] \in Operation /\ n \in Int BY <1>1, <1>2, TransAssumption
<1>5. x \in Operation /\ x.file = tracked[o].file BY <1>3, <1>4 DEF Progressed, Operation
<1>6. x.status = IF tracked[o].status = "Pending" THEN "InProgress" ELSE tracked[o].status BY <1>3, <1>4 DEF Progressed, Operation
<1>7. tracked' = [tracked EXCEPT ![o] = x] BY <1>2, <1>3 DEF ReportProgress
<1>8. tracked'[o] = x /\ \A q \in DOMAIN tracked : q # o => tracked'[q] = tracked[q] BY <1>1, <1>7
<1>9. tracked' \in Seq(Operation) /\ Len(tracked') = Len(tracked) BY <1>1, <1>5, <1>7
<1>10. "Pending" \notin Settled /\ "InProgress" \notin Settled BY DEF Settled
<1> QED BY <1>1, <1>5, <1>6, <1>8, <1>9, <1>10

LEMMA ProgressKeeps == ASSUME TransInv, NEW o \in DOMAIN updates, ReportProgress(o) PROVE TransInv'
<1>1. tracked' \in Seq(Operation) /\ Len(tracked') = Len(tracked) BY ProgressFits
<1>2. UNCHANGED <<viewer, copied, wavs, tainted, jobs, heard, recording>> /\ updates' = [updates EXCEPT ![o] = @ - 1] BY DEF ReportProgress
<1>3. TransShape' BY <1>1, <1>2 DEF TransInv, TransShape
<1>4. SameFiles
  <2>1. \A q \in DOMAIN tracked : tracked'[q].file = tracked[q].file BY ProgressFits
  <2> QED BY <1>1, <2>1 DEF SameFiles, TransInv, TransShape
<1>5. WholeJobs' /\ WholeHeard' BY <1>2, <1>4, NothingCopied, RestKeeps
<1> QED BY <1>1, <1>2, <1>3, <1>4, <1>5, OutsideStep

LEMMA EditKeeps == ASSUME TransInv, NEW f \in Recordings, EditRecording(f) PROVE TransInv'
<1>1. UNCHANGED <<copied, tracked, jobs, updates, wavs, viewer, heard, tainted>> BY DEF EditRecording
<1>2. recording' \in [Recordings -> -1..MaxEdits]
  <2>1. recording[f] + 1 \in -1..MaxEdits /\ Missing \in -1..MaxEdits BY TransAssumption DEF EditRecording, Missing
  <2> QED BY <2>1 DEF EditRecording, TransInv, TransShape
<1>3. TransShape' BY <1>1, <1>2 DEF TransInv, TransShape
<1>4. SameFiles BY <1>1 DEF SameFiles, TransInv, TransShape
<1>5. WholeJobs' /\ WholeHeard' BY <1>1, <1>4, NothingCopied, RestKeeps
<1> QED BY <1>1, <1>3, <1>4, <1>5, OutsideStep

\* A stop of the program: nothing is under way, and a copy that was being written is tainted.
LEMMA StopKeeps == ASSUME TransInv, StopProgram PROVE TransInv'
<1>1. UNCHANGED <<recording, copied, tracked, wavs, heard>> /\ jobs' = << >> /\ updates' = << >> BY DEF StopProgram
<1>2. viewer' = [v \in Viewer |-> Off] BY DEF StopProgram
<1>3. DOMAIN jobs' = {} /\ DOMAIN updates' = {} BY <1>1, EmptyMap
<1>4. tainted \subseteq tainted' BY DEF StopProgram
<1>5. Kept /\ SameFiles BY <1>1, <1>4, NothingCopied DEF SameFiles, TransInv, TransShape
<1>6. viewer' \in [Viewer -> ViewCall] BY <1>2, OffFits
<1>7. TransShape' BY <1>1, <1>3, <1>6 DEF TransInv, TransShape
<1>8. \A v \in Viewer : viewer'[v] = Off /\ Off.cmd = "none" /\ Off.pc = "idle" BY <1>2, OffFits
<1>9. ASSUME NEW v \in Viewer PROVE Owns(viewer[v])' /\ Stage(viewer[v])'
  <2>1. Owns(viewer[v])' BY <1>8 DEF Owns
  <2>2. Stage(viewer[v])' BY <1>8 DEF Stage, StageAt, Ready
  <2> QED BY <2>1, <2>2
<1>10. OwnOperations' /\ OwnFiles' BY <1>8 DEF OwnOperations, OwnFiles
<1>11. WholeJobs' BY <1>3 DEF WholeJobs
<1>12. WholeHeard'
  <2>1. \A o \in DOMAIN heard' : HeardFile(o)' BY <1>1, <1>5, HeardKeeps
  <2> QED BY <2>1 DEF WholeHeard
<1>13. WholeCopies'
  <2> SUFFICES ASSUME NEW f \in DOMAIN copied, f \in Remote \ tainted' PROVE copied[f] \in Version BY <1>1 DEF WholeCopies
  <2>1. \A v \in Viewer : viewer[v].pc = "write" => viewer[v].file # f BY DEF StopProgram, At_
  <2> QED BY <1>4, <2>1 DEF TransInv, WholeCopies
<1> QED BY <1>7, <1>9, <1>10, <1>11, <1>12, <1>13 DEF TransInv

LEMMA TransStepKeeps == TransInv /\ [TransNext]_transVars => TransInv'
<1> SUFFICES ASSUME TransInv, [TransNext]_transVars PROVE TransInv' OBVIOUS
<1>1. CASE UNCHANGED transVars
  <2>1. TransShape' /\ Len(tracked') = Len(tracked) /\ SameFiles BY <1>1 DEF transVars, TransInv, TransShape, SameFiles
  <2>2. UNCHANGED <<viewer, copied, wavs, tainted, jobs, heard>> BY <1>1 DEF transVars
  <2>3. WholeJobs' /\ WholeHeard' BY <2>1, <2>2, NothingCopied, RestKeeps
  <2> QED BY <2>1, <2>2, <2>3, OutsideStep
<1> QED BY <1>1, BeginTransKeeps, FindKeeps, ServiceKeeps, ExtractKeeps, EngineKeeps, HandOverKeeps, JobKeeps, ProgressKeeps, EditKeeps,
           StopKeeps
        DEF TransNext, CommandStep

\* The invariant of transcriptions holds in every state.
THEOREM TransInductive == TransSpec => []TransInv
BY TransStart, TransStepKeeps, PTL DEF TransSpec

\* What FFmpeg read, for a transcript or a job of adapters/transcription.rs, is one version of the
\* file, or several of a mounted file that was changed meanwhile; of a remote file it is its whole
\* copy, unless two commands filled the copy at once, or a write or the program stopped half way.
\* And the maps of adapters/transcription.rs speak of tracked operations.
THEOREM TranscriptsCorrect == TransSpec => []TranscriptsWhole
<1>1. TransInv => TranscriptsWhole
  <2> SUFFICES ASSUME TransInv PROVE TranscriptsWhole OBVIOUS
  <2>1. HearsWholeFile BY DEF TransInv, WholeHeard, HeardFile, Whole, Version, HearsWholeFile
  <2>2. \A o \in DOMAIN tracked : tracked[o].status \in {"Pending", "InProgress"} \cup Settled
    <3>1. \A o \in DOMAIN tracked : tracked[o] \in Operation BY DEF TransInv, TransShape
    <3> QED BY <3>1 DEF Operation
  <2>3. ASSUME NEW o \in DOMAIN jobs
        PROVE  /\ jobs[o].status \in {"Starting", "Running", "Stopped"} \cup Settled
               /\ jobs[o].pc = "over" => jobs[o].status \in Settled \cup {"Stopped"}
    BY DEF TransInv, TransShape, Job
  <2>4. DOMAIN wavs \cup DOMAIN heard \cup DOMAIN jobs \cup DOMAIN updates \subseteq DOMAIN tracked BY DEF TransInv, TransShape
  <2>5. \A v \in Viewer : viewer[v].op \in 0..Len(tracked) BY DEF TransInv, TransShape, Owns, Off
  <2>6. TransTypeOK BY <2>2, <2>3, <2>4, <2>5 DEF TransTypeOK
  <2> QED BY <2>1, <2>6 DEF TranscriptsWhole
<1> QED BY <1>1, TransInductive, PTL

\* An operation that a command or a job still has to settle is open, and no job has the
\* operation of a command.
Unsettled(o) == tracked[o].status \notin Settled
OpenOperations ==
    /\ \A v \in Viewer : viewer[v].cmd # "none" => viewer[v].op \notin DOMAIN jobs /\ Unsettled(viewer[v].op)
    /\ \A o \in DOMAIN jobs : jobs[o].pc # "over" => Unsettled(o)
Stays == \A o \in DOMAIN tracked : tracked[o].status \in Settled => tracked'[o].status = tracked[o].status

LEMMA OpenStart == TransInit => OpenOperations
<1> SUFFICES ASSUME TransInit PROVE OpenOperations OBVIOUS
<1>1. DOMAIN jobs = {} BY EmptyMap DEF TransInit
<1>2. \A v \in Viewer : viewer[v].cmd = "none" BY DEF TransInit, Off
<1> QED BY <1>1, <1>2 DEF OpenOperations

LEMMA FinishTakes ==
    ASSUME tracked \in Seq(Operation), NEW o \in 1..Len(tracked), NEW st, Finish(o, st)
    PROVE  \A q \in DOMAIN tracked : q # o => tracked'[q] = tracked[q]
BY DEF Finish

\* A command's step: it goes on, or it settles its operation and ends, or leaves it to a job.
LEMMA ViewOpens ==
    ASSUME TransInv, OpenOperations, NEW v \in Viewer, viewer[v].cmd # "none", UNCHANGED jobs,
           \/ UNCHANGED tracked /\ viewer'[v].cmd = viewer[v].cmd /\ viewer'[v].op = viewer[v].op
           \/ UNCHANGED tracked /\ viewer'[v].cmd = "none"
           \/ (\E st \in Settled : Finish(viewer[v].op, st)) /\ viewer'[v].cmd = "none",
           \A u \in Viewer : u # v => viewer'[u] = viewer[u]
    PROVE  OpenOperations' /\ Stays
<1>1. tracked \in Seq(Operation) /\ viewer[v].op \in 1..Len(tracked) BY DEF TransInv, TransShape, Owns
<1>2. \A q \in DOMAIN tracked : q # viewer[v].op => tracked'[q] = tracked[q] BY <1>1, FinishTakes
<1>3. Unsettled(viewer[v].op) BY DEF OpenOperations
<1>4. Stays BY <1>2, <1>3 DEF Stays, Unsettled
<1>5. DOMAIN jobs \subseteq DOMAIN tracked BY <1>1 DEF TransInv, TransShape
<1>6. \A o \in DOMAIN jobs' : jobs'[o].pc # "over" => Unsettled(o)' BY <1>2, <1>5 DEF OpenOperations, Unsettled
<1>7. ASSUME NEW u \in Viewer, viewer'[u].cmd # "none" PROVE viewer'[u].op \notin DOMAIN jobs' /\ tracked'[viewer'[u].op].status \notin Settled
  <2>1. CASE u = v BY <1>7, <2>1 DEF OpenOperations, Unsettled
  <2>2. CASE u # v
    <3>1. viewer'[u] = viewer[u] /\ viewer[u].op # viewer[v].op BY <1>7, <2>2 DEF TransInv, OwnOperations
    <3>2. viewer[u].op \in DOMAIN tracked BY <1>1, <1>7, <3>1 DEF TransInv, Owns
    <3> QED BY <1>2, <1>7, <3>1, <3>2 DEF OpenOperations, Unsettled
  <2> QED BY <2>1, <2>2
<1> QED BY <1>4, <1>6, <1>7 DEF OpenOperations, Unsettled

LEMMA CommandOpens == ASSUME TransInv, OpenOperations, NEW v \in Viewer, CommandStep(v) \/ BodyStops(v) PROVE OpenOperations' /\ Stays
<1>1. viewer[v].pc # "idle"
  BY DEF CommandStep, get_or_cache_file_for_transcription, get_transcription_service, CheckAvailable, extract_audio,
         transcribe_audio_file, vfs_transcribe_file, start_live_transcription, BodyStops, At_
<1>2. viewer[v].cmd # "none" BY <1>1, UnderWay
<1>3. viewer \in [Viewer -> ViewCall] /\ viewer[v].op \in 1..Len(tracked) /\ tracked \in Seq(Operation)
  BY <1>2 DEF TransInv, TransShape, Owns
<1>4. ASSUME FailsOp(v), UNCHANGED jobs PROVE OpenOperations' /\ Stays
  <2>1. Finish(viewer[v].op, "Failed") /\ "Failed" \in Settled BY <1>4 DEF FailsOp, Settled
  <2>2. viewer'[v].cmd = "none" /\ \A u \in Viewer : u # v => viewer'[u] = viewer[u] BY <1>3, <1>4 DEF FailsOp, Hangs_up, Off
  <2> QED BY <1>2, <1>4, <2>1, <2>2, ViewOpens
<1>5. ASSUME NEW p, Next_(v, p), UNCHANGED <<jobs, tracked>> PROVE OpenOperations' /\ Stays
  <2>1. viewer'[v].cmd = viewer[v].cmd /\ viewer'[v].op = viewer[v].op /\ \A u \in Viewer : u # v => viewer'[u] = viewer[u]
    BY <1>3, <1>5 DEF Next_, ViewCall
  <2> QED BY <1>2, <1>5, <2>1, ViewOpens
<1>6. ASSUME NEW p, NEW x, Holds(v, p, x), UNCHANGED <<jobs, tracked>> PROVE OpenOperations' /\ Stays
  <2>1. PICK r : r = [viewer[v] EXCEPT !.pc = p, !.got = x] OBVIOUS
  <2>2. viewer' = [viewer EXCEPT ![v] = r] BY <1>3, <1>6, <2>1 DEF Holds
  <2>3. r.cmd = viewer[v].cmd /\ r.op = viewer[v].op BY <1>3, <2>1 DEF ViewCall
  <2>4. viewer'[v].cmd = viewer[v].cmd /\ viewer'[v].op = viewer[v].op /\ \A u \in Viewer : u # v => viewer'[u] = viewer[u]
    BY <1>3, <2>2, <2>3
  <2> QED BY <1>2, <1>6, <2>4, ViewOpens
<1>7. ASSUME Hangs_up(v), UNCHANGED <<jobs, tracked>> PROVE OpenOperations' /\ Stays
  <2>1. viewer'[v].cmd = "none" /\ \A u \in Viewer : u # v => viewer'[u] = viewer[u] BY <1>3, <1>7 DEF Hangs_up, Off
  <2> QED BY <1>2, <1>7, <2>1, ViewOpens
<1>8. CASE get_or_cache_file_for_transcription(v)
  <2>1. UNCHANGED jobs BY <1>8 DEF get_or_cache_file_for_transcription
  <2>2. \/ FailsOp(v) \/ \E p : Next_(v, p) /\ UNCHANGED tracked
        \/ \E p, x : Holds(v, p, x) /\ UNCHANGED tracked
    BY <1>8 DEF get_or_cache_file_for_transcription
  <2> QED BY <1>4, <1>5, <1>6, <2>1, <2>2
<1>9. CASE get_transcription_service(v) BY <1>4, <1>5, <1>9 DEF get_transcription_service
<1>10. CASE CheckAvailable(v)
  <2>1. UNCHANGED jobs BY <1>10 DEF CheckAvailable
  <2>2. \/ FailsOp(v) \/ \E p : Next_(v, p) /\ UNCHANGED tracked
        \/ Hangs_up(v) /\ UNCHANGED tracked BY <1>10 DEF CheckAvailable
  <2> QED BY <1>4, <1>5, <1>7, <2>1, <2>2
<1>11. CASE extract_audio(v)
  <2>1. UNCHANGED jobs BY <1>11 DEF extract_audio
  <2>2. \/ FailsOp(v) \/ \E p : Next_(v, p) /\ UNCHANGED tracked
        \/ \E p, x : Holds(v, p, x) /\ UNCHANGED tracked
    BY <1>11 DEF extract_audio
  <2> QED BY <1>4, <1>5, <1>6, <2>1, <2>2
<1>12. CASE transcribe_audio_file(v) BY <1>4, <1>5, <1>12 DEF transcribe_audio_file
<1>13. CASE vfs_transcribe_file(v)
  <2>1. Finish(viewer[v].op, "Completed") /\ "Completed" \in Settled /\ UNCHANGED jobs BY <1>13 DEF vfs_transcribe_file, Settled
  <2>2. viewer'[v].cmd = "none" /\ \A u \in Viewer : u # v => viewer'[u] = viewer[u]
    BY <1>3, <1>13 DEF vfs_transcribe_file, Hangs_up, Off
  <2> QED BY <1>2, <2>1, <2>2, ViewOpens
<1>14. CASE start_live_transcription(v)
  <2>1. CASE FailsOp(v) /\ UNCHANGED jobs BY <1>4, <2>1
  <2>2. CASE /\ jobs' = Entered(jobs, viewer[v].op, [status |-> "Starting", pc |-> "start", file |-> viewer[v].file, got |-> Missing])
             /\ Hangs_up(v) /\ UNCHANGED tracked
    <3>1. DOMAIN jobs' = DOMAIN jobs \cup {viewer[v].op} /\ \A o \in DOMAIN jobs : o # viewer[v].op => jobs'[o] = jobs[o]
      BY <2>2 DEF Entered
    <3>2. viewer'[v].cmd = "none" /\ \A u \in Viewer : u # v => viewer'[u] = viewer[u] BY <1>3, <2>2 DEF Hangs_up, Off
    <3>3. Unsettled(viewer[v].op) BY <1>2 DEF OpenOperations
    <3>4. \A o \in DOMAIN jobs' : jobs'[o].pc # "over" => Unsettled(o)' BY <2>2, <3>1, <3>3 DEF OpenOperations, Unsettled
    <3>5. ASSUME NEW u \in Viewer, viewer'[u].cmd # "none" PROVE viewer'[u].op \notin DOMAIN jobs' /\ tracked'[viewer'[u].op].status \notin Settled
      <4>1. u # v /\ viewer'[u] = viewer[u] BY <3>2, <3>5
      <4>2. viewer[u].op # viewer[v].op BY <3>5, <4>1 DEF TransInv, OwnOperations
      <4> QED BY <2>2, <3>1, <3>5, <4>1, <4>2 DEF OpenOperations, Unsettled
    <3> QED BY <2>2, <3>4, <3>5 DEF OpenOperations, Unsettled, Stays
  <2> QED BY <1>14, <2>1, <2>2 DEF start_live_transcription
<1>15. CASE BodyStops(v) BY <1>5, <1>15 DEF BodyStops
<1> QED BY <1>8, <1>9, <1>10, <1>11, <1>12, <1>13, <1>14, <1>15 DEF CommandStep

LEMMA JobOpens == ASSUME TransInv, OpenOperations, NEW o \in DOMAIN jobs, JobStep(o) \/ stop_transcription(o) PROVE OpenOperations' /\ Stays
<1>1. tracked \in Seq(Operation) /\ o \in 1..Len(tracked) BY DEF TransInv, TransShape
<1>2. UNCHANGED viewer BY DEF JobStep, RunJob, SpawnFfmpeg, SpawnFails, EndOfStream, stop_transcription
<1>3. DOMAIN jobs' = DOMAIN jobs /\ \A q \in DOMAIN jobs : q # o => jobs'[q] = jobs[q]
  BY DEF JobStep, RunJob, SpawnFfmpeg, SpawnFails, EndOfStream, stop_transcription
<1>4. jobs[o] \in Job BY DEF TransInv, TransShape
<1>5. \/ UNCHANGED tracked /\ (jobs[o].pc # "over" \/ jobs'[o].pc = jobs[o].pc)
      \/ jobs[o].pc # "over" /\ jobs'[o].pc = "over" /\ \E st \in Settled : Finish(o, st)
  <2>1. CASE RunJob(o) \/ SpawnFfmpeg(o) BY <2>1 DEF RunJob, SpawnFfmpeg
  <2>2. CASE SpawnFails(o) \/ EndOfStream(o)
    <3>1. PICK st \in Settled : jobs' = [jobs EXCEPT ![o].pc = "over", ![o].status = st] /\ Finish(o, st) /\ jobs[o].pc # "over"
      BY <2>2 DEF SpawnFails, EndOfStream, JobOver, Settled
    <3>2. PICK j : j = [jobs[o] EXCEPT !.pc = "over", !.status = st] OBVIOUS
    <3>3. j.pc = "over" BY <1>4, <3>2 DEF Job
    <3>4. jobs' = [jobs EXCEPT ![o] = j] BY <3>1, <3>2
    <3>5. jobs'[o].pc = "over" BY <3>3, <3>4
    <3> QED BY <3>1, <3>5
  <2>3. CASE stop_transcription(o) BY <1>4, <2>3 DEF stop_transcription, Job
  <2> QED BY <2>1, <2>2, <2>3 DEF JobStep
<1>6. \A q \in DOMAIN tracked : q # o => tracked'[q] = tracked[q] BY <1>1, <1>5, FinishTakes
<1>7. Stays BY <1>5, <1>6 DEF Stays, OpenOperations, Unsettled
<1>8. DOMAIN jobs \subseteq DOMAIN tracked BY <1>1 DEF TransInv, TransShape
<1>9. \A q \in DOMAIN jobs' : jobs'[q].pc # "over" => Unsettled(q)'
  BY <1>3, <1>5, <1>6, <1>8 DEF OpenOperations, Unsettled
<1>10. ASSUME NEW u \in Viewer, viewer'[u].cmd # "none" PROVE viewer'[u].op \notin DOMAIN jobs' /\ tracked'[viewer'[u].op].status \notin Settled
  <2>1. viewer[u].op # o /\ viewer[u].op \in DOMAIN tracked BY <1>1, <1>2, <1>10 DEF OpenOperations, TransInv, Owns
  <2> QED BY <1>2, <1>3, <1>6, <1>10, <2>1 DEF OpenOperations, Unsettled
<1> QED BY <1>7, <1>9, <1>10 DEF OpenOperations, Unsettled

LEMMA OpenStep == TransInv /\ OpenOperations /\ [TransNext]_transVars => OpenOperations' /\ [Stays]_transVars
<1> SUFFICES ASSUME TransInv, OpenOperations, [TransNext]_transVars PROVE OpenOperations' /\ [Stays]_transVars OBVIOUS
<1>1. CASE UNCHANGED transVars BY <1>1 DEF transVars, OpenOperations, Unsettled
<1>2. ASSUME NEW v \in Viewer, BeginTranscription(v) PROVE OpenOperations' /\ Stays
  <2>1. tracked \in Seq(Operation) /\ Len(tracked) \in Nat /\ viewer \in [Viewer -> ViewCall] BY DEF TransInv, TransShape
  <2>2. PICK r \in ViewRequest[v] : tracked' = Append(tracked, [file |-> r.file, status |-> "Pending", bytes |-> 0]) /\ UNCHANGED jobs
    BY <1>2 DEF BeginTranscription, create_operation
  <2>3. /\ \A q \in DOMAIN tracked : tracked'[q] = tracked[q]
        /\ tracked'[Len(tracked) + 1] = [file |-> r.file, status |-> "Pending", bytes |-> 0] BY <2>1, <2>2
  <2>4. viewer'[v].op = Len(tracked) + 1 /\ \A u \in Viewer : u # v => viewer'[u] = viewer[u]
    BY <1>2, <2>1 DEF BeginTranscription
  <2>5. DOMAIN jobs \subseteq DOMAIN tracked BY <2>1 DEF TransInv, TransShape
  <2>6. \A q \in DOMAIN jobs' : jobs'[q].pc # "over" => Unsettled(q)' BY <2>2, <2>3, <2>5 DEF OpenOperations, Unsettled
  <2>7. ASSUME NEW u \in Viewer, viewer'[u].cmd # "none" PROVE viewer'[u].op \notin DOMAIN jobs' /\ tracked'[viewer'[u].op].status \notin Settled
    <3>1. CASE u = v BY <2>1, <2>2, <2>3, <2>4, <2>5, <3>1 DEF Settled
    <3>2. CASE u # v
      <4>1. viewer[u].op \in DOMAIN tracked BY <2>1, <2>4, <2>7, <3>2 DEF TransInv, Owns
      <4> QED BY <2>2, <2>3, <2>4, <2>7, <3>2, <4>1 DEF OpenOperations, Unsettled
    <3> QED BY <3>1, <3>2
  <2>8. Stays BY <2>3 DEF Stays
  <2> QED BY <2>6, <2>7, <2>8 DEF OpenOperations, Unsettled
<1>3. ASSUME NEW o \in DOMAIN updates, ReportProgress(o) PROVE OpenOperations' /\ Stays
  <2>1. UNCHANGED <<viewer, jobs>> BY <1>3 DEF ReportProgress
  <2>2. /\ o \in DOMAIN tracked
        /\ tracked[o].status \in Settled => tracked'[o].status = tracked[o].status
        /\ tracked'[o].status \in Settled => tracked[o].status \in Settled
        /\ \A q \in DOMAIN tracked : q # o => tracked'[q] = tracked[q] BY <1>3, ProgressFits
  <2>3. \A q \in DOMAIN tracked : tracked'[q].status \in Settled => tracked[q].status \in Settled BY <2>2
  <2>4. DOMAIN jobs \subseteq DOMAIN tracked BY DEF TransInv, TransShape
  <2>5. \A u \in Viewer : viewer[u].cmd # "none" => viewer[u].op \in DOMAIN tracked BY DEF TransInv, TransShape, Owns
  <2> QED BY <2>1, <2>2, <2>3, <2>4, <2>5 DEF OpenOperations, Unsettled, Stays
<1>4. ASSUME NEW f \in Recordings, EditRecording(f) PROVE OpenOperations' /\ Stays
  BY <1>4 DEF EditRecording, OpenOperations, Unsettled, Stays
<1>5. ASSUME StopProgram PROVE OpenOperations' /\ Stays
  <2>1. DOMAIN jobs' = {} /\ UNCHANGED tracked BY <1>5, EmptyMap DEF StopProgram
  <2>2. \A u \in Viewer : viewer'[u].cmd = "none" BY <1>5 DEF StopProgram, Off
  <2> QED BY <2>1, <2>2 DEF OpenOperations, Stays
<1> QED BY <1>1, <1>2, <1>3, <1>4, <1>5, CommandOpens, JobOpens DEF TransNext

\* An operation of a transcription that a command or a job has still to settle is open.
THEOREM OpenInductive == TransSpec => []OpenOperations
BY TransInductive, OpenStart, OpenStep, PTL DEF TransSpec

\* Progress that arrives late, from the simulation or from FFmpeg's stderr, and the ends of the
\* commands and jobs of commands/transcription.rs never bring back a settled operation.
THEOREM SettledCorrect == TransSpec => SettledStaysSettled
BY TransInductive, OpenInductive, OpenStep, PTL DEF TransSpec, SettledStaysSettled, Stays

-----------------------------------------------------------------------------
(* OllamaSetup. *)
AiCall == [cmd : AiCommands \cup {"none"},
           pc : AiCommands \cup {"idle", "stream", "verify", "report", "whisper", "ollama", "wait", "recheck", "hung"},
           what : AiNames, lines : 0..MaxLines, waits : 0..MaxWaits, stored : BOOLEAN,
           errors : SUBSET {"ffmpeg", "ollama", "down", "model"}, pulled : {"no", "stored", "alike", "unverified"}]
AiAnswer == [cmd : AiCommands \cup {"none"}, ok : BOOLEAN, pulled : {"no", "stored", "alike", "unverified"}]
AiShape == server \in BOOLEAN /\ caller \in [Caller -> AiCall] /\ told \in [Caller -> AiAnswer]
Models ==
    /\ library \subseteq AiModel /\ loaded \subseteq library /\ running \in AiModel \cup {"none"}
    /\ ~server => loaded = {}
    /\ server => "ollama" \in present

\* The processes of start_model: none, or the one RUNNING_MODEL is about.
OneProcess == procs = {} \/ (running # "none" /\ \E p : procs = {p})

Pulling == {"pull", "stream", "verify"}
\* A pull is of a model, for the command and for install_all_ai_dependencies.
NamesModel(r) == r.pc \in Pulling \cup {"start_model"} => r.what \in AiModel

\* install_all_ai_dependencies after each of its steps: what it did is there or it has an error.
\* The installer's word does not make Ollama present: its answer before the pull does.
Installing(r) ==
    r.cmd = "all" =>
        /\ r.pc \in {"all", "whisper", "ollama", "wait", "recheck", "report", "hung"} \cup Pulling
        /\ r.pc \notin {"all", "hung"} => "ffmpeg" \in r.errors \cup present
        /\ r.pc \in Pulling => "ollama" \in present
        /\ r.pc = "report" => r.errors # {} \/ ("ollama" \in present /\ r.pulled # "no")

AiInv == /\ AiShape /\ Models /\ OneProcess /\ SuccessMeansInstalled
         /\ \A c \in Caller : NamesModel(caller[c]) /\ Installing(caller[c])

LEMMA NoCallFits == NoCall_ \in AiCall /\ NoAnswer \in AiAnswer
<1>1. 0 \in 0..MaxLines /\ 0 \in 0..MaxWaits BY AiAssumption
<1> QED BY <1>1 DEF NoCall_, AiCall, NoAnswer, AiAnswer, AiNames

LEMMA AiStart == AiInit => AiInv
<1> SUFFICES ASSUME AiInit PROVE AiInv OBVIOUS
<1> USE DEF AiInit
<1>1. AiShape BY NoCallFits DEF AiShape
<1>2. Models BY DEF Models
<1>3. OneProcess BY DEF OneProcess
<1>4. SuccessMeansInstalled BY DEF SuccessMeansInstalled, NoAnswer
<1>5. ASSUME NEW c \in Caller PROVE NamesModel(caller[c]) /\ Installing(caller[c])
  BY DEF NamesModel, Installing, NoCall_, Pulling
<1> QED BY <1>1, <1>2, <1>3, <1>4, <1>5 DEF AiInv

\* A step of command c that only gives it a new record r, which may only install tools.
LEMMA CallStep ==
    ASSUME AiInv, NEW c \in Caller, NEW r \in AiCall, caller' = [caller EXCEPT ![c] = r], UNCHANGED told,
           present \subseteq present', server' \in BOOLEAN, Models', OneProcess', NamesModel(r), Installing(r)'
    PROVE  AiInv'
<1>1. AiShape' BY DEF AiInv, AiShape
<1>2. SuccessMeansInstalled' BY DEF AiInv, SuccessMeansInstalled
<1>3. ASSUME NEW d \in Caller PROVE (NamesModel(caller[d]) /\ Installing(caller[d]))'
  <2>1. CASE d = c BY <2>1 DEF AiInv, AiShape, NamesModel, Installing
  <2>2. CASE d # c
    <3>1. caller'[d] = caller[d] BY <2>2 DEF AiInv, AiShape
    <3> QED BY <3>1 DEF AiInv, NamesModel, Installing
  <2> QED BY <2>1, <2>2
<1> QED BY <1>1, <1>2, <1>3 DEF AiInv

\* A command that ends: nobody but install_all_ai_dependencies owes the tools for its success.
LEMMA TellStep ==
    ASSUME AiInv, NEW c \in Caller, NEW ok \in BOOLEAN, Tell(c, ok),
           present \subseteq present', server' \in BOOLEAN, Models', OneProcess',
           caller[c].cmd = "all" /\ ok => {"ffmpeg", "ollama"} \subseteq present' /\ caller[c].pulled # "no"
    PROVE  AiInv'
<1> DEFINE t == [cmd |-> caller[c].cmd, ok |-> ok, pulled |-> caller[c].pulled]
<1>1. t \in AiAnswer BY DEF AiInv, AiShape, AiCall, AiAnswer
<1>2. caller' = [caller EXCEPT ![c] = NoCall_] /\ told' = [told EXCEPT ![c] = t] BY DEF Tell
<1>3. t.cmd = caller[c].cmd /\ t.ok = ok /\ t.pulled = caller[c].pulled OBVIOUS
<1> HIDE DEF t
<1>4. AiShape' BY <1>1, <1>2, NoCallFits DEF AiInv, AiShape
<1>5. SuccessMeansInstalled'
  <2> SUFFICES ASSUME NEW d \in Caller, told'[d].cmd = "all", told'[d].ok
               PROVE  {"ffmpeg", "ollama"} \subseteq present' /\ told'[d].pulled # "no"
    BY DEF SuccessMeansInstalled
  <2>1. CASE d = c BY <2>1, <1>2, <1>3 DEF AiInv, AiShape
  <2>2. CASE d # c
    <3>1. told'[d] = told[d] BY <2>2, <1>2 DEF AiInv, AiShape
    <3> QED BY <3>1 DEF AiInv, SuccessMeansInstalled
  <2> QED BY <2>1, <2>2
<1>6. ASSUME NEW d \in Caller PROVE (NamesModel(caller[d]) /\ Installing(caller[d]))'
  <2>1. CASE d = c BY <2>1, <1>2 DEF AiInv, AiShape, NamesModel, Installing, NoCall_, Pulling
  <2>2. CASE d # c
    <3>1. caller'[d] = caller[d] BY <2>2, <1>2 DEF AiInv, AiShape
    <3> QED BY <3>1 DEF AiInv, NamesModel, Installing
  <2> QED BY <2>1, <2>2
<1> QED BY <1>4, <1>5, <1>6 DEF AiInv

LEMMA BeginAiKeeps == ASSUME AiInv, NEW c \in Caller, BeginAi(c) PROVE AiInv'
<1>1. PICK r \in AiRequest[c] :
        caller' = [caller EXCEPT ![c] = [NoCall_ EXCEPT !.cmd = r.cmd, !.what = r.what, !.pc = r.cmd]]
  BY DEF BeginAi
<1>2. PICK new : new = [NoCall_ EXCEPT !.cmd = r.cmd, !.what = r.what, !.pc = r.cmd] OBVIOUS
<1>3. r.cmd \in AiCommands /\ r.what \in AiNames /\ (r.cmd \in {"start_model", "pull"} => r.what \in AiModel)
  BY AiRequestAssumption
<1>4. new \in AiCall BY <1>2, <1>3, NoCallFits DEF AiCall
<1>5. new.cmd = r.cmd /\ new.pc = r.cmd /\ new.what = r.what BY <1>2, NoCallFits DEF AiCall
<1>6. NamesModel(new) BY <1>3, <1>5 DEF NamesModel, Pulling, AiCommands
<1>7. Installing(new)' BY <1>3, <1>5 DEF Installing, Pulling, AiCommands
<1>8. caller' = [caller EXCEPT ![c] = new] BY <1>1, <1>2
<1>9. told' = [told EXCEPT ![c] = NoAnswer] /\ UNCHANGED <<present, server, library, loaded, running, procs>>
  BY DEF BeginAi
<1>10. AiShape' BY <1>4, <1>8, <1>9, NoCallFits DEF AiInv, AiShape
<1>11. Models' /\ OneProcess' BY <1>9 DEF AiInv, Models, OneProcess
<1>12. SuccessMeansInstalled'
  <2> SUFFICES ASSUME NEW d \in Caller, told'[d].cmd = "all", told'[d].ok
               PROVE  {"ffmpeg", "ollama"} \subseteq present' /\ told'[d].pulled # "no"
    BY DEF SuccessMeansInstalled
  <2>1. d # c BY <1>9 DEF AiInv, AiShape, NoAnswer
  <2>2. told'[d] = told[d] BY <2>1, <1>9 DEF AiInv, AiShape
  <2> QED BY <2>2, <1>9 DEF AiInv, SuccessMeansInstalled
<1>13. ASSUME NEW d \in Caller PROVE (NamesModel(caller[d]) /\ Installing(caller[d]))'
  <2>1. CASE d = c BY <2>1, <1>6, <1>7, <1>8 DEF AiInv, AiShape, NamesModel, Installing
  <2>2. CASE d # c
    <3>1. caller'[d] = caller[d] BY <2>2, <1>8 DEF AiInv, AiShape
    <3> QED BY <3>1, <1>9 DEF AiInv, NamesModel, Installing
  <2> QED BY <2>1, <2>2
<1> QED BY <1>10, <1>11, <1>12, <1>13 DEF AiInv

\* What an installing command knows of the tools does not depend on anybody else.
LEMMA ModelCommandsKeep ==
    ASSUME AiInv, NEW c \in Caller,
           start_model(c) \/ stop_model(c) \/ ollama_run(c) \/ ollama_stop(c) \/ ollama_delete(c) \/ ollama_serve(c)
    PROVE  AiInv'
<1>1. caller[c].cmd # "all"
  BY DEF AiInv, Installing, Pulling, In, start_model, stop_model, ollama_run, ollama_stop, ollama_delete, ollama_serve
<1>2. UNCHANGED present BY DEF start_model, stop_model, ollama_run, ollama_stop, ollama_delete, ollama_serve
<1>3. \E ok \in BOOLEAN : Tell(c, ok)
  <2>1. CASE ollama_serve(c)
    <3>1. Tell(c, server) \/ Tell(c, "ollama" \in present) BY <2>1 DEF ollama_serve
    <3>2. server \in BOOLEAN /\ ("ollama" \in present) \in BOOLEAN BY DEF AiInv, AiShape
    <3> QED BY <3>1, <3>2
  <2>2. CASE ~ollama_serve(c)
    <3>1. Tell(c, TRUE) \/ Tell(c, FALSE) BY <2>2 DEF start_model, stop_model, ollama_run, ollama_stop, ollama_delete
    <3> QED BY <3>1
  <2> QED BY <2>1, <2>2
<1>4. server' \in BOOLEAN
  BY DEF start_model, stop_model, ollama_run, ollama_stop, ollama_delete, ollama_serve, AiInv, AiShape
<1>5. OneProcess'
  <2>1. CASE start_model(c)
    <3>1. caller[c].what # "none" BY <2>1, AiRequestAssumption DEF start_model, In, AiInv, NamesModel
    <3>2. CASE UNCHANGED <<running, procs>> BY <3>2 DEF AiInv, OneProcess
    <3>3. CASE running = "none" /\ running' = caller[c].what /\ procs' = procs \cup {<<caller[c].what, aiCalls>>}
      <4>1. procs = {} BY <3>3 DEF AiInv, OneProcess
      <4>2. procs' = {<<caller[c].what, aiCalls>>} BY <3>3, <4>1
      <4> QED BY <4>2, <3>1, <3>3 DEF OneProcess
    <3> QED BY <2>1, <3>2, <3>3 DEF start_model
  <2>2. CASE stop_model(c) BY <2>2 DEF stop_model, Killed, AiInv, OneProcess
  <2>3. CASE ollama_run(c) \/ ollama_stop(c) \/ ollama_delete(c) \/ ollama_serve(c)
    BY <2>3 DEF ollama_run, ollama_stop, ollama_delete, ollama_serve, AiInv, OneProcess
  <2> QED BY <2>1, <2>2, <2>3
<1>6. Models'
  <2>1. CASE start_model(c)
    <3>1. caller[c].what \in AiModel BY <2>1 DEF start_model, In, AiInv, NamesModel
    <3> QED BY <2>1, <3>1 DEF start_model, AiInv, Models
  <2>2. CASE stop_model(c) BY <2>2 DEF stop_model, AiInv, Models
  <2>3. CASE ollama_run(c) BY <2>3 DEF ollama_run, AiInv, Models
  <2>4. CASE ollama_stop(c) BY <2>4 DEF ollama_stop, AiInv, Models
  <2>5. CASE ollama_delete(c) BY <2>5 DEF ollama_delete, AiInv, Models
  <2>6. CASE ollama_serve(c)
    <3>1. server => server' BY <2>6 DEF ollama_serve
    <3> QED BY <2>6, <3>1 DEF ollama_serve, AiInv, Models
  <2> QED BY <2>1, <2>2, <2>3, <2>4, <2>5, <2>6
<1> QED BY <1>1, <1>2, <1>3, <1>4, <1>5, <1>6, TellStep

\* A pull goes to its report: with an error, or with the model.
LEMMA ReportStep ==
    ASSUME AiInv, NEW c \in Caller, caller[c].pc \in Pulling, PullErr(c) \/ \E how \in {"stored", "alike", "unverified"} : PullOk(c, how),
           UNCHANGED <<present, server, library, loaded, running, procs>>
    PROVE  AiInv'
<1>1. caller[c] \in AiCall BY DEF AiInv, AiShape
<1>2. UNCHANGED told BY DEF PullErr, PullOk
<1>3. Models' /\ OneProcess' /\ server' \in BOOLEAN BY DEF AiInv, Models, OneProcess, AiShape
<1>4. CASE PullErr(c)
  <2>1. PICK r : r = [caller[c] EXCEPT !.pc = "report", !.errors = caller[c].errors \cup {"model"}] OBVIOUS
  <2>2. caller' = [caller EXCEPT ![c] = r] BY <1>4, <2>1 DEF PullErr, AiInv, AiShape
  <2>3. r \in AiCall BY <2>1, <1>1 DEF AiCall
  <2>4. r.pc = "report" /\ r.cmd = caller[c].cmd /\ r.errors = caller[c].errors \cup {"model"} BY <2>1, <1>1 DEF AiCall
  <2>5. NamesModel(r) BY <2>4 DEF NamesModel, Pulling
  <2>6. Installing(r)' BY <2>4 DEF Installing, Pulling, AiInv
  <2> QED BY <1>2, <1>3, <2>2, <2>3, <2>5, <2>6, CallStep
<1>5. ASSUME NEW how \in {"stored", "alike", "unverified"}, PullOk(c, how) PROVE AiInv'
  <2>1. PICK r : r = [caller[c] EXCEPT !.pc = "report", !.pulled = how] OBVIOUS
  <2>2. caller' = [caller EXCEPT ![c] = r] BY <1>5, <2>1 DEF PullOk, AiInv, AiShape
  <2>3. r \in AiCall BY <2>1, <1>1 DEF AiCall
  <2>4. r.pc = "report" /\ r.cmd = caller[c].cmd /\ r.errors = caller[c].errors /\ r.pulled # "no" BY <2>1, <1>1 DEF AiCall
  <2>5. NamesModel(r) BY <2>4 DEF NamesModel, Pulling
  <2>6. Installing(r)' BY <2>4 DEF Installing, Pulling, AiInv
  <2> QED BY <1>2, <1>3, <2>2, <2>3, <2>5, <2>6, CallStep
<1> QED BY <1>4, <1>5

LEMMA PullKeeps ==
    ASSUME AiInv, NEW c \in Caller,
           ollama_pull(c) \/ PullTimesOut(c) \/ VerifyPull(c) \/ PullLine(c) \/ StreamEnds(c)
    PROVE  AiInv'
<1>1. caller[c] \in AiCall BY DEF AiInv, AiShape
<1>2. UNCHANGED <<present, server, library, loaded, running, procs>>
  BY DEF ollama_pull, PullTimesOut, VerifyPull, PullLine, StreamEnds
<1>3. caller[c].pc \in Pulling BY DEF Pulling, In, ollama_pull, PullTimesOut, VerifyPull, PullLine, StreamEnds
<1>4. Models' /\ OneProcess' /\ server' \in BOOLEAN BY <1>2 DEF AiInv, Models, OneProcess, AiShape
<1>5. CASE PullErr(c) \/ \E how \in {"stored", "alike", "unverified"} : PullOk(c, how) BY <1>2, <1>3, <1>5, ReportStep
<1>6. CASE UNCHANGED told /\ \E pc \in Pulling : Goto(c, pc)
  <2>1. PICK pc \in Pulling : Goto(c, pc) BY <1>6
  <2>2. PICK r : r = [caller[c] EXCEPT !.pc = pc] OBVIOUS
  <2>3. caller' = [caller EXCEPT ![c] = r] BY <2>1, <2>2 DEF Goto, AiInv, AiShape
  <2>4. r \in AiCall BY <2>2, <1>1 DEF AiCall, Pulling, AiCommands
  <2>5. r.pc = pc /\ r.cmd = caller[c].cmd /\ r.errors = caller[c].errors /\ r.what = caller[c].what BY <2>2, <1>1 DEF AiCall
  <2>6. NamesModel(r) BY <1>3, <2>5 DEF NamesModel, Pulling, AiInv
  <2>7. Installing(r)' BY <1>2, <1>3, <2>5 DEF Installing, Pulling, AiInv
  <2> QED BY <1>2, <1>4, <1>6, <2>3, <2>4, <2>6, <2>7, CallStep
<1>7. CASE UNCHANGED told /\ caller[c].lines < MaxLines /\ caller' = [caller EXCEPT ![c].lines = @ + 1]
  <2>1. PICK r : r = [caller[c] EXCEPT !.lines = caller[c].lines + 1] OBVIOUS
  <2>2. caller' = [caller EXCEPT ![c] = r] BY <1>7, <2>1 DEF AiInv, AiShape
  <2>3. caller[c].lines + 1 \in 0..MaxLines BY <1>1, <1>7, AiAssumption DEF AiCall
  <2>4. r \in AiCall BY <2>1, <2>3, <1>1 DEF AiCall
  <2>5. r.pc = caller[c].pc /\ r.cmd = caller[c].cmd /\ r.errors = caller[c].errors /\ r.what = caller[c].what BY <2>1, <1>1 DEF AiCall
  <2>6. NamesModel(r) BY <1>3, <2>5 DEF NamesModel, Pulling, AiInv
  <2>7. Installing(r)' BY <1>2, <1>3, <2>5 DEF Installing, Pulling, AiInv
  <2> QED BY <1>2, <1>4, <1>7, <2>2, <2>4, <2>6, <2>7, CallStep
<1> QED BY <1>5, <1>6, <1>7 DEF ollama_pull, PullTimesOut, PullTimeout, VerifyPull, PullLine, StreamEnds, Pulling

LEMMA StoresKeeps == ASSUME AiInv, NEW c \in Caller, ServerStores(c) PROVE AiInv'
<1>1. caller[c] \in AiCall /\ caller[c].pc = "stream" BY DEF AiInv, AiShape, ServerStores, In
<1>2. caller[c].what \in AiModel BY <1>1 DEF AiInv, NamesModel, Pulling
<1>3. Models' /\ OneProcess' /\ server' \in BOOLEAN BY <1>2 DEF AiInv, Models, OneProcess, AiShape, ServerStores
<1>4. PICK r : r = [caller[c] EXCEPT !.stored = TRUE] OBVIOUS
<1>5. caller' = [caller EXCEPT ![c] = r] BY <1>4 DEF ServerStores, AiInv, AiShape
<1>6. r \in AiCall BY <1>1, <1>4 DEF AiCall
<1>7. r.pc = caller[c].pc /\ r.cmd = caller[c].cmd /\ r.errors = caller[c].errors /\ r.what = caller[c].what BY <1>1, <1>4 DEF AiCall
<1>8. NamesModel(r) BY <1>2, <1>7 DEF NamesModel
<1>9. UNCHANGED <<told, present>> BY DEF ServerStores
<1>10. Installing(r)' BY <1>1, <1>7, <1>9 DEF Installing, Pulling, AiInv
<1> QED BY <1>3, <1>5, <1>6, <1>8, <1>9, <1>10, CallStep

\* Nothing is uninstalled.
LEMMA InstallsOnly == ASSUME NEW t, NEW ok, Installed(t, ok) PROVE present \subseteq present' /\ (ok /\ t # "ollama" => t \in present')
BY DEF Installed

\* A step of install_all_ai_dependencies to pc p with errors es.
LEMMA InstallStep ==
    ASSUME AiInv, NEW c \in Caller, NEW p \in {"whisper", "ollama", "wait", "recheck", "report"},
           NEW es \in SUBSET {"ffmpeg", "ollama", "down", "model"},
           caller' = [caller EXCEPT ![c].pc = p, ![c].errors = es],
           UNCHANGED <<server, library, loaded, running, procs, told>>, present \subseteq present',
           caller[c].errors \subseteq es, caller[c].pc = "all" => "ffmpeg" \in es \cup present',
           caller[c].pc \in {"all", "whisper", "ollama", "wait", "recheck"},
           p = "report" => es # {}
    PROVE  AiInv'
<1>1. caller[c] \in AiCall BY DEF AiInv, AiShape
<1>2. PICK r : r = [caller[c] EXCEPT !.pc = p, !.errors = es] OBVIOUS
<1>3. caller' = [caller EXCEPT ![c] = r] BY <1>2 DEF AiInv, AiShape
<1>4. r \in AiCall BY <1>1, <1>2 DEF AiCall
<1>5. r.pc = p /\ r.cmd = caller[c].cmd /\ r.errors = es BY <1>1, <1>2 DEF AiCall
<1>6. NamesModel(r) BY <1>5 DEF NamesModel, Pulling
<1>7. Installing(r)' BY <1>5 DEF Installing, Pulling, AiInv
<1>8. Models' /\ OneProcess' /\ server' \in BOOLEAN BY DEF AiInv, Models, OneProcess, AiShape
<1> QED BY <1>3, <1>4, <1>6, <1>7, <1>8, CallStep

LEMMA InstallersKeep ==
    ASSUME AiInv, NEW c \in Caller,
           InstallFfmpeg(c) \/ InstallWhisper(c) \/ InstallOllama(c) \/ WaitForOllama(c) \/ RecheckOllama(c)
    PROVE  AiInv'
<1>1. caller[c] \in AiCall BY DEF AiInv, AiShape
<1>2. caller[c].errors \in SUBSET {"ffmpeg", "ollama", "down", "model"} BY <1>1 DEF AiCall
<1>3. UNCHANGED <<server, library, loaded, running, procs, told>>
  BY DEF InstallFfmpeg, InstallWhisper, InstallOllama, WaitForOllama, RecheckOllama
<1>4. Models' /\ OneProcess' /\ server' \in BOOLEAN
  <2>1. present \subseteq present'
    BY InstallsOnly DEF InstallFfmpeg, InstallWhisper, InstallOllama, WaitForOllama, RecheckOllama
  <2> QED BY <1>3, <2>1 DEF AiInv, Models, OneProcess, AiShape
<1>5. CASE InstallFfmpeg(c)
  <2>1. PICK ok \in BOOLEAN : Installed("ffmpeg", ok) /\ caller' = [caller EXCEPT ![c].pc = "whisper", ![c].errors = ErrorIf(c, ~ok, "ffmpeg")]
    BY <1>5 DEF InstallFfmpeg
  <2>2. PICK es : es = ErrorIf(c, ~ok, "ffmpeg") OBVIOUS
  <2>3. es \in SUBSET {"ffmpeg", "ollama", "down", "model"} /\ caller[c].errors \subseteq es BY <2>2, <1>2 DEF ErrorIf
  <2>4. present \subseteq present' /\ "ffmpeg" \in es \cup present' BY <2>1, <2>2, InstallsOnly DEF ErrorIf
  <2>5. caller' = [caller EXCEPT ![c].pc = "whisper", ![c].errors = es] BY <2>1, <2>2
  <2>6. caller[c].pc = "all" BY <1>5 DEF InstallFfmpeg, In
  <2> QED BY <1>3, <2>3, <2>4, <2>5, <2>6, InstallStep
<1>6. CASE InstallWhisper(c)
  <2>1. PICK es : es = caller[c].errors OBVIOUS
  <2>2. caller' = [caller EXCEPT ![c].pc = "ollama"] /\ caller[c].pc = "whisper" BY <1>6 DEF InstallWhisper, Goto, In
  <2>3. PICK r : r = [caller[c] EXCEPT !.pc = "ollama"] OBVIOUS
  <2>4. r = [caller[c] EXCEPT !.pc = "ollama", !.errors = es] BY <1>1, <2>1, <2>3 DEF AiCall
  <2>5. caller' = [caller EXCEPT ![c].pc = "ollama", ![c].errors = es] BY <2>2, <2>3, <2>4 DEF AiInv, AiShape
  <2>6. present \subseteq present' BY <1>6, InstallsOnly DEF InstallWhisper
  <2> QED BY <1>2, <1>3, <2>1, <2>2, <2>5, <2>6, InstallStep
<1>7. CASE InstallOllama(c)
  <2>1. PICK ok \in BOOLEAN : Installed("ollama", ok)
            /\ caller' = [caller EXCEPT ![c].pc = IF ok THEN "wait" ELSE "report", ![c].errors = ErrorIf(c, ~ok, "ollama")]
    BY <1>7 DEF InstallOllama
  <2>2. PICK es : es = ErrorIf(c, ~ok, "ollama") OBVIOUS
  <2>3. PICK p : p = IF ok THEN "wait" ELSE "report" OBVIOUS
  <2>4. es \in SUBSET {"ffmpeg", "ollama", "down", "model"} /\ caller[c].errors \subseteq es BY <2>2, <1>2 DEF ErrorIf
  <2>5. present \subseteq present' /\ (p = "report" => es # {})
    BY <2>1, <2>2, <2>3, InstallsOnly DEF ErrorIf
  <2>6. caller' = [caller EXCEPT ![c].pc = p, ![c].errors = es] BY <2>1, <2>2, <2>3
  <2>7. caller[c].pc = "ollama" /\ p \in {"wait", "report"} BY <1>7, <2>3 DEF InstallOllama, In
  <2> QED BY <1>3, <2>4, <2>5, <2>6, <2>7, InstallStep
<1>8. CASE WaitForOllama(c)
  <2>1. caller[c].pc = "wait" /\ UNCHANGED present BY <1>8 DEF WaitForOllama, In
  <2>2. PICK r : r = IF server \/ caller[c].waits = MaxWaits THEN [caller[c] EXCEPT !.pc = "recheck"]
                     ELSE [caller[c] EXCEPT !.waits = caller[c].waits + 1] OBVIOUS
  <2>3. caller' = [caller EXCEPT ![c] = r] BY <1>8, <2>2 DEF WaitForOllama, Goto, AiInv, AiShape
  <2>4. caller[c].waits \in 0..MaxWaits /\ (caller[c].waits # MaxWaits => caller[c].waits + 1 \in 0..MaxWaits)
    BY <1>1, AiAssumption DEF AiCall
  <2>5. r \in AiCall BY <1>1, <2>2, <2>4 DEF AiCall
  <2>6. r.pc \in {"wait", "recheck"} /\ r.cmd = caller[c].cmd /\ r.errors = caller[c].errors BY <1>1, <2>1, <2>2 DEF AiCall
  <2>7. NamesModel(r) BY <2>6 DEF NamesModel, Pulling
  <2>8. Installing(r)' BY <2>1, <2>6 DEF Installing, Pulling, AiInv
  <2> QED BY <1>3, <1>4, <2>1, <2>3, <2>5, <2>7, <2>8, CallStep
<1>9. CASE RecheckOllama(c)
  <2>1. caller[c].pc = "recheck" /\ UNCHANGED present BY <1>9 DEF RecheckOllama, In
  <2>2. PICK es : es = NotRunning(c) OBVIOUS
  <2>3. PICK p : p = IF server THEN "pull" ELSE "report" OBVIOUS
  <2>4. PICK r : r = [caller[c] EXCEPT !.errors = es, !.what = Required, !.pc = p] OBVIOUS
  <2>5. caller' = [caller EXCEPT ![c] = r] BY <1>9, <2>2, <2>3, <2>4 DEF RecheckOllama, AiInv, AiShape
  <2>6. /\ es \in SUBSET {"ffmpeg", "ollama", "down", "model"} /\ caller[c].errors \subseteq es /\ (p = "report" => es # {})
        /\ p = "pull" => "ollama" \in present
    BY <1>2, <2>2, <2>3 DEF NotRunning, ErrorIf, AiInv, Models
  <2>7. p \in {"pull", "report"} /\ Required \in AiModel BY <2>3, AiRequestAssumption DEF Required
  <2>8. r \in AiCall BY <1>1, <2>4, <2>6, <2>7 DEF AiCall, AiCommands, AiNames
  <2>9. r.pc = p /\ r.cmd = caller[c].cmd /\ r.errors = es /\ r.what = Required BY <1>1, <2>4 DEF AiCall
  <2>10. NamesModel(r) BY <2>7, <2>9 DEF NamesModel
  <2>11. Installing(r)' BY <2>1, <2>6, <2>7, <2>9 DEF Installing, Pulling, AiInv
  <2> QED BY <1>3, <1>4, <2>1, <2>5, <2>8, <2>10, <2>11, CallStep
<1> QED BY <1>5, <1>6, <1>7, <1>8, <1>9

LEMMA EndsKeep == ASSUME AiInv, NEW c \in Caller, install_tool(c) \/ ReportAll(c) PROVE AiInv'
<1>1. UNCHANGED <<server, library, loaded, running, procs>> BY DEF install_tool, ReportAll
<1>2. Models' /\ OneProcess' /\ server' \in BOOLEAN
  <2>1. present \subseteq present' BY InstallsOnly DEF install_tool, ReportAll
  <2> QED BY <1>1, <2>1 DEF AiInv, Models, OneProcess, AiShape
<1>3. CASE install_tool(c)
  <2>1. PICK ok \in BOOLEAN : Installed(caller[c].what, ok) /\ Tell(c, ok) BY <1>3 DEF install_tool
  <2>2. present \subseteq present' BY <2>1, InstallsOnly
  <2>3. caller[c].cmd # "all" BY <1>3 DEF install_tool, In, AiInv, Installing, Pulling
  <2> QED BY <1>2, <2>1, <2>2, <2>3, TellStep
<1>4. CASE ReportAll(c)
  <2>1. Tell(c, caller[c].errors = {}) /\ UNCHANGED present /\ caller[c].pc = "report" BY <1>4 DEF ReportAll, In
  <2>2. PICK ok \in BOOLEAN : ok = (caller[c].errors = {}) OBVIOUS
  <2>3. caller[c].cmd = "all" /\ ok => {"ffmpeg", "ollama"} \subseteq present' /\ caller[c].pulled # "no"
    BY <2>1, <2>2 DEF AiInv, Installing
  <2>4. Tell(c, ok) BY <2>1, <2>2
  <2> QED BY <1>2, <2>1, <2>3, <2>4, TellStep
<1> QED BY <1>3, <1>4

LEMMA HangKeeps == ASSUME AiInv, NEW c \in Caller, ProgramHangs(c) PROVE AiInv'
<1>1. caller[c] \in AiCall BY DEF AiInv, AiShape
<1>2. PICK r : r = [caller[c] EXCEPT !.pc = "hung"] OBVIOUS
<1>3. caller' = [caller EXCEPT ![c] = r] BY <1>2 DEF ProgramHangs, Goto, AiInv, AiShape
<1>4. r \in AiCall BY <1>1, <1>2 DEF AiCall
<1>5. r.pc = "hung" BY <1>1, <1>2 DEF AiCall
<1>6. NamesModel(r) /\ Installing(r)' BY <1>5 DEF NamesModel, Installing, Pulling
<1>7. UNCHANGED <<present, server, library, loaded, running, procs, told>> BY DEF ProgramHangs
<1>8. Models' /\ OneProcess' /\ server' \in BOOLEAN BY <1>7 DEF AiInv, Models, OneProcess, AiShape
<1> QED BY <1>3, <1>4, <1>6, <1>7, <1>8, CallStep

LEMMA ServersKeep == ASSUME AiInv, ModelDies \/ ServerStops \/ ServerStarts PROVE AiInv'
<1>1. UNCHANGED <<present, caller, told>> BY DEF ModelDies, ServerStops, ServerStarts
<1>2. AiShape' BY <1>1 DEF AiInv, AiShape, ModelDies, ServerStops, ServerStarts
<1>5. OneProcess' BY DEF AiInv, OneProcess, ModelDies, ServerStops, ServerStarts
<1>6. Models'
  <2>1. CASE ModelDies BY <2>1 DEF AiInv, Models, ModelDies
  <2>2. CASE ServerStops BY <2>2 DEF AiInv, Models, ServerStops
  <2>3. CASE ServerStarts BY <2>3 DEF AiInv, Models, ServerStarts
  <2> QED BY <2>1, <2>2, <2>3
<1>3. SuccessMeansInstalled' BY <1>1 DEF AiInv, SuccessMeansInstalled
<1>4. ASSUME NEW c \in Caller PROVE (NamesModel(caller[c]) /\ Installing(caller[c]))' BY <1>1 DEF AiInv, NamesModel, Installing
<1> QED BY <1>2, <1>3, <1>4, <1>5, <1>6 DEF AiInv

LEMMA AiStepKeeps == AiInv /\ [AiNext]_aiVars => AiInv'
<1> SUFFICES ASSUME AiInv, [AiNext]_aiVars PROVE AiInv' OBVIOUS
<1>1. CASE UNCHANGED aiVars
  <2>1. AiShape' /\ Models' /\ OneProcess' /\ SuccessMeansInstalled'
    BY <1>1 DEF aiVars, AiInv, AiShape, Models, OneProcess, SuccessMeansInstalled
  <2>2. ASSUME NEW c \in Caller PROVE (NamesModel(caller[c]) /\ Installing(caller[c]))'
    BY <1>1 DEF aiVars, AiInv, NamesModel, Installing
  <2> QED BY <2>1, <2>2 DEF AiInv
<1>2. ASSUME NEW c \in Caller, CallerStep(c) PROVE AiInv'
  BY <1>2, ModelCommandsKeep, PullKeeps, InstallersKeep, EndsKeep DEF CallerStep
<1> QED BY <1>1, <1>2, BeginAiKeeps, StoresKeeps, PullKeeps, HangKeeps, ServersKeep DEF AiNext

\* The invariant of the model and installer commands holds in every state.
THEOREM AiInductive == AiSpec => []AiInv
BY AiStart, AiStepKeeps, PTL DEF AiSpec

\* What start_model, stop_model and install_all_ai_dependencies promise: no process of
\* start_model is forgotten, and success is only said of an installation.
THEOREM SetupCorrect == AiSpec => []SetupSafe
<1>1. AiInv => SetupSafe
  <2> SUFFICES ASSUME AiInv PROVE SetupSafe OBVIOUS
  <2>1. AiTypeOK BY DEF AiInv, AiShape, AiCall, Models, AiTypeOK
  <2>2. NoForgottenModel
    <3> SUFFICES ASSUME procs # {} PROVE running # "none" /\ Cardinality(procs) = 1 BY DEF NoForgottenModel
    <3>1. PICK p : procs = {p} BY DEF AiInv, OneProcess
    <3>2. running # "none" BY DEF AiInv, OneProcess
    <3> QED BY <3>1, <3>2, FS_Singleton
  <2> QED BY <2>1, <2>2 DEF AiInv, SetupSafe
<1> QED BY <1>1, AiInductive, PTL

\* Only a line of the stream and the look into the library end a pull well.
PullFact ==
    \A c \in Caller : caller[c].pulled = "no" /\ caller'[c].pulled # "no" =>
        \/ caller[c].stored \/ ~server
        \/ \E n \in library : n = caller[c].what \/ <<n, caller[c].what>> \in Contains
Silent == \A c \in Caller : caller'[c].pulled \in {"no", caller[c].pulled}

LEMMA PullStep == AiInv /\ [AiNext]_aiVars => [PullFact]_aiVars
<1> SUFFICES ASSUME AiInv, AiNext PROVE PullFact OBVIOUS
<1>1. caller \in [Caller -> AiCall] BY DEF AiInv, AiShape
<1>2. NoCall_.pulled = "no" BY DEF NoCall_
<1>3. Silent => PullFact BY <1>1 DEF Silent, PullFact, AiCall
<1>4. ASSUME NEW c \in Caller, NEW ok, Tell(c, ok) PROVE Silent BY <1>1, <1>2, <1>4 DEF Tell, Silent
<1>5. ASSUME NEW c \in Caller, NEW p, Goto(c, p) PROVE Silent BY <1>1, <1>5 DEF Goto, Silent, AiCall
<1>6. ASSUME NEW c \in Caller, PullErr(c) PROVE Silent BY <1>1, <1>6 DEF PullErr, Silent, AiCall
<1>7. ASSUME NEW c \in Caller, NEW how, PullOk(c, how),
             caller[c].stored \/ ~server \/ \E n \in library : n = caller[c].what \/ <<n, caller[c].what>> \in Contains
      PROVE  PullFact
  <2>1. \A d \in Caller : d # c => caller'[d] = caller[d] BY <1>1, <1>7 DEF PullOk
  <2> QED BY <1>7, <2>1 DEF PullFact
<1>8. CASE UNCHANGED caller BY <1>1, <1>3, <1>8 DEF Silent
<1>9. ASSUME NEW c \in Caller, BeginAi(c) PROVE Silent
  <2>1. PICK r \in AiRequest[c] :
          caller' = [caller EXCEPT ![c] = [NoCall_ EXCEPT !.cmd = r.cmd, !.what = r.what, !.pc = r.cmd]]
    BY <1>9 DEF BeginAi
  <2>2. PICK new : new = [NoCall_ EXCEPT !.cmd = r.cmd, !.what = r.what, !.pc = r.cmd] OBVIOUS
  <2>3. new.pulled = "no" BY <2>2 DEF NoCall_
  <2> QED BY <1>1, <2>1, <2>2, <2>3 DEF Silent
<1>10. ASSUME NEW c \in Caller, CallerStep(c) PROVE PullFact
  <2>1. CASE start_model(c) \/ stop_model(c) \/ ollama_run(c) \/ ollama_stop(c) \/ ollama_delete(c) \/ ollama_serve(c)
             \/ install_tool(c) \/ ReportAll(c)
    <3>1. \E ok : Tell(c, ok)
      BY <2>1 DEF start_model, stop_model, ollama_run, ollama_stop, ollama_delete, ollama_serve, install_tool, ReportAll
    <3> QED BY <3>1, <1>3, <1>4
  <2>2. CASE ollama_pull(c) \/ PullTimesOut(c) BY <2>2, <1>3, <1>5, <1>6 DEF ollama_pull, PullTimesOut, PullTimeout
  <2>3. CASE VerifyPull(c)
    <3>1. CASE PullErr(c) BY <3>1, <1>3, <1>6
    <3>2. CASE ~PullErr(c)
      <4>1. \E how : PullOk(c, how) BY <2>3, <3>2 DEF VerifyPull
      <4>2. ~server \/ \E n \in library : n = caller[c].what \/ <<n, caller[c].what>> \in Contains
        BY <2>3, <3>2 DEF VerifyPull, Found
      <4> QED BY <4>1, <4>2, <1>7
    <3> QED BY <3>1, <3>2
  <2>4. CASE InstallFfmpeg(c) BY <2>4, <1>1, <1>3 DEF InstallFfmpeg, Silent, AiCall
  <2>5. CASE InstallWhisper(c) BY <2>5, <1>3, <1>5 DEF InstallWhisper
  <2>6. CASE InstallOllama(c) BY <2>6, <1>1, <1>3 DEF InstallOllama, Silent, AiCall
  <2>7. CASE WaitForOllama(c)
    <3>1. CASE Goto(c, "recheck") BY <3>1, <1>3, <1>5
    <3>2. CASE caller' = [caller EXCEPT ![c].waits = @ + 1] BY <3>2, <1>1, <1>3 DEF Silent, AiCall
    <3> QED BY <2>7, <3>1, <3>2 DEF WaitForOllama
  <2>8. CASE RecheckOllama(c)
    <3>1. PICK r : r = [caller[c] EXCEPT !.errors = NotRunning(c), !.what = Required, !.pc = IF server THEN "pull" ELSE "report"] OBVIOUS
    <3>2. caller' = [caller EXCEPT ![c] = r] BY <2>8, <3>1, <1>1 DEF RecheckOllama
    <3>3. r.pulled = caller[c].pulled BY <3>1, <1>1 DEF AiCall
    <3> QED BY <3>2, <3>3, <1>1, <1>3 DEF Silent
  <2> QED BY <1>10, <2>1, <2>2, <2>3, <2>4, <2>5, <2>6, <2>7, <2>8 DEF CallerStep
<1>11. ASSUME NEW c \in Caller, PullLine(c) PROVE PullFact
  <2>1. CASE caller' = [caller EXCEPT ![c].lines = @ + 1] BY <2>1, <1>1, <1>3 DEF Silent, AiCall
  <2>2. CASE PullErr(c) BY <2>2, <1>3, <1>6
  <2>3. CASE caller[c].stored /\ PullOk(c, "stored") BY <2>3, <1>7
  <2> QED BY <1>11, <2>1, <2>2, <2>3 DEF PullLine
<1>12. ASSUME NEW c \in Caller, ServerStores(c) \/ StreamEnds(c) \/ ProgramHangs(c) PROVE PullFact
  <2>1. CASE ServerStores(c) BY <2>1, <1>1, <1>3 DEF ServerStores, Silent, AiCall
  <2>2. CASE StreamEnds(c) \/ ProgramHangs(c) BY <2>2, <1>3, <1>5 DEF StreamEnds, ProgramHangs
  <2> QED BY <1>12, <2>1, <2>2
<1>13. CASE ModelDies \/ ServerStops \/ ServerStarts BY <1>8, <1>13 DEF ModelDies, ServerStops, ServerStarts
<1> QED BY <1>3, <1>9, <1>10, <1>11, <1>12, <1>13 DEF AiNext

\* ollama_pull ends well only when the model was stored during the pull, is in the library,
\* or could not be looked up: a stream that just ends is not taken for a success.
THEOREM PullsCorrect == AiSpec => PullOkMeansStored
BY AiInductive, PullStep, PTL DEF AiSpec, PullOkMeansStored, PullFact

-----------------------------------------------------------------------------
(* MediaJobs. *)
AllTags == {"video", "image"} \cup UNION {Within(a) : a \in Analyses}
AllModels == {"none"} \cup UNION Vision
Formats == {"hls"} \cup UNION {{r.format : r \in MediaRequest[c]} : c \in MediaClient}
MediaFiles == DOMAIN FileKind \cup {"none"}
TagPcs == {"ask", "source", "analyze", "store", "save", "hung"}
MediaCall == [cmd : MediaCommands \cup {"none"}, pc : TagPcs \cup {"idle", "service", "install", "resolve", "start"}, id : Nat,
              svc : MediaClient \cup {NoService}, file : MediaFiles, format : Formats, max : Nat, found : Seq(AllTags), model : AllModels]
MediaJob == [status : Open \cup MediaSettled \cup {"Processing", "Cancelled"}, task : {"starting", "running", "over"},
             file : MediaFiles, format : Formats, owner : MediaClient \cup {NoService}, playlist : BOOLEAN]

MediaShape ==
    /\ maker \in [MediaClient -> MediaCall] /\ mediaCalls \in Nat /\ media \in MediaClient \cup {NoService}
    /\ installedModels \subseteq AllModels
    /\ \A j \in DOMAIN mediaJobs : mediaJobs[j] \in MediaJob
    /\ \A j \in DOMAIN mediaTracked : mediaTracked[j] \in Open \cup MediaSettled
    /\ DOMAIN mediaJobs \cup DOMAIN mediaTracked \subseteq 1..mediaCalls
    /\ pretending \subseteq DOMAIN mediaTracked

\* A job that is Completed has its playlist, and its task is over; so has one whose operation is.
Made == /\ \A j \in DOMAIN mediaJobs : /\ mediaJobs[j].status = "Completed" => mediaJobs[j].playlist
                                       /\ mediaJobs[j].playlist => mediaJobs[j].task = "over"
        /\ \A j \in DOMAIN mediaJobs : j \in DOMAIN mediaTracked /\ mediaTracked[j] = "Completed" => mediaJobs[j].playlist

\* A polled job's operation is open.
Watched == \A j \in watching : j \in DOMAIN mediaJobs /\ j \in DOMAIN mediaTracked /\ mediaTracked[j] \in Open

\* A tagging has an open operation and no job; a transcode that has not started has neither.
Serves(r) ==
    /\ r.cmd = "none" <=> r.pc = "idle"
    /\ r.cmd = "none" => r.id = 0
    /\ r.cmd = "tag" <=> r.pc \in TagPcs
    /\ r.cmd # "none" => r.id \in 1..mediaCalls /\ r.id \notin DOMAIN mediaJobs /\ r.file \in DOMAIN FileKind
    /\ r.cmd = "tag" => r.id \in DOMAIN mediaTracked /\ mediaTracked[r.id] \in Open
    /\ r.cmd \in {"transcode", "auto_transcode"} => r.id \notin DOMAIN mediaTracked

\* From the choice of a model to the store: a model that sees, a file it can see.
Sees(r) == r.pc \in {"source", "analyze", "store"} =>
               FileKind[r.file] \in {"video", "image"} /\ is_vision_model(r.model) /\ r.model \in installedModels
\* The tags that fit: no more than asked for, the kind's own among them.
Fit(tags, kind, max) ==
    /\ Len(tags) <= max
    /\ max > 0 /\ kind = "video" => "video" \in Within(tags)
    /\ max > 0 /\ kind = "image" => Within(tags) \cap {"image", "photo"} # {}
Finds(r) == r.pc = "store" => Fit(r.found, FileKind[r.file], r.max)
OwnIds == \A c, d \in MediaClient : c # d /\ maker[c].cmd # "none" => maker[c].id # maker[d].id

MediaInv == MediaShape /\ Made /\ Watched /\ OwnIds /\ \A c \in MediaClient : Serves(maker[c]) /\ Sees(maker[c]) /\ Finds(maker[c])

LEMMA UnusedFits == Unused \in MediaCall /\ Unused.cmd = "none" /\ Unused.pc = "idle" /\ Unused.id = 0
<1>1. << >> \in Seq(AllTags) OBVIOUS
<1>2. "hls" \in Formats /\ "none" \in AllModels /\ "none" \in MediaFiles BY DEF Formats, AllModels, MediaFiles
<1> QED BY <1>1, <1>2 DEF Unused, MediaCall, MediaCommands, TagPcs

LEMMA UnusedServes == Serves(Unused) /\ Sees(Unused) /\ Finds(Unused)
BY UnusedFits DEF Serves, Sees, Finds, TagPcs

LEMMA MediaStart == MediaInit => MediaInv
<1> SUFFICES ASSUME MediaInit PROVE MediaInv OBVIOUS
<1>1. DOMAIN mediaJobs = {} /\ DOMAIN mediaTracked = {} BY EmptyMap DEF MediaInit
<1>2. \A c \in MediaClient : maker[c] = Unused BY DEF MediaInit
<1>3. \A c \in MediaClient : Serves(maker[c]) /\ Sees(maker[c]) /\ Finds(maker[c]) BY <1>2, UnusedServes
<1>4. maker \in [MediaClient -> MediaCall] BY UnusedFits DEF MediaInit
<1>5. MediaShape BY <1>1, <1>4 DEF MediaInit, MediaShape, AllModels
<1>6. Made /\ Watched BY <1>1 DEF Made, Watched, MediaInit
<1>7. OwnIds BY <1>2, UnusedFits DEF OwnIds
<1> QED BY <1>3, <1>5, <1>6, <1>7 DEF MediaInv

-----------------------------------------------------------------------------
\* The model find_best_vision_model answers is installed and sees.
LEMMA BestSees == ASSUME NEW ms, find_best_vision_model(ms) # "none"
                  PROVE  is_vision_model(find_best_vision_model(ms)) /\ find_best_vision_model(ms) \in ms
<1> DEFINE known == {i \in 1 .. Len(Preferred) : Preferred[i] \in ms}
<1>1. CASE known # {}
  <2>1. Len(Preferred) = 6 BY DEF Preferred
  <2>2. \E i \in known : \A j \in known : i <= j
    <3>1. known \subseteq {1, 2, 3, 4, 5, 6} BY <2>1
    <3> HIDE DEF known
    <3>2. CASE 1 \in known BY <3>1, <3>2
    <3>3. CASE 1 \notin known /\ 2 \in known BY <3>1, <3>3
    <3>4. CASE {1, 2} \cap known = {} /\ 3 \in known BY <3>1, <3>4
    <3>5. CASE {1, 2, 3} \cap known = {} /\ 4 \in known BY <3>1, <3>5
    <3>6. CASE {1, 2, 3, 4} \cap known = {} /\ 5 \in known BY <3>1, <3>6
    <3>7. CASE known = {6} BY <3>7
    <3>8. CASE {1, 2, 3, 4, 5} \cap known = {} /\ known # {6} BY <1>1, <3>1, <3>8
    <3> QED BY <3>2, <3>3, <3>4, <3>5, <3>6, <3>7, <3>8
  <2>3. PICK n \in known : n = CHOOSE i \in known : \A j \in known : i <= j BY <2>2
  <2>4. find_best_vision_model(ms) = Preferred[n] BY <1>1, <2>3 DEF find_best_vision_model
  <2> QED BY <2>3, <2>4 DEF is_vision_model
<1>2. CASE known = {}
  <2>1. \E m \in ms : is_vision_model(m) BY <1>2 DEF find_best_vision_model
  <2>2. find_best_vision_model(ms) = CHOOSE m \in ms : is_vision_model(m) BY <1>2, <2>1 DEF find_best_vision_model
  <2> HIDE DEF known
  <2> QED BY <2>1, <2>2
<1> QED BY <1>1, <1>2

LEMMA TakenFits ==
    ASSUME NEW S, NEW s \in Seq(S), NEW n \in Nat
    PROVE  /\ MediaTaken(s, n) \in Seq(S) /\ Len(MediaTaken(s, n)) <= n
           /\ Len(s) <= n => Len(MediaTaken(s, n)) = Len(s) /\ \A i \in 1..Len(s) : MediaTaken(s, n)[i] = s[i]
BY DEF MediaTaken

LEMMA KeptFits ==
    ASSUME NEW a \in Analyses, NEW kind \in {"video", "image"}, NEW max \in Nat
    PROVE  KeptTags(a, kind, max) \in Seq(AllTags) /\ Fit(KeptTags(a, kind, max), kind, max)
<1>1. a \in Seq(AllTags)
  <2>1. a \in Seq({a[i] : i \in DOMAIN a}) BY MediaRequestAssumption
  <2>2. \A i \in 1..Len(a) : a[i] \in AllTags BY <2>1 DEF AllTags, Within
  <2> QED BY <2>1, <2>2
<1>2. PICK room \in Nat : room = (IF max = 0 THEN 0 ELSE max - 1) OBVIOUS
<1>3. PICK some : some = MediaTaken(a, room) OBVIOUS
<1>4. some \in Seq(AllTags) /\ Len(some) <= room BY <1>1, <1>3, TakenFits
<1>5. PICK more : more = WithKind(some, kind) OBVIOUS
<1>6. /\ more \in Seq(AllTags) /\ Len(more) <= room + 1
      /\ kind = "video" => \E i \in 1..Len(more) : more[i] = "video"
      /\ kind = "image" => \E i \in 1..Len(more) : more[i] \in {"image", "photo"}
  <2>1. ASSUME NEW k \in {"video", "image"}, more = <<k>> \o some
        PROVE  more \in Seq(AllTags) /\ Len(more) = Len(some) + 1 /\ more[1] = k
    <3>1. k \in AllTags BY DEF AllTags
    <3> QED BY <1>4, <2>1, <3>1
  <2>2. CASE kind = "video" /\ "video" \notin Within(some)
    <3>1. more = <<"video">> \o some BY <1>5, <2>2 DEF WithKind
    <3> QED BY <1>4, <2>1, <2>2, <3>1
  <2>3. CASE kind = "image" /\ Within(some) \cap {"image", "photo"} = {}
    <3>1. more = <<"image">> \o some BY <1>5, <2>3 DEF WithKind
    <3> QED BY <1>4, <2>1, <2>3, <3>1
  <2>4. CASE kind = "video" /\ "video" \in Within(some)
    <3>1. more = some BY <1>5, <2>4 DEF WithKind
    <3> QED BY <1>4, <2>4, <3>1 DEF Within
  <2>5. CASE kind = "image" /\ Within(some) \cap {"image", "photo"} # {}
    <3>1. more = some BY <1>5, <2>5 DEF WithKind
    <3> QED BY <1>4, <2>5, <3>1 DEF Within
  <2> QED BY <2>2, <2>3, <2>4, <2>5
<1>7. PICK kept : kept = MediaTaken(more, max) OBVIOUS
<1>8. kept = KeptTags(a, kind, max) BY <1>2, <1>3, <1>5, <1>7 DEF KeptTags
<1>9. kept \in Seq(AllTags) /\ Len(kept) <= max BY <1>6, <1>7, TakenFits
<1>10. CASE max = 0 BY <1>8, <1>9, <1>10 DEF Fit
<1>11. CASE max > 0
  <2>1. Len(more) <= max BY <1>2, <1>6, <1>11
  <2>2. Len(kept) = Len(more) /\ \A i \in 1..Len(more) : kept[i] = more[i] BY <1>6, <1>7, <2>1, TakenFits
  <2>3. kind = "video" => "video" \in Within(kept) BY <1>6, <2>2 DEF Within
  <2>4. kind = "image" => Within(kept) \cap {"image", "photo"} # {} BY <1>6, <2>2 DEF Within
  <2> QED BY <1>8, <1>9, <2>3, <2>4 DEF Fit
<1> QED BY <1>10, <1>11

-----------------------------------------------------------------------------
\* A client's command whose operation and job nobody else touched stays as it is.
LEMMA OthersServe ==
    ASSUME MediaInv, NEW d \in MediaClient, maker'[d] = maker[d], mediaCalls' \in Nat, mediaCalls <= mediaCalls',
           UNCHANGED installedModels,
           maker[d].cmd # "none" =>
               /\ maker[d].id \in DOMAIN mediaJobs' => maker[d].id \in DOMAIN mediaJobs
               /\ maker[d].id \in DOMAIN mediaTracked' <=> maker[d].id \in DOMAIN mediaTracked
               /\ maker[d].id \in DOMAIN mediaTracked /\ mediaTracked[maker[d].id] \in Open => mediaTracked'[maker[d].id] \in Open
    PROVE  Serves(maker[d])' /\ Sees(maker[d])' /\ Finds(maker[d])'
<1>1. maker[d] \in MediaCall /\ mediaCalls \in Nat /\ Serves(maker[d]) /\ Sees(maker[d]) /\ Finds(maker[d])
  BY DEF MediaInv, MediaShape
<1>2. Serves(maker[d])' BY <1>1 DEF Serves
<1>3. Sees(maker[d])' BY <1>1 DEF Sees
<1>4. Finds(maker[d])' BY <1>1 DEF Finds
<1> QED BY <1>2, <1>3, <1>4

\* A client's step touches at most the operation and the job k, its own or new ones.
LEMMA MakerStep ==
    ASSUME MediaInv, NEW c \in MediaClient, NEW r \in MediaCall, Go(c, r), NEW k,
           \A d \in MediaClient : d # c /\ maker[d].cmd # "none" => maker[d].id # k,
           k # 0, r.cmd # "none" => r.id = k, r.cmd = "none" => r = Unused,
           mediaCalls' \in Nat, mediaCalls <= mediaCalls', UNCHANGED installedModels,
           \A q : q # k =>
               /\ q \in DOMAIN mediaJobs' => q \in DOMAIN mediaJobs
               /\ q \in DOMAIN mediaTracked' <=> q \in DOMAIN mediaTracked
               /\ q \in DOMAIN mediaTracked => mediaTracked'[q] = mediaTracked[q],
           MediaShape', Made', Watched', r.cmd # "none" => Serves(maker[c])' /\ Sees(maker[c])' /\ Finds(maker[c])'
    PROVE  MediaInv'
<1>1. maker \in [MediaClient -> MediaCall] BY DEF MediaInv, MediaShape
<1>2. maker'[c] = r /\ \A d \in MediaClient : d # c => maker'[d] = maker[d] BY <1>1 DEF Go
<1>3. Serves(maker[c])' /\ Sees(maker[c])' /\ Finds(maker[c])'
  <2>1. CASE r.cmd # "none" BY <2>1
  <2>2. CASE r.cmd = "none"
    <3>1. maker'[c] = Unused BY <1>2, <2>2
    <3> QED BY <3>1, UnusedFits DEF Serves, Sees, Finds, TagPcs
  <2> QED BY <2>1, <2>2
<1>4. \A d \in MediaClient : d # c => Serves(maker[d])' /\ Sees(maker[d])' /\ Finds(maker[d])'
  <2> SUFFICES ASSUME NEW d \in MediaClient, d # c PROVE Serves(maker[d])' /\ Sees(maker[d])' /\ Finds(maker[d])' OBVIOUS
  <2>1. maker'[d] = maker[d] /\ (maker[d].cmd # "none" => maker[d].id # k) BY <1>2
  <2> QED BY <2>1, OthersServe
<1>5. OwnIds'
  <2> SUFFICES ASSUME NEW d \in MediaClient, NEW e \in MediaClient, d # e, maker'[d].cmd # "none" PROVE maker'[d].id # maker'[e].id
    BY DEF OwnIds
  <2>1. r.cmd = "none" => r.id = 0 BY UnusedFits
  <2>2. \A x \in MediaClient : maker[x].cmd # "none" => maker[x].id \in 1..mediaCalls BY DEF MediaInv, Serves
  <2>3. CASE d # c /\ e # c BY <1>2, <2>3 DEF MediaInv, OwnIds
  <2>4. CASE d = c
    <3>1. maker'[d].id = k /\ maker'[e] = maker[e] BY <1>2, <2>4
    <3>2. CASE maker[e].cmd # "none" BY <2>4, <3>1, <3>2
    <3>3. CASE maker[e].cmd = "none"
      <4>1. maker[e].id = 0 BY <3>3 DEF MediaInv, Serves
      <4> QED BY <3>1, <4>1
    <3> QED BY <3>2, <3>3
  <2>5. CASE e = c
    <3>1. maker'[d] = maker[d] /\ maker[d].id \in 1..mediaCalls /\ maker[d].id # k BY <1>2, <2>2, <2>5
    <3>2. CASE r.cmd # "none" BY <1>2, <2>5, <3>1, <3>2
    <3>3. CASE r.cmd = "none"
      <4>1. maker'[e].id = 0 /\ mediaCalls \in Nat BY <1>2, <2>1, <2>5, <3>3 DEF MediaInv, MediaShape
      <4> QED BY <3>1, <4>1
    <3> QED BY <3>2, <3>3
  <2> QED BY <2>3, <2>4, <2>5
<1> QED BY <1>3, <1>4, <1>5 DEF MediaInv

LEMMA TrackMap ==
    ASSUME NEW k, NEW x, Track(k, x)
    PROVE  /\ DOMAIN mediaTracked' = DOMAIN mediaTracked \cup {k} /\ mediaTracked'[k] = x
           /\ \A j \in DOMAIN mediaTracked : j # k => mediaTracked'[j] = mediaTracked[j]
BY DEF Track, Entered

LEMMA BeginMediaKeeps == ASSUME MediaInv, NEW c \in MediaClient, BeginMedia(c) PROVE MediaInv'
<1>1. PICK q \in MediaRequest[c] :
         /\ Go(c, IF q.cmd = "auto_transcode" /\ FileKind[q.file] # "video" THEN Unused ELSE
                  [Unused EXCEPT !.cmd = q.cmd, !.id = mediaCalls + 1, !.file = q.file, !.format = q.format, !.max = q.max,
                                 !.pc = IF q.cmd = "tag" THEN "ask" ELSE "service"])
         /\ IF q.cmd = "tag" THEN Track(mediaCalls + 1, "Pending") ELSE UNCHANGED mediaTracked
  BY DEF BeginMedia
<1>2. /\ mediaCalls' = mediaCalls + 1 /\ maker[c].pc = "idle"
      /\ UNCHANGED <<media, mediaJobs, watching, pretending, tagsOf, aiCache, removed, installedModels, trouble, lost>>
  BY DEF BeginMedia, At
<1>3. PICK k : k = mediaCalls + 1 OBVIOUS
<1>4. mediaCalls \in Nat /\ k \in Nat /\ mediaCalls' = k BY <1>2, <1>3 DEF MediaInv, MediaShape
<1>5. PICK f \in MediaCall : f = [Unused EXCEPT !.cmd = q.cmd, !.id = k, !.file = q.file, !.format = q.format, !.max = q.max,
                                               !.pc = IF q.cmd = "tag" THEN "ask" ELSE "service"]
  <2>1. q.cmd \in MediaCommands /\ q.file \in DOMAIN FileKind /\ q.max \in Nat BY MediaRequestAssumption
  <2>2. q.format \in Formats BY DEF Formats
  <2>3. Unused \in MediaCall BY UnusedFits
  <2> QED BY <1>4, <2>1, <2>2, <2>3 DEF MediaCall, TagPcs, MediaFiles
<1>6. /\ f.cmd = q.cmd /\ f.id = k /\ f.file = q.file /\ f.pc = IF q.cmd = "tag" THEN "ask" ELSE "service"
      /\ q.cmd \in MediaCommands /\ q.file \in DOMAIN FileKind
  BY <1>5, UnusedFits, MediaRequestAssumption DEF MediaCall
<1>7. PICK r \in MediaCall : Go(c, r) /\ (r = Unused \/ r = f)
  BY <1>1, <1>3, <1>5, UnusedFits
<1>8. DOMAIN mediaJobs \cup DOMAIN mediaTracked \subseteq 1..mediaCalls /\ k \notin DOMAIN mediaJobs /\ k \notin DOMAIN mediaTracked
  BY <1>3, <1>4 DEF MediaInv, MediaShape
<1>9. /\ DOMAIN mediaTracked' \subseteq DOMAIN mediaTracked \cup {k} /\ DOMAIN mediaTracked \subseteq DOMAIN mediaTracked'
      /\ \A o \in DOMAIN mediaTracked : o # k => mediaTracked'[o] = mediaTracked[o]
      /\ q.cmd = "tag" => k \in DOMAIN mediaTracked' /\ mediaTracked'[k] = "Pending"
      /\ q.cmd # "tag" => UNCHANGED mediaTracked
      /\ k \in DOMAIN mediaTracked' => mediaTracked'[k] = "Pending"
  <2>1. CASE q.cmd = "tag"
    <3>1. Track(k, "Pending") BY <1>1, <1>3, <2>1
    <3> QED BY <2>1, <3>1, TrackMap
  <2>2. CASE q.cmd # "tag"
    <3>1. UNCHANGED mediaTracked BY <1>1, <2>2
    <3> QED BY <1>8, <2>2, <3>1
  <2> QED BY <2>1, <2>2
<1>10. MediaShape'
  <2>1. maker' \in [MediaClient -> MediaCall] BY <1>7 DEF Go, MediaInv, MediaShape
  <2>2. \A j \in DOMAIN mediaTracked' : mediaTracked'[j] \in Open \cup MediaSettled BY <1>9 DEF MediaInv, MediaShape, Open
  <2>3. (DOMAIN mediaJobs \cup DOMAIN mediaTracked)' \subseteq 1..k BY <1>2, <1>3, <1>4, <1>8, <1>9
  <2>4. (pretending \subseteq DOMAIN mediaTracked)' BY <1>2, <1>9 DEF MediaInv, MediaShape
  <2> QED BY <1>2, <1>4, <2>1, <2>2, <2>3, <2>4 DEF MediaInv, MediaShape
<1>11. Made' BY <1>2, <1>8, <1>9 DEF MediaInv, Made
<1>12. Watched' BY <1>2, <1>8, <1>9 DEF MediaInv, Watched
<1>13. maker'[c] = r BY <1>7 DEF Go, MediaInv, MediaShape
<1>14. r.cmd # "none" => Serves(maker[c])' /\ Sees(maker[c])' /\ Finds(maker[c])'
  <2> SUFFICES ASSUME r.cmd # "none" PROVE Serves(maker[c])' /\ Sees(maker[c])' /\ Finds(maker[c])' OBVIOUS
  <2>1. r = f /\ maker'[c] = f BY <1>7, <1>13, UnusedFits
  <2>2. f.id \in 1..mediaCalls' BY <1>3, <1>4, <1>6
  <2>3. Serves(maker[c])' BY <1>2, <1>6, <1>8, <1>9, <2>1, <2>2 DEF Serves, MediaCommands, TagPcs, Open
  <2>4. f.pc \notin {"source", "analyze", "store"} BY <1>6
  <2> QED BY <2>1, <2>3, <2>4 DEF Sees, Finds
<1>15. \A d \in MediaClient : d # c /\ maker[d].cmd # "none" => maker[d].id # k BY <1>3, <1>4 DEF MediaInv, Serves
<1>16. k # 0 /\ mediaCalls <= mediaCalls' BY <1>3, <1>4
<1>17. (r.cmd # "none" => r.id = k) /\ (r.cmd = "none" => r = Unused)
  BY <1>6, <1>7, UnusedFits DEF MediaCommands
<1> QED BY <1>2, <1>4, <1>7, <1>9, <1>10, <1>11, <1>12, <1>14, <1>15, <1>16, <1>17, MakerStep

\* A client's step that leaves operations and jobs alone.
LEMMA GoOn ==
    ASSUME MediaInv, NEW c \in MediaClient, NEW r \in MediaCall, Go(c, r), maker[c].cmd # "none",
           r.cmd # "none" => r.cmd = maker[c].cmd /\ r.id = maker[c].id /\ r.file = maker[c].file,
           r.cmd # "none" => r.pc # "idle" /\ (r.cmd = "tag" <=> r.pc \in TagPcs), r.cmd = "none" => r = Unused,
           r.cmd # "none" => Sees(r) /\ Finds(r),
           UNCHANGED <<mediaJobs, mediaTracked, watching, mediaCalls, installedModels>>,
           media' \in MediaClient \cup {NoService}, pretending' \subseteq DOMAIN mediaTracked
    PROVE  MediaInv'
<1>1. maker \in [MediaClient -> MediaCall] /\ mediaCalls \in Nat BY DEF MediaInv, MediaShape
<1>2. maker'[c] = r /\ maker' \in [MediaClient -> MediaCall] BY <1>1 DEF Go
<1>3. MediaShape' BY <1>2 DEF MediaInv, MediaShape
<1>4. Made' /\ Watched' BY DEF MediaInv, Made, Watched
<1>5. Serves(maker[c]) BY DEF MediaInv
<1>6. r.cmd # "none" => Serves(maker[c])' /\ Sees(maker[c])' /\ Finds(maker[c])'
  BY <1>2, <1>5 DEF Serves, Sees, Finds
<1>7. PICK k : k = maker[c].id OBVIOUS
<1>8. k # 0 /\ \A d \in MediaClient : d # c /\ maker[d].cmd # "none" => maker[d].id # k BY <1>1, <1>5, <1>7 DEF MediaInv, OwnIds, Serves
<1>9. mediaCalls' \in Nat /\ mediaCalls <= mediaCalls' BY <1>1
<1>10. \A q : q # k =>
           /\ q \in DOMAIN mediaJobs' => q \in DOMAIN mediaJobs
           /\ q \in DOMAIN mediaTracked' <=> q \in DOMAIN mediaTracked
           /\ q \in DOMAIN mediaTracked => mediaTracked'[q] = mediaTracked[q]
  OBVIOUS
<1>11. r.cmd # "none" => r.id = k BY <1>7
<1> QED BY <1>3, <1>4, <1>6, <1>8, <1>9, <1>10, <1>11, MakerStep

\* The same when only the place in the command changes.
LEMMA Walks ==
    ASSUME MediaInv, NEW c \in MediaClient, NEW p, GoTo(c, p), maker[c].cmd # "none", p \in TagPcs \cup {"service", "install", "resolve", "start"},
           maker[c].cmd = "tag" <=> p \in TagPcs, p \in {"source", "analyze", "store"} => maker[c].pc \in {"source", "analyze", "store"}, p # "store"
    PROVE  \E r \in MediaCall : /\ Go(c, r) /\ r.cmd # "none" /\ r.cmd = maker[c].cmd /\ r.id = maker[c].id /\ r.file = maker[c].file
                                /\ r.pc # "idle" /\ (r.cmd = "tag" <=> r.pc \in TagPcs) /\ Sees(r) /\ Finds(r)
<1>1. maker[c] \in MediaCall BY DEF MediaInv, MediaShape
<1>2. PICK r : r = [maker[c] EXCEPT !.pc = p] OBVIOUS
<1>3. r \in MediaCall /\ r.pc = p /\ r.cmd = maker[c].cmd /\ r.id = maker[c].id /\ r.file = maker[c].file /\ r.model = maker[c].model
  BY <1>1, <1>2 DEF MediaCall
<1>4. Sees(r) /\ Finds(r) BY <1>3 DEF MediaInv, Sees, Finds
<1>5. p # "idle" BY DEF TagPcs
<1> QED BY <1>2, <1>3, <1>4, <1>5 DEF GoTo

LEMMA EndsOr == ASSUME MediaInv, NEW c \in MediaClient, End(c) PROVE Go(c, Unused) /\ Unused \in MediaCall /\ Unused.cmd = "none"
BY UnusedFits DEF End

LEMMA ServiceInitKeeps == ASSUME MediaInv, NEW c \in MediaClient, get_or_init_service(c) PROVE MediaInv'
<1>1. UNCHANGED <<mediaJobs, mediaTracked, watching, mediaCalls, installedModels, pretending>> BY DEF get_or_init_service, Same
<1>2. /\ maker[c].pc \in {"service", "install"} /\ maker[c].cmd # "none" /\ maker[c].cmd # "tag" /\ maker[c] \in MediaCall
      /\ media \in MediaClient \cup {NoService} /\ pretending \subseteq DOMAIN mediaTracked
  BY DEF get_or_init_service, At, MediaInv, MediaShape, Serves, TagPcs
<1>3. CASE media # NoService /\ Go(c, [maker[c] EXCEPT !.svc = media, !.pc = "resolve"]) /\ UNCHANGED media
  <2>1. PICK r : r = [maker[c] EXCEPT !.svc = media, !.pc = "resolve"] OBVIOUS
  <2>2. r \in MediaCall /\ r.pc = "resolve" /\ r.cmd = maker[c].cmd /\ r.id = maker[c].id /\ r.file = maker[c].file
    BY <1>2, <2>1 DEF MediaCall, TagPcs
  <2>3. Sees(r) /\ Finds(r) /\ r.pc \notin TagPcs BY <2>2 DEF Sees, Finds, TagPcs
  <2> QED BY <1>1, <1>2, <1>3, <2>1, <2>2, <2>3, GoOn
<1>4. CASE GoTo(c, "install") /\ UNCHANGED media
  <2>1. "install" \notin TagPcs BY DEF TagPcs
  <2> QED BY <1>1, <1>2, <1>4, <2>1, Walks, GoOn
<1>5. CASE End(c) /\ UNCHANGED media BY <1>1, <1>2, <1>5, EndsOr, GoOn
<1>6. CASE media' = c /\ GoTo(c, "service")
  <2>1. "service" \notin TagPcs BY DEF TagPcs
  <2> QED BY <1>1, <1>2, <1>6, <2>1, Walks, GoOn
<1> QED BY <1>3, <1>4, <1>5, <1>6 DEF get_or_init_service

LEMMA ResolveKeeps == ASSUME MediaInv, NEW c \in MediaClient, Resolve(c) PROVE MediaInv'
<1>1. UNCHANGED <<mediaJobs, mediaTracked, watching, mediaCalls, installedModels, pretending, media>> BY DEF Resolve, Same
<1>2. /\ maker[c].pc = "resolve" /\ maker[c].cmd # "none" /\ maker[c].cmd # "tag"
      /\ media \in MediaClient \cup {NoService} /\ pretending \subseteq DOMAIN mediaTracked
  BY DEF Resolve, At, MediaInv, MediaShape, Serves, TagPcs
<1>3. CASE End(c) BY <1>1, <1>2, <1>3, EndsOr, GoOn
<1>4. CASE GoTo(c, "start")
  <2>1. "start" \notin TagPcs BY DEF TagPcs
  <2> QED BY <1>1, <1>2, <1>4, <2>1, Walks, GoOn
<1> QED BY <1>3, <1>4 DEF Resolve

LEMMA TranscodeKeeps == ASSUME MediaInv, NEW c \in MediaClient, transcode(c) PROVE MediaInv'
<1>1. PICK k : k = maker[c].id OBVIOUS
<1>2. PICK new : new = [status |-> "Pending", task |-> "starting", file |-> maker[c].file, format |-> maker[c].format,
                        owner |-> maker[c].svc, playlist |-> FALSE] OBVIOUS
<1>3. /\ mediaJobs' = Entered(mediaJobs, k, new) /\ End(c) /\ UNCHANGED <<mediaCalls, installedModels, media, pretending>>
      /\ \/ Track(k, "Pending") /\ watching' = watching \cup {k}
         \/ UNCHANGED <<mediaTracked, watching>>
  BY <1>1, <1>2 DEF transcode, Id, Same
<1>4. maker[c].pc = "start" /\ maker[c] \in MediaCall /\ Serves(maker[c]) /\ mediaCalls \in Nat BY DEF transcode, At, MediaInv, MediaShape
<1>5. k \in 1..mediaCalls /\ k \notin DOMAIN mediaJobs /\ k \notin DOMAIN mediaTracked /\ maker[c].cmd # "none"
  BY <1>1, <1>4 DEF Serves, MediaCall, MediaCommands, TagPcs
<1>6. new \in MediaJob /\ new.status = "Pending" /\ new.playlist = FALSE BY <1>2, <1>4 DEF MediaJob, MediaCall, Open
<1>7. /\ DOMAIN mediaJobs' = DOMAIN mediaJobs \cup {k} /\ mediaJobs'[k] = new
      /\ \A j \in DOMAIN mediaJobs : j # k => mediaJobs'[j] = mediaJobs[j]
  BY <1>3 DEF Entered
<1>8. /\ DOMAIN mediaTracked' \subseteq DOMAIN mediaTracked \cup {k} /\ DOMAIN mediaTracked \subseteq DOMAIN mediaTracked'
      /\ \A o \in DOMAIN mediaTracked : o # k => mediaTracked'[o] = mediaTracked[o]
      /\ k \in DOMAIN mediaTracked' => mediaTracked'[k] = "Pending"
  <2>1. CASE Track(k, "Pending") BY <2>1, TrackMap
  <2>2. CASE UNCHANGED mediaTracked BY <1>5, <2>2
  <2> QED BY <1>3, <2>1, <2>2
<1>9. MediaShape'
  <2>1. maker' \in [MediaClient -> MediaCall] BY <1>3, UnusedFits DEF End, Go, MediaInv, MediaShape
  <2>2. \A j \in DOMAIN mediaTracked' : mediaTracked'[j] \in Open \cup MediaSettled BY <1>8 DEF MediaInv, MediaShape, Open
  <2>3. (DOMAIN mediaJobs \cup DOMAIN mediaTracked)' \subseteq 1..mediaCalls BY <1>5, <1>7, <1>8 DEF MediaInv, MediaShape
  <2>4. \A j \in DOMAIN mediaJobs' : mediaJobs'[j] \in MediaJob BY <1>6, <1>7 DEF MediaInv, MediaShape
  <2>5. (pretending \subseteq DOMAIN mediaTracked)' BY <1>3, <1>8 DEF MediaInv, MediaShape
  <2> QED BY <1>3, <2>1, <2>2, <2>3, <2>4, <2>5 DEF MediaInv, MediaShape
<1>10. Made' BY <1>5, <1>6, <1>7, <1>8 DEF MediaInv, Made
<1>11. Watched'
  <2>1. CASE Track(k, "Pending") /\ watching' = watching \cup {k}
    <3>1. k \in DOMAIN mediaTracked' BY <2>1, TrackMap
    <3>2. "Pending" \in Open BY DEF Open
    <3> QED BY <1>5, <1>7, <1>8, <2>1, <3>1, <3>2 DEF MediaInv, Watched
  <2>2. CASE UNCHANGED <<mediaTracked, watching>> BY <1>7, <2>2 DEF MediaInv, Watched
  <2> QED BY <1>3, <2>1, <2>2
<1>12. k # 0 /\ (\A d \in MediaClient : d # c /\ maker[d].cmd # "none" => maker[d].id # k)
  BY <1>1, <1>4, <1>5 DEF MediaInv, OwnIds
<1>13. mediaCalls' \in Nat /\ mediaCalls <= mediaCalls' BY <1>3, <1>4
<1>14. \A q : q # k =>
           /\ q \in DOMAIN mediaJobs' => q \in DOMAIN mediaJobs
           /\ q \in DOMAIN mediaTracked' <=> q \in DOMAIN mediaTracked
           /\ q \in DOMAIN mediaTracked => mediaTracked'[q] = mediaTracked[q]
  BY <1>7, <1>8
<1>15. Go(c, Unused) /\ Unused \in MediaCall /\ Unused.cmd = "none" BY <1>3, EndsOr
<1> QED BY <1>3, <1>9, <1>10, <1>11, <1>12, <1>13, <1>14, <1>15, MakerStep

\* A command of tagging that settles its operation ends.
LEMMA TagEnds ==
    ASSUME MediaInv, NEW c \in MediaClient, maker[c].cmd = "tag", NEW s \in MediaSettled, Track(Id(c), s), End(c),
           UNCHANGED <<mediaCalls, installedModels, mediaJobs, media, watching, pretending>>
    PROVE  MediaInv'
<1>1. PICK k : k = maker[c].id OBVIOUS
<1>2. maker[c] \in MediaCall /\ Serves(maker[c]) /\ mediaCalls \in Nat BY DEF MediaInv, MediaShape
<1>3. k \in 1..mediaCalls /\ k \notin DOMAIN mediaJobs /\ k \in DOMAIN mediaTracked /\ k \notin watching
  BY <1>1, <1>2 DEF Serves, MediaInv, Watched
<1>4. /\ DOMAIN mediaTracked' = DOMAIN mediaTracked /\ mediaTracked'[k] = s
      /\ \A o \in DOMAIN mediaTracked : o # k => mediaTracked'[o] = mediaTracked[o]
  BY <1>1, <1>3, TrackMap DEF Id
<1>5. MediaShape'
  <2>1. maker' \in [MediaClient -> MediaCall] BY UnusedFits DEF End, Go, MediaInv, MediaShape
  <2>2. \A j \in DOMAIN mediaTracked' : mediaTracked'[j] \in Open \cup MediaSettled BY <1>4 DEF MediaInv, MediaShape
  <2> QED BY <1>4, <2>1, <2>2 DEF MediaInv, MediaShape
<1>6. Made' /\ Watched' BY <1>3, <1>4 DEF MediaInv, Made, Watched
<1>7. k # 0 /\ (\A d \in MediaClient : d # c /\ maker[d].cmd # "none" => maker[d].id # k)
  BY <1>1, <1>3, <1>2 DEF MediaInv, OwnIds
<1>8. mediaCalls' \in Nat /\ mediaCalls <= mediaCalls' BY <1>2
<1>9. \A q : q # k =>
           /\ q \in DOMAIN mediaJobs' => q \in DOMAIN mediaJobs
           /\ q \in DOMAIN mediaTracked' <=> q \in DOMAIN mediaTracked
           /\ q \in DOMAIN mediaTracked => mediaTracked'[q] = mediaTracked[q]
  BY <1>4
<1>10. Go(c, Unused) /\ Unused \in MediaCall /\ Unused.cmd = "none" BY EndsOr
<1> QED BY <1>5, <1>6, <1>7, <1>8, <1>9, <1>10, MakerStep

LEMMA TagFails ==
    ASSUME MediaInv, NEW c \in MediaClient, maker[c].cmd = "tag", MarkFailed(c),
           UNCHANGED <<mediaCalls, installedModels, mediaJobs, media, watching, pretending>>
    PROVE  MediaInv'
BY TagEnds DEF MarkFailed, MediaSettled

LEMMA AskKeeps == ASSUME MediaInv, NEW c \in MediaClient, AskForTags(c) PROVE MediaInv'
<1>1. UNCHANGED <<mediaJobs, watching, mediaCalls, installedModels, pretending, media>> BY DEF AskForTags, Same
<1>2. /\ maker[c].pc = "ask" /\ maker[c].cmd = "tag" /\ maker[c] \in MediaCall /\ maker[c].file \in DOMAIN FileKind
      /\ media \in MediaClient \cup {NoService} /\ pretending \subseteq DOMAIN mediaTracked
  BY DEF AskForTags, At, MediaInv, MediaShape, Serves, TagPcs
<1>3. CASE MarkFailed(c) BY <1>1, <1>2, <1>3, TagFails
<1>4. ASSUME ~MarkFailed(c) PROVE MediaInv'
  <2>1. PICK m : m = find_best_vision_model(installedModels) OBVIOUS
  <2>2. FileKind[maker[c].file] # "other" /\ m # "none" /\ Go(c, [maker[c] EXCEPT !.model = m, !.pc = "source"]) /\ UNCHANGED mediaTracked
    BY <1>4, <2>1 DEF AskForTags
  <2>3. is_vision_model(m) /\ m \in installedModels BY <2>1, <2>2, BestSees
  <2>4. m \in AllModels BY <2>3 DEF MediaInv, MediaShape
  <2>5. PICK r : r = [maker[c] EXCEPT !.model = m, !.pc = "source"] OBVIOUS
  <2>6. r \in MediaCall /\ r.pc = "source" /\ r.cmd = maker[c].cmd /\ r.id = maker[c].id /\ r.file = maker[c].file /\ r.model = m
    BY <1>2, <2>4, <2>5 DEF MediaCall, TagPcs
  <2>7. Sees(r) BY <1>2, <2>2, <2>3, <2>6, MediaRequestAssumption DEF Sees
  <2>8. Finds(r) /\ r.pc \in TagPcs BY <2>6 DEF Finds, TagPcs
  <2> QED BY <1>1, <1>2, <2>2, <2>5, <2>6, <2>7, <2>8, GoOn
<1> QED BY <1>3, <1>4

LEMMA FindSourceKeeps == ASSUME MediaInv, NEW c \in MediaClient, FindSource(c) PROVE MediaInv'
<1>1. UNCHANGED <<mediaJobs, watching, mediaCalls, installedModels, mediaTracked, media>> BY DEF FindSource, Same
<1>2. /\ maker[c].pc = "source" /\ maker[c].cmd = "tag" /\ maker[c].id \in DOMAIN mediaTracked
      /\ media \in MediaClient \cup {NoService} /\ pretending \subseteq DOMAIN mediaTracked
  BY DEF FindSource, At, MediaInv, MediaShape, Serves, TagPcs
<1>3. pretending' \subseteq DOMAIN mediaTracked BY <1>2 DEF FindSource, Id
<1>4. CASE End(c) BY <1>1, <1>2, <1>3, <1>4, EndsOr, GoOn
<1>5. CASE GoTo(c, "analyze")
  <2>1. "analyze" \in TagPcs BY DEF TagPcs
  <2> QED BY <1>1, <1>2, <1>3, <1>5, <2>1, Walks, GoOn
<1> QED BY <1>4, <1>5 DEF FindSource

LEMMA StallKeeps == ASSUME MediaInv, NEW c \in MediaClient, BodyStalls(c) PROVE MediaInv'
<1>1. UNCHANGED <<mediaJobs, mediaTracked, watching, mediaCalls, installedModels, pretending, media>> BY DEF BodyStalls, Same
<1>2. /\ maker[c].cmd = "tag" /\ media \in MediaClient \cup {NoService} /\ pretending \subseteq DOMAIN mediaTracked
  BY DEF BodyStalls, At, MediaInv, MediaShape, Serves, TagPcs
<1>3. GoTo(c, "hung") /\ "hung" \in TagPcs BY DEF BodyStalls, TagPcs
<1> QED BY <1>1, <1>2, <1>3, Walks, GoOn

LEMMA AnalyzeKeeps == ASSUME MediaInv, NEW c \in MediaClient, Analyze(c) PROVE MediaInv'
<1>1. UNCHANGED <<mediaJobs, watching, mediaCalls, installedModels, pretending, media>> BY DEF Analyze, Same
<1>2. /\ maker[c].pc = "analyze" /\ maker[c].cmd = "tag" /\ maker[c] \in MediaCall /\ Sees(maker[c])
      /\ media \in MediaClient \cup {NoService} /\ pretending \subseteq DOMAIN mediaTracked
  BY DEF Analyze, At, MediaInv, MediaShape, Serves, TagPcs
<1>3. CASE MarkFailed(c) BY <1>1, <1>2, <1>3, TagFails
<1>4. ASSUME NEW a \in Analyses, UNCHANGED mediaTracked,
             Go(c, [maker[c] EXCEPT !.found = KeptTags(a, FileKind[maker[c].file], maker[c].max), !.pc = "store"])
      PROVE  MediaInv'
  <2>1. PICK kept : kept = KeptTags(a, FileKind[maker[c].file], maker[c].max) OBVIOUS
  <2>2. maker[c].max \in Nat /\ FileKind[maker[c].file] \in {"video", "image"} BY <1>2 DEF MediaCall, Sees
  <2>3. kept \in Seq(AllTags) /\ Fit(kept, FileKind[maker[c].file], maker[c].max) BY <2>1, <2>2, KeptFits
  <2>4. PICK r : r = [maker[c] EXCEPT !.found = kept, !.pc = "store"] OBVIOUS
  <2>5. /\ r \in MediaCall /\ r.pc = "store" /\ r.cmd = maker[c].cmd /\ r.id = maker[c].id /\ r.file = maker[c].file
        /\ r.model = maker[c].model /\ r.max = maker[c].max /\ r.found = kept
    BY <1>2, <2>3, <2>4 DEF MediaCall, TagPcs
  <2>6. Sees(r) /\ Finds(r) BY <1>2, <2>3, <2>5 DEF Sees, Finds
  <2>7. r.pc \in TagPcs BY <2>5 DEF TagPcs
  <2> QED BY <1>1, <1>2, <1>4, <2>1, <2>4, <2>5, <2>6, <2>7, GoOn
<1> QED BY <1>3, <1>4 DEF Analyze

LEMMA StoreKeeps == ASSUME MediaInv, NEW c \in MediaClient, OpenStore(c) \/ SaveTag(c) \/ CompleteTagging(c) PROVE MediaInv'
<1>1. UNCHANGED <<mediaJobs, watching, mediaCalls, installedModels, pretending, media>> BY DEF OpenStore, SaveTag, CompleteTagging, Same
<1>2. /\ maker[c].pc \in {"store", "save"} /\ maker[c].cmd = "tag" /\ maker[c] \in MediaCall
      /\ media \in MediaClient \cup {NoService} /\ pretending \subseteq DOMAIN mediaTracked
  BY DEF OpenStore, SaveTag, CompleteTagging, At, MediaInv, MediaShape, Serves, TagPcs
<1>3. CASE OpenStore(c)
  <2>1. CASE End(c) BY <1>1, <1>2, <1>3, <2>1, EndsOr, GoOn DEF OpenStore
  <2>2. CASE GoTo(c, "save")
    <3>1. "save" \in TagPcs BY DEF TagPcs
    <3> QED BY <1>1, <1>2, <1>3, <2>2, <3>1, Walks, GoOn DEF OpenStore
  <2> QED BY <1>3, <2>1, <2>2 DEF OpenStore
<1>4. CASE SaveTag(c)
  <2>1. PICK r : r = [maker[c] EXCEPT !.found = Tail(@)] OBVIOUS
  <2>2. maker[c].found \in Seq(AllTags) /\ maker[c].found # << >> /\ maker[c].pc = "save" BY <1>2, <1>4 DEF SaveTag, MediaCall, At
  <2>3. Tail(maker[c].found) \in Seq(AllTags) BY <2>2
  <2>4. r \in MediaCall /\ r.pc = maker[c].pc /\ r.cmd = maker[c].cmd /\ r.id = maker[c].id /\ r.file = maker[c].file
    BY <1>2, <2>1, <2>3 DEF MediaCall
  <2>5. Sees(r) /\ Finds(r) /\ r.pc \in TagPcs BY <2>2, <2>4 DEF Sees, Finds, TagPcs
  <2> QED BY <1>1, <1>2, <1>4, <2>1, <2>4, <2>5, GoOn DEF SaveTag
<1>5. CASE CompleteTagging(c)
  <2>1. "Completed" \in MediaSettled BY DEF MediaSettled
  <2> QED BY <1>1, <1>2, <1>5, <2>1, TagEnds DEF CompleteTagging
<1> QED BY <1>3, <1>4, <1>5

\* The steps of jobs and of the tasks beside the commands: no command is touched.
LEMMA TaskStep ==
    ASSUME MediaInv, UNCHANGED <<maker, mediaCalls, installedModels, media>>, MediaShape', Made', Watched',
           DOMAIN mediaJobs' = DOMAIN mediaJobs, DOMAIN mediaTracked' = DOMAIN mediaTracked,
           \A q \in DOMAIN mediaTracked : mediaTracked'[q] = mediaTracked[q] \/ q \in DOMAIN mediaJobs \/ mediaTracked'[q] \in Open
    PROVE  MediaInv'
<1>1. OwnIds' /\ mediaCalls \in Nat BY DEF MediaInv, MediaShape, OwnIds
<1>2. ASSUME NEW d \in MediaClient PROVE Serves(maker[d])' /\ Sees(maker[d])' /\ Finds(maker[d])'
  <2>1. maker[d].cmd # "none" => maker[d].id \notin DOMAIN mediaJobs BY DEF MediaInv, Serves
  <2> QED BY <1>1, <2>1, OthersServe
<1> QED BY <1>1, <1>2 DEF MediaInv

LEMMA JobsKeep == ASSUME MediaInv, NEW j \in DOMAIN mediaJobs, JobRuns(j) \/ cancel_transcode(j) PROVE MediaInv'
<1>1. UNCHANGED <<maker, mediaCalls, installedModels, media, mediaTracked, watching, pretending>> BY DEF JobRuns, cancel_transcode, Same, Trouble
<1>2. mediaJobs[j] \in MediaJob BY DEF MediaInv, MediaShape
<1>3. \E r \in MediaJob : /\ mediaJobs' = [mediaJobs EXCEPT ![j] = r]
                          /\ r.status = "Completed" => r.playlist
                          /\ r.playlist => r.task = "over"
                          /\ mediaJobs[j].playlist => r.playlist
  <2>1. CASE Process(j)
    <3>1. PICK r : r = [mediaJobs[j] EXCEPT !.status = "Processing", !.task = "running"] OBVIOUS
    <3>2. r \in MediaJob /\ r.status = "Processing" /\ r.playlist = mediaJobs[j].playlist BY <1>2, <3>1 DEF MediaJob
    <3>3. ~mediaJobs[j].playlist BY <2>1 DEF Process, MediaInv, Made
    <3> QED BY <2>1, <3>1, <3>2, <3>3 DEF Process
  <2>2. ASSUME NEW s \in {"Completed", "Failed"}, NEW made \in BOOLEAN, s = "Completed" => made, Over(j, s, made), mediaJobs[j].task = "running"
        PROVE  \E r \in MediaJob : /\ mediaJobs' = [mediaJobs EXCEPT ![j] = r]
                                   /\ r.status = "Completed" => r.playlist
                                   /\ r.playlist => r.task = "over"
                                   /\ mediaJobs[j].playlist => r.playlist
    <3>1. PICK r : r = [mediaJobs[j] EXCEPT !.status = s, !.task = "over", !.playlist = made] OBVIOUS
    <3>2. r \in MediaJob /\ r.status = s /\ r.playlist = made /\ r.task = "over" BY <1>2, <3>1 DEF MediaJob, MediaSettled
    <3>3. ~mediaJobs[j].playlist BY <2>2 DEF MediaInv, Made
    <3> QED BY <2>2, <3>1, <3>2, <3>3 DEF Over
  <2>3. CASE mediaJobs[j].task = "running" /\ transcode_hls_static(j) BY <2>2, <2>3 DEF transcode_hls_static
  <2>4. CASE cancel_transcode(j)
    <3>1. PICK r : r = [mediaJobs[j] EXCEPT !.status = "Cancelled"] OBVIOUS
    <3>2. r \in MediaJob /\ r.status = "Cancelled" /\ r.playlist = mediaJobs[j].playlist /\ r.task = mediaJobs[j].task BY <1>2, <3>1 DEF MediaJob
    <3> QED BY <2>4, <3>1, <3>2 DEF cancel_transcode, MediaInv, Made
  <2> QED BY <2>1, <2>3, <2>4 DEF JobRuns
<1>4. PICK r \in MediaJob : /\ mediaJobs' = [mediaJobs EXCEPT ![j] = r]
                            /\ r.status = "Completed" => r.playlist
                            /\ r.playlist => r.task = "over"
                            /\ mediaJobs[j].playlist => r.playlist
  BY <1>3
<1>5. DOMAIN mediaJobs' = DOMAIN mediaJobs /\ mediaJobs'[j] = r /\ \A i \in DOMAIN mediaJobs : i # j => mediaJobs'[i] = mediaJobs[i]
  BY <1>4
<1>6. MediaShape' BY <1>1, <1>5 DEF MediaInv, MediaShape
<1>7. Made' BY <1>1, <1>4, <1>5 DEF MediaInv, Made
<1>8. Watched' BY <1>1, <1>5 DEF MediaInv, Watched
<1> QED BY <1>1, <1>5, <1>6, <1>7, <1>8, TaskStep

LEMMA PollKeeps == ASSUME MediaInv, NEW j \in DOMAIN mediaJobs, PollJob(j) PROVE MediaInv'
<1>1. UNCHANGED <<maker, mediaCalls, installedModels, media, mediaJobs, pretending>> BY DEF PollJob, Same
<1>2. j \in watching /\ j \in DOMAIN mediaTracked /\ mediaTracked[j] \in Open BY DEF PollJob, MediaInv, Watched
<1>3. \E s \in Open \cup MediaSettled : /\ Track(j, s) /\ (s = "Completed" => mediaJobs[j].playlist)
                                        /\ watching' = watching \ {j} \/ (watching' = watching /\ s \in Open)
  <2>1. CASE Ended(mediaJobs[j].status) /\ Track(j, mediaJobs[j].status) /\ watching' = watching \ {j}
    BY <2>1 DEF Ended, MediaInv, Made
  <2>2. CASE mediaTracked[j] = "Pending" /\ Track(j, MediaProgressed(mediaTracked[j])) /\ UNCHANGED watching
    <3>1. Track(j, "InProgress") /\ "InProgress" \in Open BY <2>2 DEF MediaProgressed, Open
    <3> QED BY <2>2, <3>1
  <2> QED BY <2>1, <2>2 DEF PollJob
<1>4. PICK s \in Open \cup MediaSettled : /\ Track(j, s) /\ (s = "Completed" => mediaJobs[j].playlist)
                                          /\ watching' = watching \ {j} \/ (watching' = watching /\ s \in Open)
  BY <1>3
<1>5. /\ DOMAIN mediaTracked' = DOMAIN mediaTracked /\ mediaTracked'[j] = s
      /\ \A o \in DOMAIN mediaTracked : o # j => mediaTracked'[o] = mediaTracked[o]
  BY <1>2, <1>4, TrackMap
<1>6. MediaShape' BY <1>1, <1>5 DEF MediaInv, MediaShape
<1>7. Made' BY <1>1, <1>4, <1>5 DEF MediaInv, Made
<1>8. Watched' BY <1>1, <1>4, <1>5 DEF MediaInv, Watched
<1> QED BY <1>1, <1>5, <1>6, <1>7, <1>8, TaskStep

LEMMA PretendKeeps == ASSUME MediaInv, NEW id \in pretending, Pretend(id) PROVE MediaInv'
<1>1. UNCHANGED <<maker, mediaCalls, installedModels, media, mediaJobs, watching>> BY DEF Pretend, Same
<1>2. id \in DOMAIN mediaTracked /\ pretending' \subseteq DOMAIN mediaTracked BY DEF Pretend, MediaInv, MediaShape
<1>3. CASE UNCHANGED mediaTracked
  <2>1. MediaShape' BY <1>1, <1>2, <1>3 DEF MediaInv, MediaShape
  <2>2. Made' /\ Watched' BY <1>1, <1>3 DEF MediaInv, Made, Watched
  <2> QED BY <1>1, <1>3, <2>1, <2>2, TaskStep
<1>4. CASE mediaTracked[id] # MediaProgressed(mediaTracked[id]) /\ Track(id, MediaProgressed(mediaTracked[id]))
  <2>1. Track(id, "InProgress") /\ "InProgress" \in Open BY <1>4 DEF MediaProgressed, Open
  <2>2. /\ DOMAIN mediaTracked' = DOMAIN mediaTracked /\ mediaTracked'[id] = "InProgress"
        /\ \A o \in DOMAIN mediaTracked : o # id => mediaTracked'[o] = mediaTracked[o]
    BY <1>2, <2>1, TrackMap
  <2>3. MediaShape' BY <1>1, <1>2, <2>1, <2>2 DEF MediaInv, MediaShape
  <2>4. Made' BY <1>1, <2>2 DEF MediaInv, Made
  <2>5. Watched' BY <1>1, <2>1, <2>2 DEF MediaInv, Watched
  <2> QED BY <1>1, <2>1, <2>2, <2>3, <2>4, <2>5, TaskStep
<1> QED BY <1>3, <1>4 DEF Pretend

LEMMA RemoveKeeps == ASSUME MediaInv, RemoveSource \/ UNCHANGED mediaVars PROVE MediaInv'
<1>1. UNCHANGED <<media, maker, mediaJobs, mediaTracked, watching, pretending, installedModels, mediaCalls>>
  BY DEF RemoveSource, Trouble, mediaVars
<1>2. MediaShape' BY <1>1 DEF MediaInv, MediaShape
<1>3. Made' /\ Watched' BY <1>1 DEF MediaInv, Made, Watched
<1> QED BY <1>1, <1>2, <1>3, TaskStep

LEMMA MediaStepKeeps == MediaInv /\ [MediaNext]_mediaVars => MediaInv'
BY RemoveKeeps, BeginMediaKeeps, ServiceInitKeeps, ResolveKeeps, TranscodeKeeps, AskKeeps, FindSourceKeeps, AnalyzeKeeps, StoreKeeps,
   StallKeeps, JobsKeep, PollKeeps, PretendKeeps DEF MediaNext, Proceed

\* The invariant of the media jobs and of tagging holds in every state.
THEOREM MediaInductive == MediaSpec => []MediaInv
BY MediaStart, MediaStepKeeps, PTL DEF MediaSpec

-----------------------------------------------------------------------------
(* The tags of a tagging, while they are stored and when it is over. *)
TagRecord == [kind : {"video", "image", "other"}, max : Nat, reported : Seq(AllTags), saved : SUBSET AllTags, failed : SUBSET AllTags]
Recorded(id) ==
    /\ tagsOf[id] \in TagRecord /\ Fit(tagsOf[id].reported, tagsOf[id].kind, tagsOf[id].max)
    /\ mediaTracked[id] = "Completed" => Within(tagsOf[id].reported) = tagsOf[id].saved \cup tagsOf[id].failed
\* A command that stores tags: each reported one is stored, was refused or is still to be stored.
Saves(r) == r.pc = "save" => /\ r.id \in DOMAIN tagsOf
                             /\ Within(tagsOf[r.id].reported) = tagsOf[r.id].saved \cup tagsOf[r.id].failed \cup Within(r.found)
TagInv == /\ DOMAIN tagsOf \subseteq DOMAIN mediaTracked /\ DOMAIN tagsOf \cap DOMAIN mediaJobs = {}
          /\ (\A id \in DOMAIN tagsOf : Recorded(id)) /\ \A c \in MediaClient : Saves(maker[c])

LEMMA TagStart == MediaInit => TagInv
<1> SUFFICES ASSUME MediaInit PROVE TagInv OBVIOUS
<1>1. DOMAIN tagsOf = {} BY EmptyMap DEF MediaInit
<1>2. \A c \in MediaClient : maker[c].pc = "idle" BY UnusedFits DEF MediaInit
<1> QED BY <1>1, <1>2 DEF TagInv, Saves

\* A step that stores no tag.
LEMMA TagsStay ==
    ASSUME TagInv, UNCHANGED tagsOf, DOMAIN tagsOf \cap DOMAIN mediaJobs' = {}, DOMAIN mediaTracked \subseteq DOMAIN mediaTracked',
           \A id \in DOMAIN tagsOf : mediaTracked'[id] = "Completed" =>
               mediaTracked[id] = "Completed" \/ Within(tagsOf[id].reported) = tagsOf[id].saved \cup tagsOf[id].failed,
           \A c \in MediaClient : maker'[c].pc = "save" => maker'[c] = maker[c]
    PROVE  TagInv'
<1>1. (DOMAIN tagsOf \subseteq DOMAIN mediaTracked)' /\ (DOMAIN tagsOf \cap DOMAIN mediaJobs = {})' BY DEF TagInv
<1>2. ASSUME NEW id \in DOMAIN tagsOf PROVE Recorded(id)' BY DEF TagInv, Recorded
<1>3. ASSUME NEW c \in MediaClient PROVE Saves(maker[c])' BY DEF TagInv, Saves
<1> QED BY <1>1, <1>2, <1>3 DEF TagInv

LEMMA GoesElsewhere ==
    ASSUME MediaInv, NEW c \in MediaClient, NEW r, Go(c, r), r.pc # "save"
    PROVE  \A d \in MediaClient : maker'[d].pc = "save" => maker'[d] = maker[d]
BY DEF Go, MediaInv, MediaShape

LEMMA WalksElsewhere ==
    ASSUME MediaInv, NEW c \in MediaClient, NEW p, GoTo(c, p), p # "save"
    PROVE  \A d \in MediaClient : maker'[d].pc = "save" => maker'[d] = maker[d]
<1>1. maker[c] \in MediaCall BY DEF MediaInv, MediaShape
<1>2. PICK r : r = [maker[c] EXCEPT !.pc = p] OBVIOUS
<1>3. r.pc = p BY <1>1, <1>2 DEF MediaCall
<1> QED BY <1>2, <1>3, GoesElsewhere DEF GoTo

LEMMA EndsElsewhere ==
    ASSUME MediaInv, NEW c \in MediaClient, End(c)
    PROVE  \A d \in MediaClient : maker'[d].pc = "save" => maker'[d] = maker[d]
BY UnusedFits, GoesElsewhere DEF End

\* A command that tags and fails.
LEMMA FailsElsewhere ==
    ASSUME MediaInv, TagInv, NEW c \in MediaClient, maker[c].cmd = "tag", MarkFailed(c), UNCHANGED <<tagsOf, mediaJobs>>
    PROVE  TagInv'
<1>1. Track(maker[c].id, "Failed") /\ End(c) BY DEF MarkFailed, Id
<1>2. DOMAIN mediaTracked \subseteq DOMAIN mediaTracked' /\ \A id \in DOMAIN mediaTracked : mediaTracked'[id] \in {"Failed", mediaTracked[id]}
  BY <1>1, TrackMap
<1> QED BY <1>1, <1>2, EndsElsewhere, TagsStay DEF TagInv

LEMMA BeginTags == ASSUME MediaInv, TagInv, NEW c \in MediaClient, BeginMedia(c) PROVE TagInv'
<1>1. UNCHANGED <<tagsOf, mediaJobs>> BY DEF BeginMedia
<1>2. UNCHANGED mediaTracked \/ Track(mediaCalls + 1, "Pending") BY DEF BeginMedia
<1>3. DOMAIN mediaTracked \subseteq DOMAIN mediaTracked' /\ \A id \in DOMAIN mediaTracked : mediaTracked'[id] \in {"Pending", mediaTracked[id]}
  BY <1>2, TrackMap
<1>4. PICK q \in MediaRequest[c] :
         Go(c, IF q.cmd = "auto_transcode" /\ FileKind[q.file] # "video" THEN Unused ELSE
                  [Unused EXCEPT !.cmd = q.cmd, !.id = mediaCalls + 1, !.file = q.file, !.format = q.format, !.max = q.max,
                                 !.pc = IF q.cmd = "tag" THEN "ask" ELSE "service"])
  BY DEF BeginMedia
<1>5. PICK r : r = IF q.cmd = "auto_transcode" /\ FileKind[q.file] # "video" THEN Unused ELSE
                      [Unused EXCEPT !.cmd = q.cmd, !.id = mediaCalls + 1, !.file = q.file, !.format = q.format, !.max = q.max,
                                     !.pc = IF q.cmd = "tag" THEN "ask" ELSE "service"]
  OBVIOUS
<1>6. r.pc # "save" BY <1>5 DEF Unused
<1>7. Go(c, r) BY <1>4, <1>5
<1> QED BY <1>1, <1>3, <1>6, <1>7, GoesElsewhere, TagsStay DEF TagInv

LEMMA ServesTags ==
    ASSUME MediaInv, TagInv, NEW c \in MediaClient, get_or_init_service(c) \/ Resolve(c) \/ transcode(c) PROVE TagInv'
<1>1. UNCHANGED tagsOf BY DEF get_or_init_service, Resolve, transcode
<1>2. /\ maker[c] \in MediaCall /\ maker[c].cmd \in {"transcode", "auto_transcode"} /\ maker[c].id \notin DOMAIN mediaTracked
  BY DEF get_or_init_service, Resolve, transcode, At, MediaInv, MediaShape, Serves, TagPcs, MediaCall, MediaCommands
<1>3. \A d \in MediaClient : maker'[d].pc = "save" => maker'[d] = maker[d]
  <2>1. CASE End(c) BY <2>1, EndsElsewhere
  <2>2. CASE \E p \in {"install", "service", "start"} : GoTo(c, p) BY <2>2, WalksElsewhere
  <2>3. CASE Go(c, [maker[c] EXCEPT !.svc = media, !.pc = "resolve"])
    <3>1. PICK r : r = [maker[c] EXCEPT !.svc = media, !.pc = "resolve"] OBVIOUS
    <3>2. r.pc = "resolve" BY <1>2, <3>1 DEF MediaCall
    <3> QED BY <2>3, <3>1, <3>2, GoesElsewhere
  <2> QED BY <2>1, <2>2, <2>3 DEF get_or_init_service, Resolve, transcode
<1>4. CASE get_or_init_service(c) \/ Resolve(c)
  <2>1. UNCHANGED <<mediaJobs, mediaTracked>> BY <1>4 DEF get_or_init_service, Resolve
  <2> QED BY <1>1, <1>3, <2>1, TagsStay DEF TagInv
<1>5. CASE transcode(c)
  <2>1. DOMAIN mediaJobs' = DOMAIN mediaJobs \cup {maker[c].id} BY <1>5 DEF transcode, Id, Entered
  <2>2. UNCHANGED mediaTracked \/ Track(maker[c].id, "Pending") BY <1>5 DEF transcode, Id
  <2>3. DOMAIN mediaTracked \subseteq DOMAIN mediaTracked' /\ \A id \in DOMAIN mediaTracked : mediaTracked'[id] = mediaTracked[id]
    BY <1>2, <2>2, TrackMap
  <2> QED BY <1>1, <1>2, <1>3, <2>1, <2>3, TagsStay DEF TagInv
<1> QED BY <1>4, <1>5

LEMMA AsksTags ==
    ASSUME MediaInv, TagInv, NEW c \in MediaClient, AskForTags(c) \/ FindSource(c) \/ Analyze(c) \/ BodyStalls(c) PROVE TagInv'
<1>1. UNCHANGED <<tagsOf, mediaJobs>> BY DEF AskForTags, FindSource, Analyze, BodyStalls
<1>2. maker[c] \in MediaCall /\ maker[c].cmd = "tag"
  BY DEF AskForTags, FindSource, Analyze, BodyStalls, At, MediaInv, MediaShape, Serves, TagPcs
<1>3. CASE MarkFailed(c) BY <1>1, <1>2, <1>3, FailsElsewhere
<1>4. CASE UNCHANGED mediaTracked /\ (End(c) \/ GoTo(c, "analyze") \/ GoTo(c, "hung"))
  <2>1. \A d \in MediaClient : maker'[d].pc = "save" => maker'[d] = maker[d] BY <1>4, EndsElsewhere, WalksElsewhere
  <2> QED BY <1>1, <1>4, <2>1, TagsStay DEF TagInv
<1>5. ASSUME NEW r, r.pc # "save", Go(c, r), UNCHANGED mediaTracked PROVE TagInv'
  <2>1. \A d \in MediaClient : maker'[d].pc = "save" => maker'[d] = maker[d] BY <1>5, GoesElsewhere
  <2> QED BY <1>1, <1>5, <2>1, TagsStay DEF TagInv
<1>6. CASE AskForTags(c)
  <2>1. PICK m : m = find_best_vision_model(installedModels) OBVIOUS
  <2>2. MarkFailed(c) \/ (Go(c, [maker[c] EXCEPT !.model = m, !.pc = "source"]) /\ UNCHANGED mediaTracked) BY <1>6, <2>1 DEF AskForTags
  <2>3. PICK r : r = [maker[c] EXCEPT !.model = m, !.pc = "source"] OBVIOUS
  <2>4. r.pc = "source" BY <1>2, <2>3 DEF MediaCall
  <2> QED BY <1>3, <1>5, <2>2, <2>3, <2>4
<1>7. CASE FindSource(c) BY <1>4, <1>7 DEF FindSource
<1>8. CASE Analyze(c)
  <2>1. CASE ~MarkFailed(c)
    <3>1. PICK a \in Analyses : Go(c, [maker[c] EXCEPT !.found = KeptTags(a, FileKind[maker[c].file], maker[c].max), !.pc = "store"])
                                /\ UNCHANGED mediaTracked
      BY <1>8, <2>1 DEF Analyze
    <3>2. PICK kept : kept = KeptTags(a, FileKind[maker[c].file], maker[c].max) OBVIOUS
    <3>3. PICK r : r = [maker[c] EXCEPT !.found = kept, !.pc = "store"] OBVIOUS
    <3>4. r.pc = "store" BY <1>2, <3>3 DEF MediaCall
    <3> QED BY <1>5, <3>1, <3>2, <3>3, <3>4
  <2> QED BY <1>3, <2>1
<1>9. CASE BodyStalls(c) BY <1>4, <1>9 DEF BodyStalls
<1> QED BY <1>6, <1>7, <1>8, <1>9

\* What the store holds of one operation is changed, by the command that has it.
LEMMA TagsChange ==
    ASSUME MediaInv, TagInv, NEW c \in MediaClient, maker[c].cmd = "tag", NEW r, Go(c, r), r.pc = "save", r.id = maker[c].id,
           NEW t \in TagRecord, tagsOf' = Entered(tagsOf, maker[c].id, t), Fit(t.reported, t.kind, t.max),
           Within(t.reported) = t.saved \cup t.failed \cup Within(r.found), UNCHANGED <<mediaTracked, mediaJobs>>
    PROVE  TagInv'
<1>1. PICK k : k = maker[c].id OBVIOUS
<1>2. maker[c] \in MediaCall /\ k \in DOMAIN mediaTracked /\ mediaTracked[k] \in Open /\ k \notin DOMAIN mediaJobs
  BY <1>1 DEF MediaInv, MediaShape, Serves
<1>3. DOMAIN tagsOf' = DOMAIN tagsOf \cup {k} /\ tagsOf'[k] = t /\ \A id \in DOMAIN tagsOf : id # k => tagsOf'[id] = tagsOf[id]
  <2>1. tagsOf' = Entered(tagsOf, k, t) BY <1>1
  <2>2. PICK m : m = tagsOf OBVIOUS
  <2>3. DOMAIN Entered(m, k, t) = DOMAIN m \cup {k} /\ Entered(m, k, t)[k] = t
        /\ \A id \in DOMAIN m : id # k => Entered(m, k, t)[id] = m[id]
    BY DEF Entered
  <2> QED BY <2>1, <2>2, <2>3
<1>4. maker'[c] = r /\ \A d \in MediaClient : d # c => maker'[d] = maker[d] BY DEF Go, MediaInv, MediaShape
<1>5. ASSUME NEW id \in DOMAIN tagsOf' PROVE Recorded(id)'
  <2>1. CASE id = k
    <3>1. mediaTracked[k] # "Completed" BY <1>2 DEF Open
    <3> QED BY <1>3, <2>1, <3>1 DEF Recorded
  <2>2. CASE id # k
    <3>1. id \in DOMAIN tagsOf /\ tagsOf'[id] = tagsOf[id] BY <1>3, <1>5, <2>2
    <3> QED BY <3>1 DEF TagInv, Recorded
  <2> QED BY <2>1, <2>2
<1>6. ASSUME NEW d \in MediaClient, maker'[d].pc = "save"
      PROVE  /\ maker'[d].id \in DOMAIN tagsOf'
             /\ Within(tagsOf'[maker'[d].id].reported) = tagsOf'[maker'[d].id].saved \cup tagsOf'[maker'[d].id].failed \cup Within(maker'[d].found)
  <2>1. CASE d = c BY <1>1, <1>3, <1>4, <2>1
  <2>2. CASE d # c
    <3>1. maker'[d] = maker[d] /\ Saves(maker[d]) BY <1>4, <2>2 DEF TagInv
    <3>2. maker[d].id # k BY <1>1, <2>2 DEF MediaInv, OwnIds
    <3> QED BY <1>3, <1>6, <3>1, <3>2 DEF Saves
  <2> QED BY <2>1, <2>2
<1>7. \A d \in MediaClient : Saves(maker[d])' BY <1>6 DEF Saves
<1>8. (DOMAIN tagsOf \subseteq DOMAIN mediaTracked)' /\ (DOMAIN tagsOf \cap DOMAIN mediaJobs = {})' BY <1>2, <1>3 DEF TagInv
<1> QED BY <1>5, <1>7, <1>8 DEF TagInv

LEMMA OpensTags == ASSUME MediaInv, TagInv, NEW c \in MediaClient, OpenStore(c) PROVE TagInv'
<1>1. UNCHANGED <<mediaTracked, mediaJobs>> BY DEF OpenStore
<1>2. /\ maker[c] \in MediaCall /\ maker[c].cmd = "tag" /\ maker[c].pc = "store" /\ maker[c].file \in DOMAIN FileKind
      /\ Fit(maker[c].found, FileKind[maker[c].file], maker[c].max)
  BY DEF OpenStore, At, MediaInv, MediaShape, Serves, TagPcs, Finds
<1>3. CASE End(c) /\ UNCHANGED tagsOf BY <1>1, <1>3, EndsElsewhere, TagsStay DEF TagInv
<1>4. CASE GoTo(c, "save") /\ tagsOf' = Entered(tagsOf, Id(c), [kind |-> FileKind[maker[c].file], max |-> maker[c].max,
                                                                 reported |-> maker[c].found, saved |-> {}, failed |-> {}])
  <2>1. PICK kind : kind = FileKind[maker[c].file] OBVIOUS
  <2>2. PICK tags : tags = maker[c].found OBVIOUS
  <2>3. PICK max : max = maker[c].max OBVIOUS
  <2>4. PICK t : t = [kind |-> kind, max |-> max, reported |-> tags, saved |-> {}, failed |-> {}] OBVIOUS
  <2>5. kind \in {"video", "image", "other"} /\ tags \in Seq(AllTags) /\ max \in Nat
    BY <1>2, <2>1, <2>2, <2>3, MediaRequestAssumption DEF MediaCall
  <2>6. t \in TagRecord BY <2>4, <2>5 DEF TagRecord
  <2>7. t.kind = kind /\ t.max = max /\ t.reported = tags /\ t.saved = {} /\ t.failed = {} BY <2>4
  <2>8. tagsOf' = Entered(tagsOf, maker[c].id, t) BY <1>4, <2>1, <2>2, <2>3, <2>4 DEF Id
  <2>9. PICK r : r = [maker[c] EXCEPT !.pc = "save"] OBVIOUS
  <2>10. Go(c, r) /\ r.pc = "save" /\ r.id = maker[c].id /\ r.found = tags BY <1>2, <1>4, <2>2, <2>9 DEF GoTo, MediaCall
  <2>11. Fit(t.reported, t.kind, t.max) BY <1>2, <2>1, <2>2, <2>3, <2>7
  <2>12. Within(t.reported) = t.saved \cup t.failed \cup Within(r.found) BY <2>7, <2>10
  <2> QED BY <1>1, <1>2, <2>6, <2>8, <2>10, <2>11, <2>12, TagsChange
<1> QED BY <1>3, <1>4 DEF OpenStore

LEMMA FirstAndRest ==
    ASSUME NEW S, NEW s \in Seq(S), s # << >>
    PROVE  Head(s) \in S /\ Within(s) = {Head(s)} \cup Within(Tail(s))
<1>1. Len(s) \in Nat \ {0} /\ Head(s) = s[1] /\ Head(s) \in S OBVIOUS
<1>2. Len(Tail(s)) = Len(s) - 1 /\ \A i \in 1..Len(Tail(s)) : Tail(s)[i] = s[i + 1] BY <1>1
<1>3. ASSUME NEW i \in 1..Len(s) PROVE s[i] \in {Head(s)} \cup Within(Tail(s))
  <2>1. CASE i = 1 BY <1>1, <2>1
  <2>2. CASE i # 1
    <3>1. i - 1 \in 1..Len(Tail(s)) /\ Tail(s)[i - 1] = s[i] BY <1>1, <1>2, <2>2
    <3> QED BY <3>1 DEF Within
  <2> QED BY <2>1, <2>2
<1>4. ASSUME NEW i \in 1..Len(Tail(s)) PROVE Tail(s)[i] \in Within(s)
  <2>1. i + 1 \in 1..Len(s) /\ Tail(s)[i] = s[i + 1] BY <1>1, <1>2
  <2> QED BY <2>1 DEF Within
<1>5. Head(s) \in Within(s) BY <1>1 DEF Within
<1> QED BY <1>1, <1>3, <1>4, <1>5 DEF Within

LEMMA SavesTags == ASSUME MediaInv, TagInv, NEW c \in MediaClient, SaveTag(c) PROVE TagInv'
<1>1. UNCHANGED <<mediaTracked, mediaJobs>> BY DEF SaveTag
<1>2. maker[c] \in MediaCall /\ maker[c].cmd = "tag" /\ maker[c].pc = "save" /\ maker[c].found # << >>
  BY DEF SaveTag, At, MediaInv, MediaShape, Serves, TagPcs
<1>3. PICK k : k = maker[c].id OBVIOUS
<1>4. PICK found : found = maker[c].found OBVIOUS
<1>5. PICK o : o = tagsOf[k] OBVIOUS
<1>6. PICK first : first = Head(found) OBVIOUS
<1>7. found \in Seq(AllTags) /\ found # << >> BY <1>2, <1>4 DEF MediaCall
<1>8. first \in AllTags /\ Within(found) = {first} \cup Within(Tail(found)) BY <1>6, <1>7, FirstAndRest
<1>9. /\ k \in DOMAIN tagsOf /\ o \in TagRecord /\ Fit(o.reported, o.kind, o.max)
      /\ Within(o.reported) = o.saved \cup o.failed \cup Within(found)
  <2>1. Saves(maker[c]) BY DEF TagInv
  <2>2. k \in DOMAIN tagsOf /\ Within(o.reported) = o.saved \cup o.failed \cup Within(found)
    BY <1>2, <1>3, <1>4, <1>5, <2>1 DEF Saves
  <2>3. Recorded(k) BY <2>2 DEF TagInv
  <2> QED BY <1>5, <2>2, <2>3 DEF Recorded
<1>10. \/ tagsOf' = [tagsOf EXCEPT ![k].saved = @ \cup {first}]
       \/ tagsOf' = [tagsOf EXCEPT ![k].failed = @ \cup {first}]
  BY <1>3, <1>4, <1>6 DEF SaveTag, Id
<1>11. PICK t \in TagRecord : /\ tagsOf' = Entered(tagsOf, k, t)
                              /\ t.reported = o.reported /\ t.kind = o.kind /\ t.max = o.max
                              /\ t.saved \cup t.failed = o.saved \cup o.failed \cup {first}
  <2>1. CASE tagsOf' = [tagsOf EXCEPT ![k].saved = @ \cup {first}]
    <3>1. PICK t : t = [o EXCEPT !.saved = o.saved \cup {first}] OBVIOUS
    <3>2. t \in TagRecord BY <1>8, <1>9, <3>1 DEF TagRecord
    <3>3. t.reported = o.reported /\ t.kind = o.kind /\ t.max = o.max /\ t.saved = o.saved \cup {first} /\ t.failed = o.failed
      BY <1>9, <3>1 DEF TagRecord
    <3>4. tagsOf' = [tagsOf EXCEPT ![k] = t] BY <1>5, <1>9, <2>1, <3>1
    <3>5. tagsOf' = Entered(tagsOf, k, t) BY <1>9, <3>4 DEF Entered
    <3> QED BY <3>2, <3>3, <3>5
  <2>2. CASE tagsOf' = [tagsOf EXCEPT ![k].failed = @ \cup {first}]
    <3>1. PICK t : t = [o EXCEPT !.failed = o.failed \cup {first}] OBVIOUS
    <3>2. t \in TagRecord BY <1>8, <1>9, <3>1 DEF TagRecord
    <3>3. t.reported = o.reported /\ t.kind = o.kind /\ t.max = o.max /\ t.failed = o.failed \cup {first} /\ t.saved = o.saved
      BY <1>9, <3>1 DEF TagRecord
    <3>4. tagsOf' = [tagsOf EXCEPT ![k] = t] BY <1>5, <1>9, <2>2, <3>1
    <3>5. tagsOf' = Entered(tagsOf, k, t) BY <1>9, <3>4 DEF Entered
    <3> QED BY <3>2, <3>3, <3>5
  <2> QED BY <1>10, <2>1, <2>2
<1>12. PICK r : r = [maker[c] EXCEPT !.found = Tail(found)] OBVIOUS
<1>13. Go(c, r) /\ r.pc = "save" /\ r.id = maker[c].id /\ r.found = Tail(found)
  <2>1. Go(c, [maker[c] EXCEPT !.found = Tail(@)]) BY DEF SaveTag
  <2>2. Go(c, r) BY <1>4, <1>12, <2>1
  <2> QED BY <1>2, <1>12, <2>2 DEF MediaCall
<1>14. Fit(t.reported, t.kind, t.max) BY <1>9, <1>11
<1>15. Within(t.reported) = t.saved \cup t.failed \cup Within(r.found) BY <1>8, <1>9, <1>11, <1>13
<1> QED BY <1>1, <1>2, <1>3, <1>11, <1>13, <1>14, <1>15, TagsChange

LEMMA CompletesTags == ASSUME MediaInv, TagInv, NEW c \in MediaClient, CompleteTagging(c) PROVE TagInv'
<1>1. UNCHANGED <<tagsOf, mediaJobs>> /\ Track(maker[c].id, "Completed") /\ End(c) /\ maker[c].pc = "save" /\ maker[c].found = << >>
  BY DEF CompleteTagging, At, Id
<1>2. PICK k : k = maker[c].id OBVIOUS
<1>3. DOMAIN mediaTracked \subseteq DOMAIN mediaTracked' /\ \A id \in DOMAIN mediaTracked : id # k => mediaTracked'[id] = mediaTracked[id]
  BY <1>1, <1>2, TrackMap
<1>4. Within(tagsOf[k].reported) = tagsOf[k].saved \cup tagsOf[k].failed
  <2>1. Saves(maker[c]) BY DEF TagInv
  <2>2. Within(<< >>) = {} BY DEF Within
  <2> QED BY <1>1, <1>2, <2>1, <2>2 DEF Saves
<1>5. \A d \in MediaClient : maker'[d].pc = "save" => maker'[d] = maker[d] BY <1>1, EndsElsewhere
<1> QED BY <1>1, <1>3, <1>4, <1>5, TagsStay DEF TagInv

\* The steps beside the commands.
LEMMA OthersTags ==
    ASSUME MediaInv, TagInv,
           \/ \E j \in DOMAIN mediaJobs : JobRuns(j) \/ cancel_transcode(j) \/ PollJob(j)
           \/ \E id \in pretending : Pretend(id)
           \/ RemoveSource \/ UNCHANGED mediaVars
    PROVE  TagInv'
<1>1. UNCHANGED <<tagsOf, maker>> BY DEF JobRuns, cancel_transcode, PollJob, Pretend, RemoveSource, mediaVars
<1>2. ASSUME UNCHANGED mediaTracked, DOMAIN mediaJobs' = DOMAIN mediaJobs PROVE TagInv' BY <1>1, <1>2, TagsStay DEF TagInv
<1>3. ASSUME NEW k, NEW s, Track(k, s), k \in DOMAIN mediaJobs \/ s # "Completed", UNCHANGED mediaJobs PROVE TagInv'
  <2>1. /\ DOMAIN mediaTracked' = DOMAIN mediaTracked \cup {k} /\ mediaTracked'[k] = s
        /\ \A j \in DOMAIN mediaTracked : j # k => mediaTracked'[j] = mediaTracked[j]
    BY <1>3, TrackMap
  <2> QED BY <1>1, <1>3, <2>1, TagsStay DEF TagInv
<1>4. ASSUME NEW j \in DOMAIN mediaJobs, JobRuns(j) \/ cancel_transcode(j) PROVE TagInv'
  <2>1. UNCHANGED mediaTracked BY <1>4 DEF JobRuns, cancel_transcode
  <2>2. DOMAIN mediaJobs' = DOMAIN mediaJobs
    BY <1>4 DEF JobRuns, cancel_transcode, Process, transcode_hls_static, Over
  <2> QED BY <1>2, <2>1, <2>2
<1>5. ASSUME NEW j \in DOMAIN mediaJobs, PollJob(j) PROVE TagInv'
  <2>1. UNCHANGED mediaJobs /\ \E s : Track(j, s) BY <1>5 DEF PollJob
  <2> QED BY <1>3, <2>1
<1>6. ASSUME NEW id \in pretending, Pretend(id) PROVE TagInv'
  <2>1. UNCHANGED mediaJobs BY <1>6 DEF Pretend
  <2>2. CASE UNCHANGED mediaTracked BY <1>2, <2>1, <2>2
  <2>3. CASE mediaTracked[id] # MediaProgressed(mediaTracked[id]) /\ Track(id, MediaProgressed(mediaTracked[id]))
    <3>1. MediaProgressed(mediaTracked[id]) = "InProgress" BY <2>3 DEF MediaProgressed
    <3> QED BY <1>3, <2>1, <2>3, <3>1
  <2> QED BY <1>6, <2>2, <2>3 DEF Pretend
<1>7. CASE RemoveSource \/ UNCHANGED mediaVars
  <2>1. UNCHANGED <<mediaTracked, mediaJobs>> BY <1>7 DEF RemoveSource, mediaVars
  <2> QED BY <1>2, <2>1
<1> QED BY <1>4, <1>5, <1>6, <1>7

LEMMA TagStepKeeps == MediaInv /\ TagInv /\ [MediaNext]_mediaVars => TagInv'
BY BeginTags, ServesTags, AsksTags, OpensTags, SavesTags, CompletesTags, OthersTags DEF MediaNext, Proceed

\* A tagging in any state has stored, failed to store or has still to store each of its tags.
THEOREM TagInductive == MediaSpec => []TagInv
BY MediaInductive, TagStart, TagStepKeeps, PTL DEF MediaSpec

\* What vfs_transcode_video and vfs_auto_tag_file report as done is there, whatever is
\* cancelled, polled and removed in between and whichever tags cannot be stored.
THEOREM DoneCorrect == MediaSpec => []DoneIsThere
<1>1. MediaInv /\ TagInv => DoneIsThere
  <2> SUFFICES ASSUME MediaInv, TagInv PROVE DoneIsThere OBVIOUS
  <2>1. \A j \in DOMAIN mediaJobs : j \in DOMAIN mediaTracked /\ mediaTracked[j] = "Completed" => mediaJobs[j].playlist BY DEF MediaInv, Made
  <2>2. \A f \in DOMAIN FileKind : \A j \in get_stream_url(f, "hls") : mediaJobs[j].playlist BY DEF MediaInv, Made, get_stream_url
  <2>3. ASSUME NEW id \in DOMAIN mediaTracked, mediaTracked[id] = "Completed", id \in DOMAIN tagsOf PROVE TagsThere(tagsOf[id])
    BY <2>3 DEF TagInv, Recorded, Fit, TagsThere
  <2>4. ASSUME NEW c \in MediaClient, At(c, "store") PROVE is_vision_model(maker[c].model) /\ maker[c].model \in installedModels
    BY <2>4 DEF MediaInv, Sees, At
  <2> QED BY <2>1, <2>2, <2>3, <2>4 DEF DoneIsThere
<1> QED BY <1>1, MediaInductive, TagInductive, PTL

LEMMA OverStep == MediaInv /\ [MediaNext]_mediaVars =>
                      [\A id \in DOMAIN mediaTracked : mediaTracked[id] \in MediaSettled => mediaTracked'[id] = mediaTracked[id]]_mediaVars
<1> SUFFICES ASSUME MediaInv, MediaNext, NEW id \in DOMAIN mediaTracked, mediaTracked[id] \in MediaSettled
             PROVE  mediaTracked'[id] = mediaTracked[id]
  OBVIOUS
<1>1. mediaTracked[id] \notin Open /\ id \in 1..mediaCalls /\ mediaCalls \in Nat BY DEF MediaInv, MediaShape, Open, MediaSettled
<1>2. ASSUME NEW k, NEW x, Track(k, x), k \notin DOMAIN mediaTracked \/ mediaTracked[k] \in Open PROVE mediaTracked'[id] = mediaTracked[id]
  BY <1>1, <1>2, TrackMap
<1>3. ASSUME NEW c \in MediaClient, BeginMedia(c) PROVE mediaTracked'[id] = mediaTracked[id]
  <2>1. mediaCalls + 1 \notin DOMAIN mediaTracked BY <1>1 DEF MediaInv, MediaShape
  <2> QED BY <1>2, <1>3, <2>1 DEF BeginMedia
<1>4. ASSUME NEW c \in MediaClient, Proceed(c) PROVE mediaTracked'[id] = mediaTracked[id]
  <2>1. maker[c].cmd # "none" => maker[c].id \notin DOMAIN mediaTracked \/ mediaTracked[maker[c].id] \in Open
    BY DEF MediaInv, MediaShape, MediaCall, MediaCommands, Serves
  <2>2. maker[c].pc # "idle"
    BY <1>4 DEF Proceed, get_or_init_service, Resolve, transcode, AskForTags, FindSource, Analyze, OpenStore, SaveTag, CompleteTagging, At
  <2>3. maker[c].cmd # "none" BY <2>2 DEF MediaInv, Serves
  <2>4. UNCHANGED mediaTracked \/ \E x : Track(maker[c].id, x)
    BY <1>4 DEF Proceed, get_or_init_service, Resolve, transcode, AskForTags, FindSource, Analyze, OpenStore, SaveTag, CompleteTagging, MarkFailed, Id
  <2> QED BY <1>2, <2>1, <2>3, <2>4
<1>5. ASSUME NEW j \in DOMAIN mediaJobs, JobRuns(j) \/ cancel_transcode(j) PROVE mediaTracked'[id] = mediaTracked[id]
  BY <1>5 DEF JobRuns, cancel_transcode
<1>6. ASSUME NEW j \in DOMAIN mediaJobs, PollJob(j) PROVE mediaTracked'[id] = mediaTracked[id]
  <2>1. mediaTracked[j] \in Open BY <1>6 DEF PollJob, MediaInv, Watched
  <2>2. \E x : Track(j, x) BY <1>6 DEF PollJob
  <2> QED BY <1>2, <2>1, <2>2
<1>7. ASSUME NEW p \in pretending, Pretend(p) PROVE mediaTracked'[id] = mediaTracked[id]
  <2>1. CASE UNCHANGED mediaTracked BY <2>1
  <2>2. CASE mediaTracked[p] # MediaProgressed(mediaTracked[p]) /\ Track(p, MediaProgressed(mediaTracked[p]))
    <3>1. mediaTracked[p] \in Open BY <2>2 DEF MediaProgressed, Open
    <3> QED BY <1>2, <2>2, <3>1
  <2> QED BY <1>7, <2>1, <2>2 DEF Pretend
<1>8. CASE RemoveSource BY <1>8 DEF RemoveSource
<1>9. ASSUME NEW c \in MediaClient, BodyStalls(c) PROVE mediaTracked'[id] = mediaTracked[id]
  BY <1>9 DEF BodyStalls, Same
<1> QED BY <1>3, <1>4, <1>5, <1>6, <1>7, <1>8, <1>9 DEF MediaNext

\* Neither the polling task nor the made-up progress reopens an operation that is settled.
THEOREM OverCorrect == MediaSpec => OverStaysOver
BY MediaInductive, OverStep, PTL DEF MediaSpec, OverStaysOver
=============================================================================
