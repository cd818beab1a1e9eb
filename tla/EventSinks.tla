------------------------------ MODULE EventSinks ------------------------------
(***************************************************************************)
(* MultiSink of diaspor-events: every event goes to the VFS sink, the WebSocket *)
(* sink and the webhook sink at once (join_all), and the first failure in that     *)
(* order is reported when all of them are done.  Several events are emitted at      *)
(* the same time; their VFS sinks make the same directories and may write the same   *)
(* file.  The backing store is a MemoryBackend or a LocalBackend; any call of it may  *)
(* fail.                                                                     *)
(***************************************************************************)
EXTENDS Integers, Sequences, FiniteSets, Maps

CONSTANTS Emitter,       \* callers of MultiSink::emit
          Outbox,        \* emitter -> the events it emits: sequence of [kind, stream, at, body]
          Subscriber, ChannelCapacity,
          FirstVfs,      \* stores to begin with: [kind, nodes], nodes being path -> [dir, data]
          MaxVfsErrors   \* calls of the store that fail for no reason modelled

ASSUME EventAssumption == ChannelCapacity \in Nat \ {0} /\ MaxVfsErrors \in Nat

VARIABLES vfs,        \* the nodes of the backing store
          backend,    \* "memory" or "local"
          vfsErrors,  \* calls of the store that failed so far
          emit,       \* emitter -> [todo, pc of each sink, result]
          sent,       \* payloads broadcast, in order
          cursor,     \* subscriber -> [on, from, next]: where it subscribed and what it reads next
          seenBy,     \* subscriber -> payloads it received
          posted,     \* payloads the webhook's receiver got
          answers,    \* history: sequence of [event, failed], failed being the first sink that failed
          leafOpen    \* history: leaf -> [by, torn]: the event that opened it last, and whether
                      \* another one still had it open to write

storeVars == <<vfs, backend, vfsErrors, leafOpen>>
eventVars == <<storeVars, emit, sent, cursor, seenBy, posted, answers>>

DirOf(e)    == IF e.kind = "window" THEN "windows" ELSE "events"
StreamsDir == <<".streams">>
StreamDir(e) == <<".streams", e.stream>>
KindDir(e)  == <<".streams", e.stream, DirOf(e)>>
Leaf(e)     == Append(KindDir(e), e.at)
SinkResting     == [vfs |-> "idle", ws |-> "idle", hook |-> "idle"]
Event(m)    == Head(emit[m].todo)
Stage(m, s, v) == emit' = [emit EXCEPT ![m].run[s] = v]

\* MultiSink::emit: a future for every sink.
StartEmit(m) ==
    /\ emit[m].todo # << >> /\ emit[m].run = SinkResting
    /\ emit' = [emit EXCEPT ![m].run = [vfs |-> "streams", ws |-> "send", hook |-> "post"]]
    /\ UNCHANGED <<storeVars, sent, cursor, seenBy, posted, answers>>

\* create_dir of the backing store: the parent must be a directory. A directory that is
\* there is AlreadyExists to MemoryBackend, an Io error like any other to LocalBackend.
Parent(p)      == SubSeq(p, 1, Len(p) - 1)
IsDirectory(p) == p = << >> \/ (p \in DOMAIN vfs /\ vfs[p].dir)
create_dir(p)  == IF p \in DOMAIN vfs THEN (IF backend = "local" THEN "error" ELSE "exists") ELSE IF IsDirectory(Parent(p)) THEN "made" ELSE "error"
ensure_dir(p) == create_dir(p) \in {"made", "exists"}
Made(p) == vfs' = IF create_dir(p) = "made" THEN Entered(vfs, p, [dir |-> TRUE, data |-> << >>]) ELSE vfs

VfsFails(m) == vfsErrors < MaxVfsErrors /\ vfsErrors' = vfsErrors + 1 /\ Stage(m, "vfs", "failed")
VfsWorks    == UNCHANGED vfsErrors

\* prepare_path makes one directory after the other; the file is then opened with
\* TRUNC, written and flushed.
Prepare(m, pc, p, next) ==
    /\ emit[m].run.vfs = pc /\ UNCHANGED leafOpen
    /\ \/ VfsWorks /\ Made(p) /\ Stage(m, "vfs", IF ensure_dir(p) THEN next ELSE "failed")
       \/ VfsFails(m) /\ UNCHANGED vfs
Prepared(m) == \/ Prepare(m, "streams", StreamsDir, "stream")
               \/ Prepare(m, "stream", StreamDir(Event(m)), "kind")
               \/ Prepare(m, "kind", KindDir(Event(m)), "open")
OpenLeaf(m) ==
    /\ emit[m].run.vfs = "open"
    /\ LET p == Leaf(Event(m))
       IN  \/ /\ VfsWorks /\ Stage(m, "vfs", "write") /\ vfs' = Entered(vfs, p, [dir |-> FALSE, data |-> << >>])
              /\ leafOpen' = Entered(leafOpen, p, [by |-> Event(m), torn |-> \E n \in Emitter : emit[n].run.vfs = "write" /\ Leaf(Event(n)) = p])
           \/ VfsFails(m) /\ UNCHANGED <<vfs, leafOpen>>
Overwritten(old, new) == new \o SubSeq(old, Len(new) + 1, Len(old))
WriteLeaf(m) ==
    /\ emit[m].run.vfs = "write" /\ UNCHANGED leafOpen
    /\ LET body == Event(m).body
           Put(n) == vfs' = [vfs EXCEPT ![Leaf(Event(m))].data = Overwritten(@, SubSeq(body, 1, n))]
       IN  \/ VfsWorks /\ Put(Len(body)) /\ Stage(m, "vfs", "ok")
           \/ VfsFails(m) /\ \E n \in 0 .. Len(body) : Put(n)
VfsEmit(m) == (Prepared(m) \/ OpenLeaf(m) \/ WriteLeaf(m)) /\ UNCHANGED <<backend, sent, cursor, seenBy, posted, answers>>

\* broadcast::send never waits and never fails here.
WebSocketEmit(m) ==
    /\ emit[m].run.ws = "send" /\ Stage(m, "ws", "ok") /\ sent' = Append(sent, Event(m).body)
    /\ UNCHANGED <<storeVars, cursor, seenBy, posted, answers>>
subscribe(b) ==
    /\ ~cursor[b].on /\ cursor' = [cursor EXCEPT ![b] = [on |-> TRUE, from |-> Len(sent) + 1, next |-> Len(sent) + 1]]
    /\ UNCHANGED <<storeVars, emit, sent, seenBy, posted, answers>>
\* A subscriber that fell behind the channel is told so and goes on with the oldest kept.
Oldest == IF Len(sent) > ChannelCapacity THEN Len(sent) - ChannelCapacity + 1 ELSE 1
recv(b) ==
    /\ cursor[b].on /\ cursor[b].next <= Len(sent)
    /\ IF cursor[b].next < Oldest
       THEN cursor' = [cursor EXCEPT ![b].next = Oldest] /\ seenBy' = [seenBy EXCEPT ![b] = Append(@, [lag |-> Oldest - cursor[b].next, body |-> << >>])]
       ELSE cursor' = [cursor EXCEPT ![b].next = @ + 1] /\ seenBy' = [seenBy EXCEPT ![b] = Append(@, [lag |-> 0, body |-> sent[cursor[b].next]])]
    /\ UNCHANGED <<storeVars, emit, sent, posted, answers>>

\* The POST arrives and is accepted, arrives and is refused or answered too late, or
\* does not arrive.
WebhookEmit(m) ==
    /\ emit[m].run.hook = "post" /\ \E ok, arrived \in BOOLEAN :
          /\ ok => arrived
          /\ Stage(m, "hook", IF ok THEN "ok" ELSE "failed")
          /\ posted' = IF arrived THEN posted \cup {Event(m).body} ELSE posted
    /\ UNCHANGED <<storeVars, sent, cursor, seenBy, answers>>

Over(x) == x \in {"ok", "failed"}
\* Mutant of AllDone: the first failure ends the emit.
AllDoneOrFailed(run) == (\A s \in DOMAIN run : Over(run[s])) \/ \E s \in DOMAIN run : run[s] = "failed"
AllDone(run) == \A s \in DOMAIN run : Over(run[s])
FinishEmit(m) ==
    /\ emit[m].run # SinkResting /\ AllDone(emit[m].run)
    /\ LET run == emit[m].run
       IN  answers' = Append(answers, [event |-> Event(m),
                                       failed |-> CASE run.vfs = "failed" -> "vfs" [] run.hook = "failed" -> "hook" [] OTHER -> "none"])
    /\ emit' = [emit EXCEPT ![m] = [todo |-> Tail(@.todo), run |-> SinkResting]]
    /\ UNCHANGED <<storeVars, sent, cursor, seenBy, posted>>

EventInit == /\ \E first \in FirstVfs : vfs = first.nodes /\ backend = first.kind
             /\ vfsErrors = 0 /\ leafOpen = << >> /\ emit = [m \in Emitter |-> [todo |-> Outbox[m], run |-> SinkResting]] /\ sent = << >>
             /\ cursor = [b \in Subscriber |-> [on |-> FALSE, from |-> 0, next |-> 0]] /\ seenBy = [b \in Subscriber |-> << >>]
             /\ posted = {} /\ answers = << >>
EventNext == \/ \E m \in Emitter : StartEmit(m) \/ VfsEmit(m) \/ WebSocketEmit(m) \/ WebhookEmit(m) \/ FinishEmit(m)
             \/ \E b \in Subscriber : subscribe(b) \/ recv(b)

-----------------------------------------------------------------------------
(* Properties *)
NewestEvent(e) == Leaf(e) \in DOMAIN leafOpen /\ leafOpen[Leaf(e)].by = e /\ ~leafOpen[Leaf(e)].torn

\* Whatever the other sinks did and whichever call of the store failed for another event, an
\* event whose emit did not answer with the store's own error is in the store, with exactly its
\* payload until another event of its window opens the file (two that have it open at the same
\* time mix their payloads); every event was broadcast before it was answered, and an Ok says
\* that the webhook's receiver has it.
EventsKept ==
    \A i \in DOMAIN answers : LET e == answers[i].event IN
        /\ answers[i].failed # "vfs" => Leaf(e) \in DOMAIN vfs /\ (NewestEvent(e) => vfs[Leaf(e)].data = e.body)
        /\ answers[i].failed = "none" => e.body \in posted
        /\ \E j \in DOMAIN sent : sent[j] = e.body

\* A subscriber gets what was broadcast since it subscribed, in that order, each once, and is
\* told of exactly as many as it missed.
SubscribersMissNothingUntold ==
    \A b \in Subscriber : cursor[b].on =>
        LET n == Len(seenBy[b])
            Step[i \in 0 .. n] == IF i = 0 THEN cursor[b].from
                                  ELSE Step[i - 1] + (IF seenBy[b][i].lag > 0 THEN seenBy[b][i].lag ELSE 1)
        IN  /\ Step[n] = cursor[b].next
            /\ \A i \in 1 .. n : seenBy[b][i].lag = 0 => seenBy[b][i].body = sent[Step[i - 1]]

\* Events are stored, and subscribers know what they missed.
EventsSafe == EventsKept /\ SubscribersMissNothingUntold
=============================================================================
