------------------------------ MODULE ModelHub ------------------------------
(***************************************************************************)
(* crates/diaspor-infer/src/hub.rs: ModelHub::resolve for one catalog entry. *)
(* Calls share no lock: tasks of one process and other processes meet in     *)
(* the cache directory, where all of them use the same `.partial' name.      *)
(* A task that has opened the partial file keeps writing to that file (an    *)
(* inode) whatever happens to its name, so names and files are kept apart.   *)
(*                                                                         *)
(* A model is Parts chunks; the file content is the sequence of the chunk    *)
(* numbers, and its sha256 matches exactly when it is 1, 2, ..., Parts.      *)
(***************************************************************************)
EXTENDS Integers, Sequences, FiniteSets

CONSTANTS Task,       \* calls of resolve running at the same time
          Parts,      \* chunks of the model
          Inode,      \* files of the cache directory
          Corrupt,    \* may the server send other bytes?
          MaxCrash,   \* bound on crashes
          None

ASSUME PartsAssumption == Parts \in Nat \ {0} /\ MaxCrash \in Nat
ASSUME InodeAssumption == Inode \subseteq Nat /\ None \notin Inode
ASSUME CorruptAssumption == Corrupt \in BOOLEAN

Good == [i \in 1 .. Parts |-> i]
Hole == 0                 \* what a write past the end leaves behind
Bad  == Parts + 1         \* a chunk that is not the model's
Content == Seq(0 .. Parts + 1)

VARIABLES entry,    \* the catalog entry: [nonfree, pinned]
          config,   \* HubConfig: [allow_nonfree, trust_unpinned, offline]
          file,     \* inode -> content
          target,   \* inode named by the cache path, or None
          partial,  \* inode named by the cache path + ".partial", or None
          task,     \* what each call does next
          crashes

vars == <<entry, config, file, target, partial, task, crashes>>

PC == {"idle", "lookup", "discard", "gate", "create", "receive", "rename",
       "verify", "remove"}
Result == {"Ok", "NonfreeBlocked", "Unpinned", "NetworkBlocked", "Download",
           "Io", "ChecksumMismatch"}
ASSUME AnswerAssumption == None \notin Result

CallState == [pc : PC, inode : Inode \cup {None}, read : 0 .. Parts, sound : BOOLEAN,
              alone : BOOLEAN, res : Result \cup {None}]

\* inode: the open file; read: chunks received; sound: they hash to the pin;
\* alone (history): no other call was running since this one started.
IdleTask == [pc |-> "idle", inode |-> None, read |-> 0, sound |-> TRUE, alone |-> TRUE,
             res |-> None]

-----------------------------------------------------------------------------
\* An earlier process may have left a good or a damaged file in the cache.
Init == /\ entry \in [nonfree : BOOLEAN, pinned : BOOLEAN]
        /\ config \in [allow_nonfree : BOOLEAN, trust_unpinned : BOOLEAN,
                       offline : BOOLEAN]
        /\ file \in [Inode -> {Good, << >>}]
        /\ target \in {None} \cup {i \in Inode : \A j \in Inode : i <= j}
        /\ \A i \in Inode : i # target => file[i] = << >>
        /\ partial = None
        /\ task = [t \in Task |-> IdleTask]
        /\ crashes = 0

At(t, pc) == task[t].pc = pc
Goto(t, pc) == task' = [task EXCEPT ![t].pc = pc]
Return(t, res) == task' = [task EXCEPT ![t] = [IdleTask EXCEPT !.res = res]]

\* The gates that come before any file is looked at.
GateError == IF entry.nonfree /\ ~config.allow_nonfree THEN "NonfreeBlocked"
             ELSE IF ~entry.pinned /\ ~config.trust_unpinned THEN "Unpinned"
             ELSE "Ok"

Started == [IdleTask EXCEPT !.pc = "lookup", !.alone = \A u \in Task : At(u, "idle")]
Joined(t) == IF At(t, "idle") THEN task[t] ELSE [task[t] EXCEPT !.alone = FALSE]

Resolve(t) ==
    /\ At(t, "idle")
    /\ IF GateError = "Ok"
         THEN task' = [u \in Task |-> IF u = t THEN Started ELSE Joined(u)]
         ELSE Return(t, GateError)
    /\ UNCHANGED <<entry, config, file, target, partial, crashes>>

\* Mutant of Lookup: a cached file is used without being hashed.
LookupUnhashed(t) ==
    /\ At(t, "lookup")
    /\ IF target = None THEN Goto(t, "gate") ELSE Return(t, "Ok")
    /\ UNCHANGED <<entry, config, file, target, partial, crashes>>

\* Cache hit?  A pinned file is hashed, an unpinned one trusted.
Lookup(t) ==
    /\ At(t, "lookup")
    /\ IF target = None THEN Goto(t, "gate")
       ELSE IF entry.pinned /\ file[target] # Good THEN Goto(t, "discard")
       ELSE Return(t, "Ok")
    /\ UNCHANGED <<entry, config, file, target, partial, crashes>>

\* The mismatching file is removed, whatever file has the name by now.
Discard(t) ==
    /\ At(t, "discard")
    /\ IF target = None THEN Return(t, "Io") ELSE Goto(t, "gate")
    /\ target' = None
    /\ UNCHANGED <<entry, config, file, partial, crashes>>

\* Mutant of OfflineGate: the network is used whatever the configuration.
OfflineGateOpen(t) ==
    /\ At(t, "gate")
    /\ Goto(t, "create")
    /\ UNCHANGED <<entry, config, file, target, partial, crashes>>

OfflineGate(t) ==
    /\ At(t, "gate")
    /\ IF config.offline THEN Return(t, "NetworkBlocked") ELSE Goto(t, "create")
    /\ UNCHANGED <<entry, config, file, target, partial, crashes>>

Free == {i \in Inode : i # target /\ i # partial /\ \A t \in Task : task[t].inode # i}

\* File::create: a partial file that is already there is truncated, also
\* when another task is writing to it.
CreatePartial(t) ==
    /\ At(t, "create")
    /\ \E i \in IF partial = None
                  THEN {j \in Free : \A k \in Free : j <= k} ELSE {partial} :
         /\ partial' = i
         /\ file' = [file EXCEPT ![i] = << >>]
         /\ task' = [task EXCEPT ![t].pc = "receive", ![t].inode = i]
    /\ UNCHANGED <<entry, config, target, crashes>>

\* The content after `chunk' was written at position n.
WriteAt(content, n, chunk) ==
    [j \in 1 .. (IF Len(content) > n THEN Len(content) ELSE n) |->
        IF j = n THEN chunk ELSE IF j <= Len(content) THEN content[j] ELSE Hole]

Receive(t, chunk) ==
    LET n == task[t].read + 1 IN
    /\ At(t, "receive") /\ n <= Parts
    /\ chunk = n \/ Corrupt
    /\ file' = [file EXCEPT ![task[t].inode] = WriteAt(@, n, chunk)]
    /\ task' = [task EXCEPT ![t].read = n, ![t].sound = @ /\ chunk = n]
    /\ UNCHANGED <<entry, config, target, partial, crashes>>

\* The request or the stream fails: what was written stays in the partial file.
DownloadFails(t) ==
    /\ At(t, "create") \/ At(t, "receive")
    /\ Return(t, "Download")
    /\ UNCHANGED <<entry, config, file, target, partial, crashes>>

\* The file is flushed and closed.
StreamEnds(t) ==
    /\ At(t, "receive") /\ task[t].read = Parts
    /\ task' = [task EXCEPT ![t].pc = "rename", ![t].inode = None]
    /\ UNCHANGED <<entry, config, file, target, partial, crashes>>

RenamePartial(t) ==
    /\ At(t, "rename") /\ partial # None
    /\ target' = partial
    /\ partial' = None
    /\ Goto(t, "verify")
    /\ UNCHANGED <<entry, config, file, crashes>>

\* Mutant of RenameFails: a task whose partial file is gone waits for it.
RenameWaits(t) == FALSE /\ UNCHANGED vars

\* Another task has renamed the partial file away.
RenameFails(t) ==
    /\ At(t, "rename") /\ partial = None
    /\ Return(t, "Io")
    /\ UNCHANGED <<entry, config, file, target, partial, crashes>>

\* The hash of the bytes received, not of the file, is compared.
Verify(t) ==
    /\ At(t, "verify")
    /\ IF entry.pinned /\ ~task[t].sound THEN Goto(t, "remove") ELSE Return(t, "Ok")
    /\ UNCHANGED <<entry, config, file, target, partial, crashes>>

RemoveBad(t) ==
    /\ At(t, "remove")
    /\ target' = None
    /\ Return(t, "ChecksumMismatch")
    /\ UNCHANGED <<entry, config, file, partial, crashes>>

\* The files are not synced: a crash may cut the cached one off at k.
Crash(k) ==
    /\ crashes < MaxCrash
    /\ crashes' = crashes + 1
    /\ task' = [t \in Task |-> IdleTask]
    /\ IF target = None THEN UNCHANGED file
       ELSE /\ k <= Len(file[target])
            /\ file' = [file EXCEPT ![target] = SubSeq(@, 1, k)]
    /\ UNCHANGED <<entry, config, target, partial>>

\* What a started call does while the server answers.
Proceed(t) == \/ Lookup(t) \/ Discard(t) \/ OfflineGate(t) \/ CreatePartial(t)
              \/ Receive(t, task[t].read + 1) \/ StreamEnds(t)
              \/ RenamePartial(t) \/ RenameFails(t) \/ Verify(t) \/ RemoveBad(t)

Next == \/ \E t \in Task : \/ Resolve(t) \/ Proceed(t) \/ DownloadFails(t)
                           \/ Receive(t, Bad)
        \/ \E k \in 0 .. Parts : Crash(k)

Spec == Init /\ [][Next]_vars

\* The runtime polls every call it has started; errors need not occur.
FairSpec == Spec /\ \A t \in Task : WF_vars(Proceed(t))

-----------------------------------------------------------------------------
(* Type invariant. *)
TypeOK ==
    /\ file \in [Inode -> Content]
    /\ target \in Inode \cup {None} /\ partial \in Inode \cup {None}
    /\ target # None => target # partial
    /\ task \in [Task -> CallState]
    /\ crashes \in 0 .. MaxCrash

Returns(t, res) == ~At(t, "idle") /\ task'[t].pc = "idle" /\ task'[t].res = res

(* "Returns the path of a file whose sha256 matches the catalog" (hub.rs     *)
(* 291): when a call of resolve that no other call overlapped answers Ok for *)
(* a pinned entry, the cache path names the model, after whatever failed     *)
(* downloads, wrong bytes, crashes and overlapping calls came before.  Calls  *)
(* that overlap share the partial file and may answer Ok for a file the      *)
(* other one has truncated.                                                 *)
ResolvedIsGood ==
    [][\A t \in Task : Returns(t, "Ok") /\ entry.pinned /\ task[t].alone
         => target # None /\ file[target] = Good]_vars

(* "When DIASPOR_OFFLINE=1 is set, downloads are refused" (hub.rs 17): no    *)
(* order of calls, not even one that discards a damaged file first, writes   *)
(* to the cache directory or makes a name appear in it.                      *)
OfflineNeverFetches ==
    [][config.offline /\ crashes' = crashes
         => file' = file /\ partial' = partial /\ target' \in {target, None}]_vars

(* A complete model under the cache path is never altered in place: a task   *)
(* that still has the renamed file open rewrites only what is there, and     *)
(* File::create truncates nothing but the partial file (429-481).            *)
CachedFileUntouched ==
    [][target # None /\ file[target] = Good /\ crashes' = crashes
         => file'[target] = Good]_vars

(* What resolve may never do to the cache directory, whatever overlaps or      *)
(* crashes: fetch while offline, or alter a complete model (hub.rs 291-481).    *)
CacheKept == []TypeOK /\ OfflineNeverFetches /\ CachedFileUntouched

(* Every call of resolve returns while the server answers.                   *)
CallsEnd == \A t \in Task : ~At(t, "idle") ~> At(t, "idle")
=============================================================================
