------------------------- MODULE MCMultipartUpload -------------------------
(***************************************************************************)
(* Small instances of MultipartUpload.  In a behaviour either one file is     *)
(* uploaded, under all calls and a restart, or two files go to the same key   *)
(* at once, under a bounded number of calls.                                *)
(***************************************************************************)
EXTENDS MultipartUpload

CONSTANT MaxCalls  \* calls of a behaviour in which two files share the key

VARIABLES sharing, \* do two files go to the key?
          calls    \* calls begun, counted when they do

MCvars == <<vars, sharing, calls>>

First == CHOOSE u \in Upload : TRUE

OneKey     == [u \in Upload |-> CHOOSE k \in Key : TRUE]
ThreeParts == [u \in Upload |-> 3]
\* The rest of the first file is as long as the second.
Unequal    == [u \in Upload |-> IF u = First THEN 2 ELSE 1]

MCInit == Init /\ sharing \in BOOLEAN /\ calls = 0

Steps(t) == Proceed(t) \/ LocalFileFails(t) \/ \E e \in ErrorKind : WriteFails(t, e)

MCNext ==
    /\ UNCHANGED sharing
    /\ \/ ~sharing /\ Next /\ used' \subseteq {First} /\ UNCHANGED calls
       \/ /\ sharing
          /\ \/ (\E t \in Task : Steps(t)) /\ UNCHANGED calls
             \/ calls < MaxCalls /\ (\E t \in Task : Manage(t)) /\ calls' = calls + 1

MCSpec == MCInit /\ [][MCNext]_MCvars

MCFairSpec == /\ MCSpec
              /\ \A t \in Task : WF_MCvars(Proceed(t) /\ UNCHANGED <<sharing, calls>>)
=============================================================================
