------------------------------ MODULE Transfer ------------------------------
(***************************************************************************)
(* What a download promises the user of the application, without tasks,      *)
(* state files or restarts: the copy only ever grows by the next piece of    *)
(* the remote file, and it is reported as finished only once it is whole.    *)
(* DownloadManager implements it while one task at a time drives a download. *)
(***************************************************************************)
EXTENDS Integers, Sequences

CONSTANTS Item,   \* what can be transferred
          Whole   \* Whole[i]: the remote file, a sequence of pieces

VARIABLES copy,     \* copy[i]: what has arrived
          reported  \* the items that memory or state file call Completed

transferVars == <<copy, reported>>

TransferInit == copy = [i \in Item |-> << >>] /\ reported = {}

Complete(i) == copy[i] = Whole[i]

\* The next piece arrives; no piece is skipped, repeated or taken back.
Arrive(i) ==
    /\ Len(copy[i]) < Len(Whole[i])
    /\ copy' = [copy EXCEPT ![i] = Append(@, Whole[i][Len(@) + 1])]
    /\ UNCHANGED reported

\* Whole copies are reported, and a report may be withdrawn: a download is
\* canceled, forgotten by a restart or found again in the state file.
Report ==
    /\ \E S \in SUBSET {i \in Item : Complete(i)} : reported' = S
    /\ UNCHANGED copy

TransferNext == (\E i \in Item : Arrive(i)) \/ Report
TransferSpec == TransferInit /\ [][TransferNext]_transferVars
=============================================================================
