------------------------- MODULE MCDownloadManager -------------------------
(* Small instances of DownloadManager. *)
EXTENDS DownloadManager

TwoChunks   == [d \in Download |-> 2]
ThreeChunks == [d \in Download |-> 3]

\* A step of a started task never adds a driver.
FairPoliteSpec == PoliteSpec /\ \A t \in Task : WF_vars(Proceed(t))
=============================================================================
