----------------------------- MODULE MCModelHub -----------------------------
(* Small instances of ModelHub: at most four files are alive at a time.      *)
EXTENDS ModelHub

\* One caller at a time with a server that may send wrong bytes and two
\* crashes, or two overlapping calls with a sound server and one crash.
VARIABLE solo

Overlap == \E s, t \in Task : s # t /\ ~At(s, "idle") /\ ~At(t, "idle")
Damaged == \E t \in Task : ~task[t].sound

MCInit == Init /\ solo \in BOOLEAN
Regime == /\ UNCHANGED solo
          /\ IF solo THEN ~Overlap' ELSE ~Damaged' /\ crashes' <= 1
MCNext == Next /\ Regime
MCSpec == /\ MCInit /\ [][MCNext]_<<vars, solo>>
          /\ \A t \in Task : WF_<<vars, solo>>(Proceed(t) /\ Regime)
=============================================================================
