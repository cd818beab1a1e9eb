------------------------------- MODULE MCServer -------------------------------
(* The API server and its sinks, thumbnails, tiers and listings: one component   *)
(* moves in a behaviour, the others stay in an initial state.                      *)
EXTENDS TLC, ApiServer, EventSinks, Thumbnails, Tiers, Listings

CONSTANTS w1, w2, m1, m2, b1, t1, t2, r1, r2, o1
VARIABLE subject

\* ApiServer: pose and credibility around midnight, bad tokens, images.
Rq(k, v, e, s, r, p, ok) == [key |-> k, vertical |-> v, exp |-> e, signed |-> s, route |-> r, policy |-> p, valid |-> ok]
Mix(rs, n) == [requests |-> rs, max |-> n]
MCApiMix == {Mix({Rq("k", "coaching", 9, TRUE, "pose", "cost", TRUE), Rq("k", "hiring", 1, TRUE, "credibility", "cost", TRUE)}, 3),
             Mix({Rq("k", "research", 1, TRUE, "credibility", "cost", TRUE), Rq("j", "coaching", 9, FALSE, "pose", "cost", TRUE),
                  Rq("j", "research", 9, TRUE, "health", "cost", TRUE)}, 3),
             Mix({Rq("j", "research", 9, TRUE, "images", p, TRUE) : p \in {"cost", "quality", "balanced", "broke", "odd"}}
                 \cup {Rq("j", "research", 9, TRUE, "images", "quality", FALSE)}, 2)}

\* EventSinks: two events of one window, of two emitters; a file in the way of a directory.
Ev(k, t, b) == [kind |-> k, stream |-> "s", at |-> t, body |-> b]
MCOutbox == (m1 :> <<Ev("window", "1", <<1, 1>>)>>) @@ (m2 :> <<Ev("window", "1", <<2>>)>>)
InTheWay == (<<".streams">> :> [dir |-> TRUE, data |-> << >>]) @@ (<<".streams", "s">> :> [dir |-> FALSE, data |-> <<0>>])
MCFirstVfs == {[kind |-> k, nodes |-> << >>] : k \in {"memory", "local"}} \cup {[kind |-> "memory", nodes |-> InTheWay]}

\* Thumbnails: two files of one name, one beside them.
Pic(d, n, k) == [dir |-> d, name |-> n, kind |-> k, plain |-> k # "pdf"]
F1 == Pic("a", "i", "image")
F2 == Pic("b", "i", "video")
F4 == Pic("b", "k", "image")
Th(one, l, ps, s) == [one |-> one, local |-> l, paths |-> ps, size |-> s]
MCThumbFile == {F1, F2, F4}
MCFirstFiles == {{F1, F2}, {F1, F4}}
MCThumbRequest == (t1 :> {Th(FALSE, TRUE, <<F2, F4, F1>>, 1), Th(FALSE, FALSE, <<F1>>, 1)}) @@ (t2 :> {Th(TRUE, TRUE, <<F1>>, 1)})

\* Tiers: a source of each kind, one path and two.
MCTierSource == [x \in {"l", "s", "g", "n"} |-> CASE x = "l" -> "local" [] x = "s" -> "s3" [] x = "g" -> "gcs" [] x = "n" -> "nfs"]
MCTierPaths == {<<"k">>, <<"k", "m">>}

\* Listings: a file, a directory with a file and with one too deep for a walk of two levels,
\* a file of another directory, all ages; nothing, a file or a directory
\* that cannot be read.
P1 == <<1>>
P2 == <<1, 2>>
P3 == <<1, 3>>
P4 == <<1, 3, 4>>
P5 == <<1, 5>>
P6 == <<1, 3, 6>>
P7 == <<1, 3, 6, 7>>
P9 == <<9>>
MCLookTree == {(P1 :> Folder) @@ (P2 :> FileOf(<<1>>)) @@ (P3 :> Folder) @@ (P4 :> FileOf(<<1, 2>>)) @@ (P6 :> Folder) @@ (P7 :> FileOf(<<1>>)) @@ (P9 :> FileOf(<<1>>))}
MCLookAge == (P1 :> 0) @@ (P2 :> 31) @@ (P3 :> 0) @@ (P4 :> 0) @@ (P5 :> 0) @@ (P6 :> 0) @@ (P7 :> 0) @@ (P9 :> 91)
Ask(c, p, n) == [cmd |-> c, path |-> p, native |-> n]
MCLookRequest == (o1 :> {Ask("list", p, FALSE) : p \in {P1, << >>, P9, P5}} \cup {Ask("list", P1, TRUE)}
                         \cup {Ask("size", p, FALSE) : p \in {P1, P9, P5}})
MCLookCached == {{}, {[path |-> P2, native |-> FALSE]}}
MCLookBarred == {{}, {P1}, {P2}, {P3}}
MCLookSpare == {P2, P3, P4, P5}

MCInit == /\ subject \in {"api", "events", "thumbnails", "tiers", "listings"}
          /\ ApiInit /\ EventInit /\ ThumbInit /\ TierInit /\ LookInit
          /\ subject # "api" => mix.max = 2
          /\ subject # "events" => vfs = << >> /\ backend = "memory"
          /\ subject # "thumbnails" => platform = "linux" /\ pngs = << >> /\ files[F2].ver = 0
          /\ subject # "listings" => lookMount = "local" /\ warm = {} /\ barred = {}
MCNext == /\ UNCHANGED subject
          /\ \/ subject = "api" /\ ApiNext /\ UNCHANGED <<eventVars, thumbVars, tierVars, lookVars>>
             \/ subject = "events" /\ EventNext /\ UNCHANGED <<apiVars, thumbVars, tierVars, lookVars>>
             \/ subject = "thumbnails" /\ ThumbNext /\ UNCHANGED <<apiVars, eventVars, tierVars, lookVars>>
             \/ subject = "tiers" /\ TierNext /\ UNCHANGED <<apiVars, eventVars, thumbVars, lookVars>>
             \/ subject = "listings" /\ LookNext /\ UNCHANGED <<apiVars, eventVars, thumbVars, tierVars>>
MCVars == <<subject, apiVars, eventVars, thumbVars, tierVars, lookVars>>
MCSpec == MCInit /\ [][MCNext]_MCVars

\* A caller whose answer is put together from several attempts or entries gets a right one
\* although some fail or disappear: images (studio.rs 80), listings (local_storage.rs 219).
AnswersWhole == ImagesAnswered /\ ListingsSafe
=============================================================================
