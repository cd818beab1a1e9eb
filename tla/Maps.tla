--------------------------------- MODULE Maps ---------------------------------
(* Hash maps and directories as functions with a finite domain. *)

\* The map f with x under k, in the place of what was there.
Entered(f, k, x) == [j \in DOMAIN f \cup {k} |-> IF j = k THEN x ELSE f[j]]
=============================================================================
