---------------------------- MODULE MCRetention ----------------------------
(* Small instances of Retention. *)
EXTENDS Retention, TLC

CONSTANTS j1, j2, ann, ben

\* Keys 1 and 2 share a window, key 3 is cold on the first day and expired on
\* the next, and key 4 occurs during the behaviour.
MCOccurred == (1 :> 0 @@ 2 :> 0 @@ 3 :> 1 @@ 4 :> 5)

\* Keys 3 and 4 are both cold on the first day, in two chunks.
MCTiers == (1 :> 0 @@ 2 :> 0 @@ 3 :> 1 @@ 4 :> 2 @@ 5 :> 5)

Symmetry == Permutations({j1, j2})
=============================================================================
