---------------------------- MODULE MCAppendRows ----------------------------
(* Small instances of AppendRows. *)
EXTENDS AppendRows, TLC

CONSTANTS w1, w2, w3, k1, k2, x1, x2

Symmetry == Permutations({w1, w2, w3}) \cup Permutations({x1, x2})
               \cup Permutations({k1, k2})
=============================================================================
