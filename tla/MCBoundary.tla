----------------------------- MODULE MCBoundary -----------------------------
(* A small instance of Boundary. *)
EXTENDS Boundary

Plain == <<"none", "lake">>
Bucket == <<"cvff", "bucket">>
Dir(scope) == <<scope, "root">>

\* A root for each scope; roots inside another scope's; roots without a path; a
\* bucket that is named after a scope.
RootCases ==
    {[host |-> Plain, path |-> <<Dir(s)>>] : s \in Scopes}
        \cup {[host |-> Plain, path |-> p] :
                 p \in {<<>>, <<Dir("cvff"), Plain>>, <<Dir("isr"), Dir("cvff")>>,
                        <<Plain, Dir("cvff")>>}}
        \cup {[host |-> Bucket, path |-> p] : p \in {<<>>, <<Plain>>}}

RoleCases ==
    {{q} : q \in DOMAIN Grants}
        \cup {{}, {"fmmbe_oversight", "cbn_observer"}, {"mrv_reader", "stats_reader"},
              {"insurer_aggregator", "fmmbe_oversight"}, {"isr_analyst", "unknown"}}
=============================================================================
