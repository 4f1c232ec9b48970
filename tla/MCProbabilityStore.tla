------------------------- MODULE MCProbabilityStore -------------------------
(***************************************************************************)
(* Instances of ProbabilityStore: two input gates, an annotation gate over *)
(* one of them and a gate that carries no probability.                     *)
(***************************************************************************)
EXTENDS ProbabilityStore, TLC

CONSTANTS s1, s2, a, b, w, g

MCGate == (a :> [type |-> "input", children |-> <<>>]) @@
          (b :> [type |-> "mulinput", children |-> <<a>>]) @@
          (w :> [type |-> "annotation", children |-> <<a>>]) @@
          (g :> [type |-> "plus", children |-> <<a, b>>])

\* Both sessions write to a, one of them through its annotation; one of them
\* tries another value, and a gate that carries no probability.
Both     == (s1 :> {<<a, 1>>, <<b, 1>>}) @@ (s2 :> {<<w, 1>>, <<w, 2>>, <<g, 1>>})
MintsB   == (s1 :> {}) @@ (s2 :> {b})

=============================================================================
