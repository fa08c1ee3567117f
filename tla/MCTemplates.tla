---------------------------- MODULE MCTemplates -----------------------------
(* Templates for TLC. *)
EXTENDS Templates, TLC

CONSTANTS m1, m2, n1, n2, n3, h1, h2, r1, r2, q1, q2, t1, t2, i1, i2

\* Two notes of one market, on either outcome, and one of another.  The second
\* root has them all; two notes of the first market share their secret.
Notes          == r1 :> {n1, n3} @@ r2 :> {n1, n2, n3}
MarketsOfNotes == n1 :> m1 @@ n2 :> m1 @@ n3 :> m2
Outcomes       == n1 :> 1 @@ n2 :> 2 @@ n3 :> 1
Secrets        == n1 :> h1 @@ n2 :> h1 @@ n3 :> h2

Symmetry == Permutations({q1, q2}) \cup Permutations({t1, t2})
=============================================================================
