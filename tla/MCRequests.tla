----------------------------- MODULE MCRequests -----------------------------
(* Requests for TLC; the parts share model values to have few permutations. *)
EXTENDS Requests, Sequences, TLC

CONSTANTS c1, c2, c3, r1, r2, r3, w1, w2, p1, p2, p3, p4, f1, f2, a1

\* One payment of every route that sends.
Kinds    == p1 :> "permit" @@ p2 :> "managed" @@ p3 :> "token" @@ p4 :> "native"
Amounts  == p1 :> 1 @@ p2 :> 2 @@ p3 :> 1 @@ p4 :> 1
Nonces   == [p \in {p1, p2, p3, p4} |-> 0]
\* 1.05, and 1.2.3, which is refused.
TwoAmounts == {<< <<1>>, <<0, 5>> >>, << <<1>>, <<2>>, <<3>> >>}
\* Two submissions of one app and one of another.
Apps     == r1 :> f1 @@ r2 :> f1 @@ r3 :> f2

Symmetry == UNION {Permutations(S) : S \in {{c1, c2, c3}, {r1, r2}, {w1, w2}}}
=============================================================================
