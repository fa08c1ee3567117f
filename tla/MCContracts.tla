---------------------------- MODULE MCContracts -----------------------------
(***************************************************************************)
(* Contracts for TLC: the vault with a tree of four leaves that fills up   *)
(* and a ring of three roots that wraps around, and one operation that two *)
(* requests send: it may be what the paymaster sponsors or not, and a      *)
(* sponsorship may be over, and a log too old, when the clock stops.       *)
(***************************************************************************)
EXTENDS Contracts, TLC

CONSTANTS n1, n2, n3, n4, n5, b1, b2, o1, s1, x1, x2

Senders == o1 :> s1
Nonces  == o1 :> 0
Pays    == o1 :> x1

\* The components share model values to have few permutations between them.
Symmetry == Permutations(Order) \cup Permutations(Note \ Order) \cup Permutations(Batch)
=============================================================================
