----------------------------- MODULE MCWallets ------------------------------
(* Wallets for TLC; the parts share model values to have few permutations. *)
EXTENDS Wallets, TLC

CONSTANTS a1, a2, a3, b1, b2, u1, u2, w1, x1, d1, d2, d3

Symmetry ==
  UNION {Permutations(S) : S \in {{a1, a2, a3}, {b1, b2}, {u1, u2}, {d2, d3}}}
=============================================================================
