---------------------------- MODULE MCDashboard -----------------------------
(* Two accounts, their sessions, a project and its contracts for TLC. *)
EXTENDS Dashboard, TLC

CONSTANTS n1, n2, w1, w2, t1, t2, p1, x1, x2, x3, r1, r2

\* Fees below, in, at and above the range, for a greatest fee of 2.
Fees == -1 .. 3

Symmetry ==
  UNION {Permutations(S) : S \in {Name, Password, Token, Contract, Request}}
=============================================================================
