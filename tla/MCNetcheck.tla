----------------------------- MODULE MCNetcheck -----------------------------
(* Model checking of Netcheck: the checks are alike. *)
EXTENDS Netcheck

CONSTANTS c1, c2

Symmetric == Permutations(Checks)
=============================================================================
