----------------------------- MODULE MCAccounts -----------------------------
(* Model checking of Accounts: the users created, and a symmetry. *)
EXTENDS Accounts, TLC

CONSTANTS u1, u2

New(user, role, must) == [user |-> user, role |-> role, must |-> must]
MCNewUsers == {New(u1, "admin", TRUE), New(u2, "admin", FALSE)}

Symmetric == Permutations(Slots)
=============================================================================
