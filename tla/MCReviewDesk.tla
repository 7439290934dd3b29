---------------------------- MODULE MCReviewDesk ----------------------------
(* Model checking of ReviewDesk: no unit or transaction form, symmetries. *)
EXTENDS ReviewDesk, TLC

NoForms == {}
NoVins == <<>>
Symmetric == Permutations(Admins) \cup Permutations(Slots)
=============================================================================
