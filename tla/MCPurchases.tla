---------------------------- MODULE MCPurchases ----------------------------
(***************************************************************************)
(* Model checking of Purchases: the spellings of one VIN, what the unit    *)
(* form and the transaction form are saved with, and the symmetries.       *)
(***************************************************************************)
EXTENDS Purchases, TLC

MCUnitForms ==
  { [vin |-> vin, line |-> "golf_cart", cost |-> 7] : vin \in Vins }
MCTransactionForms ==
  { [amount |-> 7, line |-> "shared", unit |-> Null, cat |-> Null] }

MCLower == [v \in Vins |-> "vin"]

Symmetric ==
  Permutations(PurchaseIds) \cup Permutations(UnitIds) \cup
  Permutations(Vins) \cup Permutations(Admins) \cup Permutations(Slots)
=============================================================================
