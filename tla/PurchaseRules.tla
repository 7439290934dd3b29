--------------------------- MODULE PurchaseRules ---------------------------
(***************************************************************************)
(* The pure rules of app/services/purchase_service.py: what a purchase     *)
(* category says about the business line and about vehicles, what a        *)
(* purchase costs in total, and which edits are allowed.                   *)
(***************************************************************************)
EXTENDS Sessions, Naturals

AllCategories ==
  { "parts_rto_car_repair", "parts_rto_car_wip", "parts_flip_car_repair",
    "parts_flip_car_wip", "parts_flip_golf_cart_build",
    "parts_golf_cart_repair", "auction_car_rto", "auction_car_flip",
    "auction_golf_cart_flip", "general_expense_car",
    "general_expense_golf_cart", "general_expense_shared",
    "general_expense_unsure" }

GolfCartCategories ==
  { "parts_flip_golf_cart_build", "parts_golf_cart_repair",
    "auction_golf_cart_flip", "general_expense_golf_cart" }

VehicleCategories ==
  { "auction_car_rto", "auction_car_flip", "auction_golf_cart_flip" }

AssetLines == {"car", "golf_cart"}
BusinessLines == AssetLines \cup {"shared", "unallocated"}

BusinessLine(cat) ==
  CASE cat = "general_expense_shared" -> "shared"
    [] cat = "general_expense_unsure" -> "unallocated"
    [] cat \in GolfCartCategories     -> "golf_cart"
    [] OTHER                          -> "car"

IsVehicle(cat) == cat \in VehicleCategories

\* shipping_cost and other_fees are only ever added up: one field, "extras".
Total(p) == p.amount + p.extras

\* What record_purchase books on the ledger. Only a vehicle purchase books
\* its shipping and fees at creation.
BookedAmount(f) == IF IsVehicle(f.cat) THEN Total(f) ELSE f.amount

\* Fault: the edit form accepts any category.
EditAnyCategory(p, newCat, matched) ==
  IsVehicle(p.cat) => matched \in {Null, p.unit}

\* check_edit_allowed: the purchase p as loaded, the category of the form and
\* the unit its stock number matches.
EditAllowed(p, newCat, matched) ==
  /\ IsVehicle(p.cat) <=> IsVehicle(newCat)
  /\ IsVehicle(p.cat) =>
       /\ BusinessLine(newCat) = BusinessLine(p.cat)
       /\ matched \in {Null, p.unit}
=============================================================================
