----------------------------- MODULE ReviewDesk -----------------------------
(***************************************************************************)
(* Purchases together with the screens of the administrators.  The review  *)
(* queue is a page: it shows the figures of the moment it was rendered,    *)
(* and its button posts nothing but the id of the purchase.                *)
(***************************************************************************)
EXTENDS Purchases

VARIABLE shown   \* per administrator and purchase, what the last page showed:
                 \* the figures, and (ghost) how long the history was then

deskVars == <<vars, shown>>

DeskInit ==
  /\ Init
  /\ shown = [a \in Admins |-> [p \in PurchaseIds |-> Null]]

\* review_queue renders the pending purchases.
Look(a, p) ==
  /\ p \in Entered /\ purchases[p].status = "pending"
  /\ shown' = [shown EXCEPT ![a][p] =
       [figures |-> Figures(purchases[p]), events |-> Len(history[p])]]
  /\ UNCHANGED vars

\* The button exists only on a page that showed the purchase.
Click(s, p, a) ==
  /\ shown[a][p] # Null
  /\ BeginReview(s, p, a)
  /\ UNCHANGED shown

DeskNext ==
  \/ \E a \in Admins, p \in PurchaseIds :
       Look(a, p) \/ \E s \in Slots : Click(s, p, a)
  \/ Work /\ UNCHANGED shown

DeskSpec == DeskInit /\ [][DeskNext]_deskVars

------------------------------------------------------------------------------
\* A step that makes purchase p one that administrator a reviewed.
Reviews(a, p) ==
  /\ p \in Entered
  /\ purchases'[p].status = "reviewed" /\ purchases'[p].reviewer = a
  /\ purchases[p].status # "reviewed" \/ purchases[p].reviewer # a

AsShown(a, p) == Figures(purchases'[p]) = shown[a][p].figures

\* A review locks what the administrator saw, or, when it does not (the button
\* posts only an id), the history shows it: an edit is recorded after the page
\* was rendered (review_queue, mark_reviewed).
ReviewedAsSeenOrLogged ==
  [][\A a \in Admins, p \in PurchaseIds :
       Reviews(a, p) =>
         \/ AsShown(a, p)
         \/ \E i \in shown[a][p].events + 1 .. Len(history'[p]) :
              history'[p][i].action = "edited"]_deskVars
=============================================================================
