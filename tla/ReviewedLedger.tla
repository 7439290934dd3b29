--------------------------- MODULE ReviewedLedger ---------------------------
(***************************************************************************)
(* What the purchases ledger promises its readers: figures move only while *)
(* an entry is open, a review locks them, and only a reopening unlocks     *)
(* them.  Historical entries appear already reviewed.                      *)
(***************************************************************************)
CONSTANTS Entries, FigureSet, Nothing

VARIABLE book      \* per entry, Nothing or its figures and whether it is open

Row(figures, open) == [figures |-> figures, open |-> open]

Init == book = [e \in Entries |-> Nothing]

Enter(e, f) ==
  /\ book[e] = Nothing
  /\ \E open \in BOOLEAN : book' = [book EXCEPT ![e] = Row(f, open)]

Correct(e, f) ==
  /\ book[e] # Nothing /\ book[e].open
  /\ book' = [book EXCEPT ![e] = Row(f, TRUE)]

Review(e) ==
  /\ book[e] # Nothing /\ book[e].open
  /\ book' = [book EXCEPT ![e] = Row(@.figures, FALSE)]

Reopen(e) ==
  /\ book[e] # Nothing /\ ~book[e].open
  /\ book' = [book EXCEPT ![e] = Row(@.figures, TRUE)]

Next ==
  \E e \in Entries :
    \/ Review(e) \/ Reopen(e)
    \/ \E f \in FigureSet : Enter(e, f) \/ Correct(e, f)

Spec == Init /\ [][Next]_book
=============================================================================
