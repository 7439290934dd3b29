---------------------------- MODULE ImportedOnce ----------------------------
(***************************************************************************)
(* What the historical import promises the owner of the file: run as often *)
(* as it takes, it enters every row under its reference, once, and nothing *)
(* it entered is ever entered again or taken back.                         *)
(***************************************************************************)
EXTENDS Naturals

CONSTANT References

VARIABLE entered       \* how many purchases carry each reference

Init == entered = [r \in References |-> 0]

Enter(r) == entered[r] = 0 /\ entered' = [entered EXCEPT ![r] = 1]

Next == \E r \in References : Enter(r)

Arrival == \A r \in References : <>(entered[r] = 1)

\* Nothing is entered twice, and nothing is taken back.
Safety == Init /\ [][Next]_entered

Spec == Safety /\ Arrival
=============================================================================
