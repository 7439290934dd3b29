------------------------------ MODULE Sessions ------------------------------
(***************************************************************************)
(* What every module shares: NULL, and how a SQLAlchemy session saves a    *)
(* column.                                                                 *)
(***************************************************************************)
CONSTANT Null       \* SQL NULL, Python None, a blank form field

OrNull(S) == S \cup {Null}

\* SQLAlchemy writes a column only if its new value differs from the value
\* the session loaded; otherwise the row keeps what others committed since.
Save(loaded, new, inDb) == IF new = loaded THEN inDb ELSE new
=============================================================================
