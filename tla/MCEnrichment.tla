---------------------------- MODULE MCEnrichment ----------------------------
(***************************************************************************)
(* Model checking of Enrichment: one unit with two historical purchases,   *)
(* one with a single purchase, and the notes they may have.                *)
(***************************************************************************)
EXTENDS Enrichment

Tokens == {"ford", "chevy", "white", "2013", "2014", "150", "f", "focus", "#2013"}

MCMakeOf == [t \in Tokens |-> CASE t = "ford"  -> "Ford"
                                [] t = "chevy" -> "Chevrolet"
                                [] OTHER       -> Null]
\* A token that is no number can have one in it.
MCRuns == [t \in Tokens |-> CASE t = "#2013" -> {"2013"}
                              [] t \in {"2013", "2014", "150"} -> {t}
                              [] OTHER -> {}]
MCUnitOf == [p1 |-> "u1", p2 |-> "u1", p3 |-> "u2"]

Short == UNION {[1..n -> Tokens \ {"2014", "#2013"}] : n \in 0..3}
Long  == {<<a, "ford", b, c, d>> : a, b, c, d \in {"2013", "ford", "f", "white", "#2013"}}

MCNoteBooks ==
  {[p1 |-> n, p2 |-> <<"chevy", "2014">>, p3 |-> <<"2013", "ford", "f", "150">>] :
     n \in Short \cup Long}

Form(year, make, model) == [year |-> year, make |-> make, model |-> model]
MCSaved == {Form(Null, "Ford", Null), Form("2014", Null, <<"f", "150">>),
            Form(Null, Null, Null)}
=============================================================================
