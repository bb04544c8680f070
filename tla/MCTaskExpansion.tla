-------------------------- MODULE MCTaskExpansion --------------------------
(* Small instances of TaskExpansion.                                       *)
EXTENDS TaskExpansion

\* A file of two rows, one refused at its second record, one with one column.
MCFile == [t \in Tasks |-> CASE t = "rows" -> <<"row", "row">>
                             [] t = "refused" -> <<"row", "bad">>
                             [] t = "column" -> <<"short">>]
\* The task with one column has a geo of its own, which may be made later.
MCTaskGeo == [t \in Tasks |-> IF t = "column" THEN "g2" ELSE "g1"]
====
