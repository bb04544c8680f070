-------------------------- MODULE MCLimitsLoading --------------------------
(* Small instances of LimitsLoading.                                       *)
EXTENDS LimitsLoading

MCGeo == [u \in Uids |-> IF u = "b1" THEN "g1" ELSE "g2"]
MCId == [u \in Uids |-> IF u = "b1" THEN 1 ELSE 2]

Item(cps) == [cps |-> cps, nlines |-> 1]

\* One geo is edited and leaves the cps open at times, the other never does.
MCItems == [k \in Keys |-> CASE k = "b1" -> {Item(1)}
                             [] k = "b2" -> {Item(2)}
                             [] k = "g1" -> {Item(0), Item(1)}
                             [] k = "g2" -> {Item(1)}]

\* A branch that may be edited, of a geo with a cps of its own.
MCItemsGeo == [k \in Keys |-> IF k = "b1" THEN {Item(1), Item(2)} ELSE {Item(1)}]
====
