------------------------------ MODULE MCDialer ------------------------------
(* Small instances of Dialer.                                              *)
EXTENDS Dialer, TLC

Symmetry == Permutations(Calls) \cup Permutations(Legs)

MCGeo == [u \in Uids |-> "g1"]
MCId == [u \in Uids |-> IF u = "b1" THEN 1 ELSE 2]
MCQueue == [u \in Uids |-> "q1"]

TypeNormal == [u \in Uids |-> 1]
TypeProgressive == [u \in Uids |-> 2]

OneAttempt == [u \in Uids |-> 1]
TwoAttempts == [u \in Uids |-> 2]

\* Rows r1, r2 of branch b1, row r3 of branch b2.
MCBranch == [r \in Rows |-> IF r = "r3" THEN "b2" ELSE "b1"]

\* Every row its own number, or the same number in both branches.
OwnNumbers == [r \in Rows |-> IF r = "r1" THEN "d1" ELSE IF r = "r2" THEN "d2" ELSE "d3"]
SharedNumber == [r \in Rows |-> "d1"]

OneLine == [k \in Keys |-> 1]
TwoLines == [k \in Keys |-> 2]

\* A branch and a geo as first configured, without and with a cps of the branch.
ItemsFixed == [k \in Keys |-> {[nlines |-> MaxLines[k], cps |-> 0]}]
ItemsCps == [k \in Keys |-> {[nlines |-> MaxLines[k], cps |-> IF k \in Uids THEN 1 ELSE 0]}]
====
