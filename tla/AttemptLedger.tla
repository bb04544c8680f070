--------------------------- MODULE AttemptLedger ---------------------------
(***************************************************************************)
(* What the dialler promises about attempts, whatever happens inside it:   *)
(* an attempt is taken off a row of calls_queue first, and a call is       *)
(* placed with Asterisk only against an attempt of its row that no other   *)
(* call has used.  A restart may waste an attempt, never conjure one.      *)
(***************************************************************************)
EXTENDS Integers

CONSTANTS Rows, Budget

VARIABLES left, placed

Init ==
    /\ left = Budget
    /\ placed = [r \in Rows |-> 0]

Pay(r) ==
    /\ left' = [left EXCEPT ![r] = @ - 1]
    /\ UNCHANGED placed

Place(r) ==
    /\ placed[r] < Budget[r] - left[r]
    /\ placed' = [placed EXCEPT ![r] = @ + 1]
    /\ UNCHANGED left

Next == \E r \in Rows : Pay(r) \/ Place(r)

Spec == Init /\ [][Next]_<<left, placed>>
====
