---------------------------- MODULE MCCallTiming ----------------------------
(* Small instances of CallTiming.                                          *)
EXTENDS CallTiming, TLC

Symmetry == Permutations(Rows)

\* By day, over midnight, to midnight, from it, all day, empty, never parsed.
MCWindows == {[start |-> w[1], stop |-> w[2]] :
                w \in {<<2, 5>>, <<5, 2>>, <<5, 0>>, <<0, 2>>, <<0, 0>>, <<2, 2>>, <<-1, 2>>}}
AlwaysOpen == {[start |-> 0, stop |-> 0]}
MCUnparsed == -1
====
