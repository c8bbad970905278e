--------------------------- MODULE MCModelRuntime ---------------------------
(* c1 and c2 are clients of one model and c3 of another.                      *)
EXTENDS ModelRuntime

CONSTANTS c1, c2, c3
Other(c) == [d \in Clients |-> IF d = c THEN "B" ELSE "A"]
MCSwitch == {Other(c3)}
=============================================================================
