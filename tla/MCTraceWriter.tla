---------------------------- MODULE MCTraceWriter ---------------------------
(* Two calls in one process and a third in another; the first and the third   *)
(* save the same run.                                                        *)
EXTENDS TraceRefinement

CONSTANTS w1, w2, w3
MCProcess == [w \in Writers |-> IF w = w3 THEN "p2" ELSE "p1"]
MCRun == [w \in Writers |-> IF w = w2 THEN "other" ELSE "same"]
=============================================================================
