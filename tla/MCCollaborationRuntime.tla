----------------------- MODULE MCCollaborationRuntime -----------------------
(* A session, c1, next to a batch runner, c2, on one model or on two.          *)
EXTENDS CollaborationRuntime

CONSTANTS c1, c2
MCOneOrTwoModels == {[c \in Clients |-> "A"], [c \in Clients |-> IF c = c1 THEN "A" ELSE "B"]}
=============================================================================
