--------------------------- MODULE MCFrozenPipeline ---------------------------
(* Two freezes, two invocations of the runner under one run id, two scorers.  *)
EXTENDS FrozenPipeline

CONSTANTS f1, f2, r1, r2, s1, s2
=============================================================================
