---------------------- MODULE MCOrchestratorRefinement ----------------------
(* The refinement and the transition catalogue on the instances of            *)
(* MCOrchestrator.                                                           *)
EXTENDS MCOrchestrator, OrchestratorRefinement
=============================================================================
