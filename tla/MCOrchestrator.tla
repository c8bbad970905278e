--------------------------- MODULE MCOrchestrator ---------------------------
(* Small instances of Orchestrator: two targets that exist and a resource that *)
(* does not; the same demand in two wordings; a topology the policy refuses.   *)
EXTENDS Evidence

MCTopologies == {"web", "mesh", "rogue"}
MCAllowed == {"web", "mesh"}
MCTargets == {"strategy", "sku", "ghost"}
MCTargetsOf == [t \in MCTopologies |-> {"strategy", "sku"}]

Demand(d, t) == [description |-> d, target |-> t, terms |-> {"zone"}]
MCDemands == {<<Demand("add", "strategy")>>, <<Demand("again", "strategy")>>,
              <<Demand("add", "sku")>>, <<Demand("add", "ghost")>>}
MCFewDemands == {<<Demand("add", "strategy")>>, <<Demand("add", "sku")>>}
=============================================================================
