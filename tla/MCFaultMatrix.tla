--------------------------- MODULE MCFaultMatrix ---------------------------
(* The fixture's plan, the topology with an unknown type, and every demand.   *)
EXTENDS FaultMatrix

MCTopologies == {"fixture", "widgets"}
MCTargetsOf == [t \in MCTopologies |-> {"api"}]
MCTerms == {"instances", "probe", "backup"}
MCDemands == {<<[description |-> "add", target |-> "api", terms |-> {t}]>> : t \in MCTerms}
=============================================================================
