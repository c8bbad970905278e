SPECIFICATION Spec
CONSTANTS
    MaxReviewRounds = 3
    MaxParseRetries = 0
    MaxRevision = 4
    Topologies <- MCTopologies
    AllowedTopologies <- MCAllowed
    Targets <- MCTargets
    TargetsOf <- MCTargetsOf
    Terms = {"zone"}
    Wordings = {"w"}
    Demands <- MCFewDemands
    Categories = {"schema"}
    SinkFaults = {}
    None = None
INVARIANTS
    RepeatedPlanIsNotReviewed
