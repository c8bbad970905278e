SPECIFICATION FairSpec
CONSTANTS
    MaxReviewRounds = 3
    MaxParseRetries = 1
    MaxRevision = 4
    Topologies <- MCTopologies
    AllowedTopologies <- MCAllowed
    Targets <- MCTargets
    TargetsOf <- MCTargetsOf
    Terms = {"zone"}
    Wordings = {"w"}
    Demands <- MCDemands
    Categories = {"schema"}
    SinkFaults = {}
    None = None
INVARIANTS
    TopologyNeverChanges
    RepeatedDemandEndsTheRun
    FinalPlanIsTheLatest
    RevisedPlanResolvesEverything
PROPERTIES
    UnknownTargetLosesTheRun
    ImplementsCollaboration
    TransitionsAreKnown
