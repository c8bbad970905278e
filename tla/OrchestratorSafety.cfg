SPECIFICATION FairSpec
CONSTANTS
    MaxReviewRounds = 2
    MaxParseRetries = 1
    MaxRevision = 3
    Topologies <- MCTopologies
    AllowedTopologies <- MCAllowed
    Targets <- MCTargets
    TargetsOf <- MCTargetsOf
    Terms = {"zone"}
    Wordings = {"w"}
    Demands <- MCDemands
    Categories = {"parse", "state"}
    SinkFaults = {"raises", "times_out", "interrupts"}
    None = None
INVARIANTS
    TypeOK
    ApprovalIsOfTheFinalPlan
    RevisionsAnswerTheirReview
    AttemptsAreInARow
    GivenUpEndsTheRun
    LastMessageExplainsTheEnd
    LastEventCarriesTheResult
PROPERTY RunEnds
