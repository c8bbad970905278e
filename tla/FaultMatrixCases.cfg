SPECIFICATION MatrixSpec
CONSTANTS
    MaxReviewRounds = 5
    MaxParseRetries = 1
    MaxRevision = 10
    Topologies <- MCTopologies
    AllowedTopologies = {"fixture"}
    Targets = {"api"}
    TargetsOf <- MCTargetsOf
    Terms <- MCTerms
    Wordings = {0, 1, 2, 3, 4, 5, 6}
    Demands <- MCDemands
    Categories = {"schema"}
    SinkFaults = {}
    None = None
    InjectionRounds = {0, 1, 2, 3, 4, 5}
INVARIANT CasesEndAsRecorded
PROPERTY CasesEnd
