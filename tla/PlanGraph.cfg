SPECIFICATION FairSpec
CONSTANTS
    Names <- MCNames
    Types <- MCTypes
    AllowedTypes <- MCAllowed
    Required <- MCRequired
    Inputs <- MCInputs
INVARIANTS
    AcceptedPlansAreAcyclic
    CycleErrorsAreCycles
PROPERTY SearchEnds
