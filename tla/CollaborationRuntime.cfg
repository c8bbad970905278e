SPECIFICATION CFairSpec
CONSTANTS
    c1 = c1
    c2 = c2
    Clients = {c1, c2}
    Sessions = {c1}
    Identities <- MCOneOrTwoModels
    MaxCalls = 2
    ExitHandler = ExitHandler
    None = None
INVARIANT
    OneThreadPerClient
PROPERTIES
    RunsEnd
    ResultsAreDelivered
