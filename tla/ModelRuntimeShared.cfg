SPECIFICATION FairSpec
CONSTANTS
    c1 = c1
    c2 = c2
    c3 = c3
    Clients = {c1, c2, c3}
    Identities <- MCSwitch
    MaxCalls = 1
    ExitHandler = ExitHandler
    None = None
INVARIANTS
    NativeUseIsSafe
    OneModelInMemory
    LeasesAreCounted
    LiveClientsKeepTheirModel
PROPERTY RegistryIsReleased
