SPECIFICATION Spec
CONSTANTS
    w1 = w1
    w2 = w2
    w3 = w3
    Writers = {w1, w2, w3}
    Process <- MCProcess
    Run <- MCRun
    None = None
INVARIANTS
    PublishedIsComplete
    ReturnedIsDurable
PROPERTIES
    ImplementsArchive
    PublishedStays
