SPECIFICATION PSpec
CONSTANTS
    f1 = f1
    f2 = f2
    r1 = r1
    r2 = r2
    s1 = s1
    s2 = s2
    Freezers = {f1, f2}
    Wanted = f1
    Runners = {r1, r2}
    Scorers = {s1, s2}
    FrozenCount = 2
    None = None
INVARIANTS
    DescribedSetIsWhole
    CommandsUseTheFrozenCases
    SealedRunIsWhole
    RowsHaveTheirRecord
    OneScorerPublishes
    ScoresAreOfTheWholeRun
PROPERTY
    ScoringCompletes
CHECK_DEADLOCK FALSE
