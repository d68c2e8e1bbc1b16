SPECIFICATION Spec
CONSTANTS
    Names = {a, b}
    Rows = {r1, r2}
    IsoLevels = {"rc"}
    DefaultIso = "rc"
    ZeroIso = "rc"
    MaxSubId = 4
    MaxCalls = 4
    MaxStmts = 2
    MaxSpi = 2
    Messages = {"Q", "X"}
    Features = {"procedure", "prepare"}
SYMMETRY Interchangeable
INVARIANT TypeOK
INVARIANT StackShape
INVARIANT FatalOnlyAfterFailedStart
PROPERTY FailedNeverCommits
PROPERTY StringIsAtomic
PROPERTY ImplementsSqlBlock
