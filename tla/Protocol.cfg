SPECIFICATION Spec
CONSTANTS
    Names = {a}
    Rows = {r1, r2}
    IsoLevels = {"rc"}
    DefaultIso = "rc"
    ZeroIso = "rc"
    MaxSubId = 3
    MaxCalls = 3
    MaxStmts = 2
    MaxSpi = 1
    Messages = {"Q", "F", "E", "P", "C", "S", "X", "D"}
    Features = {"immediate", "procedure"}
INVARIANT ReadyStatusTrue
INVARIANT ReadyWhenOwed
INVARIANT SpiMatchesCalls
INVARIANT ImmediateAlone
PROPERTY ErrorRecovered
