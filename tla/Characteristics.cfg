SPECIFICATION Spec
CONSTANTS
    Names = {a}
    Rows = {}
    IsoLevels = {"ru", "rc", "rr"}
    DefaultIso = "rc"
    ZeroIso = "ru"
    MaxSubId = 3
    MaxCalls = 0
    MaxStmts = 1
    MaxSpi = 2
    Messages = {"Q", "X"}
    Features = {"options", "chain"}
INVARIANT ReadOnlyInherited
INVARIANT ChainOnlyIfAsked
PROPERTY ChainKeepsLive
