SPECIFICATION Spec
CONSTANTS
    b1 = b1
    b2 = b2
    t1 = t1
    t2 = t2
    p1 = p1
    p2 = p2
    ckpt = ckpt
    dropper = dropper
    NULL = NULL
    Buffers = {b1, b2}
    Tags = {t1, t2}
    Partition <- Apart
    Cached <- OnePage
    Backends = {p1, p2}
    Cleaners = {p1}
    Checkpointers = {ckpt}
    Droppers = {dropper}
    DropTag = t2
    Writers = {p1}
    Hints = {p2}
    HintsLogged = TRUE
    SkippingWAL = {t2}
    Errors = {p1, ckpt}
    Nested = {p1}
    MaxLsn = 2
    MaxUnlogged = 1
    MaxBegun = 3
CHECK_DEADLOCK FALSE
INVARIANT UsersKeepTheirPage
INVARIANT ContentsAreCurrent
INVARIANT WalBeforeData
INVARIANT CheckpointedIsOnDisk
INVARIANT CleanupIsAlone
