SPECIFICATION Spec
CONSTANTS
  b1 = b1
  b2 = b2
  w = w
  NULL = NULL
  Backends = {b1, b2}
  WalWriters = {w}
  NUM_XLOGINSERT_LOCKS = 2
  XLogBuffers = 2
  SizeOfXLogRecord = 1
  FirstLock <- OwnLock
  Records <- EveryRecord
  MaxRecords <- OneEach
  CommitDelay = FALSE
  EndOfLog = 9
  LOOPS_UNTIL_HIBERNATE = 1
  XLOG_BLCKSZ = 4
  wal_segment_size = 12
  SizeOfXLogShortPHD = 1
  SizeOfXLogLongPHD = 2
INVARIANT FlushedIsOnDisk
INVARIANT AsyncInThreeCycles
