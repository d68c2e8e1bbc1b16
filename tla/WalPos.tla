------------------------------- MODULE WalPos -------------------------------
(***************************************************************************)
(* Positions in the write-ahead log, xlog.c.  Space is reserved in usable  *)
(* bytes, which do not count page headers; a record is found by its        *)
(* position in the file, which does.  The unit of both is what a record is *)
(* aligned to.                                                             *)
(***************************************************************************)
EXTENDS Integers, FiniteSets

CONSTANTS XLOG_BLCKSZ, wal_segment_size, SizeOfXLogShortPHD, SizeOfXLogLongPHD

ASSUME WalPosAssumption ==
  /\ SizeOfXLogShortPHD \in Nat \ {0} /\ SizeOfXLogLongPHD \in Nat
  /\ SizeOfXLogShortPHD <= SizeOfXLogLongPHD /\ SizeOfXLogLongPHD < XLOG_BLCKSZ
  /\ wal_segment_size \in Nat \ {0} /\ wal_segment_size % XLOG_BLCKSZ = 0

UsableBytesInPage == XLOG_BLCKSZ - SizeOfXLogShortPHD
UsableBytesInSegment == (wal_segment_size \div XLOG_BLCKSZ) * UsableBytesInPage
                        - (SizeOfXLogLongPHD - SizeOfXLogShortPHD)
UsableBytesInFirst == XLOG_BLCKSZ - SizeOfXLogLongPHD

XLogBytePosToRecPtr(bytepos) ==
  LET left == bytepos % UsableBytesInSegment
      more == left - UsableBytesInFirst
  IN (bytepos \div UsableBytesInSegment) * wal_segment_size +
     IF left < UsableBytesInFirst THEN left + SizeOfXLogLongPHD
     ELSE (1 + more \div UsableBytesInPage) * XLOG_BLCKSZ
          + (more % UsableBytesInPage) + SizeOfXLogShortPHD

XLogBytePosToEndRecPtr(bytepos) ==
  LET left == bytepos % UsableBytesInSegment
      more == left - UsableBytesInFirst
  IN (bytepos \div UsableBytesInSegment) * wal_segment_size +
     IF left < UsableBytesInFirst THEN IF left = 0 THEN 0 ELSE left + SizeOfXLogLongPHD
     ELSE (1 + more \div UsableBytesInPage) * XLOG_BLCKSZ
          + IF more % UsableBytesInPage = 0 THEN 0
            ELSE (more % UsableBytesInPage) + SizeOfXLogShortPHD

XLogRecPtrToBytePos(ptr) ==
  LET fullpages == (ptr % wal_segment_size) \div XLOG_BLCKSZ
      offset == ptr % XLOG_BLCKSZ
  IN (ptr \div wal_segment_size) * UsableBytesInSegment +
     IF fullpages = 0 THEN IF offset = 0 THEN 0 ELSE offset - SizeOfXLogLongPHD
     ELSE UsableBytesInFirst + (fullpages - 1) * UsableBytesInPage
          + IF offset = 0 THEN 0 ELSE offset - SizeOfXLogShortPHD
-----------------------------------------------------------------------------
PageOf(ptr) == ptr \div XLOG_BLCKSZ
PageStart(ptr) == ptr - (ptr % XLOG_BLCKSZ)
PageHeader(ptr) == IF PageStart(ptr) % wal_segment_size = 0 THEN SizeOfXLogLongPHD
                   ELSE SizeOfXLogShortPHD
InHeader(ptr) == ptr % XLOG_BLCKSZ < PageHeader(ptr)

=============================================================================
