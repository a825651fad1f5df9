CONSTANTS
  ChunkSize = 3
  MaxResults = 1
  Byte <- NewlineAndHit
  Eof = 1000
  CanRotate = TRUE
  MaxBytes = 6
SPECIFICATION FairSpec
INVARIANTS ExaminesOwnLines NoLineTwice AllLinesExamined BatchCut TotalExact
PROPERTIES SearchTaskReturns
CHECK_DEADLOCK FALSE
