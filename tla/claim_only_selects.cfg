SPECIFICATION SubmissionSpec
CONSTANTS
  Pieces <- LinePieces
  MaxPieces = 5
  Streams <- MCStreams
  Results <- MCResults
  MaxBody = 25
  MaxQueryLen = 6
INVARIANTS OnlySelects
CHECK_DEADLOCK FALSE
