SPECIFICATION SubmissionSpec
CONSTANTS
  Pieces <- ParenPieces
  MaxPieces = 5
  Streams <- MCStreams
  Results <- MCResults
  MaxBody = 25
  MaxQueryLen = 6
INVARIANTS AlwaysLimited
CHECK_DEADLOCK FALSE
