SPECIFICATION SubmissionSpec
CONSTANTS
  Pieces <- MCPieces
  MaxPieces = 5
  Streams <- MCStreams
  Results <- MCResults
  MaxBody = 25
  MaxQueryLen = 6
INVARIANTS StoredWhole AcceptedIsOneSelect PreviewTellsExecution CellTruthful
CHECK_DEADLOCK FALSE
