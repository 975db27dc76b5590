SPECIFICATION Spec
CONSTANTS
  None = None
  Threads = {1, 2, 3, 4, 5}
  Ids = {r1}
  Users = {alice, bob}
  Queries = {q1}
  Forged = {}
  Lead = 0
  TTL = 1
  MaxInstant = 10
  MaxTime = 1
  MaxActive = 2
  Outcomes <- Reliable
  CanCrash = TRUE
SYMMETRY Symmetry
CONSTRAINT InOrder
INVARIANTS ApprovalOnRecord TimelineComplete
