SPECIFICATION Spec
CONSTANTS
  None = None
  Threads = {1, 2, 3, 4, 5}
  Ids = {r1}
  Users = {alice, bob}
  Queries = {q1}
  Forged = {}
  Lead = 0
  TTL = 1
  MaxInstant = 10
  MaxTime = 3
  MaxActive = 1
  Outcomes <- Reliable
  CanCrash = FALSE
SYMMETRY Symmetry
CONSTRAINT InOrder
PROPERTIES ExpiredNeverExecutes
