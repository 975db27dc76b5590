SPECIFICATION Spec
CONSTANTS
  None = None
  Threads = {1, 2, 3, 4, 5}
  Ids = {r1}
  Users = {alice, bob}
  Queries = {q1}
  Forged = {}
  Lead = 0
  TTL = 0
  MaxInstant = 10
  MaxTime = 2
  MaxActive = 1
  Outcomes <- Faulty
  CanCrash = TRUE
SYMMETRY Symmetry
CONSTRAINT OneKill
INVARIANTS TimelineInOrder
PROPERTIES ImplementsLifecycle
