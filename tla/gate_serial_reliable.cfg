SPECIFICATION Spec
CONSTANTS
  None = None
  Threads = {1, 2, 3, 4, 5, 6}
  Ids = {r1, r2}
  Users = {alice, bob}
  Queries = {q1, q2}
  Forged = {}
  Lead = 1
  TTL = 1
  MaxInstant = 4
  MaxTime = 4
  MaxActive = 1
  Outcomes <- Reliable
  CanCrash = FALSE
SYMMETRY Symmetry
CONSTRAINT InOrder
INVARIANTS TimelineTellsStatus AtMostOnce FreshWhenSwept
