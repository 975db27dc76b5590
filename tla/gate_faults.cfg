SPECIFICATION Spec
CONSTANTS
  None = None
  Threads = {1, 2, 3, 4}
  Ids = {r1}
  Users = {alice, bob}
  Queries = {q1}
  Forged = {f1}
  Lead = 0
  TTL = 1
  MaxInstant = 10
  MaxTime = 1
  MaxActive = 2
  Outcomes <- Faulty
  CanCrash = TRUE
SYMMETRY Symmetry
CONSTRAINT InOrder
INVARIANTS TypeOK NothingUnpreviewed FourEyes RecordsTruthful TextIntegrity GateInv
PROPERTIES PreviewedOnce
