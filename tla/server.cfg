SPECIFICATION FairServiceSpec
CONSTANTS
  c1 = c1
  c2 = c2
  c3 = c3
  Conns = {c1, c2, c3}
  Slow = {c3}
  Faults = TRUE
  Assets <- MCAssets
  Unsafe = {".."}
  Sends <- MCSends
  PoolSize = 1
  Starts <- MCStarts
INVARIANTS ServiceTypeOK GracefulExit DoorCloses NoLeak OnlyAdmitted ServesWithoutDatabase OffersReach
PROPERTIES PromptServed ShutdownEnds ImplementsServer
