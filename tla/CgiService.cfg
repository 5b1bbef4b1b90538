\* Two threads, three connections, two failing calls: safety and refinement.
\* No deadlock check: threads wait in accept, or the process has ended.
SPECIFICATION CgiSpec
CONSTANTS
  Workers = {w1, w2}
  Conns = {c1, c2, c3}
  Shapes <- AllShapes
  None = None
  MaxFaults = 2
SYMMETRY Symmetry
CHECK_DEADLOCK FALSE
INVARIANT CgiTypeOK
INVARIANT OneWorkerPerConnection
INVARIANT ReadBeforeWork
INVARIANT StallsOnlyOnClients
INVARIANT LeaksOnlyWithoutQuery
INVARIANT PoolAccounting
PROPERTY ImplementsService
