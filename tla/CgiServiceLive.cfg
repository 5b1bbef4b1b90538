\* Two threads, two connections, two failing calls: everyone is answered.
\* No deadlock check: threads wait in accept, or the process has ended.
SPECIFICATION FairCgiSpec
CONSTANTS
  Workers = {w1, w2}
  Conns = {c1, c2}
  Shapes <- AllShapes
  None = None
  MaxFaults = 2
CHECK_DEADLOCK FALSE
PROPERTY EveryRequestAnswered
