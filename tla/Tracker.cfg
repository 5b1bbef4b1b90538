\* Two threads, three connections: the counter and the pages together.
\* No deadlock check: threads wait in accept, or the process has ended.
SPECIFICATION TrackerSpec
CONSTANTS
  Workers = {w1, w2}
  Conns = {c1, c2, c3}
  Shapes <- MainShapes
  None = None
  MaxFaults = 1
  Millis = 2
  IntHalf = 4
  LongRange = 64
  MaxServed = 4
  MaxClock = 1
  MaxBack = 0
SYMMETRY Symmetry
CHECK_DEADLOCK FALSE
INVARIANT CountsOnlyPages
INVARIANT CountsEveryPage
