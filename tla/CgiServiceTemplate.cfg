\* A template file that cannot be read against the verdict on the configuration.
SPECIFICATION CgiSpec
CONSTANTS
  Workers = {w1, w2}
  Conns = {c1}
  Shapes <- AllShapes
  None = None
  MaxFaults = 0
CHECK_DEADLOCK FALSE
INVARIANT LoadedConfigServes
