\* Three launches of every kind, at once and one after another, with processes
\* killed at any point.
\* No deadlock check: a finite number of launches may all have ended.
SPECIFICATION LaunchSpec
CONSTANTS
  Launches = {l1, l2, l3}
  Modes = {"start", "init", "test", "print"}
  Paths = {config, other}
  ConfigPath = config
  None = None
SYMMETRY Symmetry
CHECK_DEADLOCK FALSE
INVARIANT LaunchTypeOK
INVARIANT AtMostOneDaemon
INVARIANT PidFileNamesDaemon
INVARIANT OverrideStaysReachable
INVARIANT LockWhileDaemon
PROPERTY RefusedOnlyByDaemon
