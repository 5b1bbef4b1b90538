\* A launch after another: what the refused one has done to the daemon.
\* No deadlock check: a finite number of launches may all have ended.
SPECIFICATION LaunchSpec
CONSTANTS
  Launches = {l1, l2}
  Modes = {"start"}
  Paths = {config, other}
  ConfigPath = config
  None = None
CHECK_DEADLOCK FALSE
INVARIANT RefusalLeavesService
