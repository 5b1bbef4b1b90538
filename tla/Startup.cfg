\* Two launches, one after another, by three users, on a dozen file systems.
\* No deadlock check: a finite number of launches may all have ended.
SPECIFICATION FairStartupSpec
CONSTANTS
  MaxLaunches = 2
  Modes = {"start", "init", "test"}
  Users = {"root", "www", "dev"}
  Root = "root"
  ServiceUser = "www"
  MaxDigits = 2
  Layouts <- MCLayouts
  Directories <- MCDirectories
  MaxIncidents = 1
CHECK_DEADLOCK FALSE
INVARIANT StartupTypeOK
INVARIANT PidFileReadsBack
PROPERTY ImplementsLaunch
PROPERTY LauncherReturns
PROPERTY SuccessLeadsToService
