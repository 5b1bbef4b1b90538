\* Two browsers without cookies that come in the same second.
\* No deadlock check: requests and the clock are bounded.
SPECIFICATION VisitorsSpec
CONSTANTS
  Visitors = {u, v}
  Tabs = {t1}
  Jars <- NoJars
  Forms <- NoForms
  Garbage <- MCGarbage
  NotSet = NotSet
  NoId = NoId
  Year = 2
  DaySeconds = 4
  DefaultDays = 5
  IntHalf = 64
  StdinMax = 3
  MaxTime = 1
  MaxVisits = 2
CHECK_DEADLOCK FALSE
INVARIANT UniqueIds
