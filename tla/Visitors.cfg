\* One browser with two pages, four requests (browsers share nothing but the
\* clock).
\* No deadlock check: requests and the clock are bounded.
SPECIFICATION VisitorsSpec
CONSTANTS
  Visitors = {v}
  Tabs = {t1, t2}
  Jars <- MCJars
  Forms <- MCForms
  Garbage <- MCGarbage
  NotSet = NotSet
  NoId = NoId
  Year = 2
  DaySeconds = 4
  DefaultDays = 5
  IntHalf = 64
  StdinMax = 3
  MaxTime = 4
  MaxVisits = 4
CHECK_DEADLOCK FALSE
INVARIANT VisitorsTypeOK
INVARIANT EmptyIdOnlyOnce
PROPERTY IdentityKept
