\* Four kinds of pages, one early end, a queue of two offers: two pages in two
\* tabs at once, three one after another.
\* No deadlock check: pages are bounded.
SPECIFICATION HistorySpec
CONSTANTS
  Tabs = {t, u}
  Visits <- MCVisits
  Past <- MCPast
  NoAccount = NoAccount
  All = All
  NoTime = NoTime
  acc1 = acc1
  acc2 = acc2
  off1 = off1
  off2 = off2
  off3 = off3
  QueueSize = 2
  MaxVisits = 3
  MaxRacing = 2
  MaxFailures = 1
SYMMETRY Symmetry
CHECK_DEADLOCK FALSE
INVARIANT HistoryTypeOK
INVARIANT AloneNothingLost
INVARIANT NeverInvented
