\* Two threads, calls that overlap and calls that do not; the clock moves both
\* ways, and the uptime leaves the range of int.
SPECIFICATION StatisticsSpec
CONSTANTS
  Workers = {w1, w2}
  Millis = 3
  IntHalf = 3
  LongRange = 24
  MaxServed = 2
  MaxClock = 3
  MaxBack = 0
SYMMETRY Symmetry
INVARIANT StatisticsTypeOK
INVARIANT NeverOvercounts
INVARIANT AverageNotOverstated
INVARIANT BaselineIsProcessedCount
INVARIANT LastAccessTime
INVARIANT RatesExact
PROPERTY CounterNeverFalls
