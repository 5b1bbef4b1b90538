----------------------------- MODULE Statistics -----------------------------
(***************************************************************************)
(* The request counter that Core::Process increments and the status page   *)
(* that BaseCore::Status computes from it.                                 *)
(*                                                                         *)
(* Every worker thread of CgiService runs both functions, and neither the  *)
(* global request_processed_ nor the two function-level statics of Status  *)
(* is protected by a lock.  Each source-level access to one of those       *)
(* variables is therefore a step of its own here, so that the data races   *)
(* of the program are interleavings of the model: request_processed_++ is  *)
(* an unlocked read-modify-write, i.e. a load step and a store step.       *)
(*                                                                         *)
(* Times are offsets from time_service_started_.  An `int' holds           *)
(* -IntHalf .. IntHalf-1 and an `unsigned long' 0 .. LongRange-1 (2^31 and *)
(* 2^64 in the build); the conversions of the source are the operators     *)
(* AsInt and AsULong.  The counter itself is a plain natural number: 2^64  *)
(* increments are out of reach.                                            *)
(***************************************************************************)
EXTENDS Integers

CONSTANTS
  Workers,     \* the threads that run Serve
  Millis,      \* the factor 1000 of the rate computations
  IntHalf,     \* half the number of values of an int
  LongRange,   \* the number of values of an unsigned long
  MaxServed,   \* bound: no Process call starts once this many have counted
  MaxClock,    \* bound: the clock never runs further ahead than this
  MaxBack      \* bound: nor further behind the start of the service

ASSUME StatisticsAssumption ==
  /\ Millis \in Nat \ {0}
  /\ IntHalf \in Nat \ {0}
  /\ LongRange \in Nat /\ LongRange >= 2 * IntHalf
  /\ MaxServed \in Nat
  /\ MaxClock \in Nat
  /\ MaxBack \in Nat

VARIABLES
  request_processed_,           \* the global counter
  last_time_accessed,           \* static ptime of Status, or NotADateTime
  last_time_request_processed,  \* static int of Status
  clock,                        \* what local_time() returns now
  at,                           \* where each thread is in Process or Status
  count,                        \* each thread's loaded value of the counter
  now,                          \* Status' local of the same name
  elapsed,                      \* millisecs_since_last_access
  current,                      \* requests_per_second_current
  average,                      \* requests_per_second_average
  served,        \* history: Process calls whose increment is complete
  servedAtMark,  \* history: served when Status last marked its baseline
  latestAccess,  \* history: the clock at the latest Status call
  overlapped     \* history: two threads have been at the shared data at once

shared == <<request_processed_, last_time_accessed,
            last_time_request_processed>>
locals == <<count, now, elapsed, current, average>>
history == <<served, servedAtMark, latestAccess>>

statisticsVars == <<shared, clock, at, locals, history, overlapped>>

(* A default constructed ptime; no reading of the clock has this value. *)
NotADateTime == -MaxBack - 1

(* Conversion to int and to unsigned long: the value modulo the width. *)
AsInt(x) == ((x + IntHalf) % (2 * IntHalf)) - IntHalf
AsULong(x) == x % LongRange

ProcessPoints == {"increment", "format"}
StatusPoints == {"default", "clock", "elapsed", "count", "current", "average",
                 "stamp", "mark", "remember", "print"}
Points == {"out"} \cup ProcessPoints \cup StatusPoints

(* Where a thread is done with the shared data: outside, or on its way out  *)
(* of Process, which after its increment works on data of its own.          *)
Apart == {"out", "format"}

Moves(w, from, to) ==
  /\ at[w] = from
  /\ at' = [at EXCEPT ![w] = to]

Enter(w, to) ==
  /\ Moves(w, "out", to)
  /\ overlapped' = (overlapped \/ \E v \in Workers \ {w} : at[v] \notin Apart)

Goto(w, from, to) == Moves(w, from, to) /\ UNCHANGED overlapped

-----------------------------------------------------------------------------
StatisticsInit ==
  /\ request_processed_ = 0
  /\ last_time_accessed = NotADateTime
  /\ last_time_request_processed = 0
  /\ clock = 0
  /\ at = [w \in Workers |-> "out"]
  /\ count = [w \in Workers |-> 0]
  /\ now = [w \in Workers |-> 0]
  /\ elapsed = [w \in Workers |-> 0]
  /\ current = [w \in Workers |-> 0]
  /\ average = [w \in Workers |-> 0]
  /\ served = 0
  /\ servedAtMark = 0
  /\ latestAccess = NotADateTime
  /\ overlapped = FALSE

(* Mutants are named for the slip they contain: the bug a run has to find   *)
(* when the definition that follows is exchanged for them.                  *)
MutantStoreAddsTwo(w) ==
  /\ Goto(w, "increment", "format")
  /\ request_processed_' = count[w] + 2
  /\ served' = served + 1
  /\ count' = [count EXCEPT ![w] = 0]
  /\ UNCHANGED <<last_time_accessed, last_time_request_processed, clock, now,
                 elapsed, current, average, servedAtMark, latestAccess>>

(* Core::Process: request_processed_++, load then store. *)
ProcessLoad(w) ==
  /\ served < MaxServed
  /\ Enter(w, "increment")
  /\ count' = [count EXCEPT ![w] = request_processed_]
  /\ UNCHANGED <<shared, clock, now, elapsed, current, average, history>>

ProcessStore(w) ==
  /\ Goto(w, "increment", "format")
  /\ request_processed_' = count[w] + 1
  /\ served' = served + 1
  /\ count' = [count EXCEPT ![w] = 0]
  /\ UNCHANGED <<last_time_accessed, last_time_request_processed, clock, now,
                 elapsed, current, average, servedAtMark, latestAccess>>

(* The page is formatted and returned. *)
ProcessReturn(w) ==
  /\ Goto(w, "format", "out")
  /\ UNCHANGED <<shared, clock, locals, history>>

(* The first call ever takes the start of the service as the last access:   *)
(* the test, then the assignment.                                           *)
StatusEnter(w) ==
  /\ Enter(w, IF last_time_accessed = NotADateTime THEN "default" ELSE "clock")
  /\ UNCHANGED <<shared, clock, locals, history>>

StatusDefault(w) ==
  /\ Goto(w, "default", "clock")
  /\ last_time_accessed' = 0
  /\ UNCHANGED <<request_processed_, last_time_request_processed, clock,
                 locals, history>>

StatusClock(w) ==
  /\ Goto(w, "clock", "elapsed")
  /\ now' = [now EXCEPT ![w] = clock]
  /\ latestAccess' = clock
  /\ UNCHANGED <<shared, clock, count, elapsed, current, average, served,
                 servedAtMark>>

(* A zero interval skips the computation of the current rate. *)
StatusElapsed(w) ==
  LET millisecs == AsInt(now[w] - last_time_accessed)
  IN  /\ Goto(w, "elapsed", IF millisecs # 0 THEN "count" ELSE "average")
      /\ elapsed' = [elapsed EXCEPT ![w] = millisecs]
      /\ UNCHANGED <<shared, clock, count, now, current, average, history>>

StatusCount(w) ==
  /\ Goto(w, "count", "current")
  /\ count' = [count EXCEPT ![w] = request_processed_]
  /\ UNCHANGED <<shared, clock, now, elapsed, current, average, history>>

(* Both operands of the division are converted to unsigned long.  An       *)
(* interval other than 0 stays other than 0 under that conversion.         *)
MutantRateNotNarrowed(processed, previous, millisecs) ==
  AsULong(AsULong(processed - previous) * Millis) \div AsULong(millisecs)

MutantRateDividesFirst(processed, previous, millisecs) ==
  AsInt((AsULong(processed - previous) \div AsULong(millisecs)) * Millis)

CurrentRate(processed, previous, millisecs) ==
  AsInt(AsULong(AsULong(processed - previous) * Millis) \div AsULong(millisecs))

MutantRateRoundsUp(processed, millisecs) ==
  AsInt(AsULong(processed * Millis + millisecs - 1) \div AsULong(millisecs))

AverageRate(processed, millisecs) ==
  AsInt(AsULong(processed * Millis) \div AsULong(millisecs))

StatusCurrent(w) ==
  /\ Goto(w, "current", "average")
  /\ current' = [current EXCEPT ![w] =
       CurrentRate(count[w], last_time_request_processed, elapsed[w])]
  /\ UNCHANGED <<shared, clock, count, now, elapsed, average, history>>

StatusAverage(w) ==
  LET millisecs == AsInt(now[w])
  IN  /\ Goto(w, "average", "stamp")
      /\ average' = [average EXCEPT ![w] =
           IF millisecs # 0 THEN AverageRate(request_processed_, millisecs)
                            ELSE 0]
      /\ UNCHANGED <<shared, clock, count, now, elapsed, current, history>>

MutantStampReadsClock(w) ==
  /\ Goto(w, "stamp", "mark")
  /\ last_time_accessed' = clock
  /\ UNCHANGED <<request_processed_, last_time_request_processed, clock,
                 locals, history>>

StatusStamp(w) ==
  /\ Goto(w, "stamp", "mark")
  /\ last_time_accessed' = now[w]
  /\ UNCHANGED <<request_processed_, last_time_request_processed, clock,
                 locals, history>>

MutantMarkUsesLoaded(w) ==
  /\ Goto(w, "mark", "remember")
  /\ UNCHANGED <<shared, clock, locals, history>>

(* The new baseline: the counter is loaded once more, then stored. *)
StatusReload(w) ==
  /\ Goto(w, "mark", "remember")
  /\ count' = [count EXCEPT ![w] = request_processed_]
  /\ UNCHANGED <<shared, clock, now, elapsed, current, average, history>>

MutantMarkResetsCounter(w) ==
  /\ Goto(w, "remember", "print")
  /\ last_time_request_processed' = AsInt(count[w])
  /\ request_processed_' = 0
  /\ servedAtMark' = served
  /\ UNCHANGED <<last_time_accessed, clock, locals, served, latestAccess>>

StatusMark(w) ==
  /\ Goto(w, "remember", "print")
  /\ last_time_request_processed' = AsInt(count[w])
  /\ servedAtMark' = served
  /\ UNCHANGED <<request_processed_, last_time_accessed, clock, locals, served,
                 latestAccess>>

(* The page shows request_processed_ and both rates; the frame is gone. *)
StatusPrint(w) ==
  /\ Goto(w, "print", "out")
  /\ count' = [count EXCEPT ![w] = 0]
  /\ now' = [now EXCEPT ![w] = 0]
  /\ elapsed' = [elapsed EXCEPT ![w] = 0]
  /\ current' = [current EXCEPT ![w] = 0]
  /\ average' = [average EXCEPT ![w] = 0]
  /\ UNCHANGED <<shared, clock, history>>

(* local_time() advances, and moves back when daylight saving time ends. *)
Tick ==
  /\ \/ clock < MaxClock /\ clock' = clock + 1
     \/ clock > -MaxBack /\ clock' = clock - 1
  /\ UNCHANGED <<shared, at, locals, history, overlapped>>

ProcessStep(w) == ProcessLoad(w) \/ ProcessStore(w) \/ ProcessReturn(w)

StatusStep(w) ==
  \/ StatusEnter(w)
  \/ StatusDefault(w)
  \/ StatusClock(w)
  \/ StatusElapsed(w)
  \/ StatusCount(w)
  \/ StatusCurrent(w)
  \/ StatusAverage(w)
  \/ StatusStamp(w)
  \/ StatusReload(w)
  \/ StatusMark(w)
  \/ StatusPrint(w)

StatisticsNext ==
  \/ \E w \in Workers : ProcessStep(w) \/ StatusStep(w)
  \/ Tick

StatisticsSpec == StatisticsInit /\ [][StatisticsNext]_statisticsVars

-----------------------------------------------------------------------------
(* Type invariant of the counter, the statics and the frames. *)
StatisticsTypeOK ==
  /\ request_processed_ \in Nat
  /\ last_time_accessed \in Int
  /\ last_time_request_processed \in -IntHalf .. IntHalf - 1
  /\ clock \in Int
  /\ at \in [Workers -> Points]
  /\ count \in [Workers -> Nat]
  /\ now \in [Workers -> Int]
  /\ elapsed \in [Workers -> -IntHalf .. IntHalf - 1]
  /\ current \in [Workers -> -IntHalf .. IntHalf - 1]
  /\ average \in [Workers -> -IntHalf .. IntHalf - 1]
  /\ served \in Nat
  /\ servedAtMark \in Nat
  /\ latestAccess \in Int
  /\ overlapped \in BOOLEAN

(* Whatever increments the races of Core::Process lose, neither the counter *)
(* nor the baseline Status keeps ever exceeds the requests really processed.*)
NeverOvercounts ==
  /\ request_processed_ =< served
  /\ last_time_request_processed =< served

(* The average that Status is about to print never exceeds the true one, as *)
(* long as the uptime in milliseconds fits an int; after that (24.8 days)   *)
(* the claim is false.                                                      *)
AverageNotOverstated ==
  \A w \in Workers :
    at[w] \in {"stamp", "mark", "remember", "print"} /\ now[w] \in 1 .. IntHalf - 1
      => average[w] * now[w] =< served * Millis

(* Comment of Status, BaseCore.cpp:32: the static holds the requests        *)
(* processed as of the previous access to the statistics - while no two     *)
(* calls have overlapped, in whatever threads they were, and their number   *)
(* is in the range of int.                                                  *)
BaselineIsProcessedCount ==
  ~overlapped /\ servedAtMark < IntHalf
    => last_time_request_processed = servedAtMark

(* Comment of Status, BaseCore.cpp:35: the static holds the time of the     *)
(* last access to the statistics, whenever no Status call is under way -    *)
(* while no two calls have overlapped.                                      *)
LastAccessTime ==
  ~overlapped /\ (\A w \in Workers : at[w] \notin StatusPoints)
    => \/ last_time_accessed = latestAccess
       \/ latestAccess = NotADateTime

(* Comment of Status, BaseCore.cpp:40: the two figures are requests per     *)
(* second.  While no two calls have overlapped they are, through all the    *)
(* conversions to int and unsigned long, as long as the interval, the       *)
(* baseline and the figure itself are in the range of int.                  *)
Exactly(figure, requests, millisecs) ==
  millisecs \in 1 .. IntHalf - 1
    /\ (requests * Millis) \div millisecs < IntHalf
      => figure = (requests * Millis) \div millisecs

RatesExact ==
  \A w \in Workers : ~overlapped /\ at[w] = "stamp" =>
    /\ Exactly(average[w], served, now[w])
    /\ servedAtMark < IntHalf =>
         Exactly(current[w], served - servedAtMark, now[w] - last_time_accessed)

(* While no two calls have overlapped the counter never runs backwards. *)
CounterNeverFalls ==
  [][~overlapped => request_processed_' >= request_processed_]_request_processed_
=============================================================================
