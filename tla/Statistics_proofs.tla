-------------------------- MODULE Statistics_proofs --------------------------
(***************************************************************************)
(* Proofs about Statistics, for any number of threads, any widths of int   *)
(* and unsigned long and any bounds: the type invariant, that the counter  *)
(* never exceeds the number of requests processed and the average never    *)
(* the true one, and that all the status page shows is exact while calls   *)
(* do not overlap.                                                         *)
(***************************************************************************)
EXTENDS Statistics, TLAPS

(* The remainder and the quotient of a division by a positive number. *)
LEMMA Remainder ==
  ASSUME NEW a \in Int, NEW b \in Nat \ {0}
  PROVE  /\ a % b \in 0 .. b - 1
         /\ a >= 0 => a % b =< a
         /\ a \in 0 .. b - 1 => a % b = a
         /\ a \in -b .. -1 => a % b = a + b
  OBVIOUS

LEMMA Quotient ==
  ASSUME NEW a \in Int, NEW b \in Nat \ {0}
  PROVE  a \div b \in Int
  OBVIOUS

(* The values of an int. *)
IntValues == -IntHalf .. IntHalf - 1

(* A conversion to int has an int value, which is not greater than a        *)
(* natural number it is made from; zero alone becomes zero among the ints   *)
(* that are converted to unsigned long, so that no division is by zero.     *)
LEMMA AsIntRange ==
  ASSUME NEW x \in Int
  PROVE  /\ AsInt(x) \in IntValues
         /\ x \in Nat => AsInt(x) =< x
  BY StatisticsAssumption, Remainder DEF AsInt, IntValues

LEMMA AsULongRange ==
  ASSUME NEW x \in Int
  PROVE  /\ AsULong(x) \in Nat
         /\ x \in IntValues /\ x # 0 => AsULong(x) # 0
  BY StatisticsAssumption, Remainder DEF AsULong, IntValues

(* The rates are ints whenever the interval they are computed from is an    *)
(* int other than zero.                                                     *)
LEMMA RateRange ==
  ASSUME NEW processed \in Int, NEW previous \in Int,
         NEW millisecs \in IntValues, millisecs # 0
  PROVE  /\ CurrentRate(processed, previous, millisecs) \in IntValues
         /\ AverageRate(processed, millisecs) \in IntValues
<1> DEFINE d == AsULong(millisecs)
           a == AsULong(AsULong(processed - previous) * Millis)
           b == AsULong(processed * Millis)
<1>1. d \in Nat \ {0}
  BY AsULongRange, StatisticsAssumption DEF IntValues
<1>2. a \in Nat /\ b \in Nat
  <2>1. AsULong(processed - previous) \in Nat
    BY AsULongRange
  <2>2. AsULong(processed - previous) * Millis \in Int /\ processed * Millis \in Int
    BY <2>1, StatisticsAssumption
  <2>. QED
    BY <2>2, AsULongRange
<1>3. a \div d \in Int /\ b \div d \in Int
  <2>. HIDE DEF a, b, d
  <2>. QED  BY <1>1, <1>2, Quotient
<1>. QED
  BY <1>3, AsIntRange DEF CurrentRate, AverageRate

(* Conversions leave alone what fits, and never make a natural number       *)
(* greater; a quotient times its divisor is at most the dividend.           *)
LEMMA AsIntFits ==
  ASSUME NEW x \in IntValues
  PROVE  AsInt(x) = x
  BY StatisticsAssumption, Remainder DEF AsInt, IntValues

LEMMA AsULongFits ==
  ASSUME NEW x \in Nat
  PROVE  /\ AsULong(x) \in Nat /\ AsULong(x) =< x
         /\ x < LongRange => AsULong(x) = x
  BY StatisticsAssumption, Remainder DEF AsULong

LEMMA QuotientTimesDivisor ==
  ASSUME NEW a \in Nat, NEW b \in Nat \ {0}
  PROVE  /\ a \div b \in Nat /\ (a \div b) * b =< a
         /\ \A c \in Nat : a \div b < c => a < c * b
<1> DEFINE q == a \div b
<1>1. q \in Nat /\ q * b =< a /\ a < (q + 1) * b
  OBVIOUS
<1>2. ASSUME NEW c \in Nat, q < c  PROVE a < c * b
  <2> HIDE DEF q
  <2>1. q + 1 =< c
    BY <1>1, <1>2
  <2>2. (q + 1) * b =< c * b
    BY <1>1, <2>1
  <2>. QED
    BY <1>1, <2>2
<1>. QED
  BY <1>1, <1>2

LEMMA TimesMonotone ==
  ASSUME NEW a \in Nat, NEW b \in Nat, NEW c \in Nat, a =< b
  PROVE  a * c =< b * c /\ a * c \in Nat /\ b * c \in Nat
  OBVIOUS

(* The average is never more than the true rate, whatever overflows.        *)
LEMMA AverageRateBound ==
  ASSUME NEW n \in Nat, NEW m \in 1 .. IntHalf - 1
  PROVE  AverageRate(n, m) * m =< n * Millis
<1> DEFINE a == AsULong(n * Millis)
           q == a \div m
           r == AsInt(q)
<1>1. m \in Nat \ {0} /\ m < LongRange /\ AsULong(m) = m
  BY StatisticsAssumption, AsULongFits
<1>2. n * Millis \in Nat /\ a \in Nat /\ a =< n * Millis
  BY StatisticsAssumption, AsULongFits
<1>3. q \in Nat /\ q * m =< a
  <2> HIDE DEF a
  <2>. QED  BY <1>1, <1>2, QuotientTimesDivisor
<1>4. r \in Int /\ r =< q
  <2> HIDE DEF q
  <2>. QED  BY <1>3, AsIntRange DEF IntValues
<1>5. r * m =< q * m
  <2> HIDE DEF q, r
  <2>. QED  BY <1>1, <1>3, <1>4
<1>6. AverageRate(n, m) = r
  BY <1>1 DEF AverageRate
<1>7. r * m \in Int /\ q * m \in Int
  <2> HIDE DEF q, r
  <2>. QED  BY <1>1, <1>3, <1>4
<1>. QED
  <2> HIDE DEF a, q, r
  <2>. QED  BY <1>2, <1>3, <1>5, <1>6, <1>7

(* And it is the true rate, rounded down, as long as that and the interval  *)
(* are in the range of int, if the product of two ints is an unsigned long. *)
LEMMA AverageRateExact ==
  ASSUME LongRange >= IntHalf * IntHalf,
         NEW n \in Nat, NEW m \in 1 .. IntHalf - 1,
         (n * Millis) \div m < IntHalf
  PROVE  AverageRate(n, m) = (n * Millis) \div m
<1> DEFINE a == n * Millis
           q == a \div m
<1>1. m \in Nat \ {0} /\ m < LongRange /\ AsULong(m) = m
  BY StatisticsAssumption, AsULongFits
<1>2. a \in Nat
  BY StatisticsAssumption
<1>3. q \in Nat /\ a < IntHalf * m
  <2> HIDE DEF a
  <2>. QED  BY <1>1, <1>2, QuotientTimesDivisor, StatisticsAssumption DEF a
<1>4. IntHalf * m =< IntHalf * IntHalf
  BY StatisticsAssumption, <1>1
<1>5. a < LongRange
  <2> HIDE DEF a
  <2>. QED  BY <1>1, <1>2, <1>3, <1>4, StatisticsAssumption
<1>6. AsULong(a) = a
  <2> HIDE DEF a
  <2>. QED  BY <1>2, <1>5, AsULongFits
<1>7. AsInt(q) = q
  <2>1. q \in IntValues
    BY <1>3, StatisticsAssumption DEF IntValues
  <2>. QED  BY <2>1, AsIntFits
<1>. QED
  BY <1>1, <1>6, <1>7 DEF AverageRate

LEMMA CurrentRateExact ==
  ASSUME LongRange >= IntHalf * IntHalf,
         NEW n \in Nat, NEW p \in Nat, p =< n, NEW m \in 1 .. IntHalf - 1,
         ((n - p) * Millis) \div m < IntHalf
  PROVE  CurrentRate(n, p, m) = ((n - p) * Millis) \div m
<1> DEFINE d == n - p
<1>1. d \in Nat
  OBVIOUS
<1>2. m \in Nat \ {0}
  OBVIOUS
<1>3. d * Millis < IntHalf * m
  <2>1. d * Millis \in Nat
    BY <1>1, StatisticsAssumption
  <2>. QED
    BY <1>2, <2>1, QuotientTimesDivisor, StatisticsAssumption
<1>4. IntHalf * m =< IntHalf * IntHalf
  BY StatisticsAssumption, <1>2
<1>5. d =< d * Millis
  BY <1>1, StatisticsAssumption
<1>6. d < LongRange
  <2>1. d * Millis \in Nat /\ IntHalf * m \in Nat /\ IntHalf * IntHalf \in Nat
    BY <1>1, <1>2, StatisticsAssumption
  <2> HIDE DEF d
  <2>. QED
    BY <1>1, <1>3, <1>4, <1>5, <2>1, StatisticsAssumption
<1>7. AsULong(d) = d
  <2> HIDE DEF d
  <2>. QED  BY <1>1, <1>6, AsULongFits
<1>8. CurrentRate(n, p, m) = AverageRate(d, m)
  BY <1>7 DEF CurrentRate, AverageRate
<1>. QED
  BY <1>1, <1>8, AverageRateExact

-----------------------------------------------------------------------------
(* StatusCurrent divides by the interval, so the type of its result rests   *)
(* on the test that StatusElapsed made before.                              *)
DivisorSet ==
  \A w \in Workers : at[w] \in {"count", "current"} => elapsed[w] # 0

TypeInv == StatisticsTypeOK /\ DivisorSet

LEMMA TypeInvInit == StatisticsInit => TypeInv
<1> SUFFICES ASSUME StatisticsInit  PROVE TypeInv
  OBVIOUS
<1> USE DEF StatisticsInit
<1>1. overlapped \in BOOLEAN /\ at \in [Workers -> Points]
  BY Zenon DEF Points
<1>2. NotADateTime \in Int /\ 0 \in -IntHalf .. IntHalf - 1
  BY StatisticsAssumption DEF NotADateTime
<1>3. DivisorSet
  BY DEF DivisorSet
<1>. QED
  BY <1>1, <1>2, <1>3 DEF TypeInv, StatisticsTypeOK

LEMMA TypeInvNext == TypeInv /\ [StatisticsNext]_statisticsVars => TypeInv'
<1> SUFFICES ASSUME TypeInv, [StatisticsNext]_statisticsVars
             PROVE  TypeInv'
  OBVIOUS
<1> USE DEF TypeInv, StatisticsTypeOK, DivisorSet, IntValues
<1> USE StatisticsAssumption
<1>1. ASSUME NEW w \in Workers, ProcessLoad(w)  PROVE TypeInv'
  BY <1>1 DEF ProcessLoad, Enter, Moves, shared, history, Points, ProcessPoints
<1>2. ASSUME NEW w \in Workers, ProcessStore(w)  PROVE TypeInv'
  BY <1>2 DEF ProcessStore, Goto, Moves, Points, ProcessPoints
<1>3. ASSUME NEW w \in Workers, ProcessReturn(w)  PROVE TypeInv'
  BY <1>3 DEF ProcessReturn, Goto, Moves, shared, locals, history, Points
<1>4. ASSUME NEW w \in Workers, StatusEnter(w)  PROVE TypeInv'
  BY <1>4 DEF StatusEnter, Enter, Moves, shared, locals, history, Points, StatusPoints
<1>5. ASSUME NEW w \in Workers, StatusDefault(w)  PROVE TypeInv'
  BY <1>5 DEF StatusDefault, Goto, Moves, locals, history, Points, StatusPoints
<1>6. ASSUME NEW w \in Workers, StatusReload(w)  PROVE TypeInv'
  BY <1>6 DEF StatusReload, Goto, Moves, shared, history, Points, StatusPoints
<1>7. ASSUME NEW w \in Workers, StatusClock(w)  PROVE TypeInv'
  BY <1>7 DEF StatusClock, Goto, Moves, shared, Points, StatusPoints
<1>8. ASSUME NEW w \in Workers, StatusElapsed(w)  PROVE TypeInv'
  <2>1. AsInt(now[w] - last_time_accessed) \in IntValues
    BY AsIntRange
  <2>. QED
    BY <1>8, <2>1 DEF StatusElapsed, Goto, Moves, shared, history, Points, StatusPoints
<1>9. ASSUME NEW w \in Workers, StatusCount(w)  PROVE TypeInv'
  BY <1>9 DEF StatusCount, Goto, Moves, shared, history, Points, StatusPoints
<1>10. ASSUME NEW w \in Workers, StatusCurrent(w)  PROVE TypeInv'
  <2>1. elapsed[w] \in IntValues /\ elapsed[w] # 0
    BY <1>10 DEF StatusCurrent, Goto, Moves
  <2>2. CurrentRate(count[w], last_time_request_processed, elapsed[w]) \in IntValues
    <3>1. count[w] \in Int /\ last_time_request_processed \in Int
      OBVIOUS
    <3>. QED
      BY ONLY <2>1, <3>1, RateRange
  <2>. QED
    BY <1>10, <2>2 DEF StatusCurrent, Goto, Moves, shared, history, Points, StatusPoints
<1>11. ASSUME NEW w \in Workers, StatusAverage(w)  PROVE TypeInv'
  <2> DEFINE millisecs == AsInt(now[w])
             rate == IF millisecs # 0
                     THEN AverageRate(request_processed_, millisecs) ELSE 0
  <2>1. millisecs \in IntValues
    BY AsIntRange
  <2>2. rate \in IntValues
    <3>1. millisecs # 0 => AverageRate(request_processed_, millisecs) \in IntValues
      <4>1. request_processed_ \in Int
        OBVIOUS
      <4>. HIDE DEF millisecs, IntValues
      <4>. QED
        BY <2>1, <4>1, RateRange
    <3>2. 0 \in IntValues
      OBVIOUS
    <3>. QED
      BY <3>1, <3>2
  <2>. QED
    BY <1>11, <2>2 DEF StatusAverage, Goto, Moves, shared, history, Points, StatusPoints
<1>12. ASSUME NEW w \in Workers, StatusStamp(w)  PROVE TypeInv'
  BY <1>12 DEF StatusStamp, Goto, Moves, locals, history, Points, StatusPoints
<1>13. ASSUME NEW w \in Workers, StatusMark(w)  PROVE TypeInv'
  <2>1. AsInt(count[w]) \in IntValues
    BY AsIntRange
  <2>. QED
    BY <1>13, <2>1 DEF StatusMark, Goto, Moves, locals, Points, StatusPoints
<1>14. ASSUME NEW w \in Workers, StatusPrint(w)  PROVE TypeInv'
  BY <1>14 DEF StatusPrint, Goto, Moves, shared, history, Points, StatusPoints
<1>15. CASE Tick
  BY <1>15 DEF Tick, shared, locals, history
<1>16. CASE UNCHANGED statisticsVars
  BY <1>16 DEF statisticsVars, shared, locals, history
<1>. QED
  BY <1>1, <1>2, <1>3, <1>4, <1>5, <1>6, <1>7, <1>8, <1>9, <1>10, <1>11,
     <1>12, <1>13, <1>14, <1>15, <1>16
  DEF StatisticsNext, ProcessStep, StatusStep

(* The counter, the statics and the frames of Status always hold values of  *)
(* their types: in particular no rate is computed by a division by zero.    *)
THEOREM StatisticsTyped == StatisticsSpec => []StatisticsTypeOK
<1>1. TypeInv => StatisticsTypeOK
  BY DEF TypeInv
<1>. QED
  BY <1>1, TypeInvInit, TypeInvNext, PTL DEF StatisticsSpec

-----------------------------------------------------------------------------
(* NeverOvercounts alone is not inductive: a thread stores what it has      *)
(* loaded, and that must not exceed the requests processed either.          *)
CountsBounded == NeverOvercounts /\ \A w \in Workers : count[w] =< served

LEMMA CountsBoundedInit == StatisticsInit => CountsBounded
  BY DEF StatisticsInit, CountsBounded, NeverOvercounts

LEMMA CountsBoundedNext ==
  TypeInv /\ CountsBounded /\ [StatisticsNext]_statisticsVars => CountsBounded'
<1> SUFFICES ASSUME TypeInv, CountsBounded, [StatisticsNext]_statisticsVars
             PROVE  CountsBounded'
  OBVIOUS
<1> USE DEF TypeInv, StatisticsTypeOK, CountsBounded, NeverOvercounts
<1> USE StatisticsAssumption
<1>1. ASSUME NEW w \in Workers, ProcessLoad(w)  PROVE CountsBounded'
  BY <1>1 DEF ProcessLoad, shared, history
<1>2. ASSUME NEW w \in Workers, ProcessStore(w)  PROVE CountsBounded'
  <2>1. request_processed_' = count[w] + 1 /\ served' = served + 1
    BY <1>2 DEF ProcessStore
  <2>2. \A v \in Workers : count'[v] =< served'
    BY <1>2 DEF ProcessStore
  <2>. QED
    BY <1>2, <2>1, <2>2 DEF ProcessStore
<1>3. ASSUME NEW w \in Workers, StatusReload(w)  PROVE CountsBounded'
  BY <1>3 DEF StatusReload, shared, history
<1>4. ASSUME NEW w \in Workers, StatusCount(w)  PROVE CountsBounded'
  BY <1>4 DEF StatusCount, shared, history
<1>5. ASSUME NEW w \in Workers, StatusMark(w)  PROVE CountsBounded'
  <2>1. AsInt(count[w]) =< count[w]
    BY AsIntRange
  <2>. QED
    BY <1>5, <2>1, AsIntRange DEF StatusMark, locals, IntValues
<1>6. ASSUME NEW w \in Workers, StatusPrint(w)  PROVE CountsBounded'
  BY <1>6 DEF StatusPrint, shared, history
<1>7. ASSUME NEW w \in Workers,
             \/ ProcessReturn(w) \/ StatusEnter(w) \/ StatusDefault(w)
             \/ StatusClock(w) \/ StatusElapsed(w) \/ StatusCurrent(w)
             \/ StatusAverage(w) \/ StatusStamp(w)
      PROVE  CountsBounded'
  BY <1>7 DEF ProcessReturn, StatusEnter, StatusDefault, StatusClock,
              StatusElapsed, StatusCurrent, StatusAverage, StatusStamp, shared,
              locals, history
<1>8. CASE Tick
  BY <1>8 DEF Tick, shared, locals, history
<1>9. CASE UNCHANGED statisticsVars
  BY <1>9 DEF statisticsVars, shared, locals, history
<1>. QED
  BY <1>1, <1>2, <1>3, <1>4, <1>5, <1>6, <1>7, <1>8, <1>9
  DEF StatisticsNext, ProcessStep, StatusStep

(* However the threads interleave their unlocked increments, neither the    *)
(* counter nor the baseline of the status page exceeds the number of        *)
(* requests processed.                                                      *)
THEOREM CounterNeverOvercounts == StatisticsSpec => []NeverOvercounts
<1>1. CountsBounded => NeverOvercounts
  BY DEF CountsBounded
<1>. QED
  BY <1>1, TypeInvInit, TypeInvNext, CountsBoundedInit, CountsBoundedNext, PTL
  DEF StatisticsSpec

-----------------------------------------------------------------------------
(* Whatever increments are lost, what a thread has computed of its uptime   *)
(* stays below the true rate, which only grows.                             *)
LEMMA AverageNext ==
  TypeInv /\ CountsBounded /\ AverageNotOverstated /\ [StatisticsNext]_statisticsVars
    => AverageNotOverstated'
<1> SUFFICES ASSUME TypeInv, CountsBounded, AverageNotOverstated,
                    [StatisticsNext]_statisticsVars
             PROVE  AverageNotOverstated'
  OBVIOUS
<1> USE StatisticsAssumption
    DEF TypeInv, StatisticsTypeOK, AverageNotOverstated
<1>1. ASSUME NEW w \in Workers, ProcessLoad(w)  PROVE AverageNotOverstated'
  BY <1>1 DEF ProcessLoad, Enter, Moves, shared, history
<1>2. ASSUME NEW w \in Workers, ProcessStore(w)  PROVE AverageNotOverstated'
  <2>1. served' * Millis >= served * Millis /\ served * Millis \in Nat
    BY <1>2 DEF ProcessStore
  <2>2. ASSUME NEW v \in Workers,
               at'[v] \in {"stamp", "mark", "remember", "print"}, now'[v] \in 1 .. IntHalf - 1
        PROVE  average'[v] * now'[v] =< served' * Millis
    <3>1. average[v] * now[v] =< served * Millis /\ average[v] * now[v] \in Int
      BY <1>2, <2>2 DEF ProcessStore, Goto, Moves
    <3>2. average'[v] = average[v] /\ now'[v] = now[v] /\ served' * Millis \in Nat
      BY <1>2 DEF ProcessStore
    <3>. QED
      BY <2>1, <3>1, <3>2
  <2>. QED
    BY <2>2
<1>3. ASSUME NEW w \in Workers, ProcessReturn(w)  PROVE AverageNotOverstated'
  BY <1>3 DEF ProcessReturn, Goto, Moves, shared, locals, history
<1>4. ASSUME NEW w \in Workers, StatusEnter(w)  PROVE AverageNotOverstated'
  BY <1>4 DEF StatusEnter, Enter, Moves, shared, locals, history
<1>5. ASSUME NEW w \in Workers, StatusDefault(w)  PROVE AverageNotOverstated'
  BY <1>5 DEF StatusDefault, Goto, Moves, locals, history
<1>6. ASSUME NEW w \in Workers, StatusReload(w)  PROVE AverageNotOverstated'
  BY <1>6 DEF StatusReload, Goto, Moves, shared, history
<1>7. ASSUME NEW w \in Workers, StatusClock(w)  PROVE AverageNotOverstated'
  BY <1>7 DEF StatusClock, Goto, Moves, shared
<1>8. ASSUME NEW w \in Workers, StatusElapsed(w)  PROVE AverageNotOverstated'
  BY <1>8 DEF StatusElapsed, Goto, Moves, shared, history
<1>9. ASSUME NEW w \in Workers, StatusCount(w)  PROVE AverageNotOverstated'
  BY <1>9 DEF StatusCount, Goto, Moves, shared, history
<1>10. ASSUME NEW w \in Workers, StatusCurrent(w)  PROVE AverageNotOverstated'
  BY <1>10 DEF StatusCurrent, Goto, Moves, shared, history
<1>11. ASSUME NEW w \in Workers, StatusAverage(w)  PROVE AverageNotOverstated'
  <2>1. ASSUME now[w] \in 1 .. IntHalf - 1
        PROVE  average'[w] * now[w] =< served * Millis
    <3>1. AsInt(now[w]) = now[w] /\ now[w] # 0
      BY <2>1, AsIntFits DEF IntValues
    <3>2. average'[w] = AverageRate(request_processed_, now[w])
      BY <1>11, <3>1 DEF StatusAverage
    <3>3. AverageRate(request_processed_, now[w]) * now[w] =< request_processed_ * Millis
      BY <2>1, AverageRateBound
    <3>4. request_processed_ * Millis =< served * Millis
      BY DEF CountsBounded, NeverOvercounts
    <3>5. AverageRate(request_processed_, now[w]) \in Int
      <4>1. request_processed_ \in Int
        OBVIOUS
      <4>2. now[w] \in IntValues /\ now[w] # 0
        BY ONLY StatisticsAssumption, <2>1 DEF IntValues
      <4>3. AverageRate(request_processed_, now[w]) \in IntValues
        BY ONLY <4>1, <4>2, RateRange
      <4>. QED
        BY ONLY StatisticsAssumption, <4>3 DEF IntValues
    <3>. QED
      BY <2>1, <3>2, <3>3, <3>4, <3>5
  <2>2. at' = [at EXCEPT ![w] = "stamp"] /\ now' = now /\ served' = served
        /\ \A v \in Workers : v # w => average'[v] = average[v]
    BY <1>11 DEF StatusAverage, Goto, Moves, history
  <2>. QED
    BY <2>1, <2>2
<1>12. ASSUME NEW w \in Workers, StatusStamp(w)  PROVE AverageNotOverstated'
  BY <1>12 DEF StatusStamp, Goto, Moves, locals, history
<1>13. ASSUME NEW w \in Workers, StatusMark(w)  PROVE AverageNotOverstated'
  BY <1>13 DEF StatusMark, Goto, Moves, locals
<1>14. ASSUME NEW w \in Workers, StatusPrint(w)  PROVE AverageNotOverstated'
  BY <1>14 DEF StatusPrint, Goto, Moves, shared, history
<1>15. CASE Tick
  BY <1>15 DEF Tick, shared, locals, history
<1>16. CASE UNCHANGED statisticsVars
  BY <1>16 DEF statisticsVars, shared, locals, history
<1>. QED
  BY <1>1, <1>2, <1>3, <1>4, <1>5, <1>6, <1>7, <1>8, <1>9, <1>10, <1>11,
     <1>12, <1>13, <1>14, <1>15, <1>16
  DEF StatisticsNext, ProcessStep, StatusStep

(* For any number of threads and any widths of int and unsigned long, and   *)
(* whatever increments are lost, the status page never overstates the       *)
(* average while the uptime fits an int.                                    *)
THEOREM AverageBelowTrueRate == StatisticsSpec => []AverageNotOverstated
<1>1. StatisticsInit => AverageNotOverstated
  BY DEF StatisticsInit, AverageNotOverstated
<1>. QED
  BY <1>1, TypeInvInit, TypeInvNext, CountsBoundedInit, CountsBoundedNext,
     AverageNext, PTL DEF StatisticsSpec

-----------------------------------------------------------------------------
(* While no two calls have overlapped: one thread at a time is at the       *)
(* shared data, and nothing it has loaded is out of date.                   *)
OneAtATime ==
  \A v, w \in Workers : v # w => at[v] \in Apart \/ at[w] \in Apart

CounterExact ==
  /\ request_processed_ = served
  /\ \A w \in Workers : at[w] \in {"increment", "current", "remember"} => count[w] = served

BaselineExact ==
  /\ servedAtMark =< served
  /\ servedAtMark < IntHalf => last_time_request_processed = servedAtMark

(* Between its look at the clock and its stamp a thread keeps the time of   *)
(* its access to itself.                                                    *)
Stamping == {"elapsed", "count", "current", "average", "stamp"}

AccessKept ==
  /\ \A w \in Workers : at[w] = "default" => last_time_accessed = NotADateTime
  /\ \A w \in Workers : at[w] \in Stamping => now[w] = latestAccess
  /\ \/ \E w \in Workers : at[w] \in Stamping
     \/ last_time_accessed = latestAccess
     \/ latestAccess = NotADateTime

(* What the locals of Status hold: both rates are those of the counter, the *)
(* baseline and the time of the last access as they still are.              *)
FiguresKept(w) ==
  /\ at[w] \in {"count", "current", "average", "stamp"}
       => elapsed[w] = AsInt(now[w] - last_time_accessed)
  /\ at[w] \in {"average", "stamp"} /\ elapsed[w] # 0
       => current[w] = CurrentRate(served, last_time_request_processed, elapsed[w])
  /\ at[w] = "stamp" /\ AsInt(now[w]) # 0
       => average[w] = AverageRate(served, AsInt(now[w]))

AloneInv ==
  ~overlapped =>
    /\ OneAtATime /\ CounterExact /\ BaselineExact /\ AccessKept
    /\ \A w \in Workers : FiguresKept(w)

LEMMA AloneInit == StatisticsInit => AloneInv
  BY StatisticsAssumption
  DEF StatisticsInit, AloneInv, OneAtATime, CounterExact, BaselineExact,
      AccessKept, FiguresKept, Stamping, Apart

(* Of two threads one is outside, and a call that begins inside another     *)
(* sets overlapped.                                                         *)
LEMMA AloneNext ==
  TypeInv /\ AloneInv /\ [StatisticsNext]_statisticsVars
    => AloneInv'
<1> SUFFICES ASSUME TypeInv, AloneInv,
                    [StatisticsNext]_statisticsVars
             PROVE  AloneInv'
  OBVIOUS
<1> USE StatisticsAssumption
    DEF TypeInv, StatisticsTypeOK, AloneInv, OneAtATime, CounterExact,
        BaselineExact, AccessKept, FiguresKept, Stamping, DivisorSet, Apart
<1>1. ASSUME NEW w \in Workers, ProcessLoad(w)  PROVE AloneInv'
  BY <1>1 DEF ProcessLoad, Enter, Moves, shared, history
<1>2. ASSUME NEW w \in Workers, ProcessStore(w)  PROVE AloneInv'
  BY <1>2 DEF ProcessStore, Goto, Moves
<1>3. ASSUME NEW w \in Workers, ProcessReturn(w)  PROVE AloneInv'
  BY <1>3 DEF ProcessReturn, Goto, Moves, shared, locals, history
<1>4. ASSUME NEW w \in Workers, StatusEnter(w)  PROVE AloneInv'
  BY <1>4 DEF StatusEnter, Enter, Moves, shared, locals, history
<1>5. ASSUME NEW w \in Workers, StatusDefault(w)  PROVE AloneInv'
  BY <1>5 DEF StatusDefault, Goto, Moves, locals, history
<1>6. ASSUME NEW w \in Workers, StatusReload(w)  PROVE AloneInv'
  BY <1>6 DEF StatusReload, Goto, Moves, shared, history
<1>7. ASSUME NEW w \in Workers, StatusClock(w)  PROVE AloneInv'
  BY <1>7 DEF StatusClock, Goto, Moves, shared
<1>8. ASSUME NEW w \in Workers, StatusElapsed(w)  PROVE AloneInv'
  BY <1>8 DEF StatusElapsed, Goto, Moves, shared, history
<1>9. ASSUME NEW w \in Workers, StatusCount(w)  PROVE AloneInv'
  BY <1>9 DEF StatusCount, Goto, Moves, shared, history
<1>10. ASSUME NEW w \in Workers, StatusCurrent(w)  PROVE AloneInv'
  BY <1>10 DEF StatusCurrent, Goto, Moves, shared, history
<1>11. ASSUME NEW w \in Workers, StatusAverage(w)  PROVE AloneInv'
  BY <1>11 DEF StatusAverage, Goto, Moves, shared, history
<1>12. ASSUME NEW w \in Workers, StatusStamp(w)  PROVE AloneInv'
  BY <1>12 DEF StatusStamp, Goto, Moves, locals, history
<1>13. ASSUME NEW w \in Workers, StatusMark(w)  PROVE AloneInv'
  <2>1. served \in Nat /\ request_processed_ \in Nat /\ ~overlapped' => ~overlapped
    BY <1>13 DEF StatusMark, Goto
  <2>2. ~overlapped /\ served < IntHalf => AsInt(count[w]) = served
    BY <1>13, AsIntFits DEF IntValues, StatusMark, Goto, Moves
  <2>. QED
    BY <1>13, <2>1, <2>2 DEF StatusMark, Goto, Moves, locals
<1>14. ASSUME NEW w \in Workers, StatusPrint(w)  PROVE AloneInv'
  BY <1>14 DEF StatusPrint, Goto, Moves, shared, history
<1>15. CASE Tick
  BY <1>15 DEF Tick, shared, locals, history
<1>16. CASE UNCHANGED statisticsVars
  BY <1>16 DEF statisticsVars, shared, locals, history
<1>. QED
  BY <1>1, <1>2, <1>3, <1>4, <1>5, <1>6, <1>7, <1>8, <1>9, <1>10, <1>11,
     <1>12, <1>13, <1>14, <1>15, <1>16
  DEF StatisticsNext, ProcessStep, StatusStep

LEMMA AloneAlways == StatisticsSpec => [](TypeInv /\ AloneInv)
  BY TypeInvInit, TypeInvNext, AloneInit, AloneNext, PTL DEF StatisticsSpec

(* The comments of Status on its two statics, BaseCore.cpp:32 and 35, for   *)
(* calls that do not overlap, in whatever threads.                          *)
THEOREM BaselineKept == StatisticsSpec => []BaselineIsProcessedCount
<1>1. TypeInv /\ AloneInv => BaselineIsProcessedCount
  BY DEF AloneInv, BaselineExact, BaselineIsProcessedCount
<1>. QED
  BY <1>1, AloneAlways, PTL

THEOREM LastAccessKept == StatisticsSpec => []LastAccessTime
<1>1. TypeInv /\ AloneInv => LastAccessTime
  BY DEF AloneInv, AccessKept, LastAccessTime, Stamping, StatusPoints
<1>. QED
  BY <1>1, AloneAlways, PTL

(* A counter that one thread at a time increments never falls.              *)
THEOREM CounterGrows == StatisticsSpec => CounterNeverFalls
<1>1. TypeInv /\ AloneInv /\ [StatisticsNext]_statisticsVars
        => [~overlapped => request_processed_' >= request_processed_]_request_processed_
  <2> SUFFICES ASSUME TypeInv, AloneInv, StatisticsNext, ~overlapped
               PROVE  \/ request_processed_' >= request_processed_
                      \/ request_processed_' = request_processed_
    BY DEF statisticsVars, shared
  <2>1. ASSUME NEW w \in Workers, ProcessStore(w)
        PROVE  request_processed_' >= request_processed_
    BY <2>1 DEF ProcessStore, Goto, Moves, TypeInv, StatisticsTypeOK, AloneInv,
                CounterExact
  <2>2. ASSUME NEW w \in Workers, \/ ProcessLoad(w) \/ ProcessReturn(w)
                                    \/ StatusStep(w)
        PROVE  request_processed_' = request_processed_
    BY <2>2 DEF ProcessLoad, ProcessReturn, StatusStep, StatusEnter,
                StatusDefault, StatusClock, StatusElapsed, StatusCount,
                StatusCurrent, StatusAverage, StatusStamp, StatusReload,
                StatusMark, StatusPrint, shared
  <2>3. Tick => request_processed_' = request_processed_
    BY DEF Tick, shared
  <2>. QED
    BY <2>1, <2>2, <2>3 DEF StatisticsNext, ProcessStep
<1>. QED
  BY <1>1, AloneAlways, PTL DEF StatisticsSpec, CounterNeverFalls

(* Comment of Status, BaseCore.cpp:40: for calls that do not overlap both   *)
(* figures are exact, if a product of two ints is in the range of unsigned  *)
(* long, as it is in the build: 2^31 * 2^31 =< 2^64.                        *)
THEOREM FiguresExact ==
  ASSUME LongRange >= IntHalf * IntHalf
  PROVE  StatisticsSpec => []RatesExact
<1>1. ASSUME TypeInv, AloneInv, ~overlapped, NEW w \in Workers, at[w] = "stamp"
      PROVE  Exactly(average[w], served, now[w])
  <2> SUFFICES ASSUME now[w] \in 1 .. IntHalf - 1,
                      (served * Millis) \div now[w] < IntHalf
               PROVE  average[w] = (served * Millis) \div now[w]
    BY DEF Exactly
  <2>1. AsInt(now[w]) = now[w] /\ now[w] # 0
    BY AsIntFits, StatisticsAssumption DEF IntValues
  <2>2. average[w] = AverageRate(served, now[w])
    BY <1>1, <2>1 DEF AloneInv, FiguresKept
  <2>3. served \in Nat
    BY <1>1 DEF TypeInv, StatisticsTypeOK
  <2>. QED
    BY <2>2, <2>3, AverageRateExact
<1>2. ASSUME TypeInv, AloneInv, ~overlapped, NEW w \in Workers, at[w] = "stamp",
             servedAtMark < IntHalf
      PROVE  Exactly(current[w], served - servedAtMark, now[w] - last_time_accessed)
  <2> DEFINE m == now[w] - last_time_accessed
  <2> SUFFICES ASSUME m \in 1 .. IntHalf - 1,
                      ((served - servedAtMark) * Millis) \div m < IntHalf
               PROVE  current[w] = ((served - servedAtMark) * Millis) \div m
    BY DEF Exactly
  <2>1. AsInt(m) = m /\ m # 0
    <3> HIDE DEF m
    <3>. QED  BY AsIntFits, StatisticsAssumption DEF IntValues
  <2>2. elapsed[w] = m
    BY <1>2, <2>1 DEF AloneInv, FiguresKept
  <2>3. last_time_request_processed = servedAtMark
    BY <1>2 DEF AloneInv, BaselineExact
  <2>4. current[w] = CurrentRate(served, servedAtMark, m)
    <3> HIDE DEF m
    <3>. QED  BY <1>2, <2>1, <2>2, <2>3 DEF AloneInv, FiguresKept
  <2>5. served \in Nat /\ servedAtMark \in Nat /\ servedAtMark =< served
    BY <1>2 DEF TypeInv, StatisticsTypeOK, AloneInv, BaselineExact
  <2>. QED
    <3> HIDE DEF m
    <3>. QED  BY <2>4, <2>5, CurrentRateExact
<1>3. TypeInv /\ AloneInv => RatesExact
  BY <1>1, <1>2 DEF RatesExact
<1>. QED
  BY <1>3, AloneAlways, PTL
=============================================================================
