------------------------------- MODULE Tracker ------------------------------
(***************************************************************************)
(* The running service: the worker threads of CgiService, which call       *)
(* Core::Process and BaseCore::Status, together with the request counter   *)
(* and the statics of Statistics that these functions share.  What         *)
(* CgiService takes for one step, a call that returns a page, is here the  *)
(* sequence of the callee's own accesses to that shared data, interleaved  *)
(* with everything the other threads and the web server do.                *)
(*                                                                         *)
(* When a request is sent with show=status the thread runs Status; with an *)
(* offer it runs Process, which increments the counter first and formats   *)
(* its page, or dies of it, afterwards: in between the other threads may   *)
(* count, read or die.                                                     *)
(***************************************************************************)
EXTENDS CgiService

CONSTANTS Millis, IntHalf, LongRange, MaxServed, MaxClock, MaxBack

VARIABLES request_processed_, last_time_accessed, last_time_request_processed,
          clock, at, count, now, elapsed, current, average,
          served, servedAtMark, latestAccess, overlapped

Statistics == INSTANCE Statistics

statisticsVars == <<request_processed_, last_time_accessed,
                    last_time_request_processed, clock, at, count, now,
                    elapsed, current, average, served, servedAtMark,
                    latestAccess, overlapped>>
trackerVars == <<cgiVars, statisticsVars>>

TrackerInit == CgiInit /\ Statistics!StatisticsInit

(* Mutants are named for the slip they contain: the bug a run has to find   *)
(* when the definition that follows is exchanged for them.                  *)
MutantCountsNothing(w) ==
  /\ at[w] = "increment"
  /\ at' = [at EXCEPT ![w] = "format"]
  /\ count' = [count EXCEPT ![w] = 0]
  /\ UNCHANGED cgiVars
  /\ UNCHANGED <<request_processed_, last_time_accessed,
                 last_time_request_processed, clock, now, elapsed, current,
                 average, served, servedAtMark, latestAccess, overlapped>>

(* A thread inside Process: the counter is loaded, then stored; with that   *)
(* done the page is formatted from the template, or the template throws.    *)
BeginProcess(w) ==
  /\ pc[w] = "process"
  /\ Statistics!ProcessLoad(w)
  /\ UNCHANGED cgiVars

StoreCount(w) == Statistics!ProcessStore(w) /\ UNCHANGED cgiVars

MutantCountsAgain(w) ==
  /\ Statistics!ProcessReturn(w)
  /\ Process(w) \/ UNCHANGED cgiVars

EndProcess(w) == Statistics!ProcessReturn(w) /\ Process(w)

ThrowInProcess(w) ==
  /\ at[w] = "format"
  /\ ProcessThrows(w)
  /\ UNCHANGED statisticsVars

(* A thread inside Status. *)
BeginStatus(w) ==
  /\ pc[w] = "status"
  /\ Statistics!StatusEnter(w)
  /\ UNCHANGED cgiVars

ContinueStatus(w) ==
  /\ \/ Statistics!StatusDefault(w)
     \/ Statistics!StatusClock(w)
     \/ Statistics!StatusElapsed(w)
     \/ Statistics!StatusCount(w)
     \/ Statistics!StatusCurrent(w)
     \/ Statistics!StatusAverage(w)
     \/ Statistics!StatusStamp(w)
     \/ Statistics!StatusReload(w)
     \/ Statistics!StatusMark(w)
  /\ UNCHANGED cgiVars

EndStatus(w) ==
  /\ Statistics!StatusPrint(w)
  /\ Status(w)

(* All that threads do outside these two functions, and the web server. *)
Outside(w) ==
  /\ \/ CreateThread(w) \/ Serve(w)
     \/ Parse(w) \/ ParseThrows(w) \/ Refuse(w) \/ Reply(w)
  /\ UNCHANGED statisticsVars

Breaks(w) == Failure(w) /\ UNCHANGED statisticsVars

Peer(c) == WebServer(c) /\ UNCHANGED statisticsVars

TimePasses == Statistics!Tick /\ UNCHANGED cgiVars

Inside(w) ==
  \/ BeginProcess(w) \/ StoreCount(w) \/ EndProcess(w) \/ ThrowInProcess(w)
  \/ BeginStatus(w) \/ ContinueStatus(w) \/ EndStatus(w)

TrackerNext ==
  /\ up
  /\ \/ \E w \in Workers : Inside(w) \/ Outside(w) \/ Breaks(w)
     \/ \E c \in Conns : Peer(c)
     \/ TimePasses

TrackerSpec == TrackerInit /\ [][TrackerNext]_trackerVars

-----------------------------------------------------------------------------
(* The requests that have got, or are getting, a page; with those whose     *)
(* page is still to be formatted they are the ones Process has counted.     *)
Paged ==
  {c \in Conns : \E i \in 1 .. Len(sent[c]) : sent[c][i] = Page("html")}
    \cup {request[w] : w \in {v \in Workers : pc[v] = "reply"
                                              /\ result[v] = "html"}}

Counted == Paged \cup {request[w] : w \in {v \in Workers : at[v] = "format"}}

(* The number on the status page never exceeds the requests that have got a *)
(* page, or have a thread at work on it, whatever increments the threads    *)
(* lose and whichever of them the template kills; refused requests, status  *)
(* pages and requests still to be parsed never count.                       *)
CountsOnlyPages == request_processed_ =< Cardinality(Counted)

(* While no two threads have been at the shared data at once no increment   *)
(* is lost: the number is exact, whichever threads did the work, however    *)
(* long they take over their pages.                                         *)
CountsEveryPage == ~overlapped => request_processed_ = Cardinality(Counted)
=============================================================================
