--------------------------- MODULE Tracker_proofs ---------------------------
(***************************************************************************)
(* Proofs about Tracker: the counter of the status page against the pages  *)
(* that the worker threads make and send.                                  *)
(***************************************************************************)
EXTENDS Tracker, CgiService_proofs

(* Every step of the running service is one of the threads, the web server  *)
(* or the clock that CgiService knows of, or invisible to it.               *)
LEMMA StepOfService == [TrackerNext]_trackerVars => [CgiNext]_cgiVars
<1> SUFFICES ASSUME [TrackerNext]_trackerVars  PROVE CgiNext \/ UNCHANGED cgiVars
  OBVIOUS
<1>1. ASSUME NEW w \in Workers, up, EndProcess(w)  PROVE CgiNext
  BY <1>1 DEF EndProcess, CgiNext, ProcessRequest
<1>2. ASSUME NEW w \in Workers, up, ThrowInProcess(w)  PROVE CgiNext
  BY <1>2 DEF ThrowInProcess, CgiNext, ProcessRequest
<1>3. ASSUME NEW w \in Workers, up, EndStatus(w)  PROVE CgiNext
  BY <1>3 DEF EndStatus, CgiNext, ProcessRequest
<1>4. ASSUME NEW w \in Workers, up, Outside(w)  PROVE CgiNext
  BY <1>4 DEF Outside, CgiNext, ProcessRequest
<1>5. ASSUME NEW w \in Workers, up, Breaks(w)  PROVE CgiNext
  BY <1>5 DEF Breaks, CgiNext
<1>6. ASSUME NEW c \in Conns, up, Peer(c)  PROVE CgiNext
  BY <1>6 DEF Peer, CgiNext
<1>7. ASSUME NEW w \in Workers,
             BeginProcess(w) \/ StoreCount(w) \/ BeginStatus(w) \/ ContinueStatus(w)
      PROVE  UNCHANGED cgiVars
  BY <1>7 DEF BeginProcess, StoreCount, BeginStatus, ContinueStatus
<1>8. ASSUME TimePasses \/ UNCHANGED trackerVars  PROVE UNCHANGED cgiVars
  BY <1>8 DEF TimePasses, trackerVars
<1>. QED
  BY <1>1, <1>2, <1>3, <1>4, <1>5, <1>6, <1>7, <1>8 DEF TrackerNext, Inside

(* Inside Process and Status the threads do what Statistics describes, and  *)
(* nothing else touches the counter or the statics.                         *)
LEMMA StepOfStatistics ==
  [TrackerNext]_trackerVars => [Statistics!StatisticsNext]_(Statistics!statisticsVars)
<1> SUFFICES ASSUME [TrackerNext]_trackerVars
             PROVE  Statistics!StatisticsNext \/ UNCHANGED Statistics!statisticsVars
  OBVIOUS
<1>1. ASSUME NEW w \in Workers, Inside(w), ~ThrowInProcess(w)
      PROVE  Statistics!StatisticsNext
  BY <1>1 DEF Inside, BeginProcess, StoreCount, EndProcess, BeginStatus,
     ContinueStatus, EndStatus, Statistics!StatisticsNext,
     Statistics!ProcessStep, Statistics!StatusStep
<1>2. ASSUME UNCHANGED statisticsVars  PROVE UNCHANGED Statistics!statisticsVars
  BY <1>2 DEF statisticsVars, Statistics!statisticsVars, Statistics!shared,
     Statistics!locals, Statistics!history
<1>3. ASSUME NEW w \in Workers, Outside(w) \/ Breaks(w) \/ ThrowInProcess(w)
      PROVE  UNCHANGED Statistics!statisticsVars
  BY <1>2, <1>3 DEF Outside, Breaks, ThrowInProcess
<1>4. ASSUME NEW c \in Conns, Peer(c)  PROVE UNCHANGED Statistics!statisticsVars
  BY <1>2, <1>4 DEF Peer
<1>5. ASSUME TimePasses  PROVE Statistics!StatisticsNext
  BY <1>5 DEF TimePasses, Statistics!StatisticsNext
<1>6. ASSUME UNCHANGED trackerVars  PROVE UNCHANGED Statistics!statisticsVars
  BY <1>2, <1>6 DEF trackerVars
<1>. QED
  BY <1>1, <1>3, <1>4, <1>5, <1>6 DEF TrackerNext

-----------------------------------------------------------------------------
(* The thread is about to send a page. *)
Sending(w) == pc[w] = "reply" /\ result[w] = "html"
PageSent(c) == \E i \in 1 .. Len(sent[c]) : sent[c][i] = Page("html")
IsPaged(c) == PageSent(c) \/ \E w \in Workers : Sending(w) /\ request[w] = c

PagedMarked == Paged = {c \in Conns : IsPaged(c)}

LEMMA PagedConns == Inv => PagedMarked
<1> SUFFICES ASSUME Inv  PROVE PagedMarked
  OBVIOUS
<1>1. \A w \in Workers : Sending(w) => request[w] \in Conns
  BY DEF Inv, CgiTypeOK, AnswerPrepared, Prepared, Working, Sending
<1>. QED
  BY <1>1 DEF PagedMarked, Paged, IsPaged, PageSent, Sending

LEMMA PagedConnsNext == Inv' => PagedMarked'
  BY PagedConns, PTL

(* A step at the end of which the same threads have a page, for the same    *)
(* connections, and which sends nothing.                                    *)
LEMMA PagesUnmoved ==
  ASSUME sent' = sent,
         \A w \in Workers : Sending(w)' <=> Sending(w),
         \A w \in Workers : Sending(w) => request'[w] = request[w]
  PROVE  \A c \in Conns : IsPaged(c)' <=> IsPaged(c)
<1>1. \A c \in Conns : PageSent(c)' <=> PageSent(c)
  BY DEF PageSent
<1>. QED
  BY <1>1 DEF IsPaged

(* A step that sends response r, to the connection of thread w alone.       *)
LEMMA ResponseSent ==
  ASSUME CgiTypeOK, OneWorkerPerConnection, NEW w \in Workers, NEW r \in Responses,
         NEW c \in Conns, c = request[w], sent[c] = <<>>,
         Sending(w) <=> r = Page("html"),
         pc' = [pc EXCEPT ![w] = "lock"],
         result' = [result EXCEPT ![w] = "none"],
         request' = [request EXCEPT ![w] = None],
         sent' = [sent EXCEPT ![c] = Append(@, r)]
  PROVE  \A d \in Conns : IsPaged(d)' <=> IsPaged(d)
<1> USE DEF CgiTypeOK
<1>1. None \notin Conns
  BY Zenon, CgiServiceAssumption DEF CgiServiceAssumption
<1>2. \A v \in Workers \ {w} : /\ request[v] # c /\ request'[v] = request[v]
                               /\ Sending(v)' <=> Sending(v)
  BY <1>1 DEF OneWorkerPerConnection, Sending
<1>3. ~Sending(w)'
  BY DEF Sending
<1>4. ASSUME NEW d \in Conns, d # c  PROVE IsPaged(d)' <=> IsPaged(d)
  <2>1. PageSent(d)' <=> PageSent(d)
    BY <1>4 DEF PageSent
  <2>. QED
    BY <1>2, <1>3, <1>4, <2>1 DEF IsPaged
<1>5. ~PageSent(c) /\ (PageSent(c)' <=> r = Page("html"))
  <2>1. sent'[c] = <<r>>
    <3>1. sent'[c] = Append(<<>>, r)
      OBVIOUS
    <3>. QED
      BY ONLY <3>1
  <2>2. Len(sent[c]) = 0 /\ Len(sent'[c]) = 1 /\ sent'[c][1] = r
    BY ONLY <2>1, sent[c] = <<>>
  <2>. QED
    BY ONLY <2>2 DEF PageSent
<1>6. IsPaged(c) <=> r = Page("html")
  BY ONLY <1>2, <1>5, Sending(w) <=> r = Page("html"), c = request[w], w \in Workers DEF IsPaged
<1>7. IsPaged(c)' <=> r = Page("html")
  BY ONLY <1>1, <1>2, <1>3, <1>5, c \in Conns, w \in Workers DEF IsPaged
<1>. QED
  BY <1>4, <1>6, <1>7

(* A thread that works has a connection of its own, not answered yet.       *)
LEMMA WorkingThread ==
  ASSUME Inv, NEW w \in Workers, pc[w] \in Working
  PROVE  /\ request[w] \in Conns /\ sent[request[w]] = <<>>
         /\ \A v \in Workers \ {w} : request[v] # request[w]
<1>1. request[w] \in Conns /\ request[w] # None
  <2>1. request[w] # None
    BY DEF Inv, AnswerPrepared, Prepared
  <2>. QED
    BY <2>1 DEF Inv, CgiTypeOK
<1>2. request[w] \in Held
  BY <1>1 DEF Held
<1>. QED
  BY <1>1, <1>2 DEF Inv, OneWorkerPerConnection

(* Only Process adds to the pages.                                          *)
LEMMA PagesKept ==
  ASSUME Inv,
         \/ \E w \in Workers : \/ CreateThread(w) \/ Serve(w) \/ Failure(w)
                               \/ Parse(w) \/ ParseThrows(w) \/ ProcessThrows(w)
                               \/ Status(w) \/ Refuse(w) \/ Reply(w)
         \/ \E c \in Conns : WebServer(c)
         \/ UNCHANGED cgiVars
  PROVE  \A c \in Conns : IsPaged(c)' <=> IsPaged(c)
<1> DEFINE Kept == \A c \in Conns : IsPaged(c)' <=> IsPaged(c)
           Unmoved == /\ sent' = sent
                      /\ \A w \in Workers : Sending(w)' <=> Sending(w)
                      /\ \A w \in Workers : Sending(w) => request'[w] = request[w]
<1> USE DEF Inv, CgiTypeOK
<1>1. ASSUME NEW w \in Workers, CreateThread(w)  PROVE Unmoved
  BY <1>1 DEF CreateThread, Goto, Sending
<1>2. ASSUME NEW w \in Workers, InitRequest(w)  PROVE Unmoved
  BY <1>2 DEF InitRequest, Goto, Sending
<1>3. ASSUME NEW w \in Workers, LockAccept(w)  PROVE Unmoved
  BY <1>3 DEF LockAccept, Goto, Sending
<1>4. ASSUME NEW w \in Workers, TakeConnection(w)  PROVE Unmoved
  BY <1>4 DEF TakeConnection, Sending
<1>5. ASSUME NEW w \in Workers, ReadRequest(w)  PROVE Unmoved
  BY <1>5 DEF ReadRequest, Goto, Sending
<1>6. ASSUME NEW w \in Workers, DropConnection(w)  PROVE Unmoved
  BY <1>6 DEF DropConnection, Sending
<1>7. ASSUME NEW w \in Workers, UnlockAccept(w)  PROVE Unmoved
  BY <1>7 DEF UnlockAccept, Goto, Sending
<1>8. ASSUME NEW w \in Workers, Failure(w)  PROVE Unmoved
  BY <1>8 DEF Failure, CreateFails, InitRequestFails, AcceptFails, Fault, Goto, Sending
<1>9. ASSUME NEW w \in Workers, Parse(w)  PROVE Unmoved
  BY <1>9 DEF Parse, Parsed, Goto, Sending
<1>10. ASSUME NEW w \in Workers, Status(w)  PROVE Unmoved
  BY <1>10 DEF Status, Goto, Sending
<1>11. ASSUME NEW c \in Conns, WebServer(c)  PROVE Unmoved
  BY <1>11 DEF WebServer, Connect, Ask, SendBody, HangUp, threadVars, Sending
<1>12. ASSUME UNCHANGED cgiVars  PROVE Unmoved
  BY <1>12 DEF cgiVars, threadVars, Sending
<1>13. ASSUME NEW w \in Workers, pc[w] \in Working
       PROVE  request[w] \in Conns /\ sent[request[w]] = <<>>
  BY <1>13, WorkingThread
<1>14. ASSUME NEW w \in Workers, Refuse(w)  PROVE Kept
  <2>1. /\ pc[w] = "refuse" /\ pc' = [pc EXCEPT ![w] = "lock"]
        /\ sent' = [sent EXCEPT ![request[w]] = Append(@, StatusOnly(503))]
        /\ request' = [request EXCEPT ![w] = None]
        /\ result' = [result EXCEPT ![w] = "none"]
    BY <1>14 DEF Refuse, Goto, Respond
  <2>2. ~Sending(w) /\ StatusOnly(503) # Page("html") /\ StatusOnly(503) \in Responses
    BY <2>1 DEF Sending, StatusOnly, Page, Responses
  <2>. QED
    BY <1>13, <2>1, <2>2, ResponseSent DEF Working
<1>15. ASSUME NEW w \in Workers, Reply(w)  PROVE Kept
  <2>1. /\ pc[w] = "reply" /\ pc' = [pc EXCEPT ![w] = "lock"]
        /\ sent' = [sent EXCEPT ![request[w]] = Append(@, Page(result[w]))]
        /\ request' = [request EXCEPT ![w] = None]
        /\ result' = [result EXCEPT ![w] = "none"]
    BY <1>15 DEF Reply, Goto, Respond
  <2>2. result[w] \in {"status", "html"}
    BY <2>1 DEF AnswerPrepared, Prepared
  <2>3. Page(result[w]) \in Responses /\ (Sending(w) <=> Page(result[w]) = Page("html"))
    BY <2>1, <2>2 DEF Sending, Page, Responses
  <2>. QED
    BY <1>13, <2>1, <2>3, ResponseSent DEF Working
<1>16. ASSUME NEW w \in Workers, ParseThrows(w) \/ ProcessThrows(w)  PROVE Unmoved
  BY <1>16 DEF ParseThrows, ProcessThrows, threadVars, Sending
<1>17. Unmoved => Kept
  <2> HIDE DEF Inv, CgiTypeOK
  <2>. QED  BY PagesUnmoved
<1>. QED
  <2> HIDE DEF Unmoved, Kept
  <2>1. Kept
    BY <1>1, <1>2, <1>3, <1>4, <1>5, <1>6, <1>7, <1>8, <1>9, <1>10, <1>11,
       <1>12, <1>14, <1>15, <1>17, <1>16 DEF Serve
  <2>. QED
    BY <2>1 DEF Kept

(* A page is formatted for a connection that had none.                      *)
LEMMA PageAdded ==
  ASSUME Inv, NEW w \in Workers, Process(w)
  PROVE  /\ request[w] \in Conns /\ ~IsPaged(request[w])
         /\ \A c \in Conns : IsPaged(c)' <=> IsPaged(c) \/ c = request[w]
<1> USE DEF Inv, CgiTypeOK
<1>1. /\ pc[w] = "process" /\ pc' = [pc EXCEPT ![w] = "reply"]
      /\ result' = [result EXCEPT ![w] = "html"]
      /\ request' = request /\ sent' = sent
  BY DEF Process, Goto
<1>2. /\ request[w] \in Conns /\ sent[request[w]] = <<>>
      /\ \A v \in Workers \ {w} : request[v] # request[w]
  BY <1>1, WorkingThread DEF Working
<1>3. \A c \in Conns : PageSent(c)' <=> PageSent(c)
  BY <1>1 DEF PageSent
<1>4. \A v \in Workers : Sending(v)' <=> Sending(v) \/ v = w
  BY <1>1 DEF Sending
<1>5. ~Sending(w) /\ ~PageSent(request[w])
  <2>1. Len(sent[request[w]]) = 0
    BY ONLY <1>2
  <2>. QED
    BY ONLY <1>1, <2>1 DEF Sending, PageSent
<1>. QED
  BY ONLY <1>1, <1>2, <1>3, <1>4, <1>5, w \in Workers DEF IsPaged

-----------------------------------------------------------------------------
(* The calls of Process that have counted are those with a page sent, to be *)
(* sent or to be formatted: a thread inside Process keeps its request.  The *)
(* counter does not exceed those calls, nor does anything a thread has      *)
(* loaded from it.  While no two calls have overlapped a thread at the      *)
(* shared data is alone there, and what it has loaded is their number.      *)
IsCounted(c) ==
  IsPaged(c) \/ \E w \in Workers : at[w] = "format" /\ request[w] = c

CountedMarked == Counted = {c \in Conns : IsCounted(c)}

AtWork ==
  \A w \in Workers :
    /\ at[w] \in Statistics!ProcessPoints => pc[w] = "process"
    /\ at[w] \in Statistics!StatusPoints => pc[w] = "status"

CountTyped ==
  /\ request_processed_ \in Nat /\ served \in Nat
  /\ count \in [Workers -> Nat]
  /\ at \in [Workers -> Statistics!Points]
  /\ overlapped \in BOOLEAN

CountsServed == served = Cardinality(Counted)

CountBounded ==
  /\ request_processed_ =< served
  /\ \A w \in Workers : count[w] =< served

CountAlone ==
  ~overlapped =>
    /\ request_processed_ = served
    /\ \A w \in Workers :
         /\ at[w] = "increment" => count[w] = served
         /\ at[w] \notin Statistics!Apart =>
              \A v \in Workers \ {w} : at[v] \in Statistics!Apart

TrackerInv ==
  Inv /\ AtWork /\ CountTyped /\ CountsServed /\ CountBounded /\ CountAlone

LEMMA CountInit == TrackerInit => TrackerInv
<1> SUFFICES ASSUME TrackerInit  PROVE TrackerInv
  OBVIOUS
<1>1. CgiInit /\ Inv
  BY InvInit DEF TrackerInit
<1>2. /\ request_processed_ = 0 /\ served = 0 /\ overlapped = FALSE
      /\ count = [w \in Workers |-> 0] /\ at = [w \in Workers |-> "out"]
  BY DEF TrackerInit, Statistics!StatisticsInit
<1>3. CountTyped /\ CountBounded /\ CountAlone
  <2>1. CountTyped
    BY ONLY <1>2 DEF CountTyped, Statistics!Points
  <2>2. CountBounded
    BY ONLY <1>2 DEF CountBounded
  <2>3. CountAlone
    BY ONLY <1>2 DEF CountAlone, Statistics!Apart
  <2>. QED
    BY <2>1, <2>2, <2>3
<1>4. Cardinality(Counted) = 0 /\ AtWork
  <2>1. sent = [c \in Conns |-> <<>>] /\ pc = [w \in Workers |-> "none"]
    BY <1>1 DEF CgiInit
  <2>2. Counted = {}
    BY <1>2, <2>1 DEF Counted, Paged
  <2>3. AtWork
    BY <1>2 DEF AtWork, Statistics!ProcessPoints, Statistics!StatusPoints
  <2>. QED
    BY <2>2, <2>3, FS_EmptySet
<1>. QED
  BY <1>1, <1>2, <1>3, <1>4 DEF TrackerInv, CountsServed

(* What the accesses to the counter do to these bounds.                     *)
LEMMA CountStep ==
  ASSUME CountTyped, CountBounded, CountAlone,
         [Statistics!StatisticsNext]_(Statistics!statisticsVars)
  PROVE  CountTyped' /\ CountBounded' /\ CountAlone'
<1> DEFINE Goal == CountTyped' /\ CountBounded' /\ CountAlone'
<1> USE DEF CountTyped, CountBounded, CountAlone, Statistics!Apart
<1>1. ASSUME NEW w \in Workers, Statistics!ProcessLoad(w)  PROVE Goal
  BY <1>1 DEF Statistics!ProcessLoad, Statistics!Enter, Statistics!Moves, Statistics!shared, Statistics!locals,
     Statistics!history, Statistics!Points, Statistics!ProcessPoints, Statistics!StatusPoints
<1>2. ASSUME NEW w \in Workers, Statistics!ProcessReturn(w)  PROVE Goal
  BY <1>2 DEF Statistics!ProcessReturn, Statistics!Goto, Statistics!Moves, Statistics!shared,
     Statistics!locals, Statistics!history, Statistics!Points
<1>3. ASSUME NEW w \in Workers, Statistics!StatusDefault(w)  PROVE Goal
  BY <1>3 DEF Statistics!StatusDefault, Statistics!Goto, Statistics!Moves,
     Statistics!locals, Statistics!history, Statistics!Points, Statistics!StatusPoints
<1>4. ASSUME NEW w \in Workers, Statistics!StatusReload(w)  PROVE Goal
  BY <1>4 DEF Statistics!StatusReload, Statistics!Goto, Statistics!Moves, Statistics!shared,
     Statistics!locals, Statistics!history, Statistics!Points, Statistics!StatusPoints
<1>5. ASSUME NEW w \in Workers, Statistics!ProcessStore(w)  PROVE Goal
  BY <1>5 DEF Statistics!ProcessStore, Statistics!Goto, Statistics!Moves,
     Statistics!Points, Statistics!ProcessPoints
<1>6. ASSUME NEW w \in Workers, Statistics!StatusEnter(w)  PROVE Goal
  BY <1>6 DEF Statistics!StatusEnter, Statistics!Enter, Statistics!Moves, Statistics!shared, Statistics!locals,
     Statistics!history, Statistics!Points, Statistics!ProcessPoints, Statistics!StatusPoints
<1>7. ASSUME NEW w \in Workers, Statistics!StatusClock(w)  PROVE Goal
  BY <1>7 DEF Statistics!StatusClock, Statistics!Goto, Statistics!Moves, Statistics!shared,
     Statistics!locals, Statistics!history, Statistics!Points, Statistics!StatusPoints
<1>8. ASSUME NEW w \in Workers, Statistics!StatusElapsed(w)  PROVE Goal
  BY <1>8 DEF Statistics!StatusElapsed, Statistics!Goto, Statistics!Moves, Statistics!shared,
     Statistics!locals, Statistics!history, Statistics!Points, Statistics!StatusPoints
<1>9. ASSUME NEW w \in Workers, Statistics!StatusCount(w)  PROVE Goal
  BY <1>9 DEF Statistics!StatusCount, Statistics!Goto, Statistics!Moves, Statistics!shared,
     Statistics!locals, Statistics!history, Statistics!Points, Statistics!StatusPoints
<1>10. ASSUME NEW w \in Workers, Statistics!StatusCurrent(w)  PROVE Goal
  BY <1>10 DEF Statistics!StatusCurrent, Statistics!Goto, Statistics!Moves, Statistics!shared,
     Statistics!locals, Statistics!history, Statistics!Points, Statistics!StatusPoints
<1>11. ASSUME NEW w \in Workers, Statistics!StatusAverage(w)  PROVE Goal
  BY <1>11 DEF Statistics!StatusAverage, Statistics!Goto, Statistics!Moves, Statistics!shared,
     Statistics!locals, Statistics!history, Statistics!Points, Statistics!StatusPoints
<1>12. ASSUME NEW w \in Workers, Statistics!StatusStamp(w)  PROVE Goal
  BY <1>12 DEF Statistics!StatusStamp, Statistics!Goto, Statistics!Moves, Statistics!shared,
     Statistics!locals, Statistics!history, Statistics!Points, Statistics!StatusPoints
<1>13. ASSUME NEW w \in Workers, Statistics!StatusMark(w)  PROVE Goal
  BY <1>13 DEF Statistics!StatusMark, Statistics!Goto, Statistics!Moves, Statistics!shared,
     Statistics!locals, Statistics!history, Statistics!Points, Statistics!StatusPoints
<1>14. ASSUME NEW w \in Workers, Statistics!StatusPrint(w)  PROVE Goal
  BY <1>14 DEF Statistics!StatusPrint, Statistics!Goto, Statistics!Moves, Statistics!shared,
     Statistics!locals, Statistics!history, Statistics!Points, Statistics!StatusPoints
<1>15. ASSUME Statistics!Tick  PROVE Goal
  BY <1>15 DEF Statistics!Tick, Statistics!shared, Statistics!locals, Statistics!history
<1>16. ASSUME UNCHANGED Statistics!statisticsVars  PROVE Goal
  BY <1>16 DEF Statistics!statisticsVars, Statistics!shared, Statistics!locals,
     Statistics!history
<1>. QED
  <2> HIDE DEF CountTyped, CountBounded, CountAlone
  <2>. QED
    BY <1>1, <1>5, <1>6, <1>7, <1>8, <1>9, <1>10, <1>11, <1>12, <1>13, <1>14, <1>15,
       <1>16, <1>2, <1>3, <1>4 DEF Statistics!StatisticsNext, Statistics!ProcessStep, Statistics!StatusStep

LEMMA CountedConns == Inv /\ AtWork => CountedMarked
<1> SUFFICES ASSUME Inv, AtWork  PROVE CountedMarked
  OBVIOUS
<1>1. Paged = {c \in Conns : IsPaged(c)}
  BY PagedConns DEF PagedMarked
<1>2. \A w \in Workers : at[w] = "format" => request[w] \in Conns
  BY WorkingThread DEF AtWork, Working, Statistics!ProcessPoints
<1>. QED
  BY <1>1, <1>2 DEF CountedMarked, Counted, IsCounted

LEMMA CountedConnsNext == (Inv /\ AtWork)' => CountedMarked'
BY CountedConns, PTL

(* Whatever the other threads and the web server do, a thread in Process or *)
(* Status stays there, with its request.                                    *)
LEMMA InsideStays ==
  ASSUME Inv,
         \/ \E w \in Workers : Outside(w) \/ Breaks(w) \/ ThrowInProcess(w)
         \/ \E c \in Conns : Peer(c)
         \/ UNCHANGED cgiVars
  PROVE  \A v \in Workers : pc[v] \in {"process", "status"}
           => pc'[v] = pc[v] /\ request'[v] = request[v]
<1> DEFINE Stays == \A v \in Workers : pc[v] \in {"process", "status"}
                      => pc'[v] = pc[v] /\ request'[v] = request[v]
<1> USE DEF Inv, CgiTypeOK
<1>1. ASSUME NEW w \in Workers, CreateThread(w) \/ InitRequest(w) \/ LockAccept(w)
      PROVE  Stays
  BY <1>1 DEF CreateThread, InitRequest, LockAccept, Goto
<1>2. ASSUME NEW w \in Workers, TakeConnection(w) \/ ReadRequest(w) \/ DropConnection(w)
      PROVE  Stays
  BY <1>2 DEF TakeConnection, ReadRequest, DropConnection, Goto
<1>3. ASSUME NEW w \in Workers, UnlockAccept(w) \/ Failure(w)  PROVE Stays
  BY <1>3 DEF UnlockAccept, Failure, CreateFails, InitRequestFails, AcceptFails,
     Fault, Goto
<1>4. ASSUME NEW w \in Workers, Parse(w) \/ Refuse(w) \/ Reply(w)  PROVE Stays
  BY <1>4 DEF Parse, Refuse, Reply, Respond, Goto
<1>5. ASSUME NEW w \in Workers, ParseThrows(w) \/ ProcessThrows(w)  PROVE Stays
  BY <1>5 DEF ParseThrows, ProcessThrows, threadVars
<1>6. ASSUME NEW c \in Conns, WebServer(c)  PROVE Stays
  BY <1>6 DEF WebServer, Connect, Ask, SendBody, HangUp, threadVars
<1>7. ASSUME UNCHANGED cgiVars  PROVE Stays
  BY <1>7 DEF cgiVars, threadVars
<1>. QED
  <2> HIDE DEF Stays
  <2>1. Stays
    BY <1>1, <1>2, <1>3, <1>4, <1>5, <1>6, <1>7
    DEF Outside, Serve, Breaks, ThrowInProcess, Peer
  <2>. QED
    BY <2>1 DEF Stays

(* The threads that move inside Process and Status.                         *)
LEMMA AtWorkStep ==
  ASSUME Inv, AtWork, at \in [Workers -> Statistics!Points], [TrackerNext]_trackerVars
  PROVE  AtWork'
<1> USE DEF AtWork, Inv, CgiTypeOK, Statistics!Points, Statistics!ProcessPoints,
        Statistics!StatusPoints
<1>1. ASSUME NEW w \in Workers, BeginProcess(w) \/ StoreCount(w)  PROVE AtWork'
  BY <1>1 DEF BeginProcess, StoreCount, Statistics!ProcessLoad, Statistics!ProcessStore,
     Statistics!Enter, Statistics!Goto, Statistics!Moves, cgiVars, threadVars
<1>2. ASSUME NEW w \in Workers, EndProcess(w)  PROVE AtWork'
  BY <1>2 DEF EndProcess, Process, Goto, Statistics!ProcessReturn, Statistics!Goto,
     Statistics!Moves
<1>3. ASSUME NEW w \in Workers, BeginStatus(w)  PROVE AtWork'
  BY <1>3 DEF BeginStatus, Statistics!StatusEnter, Statistics!Enter, Statistics!Moves,
     cgiVars, threadVars
<1>4. ASSUME NEW w \in Workers, ContinueStatus(w)  PROVE AtWork'
  <2>1. pc' = pc
    BY <1>4 DEF ContinueStatus, cgiVars, threadVars
  <2>2. /\ at[w] \in Statistics!StatusPoints
        /\ \E to \in Statistics!StatusPoints : at' = [at EXCEPT ![w] = to]
    BY <1>4 DEF ContinueStatus, Statistics!StatusDefault, Statistics!StatusClock,
       Statistics!StatusElapsed, Statistics!StatusCount, Statistics!StatusCurrent,
       Statistics!StatusAverage, Statistics!StatusStamp, Statistics!StatusReload,
       Statistics!StatusMark, Statistics!Goto, Statistics!Moves
  <2>. QED
    BY <2>1, <2>2
<1>5. ASSUME NEW w \in Workers, EndStatus(w)  PROVE AtWork'
  BY <1>5 DEF EndStatus, Status, Goto, Statistics!StatusPrint, Statistics!Goto,
     Statistics!Moves
<1>6. ASSUME at' = at,
             \A v \in Workers : pc[v] \in {"process", "status"} => pc'[v] = pc[v]
      PROVE  AtWork'
  BY <1>6
<1>7. ASSUME NEW w \in Workers, Outside(w) \/ Breaks(w) \/ ThrowInProcess(w)
      PROVE  AtWork'
  <2>1. at' = at
    BY <1>7 DEF Outside, Breaks, ThrowInProcess, statisticsVars
  <2>. QED
    BY <1>6, <1>7, <2>1, InsideStays
<1>8. ASSUME NEW c \in Conns, Peer(c)  PROVE AtWork'
  <2>1. at' = at
    BY <1>8 DEF Peer, statisticsVars
  <2>. QED
    BY <1>6, <1>8, <2>1, InsideStays
<1>9. ASSUME TimePasses \/ UNCHANGED trackerVars  PROVE AtWork'
  BY <1>9 DEF TimePasses, trackerVars, statisticsVars, Statistics!Tick, cgiVars, threadVars
<1>. QED
  <2> HIDE DEF AtWork, Inv
  <2>. QED
    BY <1>1, <1>2, <1>3, <1>4, <1>5, <1>7, <1>8, <1>9 DEF TrackerNext, Inside

-----------------------------------------------------------------------------
(* The call of Process that stores its increment is one more that counts;   *)
(* whatever becomes of its page later, it has been counted.                 *)
LEMMA ServedStep ==
  ASSUME TrackerInv, Inv', AtWork', [TrackerNext]_trackerVars
  PROVE  CountsServed'
<1> USE DEF TrackerInv
<1>1. /\ Counted = {c \in Conns : IsCounted(c)}
      /\ Counted' = {c \in Conns : IsCounted(c)'}
  BY CountedConns, CountedConnsNext DEF CountedMarked
<1>2. IsFiniteSet(Conns) /\ Counted \subseteq Conns /\ Cardinality(Counted) \in Nat
  BY <1>1, CgiServiceAssumption, FS_Subset, FS_CardinalityType
<1>3. served' = served /\ (\A c \in Conns : IsCounted(c)' <=> IsCounted(c))
        => CountsServed'
  BY <1>1 DEF CountsServed
<1>4. ASSUME NEW w \in Workers, StoreCount(w)  PROVE CountsServed'
  <2>1. /\ served' = served + 1
        /\ at[w] = "increment" /\ at' = [at EXCEPT ![w] = "format"]
        /\ UNCHANGED cgiVars
    BY <1>4 DEF StoreCount, Statistics!ProcessStore, Statistics!Goto, Statistics!Moves
  <2>2. pc[w] = "process"
    BY <2>1 DEF AtWork, Statistics!ProcessPoints
  <2>3. /\ request[w] \in Conns /\ sent[request[w]] = <<>>
        /\ \A v \in Workers \ {w} : request[v] # request[w]
    BY <2>2, WorkingThread DEF Working
  <2>4. ~IsCounted(request[w])
    <3>1. ~PageSent(request[w])
      <4>1. Len(sent[request[w]]) = 0
        BY ONLY <2>3
      <4>. QED
        BY ONLY <4>1 DEF PageSent
    <3>. QED
      BY <2>1, <2>2, <2>3, <3>1 DEF IsCounted, IsPaged, Sending
  <2>5. \A c \in Conns : IsPaged(c)' <=> IsPaged(c)
    BY <2>1, PagesKept
  <2>6. \A c \in Conns : IsCounted(c)' <=> IsCounted(c) \/ c = request[w]
    <3>1. request' = request
      BY <2>1 DEF cgiVars, threadVars
    <3>2. \A v \in Workers : at'[v] = "format" <=> at[v] = "format" \/ v = w
      BY <2>1 DEF CountTyped
    <3>. QED
      BY ONLY <2>5, <3>1, <3>2, w \in Workers DEF IsCounted
  <2>7. Counted' = Counted \cup {request[w]} /\ request[w] \in Conns \ Counted
    BY <1>1, <2>3, <2>4, <2>6
  <2>8. Cardinality(Counted') = Cardinality(Counted) + 1
    BY <1>2, <2>7, OneMore
  <2>. QED
    BY ONLY <1>2, <2>1, <2>8, CountsServed DEF CountsServed
<1>5. ASSUME NEW w \in Workers, EndProcess(w)  PROVE CountsServed'
  <2>1. /\ served' = served /\ request' = request
        /\ at[w] = "format" /\ at' = [at EXCEPT ![w] = "out"]
    BY <1>5 DEF EndProcess, Process, Statistics!ProcessReturn, Statistics!Goto,
       Statistics!Moves, Statistics!history
  <2>2. \A c \in Conns : IsPaged(c)' <=> IsPaged(c) \/ c = request[w]
    BY <1>5, PageAdded DEF EndProcess
  <2>3. \A v \in Workers : at'[v] = "format" <=> at[v] = "format" /\ v # w
    BY <2>1 DEF CountTyped
  <2>4. \A c \in Conns : IsCounted(c)' <=> IsCounted(c)
    BY ONLY <2>1, <2>2, <2>3, w \in Workers DEF IsCounted
  <2>. QED
    BY <1>3, <2>1, <2>4
<1>6. ASSUME served' = served,
             \A v \in Workers : at'[v] = "format" <=> at[v] = "format",
             \A v \in Workers : at[v] = "format" => request'[v] = request[v],
             \A c \in Conns : IsPaged(c)' <=> IsPaged(c)
      PROVE  CountsServed'
  <2>1. \A c \in Conns : IsCounted(c)' <=> IsCounted(c)
    BY ONLY <1>6 DEF IsCounted
  <2>. QED
    BY <1>3, <1>6, <2>1
<1>7. \A v \in Workers : at[v] = "format" => pc[v] = "process"
  BY DEF AtWork, Statistics!ProcessPoints
<1>8. ASSUME NEW w \in Workers, Outside(w) \/ Breaks(w) \/ ThrowInProcess(w)
      PROVE  CountsServed'
  <2>1. served' = served /\ at' = at
    BY <1>8 DEF Outside, Breaks, ThrowInProcess, statisticsVars
  <2>2. \A v \in Workers : at[v] = "format" => request'[v] = request[v]
    BY <1>7, <1>8, InsideStays
  <2>3. \A c \in Conns : IsPaged(c)' <=> IsPaged(c)
    BY <1>8, PagesKept DEF Outside, Breaks, ThrowInProcess
  <2>. QED
    BY <1>6, <2>1, <2>2, <2>3
<1>9. ASSUME NEW c \in Conns, Peer(c)  PROVE CountsServed'
  <2>1. served' = served /\ at' = at
    BY <1>9 DEF Peer, statisticsVars
  <2>2. \A v \in Workers : at[v] = "format" => request'[v] = request[v]
    BY <1>7, <1>9, InsideStays
  <2>3. \A d \in Conns : IsPaged(d)' <=> IsPaged(d)
    BY <1>9, PagesKept DEF Peer
  <2>. QED
    BY <1>6, <2>1, <2>2, <2>3
<1>10. ASSUME NEW w \in Workers, EndStatus(w)  PROVE CountsServed'
  <2>1. /\ served' = served /\ request' = request
        /\ at[w] = "print" /\ at' = [at EXCEPT ![w] = "out"]
    BY <1>10 DEF EndStatus, Status, Statistics!StatusPrint, Statistics!history,
       Statistics!Goto, Statistics!Moves
  <2>2. \A v \in Workers : at'[v] = "format" <=> at[v] = "format"
    BY <2>1 DEF CountTyped
  <2>3. \A c \in Conns : IsPaged(c)' <=> IsPaged(c)
    BY <1>10, PagesKept DEF EndStatus
  <2>. QED
    BY <1>6, <2>1, <2>2, <2>3
<1>11. ASSUME UNCHANGED cgiVars, served' = served,
              \A v \in Workers : at'[v] = "format" <=> at[v] = "format"
       PROVE  CountsServed'
  <2>1. request' = request
    BY <1>11 DEF cgiVars, threadVars
  <2>2. \A c \in Conns : IsPaged(c)' <=> IsPaged(c)
    BY <1>11, PagesKept
  <2>. QED
    BY <1>6, <1>11, <2>1, <2>2
<1>12. ASSUME NEW w \in Workers, BeginProcess(w) \/ BeginStatus(w) \/ ContinueStatus(w)
       PROVE  CountsServed'
  <2>1. UNCHANGED cgiVars /\ served' = served
    BY <1>12 DEF BeginProcess, BeginStatus, ContinueStatus, Statistics!history,
       Statistics!ProcessLoad, Statistics!StatusEnter, Statistics!StatusDefault,
       Statistics!StatusClock, Statistics!StatusElapsed, Statistics!StatusCount,
       Statistics!StatusCurrent, Statistics!StatusAverage, Statistics!StatusStamp,
       Statistics!StatusReload, Statistics!StatusMark
  <2>2. /\ at[w] # "format"
        /\ \E to \in Statistics!Points \ {"format"} : at' = [at EXCEPT ![w] = to]
    BY <1>12 DEF BeginProcess, BeginStatus, ContinueStatus, Statistics!ProcessLoad,
       Statistics!StatusEnter, Statistics!StatusDefault,
       Statistics!StatusClock, Statistics!StatusElapsed, Statistics!StatusCount,
       Statistics!StatusCurrent, Statistics!StatusAverage, Statistics!StatusStamp,
       Statistics!StatusReload, Statistics!StatusMark, Statistics!Enter,
       Statistics!Goto, Statistics!Moves, Statistics!Points,
       Statistics!ProcessPoints, Statistics!StatusPoints
  <2>3. \A v \in Workers : at'[v] = "format" <=> at[v] = "format"
    BY <2>2 DEF CountTyped
  <2>. QED
    BY <1>11, <2>1, <2>3
<1>13. ASSUME TimePasses \/ UNCHANGED trackerVars  PROVE CountsServed'
  <2>1. UNCHANGED cgiVars /\ served' = served /\ at' = at
    BY <1>13 DEF TimePasses, trackerVars, statisticsVars, Statistics!Tick,
       Statistics!history
  <2>. QED
    BY <1>11, <2>1
<1>. QED
  BY <1>4, <1>5, <1>8, <1>9, <1>10, <1>12, <1>13 DEF TrackerNext, Inside

LEMMA CountAlways == TrackerSpec => []TrackerInv
<1>1. TrackerInv /\ [TrackerNext]_trackerVars => TrackerInv'
  <2> SUFFICES ASSUME TrackerInv, [TrackerNext]_trackerVars  PROVE TrackerInv'
    OBVIOUS
  <2>1. Inv'
    BY InvNext, StepOfService DEF TrackerInv
  <2>2. CountTyped' /\ CountBounded' /\ CountAlone'
    BY CountStep, StepOfStatistics DEF TrackerInv
  <2>3. AtWork'
    BY AtWorkStep DEF TrackerInv, CountTyped
  <2>4. CountsServed'
    BY <2>1, <2>3, ServedStep
  <2>. QED
    BY <2>1, <2>2, <2>3, <2>4 DEF TrackerInv
<1>. QED
  BY <1>1, CountInit, PTL DEF TrackerSpec

(* Whatever increments the racing threads lose, and whichever of them the   *)
(* template kills, the number on the status page never exceeds the requests *)
(* that got, or are getting, a page: what is refused, and the status pages  *)
(* themselves, never count.                                                 *)
THEOREM PagesBoundCounter == TrackerSpec => []CountsOnlyPages
<1>1. TrackerInv => CountsOnlyPages
  BY DEF TrackerInv, CountBounded, CountsServed, CountsOnlyPages
<1>. QED
  BY <1>1, CountAlways, PTL

(* The unlocked increment is exact as long as no two threads have been at   *)
(* the shared data at once, however the calls are spread over the threads   *)
(* and however long each formats its page.                                  *)
THEOREM PagesAreCounted == TrackerSpec => []CountsEveryPage
<1>1. TrackerInv => CountsEveryPage
  BY DEF TrackerInv, CountAlone, CountsServed, CountsEveryPage
<1>. QED
  BY <1>1, CountAlways, PTL
=============================================================================
