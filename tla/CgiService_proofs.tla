-------------------------- MODULE CgiService_proofs --------------------------
(***************************************************************************)
(* Proofs about CgiService, for any number of threads, of connections and  *)
(* of failing calls: the type invariant, the discipline of the accept      *)
(* mutex and of the reading of requests, that the threads never wait for   *)
(* each other only, that no connection is ever worked on twice, that the   *)
(* service implements RequestService, and how many threads it has lost and *)
(* parsers it has left on the heap.                                        *)
(***************************************************************************)
EXTENDS CgiService, TLAPS, FunctionTheorems, FiniteSetTheorems

(* The points of ProcessRequest: the thread has a connection whose          *)
(* parameters have been read.                                               *)
Working == {"parse", "refuse", "status", "process", "reply"}

(* A thread that works has a connection, and once Params::parse has decided *)
(* it is at the point that leads to the answer the request calls for.       *)
Prepared(w) ==
  /\ pc[w] \in Working => request[w] # None
  /\ pc[w] = "refuse" => DueAnswer(asked[request[w]]) = StatusOnly(503)
  /\ pc[w] = "status" => DueAnswer(asked[request[w]]) = Page("status")
  /\ pc[w] = "process" => DueAnswer(asked[request[w]]) = Page("html")
  /\ pc[w] = "reply" => /\ result[w] # "none"
                        /\ DueAnswer(asked[request[w]]) = Page(result[w])

AnswerPrepared == \A w \in Workers : Prepared(w)

(* Who has not connected yet has been sent nothing. *)
AwayUnsent == \A c \in Conns : client[c] = "away" => sent[c] = <<>>

Inv ==
  /\ CgiTypeOK
  /\ ReadBeforeWork
  /\ OneWorkerPerConnection
  /\ AnswerPrepared
  /\ AwayUnsent

-----------------------------------------------------------------------------
(* A non-empty queue is its head followed by its tail; without repetitions  *)
(* the head is not in the tail.                                             *)
LEMMA TailOfQueue ==
  ASSUME NEW S, NEW q \in Seq(S), q # <<>>
  PROVE  /\ Head(q) \in S /\ Tail(q) \in Seq(S)
         /\ Head(q) = q[1]
         /\ Len(q) \in Nat /\ Len(q) >= 1 /\ Len(Tail(q)) = Len(q) - 1
         /\ \A i \in 1 .. Len(Tail(q)) : Tail(q)[i] = q[i + 1]
  OBVIOUS

LEMMA AppendToQueue ==
  ASSUME NEW S, NEW q \in Seq(S), NEW e \in S
  PROVE  /\ Append(q, e) \in Seq(S)
         /\ Len(q) \in Nat /\ Len(Append(q, e)) = Len(q) + 1
         /\ \A i \in 1 .. Len(q) : Append(q, e)[i] = q[i]
         /\ Append(q, e)[Len(q) + 1] = e
  OBVIOUS

LEMMA InvInit == CgiInit => Inv
<1> SUFFICES ASSUME CgiInit PROVE Inv
  OBVIOUS
<1>1. backlog = <<>> /\ accept_mutex = None /\ parsers = 0 /\ faults = 0
  BY Zenon DEF CgiInit
<1>2. /\ up \in BOOLEAN
      /\ asked \in [Conns -> Shapes]
      /\ template_out_ \in {"nine directives", "empty"}
  BY Zenon DEF CgiInit
<1>3. /\ pc = [w \in Workers |-> "none"]
      /\ request = [w \in Workers |-> None]
      /\ result = [w \in Workers |-> "none"]
      /\ client = [c \in Conns |-> "away"]
  BY Zenon DEF CgiInit
<1>4. sent = [c \in Conns |-> <<>>]
  BY Zenon DEF CgiInit
<1>5. None \notin Workers /\ MaxFaults \in Nat
  BY Zenon, CgiServiceAssumption DEF CgiServiceAssumption
<1>6. CgiTypeOK
  <2>1. backlog \in Seq(Conns)
    BY <1>1
  <2>2. sent \in [Conns -> Seq(Responses)]
    <3>1. <<>> \in Seq(Responses)
      OBVIOUS
    <3>. QED
      BY <1>4, <3>1
  <2>3. /\ pc \in [Workers -> Points] /\ client \in [Conns -> ClientStates]
        /\ request \in [Workers -> Conns \cup {None}]
        /\ result \in [Workers -> {"none", "status", "html"}]
    BY <1>3 DEF Points, ClientStates
  <2>4. faults \in 0 .. MaxFaults /\ parsers \in Nat
    BY <1>1, <1>5
  <2>. QED
    BY <1>1, <1>2, <2>1, <2>2, <2>3, <2>4 DEF CgiTypeOK
<1>7. ReadBeforeWork /\ AnswerPrepared
  BY <1>1, <1>3, <1>5 DEF ReadBeforeWork, AnswerPrepared, Prepared, Working
<1>8. AwayUnsent
  BY <1>4 DEF AwayUnsent
<1>9. OneWorkerPerConnection
  <2>1. \A i \in 1 .. Len(backlog) : FALSE
    <3>1. Len(backlog) = 0
      BY <1>1
    <3>. QED
      BY <3>1
  <2>2. Queued = {}
    BY <2>1 DEF Queued
  <2>3. Held = {}
    BY <1>3 DEF Held
  <2>. QED
    BY <1>3, <2>1, <2>2, <2>3 DEF OneWorkerPerConnection
<1>. QED
  BY <1>6, <1>7, <1>8, <1>9 DEF Inv

-----------------------------------------------------------------------------
LEMMA TypeNext ==
  CgiTypeOK /\ AnswerPrepared /\ [CgiNext]_cgiVars => CgiTypeOK'
<1> SUFFICES ASSUME CgiTypeOK, AnswerPrepared, [CgiNext]_cgiVars
             PROVE  CgiTypeOK'
  OBVIOUS
<1> USE DEF CgiTypeOK
<1>1. None \notin Workers /\ None \notin Conns /\ MaxFaults \in Nat
  BY Zenon, CgiServiceAssumption DEF CgiServiceAssumption
<1>2. ASSUME NEW w \in Workers, CreateThread(w)  PROVE CgiTypeOK'
  BY <1>1, <1>2 DEF CreateThread, Goto, clientVars, Points
<1>3. ASSUME NEW w \in Workers, CreateFails(w)  PROVE CgiTypeOK'
  <2>1. faults' \in 0 .. MaxFaults
    <3>1. faults < MaxFaults /\ faults' = faults + 1
      BY Zenon, <1>3 DEF CreateFails, Fault
    <3>2. faults \in 0 .. MaxFaults
      OBVIOUS
    <3>. QED
      BY ONLY <1>1, <3>1, <3>2
  <2>. QED
    BY <1>3, <2>1 DEF CreateFails, Fault, Goto, clientVars, Points
<1>4. ASSUME NEW w \in Workers, InitRequest(w)  PROVE CgiTypeOK'
  BY <1>1, <1>4 DEF InitRequest, Goto, clientVars, Points
<1>5. ASSUME NEW w \in Workers, InitRequestFails(w)  PROVE CgiTypeOK'
  <2>1. faults' \in 0 .. MaxFaults
    <3>1. faults < MaxFaults /\ faults' = faults + 1
      BY Zenon, <1>5 DEF InitRequestFails, Fault
    <3>2. faults \in 0 .. MaxFaults
      OBVIOUS
    <3>. QED
      BY ONLY <1>1, <3>1, <3>2
  <2>. QED
    BY <1>5, <2>1 DEF InitRequestFails, Fault, Goto, clientVars, Points
<1>6. ASSUME NEW w \in Workers, LockAccept(w)  PROVE CgiTypeOK'
  BY <1>1, <1>6 DEF LockAccept, Goto, clientVars, Points
<1>7. ASSUME NEW w \in Workers, TakeConnection(w)  PROVE CgiTypeOK'
  <2>1. Head(backlog) \in Conns /\ Tail(backlog) \in Seq(Conns)
    BY <1>7, TailOfQueue DEF TakeConnection
  <2>. QED
    BY <1>7, <2>1 DEF TakeConnection, clientVars
<1>8. ASSUME NEW w \in Workers, ReadRequest(w)  PROVE CgiTypeOK'
  BY <1>1, <1>8 DEF ReadRequest, Goto, clientVars, Points
<1>9. ASSUME NEW w \in Workers, DropConnection(w)  PROVE CgiTypeOK'
  BY <1>1, <1>9 DEF DropConnection, clientVars, Points
<1>10. ASSUME NEW w \in Workers, AcceptFails(w)  PROVE CgiTypeOK'
  <2>1. faults' \in 0 .. MaxFaults
    <3>1. faults < MaxFaults /\ faults' = faults + 1
      BY Zenon, <1>10 DEF AcceptFails
    <3>2. faults \in 0 .. MaxFaults
      OBVIOUS
    <3>. QED
      BY ONLY <1>1, <3>1, <3>2
  <2>. QED
    BY <1>10, <2>1 DEF AcceptFails, Goto, clientVars, Points
<1>11. ASSUME NEW w \in Workers, UnlockAccept(w)  PROVE CgiTypeOK'
  BY <1>1, <1>11 DEF UnlockAccept, Goto, clientVars, Points
<1>12. ASSUME NEW w \in Workers, Parse(w)  PROVE CgiTypeOK'
  <2>1. Parsed(asked[request[w]]) \in Points
    BY DEF Parsed, Points
  <2>2. pc' \in [Workers -> Points]
    BY <1>12, <2>1 DEF Parse, Goto
  <2>3. parsers' \in Nat
    <3> DEFINE s == asked[request[w]]
    <3>1. parsers' = parsers + ParsersMade(s) - ParsersDeleted(s)
      BY Zenon, <1>12 DEF Parse
    <3>2. \/ ParsersMade(s) = 2 /\ ParsersDeleted(s) = 2
          \/ ParsersMade(s) = 1 /\ ParsersDeleted(s) = 0
      BY DEF ParsersMade, ParsersDeleted
    <3>3. parsers \in Nat
      OBVIOUS
    <3>. QED
      BY ONLY <3>1, <3>2, <3>3
  <2>. QED
    BY <1>12, <2>2, <2>3 DEF Parse, clientVars
<1>13. ASSUME NEW w \in Workers, ParseThrows(w)  PROVE CgiTypeOK'
  BY <1>1, <1>13 DEF ParseThrows, threadVars, clientVars, Points
<1>14. ASSUME NEW w \in Workers, Refuse(w)  PROVE CgiTypeOK'
  <2>1. request[w] \in Conns
    BY <1>14 DEF Refuse, Goto, AnswerPrepared, Prepared, Working
  <2>2. StatusOnly(503) \in Responses
    BY <1>14 DEF Refuse, Goto, AnswerPrepared, Responses, StatusOnly, Page
  <2>3. Append(sent[request[w]], StatusOnly(503)) \in Seq(Responses)
    <3>1. sent[request[w]] \in Seq(Responses)
      BY <2>1
    <3>. QED
      BY ONLY <2>2, <3>1, AppendToQueue
  <2>4. sent' \in [Conns -> Seq(Responses)]
    BY <1>14, <2>1, <2>3 DEF Refuse, Respond
  <2>5. /\ request' \in [Workers -> Conns \cup {None}]
        /\ result' \in [Workers -> {"none", "status", "html"}]
        /\ pc' \in [Workers -> Points]
    BY <1>14 DEF Refuse, Goto, Respond, Points
  <2>. QED
    BY <1>14, <2>4, <2>5 DEF Refuse, Respond, clientVars
<1>15. ASSUME NEW w \in Workers, Status(w)  PROVE CgiTypeOK'
  BY <1>1, <1>15 DEF Status, Goto, clientVars, Points
<1>16. ASSUME NEW w \in Workers, Process(w)  PROVE CgiTypeOK'
  BY <1>1, <1>16 DEF Process, Goto, clientVars, Points
<1>17. ASSUME NEW w \in Workers, ProcessThrows(w)  PROVE CgiTypeOK'
  BY <1>1, <1>17 DEF ProcessThrows, threadVars, clientVars, Points
<1>18. ASSUME NEW w \in Workers, Reply(w)  PROVE CgiTypeOK'
  <2>1. request[w] \in Conns
    BY <1>18 DEF Reply, Goto, AnswerPrepared, Prepared, Working
  <2>2. Page(result[w]) \in Responses
    <3>1. result[w] \in {"status", "html"}
      BY <1>18 DEF Reply, Goto, AnswerPrepared, Prepared
    <3>. QED
      BY ONLY <3>1 DEF Responses
  <2>3. Append(sent[request[w]], Page(result[w])) \in Seq(Responses)
    <3>1. sent[request[w]] \in Seq(Responses)
      BY <2>1
    <3>. QED
      BY ONLY <2>2, <3>1, AppendToQueue
  <2>4. sent' \in [Conns -> Seq(Responses)]
    BY <1>18, <2>1, <2>3 DEF Reply, Respond
  <2>5. /\ request' \in [Workers -> Conns \cup {None}]
        /\ result' \in [Workers -> {"none", "status", "html"}]
        /\ pc' \in [Workers -> Points]
    BY <1>18 DEF Reply, Goto, Respond, Points
  <2>. QED
    BY <1>18, <2>4, <2>5 DEF Reply, Respond, clientVars
<1>19. ASSUME NEW c \in Conns, Connect(c)  PROVE CgiTypeOK'
  <2>1. Append(backlog, c) \in Seq(Conns)
    BY AppendToQueue
  <2>2. client' \in [Conns -> ClientStates]
    BY <1>19 DEF Connect, ClientStates
  <2>. QED
    BY <1>19, <2>1, <2>2 DEF Connect, threadVars
<1>20. ASSUME NEW c \in Conns, Ask(c)  PROVE CgiTypeOK'
  BY <1>1, <1>20 DEF Ask, threadVars, ClientStates
<1>21. ASSUME NEW c \in Conns, SendBody(c)  PROVE CgiTypeOK'
  BY <1>1, <1>21 DEF SendBody, threadVars, ClientStates
<1>22. ASSUME NEW c \in Conns, HangUp(c)  PROVE CgiTypeOK'
  BY <1>1, <1>22 DEF HangUp, threadVars, ClientStates
<1>23. CASE UNCHANGED cgiVars
  BY <1>23 DEF cgiVars, threadVars, clientVars
<1>. QED
  BY <1>2, <1>3, <1>4, <1>5, <1>6, <1>7, <1>8, <1>9, <1>10, <1>11, <1>12,
     <1>13, <1>14, <1>15, <1>16, <1>17, <1>18, <1>19, <1>20, <1>21, <1>22,
     <1>23
  DEF CgiNext, Serve, ProcessRequest, Failure, WebServer

(* A thread that works has a connection of the web server. *)
LEMMA WorkersHold ==
  ASSUME CgiTypeOK, AnswerPrepared
  PROVE  \A w \in Workers : pc[w] \in Working => request[w] \in Conns
<1>1. \A w \in Workers : pc[w] \in Working => request[w] # None
  BY DEF AnswerPrepared, Prepared
<1>. QED
  BY <1>1 DEF CgiTypeOK

(* ReadBeforeWork for one thread.  It is kept by whatever leaves the thread *)
(* and its hold on the mutex alone, since no client takes anything back.    *)
Reads(w) ==
  /\ pc[w] \in {"accept", "unlock"} <=> accept_mutex = w
  /\ request[w] # None /\ client[request[w]] \notin {"asked", "complete", "left"}
       => pc[w] = "accept"
  /\ pc[w] \in {"refuse", "status", "process", "reply"} => BodyRead(request[w])

LEMMA SameReads ==
  ASSUME NEW w \in Workers, Reads(w), pc'[w] = pc[w], request'[w] = request[w],
         accept_mutex' = w <=> accept_mutex = w, asked' = asked,
         request[w] # None => request[w] \in Conns,
         pc[w] \in Working => request[w] # None,
         \A c \in Conns :
           /\ client[c] \in {"asked", "complete", "left"}
                => client'[c] \in {"asked", "complete", "left"}
           /\ client[c] \in {"complete", "left"}
                => client'[c] \in {"complete", "left"}
  PROVE  Reads(w)'
  BY DEF Reads, BodyRead, Working

LEMMA AcceptNext ==
  CgiTypeOK /\ AnswerPrepared /\ ReadBeforeWork /\ [CgiNext]_cgiVars
    => ReadBeforeWork'
<1> SUFFICES ASSUME CgiTypeOK, AnswerPrepared, \A w \in Workers : Reads(w),
                    [CgiNext]_cgiVars
             PROVE  \A w \in Workers : Reads(w)'
  BY DEF ReadBeforeWork, Reads
<1> DEFINE Goal == \A w \in Workers : Reads(w)'
<1>1. None \notin Workers /\ None \notin Conns
  BY Zenon, CgiServiceAssumption DEF CgiServiceAssumption
<1>2. /\ \A w \in Workers : request[w] # None => request[w] \in Conns
      /\ \A w \in Workers : pc[w] \in Working => request[w] # None
  BY <1>1, WorkersHold DEF CgiTypeOK
<1>3. ASSUME pc' = pc, request' = request, accept_mutex' = accept_mutex,
             asked' = asked,
             \A c \in Conns :
               /\ client[c] \in {"asked", "complete", "left"}
                    => client'[c] \in {"asked", "complete", "left"}
               /\ client[c] \in {"complete", "left"}
                    => client'[c] \in {"complete", "left"}
      PROVE  Goal
  BY <1>2, <1>3, SameReads
<1>4. ASSUME NEW w \in Workers, Reads(w)', asked' = asked, client' = client,
             \A v \in Workers \ {w} :
               /\ pc'[v] = pc[v] /\ request'[v] = request[v]
               /\ accept_mutex' = v <=> accept_mutex = v
      PROVE  Goal
  BY <1>2, <1>4, SameReads
<1> HIDE DEF Goal
<1>5. ASSUME NEW w \in Workers, CreateThread(w)  PROVE Goal
  <2>1. /\ asked' = asked /\ client' = client
        /\ \A v \in Workers \ {w} :
             /\ pc'[v] = pc[v] /\ request'[v] = request[v]
             /\ accept_mutex' = v <=> accept_mutex = v
    BY <1>1, <1>5 DEF CreateThread, Goto, clientVars, CgiTypeOK, Reads
  <2>2. Reads(w)'
    BY <1>1, <1>2, <1>5 DEF CreateThread, Goto, clientVars,
       CgiTypeOK, Reads, BodyRead, Working
  <2>. QED
    BY <1>4, <2>1, <2>2
<1>6. ASSUME NEW w \in Workers, CreateFails(w)  PROVE Goal
  <2>1. /\ asked' = asked /\ client' = client
        /\ \A v \in Workers \ {w} :
             /\ pc'[v] = pc[v] /\ request'[v] = request[v]
             /\ accept_mutex' = v <=> accept_mutex = v
    BY <1>1, <1>6 DEF CreateFails, Fault, Goto, clientVars, CgiTypeOK, Reads
  <2>2. Reads(w)'
    BY <1>1, <1>2, <1>6 DEF CreateFails, Fault, Goto, clientVars,
       CgiTypeOK, Reads, BodyRead, Working
  <2>. QED
    BY <1>4, <2>1, <2>2
<1>7. ASSUME NEW w \in Workers, InitRequest(w)  PROVE Goal
  <2>1. /\ asked' = asked /\ client' = client
        /\ \A v \in Workers \ {w} :
             /\ pc'[v] = pc[v] /\ request'[v] = request[v]
             /\ accept_mutex' = v <=> accept_mutex = v
    BY <1>1, <1>7 DEF InitRequest, Goto, clientVars, CgiTypeOK, Reads
  <2>2. Reads(w)'
    BY <1>1, <1>2, <1>7 DEF InitRequest, Goto, clientVars,
       CgiTypeOK, Reads, BodyRead, Working
  <2>. QED
    BY <1>4, <2>1, <2>2
<1>8. ASSUME NEW w \in Workers, InitRequestFails(w)  PROVE Goal
  <2>1. /\ asked' = asked /\ client' = client
        /\ \A v \in Workers \ {w} :
             /\ pc'[v] = pc[v] /\ request'[v] = request[v]
             /\ accept_mutex' = v <=> accept_mutex = v
    BY <1>1, <1>8 DEF InitRequestFails, Fault, Goto, clientVars, CgiTypeOK, Reads
  <2>2. Reads(w)'
    BY <1>1, <1>2, <1>8 DEF InitRequestFails, Fault, Goto, clientVars,
       CgiTypeOK, Reads, BodyRead, Working
  <2>. QED
    BY <1>4, <2>1, <2>2
<1>9. ASSUME NEW w \in Workers, LockAccept(w)  PROVE Goal
  <2>1. /\ asked' = asked /\ client' = client
        /\ \A v \in Workers \ {w} :
             /\ pc'[v] = pc[v] /\ request'[v] = request[v]
             /\ accept_mutex' = v <=> accept_mutex = v
    BY <1>1, <1>9 DEF LockAccept, Goto, clientVars, CgiTypeOK, Reads
  <2>2. Reads(w)'
    BY <1>1, <1>2, <1>9 DEF LockAccept, Goto, clientVars,
       CgiTypeOK, Reads, BodyRead, Working
  <2>. QED
    BY <1>4, <2>1, <2>2
<1>10. ASSUME NEW w \in Workers, TakeConnection(w)  PROVE Goal
  <2>1. /\ asked' = asked /\ client' = client
        /\ \A v \in Workers \ {w} :
             /\ pc'[v] = pc[v] /\ request'[v] = request[v]
             /\ accept_mutex' = v <=> accept_mutex = v
    BY <1>1, <1>10 DEF TakeConnection, clientVars, CgiTypeOK, Reads
  <2>2. Reads(w)'
    BY <1>1, <1>2, <1>10 DEF TakeConnection, clientVars,
       CgiTypeOK, Reads, BodyRead, Working
  <2>. QED
    BY <1>4, <2>1, <2>2
<1>11. ASSUME NEW w \in Workers, ReadRequest(w)  PROVE Goal
  <2>1. /\ asked' = asked /\ client' = client
        /\ \A v \in Workers \ {w} :
             /\ pc'[v] = pc[v] /\ request'[v] = request[v]
             /\ accept_mutex' = v <=> accept_mutex = v
    BY <1>1, <1>11 DEF ReadRequest, Goto, clientVars, CgiTypeOK, Reads
  <2>2. Reads(w)'
    BY <1>1, <1>2, <1>11 DEF ReadRequest, Goto, clientVars,
       CgiTypeOK, Reads, BodyRead, Working
  <2>. QED
    BY <1>4, <2>1, <2>2
<1>12. ASSUME NEW w \in Workers, DropConnection(w)  PROVE Goal
  <2>1. /\ asked' = asked /\ client' = client
        /\ \A v \in Workers \ {w} :
             /\ pc'[v] = pc[v] /\ request'[v] = request[v]
             /\ accept_mutex' = v <=> accept_mutex = v
    BY <1>1, <1>12 DEF DropConnection, clientVars, CgiTypeOK, Reads
  <2>2. Reads(w)'
    BY <1>1, <1>2, <1>12 DEF DropConnection, clientVars,
       CgiTypeOK, Reads, BodyRead, Working
  <2>. QED
    BY <1>4, <2>1, <2>2
<1>13. ASSUME NEW w \in Workers, AcceptFails(w)  PROVE Goal
  <2>1. /\ asked' = asked /\ client' = client
        /\ \A v \in Workers \ {w} :
             /\ pc'[v] = pc[v] /\ request'[v] = request[v]
             /\ accept_mutex' = v <=> accept_mutex = v
    BY <1>1, <1>13 DEF AcceptFails, Goto, clientVars, CgiTypeOK, Reads
  <2>2. Reads(w)'
    BY <1>1, <1>2, <1>13 DEF AcceptFails, Goto, clientVars,
       CgiTypeOK, Reads, BodyRead, Working
  <2>. QED
    BY <1>4, <2>1, <2>2
<1>14. ASSUME NEW w \in Workers, UnlockAccept(w)  PROVE Goal
  <2>1. /\ asked' = asked /\ client' = client
        /\ \A v \in Workers \ {w} :
             /\ pc'[v] = pc[v] /\ request'[v] = request[v]
             /\ accept_mutex' = v <=> accept_mutex = v
    BY <1>1, <1>14 DEF UnlockAccept, Goto, clientVars, CgiTypeOK, Reads
  <2>2. Reads(w)'
    BY <1>1, <1>2, <1>14 DEF UnlockAccept, Goto, clientVars,
       CgiTypeOK, Reads, BodyRead, Working
  <2>. QED
    BY <1>4, <2>1, <2>2
<1>15. ASSUME NEW w \in Workers, Parse(w)  PROVE Goal
  <2>1. /\ asked' = asked /\ client' = client
        /\ \A v \in Workers \ {w} :
             /\ pc'[v] = pc[v] /\ request'[v] = request[v]
             /\ accept_mutex' = v <=> accept_mutex = v
    BY <1>1, <1>15 DEF Parse, Goto, clientVars, CgiTypeOK, Reads
  <2>2. Reads(w)'
    BY <1>1, <1>2, <1>15 DEF Parse, Goto, clientVars, Parsed,
       CgiTypeOK, Reads, BodyRead, Working
  <2>. QED
    BY <1>4, <2>1, <2>2
<1>16. ASSUME NEW w \in Workers, Refuse(w)  PROVE Goal
  <2>1. /\ asked' = asked /\ client' = client
        /\ \A v \in Workers \ {w} :
             /\ pc'[v] = pc[v] /\ request'[v] = request[v]
             /\ accept_mutex' = v <=> accept_mutex = v
    BY <1>1, <1>16 DEF Refuse, Goto, Respond, clientVars, CgiTypeOK, Reads
  <2>2. Reads(w)'
    BY <1>1, <1>2, <1>16 DEF Refuse, Goto, Respond, clientVars,
       CgiTypeOK, Reads, BodyRead, Working
  <2>. QED
    BY <1>4, <2>1, <2>2
<1>17. ASSUME NEW w \in Workers, Status(w)  PROVE Goal
  <2>1. /\ asked' = asked /\ client' = client
        /\ \A v \in Workers \ {w} :
             /\ pc'[v] = pc[v] /\ request'[v] = request[v]
             /\ accept_mutex' = v <=> accept_mutex = v
    BY <1>1, <1>17 DEF Status, Goto, clientVars, CgiTypeOK, Reads
  <2>2. Reads(w)'
    BY <1>1, <1>2, <1>17 DEF Status, Goto, clientVars,
       CgiTypeOK, Reads, BodyRead, Working
  <2>. QED
    BY <1>4, <2>1, <2>2
<1>18. ASSUME NEW w \in Workers, Process(w)  PROVE Goal
  <2>1. /\ asked' = asked /\ client' = client
        /\ \A v \in Workers \ {w} :
             /\ pc'[v] = pc[v] /\ request'[v] = request[v]
             /\ accept_mutex' = v <=> accept_mutex = v
    BY <1>1, <1>18 DEF Process, Goto, clientVars, CgiTypeOK, Reads
  <2>2. Reads(w)'
    BY <1>1, <1>2, <1>18 DEF Process, Goto, clientVars,
       CgiTypeOK, Reads, BodyRead, Working
  <2>. QED
    BY <1>4, <2>1, <2>2
<1>19. ASSUME NEW w \in Workers, Reply(w)  PROVE Goal
  <2>1. /\ asked' = asked /\ client' = client
        /\ \A v \in Workers \ {w} :
             /\ pc'[v] = pc[v] /\ request'[v] = request[v]
             /\ accept_mutex' = v <=> accept_mutex = v
    BY <1>1, <1>19 DEF Reply, Goto, Respond, clientVars, CgiTypeOK, Reads
  <2>2. Reads(w)'
    BY <1>1, <1>2, <1>19 DEF Reply, Goto, Respond, clientVars,
       CgiTypeOK, Reads, BodyRead, Working
  <2>. QED
    BY <1>4, <2>1, <2>2
<1>20. ASSUME NEW w \in Workers, ParseThrows(w)  PROVE Goal
  BY <1>3, <1>20 DEF ParseThrows, threadVars, clientVars
<1>21. ASSUME NEW w \in Workers, ProcessThrows(w)  PROVE Goal
  BY <1>3, <1>21 DEF ProcessThrows, threadVars, clientVars
<1>22. ASSUME NEW c \in Conns, Connect(c)  PROVE Goal
  BY <1>3, <1>22 DEF Connect, threadVars, CgiTypeOK
<1>23. ASSUME NEW c \in Conns, Ask(c)  PROVE Goal
  BY <1>3, <1>23 DEF Ask, threadVars, CgiTypeOK
<1>24. ASSUME NEW c \in Conns, SendBody(c)  PROVE Goal
  BY <1>3, <1>24 DEF SendBody, threadVars, CgiTypeOK
<1>25. ASSUME NEW c \in Conns, HangUp(c)  PROVE Goal
  BY <1>3, <1>25 DEF HangUp, threadVars, CgiTypeOK
<1>26. ASSUME UNCHANGED cgiVars  PROVE Goal
  BY <1>3, <1>26 DEF cgiVars, threadVars, clientVars
<1>27. Goal
  BY <1>5, <1>6, <1>7, <1>8, <1>9, <1>10, <1>11, <1>12, <1>13, <1>14,
     <1>15, <1>16, <1>17, <1>18, <1>19, <1>20, <1>21, <1>22, <1>23, <1>24,
     <1>25, <1>26
  DEF CgiNext, Serve, ProcessRequest, Failure, WebServer
<1>. QED
  BY <1>27 DEF Goal

LEMMA AwayNext ==
  CgiTypeOK /\ OneWorkerPerConnection /\ AwayUnsent /\ [CgiNext]_cgiVars => AwayUnsent'
<1> SUFFICES ASSUME CgiTypeOK, OneWorkerPerConnection, AwayUnsent, [CgiNext]_cgiVars
             PROVE  AwayUnsent'
  OBVIOUS
<1> USE DEF CgiTypeOK, AwayUnsent
<1>1. None \notin Workers /\ None \notin Conns
  BY Zenon, CgiServiceAssumption DEF CgiServiceAssumption
<1>2. ASSUME NEW w \in Workers, CreateThread(w)  PROVE AwayUnsent'
  BY <1>1, <1>2 DEF CreateThread, Goto, clientVars
<1>3. ASSUME NEW w \in Workers, CreateFails(w)  PROVE AwayUnsent'
  BY <1>1, <1>3 DEF CreateFails, Fault, Goto, clientVars
<1>4. ASSUME NEW w \in Workers, InitRequest(w)  PROVE AwayUnsent'
  BY <1>1, <1>4 DEF InitRequest, Goto, clientVars
<1>5. ASSUME NEW w \in Workers, InitRequestFails(w)  PROVE AwayUnsent'
  BY <1>1, <1>5 DEF InitRequestFails, Fault, Goto, clientVars
<1>6. ASSUME NEW w \in Workers, LockAccept(w)  PROVE AwayUnsent'
  BY <1>1, <1>6 DEF LockAccept, Goto, clientVars
<1>7. ASSUME NEW w \in Workers, TakeConnection(w)  PROVE AwayUnsent'
  BY <1>1, <1>7 DEF TakeConnection, clientVars
<1>8. ASSUME NEW w \in Workers, ReadRequest(w)  PROVE AwayUnsent'
  BY <1>1, <1>8 DEF ReadRequest, Goto, clientVars
<1>9. ASSUME NEW w \in Workers, DropConnection(w)  PROVE AwayUnsent'
  BY <1>1, <1>9 DEF DropConnection, clientVars
<1>10. ASSUME NEW w \in Workers, AcceptFails(w)  PROVE AwayUnsent'
  BY <1>1, <1>10 DEF AcceptFails, Goto, clientVars
<1>11. ASSUME NEW w \in Workers, UnlockAccept(w)  PROVE AwayUnsent'
  BY <1>1, <1>11 DEF UnlockAccept, Goto, clientVars
<1>12. ASSUME NEW w \in Workers, Parse(w)  PROVE AwayUnsent'
  BY <1>1, <1>12 DEF Parse, Goto, clientVars
<1>13. ASSUME NEW w \in Workers, ParseThrows(w)  PROVE AwayUnsent'
  BY <1>1, <1>13 DEF ParseThrows, threadVars, clientVars
<1>14. ASSUME NEW w \in Workers, Refuse(w)  PROVE AwayUnsent'
  <2>1. ASSUME NEW c \in Conns, client[c] = "away"  PROVE request[w] # c
    <3>1. request[w] = c => c \in Held
      BY <1>1 DEF Held
    <3>. QED
      BY <2>1, <3>1 DEF OneWorkerPerConnection
  <2>. QED
    BY <1>14, <2>1 DEF Refuse, Respond, clientVars
<1>15. ASSUME NEW w \in Workers, Status(w)  PROVE AwayUnsent'
  BY <1>1, <1>15 DEF Status, Goto, clientVars
<1>16. ASSUME NEW w \in Workers, Process(w)  PROVE AwayUnsent'
  BY <1>1, <1>16 DEF Process, Goto, clientVars
<1>17. ASSUME NEW w \in Workers, ProcessThrows(w)  PROVE AwayUnsent'
  BY <1>1, <1>17 DEF ProcessThrows, threadVars, clientVars
<1>18. ASSUME NEW w \in Workers, Reply(w)  PROVE AwayUnsent'
  <2>1. ASSUME NEW c \in Conns, client[c] = "away"  PROVE request[w] # c
    <3>1. request[w] = c => c \in Held
      BY <1>1 DEF Held
    <3>. QED
      BY <2>1, <3>1 DEF OneWorkerPerConnection
  <2>. QED
    BY <1>18, <2>1 DEF Reply, Respond, clientVars
<1>19. ASSUME NEW c \in Conns, Connect(c)  PROVE AwayUnsent'
  BY <1>1, <1>19 DEF Connect, threadVars
<1>20. ASSUME NEW c \in Conns, Ask(c)  PROVE AwayUnsent'
  BY <1>1, <1>20 DEF Ask, threadVars
<1>21. ASSUME NEW c \in Conns, SendBody(c)  PROVE AwayUnsent'
  BY <1>1, <1>21 DEF SendBody, threadVars
<1>22. ASSUME NEW c \in Conns, HangUp(c)  PROVE AwayUnsent'
  BY <1>1, <1>22 DEF HangUp, threadVars
<1>23. CASE UNCHANGED cgiVars
  BY <1>23 DEF cgiVars, threadVars, clientVars
<1>. QED
  BY <1>2, <1>3, <1>4, <1>5, <1>6, <1>7, <1>8, <1>9, <1>10, <1>11, <1>12,
     <1>13, <1>14, <1>15, <1>16, <1>17, <1>18, <1>19, <1>20, <1>21, <1>22,
     <1>23
  DEF CgiNext, Serve, ProcessRequest, Failure, WebServer

(* A thread that does not move keeps its answer; a thread that does not     *)
(* work needs none.                                                         *)
LEMMA SameThread ==
  ASSUME NEW w, Prepared(w), pc'[w] = pc[w], request'[w] = request[w],
         result'[w] = result[w], asked' = asked
  PROVE  Prepared(w)'
  BY DEF Prepared

LEMMA IdleThread ==
  ASSUME NEW w, pc'[w] \notin Working
  PROVE  Prepared(w)'
  BY DEF Prepared, Working

LEMMA AnswerNext ==
  CgiTypeOK /\ AnswerPrepared /\ [CgiNext]_cgiVars => AnswerPrepared'
<1> SUFFICES ASSUME CgiTypeOK, AnswerPrepared, [CgiNext]_cgiVars
             PROVE  AnswerPrepared'
  OBVIOUS
<1> USE DEF CgiTypeOK
<1>1. None \notin Workers /\ None \notin Conns
  BY Zenon, CgiServiceAssumption DEF CgiServiceAssumption
<1>2. ASSUME NEW w \in Workers, CreateThread(w)  PROVE AnswerPrepared'
  <2>1. ASSUME NEW v \in Workers, v # w  PROVE Prepared(v)'
    <3>1. /\ pc'[v] = pc[v] /\ request'[v] = request[v] /\ result'[v] = result[v]
          /\ asked' = asked
      BY <1>2, <2>1 DEF CreateThread, Goto, clientVars
    <3>. QED
      BY <3>1, SameThread DEF AnswerPrepared
  <2>2. Prepared(w)'
    <3>1. pc'[w] \notin Working
      BY <1>2 DEF CreateThread, Goto, clientVars, Working
    <3>. QED
      BY <3>1, IdleThread
  <2>. QED
    BY <2>1, <2>2 DEF AnswerPrepared
<1>3. ASSUME NEW w \in Workers, CreateFails(w)  PROVE AnswerPrepared'
  <2>1. ASSUME NEW v \in Workers, v # w  PROVE Prepared(v)'
    <3>1. /\ pc'[v] = pc[v] /\ request'[v] = request[v] /\ result'[v] = result[v]
          /\ asked' = asked
      BY <1>3, <2>1 DEF CreateFails, Fault, Goto, clientVars
    <3>. QED
      BY <3>1, SameThread DEF AnswerPrepared
  <2>2. Prepared(w)'
    <3>1. pc'[w] \notin Working
      BY <1>3 DEF CreateFails, Fault, Goto, clientVars, Working
    <3>. QED
      BY <3>1, IdleThread
  <2>. QED
    BY <2>1, <2>2 DEF AnswerPrepared
<1>4. ASSUME NEW w \in Workers, InitRequest(w)  PROVE AnswerPrepared'
  <2>1. ASSUME NEW v \in Workers, v # w  PROVE Prepared(v)'
    <3>1. /\ pc'[v] = pc[v] /\ request'[v] = request[v] /\ result'[v] = result[v]
          /\ asked' = asked
      BY <1>4, <2>1 DEF InitRequest, Goto, clientVars
    <3>. QED
      BY <3>1, SameThread DEF AnswerPrepared
  <2>2. Prepared(w)'
    <3>1. pc'[w] \notin Working
      BY <1>4 DEF InitRequest, Goto, clientVars, Working
    <3>. QED
      BY <3>1, IdleThread
  <2>. QED
    BY <2>1, <2>2 DEF AnswerPrepared
<1>5. ASSUME NEW w \in Workers, InitRequestFails(w)  PROVE AnswerPrepared'
  <2>1. ASSUME NEW v \in Workers, v # w  PROVE Prepared(v)'
    <3>1. /\ pc'[v] = pc[v] /\ request'[v] = request[v] /\ result'[v] = result[v]
          /\ asked' = asked
      BY <1>5, <2>1 DEF InitRequestFails, Fault, Goto, clientVars
    <3>. QED
      BY <3>1, SameThread DEF AnswerPrepared
  <2>2. Prepared(w)'
    <3>1. pc'[w] \notin Working
      BY <1>5 DEF InitRequestFails, Fault, Goto, clientVars, Working
    <3>. QED
      BY <3>1, IdleThread
  <2>. QED
    BY <2>1, <2>2 DEF AnswerPrepared
<1>6. ASSUME NEW w \in Workers, LockAccept(w)  PROVE AnswerPrepared'
  <2>1. ASSUME NEW v \in Workers, v # w  PROVE Prepared(v)'
    <3>1. /\ pc'[v] = pc[v] /\ request'[v] = request[v] /\ result'[v] = result[v]
          /\ asked' = asked
      BY <1>6, <2>1 DEF LockAccept, Goto, clientVars
    <3>. QED
      BY <3>1, SameThread DEF AnswerPrepared
  <2>2. Prepared(w)'
    <3>1. pc'[w] \notin Working
      BY <1>6 DEF LockAccept, Goto, clientVars, Working
    <3>. QED
      BY <3>1, IdleThread
  <2>. QED
    BY <2>1, <2>2 DEF AnswerPrepared
<1>7. ASSUME NEW w \in Workers, TakeConnection(w)  PROVE AnswerPrepared'
  <2>1. ASSUME NEW v \in Workers, v # w  PROVE Prepared(v)'
    <3>1. /\ pc'[v] = pc[v] /\ request'[v] = request[v] /\ result'[v] = result[v]
          /\ asked' = asked
      BY <1>7, <2>1 DEF TakeConnection, clientVars
    <3>. QED
      BY <3>1, SameThread DEF AnswerPrepared
  <2>2. Prepared(w)'
    <3>1. pc'[w] \notin Working
      BY <1>7 DEF TakeConnection, clientVars, Working
    <3>. QED
      BY <3>1, IdleThread
  <2>. QED
    BY <2>1, <2>2 DEF AnswerPrepared
<1>8. ASSUME NEW w \in Workers, ReadRequest(w)  PROVE AnswerPrepared'
  <2>1. ASSUME NEW v \in Workers, v # w  PROVE Prepared(v)'
    <3>1. /\ pc'[v] = pc[v] /\ request'[v] = request[v] /\ result'[v] = result[v]
          /\ asked' = asked
      BY <1>8, <2>1 DEF ReadRequest, Goto, clientVars
    <3>. QED
      BY <3>1, SameThread DEF AnswerPrepared
  <2>2. Prepared(w)'
    <3>1. pc'[w] \notin Working
      BY <1>8 DEF ReadRequest, Goto, clientVars, Working
    <3>. QED
      BY <3>1, IdleThread
  <2>. QED
    BY <2>1, <2>2 DEF AnswerPrepared
<1>9. ASSUME NEW w \in Workers, DropConnection(w)  PROVE AnswerPrepared'
  <2>1. ASSUME NEW v \in Workers, v # w  PROVE Prepared(v)'
    <3>1. /\ pc'[v] = pc[v] /\ request'[v] = request[v] /\ result'[v] = result[v]
          /\ asked' = asked
      BY <1>9, <2>1 DEF DropConnection, clientVars
    <3>. QED
      BY <3>1, SameThread DEF AnswerPrepared
  <2>2. Prepared(w)'
    <3>1. pc'[w] \notin Working
      BY <1>9 DEF DropConnection, clientVars, Working
    <3>. QED
      BY <3>1, IdleThread
  <2>. QED
    BY <2>1, <2>2 DEF AnswerPrepared
<1>10. ASSUME NEW w \in Workers, AcceptFails(w)  PROVE AnswerPrepared'
  <2>1. ASSUME NEW v \in Workers, v # w  PROVE Prepared(v)'
    <3>1. /\ pc'[v] = pc[v] /\ request'[v] = request[v] /\ result'[v] = result[v]
          /\ asked' = asked
      BY <1>10, <2>1 DEF AcceptFails, Goto, clientVars
    <3>. QED
      BY <3>1, SameThread DEF AnswerPrepared
  <2>2. Prepared(w)'
    <3>1. pc'[w] \notin Working
      BY <1>10 DEF AcceptFails, Goto, clientVars, Working
    <3>. QED
      BY <3>1, IdleThread
  <2>. QED
    BY <2>1, <2>2 DEF AnswerPrepared
<1>11. ASSUME NEW w \in Workers, UnlockAccept(w)  PROVE AnswerPrepared'
  <2>1. ASSUME NEW v \in Workers, v # w  PROVE Prepared(v)'
    <3>1. /\ pc'[v] = pc[v] /\ request'[v] = request[v] /\ result'[v] = result[v]
          /\ asked' = asked
      BY <1>11, <2>1 DEF UnlockAccept, Goto, clientVars
    <3>. QED
      BY <3>1, SameThread DEF AnswerPrepared
  <2>2. Prepared(w)'
    <3>1. request' = request
      BY <1>11 DEF UnlockAccept
    <3>2. CASE request[w] = None
      <4>1. pc'[w] = "ended"
        BY <1>11, <3>2 DEF UnlockAccept, Goto
      <4>. QED
        BY <4>1, IdleThread DEF Working
    <3>3. CASE request[w] # None
      <4>1. pc'[w] = "parse"
        BY <1>11, <3>3 DEF UnlockAccept, Goto
      <4>. QED
        BY <3>1, <3>3, <4>1 DEF Prepared
    <3>. QED
      BY <3>2, <3>3
  <2>. QED
    BY <2>1, <2>2 DEF AnswerPrepared
<1>12. ASSUME NEW w \in Workers, Parse(w)  PROVE AnswerPrepared'
  <2>1. ASSUME NEW v \in Workers, v # w  PROVE Prepared(v)'
    <3>1. /\ pc'[v] = pc[v] /\ request'[v] = request[v] /\ result'[v] = result[v]
          /\ asked' = asked
      BY <1>12, <2>1 DEF Parse, Goto, clientVars
    <3>. QED
      BY <3>1, SameThread DEF AnswerPrepared
  <2>2. Prepared(w)'
    <3> DEFINE s == asked[request[w]]
    <3>1. pc'[w] = Parsed(s) /\ request' = request /\ asked' = asked
      BY <1>12 DEF Parse, Goto, clientVars
    <3>2. request[w] # None
      BY <1>12 DEF Parse, Goto, AnswerPrepared, Prepared, Working
    <3>3. /\ Parsed(s) = "refuse" => DueAnswer(s) = StatusOnly(503)
          /\ Parsed(s) = "status" => DueAnswer(s) = Page("status")
          /\ Parsed(s) = "process" => DueAnswer(s) = Page("html")
          /\ Parsed(s) # "reply"
      BY DEF Parsed, DueAnswer
    <3>. QED
      BY Zenon, <3>1, <3>2, <3>3 DEF Prepared
  <2>. QED
    BY <2>1, <2>2 DEF AnswerPrepared
<1>13. ASSUME NEW w \in Workers, ParseThrows(w)  PROVE AnswerPrepared'
  <2>1. pc' = pc /\ request' = request /\ result' = result /\ asked' = asked
    BY <1>13 DEF ParseThrows, threadVars, clientVars
  <2>. QED
    BY <2>1, SameThread DEF AnswerPrepared
<1>14. ASSUME NEW w \in Workers, Refuse(w)  PROVE AnswerPrepared'
  <2>1. ASSUME NEW v \in Workers, v # w  PROVE Prepared(v)'
    <3>1. /\ pc'[v] = pc[v] /\ request'[v] = request[v] /\ result'[v] = result[v]
          /\ asked' = asked
      BY <1>14, <2>1 DEF Refuse, Goto, Respond, clientVars
    <3>. QED
      BY <3>1, SameThread DEF AnswerPrepared
  <2>2. Prepared(w)'
    <3>1. pc'[w] \notin Working
      BY <1>14 DEF Refuse, Goto, Respond, clientVars, Working
    <3>. QED
      BY <3>1, IdleThread
  <2>. QED
    BY <2>1, <2>2 DEF AnswerPrepared
<1>15. ASSUME NEW w \in Workers, Status(w)  PROVE AnswerPrepared'
  <2>1. ASSUME NEW v \in Workers, v # w  PROVE Prepared(v)'
    <3>1. /\ pc'[v] = pc[v] /\ request'[v] = request[v] /\ result'[v] = result[v]
          /\ asked' = asked
      BY <1>15, <2>1 DEF Status, Goto, clientVars
    <3>. QED
      BY <3>1, SameThread DEF AnswerPrepared
  <2>2. Prepared(w)'
    <3>1. /\ pc[w] = "status" /\ pc'[w] = "reply" /\ result'[w] = "status"
          /\ request' = request /\ asked' = asked
      BY <1>15 DEF Status, Goto, clientVars
    <3>2. request[w] # None /\ DueAnswer(asked[request[w]]) = Page("status")
      BY <3>1 DEF AnswerPrepared, Prepared, Working
    <3>. QED
      BY <3>1, <3>2 DEF Prepared
  <2>. QED
    BY <2>1, <2>2 DEF AnswerPrepared
<1>16. ASSUME NEW w \in Workers, Process(w)  PROVE AnswerPrepared'
  <2>1. ASSUME NEW v \in Workers, v # w  PROVE Prepared(v)'
    <3>1. /\ pc'[v] = pc[v] /\ request'[v] = request[v] /\ result'[v] = result[v]
          /\ asked' = asked
      BY <1>16, <2>1 DEF Process, Goto, clientVars
    <3>. QED
      BY <3>1, SameThread DEF AnswerPrepared
  <2>2. Prepared(w)'
    <3>1. /\ pc[w] = "process" /\ pc'[w] = "reply" /\ result'[w] = "html"
          /\ request' = request /\ asked' = asked
      BY <1>16 DEF Process, Goto, clientVars
    <3>2. request[w] # None /\ DueAnswer(asked[request[w]]) = Page("html")
      BY <3>1 DEF AnswerPrepared, Prepared, Working
    <3>. QED
      BY <3>1, <3>2 DEF Prepared
  <2>. QED
    BY <2>1, <2>2 DEF AnswerPrepared
<1>17. ASSUME NEW w \in Workers, ProcessThrows(w)  PROVE AnswerPrepared'
  <2>1. pc' = pc /\ request' = request /\ result' = result /\ asked' = asked
    BY <1>17 DEF ProcessThrows, threadVars, clientVars
  <2>. QED
    BY <2>1, SameThread DEF AnswerPrepared
<1>18. ASSUME NEW w \in Workers, Reply(w)  PROVE AnswerPrepared'
  <2>1. ASSUME NEW v \in Workers, v # w  PROVE Prepared(v)'
    <3>1. /\ pc'[v] = pc[v] /\ request'[v] = request[v] /\ result'[v] = result[v]
          /\ asked' = asked
      BY <1>18, <2>1 DEF Reply, Goto, Respond, clientVars
    <3>. QED
      BY <3>1, SameThread DEF AnswerPrepared
  <2>2. Prepared(w)'
    <3>1. pc'[w] \notin Working
      BY <1>18 DEF Reply, Goto, Respond, clientVars, Working
    <3>. QED
      BY <3>1, IdleThread
  <2>. QED
    BY <2>1, <2>2 DEF AnswerPrepared
<1>19. ASSUME NEW c \in Conns, Connect(c)  PROVE AnswerPrepared'
  <2>1. pc' = pc /\ request' = request /\ result' = result /\ asked' = asked
    BY <1>19 DEF Connect, threadVars, clientVars
  <2>. QED
    BY <2>1, SameThread DEF AnswerPrepared
<1>20. ASSUME NEW c \in Conns, Ask(c)  PROVE AnswerPrepared'
  <2>1. pc' = pc /\ request' = request /\ result' = result /\ asked' = asked
    BY <1>20 DEF Ask, threadVars, clientVars
  <2>. QED
    BY <2>1, SameThread DEF AnswerPrepared
<1>21. ASSUME NEW c \in Conns, SendBody(c)  PROVE AnswerPrepared'
  <2>1. pc' = pc /\ request' = request /\ result' = result /\ asked' = asked
    BY <1>21 DEF SendBody, threadVars, clientVars
  <2>. QED
    BY <2>1, SameThread DEF AnswerPrepared
<1>22. ASSUME NEW c \in Conns, HangUp(c)  PROVE AnswerPrepared'
  <2>1. pc' = pc /\ request' = request /\ result' = result /\ asked' = asked
    BY <1>22 DEF HangUp, threadVars, clientVars
  <2>. QED
    BY <2>1, SameThread DEF AnswerPrepared
<1>23. CASE UNCHANGED cgiVars
  <2>1. pc' = pc /\ request' = request /\ result' = result /\ asked' = asked
    BY <1>23 DEF cgiVars, threadVars, clientVars
  <2>. QED
    BY <2>1, SameThread DEF AnswerPrepared
<1>. QED
  BY <1>2, <1>3, <1>4, <1>5, <1>6, <1>7, <1>8, <1>9, <1>10, <1>11, <1>12,
     <1>13, <1>14, <1>15, <1>16, <1>17, <1>18, <1>19, <1>20, <1>21, <1>22,
     <1>23
  DEF CgiNext, Serve, ProcessRequest, Failure, WebServer

-----------------------------------------------------------------------------
LEMMA QueuedHeldConns == ASSUME CgiTypeOK PROVE Queued \cup Held \subseteq Conns
<1>1. backlog \in Seq(Conns) /\ request \in [Workers -> Conns \cup {None}]
  BY DEF CgiTypeOK
<1>2. \A i \in 1 .. Len(backlog) : backlog[i] \in Conns
  BY ONLY <1>1
<1>3. \A w \in Workers : request[w] # None => request[w] \in Conns
  BY ONLY <1>1
<1>. QED
  BY <1>2, <1>3 DEF Queued, Held


-----------------------------------------------------------------------------
(* OneWorkerPerConnection is kept by a step that leaves the accept queue,   *)
(* the requests and the answers alone and undoes no connection.             *)
LEMMA SameConnections ==
  ASSUME OneWorkerPerConnection, backlog' = backlog, request' = request,
         sent' = sent,
         \A c \in Conns : client[c] # "away" => client'[c] # "away",
         CgiTypeOK
  PROVE  OneWorkerPerConnection'
<1>1. Queued' = Queued /\ Held' = Held
  BY DEF Queued, Held
<1>2. Queued \cup Held \subseteq Conns
  BY QueuedHeldConns
<1>. QED
  BY <1>1, <1>2 DEF OneWorkerPerConnection

(* It is kept when a thread lets go of its connection, answered or not.     *)
LEMMA ReleasedConnection ==
  ASSUME OneWorkerPerConnection, CgiTypeOK, NEW w \in Workers,
         request[w] # None, None \notin Conns,
         backlog' = backlog, client' = client,
         request' = [request EXCEPT ![w] = None],
         \A c \in Conns : c # request[w] => sent'[c] = sent[c]
  PROVE  OneWorkerPerConnection'
<1>1. Queued' = Queued
  BY DEF Queued
<1>2. request[w] \in Held
  BY DEF Held
<1>3. Held' \subseteq Held \ {request[w]}
  <2>1. ASSUME NEW v \in Workers, request'[v] # None
        PROVE  request'[v] = request[v] /\ request[v] # request[w]
    BY <2>1 DEF OneWorkerPerConnection, CgiTypeOK
  <2>. QED
    BY <2>1 DEF Held
<1>4. Queued \cup Held \subseteq Conns
  BY QueuedHeldConns
<1>5. request[w] \notin Queued
  BY <1>2 DEF OneWorkerPerConnection
<1>6. \A v, u \in Workers : request'[v] = request'[u] /\ v # u => request'[v] = None
  BY DEF OneWorkerPerConnection, CgiTypeOK
<1>7. Queued' \cap Held' = {}
  BY <1>1, <1>3 DEF OneWorkerPerConnection
<1>8. \A c \in Queued' \cup Held' : sent'[c] = <<>> /\ client'[c] # "away"
  BY <1>1, <1>3, <1>4, <1>5 DEF OneWorkerPerConnection
<1>. QED
  BY <1>6, <1>7, <1>8 DEF OneWorkerPerConnection

LEMMA OneWorkerTake ==
  ASSUME OneWorkerPerConnection, CgiTypeOK, None \notin Conns,
         NEW w \in Workers, TakeConnection(w)
  PROVE  OneWorkerPerConnection'
<1> DEFINE h == Head(backlog)
<1>1. /\ backlog # <<>> /\ backlog' = Tail(backlog)
      /\ request[w] = None /\ request' = [request EXCEPT ![w] = h]
      /\ sent' = sent /\ client' = client
  BY DEF TakeConnection, clientVars
<1>2. /\ h \in Conns /\ h = backlog[1]
      /\ Len(backlog) \in Nat /\ Len(backlog) >= 1
      /\ Len(backlog') = Len(backlog) - 1
      /\ \A i \in 1 .. Len(backlog') : backlog'[i] = backlog[i + 1]
  BY <1>1, TailOfQueue DEF CgiTypeOK
<1>3. h \in Queued
  BY <1>2 DEF Queued
<1>4. Queued' \subseteq Queued \ {h}
  <2>1. ASSUME NEW i \in 1 .. Len(backlog')
        PROVE  backlog'[i] \in Queued /\ backlog'[i] # h
    <3>1. i + 1 \in 1 .. Len(backlog) /\ 1 \in 1 .. Len(backlog) /\ i + 1 # 1
      BY <1>2
    <3>2. backlog[i + 1] # backlog[1]
      BY <3>1 DEF OneWorkerPerConnection
    <3>. QED
      BY <1>2, <3>1, <3>2 DEF Queued
  <2>. QED
    BY <2>1 DEF Queued
<1>5. Held' = Held \cup {h}
  <2>. HIDE DEF h
  <2>1. \A v \in Workers : request'[v] = IF v = w THEN h ELSE request[v]
    BY <1>1 DEF CgiTypeOK
  <2>. QED
    BY <1>1, <1>2, <2>1 DEF Held
<1>6. \A i, j \in 1 .. Len(backlog') : backlog'[i] = backlog'[j] => i = j
  <2>1. ASSUME NEW i \in 1 .. Len(backlog'), NEW j \in 1 .. Len(backlog'),
               backlog'[i] = backlog'[j]
        PROVE  i = j
    <3>1. i + 1 \in 1 .. Len(backlog) /\ j + 1 \in 1 .. Len(backlog)
      BY <1>2
    <3>2. backlog[i + 1] = backlog[j + 1]
      BY <1>2, <2>1
    <3>3. i + 1 = j + 1
      BY <3>1, <3>2 DEF OneWorkerPerConnection
    <3>. QED
      BY <3>1, <3>3
  <2>. QED
    BY <2>1
<1>7. \A v, u \in Workers : request'[v] = request'[u] /\ v # u => request'[v] = None
  <2>1. \A v \in Workers : v # w => request[v] # h
    <3>1. h \notin Held
      BY <1>3 DEF OneWorkerPerConnection
    <3>. QED
      BY <1>2, <3>1 DEF Held
  <2>. HIDE DEF h
  <2>. QED
    BY <1>1, <2>1 DEF OneWorkerPerConnection, CgiTypeOK
<1>8. Queued' \cap Held' = {}
  BY <1>4, <1>5 DEF OneWorkerPerConnection
<1>9. \A c \in Queued' \cup Held' : sent'[c] = <<>> /\ client'[c] # "away"
  BY <1>1, <1>3, <1>4, <1>5 DEF OneWorkerPerConnection
<1>. QED
  BY <1>6, <1>7, <1>8, <1>9 DEF OneWorkerPerConnection

LEMMA OneWorkerConnect ==
  ASSUME OneWorkerPerConnection, AwayUnsent, CgiTypeOK,
         NEW c \in Conns, Connect(c)
  PROVE  OneWorkerPerConnection'
<1>1. /\ client[c] = "away" /\ client' = [client EXCEPT ![c] = "connected"]
      /\ backlog' = Append(backlog, c)
      /\ request' = request /\ sent' = sent
  BY DEF Connect, threadVars
<1>2. /\ Len(backlog) \in Nat /\ Len(backlog') = Len(backlog) + 1
      /\ \A i \in 1 .. Len(backlog) : backlog'[i] = backlog[i]
      /\ backlog'[Len(backlog) + 1] = c
  <2>1. backlog \in Seq(Conns) /\ backlog' = Append(backlog, c)
    BY <1>1 DEF CgiTypeOK
  <2>. QED
    BY ONLY <2>1, AppendToQueue
<1>3. c \notin Queued /\ c \notin Held
  BY <1>1 DEF OneWorkerPerConnection
<1>4. Queued' = Queued \cup {c}
  <2>1. \A i \in 1 .. Len(backlog') :
          i \in 1 .. Len(backlog) \/ i = Len(backlog) + 1
    BY <1>2
  <2>2. \A i \in 1 .. Len(backlog) : i \in 1 .. Len(backlog')
    BY <1>2
  <2>3. Len(backlog) + 1 \in 1 .. Len(backlog')
    BY <1>2
  <2>. QED
    BY <1>2, <2>1, <2>2, <2>3 DEF Queued
<1>5. Held' = Held
  BY <1>1 DEF Held
<1>6. \A i, j \in 1 .. Len(backlog') : backlog'[i] = backlog'[j] => i = j
  <2>1. \A i \in 1 .. Len(backlog) : backlog[i] # c
    BY <1>3 DEF Queued
  <2>2. \A i \in 1 .. Len(backlog') :
          i \in 1 .. Len(backlog) \/ i = Len(backlog) + 1
    BY <1>2
  <2>. QED
    BY <1>2, <2>1, <2>2 DEF OneWorkerPerConnection
<1>7. \A v, u \in Workers : request'[v] = request'[u] /\ v # u => request'[v] = None
  BY <1>1 DEF OneWorkerPerConnection
<1>8. Queued' \cap Held' = {}
  BY <1>3, <1>4, <1>5 DEF OneWorkerPerConnection
<1>9. Queued \cup Held \subseteq Conns
  BY QueuedHeldConns
<1>10. \A d \in Queued' \cup Held' : sent'[d] = <<>> /\ client'[d] # "away"
  BY <1>1, <1>4, <1>5, <1>9 DEF OneWorkerPerConnection, AwayUnsent, CgiTypeOK
<1>. QED
  BY <1>6, <1>7, <1>8, <1>10 DEF OneWorkerPerConnection

LEMMA OneWorkerNext ==
  /\ CgiTypeOK /\ AnswerPrepared /\ AwayUnsent
  /\ OneWorkerPerConnection /\ [CgiNext]_cgiVars
  => OneWorkerPerConnection'
<1> SUFFICES ASSUME CgiTypeOK, AnswerPrepared, AwayUnsent,
                    OneWorkerPerConnection, [CgiNext]_cgiVars
             PROVE  OneWorkerPerConnection'
  OBVIOUS
<1>1. None \notin Conns
  BY Zenon, CgiServiceAssumption DEF CgiServiceAssumption
<1>2. ASSUME NEW w \in Workers, CreateThread(w)  PROVE OneWorkerPerConnection'
  <2>1. /\ backlog' = backlog /\ request' = request /\ sent' = sent
        /\ \A c \in Conns : client[c] # "away" => client'[c] # "away"
    BY <1>2 DEF CreateThread, clientVars
  <2>. QED
    BY <2>1, SameConnections
<1>3. ASSUME NEW w \in Workers, CreateFails(w)  PROVE OneWorkerPerConnection'
  <2>1. /\ backlog' = backlog /\ request' = request /\ sent' = sent
        /\ \A c \in Conns : client[c] # "away" => client'[c] # "away"
    BY <1>3 DEF CreateFails, Fault, clientVars
  <2>. QED
    BY <2>1, SameConnections
<1>4. ASSUME NEW w \in Workers, InitRequest(w)  PROVE OneWorkerPerConnection'
  <2>1. /\ backlog' = backlog /\ request' = request /\ sent' = sent
        /\ \A c \in Conns : client[c] # "away" => client'[c] # "away"
    BY <1>4 DEF InitRequest, clientVars
  <2>. QED
    BY <2>1, SameConnections
<1>5. ASSUME NEW w \in Workers, InitRequestFails(w)  PROVE OneWorkerPerConnection'
  <2>1. /\ backlog' = backlog /\ request' = request /\ sent' = sent
        /\ \A c \in Conns : client[c] # "away" => client'[c] # "away"
    BY <1>5 DEF InitRequestFails, Fault, clientVars
  <2>. QED
    BY <2>1, SameConnections
<1>6. ASSUME NEW w \in Workers, LockAccept(w)  PROVE OneWorkerPerConnection'
  <2>1. /\ backlog' = backlog /\ request' = request /\ sent' = sent
        /\ \A c \in Conns : client[c] # "away" => client'[c] # "away"
    BY <1>6 DEF LockAccept, clientVars
  <2>. QED
    BY <2>1, SameConnections
<1>7. ASSUME NEW w \in Workers, TakeConnection(w)  PROVE OneWorkerPerConnection'
  BY <1>1, <1>7, OneWorkerTake
<1>8. ASSUME NEW w \in Workers, ReadRequest(w)  PROVE OneWorkerPerConnection'
  <2>1. /\ backlog' = backlog /\ request' = request /\ sent' = sent
        /\ \A c \in Conns : client[c] # "away" => client'[c] # "away"
    BY <1>8 DEF ReadRequest, clientVars
  <2>. QED
    BY <2>1, SameConnections
<1>9. ASSUME NEW w \in Workers, DropConnection(w)  PROVE OneWorkerPerConnection'
  <2>1. /\ request[w] # None /\ request' = [request EXCEPT ![w] = None]
        /\ backlog' = backlog /\ client' = client /\ sent' = sent
    BY <1>9 DEF DropConnection, clientVars
  <2>. QED
    BY <1>1, <2>1, ReleasedConnection
<1>10. ASSUME NEW w \in Workers, AcceptFails(w)  PROVE OneWorkerPerConnection'
  <2>1. /\ backlog' = backlog /\ request' = request /\ sent' = sent
        /\ \A c \in Conns : client[c] # "away" => client'[c] # "away"
    BY <1>10 DEF AcceptFails, clientVars
  <2>. QED
    BY <2>1, SameConnections
<1>11. ASSUME NEW w \in Workers, UnlockAccept(w)  PROVE OneWorkerPerConnection'
  <2>1. /\ backlog' = backlog /\ request' = request /\ sent' = sent
        /\ \A c \in Conns : client[c] # "away" => client'[c] # "away"
    BY <1>11 DEF UnlockAccept, clientVars
  <2>. QED
    BY <2>1, SameConnections
<1>12. ASSUME NEW w \in Workers, Parse(w)  PROVE OneWorkerPerConnection'
  <2>1. /\ backlog' = backlog /\ request' = request /\ sent' = sent
        /\ \A c \in Conns : client[c] # "away" => client'[c] # "away"
    BY <1>12 DEF Parse, clientVars
  <2>. QED
    BY <2>1, SameConnections
<1>13. ASSUME NEW w \in Workers, ParseThrows(w)  PROVE OneWorkerPerConnection'
  <2>1. /\ backlog' = backlog /\ request' = request /\ sent' = sent
        /\ \A c \in Conns : client[c] # "away" => client'[c] # "away"
    BY <1>13 DEF ParseThrows, clientVars, threadVars
  <2>. QED
    BY <2>1, SameConnections
<1>14. ASSUME NEW w \in Workers, Refuse(w)  PROVE OneWorkerPerConnection'
  <2>1. request[w] # None
    BY <1>14 DEF Refuse, Goto, AnswerPrepared, Prepared, Working
  <2>2. /\ request' = [request EXCEPT ![w] = None]
        /\ backlog' = backlog /\ client' = client
    BY <1>14 DEF Refuse, Respond, clientVars
  <2>3. \A c \in Conns : c # request[w] => sent'[c] = sent[c]
    BY <1>14 DEF Refuse, Respond, CgiTypeOK
  <2>. QED
    BY <1>1, <2>1, <2>2, <2>3, ReleasedConnection
<1>15. ASSUME NEW w \in Workers, Status(w)  PROVE OneWorkerPerConnection'
  <2>1. /\ backlog' = backlog /\ request' = request /\ sent' = sent
        /\ \A c \in Conns : client[c] # "away" => client'[c] # "away"
    BY <1>15 DEF Status, clientVars
  <2>. QED
    BY <2>1, SameConnections
<1>16. ASSUME NEW w \in Workers, Process(w)  PROVE OneWorkerPerConnection'
  <2>1. /\ backlog' = backlog /\ request' = request /\ sent' = sent
        /\ \A c \in Conns : client[c] # "away" => client'[c] # "away"
    BY <1>16 DEF Process, clientVars
  <2>. QED
    BY <2>1, SameConnections
<1>17. ASSUME NEW w \in Workers, ProcessThrows(w)  PROVE OneWorkerPerConnection'
  <2>1. /\ backlog' = backlog /\ request' = request /\ sent' = sent
        /\ \A c \in Conns : client[c] # "away" => client'[c] # "away"
    BY <1>17 DEF ProcessThrows, clientVars, threadVars
  <2>. QED
    BY <2>1, SameConnections
<1>18. ASSUME NEW w \in Workers, Reply(w)  PROVE OneWorkerPerConnection'
  <2>1. request[w] # None
    BY <1>18 DEF Reply, Goto, AnswerPrepared, Prepared, Working
  <2>2. /\ request' = [request EXCEPT ![w] = None]
        /\ backlog' = backlog /\ client' = client
    BY <1>18 DEF Reply, Respond, clientVars
  <2>3. \A c \in Conns : c # request[w] => sent'[c] = sent[c]
    BY <1>18 DEF Reply, Respond, CgiTypeOK
  <2>. QED
    BY <1>1, <2>1, <2>2, <2>3, ReleasedConnection
<1>19. ASSUME NEW c \in Conns, Connect(c)  PROVE OneWorkerPerConnection'
  BY <1>19, OneWorkerConnect
<1>20. ASSUME NEW c \in Conns, Ask(c)  PROVE OneWorkerPerConnection'
  <2>1. /\ backlog' = backlog /\ request' = request /\ sent' = sent
        /\ \A d \in Conns : client[d] # "away" => client'[d] # "away"
    BY <1>20 DEF Ask, threadVars, CgiTypeOK
  <2>. QED
    BY <2>1, SameConnections
<1>21. ASSUME NEW c \in Conns, SendBody(c)  PROVE OneWorkerPerConnection'
  <2>1. /\ backlog' = backlog /\ request' = request /\ sent' = sent
        /\ \A d \in Conns : client[d] # "away" => client'[d] # "away"
    BY <1>21 DEF SendBody, threadVars, CgiTypeOK
  <2>. QED
    BY <2>1, SameConnections
<1>22. ASSUME NEW c \in Conns, HangUp(c)  PROVE OneWorkerPerConnection'
  <2>1. /\ backlog' = backlog /\ request' = request /\ sent' = sent
        /\ \A d \in Conns : client[d] # "away" => client'[d] # "away"
    BY <1>22 DEF HangUp, threadVars, CgiTypeOK
  <2>. QED
    BY <2>1, SameConnections
<1>23. CASE UNCHANGED cgiVars
  <2>1. /\ backlog' = backlog /\ request' = request /\ sent' = sent
        /\ \A c \in Conns : client[c] # "away" => client'[c] # "away"
    BY <1>23 DEF cgiVars, threadVars, clientVars
  <2>. QED
    BY <2>1, SameConnections
<1>. QED
  BY <1>2, <1>3, <1>4, <1>5, <1>6, <1>7, <1>8, <1>9, <1>10, <1>11, <1>12,
     <1>13, <1>14, <1>15, <1>16, <1>17, <1>18, <1>19, <1>20, <1>21, <1>22,
     <1>23
  DEF CgiNext, Serve, ProcessRequest, Failure, WebServer

-----------------------------------------------------------------------------
LEMMA InvNext == Inv /\ [CgiNext]_cgiVars => Inv'
  BY TypeNext, AcceptNext, OneWorkerNext, AnswerNext, AwayNext DEF Inv

LEMMA InvAlways == CgiSpec => []Inv
  BY InvInit, InvNext, PTL DEF CgiSpec

(* The threads, the connections and the process are always in states of     *)
(* their types.                                                             *)
THEOREM CgiTyped == CgiSpec => []CgiTypeOK
<1>1. Inv => CgiTypeOK
  BY DEF Inv
<1>. QED
  BY <1>1, InvAlways, PTL

(* However many threads accept on the one socket, no connection is worked   *)
(* on by two of them, taken again once answered, or both queued and taken.  *)
THEOREM ConnectionsExclusive == CgiSpec => []OneWorkerPerConnection
<1>1. Inv => OneWorkerPerConnection
  BY DEF Inv
<1>. QED
  BY <1>1, InvAlways, PTL

(* Whatever clients hang up and whatever calls fail: a thread holds the     *)
(* mutex exactly while it accepts, and it gets past Params::parse only with *)
(* a body that is in, or with a client that has gone.                       *)
THEOREM WorkOnReadRequests == CgiSpec => []ReadBeforeWork
<1>1. Inv => ReadBeforeWork
  BY DEF Inv
<1>. QED
  BY <1>1, InvAlways, PTL

(* For any number of threads: a pool that does not move although            *)
(* connections queue is lost, or waits for a client.                        *)
THEOREM NoStallAmongThreads == CgiSpec => []StallsOnlyOnClients
<1>1. Inv => StallsOnlyOnClients
  <2> SUFFICES ASSUME Inv, \A w \in Workers : Stalled(w), Ended # Workers
               PROVE  \E w \in Workers : WaitsForClient(w)
    BY DEF StallsOnlyOnClients
  <2>1. PICK w \in Workers : pc[w] # "ended"
    BY DEF Ended
  <2>2. CASE WaitsForClient(w)
    BY <2>2
  <2>3. CASE pc[w] = "lock" /\ accept_mutex # None
    <3>1. PICK v \in Workers : accept_mutex = v
      BY <2>3 DEF Inv, CgiTypeOK
    <3>2. pc[v] \in {"accept", "unlock"}
      BY <3>1 DEF Inv, ReadBeforeWork
    <3>3. WaitsForClient(v)
      BY <3>2 DEF Stalled
    <3>. QED
      BY <3>3
  <2>. QED
    BY <2>1, <2>2, <2>3 DEF Stalled
<1>. QED
  BY <1>1, InvAlways, PTL

-----------------------------------------------------------------------------
(* Refinement of RequestService.                                            *)

(* A thread without a connection leaves room for one more to be served.     *)
LEMMA RoomForOne ==
  ASSUME NEW w \in Workers, request[w] = None
  PROVE  Cardinality(Held) < Cardinality(Workers)
<1> DEFINE rest == Workers \ {w}
           image == {request[v] : v \in rest}
<1>1. IsFiniteSet(Workers)
  BY Zenon, CgiServiceAssumption DEF CgiServiceAssumption
<1>2. /\ IsFiniteSet(rest)
      /\ Cardinality(rest) = Cardinality(Workers) - 1
      /\ Cardinality(Workers) \in Nat
  BY <1>1, FS_RemoveElement, FS_CardinalityType
<1>3. Held \subseteq image
  BY DEF Held
<1>4. IsFiniteSet(image) /\ Cardinality(image) =< Cardinality(rest)
  <2> DEFINE f == [v \in rest |-> request[v]]
  <2>1. f \in Surjection(rest, image)
    <3>1. f \in [rest -> image] /\ \A t \in image : \E v \in rest : f[v] = t
      OBVIOUS
    <3>. QED
      BY <3>1, Fun_IsSurj
  <2>. QED
    BY <1>2, <2>1, FS_Surjection
<1>5. Cardinality(Held) =< Cardinality(image) /\ Cardinality(Held) \in Nat
      /\ Cardinality(image) \in Nat
  BY <1>3, <1>4, FS_Subset, FS_CardinalityType
<1>. QED
  BY <1>2, <1>4, <1>5

LEMMA RefineTake ==
  ASSUME Inv, NEW w \in Workers, TakeConnection(w)
  PROVE  Service!Take
<1>1. /\ backlog # <<>> /\ backlog' = Tail(backlog)
      /\ request[w] = None /\ request' = [request EXCEPT ![w] = Head(backlog)]
      /\ asked' = asked /\ sent' = sent
  BY DEF TakeConnection, clientVars
<1>2. Cardinality(Held) < Cardinality(Workers)
  BY <1>1, RoomForOne
<1>3. Held' = Held \cup {Head(backlog)}
  <2>1. Head(backlog) \in Conns /\ None \notin Conns
    <3>1. None \notin Conns
      BY Zenon, CgiServiceAssumption DEF CgiServiceAssumption
    <3>2. backlog \in Seq(Conns)
      BY DEF Inv, CgiTypeOK
    <3>. QED
      BY ONLY <1>1, <3>1, <3>2, TailOfQueue
  <2>2. request \in [Workers -> Conns \cup {None}]
    BY DEF Inv, CgiTypeOK
  <2> DEFINE h == Head(backlog)
  <2>3. \A v \in Workers : request'[v] = IF v = w THEN h ELSE request[v]
    BY <1>1, <2>2
  <2>. HIDE DEF h
  <2>. QED
    BY <1>1, <2>1, <2>3 DEF Held, h
<1>. QED
  <2>1. Service!Cardinality(Held) = Cardinality(Held)
    BY DEF Service!Cardinality, Cardinality
  <2>. QED
    BY <1>1, <1>2, <1>3, <2>1 DEF Service!Take

(* When a thread lets go of its connection, that is no longer being served. *)
LEMMA HeldReleased ==
  ASSUME Inv, NEW w \in Workers, request[w] # None,
         request' = [request EXCEPT ![w] = None]
  PROVE  request[w] \in Held /\ Held' = Held \ {request[w]}
<1>1. request \in [Workers -> Conns \cup {None}]
  BY DEF Inv, CgiTypeOK
<1>2. \A v \in Workers : v # w => request[v] # request[w]
  BY DEF Inv, OneWorkerPerConnection
<1>3. \A v \in Workers : request'[v] = IF v = w THEN None ELSE request[v]
  BY <1>1
<1>. QED
  BY <1>2, <1>3 DEF Held

LEMMA RefineAnswer ==
  ASSUME Inv, NEW w \in Workers, pc[w] \in Working, NEW r,
         r = DueAnswer(asked[request[w]]), Respond(w, r)
  PROVE  \E c \in Conns : Service!Answer(c)
<1> DEFINE c == request[w]
<1>1. request[w] # None /\ c \in Conns
  BY DEF Inv, CgiTypeOK, AnswerPrepared, Prepared
<1>2. /\ request' = [request EXCEPT ![w] = None] /\ backlog' = backlog
      /\ sent' = [sent EXCEPT ![c] = Append(@, r)] /\ asked' = asked
  BY DEF Respond, clientVars
<1>3. c \in Held /\ Held' = Held \ {c}
  BY <1>1, <1>2, HeldReleased
<1>4. sent[c] = <<>>
  BY <1>3 DEF Inv, OneWorkerPerConnection
<1>5. Append(sent[c], r) = <<r>>
  BY <1>4
<1>6. sent' = [sent EXCEPT ![c] = <<DueAnswer(asked[c])>>]
  BY <1>2, <1>5
<1>7. Service!Answer(c)
  BY <1>2, <1>3, <1>6 DEF Service!Answer
<1>. QED
  BY <1>1, <1>7

LEMMA RefineArrive ==
  ASSUME Inv, NEW c \in Conns, Connect(c)
  PROVE  Service!Arrive(c)
<1>1. /\ client[c] = "away" /\ backlog' = Append(backlog, c)
      /\ request' = request /\ asked' = asked /\ sent' = sent
  BY DEF Connect, threadVars
<1>2. sent[c] = <<>>
  BY <1>1 DEF Inv, AwayUnsent
<1>3. c \notin Held /\ c \notin Queued
  BY <1>1 DEF Inv, OneWorkerPerConnection
<1>4. \A i \in 1 .. Len(backlog) : backlog[i] # c
  BY <1>3 DEF Queued
<1>5. Held' = Held
  BY <1>1 DEF Held
<1>. QED
  BY <1>1, <1>2, <1>3, <1>4, <1>5 DEF Service!Arrive

LEMMA RefineInit == CgiInit => Service!Init
<1> SUFFICES ASSUME CgiInit PROVE Service!Init
  OBVIOUS
<1>1. backlog = <<>> /\ asked \in [Conns -> Shapes]
      /\ sent = [c \in Conns |-> <<>>] /\ request = [w \in Workers |-> None]
  BY Zenon DEF CgiInit
<1>2. Held = {}
  BY <1>1 DEF Held
<1>. QED
  BY <1>1, <1>2 DEF Service!Init

LEMMA RefineNext ==
  Inv /\ [CgiNext]_cgiVars => [Service!Next]_(Service!serviceVars)
<1> SUFFICES ASSUME Inv, [CgiNext]_cgiVars
             PROVE  Service!Next \/ UNCHANGED Service!serviceVars
  BY DEF Service!serviceVars
<1> DEFINE Goal == Service!Next \/ UNCHANGED Service!serviceVars
<1>1. ASSUME backlog' = backlog, request' = request, asked' = asked, sent' = sent
      PROVE  Goal
  <2>1. Held' = Held
    BY <1>1 DEF Held
  <2>. QED
    BY <1>1, <2>1 DEF Service!serviceVars
<1>. HIDE DEF Goal
<1>2. ASSUME NEW w \in Workers, CreateThread(w)  PROVE Goal
  BY <1>1, <1>2 DEF CreateThread, clientVars
<1>3. ASSUME NEW w \in Workers, CreateFails(w)  PROVE Goal
  BY <1>1, <1>3 DEF CreateFails, Fault, clientVars
<1>4. ASSUME NEW w \in Workers, InitRequest(w)  PROVE Goal
  BY <1>1, <1>4 DEF InitRequest, clientVars
<1>5. ASSUME NEW w \in Workers, InitRequestFails(w)  PROVE Goal
  BY <1>1, <1>5 DEF InitRequestFails, Fault, clientVars
<1>6. ASSUME NEW w \in Workers, LockAccept(w)  PROVE Goal
  BY <1>1, <1>6 DEF LockAccept, clientVars
<1>7. ASSUME NEW w \in Workers, TakeConnection(w)  PROVE Goal
  BY <1>7, RefineTake DEF Goal, Service!Next
<1>8. ASSUME NEW w \in Workers, ReadRequest(w)  PROVE Goal
  BY <1>1, <1>8 DEF ReadRequest, clientVars
<1>9. ASSUME NEW w \in Workers, DropConnection(w)  PROVE Goal
  <2>1. /\ request[w] # None /\ request' = [request EXCEPT ![w] = None]
        /\ backlog' = backlog /\ asked' = asked /\ sent' = sent
    BY <1>9 DEF DropConnection, clientVars
  <2>2. request[w] \in Held /\ Held' = Held \ {request[w]}
    BY <2>1, HeldReleased
  <2>3. request[w] \in Conns
    BY <2>1 DEF Inv, CgiTypeOK
  <2>4. Service!Abandon(request[w])
    BY <2>1, <2>2 DEF Service!Abandon
  <2>. QED
    BY <2>3, <2>4 DEF Goal, Service!Next
<1>10. ASSUME NEW w \in Workers, AcceptFails(w)  PROVE Goal
  BY <1>1, <1>10 DEF AcceptFails, clientVars
<1>11. ASSUME NEW w \in Workers, UnlockAccept(w)  PROVE Goal
  BY <1>1, <1>11 DEF UnlockAccept, clientVars
<1>12. ASSUME NEW w \in Workers, Parse(w)  PROVE Goal
  BY <1>1, <1>12 DEF Parse, clientVars
<1>13. ASSUME NEW w \in Workers, ParseThrows(w)  PROVE Goal
  BY <1>1, <1>13 DEF ParseThrows, clientVars, threadVars
<1>14. ASSUME NEW w \in Workers, Refuse(w)  PROVE Goal
  <2>1. /\ pc[w] = "refuse" /\ Respond(w, StatusOnly(503))
    BY <1>14 DEF Refuse, Goto
  <2>2. StatusOnly(503) = DueAnswer(asked[request[w]])
    BY <2>1 DEF Inv, AnswerPrepared, Prepared
  <2>3. \E c \in Conns : Service!Answer(c)
    BY <2>1, <2>2, RefineAnswer DEF Working
  <2>. QED
    BY <2>3 DEF Goal, Service!Next
<1>15. ASSUME NEW w \in Workers, Status(w)  PROVE Goal
  BY <1>1, <1>15 DEF Status, clientVars
<1>16. ASSUME NEW w \in Workers, Process(w)  PROVE Goal
  BY <1>1, <1>16 DEF Process, clientVars
<1>17. ASSUME NEW w \in Workers, ProcessThrows(w)  PROVE Goal
  BY <1>1, <1>17 DEF ProcessThrows, clientVars, threadVars
<1>18. ASSUME NEW w \in Workers, Reply(w)  PROVE Goal
  <2>1. /\ pc[w] = "reply" /\ Respond(w, Page(result[w]))
    BY <1>18 DEF Reply, Goto
  <2>2. Page(result[w]) = DueAnswer(asked[request[w]])
    BY <2>1 DEF Inv, AnswerPrepared, Prepared
  <2>3. \E c \in Conns : Service!Answer(c)
    BY <2>1, <2>2, RefineAnswer DEF Working
  <2>. QED
    BY <2>3 DEF Goal, Service!Next
<1>19. ASSUME NEW c \in Conns, Connect(c)  PROVE Goal
  BY <1>19, RefineArrive DEF Goal, Service!Next
<1>20. ASSUME NEW c \in Conns, Ask(c)  PROVE Goal
  BY <1>1, <1>20 DEF Ask, threadVars
<1>21. ASSUME NEW c \in Conns, SendBody(c)  PROVE Goal
  BY <1>1, <1>21 DEF SendBody, threadVars
<1>22. ASSUME NEW c \in Conns, HangUp(c)  PROVE Goal
  BY <1>1, <1>22 DEF HangUp, threadVars
<1>23. CASE UNCHANGED cgiVars
  <2>1. backlog' = backlog /\ request' = request /\ asked' = asked /\ sent' = sent
    BY <1>23 DEF cgiVars, threadVars, clientVars
  <2>. QED
    BY <1>1, <2>1 DEF Goal
<1>. QED
  BY <1>2, <1>3, <1>4, <1>5, <1>6, <1>7, <1>8, <1>9, <1>10, <1>11, <1>12,
     <1>13, <1>14, <1>15, <1>16, <1>17, <1>18, <1>19, <1>20, <1>21, <1>22,
     <1>23
  DEF Goal, CgiNext, Serve, ProcessRequest, Failure, WebServer

(* The pool of threads, with its mutex, its request objects and its faults, *)
(* does what RequestService promises: connections are taken in the order of *)
(* their arrival, no more at once than there are threads, and each is       *)
(* answered at most once, with the answer its request calls for.            *)
THEOREM ServiceImplemented == CgiSpec => ImplementsService
<1>1. CgiSpec => Service!Spec
  BY InvAlways, RefineInit, RefineNext, PTL DEF CgiSpec, Service!Spec
<1>. QED
  BY <1>1 DEF ImplementsService

-----------------------------------------------------------------------------
(* Counting threads and connections: both counters of the process are the   *)
(* size of a set that a step leaves alone or adds one element to.           *)
LEMMA OneMore ==
  ASSUME NEW T, IsFiniteSet(T), NEW S \in SUBSET T, NEW x \in T \ S
  PROVE  /\ Cardinality(S) \in Nat
         /\ Cardinality(S \cup {x}) = Cardinality(S) + 1
<1>1. IsFiniteSet(S)
  BY FS_Subset
<1>. QED
  BY <1>1, FS_AddElement, FS_CardinalityType

(* The threads that a failed call has cost. *)
IsLost(w) == pc[w] = "ended" \/ (pc[w] = "unlock" /\ request[w] = None)
Lost == {w \in Workers : IsLost(w)}

LEMMA SameLost ==
  ASSUME \A w \in Workers : IsLost(w)' <=> IsLost(w), faults' = faults
  PROVE  Lost' = Lost /\ faults' = faults
  BY DEF Lost

LEMMA LostStep ==
  ASSUME Inv, [CgiNext]_cgiVars
  PROVE  \/ Lost' = Lost /\ faults' = faults
         \/ \E w \in Workers \ Lost : Lost' = Lost \cup {w} /\ faults' = faults + 1
<1> DEFINE Same == (\A v \in Workers : IsLost(v)' <=> IsLost(v)) /\ faults' = faults
           Grows == \E w \in Workers \ Lost :
                      Lost' = Lost \cup {w} /\ faults' = faults + 1
<1> USE DEF Inv, CgiTypeOK, IsLost
<1>1. None \notin Workers /\ None \notin Conns
  BY Zenon, CgiServiceAssumption DEF CgiServiceAssumption
<1>2. ASSUME NEW w \in Workers, CreateThread(w)  PROVE Same
  BY <1>2, <1>1 DEF CreateThread, Goto, clientVars
<1>3. ASSUME NEW w \in Workers, CreateFails(w)  PROVE Grows
  <2>1. /\ w \notin Lost /\ IsLost(w)' /\ faults' = faults + 1
        /\ \A v \in Workers \ {w} : IsLost(v)' <=> IsLost(v)
    BY <1>3 DEF Lost, CreateFails, Goto, Fault, clientVars
  <2>. QED
    BY <2>1 DEF Lost
<1>4. ASSUME NEW w \in Workers, InitRequest(w)  PROVE Same
  BY <1>4, <1>1 DEF InitRequest, Goto, clientVars
<1>5. ASSUME NEW w \in Workers, InitRequestFails(w)  PROVE Grows
  <2>1. /\ w \notin Lost /\ IsLost(w)' /\ faults' = faults + 1
        /\ \A v \in Workers \ {w} : IsLost(v)' <=> IsLost(v)
    BY <1>5 DEF Lost, InitRequestFails, Goto, Fault, clientVars
  <2>. QED
    BY <2>1 DEF Lost
<1>6. ASSUME NEW w \in Workers, LockAccept(w)  PROVE Same
  BY <1>6, <1>1 DEF LockAccept, Goto, clientVars
<1>7. ASSUME NEW w \in Workers, TakeConnection(w)  PROVE Same
  BY <1>7, <1>1 DEF TakeConnection, clientVars
<1>8. ASSUME NEW w \in Workers, ReadRequest(w)  PROVE Same
  BY <1>8, <1>1 DEF ReadRequest, Goto, clientVars
<1>9. ASSUME NEW w \in Workers, DropConnection(w)  PROVE Same
  BY <1>9, <1>1 DEF DropConnection, clientVars
<1>10. ASSUME NEW w \in Workers, AcceptFails(w)  PROVE Grows
  <2>1. /\ w \notin Lost /\ IsLost(w)' /\ faults' = faults + 1
        /\ \A v \in Workers \ {w} : IsLost(v)' <=> IsLost(v)
    BY <1>10 DEF Lost, AcceptFails, Goto, clientVars
  <2>. QED
    BY <2>1 DEF Lost
<1>11. ASSUME NEW w \in Workers, UnlockAccept(w)  PROVE Same
  <2>1. /\ pc[w] = "unlock" /\ request' = request /\ faults' = faults
        /\ pc' = [pc EXCEPT ![w] = IF request[w] = None THEN "ended" ELSE "parse"]
    BY <1>11 DEF UnlockAccept, Goto
  <2>2. CASE request[w] = None
    BY <2>1, <2>2
  <2>3. CASE request[w] # None
    BY <2>1, <2>3
  <2> HIDE DEF Same
  <2>. QED
    BY <2>2, <2>3
<1>12. ASSUME NEW w \in Workers, Parse(w)  PROVE Same
  BY <1>12, <1>1 DEF Parse, Parsed, Goto, clientVars
<1>13. ASSUME NEW w \in Workers, ParseThrows(w)  PROVE Same
  BY <1>13, <1>1 DEF ParseThrows, clientVars, threadVars
<1>14. ASSUME NEW w \in Workers, Refuse(w)  PROVE Same
  BY <1>14, <1>1 DEF Refuse, Goto, Respond, clientVars
<1>15. ASSUME NEW w \in Workers, Status(w)  PROVE Same
  BY <1>15, <1>1 DEF Status, Goto, clientVars
<1>16. ASSUME NEW w \in Workers, Process(w)  PROVE Same
  BY <1>16, <1>1 DEF Process, Goto, clientVars
<1>17. ASSUME NEW w \in Workers, ProcessThrows(w)  PROVE Same
  BY <1>17, <1>1 DEF ProcessThrows, clientVars, threadVars
<1>18. ASSUME NEW w \in Workers, Reply(w)  PROVE Same
  BY <1>18, <1>1 DEF Reply, Goto, Respond, clientVars
<1>19. ASSUME NEW c \in Conns, Connect(c)  PROVE Same
  BY <1>19 DEF Connect, threadVars
<1>20. ASSUME NEW c \in Conns, Ask(c)  PROVE Same
  BY <1>20 DEF Ask, threadVars
<1>21. ASSUME NEW c \in Conns, SendBody(c)  PROVE Same
  BY <1>21 DEF SendBody, threadVars
<1>22. ASSUME NEW c \in Conns, HangUp(c)  PROVE Same
  BY <1>22 DEF HangUp, threadVars
<1>23. ASSUME UNCHANGED cgiVars  PROVE Same
  BY <1>23 DEF cgiVars, threadVars, clientVars
<1>24. Same \/ Grows
  <2> HIDE DEF Same, Grows
  <2>. QED
    BY <1>2, <1>3, <1>4, <1>5, <1>6, <1>7, <1>8, <1>9, <1>10, <1>11, <1>12,
       <1>14, <1>15, <1>16, <1>17, <1>18, <1>19, <1>20, <1>22, <1>23, <1>13, <1>21
    DEF CgiNext, Serve, ProcessRequest, Failure, WebServer
<1>. QED
  BY <1>24, SameLost

(* However the threads fail, at creation, at initialisation or in accept,   *)
(* the pool has lost as many of them as calls have failed.                  *)
THEOREM PoolCounted == CgiSpec => []PoolAccounting
<1>1. CgiInit => PoolAccounting
  <2> SUFFICES ASSUME CgiInit  PROVE PoolAccounting
    OBVIOUS
  <2>1. faults = 0 /\ Lost = {}
    BY DEF CgiInit, Lost, IsLost
  <2>. QED
    BY <2>1, FS_EmptySet DEF PoolAccounting, Lost, IsLost
<1>2. Inv /\ PoolAccounting /\ [CgiNext]_cgiVars => PoolAccounting'
  <2> SUFFICES ASSUME Inv, faults = Cardinality(Lost), [CgiNext]_cgiVars
               PROVE  faults' = Cardinality(Lost')
    BY DEF PoolAccounting, Lost, IsLost
  <2>1. IsFiniteSet(Workers) /\ Lost \in SUBSET Workers
    BY CgiServiceAssumption DEF Lost
  <2>. QED
    BY <2>1, LostStep, OneMore
<1>. QED
  BY <1>1, <1>2, InvAlways, PTL DEF CgiSpec

-----------------------------------------------------------------------------
(* The connections whose UrlParser has stayed on the heap. *)
Leaks(c) ==
  /\ ~asked[c].query
  /\ \/ sent[c] # <<>>
     \/ \E w \in Workers : request[w] = c /\ pc[w] = "refuse"
Leaked == {c \in Conns : Leaks(c)}

LEMMA SameLeaked ==
  ASSUME \A c \in Conns : Leaks(c)' <=> Leaks(c), parsers' = parsers
  PROVE  Leaked' = Leaked /\ parsers' = parsers
  BY DEF Leaked

LEMMA ShapeQuery ==
  ASSUME NEW S \in SUBSET RequestShapes,
         NEW s \in S
  PROVE  s.query \in BOOLEAN /\ s.status \in BOOLEAN /\ s.addr \in BOOLEAN
  BY DEF RequestShapes

LEMMA LeakedStep ==
  ASSUME Inv, [CgiNext]_cgiVars
  PROVE  \/ Leaked' = Leaked /\ parsers' = parsers
         \/ \E c \in Conns \ Leaked :
              Leaked' = Leaked \cup {c} /\ parsers' = parsers + 1
<1> DEFINE Same == (\A d \in Conns : Leaks(d)' <=> Leaks(d)) /\ parsers' = parsers
           Grows == \E c \in Conns \ Leaked :
                      Leaked' = Leaked \cup {c} /\ parsers' = parsers + 1
<1> USE DEF Inv, CgiTypeOK
<1>1. None \notin Workers /\ None \notin Conns
  BY Zenon, CgiServiceAssumption DEF CgiServiceAssumption
<1>p. parsers \in Nat
  OBVIOUS
<1>q. \A c \in Conns : asked[c].query \in BOOLEAN /\ asked[c] \in Shapes
  BY Zenon, CgiServiceAssumption, ShapeQuery DEF Inv, CgiTypeOK
<1>2. ASSUME NEW w \in Workers, CreateThread(w)  PROVE Same
  BY <1>2, <1>1 DEF Leaks, CreateThread, Goto, clientVars
<1>3. ASSUME NEW w \in Workers, CreateFails(w)  PROVE Same
  BY <1>3, <1>1 DEF Leaks, CreateFails, Goto, Fault, clientVars
<1>4. ASSUME NEW w \in Workers, InitRequest(w)  PROVE Same
  BY <1>4, <1>1 DEF Leaks, InitRequest, Goto, clientVars
<1>5. ASSUME NEW w \in Workers, InitRequestFails(w)  PROVE Same
  BY <1>5, <1>1 DEF Leaks, InitRequestFails, Goto, Fault, clientVars
<1>6. ASSUME NEW w \in Workers, LockAccept(w)  PROVE Same
  BY <1>6, <1>1 DEF Leaks, LockAccept, Goto, clientVars
<1>7. ASSUME NEW w \in Workers, TakeConnection(w)  PROVE Same
  BY <1>7, <1>1 DEF Leaks, TakeConnection, clientVars
<1>8. ASSUME NEW w \in Workers, ReadRequest(w)  PROVE Same
  BY <1>8, <1>1 DEF Leaks, ReadRequest, Goto, clientVars
<1>9. ASSUME NEW w \in Workers, DropConnection(w)  PROVE Same
  BY <1>9, <1>1 DEF Leaks, DropConnection, clientVars
<1>10. ASSUME NEW w \in Workers, AcceptFails(w)  PROVE Same
  BY <1>10, <1>1 DEF Leaks, AcceptFails, Goto, clientVars
<1>11. ASSUME NEW w \in Workers, UnlockAccept(w)  PROVE Same
  BY <1>11, <1>1 DEF Leaks, UnlockAccept, Goto, clientVars
<1>12. ASSUME NEW w \in Workers, Parse(w)  PROVE Same \/ Grows
  <2>1. PICK c \in Conns : c = request[w] /\ sent[c] = <<>> /\ \A v \in Workers \ {w} : request[v] # c
    <3>1. request[w] # None /\ pc[w] = "parse"
      BY <1>12 DEF Parse, Goto, AnswerPrepared, Prepared, Working
    <3>. QED
      BY <3>1 DEF OneWorkerPerConnection, Held
  <2>2. /\ pc[w] = "parse" /\ request' = request /\ sent' = sent /\ asked' = asked
        /\ pc' = [pc EXCEPT ![w] = Parsed(asked[c])]
        /\ parsers' = parsers + ParsersMade(asked[c]) - ParsersDeleted(asked[c])
    BY <1>12, <2>1 DEF Parse, Goto, clientVars
  <2>3. \A d \in Conns \ {c} : Leaks(d)' <=> Leaks(d)
    BY <2>1, <2>2 DEF Leaks
  <2>4. ~Leaks(c)
    BY <2>1, <2>2 DEF Leaks
  <2>5. CASE asked[c].query
    <3>1. ~Leaks(c)' /\ parsers' = parsers
      <4>1. ~Leaks(c)'
        BY <2>2, <2>5 DEF Leaks
      <4>2. parsers' = parsers + 2 - 2
        BY <2>2, <2>5 DEF ParsersMade, ParsersDeleted
      <4>3. parsers' = parsers
        BY ONLY <1>p, <4>2
      <4>. QED
        BY <4>1, <4>3
    <3>. QED
      BY <2>3, <2>4, <3>1
  <2>6. CASE ~asked[c].query
    <3>1. Leaks(c)' /\ parsers' = parsers + 1
      <4>1. pc'[w] = "refuse" /\ request'[w] = c
        BY <2>1, <2>2, <2>6 DEF Parsed
      <4>2. Leaks(c)'
        BY <2>2, <2>6, <4>1 DEF Leaks
      <4>3. parsers' = parsers + 1 - 0
        BY <2>2, <2>6 DEF ParsersMade, ParsersDeleted
      <4>4. parsers' = parsers + 1
        BY ONLY <1>p, <4>3
      <4>. QED
        BY <4>2, <4>4
    <3>2. \A d \in Conns : Leaks(d)' <=> d = c \/ Leaks(d)
      BY <2>3, <3>1
    <3>3. c \in Conns \ Leaked /\ Leaked' = Leaked \cup {c}
      BY <2>4, <3>2 DEF Leaked
    <3>. QED
      BY <3>1, <3>3
  <2> HIDE DEF Same, Grows
  <2>. QED
    BY <2>5, <2>6
<1>13. ASSUME NEW w \in Workers, ParseThrows(w)  PROVE Same
  BY <1>13, <1>1 DEF Leaks, ParseThrows, clientVars, threadVars
<1>14. ASSUME NEW w \in Workers, Refuse(w)  PROVE Same
  <2>1. PICK c \in Conns : c = request[w] /\ \A v \in Workers \ {w} : request[v] # c
    <3>1. request[w] # None
      BY <1>14 DEF Refuse, Goto, AnswerPrepared, Prepared, Working
    <3>. QED
      BY <3>1 DEF OneWorkerPerConnection, Held
  <2>2. PICK r \in Responses : /\ pc[w] = "refuse" /\ asked' = asked /\ parsers' = parsers
                               /\ pc' = [pc EXCEPT ![w] = "lock"]
                               /\ request' = [request EXCEPT ![w] = None]
                               /\ sent' = [sent EXCEPT ![c] = Append(@, r)]
    <3>1. StatusOnly(503) \in Responses
      BY Zenon DEF Responses
    <3>2. /\ pc[w] = "refuse" /\ asked' = asked /\ parsers' = parsers
          /\ pc' = [pc EXCEPT ![w] = "lock"]
          /\ request' = [request EXCEPT ![w] = None]
          /\ sent' = [sent EXCEPT ![c] = Append(@, StatusOnly(503))]
      BY ONLY <1>14, <2>1 DEF Refuse, Goto, Respond, clientVars
    <3>. QED
      BY ONLY <3>1, <3>2
  <2>3. \A d \in Conns \ {c} : Leaks(d)' <=> Leaks(d)
    BY <1>1, <2>1, <2>2 DEF Leaks
  <2>4. sent'[c] # <<>>
    <3>1. sent[c] \in Seq(Responses)
      BY <2>1
    <3>2. sent'[c] = Append(sent[c], r)
      BY <2>1, <2>2
    <3>. QED
      BY ONLY <2>2, <3>1, <3>2, AppendToQueue
  <2>5. Leaks(c) <=> ~asked[c].query
    BY <2>1, <2>2 DEF Leaks
  <2>6. Leaks(c)' <=> ~asked[c].query
    BY <2>2, <2>4 DEF Leaks
  <2>. QED
    BY <2>2, <2>3, <2>5, <2>6
<1>15. ASSUME NEW w \in Workers, Status(w)  PROVE Same
  BY <1>15, <1>1 DEF Leaks, Status, Goto, clientVars
<1>16. ASSUME NEW w \in Workers, Process(w)  PROVE Same
  BY <1>16, <1>1 DEF Leaks, Process, Goto, clientVars
<1>17. ASSUME NEW w \in Workers, ProcessThrows(w)  PROVE Same
  BY <1>17, <1>1 DEF Leaks, ProcessThrows, clientVars, threadVars
<1>18. ASSUME NEW w \in Workers, Reply(w)  PROVE Same
  <2>1. PICK c \in Conns : c = request[w] /\ \A v \in Workers \ {w} : request[v] # c
    <3>1. request[w] # None
      BY <1>18 DEF Reply, Goto, AnswerPrepared, Prepared, Working
    <3>. QED
      BY <3>1 DEF OneWorkerPerConnection, Held
  <2>2. PICK r \in Responses : /\ pc[w] = "reply" /\ asked' = asked /\ parsers' = parsers
                               /\ pc' = [pc EXCEPT ![w] = "lock"]
                               /\ request' = [request EXCEPT ![w] = None]
                               /\ sent' = [sent EXCEPT ![c] = Append(@, r)]
    <3>1. /\ pc[w] = "reply" /\ asked' = asked /\ parsers' = parsers
          /\ pc' = [pc EXCEPT ![w] = "lock"]
          /\ request' = [request EXCEPT ![w] = None]
          /\ sent' = [sent EXCEPT ![c] = Append(@, Page(result[w]))]
      BY ONLY <1>18, <2>1 DEF Reply, Goto, Respond, clientVars
    <3>2. result[w] \in {"status", "html"}
      BY <3>1 DEF AnswerPrepared, Prepared
    <3>3. Page(result[w]) \in Responses
      BY ONLY <3>2, Zenon DEF Responses
    <3>. QED
      BY ONLY <3>1, <3>3
  <2>3. \A d \in Conns \ {c} : Leaks(d)' <=> Leaks(d)
    BY <1>1, <2>1, <2>2 DEF Leaks
  <2>4. sent'[c] # <<>>
    <3>1. sent[c] \in Seq(Responses)
      BY <2>1
    <3>2. sent'[c] = Append(sent[c], r)
      BY <2>1, <2>2
    <3>. QED
      BY ONLY <2>2, <3>1, <3>2, AppendToQueue
  <2>5. asked[c].query
    <3>1. DueAnswer(asked[c]) = Page(result[w])
      BY <2>1, <2>2 DEF AnswerPrepared, Prepared
    <3>2. Page(result[w]).status = 200 /\ StatusOnly(503).status = 503
      BY Zenon DEF Page, StatusOnly
    <3>3. DueAnswer(asked[c]) # StatusOnly(503)
      BY ONLY <3>1, <3>2
    <3>. QED
      BY ONLY <3>3 DEF DueAnswer
  <2>6. ~Leaks(c) /\ ~Leaks(c)'
    BY <2>2, <2>5 DEF Leaks
  <2>. QED
    BY <2>2, <2>3, <2>6
<1>19. ASSUME NEW c \in Conns, Connect(c)  PROVE Same
  BY <1>19, <1>1 DEF Leaks, Connect, threadVars
<1>20. ASSUME NEW c \in Conns, Ask(c)  PROVE Same
  BY <1>20, <1>1 DEF Leaks, Ask, threadVars
<1>21. ASSUME NEW c \in Conns, SendBody(c)  PROVE Same
  BY <1>21, <1>1 DEF Leaks, SendBody, threadVars
<1>22. ASSUME NEW c \in Conns, HangUp(c)  PROVE Same
  BY <1>22, <1>1 DEF Leaks, HangUp, threadVars
<1>23. ASSUME UNCHANGED cgiVars  PROVE Same
  BY <1>23 DEF Leaks, cgiVars, threadVars, clientVars
<1>24. Same \/ Grows
  <2> HIDE DEF Same, Grows
  <2>. QED
    BY <1>2, <1>3, <1>4, <1>5, <1>6, <1>7, <1>8, <1>9, <1>10, <1>11, <1>12,
       <1>14, <1>15, <1>16, <1>17, <1>18, <1>19, <1>20, <1>22, <1>23, <1>13, <1>21
    DEF CgiNext, Serve, ProcessRequest, Failure, WebServer
<1>. QED
  BY <1>24, SameLeaked

(* Whatever the threads parse at once, one parser stays on the heap for     *)
(* each request without a query string, and none for any other.             *)
THEOREM LeakCounted == CgiSpec => []LeaksOnlyWithoutQuery
<1>1. CgiInit => LeaksOnlyWithoutQuery
  <2> SUFFICES ASSUME CgiInit  PROVE LeaksOnlyWithoutQuery
    OBVIOUS
  <2>1. parsers = 0 /\ Leaked = {}
    BY DEF CgiInit, Leaked, Leaks
  <2>. QED
    BY <2>1, FS_EmptySet DEF LeaksOnlyWithoutQuery, Leaked, Leaks
<1>2. Inv /\ LeaksOnlyWithoutQuery /\ [CgiNext]_cgiVars => LeaksOnlyWithoutQuery'
  <2> SUFFICES ASSUME Inv, parsers = Cardinality(Leaked), [CgiNext]_cgiVars
               PROVE  parsers' = Cardinality(Leaked')
    BY DEF LeaksOnlyWithoutQuery, Leaked, Leaks
  <2>1. IsFiniteSet(Conns) /\ Leaked \in SUBSET Conns
    BY CgiServiceAssumption DEF Leaked
  <2>. QED
    BY <2>1, LeakedStep, OneMore
<1>. QED
  BY <1>1, <1>2, InvAlways, PTL DEF CgiSpec
=============================================================================
