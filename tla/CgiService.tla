----------------------------- MODULE CgiService -----------------------------
(***************************************************************************)
(* The FastCGI service: the constructor's loop that creates the worker     *)
(* threads, the loop each of them runs in Serve, and ProcessRequest with   *)
(* the parts of Params::parse and Core::Process that decide which way a    *)
(* request goes.                                                           *)
(*                                                                         *)
(* All workers accept on one listening socket, one at a time: Serve holds  *)
(* accept_mutex around FCGX_Accept_r, and that call returns once the       *)
(* parameters of the accepted connection's request have been read.  Its    *)
(* body is read after that, by Params::parse and outside the mutex: a      *)
(* thread waits there for a client that does not send what it announced.   *)
(* A worker whose accept fails leaves its loop and is never replaced.      *)
(*                                                                         *)
(* An exception that ProcessRequest lets escape ends the process.  Two are *)
(* modelled: boost::format throws when the template has not the nine       *)
(* directives it is given, as is the case for the empty string             *)
(* getFileContents returns for a file it cannot open; u32regex_replace     *)
(* throws when the value of the identifying cookie is not UTF-8.           *)
(*                                                                         *)
(* The kernel's accept queue, libfcgi and the web server are external.     *)
(***************************************************************************)
EXTENDS Naturals, Sequences, FiniteSets

CONSTANTS
  Workers,     \* one thread for each of the configured server_children_
  Conns,       \* the connections of the web server, each used once
  Shapes,      \* the requests, see RequestShapes
  None,        \* no worker, or no connection
  MaxFaults    \* bound on failing pthread_create, FCGX_InitRequest and accept

(* Whether QUERY_STRING is set and has show=status, REMOTE_ADDR is set,     *)
(* CONTENT_LENGTH announces a body, and what HTTP_COOKIE has as the id of   *)
(* the visitor is valid UTF-8 (or absent).                                  *)
RequestShapes == [query : BOOLEAN, status : BOOLEAN, addr : BOOLEAN,
                  body : BOOLEAN, valid : BOOLEAN]

ASSUME CgiServiceAssumption ==
  /\ IsFiniteSet(Workers)
  /\ IsFiniteSet(Conns)
  /\ Shapes \subseteq RequestShapes
  /\ None \notin Workers /\ None \notin Conns
  /\ MaxFaults \in Nat

VARIABLES
  pc,             \* where each thread is in Serve and ProcessRequest
  accept_mutex,   \* the thread that holds it, or None
  request,        \* the connection in each thread's FCGX_Request, or None
  result,         \* the string each thread is about to send
  backlog,        \* the accept queue of the listening socket
  client,         \* how far each connection's client has got
  asked,          \* the shape of each connection's request
  sent,           \* the responses written to each connection
  parsers,        \* UrlParser objects on the heap
  template_out_,  \* what Config::Load made of the template file
  faults,         \* calls that failed and cost a thread
  up              \* the process has not been terminated

threadVars == <<pc, accept_mutex, request, result>>
clientVars == <<client, asked>>
cgiVars == <<threadVars, backlog, clientVars, sent, parsers, template_out_,
             faults, up>>

(* Points of Serve: "start" to "unlock"; of ProcessRequest: the others. *)
Points == {"none", "start", "lock", "accept", "unlock", "parse", "refuse",
           "status", "process", "reply", "ended"}

(* A client connects, sends the parameters of its request ("asked"), then  *)
(* the body if it has announced one ("complete"); it may close before the  *)
(* parameters are out ("aborted") or after that ("left").                  *)
ClientStates == {"away", "connected", "asked", "complete", "aborted", "left"}

(* The two overloads of Response: with a page, and with a status code only. *)
Page(out) == [status |-> 200, body |-> out]
StatusOnly(code) == [status |-> code, body |-> "none"]
Responses == {Page("status"), Page("html"), StatusOnly(503)}

(* Mutants are named for the slip they contain: the bug a run has to find   *)
(* when the definition that follows is exchanged for them.                  *)
MutantAddressTestedFirst(s) ==
  IF ~s.query \/ ~s.addr THEN "refuse"
  ELSE IF s.status THEN "status"
  ELSE "process"

(* What ProcessRequest does next with a request, from the early returns of *)
(* Params::parse in their order and the test of prm->status.               *)
Parsed(s) ==
  IF ~s.query THEN "refuse"
  ELSE IF s.status THEN "status"
  ELSE IF ~s.addr THEN "refuse"
  ELSE "process"

MutantDeletesBoth(s) == 2
MutantNoAddressLeaks(s) == IF s.query /\ (s.status \/ s.addr) THEN 2 ELSE 0

MutantReadsOnAfterClose(c) == asked[c].body => client[c] = "complete"

(* What FCGX_GetStr waits for: nothing when no body is announced, else that *)
(* it is complete or the connection closed.                                 *)
BodyRead(c) == asked[c].body => client[c] \in {"complete", "left"}

(* The request gets as far as the filtering of the id of the visitor, and   *)
(* that is no text.                                                         *)
CookieThrows(s) == s.query /\ ~s.status /\ s.addr /\ ~s.valid

(* UrlParser objects parse allocates, and those it deletes before it       *)
(* returns: none on the path where QUERY_STRING is missing.                *)
ParsersMade(s) == IF s.query THEN 2 ELSE 1
ParsersDeleted(s) == IF s.query THEN 2 ELSE 0

Goto(w, from, to) ==
  /\ pc[w] = from
  /\ pc' = [pc EXCEPT ![w] = to]

-----------------------------------------------------------------------------
CgiInit ==
  /\ pc = [w \in Workers |-> "none"]
  /\ accept_mutex = None
  /\ request = [w \in Workers |-> None]
  /\ result = [w \in Workers |-> "none"]
  /\ backlog = <<>>
  /\ client = [c \in Conns |-> "away"]
  /\ asked \in [Conns -> Shapes]
  /\ sent = [c \in Conns |-> <<>>]
  /\ parsers = 0
  /\ template_out_ \in {"nine directives", "empty"}
  /\ faults = 0
  /\ up = TRUE

(* The constructor's loop over server_children_: a failure is only logged. *)
CreateThread(w) ==
  /\ Goto(w, "none", "start")
  /\ UNCHANGED <<accept_mutex, request, result, backlog, clientVars, sent,
                 parsers, template_out_, faults, up>>

Fault(w, from) ==
  /\ faults < MaxFaults
  /\ faults' = faults + 1
  /\ Goto(w, from, "ended")
  /\ UNCHANGED <<accept_mutex, request, result, backlog, clientVars, sent,
                 parsers, template_out_, up>>

CreateFails(w) == Fault(w, "none")

InitRequest(w) ==
  /\ Goto(w, "start", "lock")
  /\ UNCHANGED <<accept_mutex, request, result, backlog, clientVars, sent,
                 parsers, template_out_, faults, up>>

InitRequestFails(w) == Fault(w, "start")

MutantAcceptUnlocked(w) ==
  /\ Goto(w, "lock", "accept")
  /\ accept_mutex' = w
  /\ UNCHANGED <<request, result, backlog, clientVars, sent, parsers,
                 template_out_, faults, up>>

LockAccept(w) ==
  /\ accept_mutex = None
  /\ Goto(w, "lock", "accept")
  /\ accept_mutex' = w
  /\ UNCHANGED <<request, result, backlog, clientVars, sent, parsers,
                 template_out_, faults, up>>

(* Inside FCGX_Accept_r: the connection is accepted, then the parameters   *)
(* of its request are read; a connection closed before they are complete   *)
(* is dropped and another one taken.                                       *)
TakeConnection(w) ==
  /\ pc[w] = "accept" /\ request[w] = None
  /\ backlog # <<>>
  /\ request' = [request EXCEPT ![w] = Head(backlog)]
  /\ backlog' = Tail(backlog)
  /\ UNCHANGED <<pc, accept_mutex, result, clientVars, sent, parsers,
                 template_out_, faults, up>>

ReadRequest(w) ==
  /\ request[w] # None
  /\ client[request[w]] \in {"asked", "complete", "left"}
  /\ Goto(w, "accept", "unlock")
  /\ UNCHANGED <<accept_mutex, request, result, backlog, clientVars, sent,
                 parsers, template_out_, faults, up>>

DropConnection(w) ==
  /\ pc[w] = "accept" /\ request[w] # None
  /\ client[request[w]] = "aborted"
  /\ request' = [request EXCEPT ![w] = None]
  /\ UNCHANGED <<pc, accept_mutex, result, backlog, clientVars, sent, parsers,
                 template_out_, faults, up>>

(* rc < 0: FCGX_Accept_r returns without a connection. *)
AcceptFails(w) ==
  /\ request[w] = None
  /\ faults < MaxFaults
  /\ faults' = faults + 1
  /\ Goto(w, "accept", "unlock")
  /\ UNCHANGED <<accept_mutex, request, result, backlog, clientVars, sent,
                 parsers, template_out_, up>>

MutantAcceptRetries(w) ==
  /\ accept_mutex' = None
  /\ Goto(w, "unlock", IF request[w] = None THEN "lock" ELSE "parse")
  /\ UNCHANGED <<request, result, backlog, clientVars, sent, parsers,
                 template_out_, faults, up>>

MutantBreaksBeforeUnlock(w) ==
  /\ accept_mutex' = IF request[w] = None THEN accept_mutex ELSE None
  /\ Goto(w, "unlock", IF request[w] = None THEN "ended" ELSE "parse")
  /\ UNCHANGED <<request, result, backlog, clientVars, sent, parsers,
                 template_out_, faults, up>>

(* The mutex is released before rc is looked at. *)
UnlockAccept(w) ==
  /\ accept_mutex' = None
  /\ Goto(w, "unlock", IF request[w] = None THEN "ended" ELSE "parse")
  /\ UNCHANGED <<request, result, backlog, clientVars, sent, parsers,
                 template_out_, faults, up>>

-----------------------------------------------------------------------------
(* Params::parse, which waits for the body. *)
Parse(w) ==
  LET s == asked[request[w]]
  IN  /\ Goto(w, "parse", Parsed(s))
      /\ BodyRead(request[w])
      /\ ~CookieThrows(s)
      /\ parsers' = parsers + ParsersMade(s) - ParsersDeleted(s)
      /\ UNCHANGED <<accept_mutex, request, result, backlog, clientVars, sent,
                     template_out_, faults, up>>

(* u32regex_replace throws and nobody catches. *)
ParseThrows(w) ==
  /\ pc[w] = "parse"
  /\ BodyRead(request[w])
  /\ CookieThrows(asked[request[w]])
  /\ up' = FALSE
  /\ UNCHANGED <<threadVars, backlog, clientVars, sent, parsers,
                 template_out_, faults>>

MutantNotFinished(w, response) ==
  /\ sent' = [sent EXCEPT ![request[w]] = Append(@, response)]
  /\ result' = [result EXCEPT ![w] = "none"]
  /\ UNCHANGED <<accept_mutex, request, backlog, clientVars, parsers,
                 template_out_, faults, up>>

(* Response writes, and FCGX_Finish_r closes, whether or not the client is *)
(* still there; then Serve goes round its loop.                            *)
Respond(w, response) ==
  /\ sent' = [sent EXCEPT ![request[w]] = Append(@, response)]
  /\ request' = [request EXCEPT ![w] = None]
  /\ result' = [result EXCEPT ![w] = "none"]
  /\ UNCHANGED <<accept_mutex, backlog, clientVars, parsers, template_out_,
                 faults, up>>

Refuse(w) ==
  /\ Goto(w, "refuse", "lock")
  /\ Respond(w, StatusOnly(503))

(* bcore->Status() *)
Status(w) ==
  /\ Goto(w, "status", "reply")
  /\ result' = [result EXCEPT ![w] = "status"]
  /\ UNCHANGED <<accept_mutex, request, backlog, clientVars, sent, parsers,
                 template_out_, faults, up>>

(* core->Process(prm) returns the page, or throws and nobody catches. *)
Process(w) ==
  /\ template_out_ = "nine directives"
  /\ Goto(w, "process", "reply")
  /\ result' = [result EXCEPT ![w] = "html"]
  /\ UNCHANGED <<accept_mutex, request, backlog, clientVars, sent, parsers,
                 template_out_, faults, up>>

ProcessThrows(w) ==
  /\ template_out_ = "empty"
  /\ pc[w] = "process"
  /\ up' = FALSE
  /\ UNCHANGED <<threadVars, backlog, clientVars, sent, parsers,
                 template_out_, faults>>

Reply(w) ==
  /\ Goto(w, "reply", "lock")
  /\ Respond(w, Page(result[w]))

-----------------------------------------------------------------------------
(* The socket is listening before the first thread exists, with a queue    *)
(* for server_children_ connections.                                       *)
Connect(c) ==
  /\ client[c] = "away"
  /\ Len(backlog) < Cardinality(Workers)
  /\ backlog' = Append(backlog, c)
  /\ client' = [client EXCEPT ![c] = "connected"]
  /\ UNCHANGED <<threadVars, asked, sent, parsers, template_out_, faults, up>>

Ask(c) ==
  /\ client[c] = "connected"
  /\ client' = [client EXCEPT ![c] = "asked"]
  /\ UNCHANGED <<threadVars, backlog, asked, sent, parsers, template_out_,
                 faults, up>>

SendBody(c) ==
  /\ client[c] = "asked" /\ asked[c].body
  /\ client' = [client EXCEPT ![c] = "complete"]
  /\ UNCHANGED <<threadVars, backlog, asked, sent, parsers, template_out_,
                 faults, up>>

HangUp(c) ==
  /\ sent[c] = <<>>
  /\ \/ /\ client[c] = "connected"
        /\ client' = [client EXCEPT ![c] = "aborted"]
     \/ /\ client[c] \in {"asked", "complete"}
        /\ client' = [client EXCEPT ![c] = "left"]
  /\ UNCHANGED <<threadVars, backlog, asked, sent, parsers, template_out_,
                 faults, up>>

-----------------------------------------------------------------------------
Serve(w) ==
  \/ InitRequest(w)
  \/ LockAccept(w)
  \/ TakeConnection(w)
  \/ ReadRequest(w)
  \/ DropConnection(w)
  \/ UnlockAccept(w)

ProcessRequest(w) ==
  \/ Parse(w)
  \/ ParseThrows(w)
  \/ Refuse(w)
  \/ Status(w)
  \/ Process(w)
  \/ ProcessThrows(w)
  \/ Reply(w)

Failure(w) == CreateFails(w) \/ InitRequestFails(w) \/ AcceptFails(w)

WebServer(c) == Connect(c) \/ Ask(c) \/ SendBody(c) \/ HangUp(c)

CgiNext ==
  /\ up
  /\ \/ \E w \in Workers :
          CreateThread(w) \/ Serve(w) \/ ProcessRequest(w) \/ Failure(w)
     \/ \E c \in Conns : WebServer(c)

CgiSpec == CgiInit /\ [][CgiNext]_cgiVars

(* The constructor runs its loop to the end, and the kernel schedules      *)
(* every thread.  Nothing is assumed about which waiting thread gets the   *)
(* mutex.  The code has no timeout of its own, so that the web server has  *)
(* to have one: once connected it sends its parameters or gives up, and    *)
(* then the body it announced, or gives up.                                *)
CgiFairness ==
  /\ \A w \in Workers :
       /\ WF_cgiVars(up /\ (CreateThread(w) \/ CreateFails(w)))
       /\ WF_cgiVars(up /\ (Serve(w) \/ ProcessRequest(w)))
  /\ \A c \in Conns :
       WF_cgiVars(up /\ (Ask(c) \/ SendBody(c) \/ HangUp(c)))

FairCgiSpec == CgiSpec /\ CgiFairness

-----------------------------------------------------------------------------
(* Type invariant of the threads, the clients and the process. *)
CgiTypeOK ==
  /\ pc \in [Workers -> Points]
  /\ accept_mutex \in Workers \cup {None}
  /\ request \in [Workers -> Conns \cup {None}]
  /\ result \in [Workers -> {"none", "status", "html"}]
  /\ backlog \in Seq(Conns)
  /\ client \in [Conns -> ClientStates]
  /\ asked \in [Conns -> Shapes]
  /\ sent \in [Conns -> Seq(Responses)]
  /\ parsers \in Nat
  /\ template_out_ \in {"nine directives", "empty"}
  /\ faults \in 0 .. MaxFaults
  /\ up \in BOOLEAN

Queued == {backlog[i] : i \in 1 .. Len(backlog)}
Held == {request[w] : w \in Workers} \ {None}
Ended == {w \in Workers : pc[w] = "ended"}
CookieThrew ==
  \E w \in Workers : pc[w] = "parse" /\ CookieThrows(asked[request[w]])

(* A connection is in one place only: waiting once in the accept queue, in  *)
(* the FCGX_Request of one thread, answered, or given up.  No two threads   *)
(* work on the same connection and none works on an answered one, although  *)
(* they all accept on one socket.                                           *)
OneWorkerPerConnection ==
  /\ \A i, j \in 1 .. Len(backlog) : backlog[i] = backlog[j] => i = j
  /\ \A v, w \in Workers : request[v] = request[w] /\ v # w => request[v] = None
  /\ Queued \cap Held = {}
  /\ \A c \in Queued \cup Held : sent[c] = <<>> /\ client[c] # "away"

(* What a thread has and what it waits for go together: the mutex is held   *)
(* exactly inside FCGX_Accept_r, and only there is a connection held whose  *)
(* parameters are not in; past Params::parse the body is in as well, or the *)
(* client has gone, so that nobody who waits is answered for half a request.*)
ReadBeforeWork ==
  \A w \in Workers :
    /\ pc[w] \in {"accept", "unlock"} <=> accept_mutex = w
    /\ request[w] # None /\ client[request[w]] \notin {"asked", "complete", "left"}
         => pc[w] = "accept"
    /\ pc[w] \in {"refuse", "status", "process", "reply"}
         => BodyRead(request[w])

(* A thread that cannot take a step: it waits for the mutex, for parameters *)
(* or for a body.                                                           *)
WaitsForClient(w) ==
  \/ /\ pc[w] = "accept" /\ request[w] # None
     /\ client[request[w]] = "connected"
  \/ /\ pc[w] = "parse"
     /\ client[request[w]] = "asked" /\ asked[request[w]].body

Stalled(w) ==
  \/ pc[w] = "ended"
  \/ pc[w] = "lock" /\ accept_mutex # None
  \/ WaitsForClient(w)

(* When connections queue and no thread can move, the pool is lost or some  *)
(* thread waits for its client: the threads never wait for each other only. *)
StallsOnlyOnClients ==
  up /\ backlog # <<>> /\ (\A w \in Workers : Stalled(w))
    => Ended = Workers \/ \E w \in Workers : WaitsForClient(w)

(* The heap grows by one UrlParser for each request that came without a     *)
(* QUERY_STRING and by nothing else, whatever threads parse at once.        *)
LeaksOnlyWithoutQuery ==
  parsers = Cardinality({c \in Conns :
    /\ ~asked[c].query
    /\ \/ sent[c] # <<>>
       \/ \E w \in Workers : request[w] = c /\ pc[w] = "refuse"})

(* The pool loses a thread for each failed call and for nothing else; none  *)
(* is replaced.                                                             *)
PoolAccounting ==
  faults = Cardinality({w \in Workers :
    pc[w] = "ended" \/ (pc[w] = "unlock" /\ request[w] = None)})

(* Whoever has connected is answered or has gone away, unless the whole pool *)
(* is lost, or the process has ended by an empty template or by a cookie     *)
(* that is no text.                                                          *)
EveryRequestAnswered ==
  \A c \in Conns :
    client[c] = "connected" ~>
      \/ sent[c] # <<>>
      \/ client[c] = "aborted"
      \/ Ended = Workers
      \/ ~up /\ (template_out_ = "empty" \/ CookieThrew)

(* What RequestService promises: first come first served, and one answer of *)
(* the kind the request calls for, whatever the threads do.                 *)
DueAnswer(s) ==
  IF s.query /\ s.status THEN Page("status")
  ELSE IF s.query /\ s.addr THEN Page("html")
  ELSE StatusOnly(503)

Service == INSTANCE RequestService
  WITH queue <- backlog, serving <- Held, want <- asked, answers <- sent,
       Capacity <- Cardinality(Workers), Due <- DueAnswer

ImplementsService == Service!Spec

(* main.cpp:56, "Config: Ok": a configuration that passed Load can be       *)
(* served with - the process does not die of it (it may of a cookie).       *)
LoadedConfigServes == up \/ CookieThrew
=============================================================================
