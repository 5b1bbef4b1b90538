------------------------------ MODULE Visitors ------------------------------
(***************************************************************************)
(* The identity of a visitor: browsers with their cookies, and the part of *)
(* Params::parse and CgiService::ProcessRequest that reads an id out of    *)
(* the Cookie header, or makes one of the time, and sends it back for a    *)
(* year; with the body of the request, from which the page gets the time   *)
(* that an offer stays in the visitor's history.                           *)
(*                                                                         *)
(* A browser may have several pages open, whose answers come in any order  *)
(* or not at all.  A jar, and a cookie header, is a function from places   *)
(* to cookies, oldest first; of each, as much is kept as the code tells    *)
(* apart.  The body is the text of its parameter "time", a sequence of     *)
(* digits (the other parameters are read by the UrlParser).  The values of *)
(* cookies are UTF-8: the service does not survive another (ParseThrows of *)
(* CgiService).                                                            *)
(***************************************************************************)
EXTENDS Integers, Sequences

CONSTANTS
  Visitors,     \* browsers
  Tabs,         \* the pages a browser may have open
  Jars,         \* the cookies that a browser may have from elsewhere
  Forms,        \* bodies: [text |-> digits, length |-> CONTENT_LENGTH]
  Garbage,      \* the texts that may follow a buffer in memory
  NotSet,       \* CONTENT_LENGTH is not set
  NoId,         \* the empty id
  Year,         \* the life of a cookie
  DaySeconds,   \* seconds of a day
  DefaultDays,  \* days without a parameter "time" (365)
  IntHalf,      \* an int is in -IntHalf .. IntHalf - 1
  StdinMax,     \* the most bytes that are read of a body
  MaxTime,      \* bound: the clock
  MaxVisits     \* bound: requests

Times == 0 .. MaxTime
Never == MaxTime + Year + 1

(* A value is told apart by its digits and by whether there is more in it;  *)
(* a fragment, by whether the configured name occurs in it, how often "="   *)
(* does, and whether it is the service's own cookie.                        *)
Value == [digits : Nat \cup {NoId}, rest : BOOLEAN]
CookieType == [own : BOOLEAN, match : BOOLEAN, equals : Nat, value : Value,
               expires : Nat]
Empty == [digits |-> NoId, rest |-> FALSE]

IsJar(cookies) ==
  /\ DOMAIN cookies \subseteq Nat \ {0}
  /\ \A i \in DOMAIN cookies : cookies[i] \in CookieType

OwnAt(cookies) == {i \in DOMAIN cookies : cookies[i].own}

(* The service's own cookie has the configured name; there is one at most.  *)
OneOwn(cookies) ==
  \A i \in OwnAt(cookies) :
    cookies[i].match /\ cookies[i].equals = 1 /\ OwnAt(cookies) = {i}

ASSUME VisitorsAssumption ==
  /\ NoId \notin Nat /\ NotSet \notin Nat
  /\ {Year, DaySeconds, DefaultDays, IntHalf, StdinMax} \subseteq Nat \ {0}
  /\ {MaxTime, MaxVisits} \subseteq Nat
  /\ Jars \subseteq Seq(CookieType) /\ \A c \in Jars : OneOwn(c)
  /\ Garbage \subseteq Seq(0 .. 9) /\ <<>> \in Garbage
  /\ Forms \subseteq [text : Seq(0 .. 9), length : Nat \cup {NotSet}]

VARIABLES
  clock,       \* time(NULL), and the clock of the browsers
  jar,         \* the cookies of each browser
  page,        \* what is going on in each tab
  visits,      \* requests sent so far
  overlapped,  \* history: browsers that had two requests under way
  blanks       \* history: how many answers in a row had an empty id, though
               \* no other cookie was taken for the service's

visitorsVars == <<clock, jar, page, visits, overlapped, blanks>>

NoPage == [state |-> "none"]

-----------------------------------------------------------------------------
(* Params::parse: the first fragment that contains the name and splits into *)
(* two at "=".                                                              *)
Candidates(header) ==
  {i \in DOMAIN header : header[i].match /\ header[i].equals = 1}

First(S) == CHOOSE i \in S : \A j \in S : i <= j
Last(S) == CHOOSE i \in S : \A j \in S : j <= i

(* Mutants are named for the slip they contain: the bug a run has to find   *)
(* when the definition that follows is exchanged for them.                  *)
MutantTakesLast(header) ==
  IF Candidates(header) = {} THEN Empty
  ELSE header[Last(Candidates(header))].value

CookieValue(header) ==
  IF Candidates(header) = {} THEN Empty
  ELSE header[First(Candidates(header))].value

MutantEmptyIsKept(header, now) == CookieValue(header).digits

(* An empty value is replaced by the time; of any other the digits are left, *)
(* which may be none.                                                       *)
cookie_id(header, now) ==
  IF CookieValue(header) = Empty THEN now ELSE CookieValue(header).digits

MutantAsWide(x) == x

AsInt(x) == ((x + IntHalf) % (2 * IntHalf)) - IntHalf

AtoI(text) ==
  LET n[i \in 0 .. Len(text)] ==
        IF i = 0 THEN 0 ELSE 10 * n[i - 1] + text[i]
  IN  AsInt(n[Len(text)])

(* The buffer has the declared size and is filled with zeros first: a text  *)
(* that leaves room in it ends where it ended, one that fills it goes on    *)
(* with what follows in memory.                                             *)
Declared(form) ==
  IF form.length = NotSet THEN 0
  ELSE IF form.length > StdinMax THEN StdinMax ELSE form.length

Bodies(form) ==
  LET n == Declared(form) IN
  IF n = 0 THEN {<<>>}
  ELSE IF Len(form.text) < n THEN {form.text}
  ELSE {SubSeq(form.text, 1, n) \o g : g \in Garbage}

time_cookies(body) == IF body = <<>> THEN DefaultDays ELSE AtoI(body)

getSecondTimeCookie(body) == AsInt(time_cookies(body) * DaySeconds)

-----------------------------------------------------------------------------
(* Browsers: a cookie that has expired is gone; one that is set anew keeps  *)
(* its place.                                                               *)
Live(cookies) ==
  [i \in {j \in DOMAIN cookies : cookies[j].expires > clock} |-> cookies[i]]

NewPlace(cookies) ==
  IF DOMAIN cookies = {} THEN 1 ELSE Last(DOMAIN cookies) + 1

Stored(cookies, id, until) ==
  LET c == [own |-> TRUE, match |-> TRUE, equals |-> 1,
            value |-> [digits |-> id, rest |-> FALSE], expires |-> until]
      place == IF OwnAt(cookies) = {} THEN NewPlace(cookies)
               ELSE First(OwnAt(cookies))
  IN  [i \in DOMAIN cookies \cup {place} |-> IF i = place THEN c ELSE cookies[i]]

(* Another cookie than the service's is the first candidate.                *)
Mistaken(header) ==
  Candidates(header) # {} /\ ~header[First(Candidates(header))].own

VisitorsInit ==
  /\ clock = 0
  /\ jar \in [Visitors -> Jars]
  /\ page = [v \in Visitors |-> [t \in Tabs |-> NoPage]]
  /\ visits = 0
  /\ overlapped = {}
  /\ blanks = [v \in Visitors |-> 0]

Send(v, t) ==
  /\ visits < MaxVisits /\ visits' = visits + 1
  /\ page[v][t] = NoPage
  /\ \E f \in Forms :
       page' = [page EXCEPT ![v][t] =
                  [state |-> "sent", header |-> Live(jar[v]), form |-> f]]
  /\ overlapped' = IF \E u \in Tabs : page[v][u] # NoPage
                   THEN overlapped \cup {v} ELSE overlapped
  /\ UNCHANGED <<clock, jar, blanks>>

(* parse, and the Set-Cookie header of ProcessRequest. *)
Answer(v, t) ==
  /\ page[v][t].state = "sent"
  /\ \E b \in Bodies(page[v][t].form) :
       page' = [page EXCEPT ![v][t] =
                  [state |-> "answered", misled |-> Mistaken(@.header),
                   id |-> cookie_id(@.header, clock), until |-> clock + Year,
                   ttl |-> getSecondTimeCookie(b)]]
  /\ UNCHANGED <<clock, jar, visits, overlapped, blanks>>

Receive(v, t) ==
  /\ page[v][t].state = "answered"
  /\ jar' = [jar EXCEPT ![v] = Stored(Live(@), page[v][t].id, page[v][t].until)]
  /\ page' = [page EXCEPT ![v][t] = NoPage]
  /\ blanks' = [blanks EXCEPT ![v] =
                   IF page[v][t].id = NoId /\ ~page[v][t].misled THEN @ + 1 ELSE 0]
  /\ UNCHANGED <<clock, visits, overlapped>>

(* The page is closed, or the answer lost. *)
Close(v, t) ==
  /\ page[v][t] # NoPage
  /\ page' = [page EXCEPT ![v][t] = NoPage]
  /\ UNCHANGED <<clock, jar, visits, overlapped, blanks>>

Tick ==
  /\ clock < MaxTime /\ clock' = clock + 1
  /\ UNCHANGED <<jar, page, visits, overlapped, blanks>>

VisitorsNext ==
  \/ Tick
  \/ \E v \in Visitors, t \in Tabs :
       Send(v, t) \/ Answer(v, t) \/ Receive(v, t) \/ Close(v, t)

VisitorsSpec == VisitorsInit /\ [][VisitorsNext]_visitorsVars

-----------------------------------------------------------------------------
(* Type invariant: pages, ids and times; no browser has two cookies of the  *)
(* service.                                                                 *)
Ids == Nat \cup {NoId}

Answers ==
  [state : {"answered"}, misled : BOOLEAN, id : Ids, until : Nat,
   ttl : -IntHalf .. IntHalf - 1]

PageOK(p) ==
  \/ p = NoPage
  \/ p \in Answers
  \/ /\ p.state = "sent" /\ IsJar(p.header)
     /\ p \in [state : {"sent"}, header : {p.header}, form : Forms]

VisitorsTypeOK ==
  /\ clock \in Times
  /\ DOMAIN jar = Visitors
  /\ \A v \in Visitors : IsJar(jar[v]) /\ OneOwn(jar[v])
  /\ DOMAIN page = Visitors
  /\ \A v \in Visitors : DOMAIN page[v] = Tabs /\ \A t \in Tabs : PageOK(page[v][t])
  /\ visits \in 0 .. MaxVisits
  /\ overlapped \subseteq Visitors
  /\ blanks \in [Visitors -> Nat]

(* The id a browser would send.                                             *)
OwnId(cookies) ==
  IF OwnAt(cookies) = {} THEN NoId
  ELSE cookies[First(OwnAt(cookies))].value.digits

(* The answer to a request in which another cookie was taken for the        *)
(* service's arrives.                                                       *)
MisledAnswer(v) ==
  \E t \in Tabs :
    page[v][t].state = "answered" /\ page[v][t].misled /\ page'[v][t] = NoPage

KeepsId(v) ==
  OwnId(Live(jar[v])) \notin {NoId, OwnId(jar'[v])}
    => v \in overlapped \/ MisledAnswer(v)

(* Params.cpp:136, "ID of the visitor, cookie": whoever has an id keeps it  *)
(* for as long as its cookie lives, across any number of visits and lost    *)
(* answers, unless two visits were under way at once, or the answer is to a *)
(* request in which another cookie was taken for the service's.             *)
IdentityKept == [][\A v \in Visitors : KeepsId(v)]_visitorsVars

(* Params.cpp:137-149 tests for emptiness before it removes what is not a   *)
(* digit.  A browser whose cookie has no digit gets an empty id back, but   *)
(* with it a cookie that is replaced on the next visit.                     *)
EmptyIdOnlyOnce == \A v \in Visitors : v \notin overlapped => blanks[v] <= 1

(* config.xml:29 calls the cookie yottos_unique_id: no two visitors have    *)
(* the same id.                                                             *)
UniqueIds ==
  \A u, v \in Visitors :
    u # v /\ OwnId(jar[u]) # NoId => OwnId(jar[u]) # OwnId(jar[v])
=============================================================================
