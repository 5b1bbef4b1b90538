-------------------------- MODULE Visitors_proofs --------------------------
(***************************************************************************)
(* Proofs about Visitors: types, and the two properties of a visitor's id, *)
(* for any number of browsers, tabs, cookies and bodies.                   *)
(*                                                                         *)
(* The argument for the id.  Of a browser without overlapping visits one   *)
(* page at most is open (Alone).  Its request shows the cookies that were  *)
(* alive when it was sent, and every one that still is (HeaderKept); so,   *)
(* if no other cookie is the first candidate, the answer carries the id of *)
(* the service's cookie (AnswerKept), and is not empty twice in a row,     *)
(* since a cookie with an empty value is replaced (BlankReplaced).         *)
(***************************************************************************)
EXTENDS Visitors, TLAPS, WellFoundedInduction

(* A set of natural numbers has a least element, and a greatest one if it    *)
(* is bounded.                                                              *)
LEMMA FirstIsLeast ==
  ASSUME NEW S \in SUBSET Nat, S # {}
  PROVE  First(S) \in S /\ \A j \in S : First(S) <= j
<1>1. PICK x \in S : \A y \in S : ~(<<y, x>> \in OpToRel(<, Nat))
  BY WFMin, NatLessThanWellFounded
<1>2. \A y \in S : x <= y
  <2> SUFFICES ASSUME NEW y \in S, y < x PROVE FALSE
    OBVIOUS
  <2>1. <<y, x>> \in Nat \X Nat /\ <<y, x>>[1] < <<y, x>>[2]
    OBVIOUS
  <2>2. <<y, x>> \in OpToRel(<, Nat)
    BY <2>1, Zenon DEF OpToRel
  <2> QED
    BY <1>1, <2>2
<1> QED
  BY <1>2 DEF First

LEMMA LastIsGreatest ==
  ASSUME NEW S \in SUBSET Nat, S # {}, NEW b \in Nat, S \subseteq 0 .. b
  PROVE  Last(S) \in S /\ \A j \in S : j <= Last(S)
<1> DEFINE B == {c \in Nat : \A j \in S : j <= c}
<1>1. B \in SUBSET Nat /\ b \in B
  OBVIOUS
<1>2. First(B) \in B /\ \A c \in B : First(B) <= c
  BY <1>1, FirstIsLeast
<1>3. First(B) \in S
  <2> SUFFICES ASSUME First(B) \notin S PROVE FALSE
    OBVIOUS
  <2>1. PICK j \in S : TRUE
    OBVIOUS
  <2>2. First(B) \in Nat /\ j < First(B)
    BY <1>2
  <2>3. First(B) - 1 \in B
    BY <1>2, <2>2
  <2> QED
    BY <1>2, <2>2, <2>3
<1>4. \E i \in S : \A j \in S : j <= i
  BY <1>2, <1>3
<1> QED
  BY <1>4 DEF Last

(* Conversion to int, and atoi: the digits make a number, whatever their    *)
(* number (by induction on the length: the least length without a value).   *)
LEMMA Remainder ==
  ASSUME NEW a \in Int, NEW b \in Nat \ {0}
  PROVE  a % b \in 0 .. b - 1
OBVIOUS

LEMMA AsIntFits ==
  ASSUME NEW x \in Int
  PROVE  AsInt(x) \in -IntHalf .. IntHalf - 1
<1>1. IntHalf \in Nat /\ 2 * IntHalf \in Nat \ {0} /\ x + IntHalf \in Int
  BY VisitorsAssumption
<1>2. (x + IntHalf) % (2 * IntHalf) \in 0 .. 2 * IntHalf - 1
  BY <1>1, Remainder
<1> QED
  BY <1>1, <1>2 DEF AsInt

LEMMA AtoIFits ==
  ASSUME NEW text \in Seq(0 .. 9)
  PROVE  AtoI(text) \in -IntHalf .. IntHalf - 1
<1> DEFINE Solves(k, f) ==
      f = [i \in 0 .. k |-> IF i = 0 THEN 0 ELSE 10 * f[i - 1] + text[i]]
<1>1. Len(text) \in Nat /\ \A i \in 1 .. Len(text) : text[i] \in Nat
  OBVIOUS
<1>2. \A k \in 0 .. Len(text) : \E f : Solves(k, f)
  <2> DEFINE S == {k \in 0 .. Len(text) : \A f : ~Solves(k, f)}
  <2> SUFFICES ASSUME S # {} PROVE FALSE
    <3> HIDE DEF Solves
    <3> QED
      OBVIOUS
  <2>1. S \in SUBSET Nat
    BY <1>1
  <2>2. PICK k \in S : \A j \in S : k <= j
    <3> HIDE DEF S
    <3> QED
      BY <2>1, FirstIsLeast
  <2>3. k # 0
    <3>1. Solves(0, [i \in 0 .. 0 |-> 0])
      OBVIOUS
    <3> QED
      BY <3>1, <2>2
  <2>4. k \in 1 .. Len(text) /\ k \in Nat
    BY <2>3, <1>1
  <2>5. k - 1 \in 0 .. Len(text) /\ k - 1 \notin S
    <3>1. k - 1 \in 0 .. Len(text) /\ ~(k <= k - 1)
      BY <2>4, <1>1
    <3> HIDE DEF S
    <3> QED
      BY <3>1, <2>2
  <2>6. PICK f : Solves(k - 1, f)
    <3> HIDE DEF Solves
    <3> QED
      BY <2>5
  <2> DEFINE g == [i \in 0 .. k |-> IF i = k THEN 10 * f[i - 1] + text[i] ELSE f[i]]
  <2>7. \A i \in 0 .. k : g[i] = IF i = 0 THEN 0 ELSE 10 * g[i - 1] + text[i]
    <3> TAKE i \in 0 .. k
    <3>1. CASE i = k
      BY <2>4, <3>1
    <3>2. CASE i # k
      <4>1. i \in 0 .. k - 1 /\ (i # 0 => i - 1 \in 0 .. k /\ i - 1 # k)
        BY <2>4, <3>2
      <4>2. f[i] = IF i = 0 THEN 0 ELSE 10 * f[i - 1] + text[i]
        BY <2>6, <4>1
      <4> QED
        BY <4>1, <4>2
    <3> QED
      BY <3>1, <3>2
  <2>8. Solves(k, g)
    BY <2>7
  <2> QED
    BY <2>8, <2>2
<1>3. \A f : Solves(Len(text), f) => f[Len(text)] \in Nat
  <2> SUFFICES ASSUME NEW f, Solves(Len(text), f) PROVE f[Len(text)] \in Nat
    OBVIOUS
  <2> DEFINE S == {k \in 0 .. Len(text) : f[k] \notin Nat}
  <2>1. \A i \in 0 .. Len(text) :
          f[i] = IF i = 0 THEN 0 ELSE 10 * f[i - 1] + text[i]
    OBVIOUS
  <2> HIDE DEF Solves
  <2>2. S = {}
    <3> SUFFICES ASSUME S # {} PROVE FALSE
      OBVIOUS
    <3>1. S \in SUBSET Nat
      BY <1>1
    <3>2. First(S) \in S /\ \A j \in S : First(S) <= j
      BY <3>1, FirstIsLeast
    <3>3. First(S) # 0
      BY <3>2, <2>1
    <3> DEFINE m == First(S) - 1
    <3>4. m \in 0 .. Len(text) /\ m \notin S /\ First(S) \in 1 .. Len(text)
      BY <3>2, <3>3, <1>1
    <3>5. f[m] \in Nat
      BY <3>4
    <3>6. f[First(S)] = 10 * f[m] + text[First(S)] /\ text[First(S)] \in Nat
      BY <2>1, <3>4, <3>3, <1>1
    <3> QED
      BY <3>2, <3>5, <3>6
  <2> QED
    BY <2>2, <1>1
<1>4. AtoI(text) = AsInt((CHOOSE f : Solves(Len(text), f))[Len(text)])
  BY DEF AtoI
<1> HIDE DEF Solves
<1>5. Solves(Len(text), CHOOSE f : Solves(Len(text), f))
  BY <1>2, <1>1
<1>6. (CHOOSE f : Solves(Len(text), f))[Len(text)] \in Nat
  BY <1>3, <1>5
<1> QED
  BY <1>4, <1>6, AsIntFits

(* Jars: what is alive of one, which cookie is read, and what is stored.     *)
Bounded(cookies) == \E b \in Nat : DOMAIN cookies \subseteq 0 .. b

LEMMA LiveJar ==
  ASSUME NEW c, IsJar(c), OneOwn(c), Bounded(c)
  PROVE  /\ IsJar(Live(c)) /\ OneOwn(Live(c)) /\ Bounded(Live(c))
         /\ OwnAt(Live(c)) = {o \in OwnAt(c) : c[o].expires > clock}
         /\ \A i \in DOMAIN Live(c) : i \in DOMAIN c /\ Live(c)[i] = c[i]
         /\ \A i \in DOMAIN c : c[i].expires > clock => i \in DOMAIN Live(c)
BY DEF IsJar, OneOwn, Bounded, Live, OwnAt

LEMMA OwnIsFirst ==
  ASSUME NEW c, IsJar(c), OneOwn(c), NEW o \in OwnAt(c)
  PROVE  First(OwnAt(c)) = o
<1>1. OwnAt(c) = {o} /\ o \in Nat
  BY DEF OneOwn, OwnAt, IsJar
<1> QED
  BY <1>1, FirstIsLeast

LEMMA OwnCookieRead ==
  ASSUME NEW c, IsJar(c), OneOwn(c), ~Mistaken(c)
  PROVE  CookieValue(c) = Empty \/ \E o \in OwnAt(c) : CookieValue(c) = c[o].value
<1>1. CASE Candidates(c) = {}
  BY <1>1 DEF CookieValue
<1>2. CASE Candidates(c) # {}
  <2>1. Candidates(c) \in SUBSET Nat
    BY DEF Candidates, IsJar
  <2>2. First(Candidates(c)) \in Candidates(c)
    BY <2>1, <1>2, FirstIsLeast
  <2>3. First(Candidates(c)) \in OwnAt(c)
    BY <2>2, <1>2 DEF Mistaken, OwnAt, Candidates
  <2> QED
    BY <1>2, <2>3 DEF CookieValue
<1> QED
  BY <1>1, <1>2

LEMMA OwnCookieWins ==
  ASSUME NEW c, IsJar(c), OneOwn(c), ~Mistaken(c), NEW o \in OwnAt(c)
  PROVE  CookieValue(c) = c[o].value
<1>1. o \in Candidates(c)
  BY DEF OneOwn, OwnAt, Candidates
<1>2. First(Candidates(c)) \in Candidates(c)
  BY <1>1, FirstIsLeast DEF Candidates, IsJar
<1>3. First(Candidates(c)) = o
  BY <1>1, <1>2 DEF Mistaken, OneOwn, OwnAt, Candidates
<1> QED
  BY <1>1, <1>3 DEF CookieValue

LEMMA NewPlaceIsPlace ==
  ASSUME NEW c, IsJar(c), Bounded(c)
  PROVE  NewPlace(c) \in Nat \ {0}
<1>1. CASE DOMAIN c = {}
  BY <1>1 DEF NewPlace
<1>2. CASE DOMAIN c # {}
  <2>1. DOMAIN c \in SUBSET Nat
    BY DEF IsJar
  <2>2. Last(DOMAIN c) \in Nat
    BY <1>2, <2>1, LastIsGreatest DEF Bounded
  <2> QED
    BY <1>2, <2>2 DEF NewPlace
<1> QED
  BY <1>1, <1>2

LEMMA StoredJar ==
  ASSUME NEW c, IsJar(c), OneOwn(c), Bounded(c), NEW id \in Ids, NEW until \in Nat
  PROVE  LET s == Stored(c, id, until) IN
         /\ IsJar(s) /\ OneOwn(s) /\ Bounded(s)
         /\ OwnAt(s) # {} /\ \A o \in OwnAt(s) :
              s[o].value = [digits |-> id, rest |-> FALSE]
<1> DEFINE place == IF OwnAt(c) = {} THEN NewPlace(c) ELSE First(OwnAt(c))
           own == [own |-> TRUE, match |-> TRUE, equals |-> 1,
                   value |-> [digits |-> id, rest |-> FALSE], expires |-> until]
           s == Stored(c, id, until)
<1>1. place \in Nat \ {0} /\ \A o \in OwnAt(c) : o = place
  <2>1. CASE OwnAt(c) = {}
    BY <2>1, NewPlaceIsPlace
  <2>2. CASE OwnAt(c) # {}
    BY <2>2, OwnIsFirst DEF OwnAt, IsJar
  <2> QED
    BY <2>1, <2>2
<1>2. /\ DOMAIN s = DOMAIN c \cup {place}
      /\ s[place] = own
      /\ \A i \in DOMAIN c : i # place => s[i] = c[i]
  BY DEF Stored
<1>3. own \in CookieType
  BY DEF CookieType, Value, Ids
<1> HIDE DEF place, s
<1>4. IsJar(s)
  BY <1>1, <1>2, <1>3 DEF IsJar
<1>5. OwnAt(s) = {place}
  BY <1>1, <1>2 DEF OwnAt
<1>6. OneOwn(s)
  BY <1>2, <1>5 DEF OneOwn
<1>7. Bounded(s)
  <2>1. PICK b \in Nat : DOMAIN c \subseteq 0 .. b
    BY DEF Bounded
  <2>2. DOMAIN s \subseteq 0 .. b + place
    BY <2>1, <1>1, <1>2
  <2> QED
    BY <2>2, <1>1 DEF Bounded
<1> QED
  BY <1>2, <1>4, <1>5, <1>6, <1>7 DEF s

(* What an answer is made of. *)
LEMMA BodyTyped ==
  ASSUME NEW f \in Forms, NEW b \in Bodies(f)
  PROVE  b \in Seq(0 .. 9)
<1>1. f.text \in Seq(0 .. 9) /\ Declared(f) \in Nat
  BY VisitorsAssumption DEF Declared
<1>2. ASSUME Declared(f) # 0, ~(Len(f.text) < Declared(f)), NEW g \in Garbage
      PROVE  SubSeq(f.text, 1, Declared(f)) \o g \in Seq(0 .. 9)
  <2>1. g \in Seq(0 .. 9)
    BY VisitorsAssumption
  <2>2. SubSeq(f.text, 1, Declared(f)) \in Seq(0 .. 9)
    BY <1>1, <1>2
  <2> QED
    BY <2>1, <2>2
<1>3. <<>> \in Seq(0 .. 9)
  OBVIOUS
<1> QED
  BY <1>1, <1>2, <1>3 DEF Bodies

LEMMA SecondsTyped ==
  ASSUME NEW b \in Seq(0 .. 9)
  PROVE  /\ time_cookies(b) \in Int
         /\ getSecondTimeCookie(b) \in -IntHalf .. IntHalf - 1
<1>1. time_cookies(b) \in Int
  BY VisitorsAssumption, AtoIFits DEF time_cookies
<1>2. time_cookies(b) * DaySeconds \in Int
  BY <1>1, VisitorsAssumption
<1> QED
  BY <1>1, <1>2, AsIntFits DEF getSecondTimeCookie

LEMMA IdTyped ==
  ASSUME NEW c, IsJar(c), NEW now \in Nat
  PROVE  cookie_id(c, now) \in Ids
<1>1. CookieValue(c) \in Value
  <2>1. CASE Candidates(c) = {}
    BY <2>1 DEF CookieValue, Empty, Value
  <2>2. CASE Candidates(c) # {}
    <3>1. First(Candidates(c)) \in Candidates(c)
      BY <2>2, FirstIsLeast DEF Candidates, IsJar
    <3>2. c[First(Candidates(c))] \in CookieType
      BY <3>1 DEF Candidates, IsJar
    <3> QED
      BY <2>2, <3>2 DEF CookieValue, CookieType
  <2> QED
    BY <2>1, <2>2
<1> QED
  BY <1>1 DEF cookie_id, Value, Ids

-----------------------------------------------------------------------------
(* The invariant, of browsers whose visits have not overlapped.             *)
Alone(v) ==
  \A t, u \in Tabs : page[v][t] # NoPage /\ page[v][u] # NoPage => t = u

Shows(header, cookies) ==
  /\ \A i \in DOMAIN header : i \in DOMAIN cookies /\ header[i] = cookies[i]
  /\ \A i \in DOMAIN cookies : cookies[i].expires > clock => i \in DOMAIN header

HeaderKept(v) ==
  \A t \in Tabs : page[v][t].state = "sent" => Shows(page[v][t].header, jar[v])

AnswerKept(v) ==
  \A t \in Tabs : page[v][t].state = "answered" /\ ~page[v][t].misled =>
    /\ \A o \in OwnAt(jar[v]) :
         jar[v][o].expires > clock /\ jar[v][o].value.digits # NoId
           => page[v][t].id = jar[v][o].value.digits
    /\ blanks[v] # 0 => page[v][t].id # NoId

BlankReplaced(v) ==
  /\ blanks[v] <= 1
  /\ blanks[v] # 0 => \A o \in OwnAt(jar[v]) : jar[v][o].value = Empty

Sound ==
  \A v \in Visitors : v \notin overlapped =>
    Alone(v) /\ HeaderKept(v) /\ AnswerKept(v) /\ BlankReplaced(v)

JarsBounded == \A v \in Visitors : Bounded(jar[v])

VisitorsInv == VisitorsTypeOK /\ JarsBounded /\ Sound

(* What a page has in each of its states. *)
LEMMA PageState ==
  ASSUME NEW p, PageOK(p)
  PROVE  /\ p.state \in {"none", "sent", "answered"}
         /\ p = NoPage <=> p.state = "none"
         /\ p.state = "sent" => IsJar(p.header) /\ p.form \in Forms
         /\ p.state = "answered" => p \in Answers
BY DEF PageOK, NoPage, Answers

(* One lemma for each action. *)
LEMMA InitSound == VisitorsInit => VisitorsInv
<1> SUFFICES ASSUME VisitorsInit PROVE VisitorsInv
  OBVIOUS
<1>1. \A v \in Visitors : IsJar(jar[v]) /\ OneOwn(jar[v]) /\ Bounded(jar[v])
  <2> TAKE v \in Visitors
  <2>1. jar[v] \in Seq(CookieType) /\ OneOwn(jar[v])
    BY VisitorsAssumption DEF VisitorsInit
  <2>2. DOMAIN jar[v] = 1 .. Len(jar[v]) /\ Len(jar[v]) \in Nat
        /\ \A i \in 1 .. Len(jar[v]) : jar[v][i] \in CookieType
    BY <2>1
  <2> QED
    BY <2>1, <2>2 DEF IsJar, Bounded
<1>2. \A v \in Visitors, t \in Tabs : page[v][t] = NoPage
  BY DEF VisitorsInit
<1>3. VisitorsTypeOK
  BY <1>1, <1>2, VisitorsAssumption DEF VisitorsInit, VisitorsTypeOK, PageOK, Times
<1>4. Sound
  BY <1>2 DEF VisitorsInit, Sound, Alone, HeaderKept, AnswerKept, BlankReplaced,
              NoPage
<1> QED
  BY <1>1, <1>3, <1>4 DEF VisitorsInv, JarsBounded

LEMMA SendSound ==
  ASSUME VisitorsInv, NEW v \in Visitors, NEW t \in Tabs, Send(v, t)
  PROVE  VisitorsInv'
<1> USE DEF VisitorsInv
<1>1. PICK f \in Forms :
        page' = [page EXCEPT ![v][t] =
                   [state |-> "sent", header |-> Live(jar[v]), form |-> f]]
  BY DEF Send
<1> DEFINE p == [state |-> "sent", header |-> Live(jar[v]), form |-> f]
<1>2. IsJar(jar[v]) /\ OneOwn(jar[v]) /\ Bounded(jar[v])
  BY DEF VisitorsTypeOK, JarsBounded
<1>3. IsJar(p.header) /\ Shows(p.header, jar[v])
  BY <1>2, LiveJar DEF Shows
<1>4. PageOK(p)
  BY <1>3 DEF PageOK
<1>5. p.state = "sent" /\ p # NoPage
  BY DEF NoPage
<1> HIDE DEF p
<1>6. /\ page'[v][t] = p
      /\ \A u \in Tabs : u # t => page'[v][u] = page[v][u]
      /\ \A w \in Visitors : w # v => page'[w] = page[w]
      /\ DOMAIN page' = Visitors
      /\ \A w \in Visitors : DOMAIN page'[w] = Tabs
      /\ \A w \in Visitors, u \in Tabs : PageOK(page'[w][u])
  <2>1. VisitorsTypeOK /\ page' = [page EXCEPT ![v][t] = p]
    BY <1>1 DEF p
  <2> QED
    BY ONLY <1>4, <2>1, v \in Visitors, t \in Tabs DEF VisitorsTypeOK
<1>7. clock' = clock /\ jar' = jar /\ blanks' = blanks
  BY DEF Send
<1>8. VisitorsTypeOK'
  <2>1. visits' \in 0 .. MaxVisits
    BY VisitorsAssumption DEF VisitorsTypeOK, Send
  <2>2. overlapped' \subseteq Visitors
    BY DEF VisitorsTypeOK, Send
  <2> QED
    BY <1>6, <1>7, <2>1, <2>2 DEF VisitorsTypeOK
<1>9. JarsBounded'
  BY <1>7 DEF JarsBounded
<1>10. Sound'
  <2> SUFFICES ASSUME NEW w \in Visitors, w \notin overlapped'
               PROVE  (Alone(w) /\ HeaderKept(w) /\ AnswerKept(w) /\ BlankReplaced(w))'
    BY DEF Sound
  <2>1. w \notin overlapped
    BY DEF Send
  <2>2. Alone(w) /\ HeaderKept(w) /\ AnswerKept(w) /\ BlankReplaced(w)
    BY <2>1 DEF Sound
  <2>3. BlankReplaced(w)'
    BY <2>2, <1>7 DEF BlankReplaced
  <2>4. CASE w # v
    BY <2>2, <2>3, <2>4, <1>6, <1>7 DEF Alone, HeaderKept, AnswerKept, Shows
  <2>5. CASE w = v
    <3>1. \A u \in Tabs : page[v][u] = NoPage
      BY <2>5 DEF Send
    <3>2. Alone(v)'
      BY <3>1, <1>6 DEF Alone
    <3>3. HeaderKept(v)'
      BY <3>1, <1>3, <1>6, <1>7 DEF HeaderKept, Shows, NoPage
    <3>4. AnswerKept(v)'
      BY <3>1, <1>5, <1>6 DEF AnswerKept, NoPage
    <3> QED
      BY <2>3, <2>5, <3>2, <3>3, <3>4
  <2> QED
    BY <2>4, <2>5
<1> QED
  BY <1>8, <1>9, <1>10

LEMMA CloseSound ==
  ASSUME VisitorsInv, NEW v \in Visitors, NEW t \in Tabs, Close(v, t)
  PROVE  VisitorsInv'
<1> USE DEF VisitorsInv
<1>1. /\ page'[v][t] = NoPage
      /\ \A u \in Tabs : u # t => page'[v][u] = page[v][u]
      /\ \A w \in Visitors : w # v => page'[w] = page[w]
      /\ DOMAIN page' = Visitors
      /\ \A w \in Visitors : DOMAIN page'[w] = Tabs
      /\ \A w \in Visitors, u \in Tabs : PageOK(page'[w][u])
  <2>1. page' = [page EXCEPT ![v][t] = NoPage] /\ PageOK(NoPage)
    BY DEF Close, PageOK
  <2>2. VisitorsTypeOK
    OBVIOUS
  <2> QED
    BY ONLY <2>1, <2>2, v \in Visitors, t \in Tabs DEF VisitorsTypeOK
<1>2. UNCHANGED <<clock, jar, visits, overlapped, blanks>>
  BY DEF Close
<1>3. VisitorsTypeOK' /\ JarsBounded'
  BY <1>1, <1>2 DEF VisitorsTypeOK, JarsBounded
<1>4. \A w \in Visitors, u \in Tabs : page'[w][u] \in {NoPage, page[w][u]}
  BY <1>1
<1>5. Sound'
  BY <1>2, <1>4 DEF Sound, Alone, HeaderKept, AnswerKept, BlankReplaced, Shows, NoPage
<1> QED
  BY <1>3, <1>5

LEMMA TickSound ==
  ASSUME VisitorsInv, Tick
  PROVE  VisitorsInv'
<1> USE DEF VisitorsInv
<1>1. UNCHANGED <<jar, page, visits, overlapped, blanks>>
  BY DEF Tick
<1>2. clock \in Nat /\ clock' = clock + 1 /\ clock' \in Times
  BY VisitorsAssumption DEF Tick, VisitorsTypeOK, Times
<1>3. VisitorsTypeOK' /\ JarsBounded'
  BY <1>1, <1>2 DEF VisitorsTypeOK, JarsBounded
<1>4. ASSUME NEW v \in Visitors, NEW i \in DOMAIN jar[v], jar[v][i].expires > clock'
      PROVE  jar[v][i].expires > clock
  BY <1>2, <1>4 DEF VisitorsTypeOK, IsJar, CookieType
<1>5. Sound'
  BY <1>1, <1>4 DEF Sound, Alone, HeaderKept, AnswerKept, BlankReplaced, Shows, OwnAt
<1> QED
  BY <1>3, <1>5

LEMMA AnswerSound ==
  ASSUME VisitorsInv, NEW v \in Visitors, NEW t \in Tabs, Answer(v, t)
  PROVE  VisitorsInv'
<1> USE DEF VisitorsInv
<1> DEFINE q == page[v][t]
<1>1. PICK b \in Bodies(q.form) :
        page' = [page EXCEPT ![v][t] =
                   [state |-> "answered",
                    misled |-> Mistaken(q.header), id |-> cookie_id(q.header, clock),
                    until |-> clock + Year, ttl |-> getSecondTimeCookie(b)]]
  BY DEF Answer, VisitorsTypeOK
<1> DEFINE p == [state |-> "answered",
                 misled |-> Mistaken(q.header), id |-> cookie_id(q.header, clock),
                 until |-> clock + Year, ttl |-> getSecondTimeCookie(b)]
<1>2. PageOK(q) /\ q.state = "sent" /\ IsJar(jar[v]) /\ OneOwn(jar[v])
  BY DEF VisitorsTypeOK, Answer
<1>3. IsJar(q.header) /\ q.form \in Forms
  BY <1>2, PageState
<1>4. clock \in Nat
  BY VisitorsAssumption DEF VisitorsTypeOK, Times
<1>5. p \in Answers
  <2>1. p.id \in Ids
    BY <1>3, <1>4, IdTyped
  <2>2. p.ttl \in -IntHalf .. IntHalf - 1
    BY <1>3, BodyTyped, SecondsTyped
  <2>3. p.until \in Nat
    BY <1>4, VisitorsAssumption
  <2>4. p.misled \in BOOLEAN
    BY DEF Mistaken
  <2> QED
    BY <1>3, <2>1, <2>2, <2>3, <2>4 DEF Answers
<1>6. /\ page'[v][t] = p
      /\ \A u \in Tabs : u # t => page'[v][u] = page[v][u]
      /\ \A w \in Visitors : w # v => page'[w] = page[w]
      /\ DOMAIN page' = Visitors
      /\ \A w \in Visitors : DOMAIN page'[w] = Tabs
      /\ \A w \in Visitors, u \in Tabs : PageOK(page'[w][u])
  <2>1. PageOK(p)
    BY <1>5 DEF PageOK
  <2>2. page' = [page EXCEPT ![v][t] = p]
    BY <1>1
  <2>3. VisitorsTypeOK
    OBVIOUS
  <2> HIDE DEF p, q, VisitorsInv
  <2> QED
    BY ONLY <2>1, <2>2, <2>3, v \in Visitors, t \in Tabs DEF VisitorsTypeOK
<1>7. UNCHANGED <<clock, jar, visits, overlapped, blanks>>
  BY DEF Answer
<1>8. VisitorsTypeOK' /\ JarsBounded'
  BY <1>6, <1>7 DEF VisitorsTypeOK, JarsBounded
<1>9. Sound'
  <2> SUFFICES ASSUME NEW w \in Visitors, w \notin overlapped'
               PROVE  (Alone(w) /\ HeaderKept(w) /\ AnswerKept(w) /\ BlankReplaced(w))'
    BY DEF Sound
  <2>1. Alone(w) /\ HeaderKept(w) /\ AnswerKept(w) /\ BlankReplaced(w)
    BY <1>7 DEF Sound
  <2>2. BlankReplaced(w)'
    BY <2>1, <1>7 DEF BlankReplaced
  <2>3. CASE w # v
    BY <2>1, <2>2, <2>3, <1>6, <1>7 DEF Alone, HeaderKept, AnswerKept, Shows
  <2>4. CASE w = v
    <3>1. \A u \in Tabs : u # t => page'[v][u] = NoPage
      BY <2>1, <2>4, <1>2, <1>6 DEF Alone, NoPage
    <3>2. Alone(v)'
      BY <3>1 DEF Alone
    <3>3. HeaderKept(v)'
      BY <3>1, <1>6 DEF HeaderKept, NoPage
    <3>4. Shows(q.header, jar[v])
      BY <2>1, <2>4, <1>2 DEF HeaderKept
    <3>5. OneOwn(q.header) /\ OwnAt(q.header) \subseteq OwnAt(jar[v])
      BY <3>4, <1>2 DEF Shows, OwnAt, OneOwn
    <3>6. ASSUME ~Mistaken(q.header), NEW o \in OwnAt(jar[v]),
                 jar[v][o].expires > clock, jar[v][o].value.digits # NoId
          PROVE  cookie_id(q.header, clock) = jar[v][o].value.digits
      <4>1. o \in OwnAt(q.header) /\ q.header[o] = jar[v][o]
        BY <3>4, <3>6 DEF Shows, OwnAt
      <4>2. CookieValue(q.header) = jar[v][o].value
        BY <3>5, <3>6, <4>1, <1>3, OwnCookieWins
      <4> QED
        BY <4>2, <3>6 DEF cookie_id, Empty
    <3>7. ASSUME ~Mistaken(q.header), blanks[v] # 0
          PROVE  cookie_id(q.header, clock) # NoId
      <4>1. \A o \in OwnAt(q.header) : q.header[o].value = Empty
        BY <2>1, <2>4, <3>7, <3>4, <3>5 DEF BlankReplaced, Shows, OwnAt
      <4>2. CookieValue(q.header) = Empty
        BY <4>1, <3>5, <3>7, <1>3, OwnCookieRead
      <4> QED
        BY <4>2, <1>4, VisitorsAssumption DEF cookie_id
    <3>8. AnswerKept(v)'
      <4>1. p.id = cookie_id(q.header, clock) /\ p.misled = Mistaken(q.header)
        OBVIOUS
      <4> HIDE DEF p, q
      <4> QED
        BY <3>1, <3>6, <3>7, <4>1, <1>6, <1>7 DEF AnswerKept, NoPage
    <3> QED
      BY <2>2, <2>4, <3>2, <3>3, <3>8
  <2> QED
    BY <2>3, <2>4
<1> QED
  BY <1>8, <1>9

LEMMA ReceiveSound ==
  ASSUME VisitorsInv, NEW v \in Visitors, NEW t \in Tabs, Receive(v, t)
  PROVE  VisitorsInv'
<1> USE DEF VisitorsInv
<1> DEFINE q == page[v][t]
           s == Stored(Live(jar[v]), q.id, q.until)
<1>1. /\ page'[v][t] = NoPage
      /\ \A u \in Tabs : u # t => page'[v][u] = page[v][u]
      /\ \A w \in Visitors : w # v => page'[w] = page[w]
      /\ DOMAIN page' = Visitors
      /\ \A w \in Visitors : DOMAIN page'[w] = Tabs
      /\ \A w \in Visitors, u \in Tabs : PageOK(page'[w][u])
  <2>1. page' = [page EXCEPT ![v][t] = NoPage] /\ PageOK(NoPage)
    BY DEF Receive, PageOK
  <2>2. VisitorsTypeOK
    OBVIOUS
  <2> QED
    BY ONLY <2>1, <2>2, v \in Visitors, t \in Tabs DEF VisitorsTypeOK
<1>2. q.state = "answered" /\ q \in Answers
  BY PageState DEF Receive, VisitorsTypeOK
<1>3. UNCHANGED <<clock, visits, overlapped>>
  BY DEF Receive
<1>4. /\ DOMAIN jar' = Visitors
      /\ jar'[v] = s
      /\ \A w \in Visitors : w # v => jar'[w] = jar[w]
  BY DEF Receive, VisitorsTypeOK
<1>5. /\ IsJar(s) /\ OneOwn(s) /\ Bounded(s)
      /\ \A o \in OwnAt(s) : s[o].value = [digits |-> q.id, rest |-> FALSE]
  <2>1. LET c == Live(jar[v]) IN IsJar(c) /\ OneOwn(c) /\ Bounded(c)
    BY LiveJar DEF VisitorsTypeOK, JarsBounded
  <2>2. q.id \in Ids /\ q.until \in Nat
    BY <1>2 DEF Answers
  <2> HIDE DEF q
  <2> QED
    BY <2>1, <2>2, StoredJar
<1>6. /\ blanks' \in [Visitors -> Nat]
      /\ blanks'[v] = IF q.id = NoId /\ ~q.misled THEN blanks[v] + 1 ELSE 0
      /\ \A w \in Visitors : w # v => blanks'[w] = blanks[w]
  BY DEF Receive, VisitorsTypeOK
<1> HIDE DEF s
<1>7. VisitorsTypeOK' /\ JarsBounded'
  BY <1>1, <1>3, <1>4, <1>5, <1>6 DEF VisitorsTypeOK, JarsBounded
<1>8. Sound'
  <2> SUFFICES ASSUME NEW w \in Visitors, w \notin overlapped'
               PROVE  (Alone(w) /\ HeaderKept(w) /\ AnswerKept(w) /\ BlankReplaced(w))'
    BY DEF Sound
  <2>1. Alone(w) /\ HeaderKept(w) /\ AnswerKept(w) /\ BlankReplaced(w)
    BY <1>3 DEF Sound
  <2>2. CASE w # v
    BY <2>1, <2>2, <1>1, <1>3, <1>4, <1>6
       DEF Alone, HeaderKept, AnswerKept, BlankReplaced, Shows
  <2>3. CASE w = v
    <3>1. \A u \in Tabs : page'[v][u] = NoPage
      BY <2>1, <2>3, <1>1, <1>2 DEF Alone, NoPage
    <3>2. (Alone(v) /\ HeaderKept(v) /\ AnswerKept(v))'
      BY <3>1 DEF Alone, HeaderKept, AnswerKept, NoPage
    <3>3. BlankReplaced(v)'
      <4>1. q.id = NoId /\ ~q.misled => blanks[v] = 0
        BY <2>1, <2>3, <1>2 DEF AnswerKept
      <4>2. q.id = NoId => \A o \in OwnAt(s) : s[o].value = Empty
        BY <1>5 DEF Empty
      <4> HIDE DEF q
      <4> QED
        BY <4>1, <4>2, <1>4, <1>6 DEF BlankReplaced
    <3> QED
      BY <2>3, <3>2, <3>3
  <2> QED
    BY <2>2, <2>3
<1> QED
  BY <1>7, <1>8

LEMMA VisitorsStep == VisitorsInv /\ [VisitorsNext]_visitorsVars => VisitorsInv'
<1> SUFFICES ASSUME VisitorsInv, [VisitorsNext]_visitorsVars PROVE VisitorsInv'
  OBVIOUS
<1>1. CASE Tick
  BY <1>1, TickSound
<1>2. ASSUME NEW v \in Visitors, NEW t \in Tabs,
             Send(v, t) \/ Answer(v, t) \/ Receive(v, t) \/ Close(v, t)
      PROVE  VisitorsInv'
  BY <1>2, SendSound, AnswerSound, ReceiveSound, CloseSound
<1>3. CASE UNCHANGED visitorsVars
  BY <1>3 DEF VisitorsInv, visitorsVars, VisitorsTypeOK, JarsBounded,
              Sound, Alone, HeaderKept, AnswerKept, BlankReplaced, Shows
<1> QED
  BY <1>1, <1>2, <1>3 DEF VisitorsNext

LEMMA VisitorsInvariant == VisitorsSpec => []VisitorsInv
BY InitSound, VisitorsStep, PTL DEF VisitorsSpec

-----------------------------------------------------------------------------
(* Pages, ids, times and ttl have their types, and no browser has two       *)
(* cookies of the service.                                                  *)
THEOREM VisitorsTyped == VisitorsSpec => []VisitorsTypeOK
<1>1. VisitorsInv => VisitorsTypeOK
  BY DEF VisitorsInv
<1> QED
  BY <1>1, VisitorsInvariant, PTL

(* Params.cpp:137-149: no browser gets an empty id twice in a row.          *)
THEOREM EmptyIdReplaced == VisitorsSpec => []EmptyIdOnlyOnce
<1>1. VisitorsInv => EmptyIdOnlyOnce
  BY DEF VisitorsInv, Sound, BlankReplaced, EmptyIdOnlyOnce
<1> QED
  BY <1>1, VisitorsInvariant, PTL

(* An answer that is not misled stores the id that the browser would send.  *)
LEMMA ReceiveKeepsId ==
  ASSUME VisitorsInv, NEW v \in Visitors, NEW t \in Tabs, Receive(v, t),
         v \notin overlapped, ~page[v][t].misled, OwnId(Live(jar[v])) # NoId
  PROVE  OwnId(jar'[v]) = OwnId(Live(jar[v]))
<1> DEFINE c == jar[v]
           q == page[v][t]
           s == Stored(Live(c), q.id, q.until)
<1>1. IsJar(c) /\ OneOwn(c) /\ Bounded(c)
  BY DEF VisitorsInv, VisitorsTypeOK, JarsBounded
<1>2. /\ IsJar(Live(c)) /\ OneOwn(Live(c)) /\ Bounded(Live(c))
      /\ OwnAt(Live(c)) = {o \in OwnAt(c) : c[o].expires > clock}
      /\ \A i \in DOMAIN Live(c) : Live(c)[i] = c[i]
  BY <1>1, LiveJar
<1>3. PICK o \in OwnAt(Live(c)) : TRUE
  BY DEF OwnId
<1>4. OwnId(Live(c)) = c[o].value.digits
  <2>1. First(OwnAt(Live(c))) = o
    BY <1>2, OwnIsFirst
  <2> QED
    BY <2>1, <1>2, <1>3 DEF OwnId, OwnAt
<1>5. q.id = c[o].value.digits
  BY <1>2, <1>4 DEF VisitorsInv, Sound, AnswerKept, Receive
<1>6. q.id \in Ids /\ q.until \in Nat
  BY PageState DEF Receive, VisitorsInv, VisitorsTypeOK, Answers
<1>7. jar'[v] = s
  BY DEF Receive, VisitorsInv, VisitorsTypeOK
<1> HIDE DEF c, q
<1>8. /\ IsJar(s) /\ OneOwn(s) /\ OwnAt(s) # {}
      /\ \A i \in OwnAt(s) : s[i].value = [digits |-> q.id, rest |-> FALSE]
  BY <1>2, <1>6, StoredJar
<1> HIDE DEF s
<1>9. First(OwnAt(s)) \in OwnAt(s)
  BY <1>8, OwnIsFirst
<1>10. OwnId(s) = q.id
  BY <1>8, <1>9 DEF OwnId
<1> QED
  BY <1>4, <1>5, <1>7, <1>10 DEF c

(* Params.cpp:136: whoever has an id keeps it for as long as its cookie     *)
(* lives, without overlapping visits and other cookies before its own.      *)
THEOREM IdentityIsKept == VisitorsSpec => IdentityKept
<1>1. VisitorsInv /\ [VisitorsNext]_visitorsVars
        => [\A v \in Visitors : KeepsId(v)]_visitorsVars
  <2> SUFFICES ASSUME VisitorsInv, VisitorsNext,
                      NEW v \in Visitors, v \notin overlapped,
                      OwnId(Live(jar[v])) \notin {NoId, OwnId(jar'[v])}
               PROVE  MisledAnswer(v)
    BY DEF KeepsId
  <2>1. OwnId(jar[v]) = OwnId(Live(jar[v]))
    <3> DEFINE c == jar[v]
    <3>1. IsJar(c) /\ OneOwn(c) /\ Bounded(c)
      BY DEF VisitorsInv, VisitorsTypeOK, JarsBounded
    <3> HIDE DEF c
    <3>2. /\ IsJar(Live(c)) /\ OneOwn(Live(c))
          /\ OwnAt(Live(c)) \subseteq OwnAt(c)
          /\ \A i \in DOMAIN Live(c) : Live(c)[i] = c[i]
      BY <3>1, LiveJar
    <3>3. PICK o \in OwnAt(Live(c)) : TRUE
      BY DEF OwnId, c
    <3>4. First(OwnAt(Live(c))) = o /\ First(OwnAt(c)) = o
      BY <3>1, <3>2, OwnIsFirst
    <3> QED
      BY <3>2, <3>3, <3>4 DEF OwnId, OwnAt, c
  <2>2. jar'[v] # jar[v]
    BY <2>1
  <2>3. PICK t \in Tabs : Receive(v, t)
    BY <2>2 DEF VisitorsNext, Tick, Send, Answer, Receive, Close,
                VisitorsInv, VisitorsTypeOK
  <2>4. page[v][t].misled
    BY <2>3, ReceiveKeepsId
  <2>5. page[v][t].state = "answered" /\ page'[v][t] = NoPage
    BY <2>3 DEF Receive, VisitorsInv, VisitorsTypeOK
  <2> QED
    BY <2>4, <2>5 DEF MisledAnswer
<1> QED
  BY <1>1, VisitorsInvariant, PTL DEF VisitorsSpec, IdentityKept
=============================================================================
