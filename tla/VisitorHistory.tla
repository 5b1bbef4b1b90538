--------------------------- MODULE VisitorHistory ---------------------------
(***************************************************************************)
(* The history of a visitor in the browser: the script of out.html, which  *)
(* every offer page runs.  It loads eight items of the local storage one   *)
(* after another into memory, enters the visit, and writes the items back  *)
(* one after another.  Pages of several tabs share the storage and nothing *)
(* keeps one from running between two steps of another; a script may end   *)
(* early, since setItem throws when the storage is full, or since its page *)
(* is closed.                                                              *)
(*                                                                         *)
(* An item is the object that JSON.stringify writes: a function on the     *)
(* members that are not functions, or for the queue a sequence.  The       *)
(* visitor's own records, gender_user, cost_user and activity_user, are    *)
(* kept by the same code as those of the accounts, under one name, All.    *)
(* The target text of an offer is left out.  Times are positions in seen.  *)
(***************************************************************************)
EXTENDS Integers, Sequences, FiniteSets

CONSTANTS
  Tabs,         \* pages of one visitor
  Visits,       \* what a page is asked to enter
  Past,         \* the items that are stored at first
  NoAccount,    \* the empty account
  All,          \* the name for the visitor's own records
  NoTime,       \* an offer of the earlier format has no time of entry
  QueueSize,    \* length of the queue (100)
  MaxVisits,    \* bound: pages that run the script
  MaxRacing,    \* bound: pages, from the first two scripts on that overlap
  MaxFailures   \* bound: scripts that end early, or find no storage

(* In the order in which UserHistory defines them, which is that of "in". *)
Items == <<"retargeting", "exclude_advertizer", "gender_accounts", "gender_user",
           "cost_accounts", "cost_user", "activity_accounts", "activity_user">>

Names == {Items[i] : i \in DOMAIN Items}
Genders == 0 .. 2
Costs == 0 .. 8

None == [x \in {} |-> x]

OfferType == [until : Int, at : Int \cup {NoTime}]

(* The offers of the items and visits, each with its account.               *)
Guids ==
  DOMAIN Past.retargeting
  \cup {Past.exclude_advertizer[i] : i \in DOMAIN Past.exclude_advertizer}
  \cup UNION {{<<v.ids[i].offer, v.account>> : i \in DOMAIN v.ids} : v \in Visits}

InQueue(queue, guid) == \E i \in DOMAIN queue : queue[i] = guid

OnceEach(queue) == \A i, j \in DOMAIN queue : queue[i] = queue[j] => i = j

ASSUME VisitorHistoryAssumption ==
  /\ {QueueSize, MaxVisits, MaxRacing, MaxFailures} \subseteq Nat /\ QueueSize > 0
  /\ DOMAIN Past = Names
  /\ \A n \in Names \ {"retargeting", "exclude_advertizer"} : Past[n] = None
  /\ \A g \in DOMAIN Past.retargeting : Past.retargeting[g] \in OfferType
  /\ Past.exclude_advertizer \in Seq(Guids) /\ OnceEach(Past.exclude_advertizer)
  /\ Len(Past.exclude_advertizer) <= QueueSize
  /\ NoTime \notin Int
  /\ \A v \in Visits : /\ v.account # All /\ {v.cost, v.ttl} \subseteq Int
                       /\ v.ids \in Seq({v.ids[i] : i \in DOMAIN v.ids})

VARIABLES
  storage,     \* localStorage: the items
  tab,         \* the script of each page
  opened,      \* pages opened so far
  seen,        \* history: the visits entered, and how many items of each saved
  failures,    \* early ends so far
  overlapped,  \* history: two scripts have run at once
  forgot       \* history: a script has saved without having loaded

historyVars == <<storage, tab, opened, seen, failures, overlapped, forgot>>

Idle == [pc |-> "idle"]

Put(f, k, x) == [j \in DOMAIN f \cup {k} |-> IF j = k THEN x ELSE f[j]]
Drop(f, k) == [j \in DOMAIN f \ {k} |-> f[j]]

-----------------------------------------------------------------------------
(* What a visit asks for: action and type of an offer have a default.       *)
Action(id) == IF id.action = "remove" THEN "remove" ELSE "add"

Type(id) ==
  IF id.type = "exclude_advertizer" THEN "exclude_advertizer" ELSE "retargeting"

getGender(val) == IF val = "m" THEN 1 ELSE IF val = "w" THEN 2 ELSE 0

(* The last range begins one too late: 25001 is in none. *)
Bounds == <<0, 2500, 4500, 9000, 14000, 16500, 19000, 25000>>

costRange(val) ==
  IF val > 25001 THEN 8
  ELSE IF \E i \in 1 .. 7 : Bounds[i] < val /\ val <= Bounds[i + 1]
       THEN CHOOSE i \in 1 .. 7 : Bounds[i] < val /\ val <= Bounds[i + 1]
       ELSE 0

MutantAddsAlways(queue, guid) == Append(queue, guid)

(* FixedQueue.add and FixedQueue.remove *)
AddToQueue(queue, guid) ==
  IF InQueue(queue, guid) THEN queue
  ELSE IF Len(queue) < QueueSize THEN Append(queue, guid)
  ELSE Tail(Append(queue, guid))

MutantRemovesLast(queue, guid) ==
  IF InQueue(queue, guid) THEN SelectSeq(queue, LAMBDA g : g # guid)
  ELSE SubSeq(queue, 1, Len(queue) - 1)

RemoveFromQueue(queue, guid) ==
  IF ~InQueue(queue, guid) THEN queue
  ELSE LET at == CHOOSE i \in DOMAIN queue :
                   /\ queue[i] = guid
                   /\ \A j \in DOMAIN queue : queue[j] = guid => i <= j
       IN  [i \in 1 .. Len(queue) - 1 |-> IF i < at THEN queue[i] ELSE queue[i + 1]]

NewLog(categories, val) == [c \in categories |-> IF c = val THEN 1 ELSE 0]

(* indexOf(Math.max(...)): the least of those with the most hits. *)
Favourite(log) ==
  CHOOSE c \in DOMAIN log :
    \A d \in DOMAIN log : log[d] < log[c] \/ (log[d] = log[c] /\ c <= d)

MutantCountsUnknown(hits, who, categories, val) ==
  IF who \notin DOMAIN hits
  THEN Put(hits, who, [category |-> val, log |-> NewLog(categories, val)])
  ELSE LET log == [hits[who].log EXCEPT ![val] = @ + 1]
       IN  Put(hits, who, [category |-> Favourite(log), log |-> log])

(* GenderAccount.add, GenderUser.add, CostAccount.add and CostUser.add: the *)
(* hits without a category count as one from the second visit on.           *)
AddHit(hits, who, categories, val) ==
  IF who \notin DOMAIN hits
  THEN Put(hits, who, [category |-> val, log |-> NewLog(categories, val)])
  ELSE LET log == [[hits[who].log EXCEPT ![val] = @ + 1] EXCEPT ![0] = 1]
       IN  Put(hits, who, [category |-> Favourite(log), log |-> log])

(* ActivityAccount.add and ActivityUser.add *)
AddTime(times, who, now) ==
  IF who \in DOMAIN times THEN [times EXCEPT ![who].last = now]
  ELSE Put(times, who, [first |-> now, last |-> now])

(* One id of the list, and all of them in their order. *)
EnterId(memory, visit, id, now) ==
  LET guid == <<id.offer, visit.account>> IN
  IF Type(id) = "exclude_advertizer"
  THEN [memory EXCEPT !.exclude_advertizer =
          IF Action(id) = "add" THEN AddToQueue(@, guid)
          ELSE RemoveFromQueue(@, guid)]
  ELSE [memory EXCEPT !.retargeting =
          IF Action(id) = "add"
          THEN Put(@, guid, [until |-> now + visit.ttl, at |-> now])
          ELSE Drop(@, guid)]

EnterIds(memory, visit, now) ==
  LET after[i \in 0 .. Len(visit.ids)] ==
        IF i = 0 THEN memory
        ELSE EnterId(after[i - 1], visit, visit.ids[i], now)
  IN  after[Len(visit.ids)]

Entered(memory, visit, now) ==
  IF visit.account = NoAccount THEN memory
  ELSE [EnterIds(memory, visit, now) EXCEPT
          !.activity_accounts = AddTime(@, visit.account, now),
          !.activity_user = AddTime(@, All, now),
          !.cost_accounts = AddHit(@, visit.account, Costs, costRange(visit.cost)),
          !.cost_user = AddHit(@, All, Costs, costRange(visit.cost)),
          !.gender_accounts =
            AddHit(@, visit.account, Genders, getGender(visit.gender)),
          !.gender_user = AddHit(@, All, Genders, getGender(visit.gender))]

Fresh == [n \in Names |-> IF n = "exclude_advertizer" THEN <<>> ELSE None]

(* The load functions.  An offer of the earlier format gets the time at      *)
(* which it ends for that of its entry.                                     *)
LoadedOffers(offers) ==
  [g \in DOMAIN offers |->
     IF offers[g].at = NoTime THEN [offers[g] EXCEPT !.at = offers[g].until]
     ELSE offers[g]]

(* The queue takes no more than fit, from the front.                        *)
LoadedQueue(queue) ==
  SubSeq(queue, 1, IF Len(queue) < QueueSize THEN Len(queue) ELSE QueueSize)

Loaded(name, item) ==
  CASE name = "retargeting" -> LoadedOffers(item)
    [] name = "exclude_advertizer" -> LoadedQueue(item)
    [] OTHER -> item

-----------------------------------------------------------------------------
HistoryInit ==
  /\ storage = Past
  /\ tab = [t \in Tabs |-> Idle]
  /\ opened = 0
  /\ seen = <<>>
  /\ failures = 0
  /\ overlapped = FALSE
  /\ forgot = FALSE

(* load and its Test; without a storage the script goes on with an empty    *)
(* memory.                                                                  *)
Open(t) ==
  /\ tab[t] = Idle
  /\ overlapped' = (overlapped \/ \E s \in Tabs : tab[s] # Idle)
  /\ opened < (IF overlapped' THEN MaxRacing ELSE MaxVisits)
  /\ opened' = opened + 1
  /\ \E v \in Visits, works \in BOOLEAN :
       /\ works \/ failures < MaxFailures
       /\ failures' = IF works THEN failures ELSE failures + 1
       /\ tab' = [tab EXCEPT ![t] =
                    [pc |-> IF works THEN "load" ELSE "enter", pos |-> 1,
                     loaded |-> works, visit |-> v, memory |-> Fresh]]
  /\ UNCHANGED <<storage, seen, forgot>>

LoadItem(t) ==
  /\ tab[t].pc = "load"
  /\ LET name == Items[tab[t].pos] IN
     tab' = [tab EXCEPT
       ![t].memory[name] = Loaded(name, storage[name]),
       ![t].pos = IF @ = Len(Items) THEN 1 ELSE @ + 1,
       ![t].pc = IF tab[t].pos = Len(Items) THEN "enter" ELSE "load"]
  /\ UNCHANGED <<storage, opened, seen, failures, overlapped, forgot>>

Enter(t) ==
  /\ tab[t].pc = "enter"
  /\ seen' = Append(seen, [visit |-> tab[t].visit, saved |-> 0])
  /\ tab' = [tab EXCEPT ![t] =
       [pc |-> "save", pos |-> 1, loaded |-> @.loaded, at |-> Len(seen'),
        memory |-> Entered(@.memory, @.visit, Len(seen'))]]
  /\ UNCHANGED <<storage, opened, failures, overlapped, forgot>>

SaveItem(t) ==
  /\ tab[t].pc = "save"
  /\ LET name == Items[tab[t].pos] IN
     storage' = [storage EXCEPT ![name] = tab[t].memory[name]]
  /\ seen' = [seen EXCEPT ![tab[t].at].saved = tab[t].pos]
  /\ tab' = [tab EXCEPT ![t] =
       IF tab[t].pos = Len(Items) THEN Idle ELSE [tab[t] EXCEPT !.pos = @ + 1]]
  /\ forgot' = (forgot \/ ~tab[t].loaded)
  /\ UNCHANGED <<opened, failures, overlapped>>

(* Test fails in save, setItem throws, or the page is closed. *)
End(t) ==
  /\ tab[t] # Idle
  /\ failures < MaxFailures /\ failures' = failures + 1
  /\ tab' = [tab EXCEPT ![t] = Idle]
  /\ UNCHANGED <<storage, opened, seen, overlapped, forgot>>

HistoryNext ==
  \E t \in Tabs : Open(t) \/ LoadItem(t) \/ Enter(t) \/ SaveItem(t) \/ End(t)

HistorySpec == HistoryInit /\ [][HistoryNext]_historyVars

-----------------------------------------------------------------------------
(* Whose records there are, and what has been entered and saved in an item. *)
Who == {All} \cup ({v.account : v \in Visits} \ {NoAccount})

Position(name) == CHOOSE i \in DOMAIN Items : Items[i] = name

Saved(name) == {i \in DOMAIN seen : seen[i].saved >= Position(name)}

(* The visits whose hit or time belongs to who. *)
VisitsOf(name, who) ==
  {i \in Saved(name) : /\ seen[i].visit.account # NoAccount
                       /\ who \in {All, seen[i].visit.account}}

(* The places <<i, j>> of the lists that name an offer. *)
Asked(name, guid) ==
  {p \in UNION {{i} \X DOMAIN seen[i].visit.ids : i \in Saved(name)} :
     LET v == seen[p[1]].visit IN
     /\ v.account # NoAccount
     /\ guid = <<v.ids[p[2]].offer, v.account>> /\ Type(v.ids[p[2]]) = name}

AskedTo(action, name, guid) ==
  {p \in Asked(name, guid) : Action(seen[p[1]].visit.ids[p[2]]) = action}

Before(p, q) == p[1] < q[1] \/ (p[1] = q[1] /\ p[2] <= q[2])
Last(places) == CHOOSE q \in places : \A p \in places : Before(p, q)

(* The last word on an offer was to add it, or there was none.              *)
Wanted(name, guid, before) ==
  IF Asked(name, guid) = {} THEN before
  ELSE Last(Asked(name, guid)) \in AskedTo("add", name, guid)

Category(name, i) ==
  IF name \in {"gender_accounts", "gender_user"}
  THEN getGender(seen[i].visit.gender) ELSE costRange(seen[i].visit.cost)

Hits(name, who, c) == Cardinality({i \in VisitsOf(name, who) : Category(name, i) = c})

AtPlace(i) == [until |-> i + seen[i].visit.ttl, at |-> i]

UserItem(name) == name \in {"gender_user", "cost_user", "activity_user"}

-----------------------------------------------------------------------------
(* Type invariant: hits by category, times of visits, an offer's end and    *)
(* entry; a queue no longer than its size.                                  *)
LogType(categories) ==
  [category : categories, log : [categories -> Nat]]

ItemTypeOK(items) ==
  /\ DOMAIN items = Names
  /\ \A g \in DOMAIN items.retargeting :
       g \in Guids /\ items.retargeting[g] \in OfferType
  /\ items.exclude_advertizer \in Seq(Guids)
  /\ Len(items.exclude_advertizer) <= QueueSize
  /\ \A n \in Names \ {"retargeting", "exclude_advertizer"} :
       /\ DOMAIN items[n] \subseteq (IF UserItem(n) THEN {All} ELSE Who \ {All})
       /\ \A w \in DOMAIN items[n] : items[n][w] \in
            CASE n \in {"gender_accounts", "gender_user"} -> LogType(Genders)
              [] n \in {"cost_accounts", "cost_user"} -> LogType(Costs)
              [] OTHER -> [first : Nat, last : Nat]

HistoryTypeOK ==
  /\ ItemTypeOK(storage)
  /\ \A t \in Tabs : tab[t] # Idle =>
       /\ tab[t].pc \in {"load", "enter", "save"} /\ tab[t].pos \in DOMAIN Items
       /\ tab[t].loaded \in BOOLEAN /\ ItemTypeOK(tab[t].memory)
       /\ tab[t].pc = "save" => tab[t].at \in DOMAIN seen
  /\ seen \in Seq([visit : Visits, saved : 0 .. Len(Items)])
  /\ opened \in Nat /\ failures \in 0 .. MaxFailures
  /\ overlapped \in BOOLEAN /\ forgot \in BOOLEAN

(* An offer is stored as its last visit left it, and as it was before if no *)
(* visit named it (in the present format, once a script has run).           *)
OffersExact ==
  \A g \in Guids :
    LET name == "retargeting"
        known == g \in DOMAIN Past.retargeting
        past == IF Saved(name) = {} THEN Past.retargeting
                ELSE LoadedOffers(Past.retargeting)
    IN  /\ g \in DOMAIN storage.retargeting <=> Wanted(name, g, known)
        /\ g \in DOMAIN storage.retargeting =>
             storage.retargeting[g] =
               IF Asked(name, g) = {} THEN past[g]
               ELSE AtPlace(Last(Asked(name, g))[1])

(* An offer is excluded if that was the last word on it, unless there have  *)
(* been as many others as the queue is long.                                *)
QueueExact ==
  \A g \in Guids :
    LET name == "exclude_advertizer"
        wanted == Wanted(name, g, InQueue(Past[name], g))
    IN  /\ InQueue(storage[name], g) => wanted
        /\ wanted /\ ~InQueue(storage[name], g) =>
             Cardinality({h \in Guids \ {g} : \/ InQueue(Past[name], h)
                                              \/ AskedTo("add", name, h) # {}})
               >= QueueSize

(* Every visit is in the log under its category; the category of an account *)
(* or visitor is one with the most visits, and unknown only while no        *)
(* category has come twice.                                                 *)
HitsExact ==
  \A name \in {"gender_accounts", "gender_user", "cost_accounts", "cost_user"} :
    \A who \in IF UserItem(name) THEN {All} ELSE Who \ {All} :
      LET visits == VisitsOf(name, who) IN
      /\ who \in DOMAIN storage[name] <=> visits # {}
      /\ who \in DOMAIN storage[name] =>
           LET h == storage[name][who] IN
           /\ \A c \in DOMAIN h.log \ {0} : h.log[c] = Hits(name, who, c)
           /\ \A c \in DOMAIN h.log \ {0} :
                IF h.category = 0 THEN Hits(name, who, c) <= 1
                ELSE Hits(name, who, c) <= Hits(name, who, h.category)
           /\ Cardinality(visits) = 1 =>
                \A i \in visits : h.category = Category(name, i)

TimesExact ==
  \A name \in {"activity_accounts", "activity_user"} :
    \A who \in IF UserItem(name) THEN {All} ELSE Who \ {All} :
      LET visits == VisitsOf(name, who) IN
      /\ who \in DOMAIN storage[name] <=> visits # {}
      /\ who \in DOMAIN storage[name] =>
           /\ {storage[name][who].first, storage[name][who].last} \subseteq visits
           /\ \A i \in visits : /\ storage[name][who].first <= i
                                /\ i <= storage[name][who].last

(* out.html:379-454.  As long as scripts run one after another and none has *)
(* saved without having loaded, each item is what the visits that came to   *)
(* save it ask for, whatever scripts have ended early: at every moment and  *)
(* for each of the eight items, though they are not saved together.         *)
AloneNothingLost ==
  ~overlapped /\ ~forgot => OffersExact /\ QueueExact /\ HitsExact /\ TimesExact

(* With scripts that interleave item by item, end early or could not load,  *)
(* visits are lost, and offers come back that a visit has removed; but      *)
(* nothing is stored that no visit has brought: hits without a visit, an    *)
(* offer that was never added or with times that are not of one visit, an   *)
(* excluded offer twice, a last visit before the first.                     *)
NeverInvented ==
  /\ \A g \in DOMAIN storage.retargeting :
       \/ \E p \in AskedTo("add", "retargeting", g) :
            storage.retargeting[g] = AtPlace(p[1])
       \/ /\ g \in DOMAIN Past.retargeting
          /\ storage.retargeting[g] \in
               {Past.retargeting[g], LoadedOffers(Past.retargeting)[g]}
  /\ LET queue == storage.exclude_advertizer IN
     \A i \in DOMAIN queue :
       \/ InQueue(Past.exclude_advertizer, queue[i])
       \/ AskedTo("add", "exclude_advertizer", queue[i]) # {}
  /\ OnceEach(storage.exclude_advertizer)
  /\ \A n \in {"gender_accounts", "gender_user", "cost_accounts", "cost_user"} :
       \A who \in DOMAIN storage[n] :
         LET h == storage[n][who] IN
         /\ \A c \in DOMAIN h.log : h.log[c] <= IF c = 0 THEN 1 ELSE Hits(n, who, c)
         /\ h.log[h.category] > 0
  /\ \A n \in {"activity_accounts", "activity_user"} :
       \A who \in DOMAIN storage[n] :
         LET a == storage[n][who] IN
         {a.first, a.last} \subseteq VisitsOf(n, who) /\ a.first <= a.last
=============================================================================
