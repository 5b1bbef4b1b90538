----------------------- MODULE VisitorHistory_proofs -----------------------
(***************************************************************************)
(* Proofs about VisitorHistory, for any number of scripts, any visits and  *)
(* any history a browser brought along: types, that nothing is remembered  *)
(* that no visit brought (NeverInvented), and that nothing is lost while   *)
(* scripts run one after another (AloneNothingLost).                       *)
(*                                                                         *)
(* The argument.  An item is OK with respect to a set of visits if all it  *)
(* says was left by one of them or was there at the beginning (ItemOK).    *)
(* The storage is OK with respect to the visits that have saved the item,  *)
(* so is the memory of a script that has only loaded, and the memory of a  *)
(* script that saves is OK with those visits and its own.  Scripts         *)
(* interleave between items, so the memory may be older than the storage:  *)
(* that does no harm because the set of visits that have saved an item     *)
(* only grows and OK is monotone in it (StillOK).  That a hit is counted   *)
(* at most once per visit needs that no two scripts save the same visit    *)
(* (OwnVisits).  A list of ids is entered one by one: what it leaves is    *)
(* proved by looking at the first step that would go wrong (WFMin).        *)
(*                                                                         *)
(* That nothing is lost asks for equality where OK asks for an origin.     *)
(* ItemIs says what exactly a set of visits leaves in an item; AloneInv    *)
(* says it of the storage with the visits that have saved the item, of the *)
(* memory with the same visits as far as it is loaded, and with the visit  *)
(* of the script once that is entered.  It needs to know how far the       *)
(* script has come: a page that ends while it saves has saved some items   *)
(* and not others, so each item has a set of visits of its own.  For the   *)
(* queue it is a count that is kept: an offer that has fallen out of it    *)
(* leaves as many others known as the queue is long (QueueFits).           *)
(***************************************************************************)
EXTENDS VisitorHistory, TLAPS, FiniteSetTheorems, WellFoundedInduction

(* A set of natural numbers has a least member, and a greatest if bounded.  *)
LEMMA LeastExists ==
  ASSUME NEW S \in SUBSET Nat, S # {}
  PROVE  \E x \in S : \A y \in S : x <= y
<1>1. PICK x \in S : \A y \in S : ~(<<y, x>> \in OpToRel(<, Nat))
  BY WFMin, NatLessThanWellFounded
<1>2. ASSUME NEW y \in S, y < x
      PROVE  FALSE
  <2>1. <<y, x>> \in Nat \X Nat /\ <<y, x>>[1] < <<y, x>>[2]
    BY <1>2
  <2>2. <<y, x>> \in OpToRel(<, Nat)
    BY <2>1, Zenon DEF OpToRel
  <2> QED
    BY <1>1, <2>2
<1> QED
  BY <1>2

LEMMA GreatestExists ==
  ASSUME NEW S \in SUBSET Nat, S # {}, NEW b \in Nat, S \subseteq 0 .. b
  PROVE  \E x \in S : \A y \in S : y <= x
<1> DEFINE B == {c \in Nat : \A j \in S : j <= c}
<1>1. B \in SUBSET Nat /\ b \in B
  OBVIOUS
<1>2. PICK c \in B : \A d \in B : c <= d
  <2> HIDE DEF B
  <2> QED
    BY <1>1, LeastExists
<1>3. ASSUME c \notin S
      PROVE  FALSE
  <2>1. PICK j \in S : TRUE
    OBVIOUS
  <2>2. c \in Nat /\ j < c
    BY <1>3
  <2>3. c - 1 \in B
    BY <1>3, <2>2
  <2> QED
    BY <1>2, <2>2, <2>3
<1> QED
  BY <1>3

(* The list of ids is entered one by one. *)
LEMMA EnterIdsSteps ==
  ASSUME NEW memory, NEW visit, NEW now, Len(visit.ids) \in Nat
  PROVE  \E f : /\ f[0] = memory
                /\ f[Len(visit.ids)] = EnterIds(memory, visit, now)
                /\ \A i \in 1 .. Len(visit.ids) :
                     f[i] = EnterId(f[i - 1], visit, visit.ids[i], now)
<1> DEFINE n == Len(visit.ids)
           Steps(k, f) == f = [i \in 0 .. k |->
                                 IF i = 0 THEN memory
                                 ELSE EnterId(f[i - 1], visit, visit.ids[i], now)]
<1>1. \A k \in 0 .. n : \E f : Steps(k, f)
  <2> DEFINE S == {k \in 0 .. n : \A f : ~Steps(k, f)}
  <2> SUFFICES ASSUME S # {} PROVE FALSE
    <3> HIDE DEF Steps
    <3> QED
      OBVIOUS
  <2>1. S \in SUBSET Nat
    OBVIOUS
  <2>2. PICK k \in S : \A j \in S : k <= j
    <3> HIDE DEF S
    <3> QED
      BY <2>1, LeastExists
  <2>3. k # 0
    <3>1. Steps(0, [i \in 0 .. 0 |-> memory])
      OBVIOUS
    <3> QED
      BY <3>1, <2>2
  <2>4. k \in 1 .. n /\ k \in Nat
    BY <2>3
  <2>5. k - 1 \in 0 .. n /\ k - 1 \notin S
    <3>1. k - 1 \in 0 .. n /\ ~(k <= k - 1)
      BY <2>4
    <3> HIDE DEF S
    <3> QED
      BY <3>1, <2>2
  <2>6. PICK f : Steps(k - 1, f)
    <3> HIDE DEF Steps
    <3> QED
      BY <2>5
  <2> DEFINE g == [i \in 0 .. k |->
                     IF i = k THEN EnterId(f[i - 1], visit, visit.ids[i], now)
                     ELSE f[i]]
  <2>7. \A i \in 0 .. k : g[i] = IF i = 0 THEN memory
                                 ELSE EnterId(g[i - 1], visit, visit.ids[i], now)
    <3> TAKE i \in 0 .. k
    <3>1. CASE i = k
      <4>1. k \in 0 .. k /\ k - 1 \in 0 .. k /\ k - 1 # k /\ k # 0
        BY <2>4
      <4>2. g[k] = EnterId(f[k - 1], visit, visit.ids[k], now) /\ g[k - 1] = f[k - 1]
        BY <4>1
      <4> QED
        BY <3>1, <4>1, <4>2
    <3>2. CASE i # k
      <4>1. i \in 0 .. k - 1 /\ (i # 0 => i - 1 \in 0 .. k /\ i - 1 # k)
        BY <2>4, <3>2
      <4>2. f[i] = IF i = 0 THEN memory ELSE EnterId(f[i - 1], visit, visit.ids[i], now)
        BY <2>6, <4>1
      <4> QED
        BY <3>2, <4>1, <4>2
    <3> QED
      BY <3>1, <3>2
  <2>8. Steps(k, g)
    BY <2>7
  <2> QED
    BY <2>8, <2>2
<1>2. EnterIds(memory, visit, now) = (CHOOSE f : Steps(n, f))[n]
  BY DEF EnterIds
<1>3. PICK f : Steps(n, f) /\ f[n] = EnterIds(memory, visit, now)
  <2> HIDE DEF Steps
  <2>1. n \in 0 .. n
    OBVIOUS
  <2>2. Steps(n, CHOOSE f : Steps(n, f))
    BY <1>1, <2>1
  <2> HIDE DEF n
  <2> QED
    BY <1>2, <2>2
<1>4. \A i \in 0 .. n : f[i] = IF i = 0 THEN memory
                               ELSE EnterId(f[i - 1], visit, visit.ids[i], now)
  BY <1>3
<1>5. f[0] = memory
  BY <1>4
<1>6. \A i \in 1 .. n : f[i] = EnterId(f[i - 1], visit, visit.ids[i], now)
  <2> TAKE i \in 1 .. n
  <2>1. i \in 0 .. n /\ i # 0
    OBVIOUS
  <2> QED
    BY <1>4, <2>1
<1> QED
  BY <1>3, <1>5, <1>6

(* The eight items of the storage and their places in the order of saving.  *)
LEMMA NamesKnown ==
  Names = {"retargeting", "exclude_advertizer", "gender_accounts", "gender_user",
           "cost_accounts", "cost_user", "activity_accounts", "activity_user"}
<1>1. DOMAIN Items = 1 .. 8
  BY DEF Items
<1> QED
  BY <1>1 DEF Names, Items

LEMMA PositionKnown ==
  /\ DOMAIN Items = 1 .. 8 /\ Len(Items) = 8
  /\ \A i \in 1 .. 8 : Items[i] \in Names /\ Position(Items[i]) = i
  /\ \A n \in Names : Position(n) \in 1 .. 8 /\ Items[Position(n)] = n
<1>1. DOMAIN Items = 1 .. 8 /\ Len(Items) = 8
  BY DEF Items
<1>2. \A i, j \in 1 .. 8 : Items[i] = Items[j] => i = j
  BY DEF Items
<1> HIDE DEF Items
<1>3. \A i \in 1 .. 8 : Items[i] \in Names /\ Position(Items[i]) = i
  BY <1>1, <1>2 DEF Position, Names
<1> QED
  BY <1>1, <1>3 DEF Names

-----------------------------------------------------------------------------
(* The visit v asks for the offer to be remembered under the name; it names *)
(* the account who, or any account; the category it is counted under.       *)
Adds(v, name, guid) ==
  /\ v.account # NoAccount
  /\ \E j \in DOMAIN v.ids : /\ guid = <<v.ids[j].offer, v.account>>
                             /\ Type(v.ids[j]) = name /\ Action(v.ids[j]) = "add"

Concerns(v, who) == v.account # NoAccount /\ who \in {All, v.account}

CategoryOf(name, v) ==
  IF name \in {"gender_accounts", "gender_user"}
  THEN getGender(v.gender) ELSE costRange(v.cost)

HitNames == {"gender_accounts", "gender_user", "cost_accounts", "cost_user"}
TimeNames == {"activity_accounts", "activity_user"}

Categories(name) ==
  IF name \in {"gender_accounts", "gender_user"} THEN Genders ELSE Costs

Owners(name) == IF UserItem(name) THEN {All} ELSE Who \ {All}

(* What visits, the places S of the log vis, can have left in an item.      *)
OffersOK(offers, S, vis) ==
  \A g \in DOMAIN offers :
    /\ g \in Guids /\ offers[g] \in OfferType
    /\ \/ \E i \in S : /\ Adds(vis[i], "retargeting", g)
                       /\ offers[g] = [until |-> i + vis[i].ttl, at |-> i]
       \/ /\ g \in DOMAIN Past.retargeting
          /\ offers[g] \in {Past.retargeting[g], LoadedOffers(Past.retargeting)[g]}

QueueOK(queue, S, vis) ==
  /\ queue \in Seq(Guids) /\ Len(queue) <= QueueSize /\ OnceEach(queue)
  /\ \A k \in DOMAIN queue :
       \/ InQueue(Past.exclude_advertizer, queue[k])
       \/ \E i \in S : Adds(vis[i], "exclude_advertizer", queue[k])

Counted(name, who, c, S, vis) ==
  {i \in S : Concerns(vis[i], who) /\ CategoryOf(name, vis[i]) = c}

HitOK(name, who, hit, S, vis) ==
  /\ hit \in LogType(Categories(name))
  /\ \A c \in Categories(name) :
       hit.log[c] <= IF c = 0 THEN 1 ELSE Cardinality(Counted(name, who, c, S, vis))
  /\ hit.log[hit.category] > 0

HitsOK(name, hits, S, vis) ==
  \A who \in DOMAIN hits : who \in Owners(name) /\ HitOK(name, who, hits[who], S, vis)

TimesOK(name, times, S, vis) ==
  \A who \in DOMAIN times :
    /\ who \in Owners(name) /\ times[who] \in [first : Nat, last : Nat]
    /\ \A i \in {times[who].first, times[who].last} : i \in S /\ Concerns(vis[i], who)
    /\ times[who].first <= times[who].last

ItemOK(name, item, S, vis) ==
  /\ name = "retargeting" => OffersOK(item, S, vis)
  /\ name = "exclude_advertizer" => QueueOK(item, S, vis)
  /\ name \in HitNames => HitsOK(name, item, S, vis)
  /\ name \in TimeNames => TimesOK(name, item, S, vis)

(* Each name belongs to one of the kinds of items. *)
LEMMA ItemNames ==
  /\ Names = {"retargeting", "exclude_advertizer"} \cup HitNames \cup TimeNames
  /\ \A n \in HitNames \cup TimeNames : n \notin {"retargeting", "exclude_advertizer"}
  /\ HitNames \cap TimeNames = {}
BY NamesKnown DEF HitNames, TimeNames

(* What is OK stays so with more visits, as the log of visits grows.        *)
LEMMA StillOK ==
  ASSUME NEW name, NEW item, NEW S, NEW T, NEW vis, NEW vis2,
         S \subseteq T, IsFiniteSet(T), \A i \in S : vis2[i] = vis[i],
         ItemOK(name, item, S, vis)
  PROVE  ItemOK(name, item, T, vis2)
<1>1. ASSUME OffersOK(item, S, vis) PROVE OffersOK(item, T, vis2)
  BY <1>1 DEF OffersOK
<1>2. ASSUME QueueOK(item, S, vis) PROVE QueueOK(item, T, vis2)
  BY <1>2 DEF QueueOK
<1>3. ASSUME HitsOK(name, item, S, vis) PROVE HitsOK(name, item, T, vis2)
  <2> SUFFICES ASSUME NEW who \in DOMAIN item PROVE HitOK(name, who, item[who], T, vis2)
    BY <1>3 DEF HitsOK
  <2>1. HitOK(name, who, item[who], S, vis)
    BY <1>3 DEF HitsOK
  <2>2. ASSUME NEW c \in Categories(name)
        PROVE  item[who].log[c]
                 <= IF c = 0 THEN 1 ELSE Cardinality(Counted(name, who, c, T, vis2))
    <3>1. Counted(name, who, c, S, vis) \subseteq Counted(name, who, c, T, vis2)
          /\ Counted(name, who, c, T, vis2) \subseteq T
      BY DEF Counted
    <3>2. IsFiniteSet(Counted(name, who, c, T, vis2))
      BY <3>1, FS_Subset
    <3>3. /\ Cardinality(Counted(name, who, c, S, vis))
               <= Cardinality(Counted(name, who, c, T, vis2))
          /\ Cardinality(Counted(name, who, c, S, vis)) \in Nat
          /\ Cardinality(Counted(name, who, c, T, vis2)) \in Nat
      BY <3>1, <3>2, FS_Subset, FS_CardinalityType
    <3>4. item[who].log[c] \in Nat
      BY <2>1 DEF HitOK, LogType
    <3> QED
      BY <2>1, <3>3, <3>4 DEF HitOK
  <2> QED
    BY <2>1, <2>2 DEF HitOK
<1>4. ASSUME TimesOK(name, item, S, vis) PROVE TimesOK(name, item, T, vis2)
  BY <1>4 DEF TimesOK
<1> QED
  BY <1>1, <1>2, <1>3, <1>4 DEF ItemOK

(* Nothing is remembered yet. *)
LEMMA FreshOK ==
  ASSUME NEW name \in Names, NEW S, NEW vis
  PROVE  ItemOK(name, Fresh[name], S, vis)
<1>1. Fresh[name] = IF name = "exclude_advertizer" THEN <<>> ELSE None
  BY DEF Fresh
<1>2. DOMAIN None = {}
  BY DEF None
<1>3. QueueOK(<<>>, S, vis)
  BY VisitorHistoryAssumption DEF QueueOK, OnceEach
<1> QED
  BY <1>1, <1>2, <1>3, ItemNames DEF ItemOK, OffersOK, HitsOK, TimesOK

(* What the browser brought along is OK with respect to no visit at all.    *)
LEMMA PastOK ==
  ASSUME NEW name \in Names, NEW S, NEW vis
  PROVE  ItemOK(name, Past[name], S, vis)
<1>1. DOMAIN None = {}
  BY DEF None
<1>2. OffersOK(Past.retargeting, S, vis)
  BY VisitorHistoryAssumption DEF OffersOK, Guids
<1>3. QueueOK(Past.exclude_advertizer, S, vis)
  BY VisitorHistoryAssumption DEF QueueOK, InQueue
<1>4. name \in HitNames \cup TimeNames => Past[name] = None
  BY VisitorHistoryAssumption, ItemNames
<1> QED
  BY <1>1, <1>2, <1>3, <1>4, ItemNames DEF ItemOK, HitsOK, TimesOK

(* Loading drops the offers whose time is over and leaves the rest OK.      *)
LEMMA LoadedOK ==
  ASSUME NEW name \in Names, NEW item, NEW S, NEW vis, S \subseteq Int,
         ItemOK(name, item, S, vis)
  PROVE  ItemOK(name, Loaded(name, item), S, vis)
<1>1. ASSUME name = "retargeting" PROVE OffersOK(LoadedOffers(item), S, vis)
  <2>1. OffersOK(item, S, vis) /\ DOMAIN LoadedOffers(item) = DOMAIN item
    BY <1>1 DEF ItemOK, LoadedOffers
  <2> SUFFICES ASSUME NEW g \in DOMAIN item
               PROVE  /\ LoadedOffers(item)[g] \in OfferType
                      /\ \/ \E i \in S : /\ Adds(vis[i], "retargeting", g)
                                         /\ LoadedOffers(item)[g]
                                              = [until |-> i + vis[i].ttl, at |-> i]
                         \/ /\ g \in DOMAIN Past.retargeting
                            /\ LoadedOffers(item)[g] \in
                                 {Past.retargeting[g], LoadedOffers(Past.retargeting)[g]}
    BY <2>1 DEF OffersOK
  <2>2. item[g] \in OfferType
    BY <2>1 DEF OffersOK
  <2>3. LoadedOffers(item)[g] = IF item[g].at = NoTime THEN [item[g] EXCEPT !.at = item[g].until]
                                ELSE item[g]
    BY DEF LoadedOffers
  <2>4. LoadedOffers(item)[g] \in OfferType /\ LoadedOffers(item)[g].at # NoTime
    BY <2>2, <2>3, VisitorHistoryAssumption DEF OfferType
  <2>5. CASE \E i \in S : /\ Adds(vis[i], "retargeting", g)
                          /\ item[g] = [until |-> i + vis[i].ttl, at |-> i]
    <3>1. item[g].at # NoTime
      BY <2>5, VisitorHistoryAssumption
    <3> QED
      BY <2>3, <2>4, <2>5, <3>1
  <2>6. CASE /\ g \in DOMAIN Past.retargeting
             /\ item[g] \in {Past.retargeting[g], LoadedOffers(Past.retargeting)[g]}
    <3>1. LoadedOffers(Past.retargeting)[g] =
            IF Past.retargeting[g].at = NoTime
            THEN [Past.retargeting[g] EXCEPT !.at = Past.retargeting[g].until]
            ELSE Past.retargeting[g]
      BY <2>6 DEF LoadedOffers
    <3>2. Past.retargeting[g] \in OfferType
      BY <2>6, VisitorHistoryAssumption
    <3>3. LoadedOffers(Past.retargeting)[g].at # NoTime
      BY <3>1, <3>2, VisitorHistoryAssumption DEF OfferType
    <3>4. LoadedOffers(item)[g] = LoadedOffers(Past.retargeting)[g]
      BY <2>3, <2>6, <3>1, <3>3
    <3> QED
      BY <2>4, <2>6, <3>4
  <2> QED
    BY <2>1, <2>5, <2>6 DEF OffersOK
<1>2. ASSUME name = "exclude_advertizer" PROVE QueueOK(LoadedQueue(item), S, vis)
  <2>1. QueueOK(item, S, vis)
    BY <1>2 DEF ItemOK
  <2>2. LoadedQueue(item) = item
    <3>1. SubSeq(item, 1, Len(item)) = item
      BY <2>1 DEF QueueOK
    <3>2. Len(item) \in Nat /\ Len(item) <= QueueSize /\ QueueSize \in Nat
      BY <2>1, VisitorHistoryAssumption DEF QueueOK
    <3>3. Len(item) < QueueSize \/ Len(item) = QueueSize
      BY <3>2
    <3> QED
      BY <3>1, <3>3 DEF LoadedQueue
  <2> QED
    BY <2>1, <2>2
<1> QED
  BY <1>1, <1>2, ItemNames DEF ItemOK, Loaded

-----------------------------------------------------------------------------
(* The queue of excluded offers: pushing onto it, taking out of it.         *)
LEMMA AddToQueueOK ==
  ASSUME NEW queue, NEW S, NEW vis, NEW guid \in Guids, NEW now \in S,
         QueueOK(queue, S, vis), Adds(vis[now], "exclude_advertizer", guid)
  PROVE  QueueOK(AddToQueue(queue, guid), S, vis)
<1> DEFINE q == AddToQueue(queue, guid)
<1>1. QueueSize \in Nat /\ QueueSize > 0
  BY VisitorHistoryAssumption
<1>2. /\ queue \in Seq(Guids) /\ Len(queue) \in Nat /\ Len(queue) <= QueueSize
      /\ \A i, j \in 1 .. Len(queue) : queue[i] = queue[j] => i = j
      /\ \A k \in 1 .. Len(queue) : \/ InQueue(Past.exclude_advertizer, queue[k])
                                    \/ \E i \in S : Adds(vis[i], "exclude_advertizer", queue[k])
  BY DEF QueueOK, OnceEach
<1>3. CASE InQueue(queue, guid)
  BY <1>3 DEF AddToQueue
<1>4. CASE ~InQueue(queue, guid) /\ Len(queue) < QueueSize
  <2>1. q = Append(queue, guid)
    BY <1>4 DEF AddToQueue
  <2>2. /\ q \in Seq(Guids) /\ Len(q) = Len(queue) + 1
        /\ \A k \in 1 .. Len(q) : q[k] = IF k = Len(q) THEN guid ELSE queue[k]
    BY <1>2, <2>1
  <2>3. \A k \in 1 .. Len(queue) : queue[k] # guid
    BY <1>2, <1>4 DEF InQueue
  <2> HIDE DEF q
  <2>4. Len(q) <= QueueSize
    BY <1>1, <1>2, <1>4, <2>2
  <2>5. OnceEach(q)
    BY <1>2, <2>2, <2>3 DEF OnceEach
  <2>6. \A k \in DOMAIN q : \/ InQueue(Past.exclude_advertizer, q[k])
                            \/ \E i \in S : Adds(vis[i], "exclude_advertizer", q[k])
    BY <1>2, <2>2
  <2> QED
    BY <2>2, <2>4, <2>5, <2>6 DEF QueueOK, q
<1>5. CASE ~InQueue(queue, guid) /\ Len(queue) = QueueSize
  <2>1. q = Tail(Append(queue, guid))
    BY <1>1, <1>5 DEF AddToQueue
  <2>2. /\ q \in Seq(Guids) /\ Len(q) = Len(queue)
        /\ \A k \in 1 .. Len(q) : q[k] = IF k = Len(q) THEN guid ELSE queue[k + 1]
    <3>1. Append(queue, guid) \in Seq(Guids) /\ Len(Append(queue, guid)) = Len(queue) + 1
          /\ \A k \in 1 .. Len(queue) + 1 :
               Append(queue, guid)[k] = IF k = Len(queue) + 1 THEN guid ELSE queue[k]
      BY <1>2
    <3> DEFINE r == Append(queue, guid)
    <3> HIDE DEF r
    <3>2. /\ Tail(r) \in Seq(Guids) /\ Len(Tail(r)) = Len(r) - 1
          /\ \A k \in 1 .. Len(r) - 1 : Tail(r)[k] = r[k + 1]
      <4>1. r \in Seq(Guids) /\ Len(r) \in Nat /\ Len(r) # 0
        BY <3>1, <1>2 DEF r
      <4>2. Tail(r) \in Seq(Guids) /\ Len(Tail(r)) = Len(r) - 1
        BY <4>1
      <4>3. \A k \in 1 .. Len(r) - 1 : Tail(r)[k] = r[k + 1]
        BY <4>1
      <4> QED
        BY <4>2, <4>3
    <3> QED
      BY <3>1, <3>2, <2>1, <1>2 DEF r
  <2>3. \A k \in 1 .. Len(queue) : queue[k] # guid
    BY <1>2, <1>5 DEF InQueue
  <2> HIDE DEF q
  <2>4. OnceEach(q)
    <3> SUFFICES ASSUME NEW i \in 1 .. Len(queue), NEW j \in 1 .. Len(queue),
                        q[i] = q[j]
                 PROVE  i = j
      BY <2>2 DEF OnceEach
    <3>1. CASE i = Len(queue) \/ j = Len(queue)
      <4>1. \A k \in 1 .. Len(queue) : k # Len(queue) => q[k] # guid
        BY <1>2, <2>2, <2>3
      <4> QED
        BY <1>2, <2>2, <3>1, <4>1
    <3>2. CASE i # Len(queue) /\ j # Len(queue)
      <4>1. i + 1 \in 1 .. Len(queue) /\ j + 1 \in 1 .. Len(queue)
        BY <1>2, <3>2
      <4>2. queue[i + 1] = queue[j + 1]
        BY <2>2, <3>2
      <4> QED
        BY <1>2, <4>1, <4>2
    <3> QED
      BY <3>1, <3>2
  <2>5. \A k \in DOMAIN q : \/ InQueue(Past.exclude_advertizer, q[k])
                            \/ \E i \in S : Adds(vis[i], "exclude_advertizer", q[k])
    <3> TAKE k \in DOMAIN q
    <3>1. k \in 1 .. Len(queue)
      BY <2>2
    <3>2. CASE k = Len(queue)
      BY <2>2, <3>1, <3>2
    <3>3. CASE k # Len(queue)
      <4>1. k + 1 \in 1 .. Len(queue) /\ q[k] = queue[k + 1]
        BY <1>2, <2>2, <3>1, <3>3
      <4> QED
        BY <1>2, <4>1
    <3> QED
      BY <3>2, <3>3
  <2> QED
    BY <1>2, <2>2, <2>4, <2>5 DEF QueueOK, q
<1> QED
  BY <1>1, <1>2, <1>3, <1>4, <1>5

LEMMA RemoveFromQueueOK ==
  ASSUME NEW queue, NEW S, NEW vis, NEW guid, QueueOK(queue, S, vis)
  PROVE  QueueOK(RemoveFromQueue(queue, guid), S, vis)
<1> DEFINE q == RemoveFromQueue(queue, guid)
<1>1. QueueSize \in Nat
  BY VisitorHistoryAssumption
<1>2. /\ queue \in Seq(Guids) /\ Len(queue) \in Nat /\ Len(queue) <= QueueSize
      /\ \A i, j \in 1 .. Len(queue) : queue[i] = queue[j] => i = j
      /\ \A k \in 1 .. Len(queue) : \/ InQueue(Past.exclude_advertizer, queue[k])
                                    \/ \E i \in S : Adds(vis[i], "exclude_advertizer", queue[k])
  BY DEF QueueOK, OnceEach
<1>3. CASE ~InQueue(queue, guid)
  BY <1>3 DEF RemoveFromQueue
<1>4. CASE InQueue(queue, guid)
  <2> DEFINE at == CHOOSE i \in DOMAIN queue :
                     /\ queue[i] = guid
                     /\ \A j \in DOMAIN queue : queue[j] = guid => i <= j
  <2>1. at \in 1 .. Len(queue)
    <3>1. PICK i \in 1 .. Len(queue) : queue[i] = guid
      BY <1>2, <1>4 DEF InQueue
    <3>2. \A j \in DOMAIN queue : queue[j] = guid => i <= j
      BY <1>2, <3>1
    <3> QED
      BY <1>2, <3>1, <3>2
  <2>2. q = [i \in 1 .. Len(queue) - 1 |-> IF i < at THEN queue[i] ELSE queue[i + 1]]
    BY <1>4 DEF RemoveFromQueue
  <2> HIDE DEF at, q
  <2> DEFINE old(i) == IF i < at THEN i ELSE i + 1
  <2>3. \A i \in 1 .. Len(queue) - 1 :
          old(i) \in 1 .. Len(queue) /\ q[i] = queue[old(i)] /\ queue[old(i)] \in Guids
    <3> TAKE i \in 1 .. Len(queue) - 1
    <3>1. old(i) \in 1 .. Len(queue)
      BY <1>2, <2>1
    <3>2. q[i] = queue[old(i)]
      BY <2>2
    <3> HIDE DEF old
    <3> QED
      BY <1>2, <3>1, <3>2
  <2>4. \A i, j \in 1 .. Len(queue) - 1 : old(i) = old(j) => i = j
    BY <1>2, <2>1
  <2>5. Len(queue) - 1 \in Nat
    BY <1>2, <2>1
  <2> HIDE DEF old
  <2>6. q \in Seq(Guids) /\ Len(q) = Len(queue) - 1 /\ DOMAIN q = 1 .. Len(queue) - 1
    <3>1. q \in [1 .. Len(queue) - 1 -> Guids]
      BY <2>2, <2>3
    <3> QED
      BY <2>5, <3>1
  <2>7. OnceEach(q)
    BY <1>2, <2>3, <2>4, <2>6 DEF OnceEach
  <2>8. \A k \in DOMAIN q : \/ InQueue(Past.exclude_advertizer, q[k])
                            \/ \E i \in S : Adds(vis[i], "exclude_advertizer", q[k])
    BY <1>2, <2>3, <2>6
  <2>9. Len(q) <= QueueSize
    BY <1>1, <1>2, <2>6
  <2> QED
    BY <2>6, <2>7, <2>8, <2>9 DEF QueueOK, q
<1> QED
  BY <1>3, <1>4

(* The memory of a script, item by item. *)
MemoryOK(m, memory, A, vis) ==
  /\ DOMAIN m = Names
  /\ OffersOK(m.retargeting, A["retargeting"], vis)
  /\ QueueOK(m.exclude_advertizer, A["exclude_advertizer"], vis)
  /\ \A n \in HitNames \cup TimeNames : m[n] = memory[n]

(* One id of a visit entered, and by induction all of them.                 *)
LEMMA EnterIdOK ==
  ASSUME NEW m, NEW memory, NEW A, NEW vis, NEW now \in Int,
         \A n \in {"retargeting", "exclude_advertizer"} : now \in A[n],
         vis[now] \in Visits, vis[now].account # NoAccount,
         NEW j \in DOMAIN vis[now].ids, MemoryOK(m, memory, A, vis)
  PROVE  MemoryOK(EnterId(m, vis[now], vis[now].ids[j], now), memory, A, vis)
<1> DEFINE v == vis[now]
           id == v.ids[j]
           guid == <<id.offer, v.account>>
           r == EnterId(m, v, id, now)
<1>1. guid \in Guids
  BY DEF Guids
<1>2. v.ttl \in Int /\ now \in Int
  BY VisitorHistoryAssumption
<1>3. CASE Type(id) = "exclude_advertizer"
  <2> DEFINE q == IF Action(id) = "add" THEN AddToQueue(m.exclude_advertizer, guid)
                  ELSE RemoveFromQueue(m.exclude_advertizer, guid)
  <2>1. QueueOK(q, A["exclude_advertizer"], vis)
    <3>1. CASE Action(id) = "add"
      <4>1. Adds(v, "exclude_advertizer", guid)
        BY <1>3, <3>1 DEF Adds
      <4> QED
        BY <1>1, <3>1, <4>1, AddToQueueOK DEF MemoryOK
    <3>2. CASE Action(id) # "add"
      BY <3>2, RemoveFromQueueOK DEF MemoryOK
    <3> QED
      BY <3>1, <3>2
  <2>2. r = [m EXCEPT !.exclude_advertizer = q]
    BY <1>3 DEF EnterId
  <2> HIDE DEF q, r
  <2>3. /\ DOMAIN r = Names /\ r.exclude_advertizer = q
        /\ \A n \in Names : n # "exclude_advertizer" => r[n] = m[n]
    BY <2>2, NamesKnown DEF MemoryOK
  <2> QED
    BY <2>1, <2>3, ItemNames DEF MemoryOK, r
<1>4. CASE Type(id) # "exclude_advertizer"
  <2> DEFINE o == IF Action(id) = "add"
                  THEN Put(m.retargeting, guid, [until |-> now + v.ttl, at |-> now])
                  ELSE Drop(m.retargeting, guid)
  <2>1. OffersOK(o, A["retargeting"], vis)
    <3>1. CASE Action(id) = "add"
      <4>1. Adds(v, "retargeting", guid)
        BY <1>4, <3>1 DEF Adds, Type
      <4>2. [until |-> now + v.ttl, at |-> now] \in OfferType
        BY <1>2 DEF OfferType
      <4> QED
        BY <1>1, <3>1, <4>1, <4>2 DEF MemoryOK, OffersOK, Put
    <3>2. CASE Action(id) # "add"
      BY <3>2 DEF MemoryOK, OffersOK, Drop
    <3> QED
      BY <3>1, <3>2
  <2>2. r = [m EXCEPT !.retargeting = o]
    BY <1>4 DEF EnterId
  <2> HIDE DEF o, r
  <2>3. /\ DOMAIN r = Names /\ r.retargeting = o
        /\ \A n \in Names : n # "retargeting" => r[n] = m[n]
    BY <2>2, NamesKnown DEF MemoryOK
  <2> QED
    BY <2>1, <2>3, ItemNames DEF MemoryOK, r
<1> QED
  BY <1>3, <1>4

LEMMA EnterIdsOK ==
  ASSUME NEW memory, NEW A, NEW vis, NEW now \in Int,
         \A n \in {"retargeting", "exclude_advertizer"} : now \in A[n],
         vis[now] \in Visits, vis[now].account # NoAccount,
         MemoryOK(memory, memory, A, vis)
  PROVE  MemoryOK(EnterIds(memory, vis[now], now), memory, A, vis)
<1> DEFINE n == Len(vis[now].ids)
<1>1. n \in Nat /\ DOMAIN vis[now].ids = 1 .. n
  BY VisitorHistoryAssumption
<1>2. PICK f : /\ f[0] = memory
               /\ f[n] = EnterIds(memory, vis[now], now)
               /\ \A i \in 1 .. n : f[i] = EnterId(f[i - 1], vis[now], vis[now].ids[i], now)
  <2> DEFINE v == vis[now]
  <2> HIDE DEF v
  <2>1. Len(v.ids) \in Nat
    BY <1>1 DEF v
  <2>2. \E f : /\ f[0] = memory
               /\ f[Len(v.ids)] = EnterIds(memory, v, now)
               /\ \A i \in 1 .. Len(v.ids) : f[i] = EnterId(f[i - 1], v, v.ids[i], now)
    BY <2>1, EnterIdsSteps
  <2> QED
    BY <2>2 DEF v
<1> DEFINE B == {i \in 0 .. n : ~MemoryOK(f[i], memory, A, vis)}
<1> HIDE DEF n
<1>3. ASSUME B # {} PROVE FALSE
  <2>1. B \in SUBSET Nat
    BY <1>1
  <2>2. PICK k \in B : \A j \in B : k <= j
    <3> HIDE DEF B
    <3> QED
      BY <1>3, <2>1, LeastExists
  <2>3. k \in 1 .. n /\ k - 1 \in 0 .. n /\ k \in Nat
    BY <1>1, <1>2
  <2>4. MemoryOK(f[k - 1], memory, A, vis)
    BY <2>2, <2>3
  <2>5. k \in DOMAIN vis[now].ids
    BY <1>1, <2>3
  <2>6. MemoryOK(EnterId(f[k - 1], vis[now], vis[now].ids[k], now), memory, A, vis)
    BY <2>4, <2>5, EnterIdOK
  <2>7. MemoryOK(f[k], memory, A, vis)
    BY <1>2, <2>3, <2>6
  <2> QED
    BY <2>7
<1> QED
  BY <1>1, <1>2, <1>3

-----------------------------------------------------------------------------
(* The category of a visit, and the one with most hits.                     *)
LEMMA CategoryTyped ==
  ASSUME NEW name, NEW v
  PROVE  CategoryOf(name, v) \in Categories(name)
<1>1. getGender(v.gender) \in Genders
  BY DEF getGender, Genders
<1>2. costRange(v.cost) \in Costs
  <2>1. (\E i \in 1 .. 7 : Bounds[i] < v.cost /\ v.cost <= Bounds[i + 1])
          => (CHOOSE i \in 1 .. 7 : Bounds[i] < v.cost /\ v.cost <= Bounds[i + 1]) \in 1 .. 7
    OBVIOUS
  <2> QED
    BY <2>1 DEF costRange, Costs
<1> QED
  BY <1>1, <1>2 DEF CategoryOf, Categories

LEMMA FavouriteIsMost ==
  ASSUME NEW categories \in {Genders, Costs}, NEW log \in [categories -> Nat]
  PROVE  /\ Favourite(log) \in categories
         /\ \A d \in categories : log[d] <= log[Favourite(log)]
<1> DEFINE I == {log[c] : c \in categories}
<1>1. categories \in SUBSET Nat /\ I \in SUBSET Nat /\ 0 \in categories
  BY DEF Genders, Costs
<1>2. \E b \in Nat : I \subseteq 0 .. b
  <2>1. CASE categories = Genders
    <3>1. Genders = {0, 1, 2}
      BY DEF Genders
    <3>2. log[0] \in Nat /\ log[1] \in Nat /\ log[2] \in Nat
      BY <2>1, <3>1
    <3>3. I \subseteq 0 .. log[0] + log[1] + log[2]
      BY <2>1, <3>1, <3>2
    <3> QED
      BY <3>2, <3>3
  <2>2. CASE categories = Costs
    <3>1. Costs = {0, 1, 2, 3, 4, 5, 6, 7, 8}
      BY DEF Costs
    <3>2. \A c \in {0, 1, 2, 3, 4, 5, 6, 7, 8} : log[c] \in Nat
      BY <2>2, <3>1
    <3> DEFINE b == log[0] + log[1] + log[2] + log[3] + log[4] + log[5] + log[6] + log[7]
                    + log[8]
    <3>3. b \in Nat /\ \A c \in {0, 1, 2, 3, 4, 5, 6, 7, 8} : log[c] <= b
      BY <3>2
    <3>4. I \subseteq 0 .. b
      BY <2>2, <3>1, <3>2, <3>3
    <3> QED
      BY <3>3, <3>4
  <2> QED
    BY <2>1, <2>2
<1>3. PICK m \in I : \A x \in I : x <= m
  <2>1. I # {}
    BY <1>1
  <2> HIDE DEF I
  <2> QED
    BY <1>1, <1>2, <2>1, GreatestExists
<1> DEFINE T == {c \in categories : log[c] = m}
<1>4. PICK c \in T : \A d \in T : c <= d
  <2>1. T # {} /\ T \in SUBSET Nat
    BY <1>1, <1>3
  <2> HIDE DEF T
  <2> QED
    BY <2>1, LeastExists
<1>5. \A d \in categories : log[d] < log[c] \/ (log[d] = log[c] /\ c <= d)
  BY <1>1, <1>3, <1>4
<1>6. LET e == Favourite(log) IN
      e \in categories /\ \A d \in categories : log[d] < log[e] \/ (log[d] = log[e] /\ e <= d)
  BY <1>5 DEF Favourite
<1>7. \A e \in categories : log[e] \in Nat
  OBVIOUS
<1> QED
  BY <1>6, <1>7

(* A hit counted under its category: one more visit that accounts for it.   *)
LEMMA AddHitOK ==
  ASSUME NEW name \in HitNames, NEW hits, NEW S, IsFiniteSet(S), NEW vis,
         NEW now, now \notin S, HitsOK(name, hits, S, vis),
         NEW who \in Owners(name), Concerns(vis[now], who)
  PROVE  HitsOK(name, AddHit(hits, who, Categories(name), CategoryOf(name, vis[now])),
                S \cup {now}, vis)
<1> DEFINE T == S \cup {now}
           val == CategoryOf(name, vis[now])
           n(c) == Cardinality(Counted(name, who, c, S, vis))
           m(c) == Cardinality(Counted(name, who, c, T, vis))
           h == AddHit(hits, who, Categories(name), val)
<1>1. val \in Categories(name) /\ 0 \in Categories(name)
      /\ Categories(name) \in {Genders, Costs}
  BY CategoryTyped DEF Categories, Genders, Costs
<1>2. IsFiniteSet(T)
  BY FS_AddElement
<1>3. \A c \in Categories(name) :
        n(c) \in Nat /\ m(c) \in Nat /\ m(c) = IF c = val THEN n(c) + 1 ELSE n(c)
  <2> TAKE c \in Categories(name)
  <2>1. Counted(name, who, c, S, vis) \subseteq S /\ now \notin Counted(name, who, c, S, vis)
    BY DEF Counted
  <2>2. Counted(name, who, c, T, vis) = IF c = val THEN Counted(name, who, c, S, vis) \cup {now}
                                        ELSE Counted(name, who, c, S, vis)
    BY DEF Counted
  <2>3. IsFiniteSet(Counted(name, who, c, S, vis))
    BY <2>1, FS_Subset
  <2>4. n(c) \in Nat
    BY <2>3, FS_CardinalityType
  <2>5. c = val => m(c) = n(c) + 1
    BY <2>1, <2>2, <2>3, FS_AddElement
  <2>6. c # val => m(c) = n(c)
    BY <2>2
  <2> HIDE DEF n, m, val
  <2> QED
    BY <2>4, <2>5, <2>6
<1>4. HitsOK(name, hits, T, vis)
  <2>1. ItemOK(name, hits, S, vis)
    BY ItemNames DEF ItemOK
  <2>2. ItemOK(name, hits, T, vis)
    BY <2>1, <1>2, StillOK
  <2> QED
    BY <2>2 DEF ItemOK
<1>5. ASSUME NEW hit, h = Put(hits, who, hit), HitOK(name, who, hit, T, vis)
      PROVE  HitsOK(name, h, T, vis)
  BY <1>4, <1>5 DEF HitsOK, Put
<1>6. CASE who \notin DOMAIN hits
  <2> DEFINE hit == [category |-> val, log |-> NewLog(Categories(name), val)]
  <2>1. h = Put(hits, who, hit)
    BY <1>6 DEF AddHit
  <2>2. hit \in LogType(Categories(name))
    BY <1>1 DEF LogType, NewLog
  <2>3. \A c \in Categories(name) : hit.log[c] <= IF c = 0 THEN 1 ELSE m(c)
    <3> TAKE c \in Categories(name)
    <3>1. hit.log[c] = IF c = val THEN 1 ELSE 0
      BY DEF NewLog
    <3>2. n(c) \in Nat /\ m(c) = IF c = val THEN n(c) + 1 ELSE n(c)
      BY <1>3
    <3> HIDE DEF hit, n, m, val
    <3> QED
      BY <3>1, <3>2
  <2>4. hit.log[hit.category] > 0
    BY <1>1 DEF NewLog
  <2>5. HitOK(name, who, hit, T, vis)
    <3> HIDE DEF hit
    <3> QED
      BY <2>2, <2>3, <2>4 DEF HitOK
  <2> HIDE DEF hit, h
  <2> QED
    BY <1>5, <2>1, <2>5 DEF h
<1>7. CASE who \in DOMAIN hits
  <2> DEFINE old == hits[who].log
             log == [[old EXCEPT ![val] = @ + 1] EXCEPT ![0] = 1]
             hit == [category |-> Favourite(log), log |-> log]
  <2>1. h = Put(hits, who, hit)
    BY <1>7 DEF AddHit
  <2>2. old \in [Categories(name) -> Nat]
        /\ \A c \in Categories(name) : old[c] <= IF c = 0 THEN 1 ELSE n(c)
    BY <1>7 DEF HitsOK, HitOK, LogType
  <2> HIDE DEF old
  <2>3. /\ log \in [Categories(name) -> Nat]
        /\ \A c \in Categories(name) :
             log[c] = IF c = 0 THEN 1 ELSE IF c = val THEN old[c] + 1 ELSE old[c]
    BY <1>1, <2>2
  <2> HIDE DEF log
  <2>4. Favourite(log) \in Categories(name) /\ log[0] <= log[Favourite(log)]
    BY <1>1, <2>3, FavouriteIsMost
  <2>5. hit \in LogType(Categories(name))
    BY <2>3, <2>4 DEF LogType
  <2>6. \A c \in Categories(name) : log[c] <= IF c = 0 THEN 1 ELSE m(c)
    <3> TAKE c \in Categories(name)
    <3>1. n(c) \in Nat /\ m(c) = IF c = val THEN n(c) + 1 ELSE n(c)
      BY <1>3
    <3>2. old[c] \in Nat /\ old[c] <= IF c = 0 THEN 1 ELSE n(c)
      BY <2>2
    <3>3. log[c] = IF c = 0 THEN 1 ELSE IF c = val THEN old[c] + 1 ELSE old[c]
      BY <2>3
    <3> HIDE DEF n, m, val
    <3> QED
      BY <3>1, <3>2, <3>3
  <2>7. log[Favourite(log)] > 0
    BY <1>1, <2>3, <2>4
  <2>8. HitOK(name, who, hit, T, vis)
    BY <2>5, <2>6, <2>7 DEF HitOK
  <2> HIDE DEF hit, h
  <2> QED
    BY <1>5, <2>1, <2>8 DEF h
<1> QED
  BY <1>6, <1>7

(* The first and the last time of an account. *)
LEMMA AddTimeOK ==
  ASSUME NEW name \in TimeNames, NEW times, NEW now \in Nat, NEW S,
         S \subseteq 1 .. now - 1, NEW vis, TimesOK(name, times, S, vis),
         NEW who \in Owners(name), Concerns(vis[now], who)
  PROVE  TimesOK(name, AddTime(times, who, now), S \cup {now}, vis)
<1> DEFINE r == AddTime(times, who, now)
<1>1. TimesOK(name, times, S \cup {now}, vis)
  BY DEF TimesOK
<1>2. CASE who \in DOMAIN times
  <2>1. r = [times EXCEPT ![who].last = now]
    BY <1>2 DEF AddTime
  <2>2. /\ times[who] \in [first : Nat, last : Nat] /\ times[who].first \in S
        /\ Concerns(vis[times[who].first], who)
    BY <1>2 DEF TimesOK
  <2>3. /\ DOMAIN r = DOMAIN times
        /\ r[who] = [times[who] EXCEPT !.last = now]
        /\ \A w \in DOMAIN times : w # who => r[w] = times[w]
    BY <1>2, <2>1
  <2>4. /\ r[who] \in [first : Nat, last : Nat]
        /\ r[who].first = times[who].first /\ r[who].last = now
    BY <2>2, <2>3
  <2>5. times[who].first <= now
    BY <2>2
  <2> HIDE DEF r
  <2> QED
    BY <1>1, <2>2, <2>3, <2>4, <2>5 DEF TimesOK, r
<1>3. CASE who \notin DOMAIN times
  <2>1. r = Put(times, who, [first |-> now, last |-> now])
    BY <1>3 DEF AddTime
  <2>2. /\ DOMAIN r = DOMAIN times \cup {who}
        /\ r[who] = [first |-> now, last |-> now]
        /\ \A w \in DOMAIN times : w # who => r[w] = times[w]
    BY <1>3, <2>1 DEF Put
  <2>3. /\ r[who] \in [first : Nat, last : Nat]
        /\ r[who].first = now /\ r[who].last = now
    BY <2>2
  <2> HIDE DEF r
  <2> QED
    BY <1>1, <2>2, <2>3 DEF TimesOK, r
<1> QED
  BY <1>2, <1>3

(* What entering a visit does to each item, and whose records it is for.    *)
OwnerOf(name, v) == IF UserItem(name) THEN All ELSE v.account

LEMMA OwnerKnown ==
  ASSUME NEW name, NEW v \in Visits, v.account # NoAccount
  PROVE  /\ OwnerOf(name, v) \in Owners(name)
         /\ \A who \in Owners(name) : Concerns(v, who) <=> who = OwnerOf(name, v)
BY VisitorHistoryAssumption DEF OwnerOf, Owners, Who, Concerns

LEMMA EnteredItems ==
  ASSUME NEW memory, NEW v \in Visits, v.account # NoAccount, NEW now,
         NEW e, e = EnterIds(memory, v, now), DOMAIN e = Names,
         \A n \in HitNames \cup TimeNames : e[n] = memory[n]
  PROVE  LET r == Entered(memory, v, now) IN
         /\ DOMAIN r = Names
         /\ \A n \in {"retargeting", "exclude_advertizer"} : r[n] = e[n]
         /\ \A n \in HitNames :
              r[n] = AddHit(memory[n], OwnerOf(n, v), Categories(n), CategoryOf(n, v))
         /\ \A n \in TimeNames : r[n] = AddTime(memory[n], OwnerOf(n, v), now)
<1> DEFINE r == Entered(memory, v, now)
<1>1. /\ DOMAIN r = Names
      /\ r["retargeting"] = e["retargeting"]
      /\ r["exclude_advertizer"] = e["exclude_advertizer"]
      /\ r["activity_accounts"] = AddTime(e["activity_accounts"], v.account, now)
      /\ r["activity_user"] = AddTime(e["activity_user"], All, now)
      /\ r["cost_accounts"]
           = AddHit(e["cost_accounts"], v.account, Costs, costRange(v.cost))
      /\ r["cost_user"] = AddHit(e["cost_user"], All, Costs, costRange(v.cost))
      /\ r["gender_accounts"]
           = AddHit(e["gender_accounts"], v.account, Genders, getGender(v.gender))
      /\ r["gender_user"] = AddHit(e["gender_user"], All, Genders, getGender(v.gender))
  BY NamesKnown DEF Entered
<1> HIDE DEF r
<1>2. \A n \in HitNames :
        r[n] = AddHit(memory[n], OwnerOf(n, v), Categories(n), CategoryOf(n, v))
  BY <1>1 DEF HitNames, OwnerOf, UserItem, Categories, CategoryOf
<1>3. \A n \in TimeNames : r[n] = AddTime(memory[n], OwnerOf(n, v), now)
  BY <1>1 DEF TimeNames, OwnerOf, UserItem
<1> QED
  BY <1>1, <1>2, <1>3 DEF r

(* A whole visit entered: OK with respect to what was and the visit itself. *)
LEMMA EnteredOK ==
  ASSUME NEW memory, DOMAIN memory = Names, NEW now \in Nat,
         NEW A, \A n \in Names : A[n] \subseteq 1 .. now - 1,
         NEW vis, vis[now] \in Visits,
         \A n \in Names : ItemOK(n, memory[n], A[n], vis)
  PROVE  LET r == Entered(memory, vis[now], now) IN
         /\ DOMAIN r = Names
         /\ \A n \in Names : ItemOK(n, r[n], A[n] \cup {now}, vis)
<1> DEFINE v == vis[now]
           B == [n \in Names |-> A[n] \cup {now}]
           r == Entered(memory, v, now)
<1>1. \A n \in Names : IsFiniteSet(A[n]) /\ IsFiniteSet(B[n]) /\ now \notin A[n]
  <2> TAKE n \in Names
  <2>1. IsFiniteSet(1 .. now - 1)
    BY FS_Interval
  <2>2. IsFiniteSet(A[n])
    BY <2>1, FS_Subset
  <2>3. IsFiniteSet(B[n])
    BY <2>2, FS_AddElement
  <2> QED
    BY <2>2, <2>3
<1>2. \A n \in Names : ItemOK(n, memory[n], B[n], vis)
  <2> TAKE n \in Names
  <2>1. A[n] \subseteq B[n]
    OBVIOUS
  <2> HIDE DEF B
  <2> QED
    BY <1>1, <2>1, StillOK
<1>3. CASE v.account = NoAccount
  <2>1. r = memory
    BY <1>3 DEF Entered
  <2> QED
    BY <1>2, <2>1
<1>4. CASE v.account # NoAccount
  <2> DEFINE e == EnterIds(memory, v, now)
  <2>1. MemoryOK(e, memory, B, vis)
    <3>1. MemoryOK(memory, memory, B, vis)
      BY <1>2, NamesKnown DEF MemoryOK, ItemOK
    <3>2. \A n \in {"retargeting", "exclude_advertizer"} : now \in B[n]
      BY NamesKnown
    <3> HIDE DEF B
    <3> QED
      BY <1>4, <3>1, <3>2, EnterIdsOK
  <2> HIDE DEF e
  <2>2. /\ DOMAIN e = Names
        /\ e.retargeting = e["retargeting"]
        /\ \A n \in HitNames \cup TimeNames : e[n] = memory[n]
    BY <2>1 DEF MemoryOK
  <2> DEFINE owner(n) == OwnerOf(n, v)
  <2>3. /\ DOMAIN r = Names
        /\ \A n \in {"retargeting", "exclude_advertizer"} : r[n] = e[n]
        /\ \A n \in HitNames :
             r[n] = AddHit(memory[n], owner(n), Categories(n), CategoryOf(n, v))
        /\ \A n \in TimeNames : r[n] = AddTime(memory[n], owner(n), now)
    BY <1>4, <2>2, EnteredItems DEF e
  <2>4. \A n \in Names : owner(n) \in Owners(n) /\ Concerns(v, owner(n))
    BY <1>4, OwnerKnown
  <2>7. OffersOK(r["retargeting"], B["retargeting"], vis)
        /\ QueueOK(r["exclude_advertizer"], B["exclude_advertizer"], vis)
    BY <2>1, <2>3 DEF MemoryOK
  <2> HIDE DEF r, owner
  <2>8. ASSUME NEW n \in HitNames PROVE HitsOK(n, r[n], A[n] \cup {now}, vis)
    <3>1. HitsOK(n, memory[n], A[n], vis) /\ n \in Names
      BY ItemNames DEF ItemOK
    <3>2. IsFiniteSet(A[n]) /\ now \notin A[n]
      BY <1>1, <3>1
    <3>3. owner(n) \in Owners(n) /\ Concerns(vis[now], owner(n))
      BY <2>4, <3>1
    <3> DEFINE h == memory[n]
               S == A[n]
               w == owner(n)
    <3> HIDE DEF h, S, w
    <3>4. HitsOK(n, h, S, vis) /\ IsFiniteSet(S) /\ now \notin S
          /\ w \in Owners(n) /\ Concerns(vis[now], w)
      BY <3>1, <3>2, <3>3 DEF h, S, w
    <3>5. HitsOK(n, AddHit(h, w, Categories(n), CategoryOf(n, vis[now])),
                 S \cup {now}, vis)
      BY <3>4, AddHitOK
    <3> QED
      BY <2>3, <3>5 DEF h, S, w
  <2>9. ASSUME NEW n \in TimeNames PROVE TimesOK(n, r[n], A[n] \cup {now}, vis)
    <3>1. TimesOK(n, memory[n], A[n], vis) /\ n \in Names
      BY ItemNames DEF ItemOK
    <3>2. owner(n) \in Owners(n) /\ Concerns(vis[now], owner(n))
      BY <2>4, <3>1
    <3> QED
      BY <2>3, <3>1, <3>2, AddTimeOK
  <2>10. \A n \in Names : ItemOK(n, r[n], A[n] \cup {now}, vis)
    BY <2>7, <2>8, <2>9, ItemNames DEF ItemOK
  <2> QED
    BY <2>3, <2>10 DEF r
<1> QED
  BY <1>3, <1>4

-----------------------------------------------------------------------------
(* The log of visits so far. *)
Entries == [i \in DOMAIN seen |-> seen[i].visit]

EntryType == [visit : Visits, saved : 0 .. 8]

SeenTyped == seen \in Seq(EntryType)

(* The storage is what the saved visits have left. *)
StorageOK ==
  /\ DOMAIN storage = Names
  /\ \A n \in Names : ItemOK(n, storage[n], Saved(n), Entries)

(* The memory of a script is what saved visits have left, with its own.     *)
ReadsOK(r) ==
  /\ r \in [pc : {"load", "enter"}, pos : DOMAIN Items, loaded : BOOLEAN,
            visit : Visits, memory : {r.memory}]
  /\ DOMAIN r.memory = Names
  /\ \A n \in Names : ItemOK(n, r.memory[n], Saved(n), Entries)

WritesOK(r) ==
  /\ r \in [pc : {"save"}, pos : DOMAIN Items, loaded : BOOLEAN,
            at : DOMAIN seen, memory : {r.memory}]
  /\ seen[r.at].saved < r.pos
  /\ DOMAIN r.memory = Names
  /\ \A n \in Names : ItemOK(n, r.memory[n], Saved(n) \cup {r.at}, Entries)

TabsOK ==
  /\ DOMAIN tab = Tabs
  /\ \A t \in Tabs : tab[t] = Idle \/ ReadsOK(tab[t]) \/ WritesOK(tab[t])

(* No two scripts save the same visit. *)
OwnVisits ==
  \A t, u \in Tabs :
    tab[t].pc = "save" /\ tab[u].pc = "save" /\ tab[t].at = tab[u].at => t = u

(* The counters of the properties. *)
CountsTyped ==
  /\ opened \in Nat /\ failures \in 0 .. MaxFailures
  /\ overlapped \in BOOLEAN /\ forgot \in BOOLEAN

(* The inductive invariant. *)
HistoryInv == SeenTyped /\ StorageOK /\ TabsOK /\ OwnVisits /\ CountsTyped

(* A script is idle, or in one of two states of the invariant.              *)
LEMMA TabState ==
  ASSUME NEW r, r = Idle \/ ReadsOK(r) \/ WritesOK(r)
  PROVE  /\ r.pc \in {"idle", "load", "enter", "save"}
         /\ r.pc = "idle" <=> r = Idle
         /\ r.pc \in {"load", "enter"} => ReadsOK(r)
         /\ r.pc = "save" => WritesOK(r)
BY DEF Idle, ReadsOK, WritesOK

(* The visits that have saved an item are finitely many. *)
LEMMA SavedFinite ==
  ASSUME SeenTyped, NEW n
  PROVE  /\ DOMAIN seen = 1 .. Len(seen) /\ Len(seen) \in Nat
         /\ Saved(n) \subseteq 1 .. Len(seen) /\ IsFiniteSet(Saved(n))
         /\ DOMAIN Entries = 1 .. Len(seen)
<1>1. DOMAIN seen = 1 .. Len(seen) /\ Len(seen) \in Nat
  BY DEF SeenTyped
<1>2. Saved(n) \subseteq 1 .. Len(seen)
  BY <1>1 DEF Saved
<1>3. IsFiniteSet(1 .. Len(seen))
  BY <1>1, FS_Interval
<1> QED
  BY <1>1, <1>2, <1>3, FS_Subset DEF Entries

(* A step that leaves seen alone leaves alone what is OK. *)
LEMMA SameSeen ==
  ASSUME seen' = seen
  PROVE  /\ Entries' = Entries /\ SeenTyped' = SeenTyped
         /\ \A n : Saved(n)' = Saved(n)
         /\ \A r : ReadsOK(r)' = ReadsOK(r) /\ WritesOK(r)' = WritesOK(r)
BY DEF Entries, SeenTyped, Saved, ReadsOK, WritesOK

(* The invariant holds at the beginning and is kept by every action.        *)
LEMMA InitHistory == HistoryInit => HistoryInv
<1> SUFFICES ASSUME HistoryInit PROVE HistoryInv
  OBVIOUS
<1>1. SeenTyped /\ StorageOK
  BY PastOK, VisitorHistoryAssumption DEF HistoryInit, SeenTyped, StorageOK
<1>2. TabsOK /\ OwnVisits
  BY DEF HistoryInit, TabsOK, OwnVisits, Idle
<1>3. CountsTyped
  <2>1. MaxFailures \in Nat
    BY VisitorHistoryAssumption
  <2>2. failures \in 0 .. MaxFailures
    BY <2>1 DEF HistoryInit
  <2>3. opened \in Nat /\ overlapped \in BOOLEAN /\ forgot \in BOOLEAN
    BY DEF HistoryInit
  <2> QED
    BY <2>2, <2>3 DEF CountsTyped
<1> QED
  BY <1>1, <1>2, <1>3 DEF HistoryInv

(* What a visit entered and an item saved do to the log of the visits.      *)
LEMMA EnterSeen ==
  ASSUME HistoryInv, NEW t \in Tabs, Enter(t)
  PROVE  /\ ReadsOK(tab[t]) /\ tab[t].pc = "enter"
         /\ tab[t].visit \in Visits /\ tab[t].loaded \in BOOLEAN
         /\ DOMAIN tab[t].memory = Names
         /\ \A n \in Names : ItemOK(n, tab[t].memory[n], Saved(n), Entries)
         /\ Len(seen) \in Nat /\ DOMAIN seen = 1 .. Len(seen)
         /\ DOMAIN Entries = 1 .. Len(seen)
         /\ \A n : Saved(n) \subseteq 1 .. Len(seen) /\ IsFiniteSet(Saved(n))
         /\ SeenTyped' /\ DOMAIN seen' = 1 .. Len(seen) + 1 /\ Len(seen') = Len(seen) + 1
         /\ seen'[Len(seen) + 1] = [visit |-> tab[t].visit, saved |-> 0]
         /\ \A n \in Names : Saved(n)' = Saved(n)
         /\ Entries'[Len(seen) + 1] = tab[t].visit
         /\ \A i \in 1 .. Len(seen) : seen'[i] = seen[i] /\ Entries'[i] = Entries[i]
         /\ DOMAIN tab' = Tabs /\ \A u \in Tabs : u # t => tab'[u] = tab[u]
         /\ tab'[t] = [pc |-> "save", pos |-> 1, loaded |-> tab[t].loaded,
                       at |-> Len(seen) + 1,
                       memory |-> Entered(tab[t].memory, tab[t].visit, Len(seen) + 1)]
<1> USE DEF HistoryInv
<1> DEFINE r == tab[t]
           now == Len(seen) + 1
           m == Entered(r.memory, r.visit, now)
<1>1. ReadsOK(r) /\ r.pc = "enter"
  BY TabState DEF TabsOK, Enter
<1>2. UNCHANGED <<storage, opened, failures, overlapped, forgot>>
  BY DEF Enter
<1>3. r.visit \in Visits /\ r.loaded \in BOOLEAN /\ DOMAIN r.memory = Names
      /\ \A n \in Names : ItemOK(n, r.memory[n], Saved(n), Entries)
  BY <1>1 DEF ReadsOK
<1>4. /\ Len(seen) \in Nat /\ now \in Nat /\ now - 1 = Len(seen)
      /\ DOMAIN seen = 1 .. Len(seen) /\ DOMAIN Entries = 1 .. Len(seen)
      /\ \A n : Saved(n) \subseteq 1 .. Len(seen) /\ IsFiniteSet(Saved(n))
  BY SavedFinite
<1>5. /\ SeenTyped'
      /\ DOMAIN seen' = 1 .. now /\ Len(seen') = now
      /\ seen'[now] = [visit |-> r.visit, saved |-> 0]
      /\ \A i \in 1 .. Len(seen) : seen'[i] = seen[i]
  <2>1. seen' = Append(seen, [visit |-> r.visit, saved |-> 0])
    BY DEF Enter
  <2>2. [visit |-> r.visit, saved |-> 0] \in EntryType
    BY <1>3 DEF EntryType
  <2> DEFINE x == [visit |-> r.visit, saved |-> 0]
  <2> HIDE DEF x
  <2> QED
    BY <2>1, <2>2, <1>4 DEF SeenTyped, x
<1>6. \A n \in Names : Saved(n)' = Saved(n)
  <2> TAKE n \in Names
  <2>1. Position(n) \in 1 .. 8
    BY PositionKnown
  <2>2. ~(seen'[now].saved >= Position(n))
    BY <1>5, <2>1
  <2> HIDE DEF now
  <2> QED
    BY <1>4, <1>5, <2>2 DEF Saved, now
<1>7. /\ Entries'[now] = r.visit /\ \A i \in 1 .. Len(seen) : Entries'[i] = Entries[i]
  BY <1>4, <1>5 DEF Entries
<1>8. /\ DOMAIN tab' = Tabs /\ \A u \in Tabs : u # t => tab'[u] = tab[u]
      /\ tab'[t] = [pc |-> "save", pos |-> 1, loaded |-> tab[t].loaded,
                    at |-> Len(seen) + 1,
                    memory |-> Entered(tab[t].memory, tab[t].visit, Len(seen) + 1)]
  BY <1>5 DEF Enter, TabsOK
<1> HIDE DEF HistoryInv
<1>9. /\ ReadsOK(tab[t]) /\ tab[t].pc = "enter"
      /\ tab[t].visit \in Visits /\ tab[t].loaded \in BOOLEAN
      /\ DOMAIN tab[t].memory = Names
      /\ \A n \in Names : ItemOK(n, tab[t].memory[n], Saved(n), Entries)
  BY <1>1, <1>3
<1>10. /\ Len(seen) \in Nat /\ DOMAIN seen = 1 .. Len(seen)
       /\ DOMAIN Entries = 1 .. Len(seen)
       /\ \A n : Saved(n) \subseteq 1 .. Len(seen) /\ IsFiniteSet(Saved(n))
  BY <1>4
<1>11. /\ SeenTyped' /\ DOMAIN seen' = 1 .. Len(seen) + 1 /\ Len(seen') = Len(seen) + 1
       /\ seen'[Len(seen) + 1] = [visit |-> tab[t].visit, saved |-> 0]
  BY <1>5
<1>12. /\ \A n \in Names : Saved(n)' = Saved(n)
       /\ Entries'[Len(seen) + 1] = tab[t].visit
       /\ \A i \in 1 .. Len(seen) : seen'[i] = seen[i] /\ Entries'[i] = Entries[i]
  BY <1>5, <1>6, <1>7
<1> QED
  BY ONLY <1>8, <1>9, <1>10, <1>11, <1>12

LEMMA OpenStep ==
  ASSUME HistoryInv, NEW t \in Tabs, Open(t)
  PROVE  HistoryInv'
<1> USE DEF HistoryInv
<1>1. PICK v \in Visits, works \in BOOLEAN :
        /\ works \/ failures < MaxFailures
        /\ failures' = IF works THEN failures ELSE failures + 1
        /\ tab' = [tab EXCEPT ![t] =
                     [pc |-> IF works THEN "load" ELSE "enter", pos |-> 1,
                      loaded |-> works, visit |-> v, memory |-> Fresh]]
  BY DEF Open
<1> DEFINE r == [pc |-> IF works THEN "load" ELSE "enter", pos |-> 1,
                 loaded |-> works, visit |-> v, memory |-> Fresh]
<1>2. ReadsOK(r)
  BY FreshOK, PositionKnown DEF ReadsOK, Fresh
<1>3. UNCHANGED <<storage, seen, forgot>>
  BY DEF Open
<1>4. r.pc # "save"
  OBVIOUS
<1> HIDE DEF r
<1>5. DOMAIN tab' = Tabs /\ tab'[t] = r /\ \A u \in Tabs : u # t => tab'[u] = tab[u]
  BY <1>1 DEF TabsOK, r
<1>6. TabsOK'
  BY <1>2, <1>3, <1>5, SameSeen DEF TabsOK
<1>7. OwnVisits'
  BY <1>4, <1>5 DEF OwnVisits
<1>8. SeenTyped' /\ StorageOK'
  BY <1>3, SameSeen DEF StorageOK
<1>9. CountsTyped'
  BY <1>1, <1>3, VisitorHistoryAssumption DEF CountsTyped, Open
<1> QED
  BY <1>6, <1>7, <1>8, <1>9

LEMMA EndStep ==
  ASSUME HistoryInv, NEW t \in Tabs, End(t)
  PROVE  HistoryInv'
<1> USE DEF HistoryInv
<1>1. DOMAIN tab' = Tabs /\ tab'[t] = Idle /\ \A u \in Tabs : u # t => tab'[u] = tab[u]
  BY DEF TabsOK, End
<1>2. UNCHANGED <<storage, opened, seen, overlapped, forgot>>
  BY DEF End
<1>3. TabsOK'
  BY <1>1, <1>2, SameSeen DEF TabsOK
<1>4. OwnVisits'
  BY <1>1 DEF OwnVisits, Idle
<1>5. SeenTyped' /\ StorageOK'
  BY <1>2, SameSeen DEF StorageOK
<1>6. CountsTyped'
  BY <1>2, VisitorHistoryAssumption DEF CountsTyped, End
<1> QED
  BY <1>3, <1>4, <1>5, <1>6

LEMMA LoadStep ==
  ASSUME HistoryInv, NEW t \in Tabs, LoadItem(t)
  PROVE  HistoryInv'
<1> USE DEF HistoryInv
<1> DEFINE r == tab[t]
           name == Items[r.pos]
           item == Loaded(name, storage[name])
<1>1. ReadsOK(r) /\ r.pc = "load"
  BY TabState DEF TabsOK, LoadItem
<1>2. UNCHANGED <<storage, opened, seen, failures, overlapped, forgot>>
  BY DEF LoadItem
<1>3. name \in Names /\ r.pos \in 1 .. 8 /\ Len(Items) = 8
  BY <1>1, PositionKnown DEF ReadsOK
<1>4. ItemOK(name, item, Saved(name), Entries)
  <2>1. Saved(name) \subseteq Int
    BY SavedFinite
  <2>2. ItemOK(name, storage[name], Saved(name), Entries)
    BY <1>3 DEF StorageOK
  <2> HIDE DEF name
  <2> QED
    BY <1>3, <2>1, <2>2, LoadedOK
<1> HIDE DEF item
<1>5. /\ DOMAIN tab' = Tabs /\ \A u \in Tabs : u # t => tab'[u] = tab[u]
      /\ tab'[t] = [pc |-> IF r.pos = 8 THEN "enter" ELSE "load",
                    pos |-> IF r.pos = 8 THEN 1 ELSE r.pos + 1,
                    loaded |-> r.loaded, visit |-> r.visit,
                    memory |-> [r.memory EXCEPT ![name] = item]]
  BY <1>1, <1>3 DEF LoadItem, TabsOK, ReadsOK, item
<1> DEFINE m == [r.memory EXCEPT ![name] = item]
<1>6. DOMAIN m = Names /\ \A n \in Names : ItemOK(n, m[n], Saved(n), Entries)
  BY <1>1, <1>3, <1>4 DEF ReadsOK
<1> HIDE DEF m
<1>7. ReadsOK(tab'[t]) /\ tab'[t].pc # "save"
  BY <1>1, <1>3, <1>5, <1>6, PositionKnown DEF ReadsOK, m
<1>8. TabsOK'
  BY <1>2, <1>5, <1>7, SameSeen DEF TabsOK
<1>9. OwnVisits'
  BY <1>5, <1>7 DEF OwnVisits
<1>10. SeenTyped' /\ StorageOK' /\ CountsTyped'
  BY <1>2, SameSeen DEF StorageOK, CountsTyped
<1> QED
  BY <1>8, <1>9, <1>10

LEMMA EnterStep ==
  ASSUME HistoryInv, NEW t \in Tabs, Enter(t)
  PROVE  HistoryInv'
<1> DEFINE r == tab[t]
           now == Len(seen) + 1
           m == Entered(r.memory, r.visit, now)
<1>1. ReadsOK(r) /\ r.pc = "enter"
  BY EnterSeen
<1>2. UNCHANGED <<storage, opened, failures, overlapped, forgot>>
  BY DEF Enter
<1>3. r.visit \in Visits /\ r.loaded \in BOOLEAN /\ DOMAIN r.memory = Names
      /\ \A n \in Names : ItemOK(n, r.memory[n], Saved(n), Entries)
  BY EnterSeen
<1>4. /\ Len(seen) \in Nat /\ now \in Nat /\ now - 1 = Len(seen)
      /\ DOMAIN seen = 1 .. Len(seen) /\ DOMAIN Entries = 1 .. Len(seen)
      /\ \A n : Saved(n) \subseteq 1 .. Len(seen) /\ IsFiniteSet(Saved(n))
  BY SavedFinite DEF HistoryInv
<1>5. /\ SeenTyped'
      /\ DOMAIN seen' = 1 .. now /\ Len(seen') = now
      /\ seen'[now] = [visit |-> r.visit, saved |-> 0]
      /\ \A i \in 1 .. Len(seen) : seen'[i] = seen[i]
  BY EnterSeen
<1>6. \A n \in Names : Saved(n)' = Saved(n)
  BY EnterSeen
<1>7. /\ Entries'[now] = r.visit /\ \A i \in 1 .. Len(seen) : Entries'[i] = Entries[i]
  BY EnterSeen
<1> USE DEF HistoryInv
<1>8. \A n \in Names : \A item :
        ItemOK(n, item, Saved(n), Entries) => ItemOK(n, item, Saved(n)', Entries')
  <2> TAKE n \in Names
  <2>1. Saved(n) \subseteq Saved(n)' /\ IsFiniteSet(Saved(n)')
    BY <1>4, <1>6
  <2>2. \A i \in Saved(n) : Entries'[i] = Entries[i]
    BY <1>4, <1>7
  <2> QED
    BY <2>1, <2>2, StillOK
<1>9. StorageOK'
  BY <1>2, <1>8 DEF StorageOK
<1>10. /\ DOMAIN tab' = Tabs /\ \A u \in Tabs : u # t => tab'[u] = tab[u]
       /\ tab'[t] = [pc |-> "save", pos |-> 1, loaded |-> r.loaded, at |-> now,
                     memory |-> m]
  BY EnterSeen
<1>11. WritesOK(tab[t])'
  <2>1. DOMAIN m = Names
        /\ \A n \in Names : ItemOK(n, m[n], Saved(n) \cup {now}, Entries')
    <3> DEFINE A == [n \in Names |-> Saved(n)]
               vis == Entries'
               memory == r.memory
    <3>1. \A n \in Names : A[n] \subseteq 1 .. now - 1
      BY <1>4
    <3>2. vis[now] \in Visits /\ vis[now] = r.visit
      BY <1>3, <1>7
    <3>3. \A n \in Names : ItemOK(n, memory[n], A[n], vis)
      BY <1>3, <1>6, <1>8
    <3>4. DOMAIN memory = Names /\ now \in Nat
      BY <1>3, <1>4
    <3>5. \A n \in Names : A[n] = Saved(n)
      OBVIOUS
    <3>6. m = Entered(memory, vis[now], now)
      BY <3>2
    <3> HIDE DEF A, vis, memory, now, m
    <3>7. /\ DOMAIN m = Names
          /\ \A n \in Names : ItemOK(n, m[n], A[n] \cup {now}, vis)
      BY <3>1, <3>2, <3>3, <3>4, <3>6, EnteredOK
    <3> QED
      BY <3>5, <3>7 DEF vis
  <2> HIDE DEF m
  <2>2. \A n \in Names : ItemOK(n, m[n], Saved(n)' \cup {now}, Entries')
    BY <2>1, <1>6
  <2> QED
    BY <1>3, <1>4, <1>5, <1>10, <2>1, <2>2, PositionKnown DEF WritesOK
<1>12. ASSUME NEW u \in Tabs, u # t, ReadsOK(tab[u]) PROVE ReadsOK(tab[u])'
  BY <1>8, <1>10, <1>12 DEF ReadsOK
<1>13. ASSUME NEW u \in Tabs, u # t, WritesOK(tab[u]) PROVE WritesOK(tab[u])'
  <2> DEFINE a == tab[u].at
  <2>1. a \in 1 .. Len(seen)
    BY <1>4, <1>13 DEF WritesOK
  <2>2. a \in DOMAIN seen' /\ seen'[a] = seen[a]
    BY <1>4, <1>5, <2>1
  <2>3. ASSUME NEW n \in Names
        PROVE  ItemOK(n, tab[u].memory[n], Saved(n)' \cup {a}, Entries')
    <3>1. ItemOK(n, tab[u].memory[n], Saved(n) \cup {a}, Entries)
      BY <1>13 DEF WritesOK
    <3>2. Saved(n) \cup {a} \subseteq Saved(n)' \cup {a} /\ IsFiniteSet(Saved(n)' \cup {a})
      BY <1>4, <1>6, FS_AddElement
    <3>3. \A i \in Saved(n) \cup {a} : Entries'[i] = Entries[i]
      BY <1>4, <1>7, <2>1
    <3> HIDE DEF a
    <3> QED
      BY <3>1, <3>2, <3>3, StillOK
  <2>4. tab'[u] = tab[u]
    BY <1>10, <1>13
  <2> QED
    BY <1>13, <2>2, <2>3, <2>4 DEF WritesOK
<1>14. TabsOK'
  BY <1>10, <1>11, <1>12, <1>13 DEF TabsOK
<1>15. OwnVisits'
  <2>1. ASSUME NEW u \in Tabs, u # t, tab[u].pc = "save"
        PROVE  tab[u].at # now
    <3>1. tab[u].at \in 1 .. Len(seen)
      BY <1>4, <2>1, TabState DEF TabsOK, WritesOK
    <3> QED
      BY <1>4, <3>1
  <2> QED
    BY <1>10, <2>1 DEF OwnVisits
<1>16. CountsTyped'
  BY <1>2 DEF CountsTyped
<1> QED
  BY <1>5, <1>9, <1>14, <1>15, <1>16

LEMMA SaveSeen ==
  ASSUME HistoryInv, NEW t \in Tabs, SaveItem(t)
  PROVE  LET r == tab[t]  name == Items[r.pos]  at == r.at IN
         /\ WritesOK(r) /\ r.pc = "save"
         /\ UNCHANGED <<opened, failures, overlapped>>
         /\ storage' = [storage EXCEPT ![name] = r.memory[name]]
         /\ DOMAIN tab' = Tabs /\ \A u \in Tabs : u # t => tab'[u] = tab[u]
         /\ tab'[t] = IF r.pos = 8 THEN Idle ELSE [r EXCEPT !.pos = r.pos + 1]
         /\ r.pos \in 1 .. 8 /\ name \in Names /\ Position(name) = r.pos
         /\ DOMAIN Items = 1 .. 8
         /\ Len(seen) \in Nat /\ DOMAIN seen = 1 .. Len(seen) /\ at \in 1 .. Len(seen)
         /\ DOMAIN Entries = 1 .. Len(seen)
         /\ \A n : Saved(n) \subseteq 1 .. Len(seen) /\ IsFiniteSet(Saved(n))
         /\ DOMAIN seen' = 1 .. Len(seen)
         /\ seen'[at] = [seen[at] EXCEPT !.saved = r.pos]
         /\ \A i \in 1 .. Len(seen) : i # at => seen'[i] = seen[i]
         /\ SeenTyped'
         /\ seen[at] \in [visit : Visits, saved : 0 .. 8] /\ seen[at].saved < r.pos
         /\ \A i \in 1 .. Len(seen) : Entries'[i] = Entries[i]
<1>0. PICK r, name, at : r = tab[t] /\ name = Items[r.pos] /\ at = r.at
  OBVIOUS
<1> USE DEF HistoryInv
<1>1. WritesOK(r) /\ r.pc = "save"
  BY <1>0, TabState DEF TabsOK, SaveItem
<1>2. /\ UNCHANGED <<opened, failures, overlapped>>
      /\ storage' = [storage EXCEPT ![name] = r.memory[name]]
      /\ seen' = [seen EXCEPT ![at].saved = r.pos]
      /\ DOMAIN tab' = Tabs /\ \A u \in Tabs : u # t => tab'[u] = tab[u]
      /\ tab'[t] = IF r.pos = Len(Items) THEN Idle ELSE [r EXCEPT !.pos = r.pos + 1]
  <2>1. /\ UNCHANGED <<opened, failures, overlapped>>
        /\ storage' = [storage EXCEPT ![name] = r.memory[name]]
        /\ seen' = [seen EXCEPT ![at].saved = r.pos]
    BY <1>0 DEF SaveItem
  <2>2. tab' = [tab EXCEPT ![t] =
                  IF r.pos = Len(Items) THEN Idle ELSE [r EXCEPT !.pos = r.pos + 1]]
    BY <1>0 DEF SaveItem
  <2>3. DOMAIN tab = Tabs
    BY DEF TabsOK
  <2> QED
    BY <2>1, <2>2, <2>3
<1>3. /\ r.pos \in 1 .. 8 /\ name \in Names /\ Position(name) = r.pos
      /\ Len(Items) = 8 /\ DOMAIN Items = 1 .. 8
  BY <1>0, <1>1, PositionKnown DEF WritesOK
<1>4. /\ Len(seen) \in Nat /\ DOMAIN seen = 1 .. Len(seen) /\ at \in 1 .. Len(seen)
      /\ DOMAIN Entries = 1 .. Len(seen)
      /\ \A n : Saved(n) \subseteq 1 .. Len(seen) /\ IsFiniteSet(Saved(n))
  BY <1>0, <1>1, SavedFinite DEF WritesOK
<1>5. /\ DOMAIN seen' = 1 .. Len(seen)
      /\ seen'[at] = [seen[at] EXCEPT !.saved = r.pos]
      /\ \A i \in 1 .. Len(seen) : i # at => seen'[i] = seen[i]
      /\ SeenTyped'
  <2>1. seen' = [seen EXCEPT ![at].saved = r.pos]
    BY <1>2
  <2>2. \A i \in 1 .. Len(seen) : seen[i] \in EntryType
    BY <1>4 DEF SeenTyped
  <2>3. [seen[at] EXCEPT !.saved = r.pos] \in EntryType
    BY <1>3, <1>4, <2>2 DEF EntryType
  <2>4. seen' \in [1 .. Len(seen) -> EntryType]
    BY <1>4, <2>1, <2>2, <2>3
  <2>5. SeenTyped'
    BY <1>4, <2>4 DEF SeenTyped
  <2> QED
    BY <1>4, <2>1, <2>5
<1>6. seen[at] \in [visit : Visits, saved : 0 .. 8] /\ seen[at].saved < r.pos
  <2>1. seen[at] \in EntryType
    BY <1>4 DEF SeenTyped
  <2> QED
    BY <1>0, <1>1, <1>3, <2>1 DEF WritesOK, EntryType
<1>7. \A i \in 1 .. Len(seen) : Entries'[i] = Entries[i]
  BY <1>4, <1>5, <1>6 DEF Entries
<1> HIDE DEF HistoryInv
<1>8. tab'[t] = IF r.pos = 8 THEN Idle ELSE [r EXCEPT !.pos = r.pos + 1]
  BY <1>2, <1>3
<1> QED
  BY ONLY <1>0, <1>1, <1>2, <1>3, <1>4, <1>5, <1>6, <1>7, <1>8

LEMMA SaveStep ==
  ASSUME HistoryInv, NEW t \in Tabs, SaveItem(t)
  PROVE  HistoryInv'
<1>0. PICK r, name, at : r = tab[t] /\ name = Items[r.pos] /\ at = r.at
  OBVIOUS
<1>1. WritesOK(r) /\ r.pc = "save"
  BY <1>0, SaveSeen
<1>2. /\ UNCHANGED <<opened, failures, overlapped>>
      /\ storage' = [storage EXCEPT ![name] = r.memory[name]]
      /\ DOMAIN tab' = Tabs /\ \A u \in Tabs : u # t => tab'[u] = tab[u]
      /\ tab'[t] = IF r.pos = 8 THEN Idle ELSE [r EXCEPT !.pos = r.pos + 1]
  BY <1>0, SaveSeen
<1>3. /\ r.pos \in 1 .. 8 /\ name \in Names /\ Position(name) = r.pos
      /\ DOMAIN Items = 1 .. 8
  BY <1>0, SaveSeen
<1>4. /\ Len(seen) \in Nat /\ DOMAIN seen = 1 .. Len(seen) /\ at \in 1 .. Len(seen)
      /\ DOMAIN Entries = 1 .. Len(seen)
      /\ \A n : Saved(n) \subseteq 1 .. Len(seen) /\ IsFiniteSet(Saved(n))
  BY <1>0, SaveSeen
<1>5. /\ DOMAIN seen' = 1 .. Len(seen)
      /\ seen'[at] = [seen[at] EXCEPT !.saved = r.pos]
      /\ \A i \in 1 .. Len(seen) : i # at => seen'[i] = seen[i]
      /\ SeenTyped'
  BY <1>0, SaveSeen
<1>6. seen[at] \in [visit : Visits, saved : 0 .. 8] /\ seen[at].saved < r.pos
  BY <1>0, SaveSeen
<1>7. \A i \in 1 .. Len(seen) : Entries'[i] = Entries[i]
  BY <1>0, SaveSeen
<1> USE DEF HistoryInv
<1>8. ASSUME NEW n \in Names
      PROVE  Saved(n) \subseteq Saved(n)' /\ Saved(n)' \subseteq 1 .. Len(seen)
             /\ IsFiniteSet(Saved(n)')
  <2>1. Position(n) \in 1 .. 8
    BY PositionKnown
  <2>2. \A i \in Saved(n) : i \in Saved(n)'
    <3> TAKE i \in Saved(n)
    <3>1. i \in 1 .. Len(seen) /\ seen[i].saved >= Position(n)
      BY <1>4 DEF Saved
    <3>2. CASE i = at
      <4>1. r.pos >= Position(n)
        <5>1. seen[at].saved \in 0 .. 8 /\ seen[at].saved >= Position(n)
          BY <1>6, <3>1, <3>2
        <5> QED
          BY <1>3, <1>6, <2>1, <5>1
      <4>2. seen'[i].saved = r.pos
        BY <1>5, <1>6, <3>2
      <4> QED
        BY <1>5, <3>1, <4>1, <4>2 DEF Saved
    <3>3. CASE i # at
      BY <1>5, <3>1, <3>3 DEF Saved
    <3> QED
      BY <3>2, <3>3
  <2>3. Saved(n)' \subseteq 1 .. Len(seen)
    BY <1>5 DEF Saved
  <2>4. IsFiniteSet(1 .. Len(seen))
    BY <1>4, FS_Interval
  <2> QED
    BY <2>2, <2>3, <2>4, FS_Subset
<1>9. at \in Saved(name)'
  <2>1. seen'[at].saved = r.pos
    BY <1>5, <1>6
  <2>2. at \in DOMAIN seen' /\ seen'[at].saved >= Position(name)
    BY <1>3, <1>4, <1>5, <2>1
  <2> QED
    BY <2>2 DEF Saved
<1>10. ASSUME NEW n \in Names, NEW item, NEW X \in SUBSET (1 .. Len(seen)), IsFiniteSet(X),
              ItemOK(n, item, Saved(n) \cup X, Entries)
       PROVE  ItemOK(n, item, Saved(n)' \cup X, Entries')
  <2>1. Saved(n) \cup X \subseteq Saved(n)' \cup X
    BY <1>8
  <2>2. IsFiniteSet(Saved(n)' \cup X)
    <3>1. Saved(n)' \cup X \subseteq 1 .. Len(seen)
      BY <1>8
    <3>2. IsFiniteSet(1 .. Len(seen))
      BY <1>4, FS_Interval
    <3> QED
      BY <3>1, <3>2, FS_Subset
  <2>3. \A i \in Saved(n) \cup X : Entries'[i] = Entries[i]
    BY <1>4, <1>7
  <2> QED
    BY <1>10, <2>1, <2>2, <2>3, StillOK
<1>11. \A n \in Names : \A item :
         ItemOK(n, item, Saved(n), Entries) => ItemOK(n, item, Saved(n)', Entries')
  <2> SUFFICES ASSUME NEW n \in Names, NEW item, ItemOK(n, item, Saved(n), Entries)
               PROVE  ItemOK(n, item, Saved(n)', Entries')
    OBVIOUS
  <2>1. Saved(n) \cup {} = Saved(n) /\ Saved(n)' \cup {} = Saved(n)'
    OBVIOUS
  <2>2. {} \in SUBSET (1 .. Len(seen)) /\ IsFiniteSet({})
    BY FS_EmptySet
  <2> QED
    BY <1>8, <1>4, <1>7, StillOK
<1>12. \A n \in Names, a \in 1 .. Len(seen) : \A item :
         ItemOK(n, item, Saved(n) \cup {a}, Entries)
           => ItemOK(n, item, Saved(n)' \cup {a}, Entries')
  <2>1. \A a \in 1 .. Len(seen) : {a} \in SUBSET (1 .. Len(seen)) /\ IsFiniteSet({a})
    BY FS_Singleton
  <2> QED
    BY <1>10, <2>1
<1>13. StorageOK'
  <2>1. DOMAIN storage' = Names /\ storage'[name] = r.memory[name]
        /\ \A n \in Names : n # name => storage'[n] = storage[n]
    BY <1>2, <1>3 DEF StorageOK
  <2>2. ItemOK(name, r.memory[name], Saved(name)', Entries')
    <3>1. ItemOK(name, r.memory[name], Saved(name) \cup {at}, Entries)
      BY <1>0, <1>1, <1>3 DEF WritesOK
    <3>2. ItemOK(name, r.memory[name], Saved(name)' \cup {at}, Entries')
      BY <1>3, <1>4, <1>12, <3>1
    <3>3. Saved(name)' \cup {at} = Saved(name)'
      BY <1>9
    <3> QED
      BY <3>2, <3>3
  <2>3. \A n \in Names : n # name => ItemOK(n, storage'[n], Saved(n)', Entries')
    BY <1>11, <2>1 DEF StorageOK
  <2> QED
    BY <2>1, <2>2, <2>3 DEF StorageOK
<1>14. /\ DOMAIN tab' = Tabs /\ \A u \in Tabs : u # t => tab'[u] = tab[u]
       /\ tab'[t] = IF r.pos = 8 THEN Idle ELSE [r EXCEPT !.pos = r.pos + 1]
  BY <1>2, <1>3
<1>15. ASSUME r.pos # 8 PROVE WritesOK(tab[t])'
  <2>1. tab'[t] = [r EXCEPT !.pos = r.pos + 1]
    BY <1>14, <1>15
  <2>2. /\ tab'[t].pc = "save" /\ tab'[t].at = at /\ tab'[t].memory = r.memory
        /\ tab'[t].pos = r.pos + 1 /\ r.pos + 1 \in 1 .. 8
        /\ tab'[t] \in [pc : {"save"}, pos : DOMAIN Items, loaded : BOOLEAN,
                        at : DOMAIN seen', memory : {tab'[t].memory}]
    BY <1>0, <1>1, <1>3, <1>4, <1>5, <1>15, <2>1 DEF WritesOK
  <2>3. seen'[at].saved < r.pos + 1
    BY <1>3, <1>5, <1>6
  <2>4. \A n \in Names : ItemOK(n, r.memory[n], Saved(n)' \cup {at}, Entries')
    BY <1>0, <1>1, <1>4, <1>12 DEF WritesOK
  <2>5. DOMAIN r.memory = Names
    BY <1>1 DEF WritesOK
  <2> QED
    BY <2>2, <2>3, <2>4, <2>5 DEF WritesOK
<1>16. ASSUME NEW u \in Tabs, u # t, ReadsOK(tab[u]) PROVE ReadsOK(tab[u])'
  BY <1>11, <1>14, <1>16 DEF ReadsOK
<1>17. ASSUME NEW u \in Tabs, u # t, WritesOK(tab[u]) PROVE WritesOK(tab[u])'
  <2> DEFINE a == tab[u].at
  <2>1. tab'[u] = tab[u] /\ a \in 1 .. Len(seen) /\ tab[u].pc = "save"
    BY <1>4, <1>14, <1>17 DEF WritesOK
  <2>2. a # at
    BY <1>0, <1>1, <1>17, <2>1 DEF OwnVisits
  <2>3. a \in DOMAIN seen' /\ seen'[a] = seen[a]
    BY <1>5, <2>1, <2>2
  <2>4. \A n \in Names : ItemOK(n, tab[u].memory[n], Saved(n)' \cup {a}, Entries')
    BY <1>12, <1>17, <2>1 DEF WritesOK
  <2> QED
    BY <1>17, <2>1, <2>3, <2>4 DEF WritesOK
<1>18. TabsOK'
  BY <1>14, <1>15, <1>16, <1>17 DEF TabsOK
<1>19. OwnVisits'
  <2>1. tab'[t].pc = "save" => tab'[t].at = tab[t].at /\ tab[t].pc = "save"
    BY <1>0, <1>1, <1>14 DEF Idle, WritesOK
  <2>2. \A u \in Tabs : tab'[u].pc = "save" => tab'[u].at = tab[u].at /\ tab[u].pc = "save"
    BY <1>14, <2>1
  <2> QED
    BY <2>2 DEF OwnVisits
<1>20. CountsTyped'
  BY <1>2 DEF CountsTyped, SaveItem
<1> QED
  BY <1>5, <1>13, <1>18, <1>19, <1>20

LEMMA HistoryStep == HistoryInv /\ [HistoryNext]_historyVars => HistoryInv'
<1> SUFFICES ASSUME HistoryInv, [HistoryNext]_historyVars PROVE HistoryInv'
  OBVIOUS
<1>1. ASSUME NEW t \in Tabs, Open(t) \/ LoadItem(t) \/ Enter(t) \/ SaveItem(t) \/ End(t)
      PROVE  HistoryInv'
  BY <1>1, OpenStep, LoadStep, EnterStep, SaveStep, EndStep
<1>2. CASE UNCHANGED historyVars
  <2>1. UNCHANGED <<storage, tab, opened, seen, failures, overlapped, forgot>>
    BY <1>2 DEF historyVars
  <2> QED
    BY <2>1, SameSeen DEF HistoryInv, StorageOK, TabsOK, OwnVisits, CountsTyped
<1> QED
  BY <1>1, <1>2 DEF HistoryNext

LEMMA HistoryInvariant == HistorySpec => []HistoryInv
BY InitHistory, HistoryStep, PTL DEF HistorySpec

(* The invariant implies the types, and that nothing is invented.           *)
LEMMA ItemsTyped ==
  ASSUME NEW items, DOMAIN items = Names, NEW A, NEW vis,
         \A n \in Names : ItemOK(n, items[n], A[n], vis)
  PROVE  ItemTypeOK(items)
<1>1. /\ OffersOK(items.retargeting, A["retargeting"], vis)
      /\ QueueOK(items.exclude_advertizer, A["exclude_advertizer"], vis)
  BY NamesKnown DEF ItemOK
<1>2. ASSUME NEW n \in Names \ {"retargeting", "exclude_advertizer"}
      PROVE  /\ DOMAIN items[n] \subseteq (IF UserItem(n) THEN {All} ELSE Who \ {All})
             /\ \A w \in DOMAIN items[n] : items[n][w] \in
                  CASE n \in {"gender_accounts", "gender_user"} -> LogType(Genders)
                    [] n \in {"cost_accounts", "cost_user"} -> LogType(Costs)
                    [] OTHER -> [first : Nat, last : Nat]
  <2>1. ItemOK(n, items[n], A[n], vis)
    OBVIOUS
  <2>2. CASE n \in HitNames
    <3>1. \A w \in DOMAIN items[n] :
            w \in Owners(n) /\ items[n][w] \in LogType(Categories(n))
      BY <2>1, <2>2 DEF ItemOK, HitsOK, HitOK
    <3>2. LogType(Categories(n)) =
            CASE n \in {"gender_accounts", "gender_user"} -> LogType(Genders)
              [] n \in {"cost_accounts", "cost_user"} -> LogType(Costs)
              [] OTHER -> [first : Nat, last : Nat]
      BY <2>2 DEF HitNames, Categories
    <3> QED
      BY <3>1, <3>2 DEF Owners
  <2>3. CASE n \in TimeNames
    <3>1. \A w \in DOMAIN items[n] :
            w \in Owners(n) /\ items[n][w] \in [first : Nat, last : Nat]
      BY <2>1, <2>3 DEF ItemOK, TimesOK
    <3> QED
      BY <2>3, <3>1 DEF Owners, TimeNames
  <2> QED
    BY <2>2, <2>3, ItemNames
<1>3. \A g \in DOMAIN items.retargeting :
        g \in Guids /\ items.retargeting[g] \in OfferType
  BY <1>1 DEF OffersOK
<1>4. items.exclude_advertizer \in Seq(Guids) /\ Len(items.exclude_advertizer) <= QueueSize
  BY <1>1 DEF QueueOK
<1> QED
  BY <1>2, <1>3, <1>4 DEF ItemTypeOK

LEMMA HistoryTypes == HistoryInv => HistoryTypeOK
<1> SUFFICES ASSUME HistoryInv PROVE HistoryTypeOK
  OBVIOUS
<1> USE DEF HistoryInv
<1>1. ItemTypeOK(storage)
  <2> DEFINE A == [n \in Names |-> Saved(n)]
  <2>1. \A n \in Names : ItemOK(n, storage[n], A[n], Entries)
    BY DEF StorageOK
  <2> HIDE DEF A
  <2> QED
    BY <2>1, ItemsTyped DEF StorageOK
<1>2. ASSUME NEW t \in Tabs, tab[t] # Idle
      PROVE  /\ tab[t].pc \in {"load", "enter", "save"} /\ tab[t].pos \in DOMAIN Items
             /\ tab[t].loaded \in BOOLEAN /\ ItemTypeOK(tab[t].memory)
             /\ tab[t].pc = "save" => tab[t].at \in DOMAIN seen
  <2>1. CASE ReadsOK(tab[t])
    <3> DEFINE A == [n \in Names |-> Saved(n)]
    <3>1. \A n \in Names : ItemOK(n, tab[t].memory[n], A[n], Entries)
      BY <2>1 DEF ReadsOK
    <3>2. DOMAIN tab[t].memory = Names
      BY <2>1 DEF ReadsOK
    <3> HIDE DEF A
    <3>3. ItemTypeOK(tab[t].memory)
      BY <3>1, <3>2, ItemsTyped
    <3> QED
      BY <2>1, <3>3 DEF ReadsOK
  <2>2. CASE WritesOK(tab[t])
    <3> DEFINE A == [n \in Names |-> Saved(n) \cup {tab[t].at}]
    <3>1. \A n \in Names : ItemOK(n, tab[t].memory[n], A[n], Entries)
      BY <2>2 DEF WritesOK
    <3>2. DOMAIN tab[t].memory = Names
      BY <2>2 DEF WritesOK
    <3> HIDE DEF A
    <3>3. ItemTypeOK(tab[t].memory)
      BY <3>1, <3>2, ItemsTyped
    <3> QED
      BY <2>2, <3>3 DEF WritesOK
  <2> QED
    BY <1>2, <2>1, <2>2 DEF TabsOK
<1>3. seen \in Seq([visit : Visits, saved : 0 .. Len(Items)])
  BY PositionKnown DEF SeenTyped, EntryType
<1> QED
  BY <1>1, <1>2, <1>3 DEF HistoryTypeOK, CountsTyped

LEMMA HistoryBrought == HistoryInv => NeverInvented
<1> SUFFICES ASSUME HistoryInv PROVE NeverInvented
  OBVIOUS
<1> USE DEF HistoryInv
<1>1. \A n \in Names : ItemOK(n, storage[n], Saved(n), Entries)
  BY DEF StorageOK
<1>2. \A n : \A i \in Saved(n) : Entries[i] = seen[i].visit
  BY DEF Saved, Entries
<1>3. ASSUME NEW name, NEW g, NEW i \in Saved(name), Adds(Entries[i], name, g)
      PROVE  \E p \in AskedTo("add", name, g) : p[1] = i
  <2>1. PICK j \in DOMAIN Entries[i].ids :
          /\ g = <<Entries[i].ids[j].offer, Entries[i].account>>
          /\ Type(Entries[i].ids[j]) = name /\ Action(Entries[i].ids[j]) = "add"
    BY <1>3 DEF Adds
  <2>2. Entries[i] = seen[i].visit /\ seen[i].visit.account # NoAccount
    BY <1>2, <1>3 DEF Adds
  <2> DEFINE p == <<i, j>>
  <2>3. p \in UNION {{k} \X DOMAIN seen[k].visit.ids : k \in Saved(name)}
    BY <2>1, <2>2
  <2>4. p[1] = i /\ p[2] = j
    OBVIOUS
  <2> HIDE DEF p
  <2>5. p \in Asked(name, g)
    BY <2>1, <2>2, <2>3, <2>4 DEF Asked
  <2>6. p \in AskedTo("add", name, g)
    BY <2>1, <2>2, <2>4, <2>5 DEF AskedTo
  <2> QED
    BY <2>4, <2>6
<1>4. ASSUME NEW g \in DOMAIN storage.retargeting
      PROVE  \/ \E p \in AskedTo("add", "retargeting", g) :
                  storage.retargeting[g] = AtPlace(p[1])
             \/ /\ g \in DOMAIN Past.retargeting
                /\ storage.retargeting[g] \in
                     {Past.retargeting[g], LoadedOffers(Past.retargeting)[g]}
  <2>1. OffersOK(storage.retargeting, Saved("retargeting"), Entries)
    BY <1>1, NamesKnown DEF ItemOK
  <2>2. CASE \E i \in Saved("retargeting") :
               /\ Adds(Entries[i], "retargeting", g)
               /\ storage.retargeting[g] = [until |-> i + Entries[i].ttl, at |-> i]
    <3>1. PICK i \in Saved("retargeting") :
            /\ Adds(Entries[i], "retargeting", g)
            /\ storage.retargeting[g] = [until |-> i + Entries[i].ttl, at |-> i]
      BY <2>2
    <3>2. PICK p \in AskedTo("add", "retargeting", g) : p[1] = i
      BY <1>3, <3>1
    <3>3. Entries[i] = seen[i].visit
      BY <1>2, <3>1
    <3>4. storage.retargeting[g] = AtPlace(p[1])
      BY <3>1, <3>2, <3>3 DEF AtPlace
    <3> QED
      BY <3>4
  <2> QED
    BY <2>1, <2>2 DEF OffersOK
<1>5. LET queue == storage.exclude_advertizer IN
      \A i \in DOMAIN queue : \/ InQueue(Past.exclude_advertizer, queue[i])
                              \/ AskedTo("add", "exclude_advertizer", queue[i]) # {}
  <2>1. QueueOK(storage.exclude_advertizer, Saved("exclude_advertizer"), Entries)
    BY <1>1, NamesKnown DEF ItemOK
  <2> QED
    BY <1>3, <2>1 DEF QueueOK
<1>6. OnceEach(storage.exclude_advertizer)
  BY <1>1, NamesKnown DEF ItemOK, QueueOK
<1>7. ASSUME NEW n \in HitNames, NEW who \in DOMAIN storage[n]
      PROVE  LET h == storage[n][who] IN
             /\ \A c \in DOMAIN h.log : h.log[c] <= IF c = 0 THEN 1 ELSE Hits(n, who, c)
             /\ h.log[h.category] > 0
  <2>1. HitOK(n, who, storage[n][who], Saved(n), Entries)
    BY <1>1, <1>7, ItemNames DEF ItemOK, HitsOK
  <2>2. \A c : Counted(n, who, c, Saved(n), Entries)
                 = {i \in VisitsOf(n, who) : Category(n, i) = c}
    BY <1>2 DEF Counted, VisitsOf, Concerns, Category, CategoryOf
  <2>3. DOMAIN storage[n][who].log = Categories(n)
    BY <2>1 DEF HitOK, LogType
  <2> QED
    BY <2>1, <2>2, <2>3 DEF HitOK, Hits
<1>8. ASSUME NEW n \in TimeNames, NEW who \in DOMAIN storage[n]
      PROVE  LET a == storage[n][who] IN
             {a.first, a.last} \subseteq VisitsOf(n, who) /\ a.first <= a.last
  <2>1. TimesOK(n, storage[n], Saved(n), Entries)
    BY <1>1, ItemNames DEF ItemOK
  <2> QED
    BY <1>2, <1>8, <2>1 DEF TimesOK, VisitsOf, Concerns
<1> QED
  BY <1>4, <1>5, <1>6, <1>7, <1>8 DEF NeverInvented, HitNames, TimeNames

-----------------------------------------------------------------------------
(* What exactly the visits S leave in an item, if they have come one after  *)
(* another.  For the offers a visit counts id by id: P holds places, a      *)
(* visit and one of its ids.                                                *)
PlacesOf(S, vis) == UNION {{i} \X DOMAIN vis[i].ids : i \in S}

Mentions(p, name, g, vis) ==
  LET v == vis[p[1]] IN
  /\ v.account # NoAccount
  /\ g = <<v.ids[p[2]].offer, v.account>> /\ Type(v.ids[p[2]]) = name

AskedIn(P, name, g, vis) == {p \in P : Mentions(p, name, g, vis)}

AddedAt(p, vis) == Action(vis[p[1]].ids[p[2]]) = "add"

WantedIn(P, name, g, vis, initial) ==
  IF AskedIn(P, name, g, vis) = {} THEN g \in initial
  ELSE LET last == Last(AskedIn(P, name, g, vis))
       IN  last \in AskedIn(P, name, g, vis) /\ AddedAt(last, vis)

OfferOf(p, vis) == [until |-> p[1] + vis[p[1]].ttl, at |-> p[1]]

LoadedPast == LoadedOffers(Past.retargeting)

OffersAre(offers, P, vis, past) ==
  \A g \in Guids :
    LET asked == AskedIn(P, "retargeting", g, vis) IN
    /\ g \in DOMAIN offers <=> WantedIn(P, "retargeting", g, vis, DOMAIN past)
    /\ g \in DOMAIN offers =>
         offers[g] = IF asked = {} THEN past[g] ELSE OfferOf(Last(asked), vis)

(* All that may be in the queue: a finite set.                              *)
PastQueue == {h \in Guids : InQueue(Past.exclude_advertizer, h)}

Known(P, vis) ==
  {h \in Guids : \/ h \in PastQueue
                 \/ \E p \in AskedIn(P, "exclude_advertizer", h, vis) : AddedAt(p, vis)}

Excluded(P, g, vis) ==
  WantedIn(P, "exclude_advertizer", g, vis, PastQueue)

QueueIs(queue, P, vis) ==
  /\ IsFiniteSet(Known(P, vis))
  /\ \A k \in DOMAIN queue : queue[k] \in Known(P, vis)
  /\ \A g \in Guids :
       /\ InQueue(queue, g) => Excluded(P, g, vis)
       /\ Excluded(P, g, vis) /\ ~InQueue(queue, g)
            => Cardinality(Known(P, vis) \ {g}) >= QueueSize

ConcernedIn(S, who, vis) == {i \in S : Concerns(vis[i], who)}

HitIs(name, who, hit, S, vis) ==
  LET Count(c) == Cardinality(Counted(name, who, c, S, vis)) IN
  /\ \A c \in Categories(name) \ {0} :
       /\ hit.log[c] = Count(c)
       /\ IF hit.category = 0 THEN Count(c) <= 1 ELSE Count(c) <= Count(hit.category)
  /\ Cardinality(ConcernedIn(S, who, vis)) = 1
       => \A i \in ConcernedIn(S, who, vis) : hit.category = CategoryOf(name, vis[i])

HitsAre(name, hits, S, vis) ==
  \A who \in Owners(name) :
    /\ who \in DOMAIN hits <=> ConcernedIn(S, who, vis) # {}
    /\ who \in DOMAIN hits => HitIs(name, who, hits[who], S, vis)

TimesAre(name, times, S, vis) ==
  \A who \in Owners(name) :
    /\ who \in DOMAIN times <=> ConcernedIn(S, who, vis) # {}
    /\ who \in DOMAIN times =>
         /\ {times[who].first, times[who].last} \subseteq ConcernedIn(S, who, vis)
         /\ \A i \in ConcernedIn(S, who, vis) : /\ times[who].first <= i
                                                /\ i <= times[who].last

ItemIs(name, item, S, vis, past) ==
  /\ name = "retargeting" => OffersAre(item, PlacesOf(S, vis), vis, past)
  /\ name = "exclude_advertizer" => QueueIs(item, PlacesOf(S, vis), vis)
  /\ name \in HitNames => HitsAre(name, item, S, vis)
  /\ name \in TimeNames => TimesAre(name, item, S, vis)

(* As long as scripts run one after another and none has saved without      *)
(* having loaded: the storage is what the visits that have saved an item    *)
(* leave; the memory is what they leave once the item is loaded, and with   *)
(* the visit itself once it is entered.                                     *)
StoredPast(name) == IF Saved(name) = {} THEN Past.retargeting ELSE LoadedPast

StorageIs == \A n \in Names : ItemIs(n, storage[n], Saved(n), Entries, StoredPast(n))

TabIs(r) ==
  /\ r.pc = "load" =>
       /\ r.loaded
       /\ \A n \in Names : Position(n) < r.pos =>
            ItemIs(n, r.memory[n], Saved(n), Entries, LoadedPast)
  /\ r.pc = "enter" /\ r.loaded =>
       \A n \in Names : ItemIs(n, r.memory[n], Saved(n), Entries, LoadedPast)
  /\ r.pc = "save" =>
       /\ seen[r.at].saved = r.pos - 1
       /\ r.loaded => \A n \in Names :
            ItemIs(n, r.memory[n], Saved(n) \cup {r.at}, Entries, LoadedPast)

AloneInv ==
  ~overlapped /\ ~forgot =>
    /\ \A t, u \in Tabs : tab[t] # Idle /\ tab[u] # Idle => t = u
    /\ StorageIs
    /\ \A t \in Tabs : TabIs(tab[t])

-----------------------------------------------------------------------------
(* The last of some places, when one is added behind them.                  *)
LEMMA LastAdded ==
  ASSUME NEW A \in SUBSET (Nat \X Nat), NEW p \in Nat \X Nat, \A q \in A : Before(q, p)
  PROVE  Last(A \cup {p}) = p
<1>1. \A q \in A \cup {p} : Before(q, p)
  BY DEF Before
<1>2. ASSUME NEW r \in A \cup {p}, \A q \in A \cup {p} : Before(q, r)
      PROVE  r = p
  <2>1. Before(r, p) /\ Before(p, r)
    BY <1>1, <1>2
  <2>2. r \in Nat \X Nat
    OBVIOUS
  <2>3. r[1] = p[1] /\ r[2] = p[2]
    BY <2>1, <2>2 DEF Before
  <2> QED
    BY <2>2, <2>3
<1>3. p \in A \cup {p}
  OBVIOUS
<1> QED
  BY <1>1, <1>2, <1>3 DEF Last

LEMMA AskedGrows ==
  ASSUME NEW P, NEW p, NEW name, NEW g, NEW vis
  PROVE  /\ Mentions(p, name, g, vis) =>
              AskedIn(P \cup {p}, name, g, vis) = AskedIn(P, name, g, vis) \cup {p}
         /\ ~Mentions(p, name, g, vis) =>
              AskedIn(P \cup {p}, name, g, vis) = AskedIn(P, name, g, vis)
BY DEF AskedIn

(* A place behind all others has the last word on the offer it names.       *)
LEMMA WantedGrows ==
  ASSUME NEW P \in SUBSET (Nat \X Nat), NEW p \in Nat \X Nat, \A q \in P : Before(q, p),
         NEW name, NEW g, NEW vis, NEW initial
  PROVE  /\ ~Mentions(p, name, g, vis) =>
              /\ AskedIn(P \cup {p}, name, g, vis) = AskedIn(P, name, g, vis)
              /\ WantedIn(P \cup {p}, name, g, vis, initial)
                   <=> WantedIn(P, name, g, vis, initial)
         /\ Mentions(p, name, g, vis) =>
              /\ AskedIn(P \cup {p}, name, g, vis) # {}
              /\ Last(AskedIn(P \cup {p}, name, g, vis)) = p
              /\ WantedIn(P \cup {p}, name, g, vis, initial) <=> AddedAt(p, vis)
<1>1. ASSUME ~Mentions(p, name, g, vis)
      PROVE  /\ AskedIn(P \cup {p}, name, g, vis) = AskedIn(P, name, g, vis)
             /\ WantedIn(P \cup {p}, name, g, vis, initial)
                  <=> WantedIn(P, name, g, vis, initial)
  <2>1. AskedIn(P \cup {p}, name, g, vis) = AskedIn(P, name, g, vis)
    BY ONLY <1>1, AskedGrows
  <2> QED
    BY <2>1 DEF WantedIn
<1>2. ASSUME Mentions(p, name, g, vis)
      PROVE  /\ p \in AskedIn(P \cup {p}, name, g, vis)
             /\ Last(AskedIn(P \cup {p}, name, g, vis)) = p
  <2>1. AskedIn(P \cup {p}, name, g, vis) = AskedIn(P, name, g, vis) \cup {p}
    BY <1>2, AskedGrows
  <2>2. AskedIn(P, name, g, vis) \in SUBSET (Nat \X Nat)
        /\ \A q \in AskedIn(P, name, g, vis) : Before(q, p)
    BY DEF AskedIn
  <2>3. Last(AskedIn(P, name, g, vis) \cup {p}) = p
    BY <2>2, LastAdded
  <2> QED
    BY <2>1, <2>3
<1>3. ASSUME Mentions(p, name, g, vis)
      PROVE  WantedIn(P \cup {p}, name, g, vis, initial) <=> AddedAt(p, vis)
  BY <1>2, <1>3 DEF WantedIn
<1> QED
  BY <1>1, <1>2, <1>3

(* One more id entered among the offers.                                    *)
LEMMA OfferEntered ==
  ASSUME NEW P \in SUBSET (Nat \X Nat), NEW i \in Nat, NEW j \in Nat,
         \A q \in P : Before(q, <<i, j>>),
         NEW vis, NEW past, NEW offers, OffersAre(offers, P, vis, past),
         vis[i].account # NoAccount,
         NEW id, id = vis[i].ids[j], NEW guid, guid = <<id.offer, vis[i].account>>
  PROVE  LET after == IF Type(id) = "exclude_advertizer" THEN offers
                      ELSE IF Action(id) = "add"
                      THEN Put(offers, guid, [until |-> i + vis[i].ttl, at |-> i])
                      ELSE Drop(offers, guid)
         IN  OffersAre(after, P \cup {<<i, j>>}, vis, past)
<1> DEFINE p == <<i, j>>
           name == "retargeting"
           Q == P \cup {p}
           after == IF Type(id) = "exclude_advertizer" THEN offers
                    ELSE IF Action(id) = "add"
                    THEN Put(offers, guid, [until |-> i + vis[i].ttl, at |-> i])
                    ELSE Drop(offers, guid)
<1>0. \A q \in P : Before(q, p)
  OBVIOUS
<1>1. p \in Nat \X Nat /\ p[1] = i /\ p[2] = j
  OBVIOUS
<1>2. \A g : Mentions(p, name, g, vis) <=> g = guid /\ Type(id) = "retargeting"
  BY <1>1 DEF Mentions
<1>3. AddedAt(p, vis) <=> Action(id) = "add"
  BY <1>1 DEF AddedAt
<1>4. OfferOf(p, vis) = [until |-> i + vis[i].ttl, at |-> i]
  BY <1>1 DEF OfferOf
<1>5. Type(id) = "retargeting" <=> Type(id) # "exclude_advertizer"
  BY DEF Type
<1>6. /\ Type(id) = "exclude_advertizer" => after = offers
      /\ Type(id) = "retargeting" =>
           /\ \A g : g # guid => /\ g \in DOMAIN after <=> g \in DOMAIN offers
                                 /\ g \in DOMAIN after => after[g] = offers[g]
           /\ guid \in DOMAIN after <=> Action(id) = "add"
           /\ Action(id) = "add" => after[guid] = OfferOf(p, vis)
  BY <1>4, <1>5 DEF Put, Drop
<1> HIDE DEF p, after
<1>7. ASSUME NEW g \in Guids
      PROVE  LET asked == AskedIn(Q, name, g, vis) IN
             /\ g \in DOMAIN after <=> WantedIn(Q, name, g, vis, DOMAIN past)
             /\ g \in DOMAIN after =>
                  after[g] = IF asked = {} THEN past[g] ELSE OfferOf(Last(asked), vis)
  <2>1. CASE Mentions(p, name, g, vis)
    <3>1. g = guid /\ Type(id) = "retargeting"
      BY <1>2, <2>1
    <3>2. /\ AskedIn(Q, name, g, vis) # {} /\ Last(AskedIn(Q, name, g, vis)) = p
          /\ WantedIn(Q, name, g, vis, DOMAIN past) <=> AddedAt(p, vis)
      <4> HIDE DEF name
      <4>1. P \in SUBSET (Nat \X Nat)
        OBVIOUS
      <4> QED
        BY ONLY <4>1, <1>0, <1>1, <2>1, WantedGrows DEF Q
    <3> QED
      BY <1>3, <1>6, <3>1, <3>2
  <2>2. CASE ~Mentions(p, name, g, vis)
    <3>1. /\ AskedIn(Q, name, g, vis) = AskedIn(P, name, g, vis)
          /\ WantedIn(Q, name, g, vis, DOMAIN past)
                <=> WantedIn(P, name, g, vis, DOMAIN past)
      <4> HIDE DEF name
      <4> QED
        BY <1>0, <1>1, <2>2, WantedGrows DEF Q
    <3>2. /\ g \in DOMAIN after <=> g \in DOMAIN offers
          /\ g \in DOMAIN after => after[g] = offers[g]
      <4>1. CASE Type(id) = "exclude_advertizer"
        BY <1>6, <4>1
      <4>2. CASE Type(id) # "exclude_advertizer"
        <5>1. Type(id) = "retargeting" /\ g # guid
          BY <1>2, <1>5, <2>2, <4>2
        <5> HIDE DEF name, Q
        <5> QED
          BY ONLY <1>6, <5>1
      <4> QED
        BY <4>1, <4>2
    <3> QED
      BY <3>1, <3>2 DEF OffersAre
  <2> QED
    BY <2>1, <2>2
<1> QED
  BY <1>7 DEF OffersAre, p, after

(* A queue without repetition is no longer than the set of what is in it.   *)
LEMMA QueueFits ==
  ASSUME NEW queue, NEW T, queue \in Seq(T), OnceEach(queue),
         NEW K, IsFiniteSet(K), \A k \in DOMAIN queue : queue[k] \in K
  PROVE  Cardinality(K) >= Len(queue)
<1>1. Len(queue) \in Nat /\ DOMAIN queue = 1 .. Len(queue)
  OBVIOUS
<1>2. queue \in Injection(1 .. Len(queue), K)
  <2>1. queue \in [1 .. Len(queue) -> K]
    BY <1>1
  <2> QED
    BY <1>1, <2>1 DEF OnceEach, Injection, IsInjective
<1>3. Cardinality(1 .. Len(queue)) <= Cardinality(K)
  BY <1>2, FS_Injection
<1>4. Cardinality(1 .. Len(queue)) = Len(queue)
  <2>1. Cardinality(1 .. Len(queue)) = IF 1 > Len(queue) THEN 0 ELSE Len(queue) - 1 + 1
    BY <1>1, FS_Interval
  <2> QED
    BY <1>1, <2>1
<1>5. Cardinality(K) \in Nat
  BY FS_CardinalityType
<1> QED
  BY <1>1, <1>3, <1>4, <1>5

(* An offer pushed onto a full queue pushes out the one in front.           *)
LEMMA AddToQueueMembers ==
  ASSUME NEW queue, queue \in Seq(Guids), Len(queue) <= QueueSize, NEW guid
  PROVE  LET q == AddToQueue(queue, guid) IN
         /\ InQueue(q, guid)
         /\ \A h : InQueue(q, h) => InQueue(queue, h) \/ h = guid
         /\ \A h : InQueue(queue, h) /\ ~InQueue(q, h) =>
                     Len(queue) = QueueSize /\ Len(q) = QueueSize
<1> DEFINE q == AddToQueue(queue, guid)
<1>0. QueueSize \in Nat /\ QueueSize > 0
  BY VisitorHistoryAssumption
<1>1. /\ QueueSize \in Nat /\ QueueSize > 0 /\ Len(queue) \in Nat
      /\ DOMAIN queue = 1 .. Len(queue) /\ Len(queue) <= QueueSize
  BY <1>0
<1>2. CASE InQueue(queue, guid)
  BY <1>2 DEF AddToQueue
<1>3. CASE ~InQueue(queue, guid)
  <2> DEFINE r == Append(queue, guid)
  <2>1. /\ r \in Seq(Guids \cup {guid}) /\ Len(r) = Len(queue) + 1
        /\ DOMAIN r = 1 .. Len(queue) + 1
        /\ \A k \in 1 .. Len(queue) : r[k] = queue[k]
        /\ r[Len(queue) + 1] = guid
    <3>1. queue \in Seq(Guids \cup {guid}) /\ guid \in Guids \cup {guid}
      OBVIOUS
    <3> DEFINE G == Guids \cup {guid}
    <3> HIDE DEF G
    <3>2. queue \in Seq(G) /\ guid \in G
      BY <3>1 DEF G
    <3>3. r \in Seq(G) /\ Len(r) = Len(queue) + 1
          /\ DOMAIN r = 1 .. Len(queue) + 1
          /\ \A k \in 1 .. Len(queue) : r[k] = queue[k]
          /\ r[Len(queue) + 1] = guid
      BY <1>1, <3>2
    <3> QED
      BY <3>3 DEF G
  <2> HIDE DEF r
  <2>2. CASE Len(queue) < QueueSize
    <3>1. q = r
      BY <1>3, <2>2 DEF AddToQueue, r
    <3>2. InQueue(q, guid)
      BY <1>1, <2>1, <3>1 DEF InQueue
    <3>3. ASSUME NEW h, InQueue(q, h) PROVE InQueue(queue, h) \/ h = guid
      <4>1. PICK k \in 1 .. Len(queue) + 1 : r[k] = h
        BY <2>1, <3>1, <3>3 DEF InQueue
      <4>2. k \in 1 .. Len(queue) \/ k = Len(queue) + 1
        BY <1>1
      <4> QED
        BY <1>1, <2>1, <4>1, <4>2 DEF InQueue
    <3>4. ASSUME NEW h, InQueue(queue, h) PROVE InQueue(q, h)
      <4>1. PICK k \in 1 .. Len(queue) : queue[k] = h
        BY <1>1, <3>4 DEF InQueue
      <4>2. k \in 1 .. Len(queue) + 1
        BY <1>1
      <4> QED
        BY <2>1, <3>1, <4>1, <4>2 DEF InQueue
    <3> HIDE DEF q
    <3> QED
      BY <3>2, <3>3, <3>4 DEF q
  <2>3. CASE Len(queue) = QueueSize
    <3>1. q = Tail(r) /\ Len(queue) = QueueSize
      <4>1. ~(Len(queue) < QueueSize)
        BY <1>1, <2>3
      <4> QED
        BY <1>3, <2>3, <4>1, Zenon DEF AddToQueue, r
    <3>2. /\ Len(Tail(r)) = Len(queue) /\ DOMAIN Tail(r) = 1 .. Len(queue)
          /\ \A k \in 1 .. Len(queue) : Tail(r)[k] = r[k + 1]
      <4>1. r \in Seq(Guids \cup {guid}) /\ Len(r) \in Nat /\ Len(r) # 0
            /\ Len(r) - 1 = Len(queue)
        BY <1>1, <2>1
      <4> DEFINE G == Guids \cup {guid}
      <4> HIDE DEF G
      <4>2. r \in Seq(G)
        BY <4>1 DEF G
      <4>3. Len(Tail(r)) = Len(r) - 1 /\ Tail(r) \in Seq(G)
        BY <4>1, <4>2
      <4>4. \A k \in 1 .. Len(r) - 1 : Tail(r)[k] = r[k + 1]
        BY <4>1, <4>2
      <4> QED
        BY <4>1, <4>3, <4>4
    <3>3. InQueue(q, guid)
      <4>1. Len(queue) \in 1 .. Len(queue)
        BY <1>1, <3>1
      <4> QED
        BY <2>1, <3>1, <3>2, <4>1 DEF InQueue
    <3>4. ASSUME NEW h, InQueue(q, h) PROVE InQueue(queue, h) \/ h = guid
      <4>1. PICK k \in 1 .. Len(queue) : r[k + 1] = h
        BY <3>1, <3>2, <3>4 DEF InQueue
      <4>2. k + 1 \in 1 .. Len(queue) \/ k + 1 = Len(queue) + 1
        BY <1>1
      <4> QED
        BY <1>1, <2>1, <4>1, <4>2 DEF InQueue
    <3>5. Len(queue) = QueueSize /\ Len(q) = QueueSize
      BY <3>1, <3>2
    <3> HIDE DEF q
    <3> QED
      BY <3>3, <3>4, <3>5 DEF q
  <2>4. Len(queue) < QueueSize \/ Len(queue) = QueueSize
    <3> DEFINE n == Len(queue)
    <3>1. n \in Nat /\ QueueSize \in Nat /\ n <= QueueSize
      BY <1>1
    <3> HIDE DEF n
    <3>2. n < QueueSize \/ n = QueueSize
      BY <3>1
    <3> QED
      BY <3>2 DEF n
  <2> HIDE DEF q
  <2> QED
    BY <2>2, <2>3, <2>4 DEF q
<1> QED
  BY <1>2, <1>3

(* Taking an offer out takes out nothing else.                              *)
LEMMA RemoveFromQueueMembers ==
  ASSUME NEW queue, queue \in Seq(Guids), OnceEach(queue), NEW guid, NEW h
  PROVE  InQueue(RemoveFromQueue(queue, guid), h) <=> InQueue(queue, h) /\ h # guid
<1> DEFINE q == RemoveFromQueue(queue, guid)
<1>1. Len(queue) \in Nat /\ DOMAIN queue = 1 .. Len(queue)
      /\ \A i, j \in 1 .. Len(queue) : queue[i] = queue[j] => i = j
  BY DEF OnceEach
<1>2. CASE ~InQueue(queue, guid)
  BY <1>2 DEF RemoveFromQueue
<1>3. CASE InQueue(queue, guid)
  <2> DEFINE at == CHOOSE i \in DOMAIN queue :
                     /\ queue[i] = guid
                     /\ \A j \in DOMAIN queue : queue[j] = guid => i <= j
  <2>1. at \in 1 .. Len(queue) /\ queue[at] = guid
    <3>1. PICK i \in 1 .. Len(queue) : queue[i] = guid
      BY <1>1, <1>3 DEF InQueue
    <3>2. \A j \in DOMAIN queue : queue[j] = guid => i <= j
      BY <1>1, <3>1
    <3> QED
      BY <1>1, <3>1, <3>2
  <2>2. q = [i \in 1 .. Len(queue) - 1 |-> IF i < at THEN queue[i] ELSE queue[i + 1]]
    BY <1>3 DEF RemoveFromQueue
  <2> HIDE DEF at, q
  <2>3. ASSUME InQueue(q, h) PROVE InQueue(queue, h) /\ h # guid
    <3>1. PICK i \in 1 .. Len(queue) - 1 : q[i] = h
      BY <2>2, <2>3 DEF InQueue
    <3>2. PICK k \in 1 .. Len(queue) : k # at /\ queue[k] = h
      <4>1. i \in 1 .. Len(queue) /\ i + 1 \in 1 .. Len(queue)
        BY <1>1
      <4>2. CASE i < at
        BY <2>1, <2>2, <3>1, <4>1, <4>2
      <4>3. CASE ~(i < at)
        BY <2>1, <2>2, <3>1, <4>1, <4>3
      <4> QED
        BY <4>2, <4>3
    <3> QED
      BY <1>1, <2>1, <3>2 DEF InQueue
  <2>4. ASSUME InQueue(queue, h), h # guid PROVE InQueue(q, h)
    <3>1. PICK k \in 1 .. Len(queue) : queue[k] = h
      BY <1>1, <2>4 DEF InQueue
    <3>2. k # at
      BY <2>1, <2>4, <3>1
    <3>3. CASE k < at
      <4>1. k \in 1 .. Len(queue) - 1
        BY <1>1, <2>1, <3>3
      <4>2. q[k] = h
        BY <2>2, <3>1, <3>3, <4>1
      <4> QED
        BY <2>2, <4>1, <4>2 DEF InQueue
    <3>4. CASE at < k
      <4>1. k - 1 \in 1 .. Len(queue) - 1 /\ ~(k - 1 < at) /\ (k - 1) + 1 = k
        BY <1>1, <2>1, <3>4
      <4>2. q[k - 1] = h
        BY <2>2, <3>1, <4>1
      <4> QED
        BY <2>2, <4>1, <4>2 DEF InQueue
    <3> QED
      BY <1>1, <2>1, <3>2, <3>3, <3>4
  <2> QED
    BY <2>3, <2>4 DEF q
<1> QED
  BY <1>2, <1>3

(* One more id entered in the queue.                                        *)
LEMMA QueueEntered ==
  ASSUME NEW P \in SUBSET (Nat \X Nat), NEW i \in Nat, NEW j \in Nat,
         \A q \in P : Before(q, <<i, j>>),
         NEW vis, NEW S, NEW queue, QueueOK(queue, S, vis), QueueIs(queue, P, vis),
         vis[i].account # NoAccount,
         NEW id, id = vis[i].ids[j], NEW guid \in Guids, guid = <<id.offer, vis[i].account>>
  PROVE  LET after == IF Type(id) # "exclude_advertizer" THEN queue
                      ELSE IF Action(id) = "add" THEN AddToQueue(queue, guid)
                      ELSE RemoveFromQueue(queue, guid)
         IN  QueueOK(after, S, vis) => QueueIs(after, P \cup {<<i, j>>}, vis)
<1> DEFINE p == <<i, j>>
           name == "exclude_advertizer"
           Q == P \cup {p}
           after == IF Type(id) # "exclude_advertizer" THEN queue
                    ELSE IF Action(id) = "add" THEN AddToQueue(queue, guid)
                    ELSE RemoveFromQueue(queue, guid)
           K == Known(P, vis)
           L == Known(Q, vis)
<1>0. \A q \in P : Before(q, p)
  OBVIOUS
<1>1. p \in Nat \X Nat /\ p[1] = i /\ p[2] = j /\ P \in SUBSET (Nat \X Nat)
  OBVIOUS
<1>2. \A h : Mentions(p, name, h, vis) <=> h = guid /\ Type(id) = "exclude_advertizer"
  BY <1>1 DEF Mentions
<1>3. AddedAt(p, vis) <=> Action(id) = "add"
  BY <1>1 DEF AddedAt
<1>4. /\ queue \in Seq(Guids) /\ OnceEach(queue) /\ Len(queue) <= QueueSize
      /\ Len(queue) \in Nat
  BY DEF QueueOK
<1> HIDE DEF p
<1>5. L = IF Type(id) = "exclude_advertizer" /\ Action(id) = "add" THEN K \cup {guid} ELSE K
  <2> HIDE DEF name
  <2>1. \A h : /\ h = guid /\ Type(id) = "exclude_advertizer" =>
                    AskedIn(Q, name, h, vis) = AskedIn(P, name, h, vis) \cup {p}
               /\ ~(h = guid /\ Type(id) = "exclude_advertizer") =>
                    AskedIn(Q, name, h, vis) = AskedIn(P, name, h, vis)
    <3> TAKE h
    <3>1. Mentions(p, name, h, vis) <=> h = guid /\ Type(id) = "exclude_advertizer"
      BY <1>2
    <3> QED
      BY ONLY <3>1, AskedGrows DEF Q
  <2>2. \A X : Known(X, vis) = {h \in Guids : \/ h \in PastQueue
                                              \/ \E x \in AskedIn(X, name, h, vis) :
                                                   AddedAt(x, vis)}
    BY DEF Known, name
  <2> HIDE DEF Q
  <2>3. \A h \in Guids : h \in L <=> h \in K \/ (/\ h = guid /\ Action(id) = "add"
                                                 /\ Type(id) = "exclude_advertizer")
    <3> TAKE h \in Guids
    <3>1. CASE h = guid /\ Type(id) = "exclude_advertizer"
      <4>1. AskedIn(Q, name, h, vis) = AskedIn(P, name, h, vis) \cup {p}
        BY <2>1, <3>1
      <4> QED
        BY <1>3, <2>2, <3>1, <4>1
    <3>2. CASE ~(h = guid /\ Type(id) = "exclude_advertizer")
      <4>1. AskedIn(Q, name, h, vis) = AskedIn(P, name, h, vis)
        BY <2>1, <3>2
      <4> QED
        BY <2>2, <3>2, <4>1
    <3> QED
      BY <3>1, <3>2
  <2>4. K \subseteq Guids /\ L \subseteq Guids
    BY <2>2
  <2> HIDE DEF K, L
  <2> QED
    BY <2>3, <2>4
<1>6. /\ IsFiniteSet(K) /\ \A k \in DOMAIN queue : queue[k] \in K
      /\ \A g \in Guids : /\ InQueue(queue, g) => Excluded(P, g, vis)
                          /\ Excluded(P, g, vis) /\ ~InQueue(queue, g)
                               => Cardinality(K \ {g}) >= QueueSize
  BY DEF QueueIs
<1>7. \A g \in Guids :
        Excluded(Q, g, vis) <=> IF g = guid /\ Type(id) = "exclude_advertizer"
                                THEN Action(id) = "add" ELSE Excluded(P, g, vis)
  <2> TAKE g \in Guids
  <2> HIDE DEF name
  <2>1. \A X : Excluded(X, g, vis) <=> WantedIn(X, name, g, vis, PastQueue)
    BY DEF Excluded, name
  <2>2. Mentions(p, name, g, vis) <=> g = guid /\ Type(id) = "exclude_advertizer"
    BY <1>2
  <2>3. /\ ~Mentions(p, name, g, vis) =>
             (WantedIn(Q, name, g, vis, PastQueue) <=> WantedIn(P, name, g, vis, PastQueue))
        /\ Mentions(p, name, g, vis) =>
             (WantedIn(Q, name, g, vis, PastQueue) <=> AddedAt(p, vis))
    BY ONLY <1>0, <1>1, WantedGrows DEF Q
  <2> HIDE DEF Q
  <2> QED
    BY <1>3, <2>1, <2>2, <2>3
<1>8. /\ IsFiniteSet(L) /\ K \subseteq L /\ guid \in Guids
      /\ \A g : /\ IsFiniteSet(L \ {g}) /\ Cardinality(L \ {g}) \in Nat
                /\ Cardinality(K \ {g}) \in Nat
                /\ Cardinality(K \ {g}) <= Cardinality(L \ {g})
  <2> HIDE DEF K, L
  <2>1. IsFiniteSet(L) /\ K \subseteq L
    BY <1>5, <1>6, FS_AddElement
  <2>2. ASSUME NEW g PROVE /\ IsFiniteSet(L \ {g}) /\ Cardinality(L \ {g}) \in Nat
                           /\ Cardinality(K \ {g}) \in Nat
                           /\ Cardinality(K \ {g}) <= Cardinality(L \ {g})
    <3>1. IsFiniteSet(L \ {g}) /\ IsFiniteSet(K \ {g})
      BY <1>6, <2>1, FS_RemoveElement
    <3>2. K \ {g} \in SUBSET (L \ {g})
      BY <2>1
    <3> QED
      BY <3>1, <3>2, FS_Subset, FS_CardinalityType
  <2> QED
    BY <2>1, <2>2
<1> SUFFICES ASSUME QueueOK(after, S, vis) PROVE QueueIs(after, Q, vis)
  BY DEF p
<1>9. after \in Seq(Guids) /\ OnceEach(after) /\ DOMAIN after = 1 .. Len(after)
  BY DEF QueueOK
<1> HIDE DEF K, L, Q
<1>10. QueueIs(after, Q, vis) <=>
         /\ \A k \in DOMAIN after : after[k] \in L
         /\ \A g \in Guids : /\ InQueue(after, g) => Excluded(Q, g, vis)
                             /\ Excluded(Q, g, vis) /\ ~InQueue(after, g)
                                  => Cardinality(L \ {g}) >= QueueSize
  <2> HIDE DEF after
  <2> QED
    BY <1>8 DEF QueueIs, L
<1>11. QueueSize \in Nat
  BY VisitorHistoryAssumption
<1>12. CASE Type(id) # "exclude_advertizer"
  <2>1. after = queue
    BY <1>12
  <2> HIDE DEF after
  <2> QED
    BY <1>5, <1>6, <1>7, <1>10, <1>12, <2>1
<1>13. CASE Type(id) = "exclude_advertizer" /\ Action(id) = "add"
  <2>1. after = AddToQueue(queue, guid)
    BY <1>13
  <2> HIDE DEF after
  <2>2. /\ InQueue(after, guid)
        /\ \A h : InQueue(after, h) => InQueue(queue, h) \/ h = guid
        /\ \A h : InQueue(queue, h) /\ ~InQueue(after, h) =>
                    Len(queue) = QueueSize /\ Len(after) = QueueSize
    BY <1>4, <2>1, AddToQueueMembers
  <2>3. \A k \in DOMAIN after : after[k] \in L
    <3> TAKE k \in DOMAIN after
    <3>1. InQueue(queue, after[k]) \/ after[k] = guid
      BY <2>2 DEF InQueue
    <3> QED
      BY <1>5, <1>6, <1>13, <3>1 DEF InQueue
  <2>4. ASSUME NEW g \in Guids, InQueue(after, g) PROVE Excluded(Q, g, vis)
    BY <1>6, <1>7, <1>13, <2>2, <2>4
  <2>5. ASSUME NEW g \in Guids, Excluded(Q, g, vis), ~InQueue(after, g)
        PROVE  Cardinality(L \ {g}) >= QueueSize
    <3>1. g # guid /\ Excluded(P, g, vis)
      BY <1>7, <2>2, <2>5
    <3>2. CASE InQueue(queue, g)
      <4>1. Len(after) = QueueSize
        BY <2>2, <2>5, <3>2
      <4>2. \A k \in DOMAIN after : after[k] \in L \ {g}
        BY <2>3, <2>5 DEF InQueue
      <4>3. Cardinality(L \ {g}) >= Len(after)
        BY <1>8, <1>9, <4>2, QueueFits
      <4> QED
        BY <4>1, <4>3
    <3>3. CASE ~InQueue(queue, g)
      <4>1. Cardinality(K \ {g}) >= QueueSize
        BY <1>6, <3>1, <3>3
      <4>2. Cardinality(L \ {g}) \in Nat /\ Cardinality(K \ {g}) \in Nat
            /\ Cardinality(K \ {g}) <= Cardinality(L \ {g})
        BY <1>8
      <4> QED
        BY ONLY <1>11, <4>1, <4>2
    <3> QED
      BY <3>2, <3>3
  <2> QED
    BY <1>10, <2>3, <2>4, <2>5
<1>14. CASE Type(id) = "exclude_advertizer" /\ Action(id) # "add"
  <2>1. after = RemoveFromQueue(queue, guid)
    BY <1>14
  <2> HIDE DEF after
  <2>2. \A h : InQueue(after, h) <=> InQueue(queue, h) /\ h # guid
    BY <1>4, <2>1, RemoveFromQueueMembers
  <2>3. L = K
    BY <1>5, <1>14
  <2>4. \A k \in DOMAIN after : after[k] \in L
    <3> TAKE k \in DOMAIN after
    <3>1. InQueue(queue, after[k])
      BY <2>2 DEF InQueue
    <3> QED
      BY <1>6, <2>3, <3>1 DEF InQueue
  <2>5. \A g \in Guids : /\ InQueue(after, g) => Excluded(Q, g, vis)
                         /\ Excluded(Q, g, vis) /\ ~InQueue(after, g)
                              => Cardinality(L \ {g}) >= QueueSize
    BY <1>6, <1>7, <1>14, <2>2, <2>3
  <2> QED
    BY <1>10, <2>4, <2>5
<1> QED
  BY <1>12, <1>13, <1>14 DEF p, Q

(* The places of a visit that comes behind the others, id by id.            *)
UptoId(S, now, k, vis) == PlacesOf(S, vis) \cup ({now} \X (1 .. k))

LEMMA PlacesStart ==
  ASSUME NEW S, NEW now, NEW vis
  PROVE  UptoId(S, now, 0, vis) = PlacesOf(S, vis)
<1>1. {now} \X (1 .. 0) = {}
  OBVIOUS
<1> QED
  BY <1>1 DEF UptoId

LEMMA PlacesNext ==
  ASSUME NEW S, NEW now, NEW vis, NEW k \in Nat, k > 0
  PROVE  UptoId(S, now, k - 1, vis) \cup {<<now, k>>} = UptoId(S, now, k, vis)
<1>1. 1 .. k = (1 .. k - 1) \cup {k}
  OBVIOUS
<1>2. \A X, Y : Y = X \cup {k} => ({now} \X X) \cup {<<now, k>>} = {now} \X Y
  OBVIOUS
<1>3. ({now} \X (1 .. k - 1)) \cup {<<now, k>>} = {now} \X (1 .. k)
  BY ONLY <1>1, <1>2
<1> QED
  BY <1>3 DEF UptoId

LEMMA PlacesEnd ==
  ASSUME NEW S, NEW now, NEW vis, NEW n, DOMAIN vis[now].ids = 1 .. n
  PROVE  UptoId(S, now, n, vis) = PlacesOf(S \cup {now}, vis)
BY DEF UptoId, PlacesOf

LEMMA IdsTyped ==
  ASSUME NEW v \in Visits
  PROVE  Len(v.ids) \in Nat /\ DOMAIN v.ids = 1 .. Len(v.ids)
<1>1. v.ids \in Seq({v.ids[j] : j \in DOMAIN v.ids})
  BY VisitorHistoryAssumption
<1> DEFINE ids == v.ids
           T == {v.ids[j] : j \in DOMAIN v.ids}
<1>2. ids \in Seq(T)
  BY <1>1
<1> HIDE DEF ids, T
<1>3. Len(ids) \in Nat /\ DOMAIN ids = 1 .. Len(ids)
  BY <1>2
<1> QED
  BY <1>3 DEF ids

LEMMA PlacesBefore ==
  ASSUME NEW now \in Nat, NEW vis, \A i \in 1 .. now : vis[i] \in Visits,
         NEW S, S \subseteq 1 .. now - 1, NEW k \in Nat, k > 0
  PROVE  /\ UptoId(S, now, k - 1, vis) \in SUBSET (Nat \X Nat)
         /\ \A q \in UptoId(S, now, k - 1, vis) : Before(q, <<now, k>>)
<1>1. \A q \in PlacesOf(S, vis) : q \in Nat \X Nat /\ q[1] < now
  <2> TAKE q \in PlacesOf(S, vis)
  <2>1. PICK i \in S : q \in {i} \X DOMAIN vis[i].ids
    BY DEF PlacesOf
  <2>2. i \in 1 .. now /\ i \in Nat /\ i < now
    OBVIOUS
  <2>3. DOMAIN vis[i].ids \subseteq Nat
    BY <2>2, IdsTyped
  <2> QED
    BY <2>1, <2>2, <2>3
<1>2. \A q \in {now} \X (1 .. k - 1) : q \in Nat \X Nat /\ q[1] = now /\ q[2] < k
  OBVIOUS
<1>3. UptoId(S, now, k - 1, vis) \in SUBSET (Nat \X Nat)
  BY <1>1, <1>2 DEF UptoId
<1>4. ASSUME NEW q \in UptoId(S, now, k - 1, vis) PROVE Before(q, <<now, k>>)
  <2> DEFINE p == <<now, k>>
  <2>1. p[1] = now /\ p[2] = k
    OBVIOUS
  <2>2. q[1] < now \/ (q[1] = now /\ q[2] < k)
    BY <1>1, <1>2 DEF UptoId
  <2>3. q[2] \in Nat
    BY <1>3
  <2> HIDE DEF p
  <2>4. Before(q, p)
    BY <2>1, <2>2, <2>3 DEF Before
  <2> QED
    BY <2>4 DEF p
<1> QED
  BY <1>3, <1>4

(* One id of a visit entered.                                               *)
LEMMA IdEntered ==
  ASSUME NEW m, NEW memory, NEW B, NEW vis, NEW now \in Nat, NEW k \in Nat,
         \A n \in {"retargeting", "exclude_advertizer"} : now \in B[n],
         vis[now] \in Visits, vis[now].account # NoAccount,
         k \in DOMAIN vis[now].ids, MemoryOK(m, memory, B, vis),
         NEW R \in SUBSET (Nat \X Nat), \A q \in R : Before(q, <<now, k>>),
         NEW X \in SUBSET (Nat \X Nat), \A q \in X : Before(q, <<now, k>>),
         NEW past, OffersAre(m.retargeting, R, vis, past),
         QueueIs(m.exclude_advertizer, X, vis)
  PROVE  LET r == EnterId(m, vis[now], vis[now].ids[k], now) IN
         /\ OffersAre(r.retargeting, R \cup {<<now, k>>}, vis, past)
         /\ QueueIs(r.exclude_advertizer, X \cup {<<now, k>>}, vis)
<1> DEFINE v == vis[now]
           id == v.ids[k]
           guid == <<id.offer, v.account>>
           r == EnterId(m, v, id, now)
           offers == m.retargeting
           queue == m.exclude_advertizer
           newOffers == IF Type(id) = "exclude_advertizer" THEN offers
                        ELSE IF Action(id) = "add"
                        THEN Put(offers, guid, [until |-> now + v.ttl, at |-> now])
                        ELSE Drop(offers, guid)
           newQueue == IF Type(id) # "exclude_advertizer" THEN queue
                       ELSE IF Action(id) = "add" THEN AddToQueue(queue, guid)
                       ELSE RemoveFromQueue(queue, guid)
<1>1. guid \in Guids
  BY DEF Guids
<1>2. QueueOK(queue, B["exclude_advertizer"], vis)
      /\ QueueOK(r.exclude_advertizer, B["exclude_advertizer"], vis)
  <2>1. MemoryOK(r, memory, B, vis)
    BY EnterIdOK
  <2> QED
    BY <2>1 DEF MemoryOK
<1>3. r.retargeting = newOffers /\ r.exclude_advertizer = newQueue
  <2>1. DOMAIN m = Names /\ "retargeting" \in Names /\ "exclude_advertizer" \in Names
    BY NamesKnown DEF MemoryOK
  <2> HIDE DEF guid, v, id
  <2>2. CASE Type(id) = "exclude_advertizer"
    <3> DEFINE q == IF Action(id) = "add" THEN AddToQueue(queue, guid)
                    ELSE RemoveFromQueue(queue, guid)
    <3>1. r = [m EXCEPT !.exclude_advertizer = q]
      BY <2>2 DEF EnterId, guid
    <3> HIDE DEF q, r
    <3>2. r.retargeting = m.retargeting /\ r.exclude_advertizer = q
      BY <2>1, <3>1
    <3> QED
      BY <2>2, <3>2 DEF q
  <2>3. CASE Type(id) # "exclude_advertizer"
    <3> DEFINE o == IF Action(id) = "add"
                    THEN Put(offers, guid, [until |-> now + v.ttl, at |-> now])
                    ELSE Drop(offers, guid)
    <3>1. r = [m EXCEPT !.retargeting = o]
      BY <2>3 DEF EnterId, guid
    <3> HIDE DEF o, r
    <3>2. r.retargeting = o /\ r.exclude_advertizer = m.exclude_advertizer
      BY <2>1, <3>1
    <3> QED
      BY <2>3, <3>2 DEF o
  <2> QED
    BY <2>2, <2>3
<1>4. OffersAre(newOffers, R \cup {<<now, k>>}, vis, past)
  <2> HIDE DEF offers, queue, newQueue, r
  <2>1. OffersAre(offers, R, vis, past)
    BY DEF offers
  <2> QED
    BY <2>1, OfferEntered
<1>5. QueueOK(newQueue, B["exclude_advertizer"], vis)
        => QueueIs(newQueue, X \cup {<<now, k>>}, vis)
  <2> DEFINE S == B["exclude_advertizer"]
  <2> HIDE DEF offers, queue, newOffers, r, S
  <2>1. QueueIs(queue, X, vis) /\ QueueOK(queue, S, vis)
    BY <1>2 DEF queue, S
  <2>2. QueueOK(newQueue, S, vis) => QueueIs(newQueue, X \cup {<<now, k>>}, vis)
    BY <1>1, <2>1, QueueEntered
  <2> QED
    BY <2>2 DEF S
<1> HIDE DEF r, newOffers, newQueue
<1> QED
  BY <1>2, <1>3, <1>4, <1>5 DEF r

(* All ids of a visit entered.                                              *)
LEMMA IdsEntered ==
  ASSUME NEW memory, NEW B, NEW vis, NEW now \in Nat, now > 0,
         \A n \in {"retargeting", "exclude_advertizer"} : now \in B[n],
         \A i \in 1 .. now : vis[i] \in Visits, vis[now].account # NoAccount,
         MemoryOK(memory, memory, B, vis),
         NEW R, R \subseteq 1 .. now - 1, NEW X, X \subseteq 1 .. now - 1,
         NEW past, OffersAre(memory.retargeting, PlacesOf(R, vis), vis, past),
         QueueIs(memory.exclude_advertizer, PlacesOf(X, vis), vis)
  PROVE  LET r == EnterIds(memory, vis[now], now) IN
         /\ OffersAre(r.retargeting, PlacesOf(R \cup {now}, vis), vis, past)
         /\ QueueIs(r.exclude_advertizer, PlacesOf(X \cup {now}, vis), vis)
<1> DEFINE n == Len(vis[now].ids)
           Good(m, k) == /\ MemoryOK(m, memory, B, vis)
                         /\ OffersAre(m.retargeting, UptoId(R, now, k, vis), vis, past)
                         /\ QueueIs(m.exclude_advertizer, UptoId(X, now, k, vis), vis)
<1>1. n \in Nat /\ DOMAIN vis[now].ids = 1 .. n /\ vis[now] \in Visits
  <2>1. vis[now] \in Visits
    OBVIOUS
  <2> QED
    BY <2>1, IdsTyped
<1>2. ASSUME NEW S, S \subseteq 1 .. now - 1
      PROVE  /\ UptoId(S, now, 0, vis) = PlacesOf(S, vis)
             /\ UptoId(S, now, n, vis) = PlacesOf(S \cup {now}, vis)
             /\ \A k \in 1 .. n :
                  /\ UptoId(S, now, k - 1, vis) \in SUBSET (Nat \X Nat)
                  /\ \A q \in UptoId(S, now, k - 1, vis) : Before(q, <<now, k>>)
                  /\ UptoId(S, now, k - 1, vis) \cup {<<now, k>>} = UptoId(S, now, k, vis)
  <2>1. UptoId(S, now, 0, vis) = PlacesOf(S, vis)
    BY PlacesStart
  <2>2. UptoId(S, now, n, vis) = PlacesOf(S \cup {now}, vis)
    BY <1>1, PlacesEnd
  <2>3. ASSUME NEW k \in 1 .. n
        PROVE  UptoId(S, now, k - 1, vis) \cup {<<now, k>>} = UptoId(S, now, k, vis)
    <3>1. k \in Nat /\ k > 0
      BY <1>1
    <3> QED
      BY <3>1, PlacesNext
  <2>4. ASSUME NEW k \in 1 .. n
        PROVE  /\ UptoId(S, now, k - 1, vis) \in SUBSET (Nat \X Nat)
               /\ \A q \in UptoId(S, now, k - 1, vis) : Before(q, <<now, k>>)
    <3>1. k \in Nat /\ k > 0
      BY <1>1
    <3> QED
      BY <1>2, <3>1, PlacesBefore
  <2> HIDE DEF n
  <2> QED
    BY <2>1, <2>2, <2>3, <2>4
<1>3. PICK f : /\ f[0] = memory
               /\ f[n] = EnterIds(memory, vis[now], now)
               /\ \A i \in 1 .. n : f[i] = EnterId(f[i - 1], vis[now], vis[now].ids[i], now)
  <2> DEFINE v == vis[now]
  <2> HIDE DEF v
  <2>1. Len(v.ids) \in Nat
    BY <1>1 DEF v
  <2>2. \E f : /\ f[0] = memory
               /\ f[Len(v.ids)] = EnterIds(memory, v, now)
               /\ \A i \in 1 .. Len(v.ids) : f[i] = EnterId(f[i - 1], v, v.ids[i], now)
    BY <2>1, EnterIdsSteps
  <2> QED
    BY <2>2 DEF v
<1>4. Good(memory, 0)
  <2>1. UptoId(R, now, 0, vis) = PlacesOf(R, vis) /\ UptoId(X, now, 0, vis) = PlacesOf(X, vis)
    BY <1>2
  <2> QED
    BY <2>1
<1>5. ASSUME NEW m, NEW k \in 1 .. n, Good(m, k - 1)
      PROVE  Good(EnterId(m, vis[now], vis[now].ids[k], now), k)
  <2> DEFINE r == EnterId(m, vis[now], vis[now].ids[k], now)
  <2>1. k \in Nat /\ k \in DOMAIN vis[now].ids /\ vis[now] \in Visits
    BY <1>1
  <2>2. \A S \in {R, X} : /\ UptoId(S, now, k - 1, vis) \in SUBSET (Nat \X Nat)
                          /\ \A q \in UptoId(S, now, k - 1, vis) : Before(q, <<now, k>>)
                          /\ UptoId(S, now, k - 1, vis) \cup {<<now, k>>} = UptoId(S, now, k, vis)
    <3> HIDE DEF n
    <3> QED
      BY <1>2
  <2> HIDE DEF n
  <2>3. MemoryOK(r, memory, B, vis)
    <3>1. MemoryOK(m, memory, B, vis) /\ now \in Int
      BY <1>5
    <3> QED
      BY <2>1, <3>1, EnterIdOK
  <2>4. /\ OffersAre(r.retargeting, UptoId(R, now, k - 1, vis) \cup {<<now, k>>}, vis, past)
        /\ QueueIs(r.exclude_advertizer, UptoId(X, now, k - 1, vis) \cup {<<now, k>>}, vis)
    BY <1>5, <2>1, <2>2, IdEntered
  <2> HIDE DEF r
  <2>5. Good(r, k)
    BY <2>2, <2>3, <2>4
  <2> QED
    BY <2>5 DEF r
<1> HIDE DEF Good
<1> DEFINE Bad == {k \in 0 .. n : ~Good(f[k], k)}
<1>6. ASSUME Bad # {} PROVE FALSE
  <2>1. Bad \in SUBSET Nat
    BY <1>1
  <2>2. PICK k \in Bad : \A j \in Bad : k <= j
    <3> HIDE DEF Bad
    <3> QED
      BY <1>6, <2>1, LeastExists
  <2>3. k \in 0 .. n /\ ~Good(f[k], k)
    OBVIOUS
  <2>4. k # 0
    BY <1>3, <1>4, <2>3
  <2>5. k \in 1 .. n /\ k - 1 \in 0 .. n
    BY <1>1, <2>3, <2>4
  <2>6. k - 1 \notin Bad
    <3> HIDE DEF Bad
    <3> QED
      BY <2>1, <2>2
  <2>7. Good(f[k - 1], k - 1)
    BY <2>5, <2>6
  <2>8. Good(EnterId(f[k - 1], vis[now], vis[now].ids[k], now), k)
    BY <1>5, <2>5, <2>7
  <2> HIDE DEF n
  <2> QED
    BY <1>3, <2>3, <2>5, <2>8
<1>7. Good(f[n], n)
  <2>1. n \in 0 .. n
    BY <1>1
  <2> HIDE DEF n
  <2> QED
    BY <1>6, <2>1
<1>8. /\ UptoId(R, now, n, vis) = PlacesOf(R \cup {now}, vis)
      /\ UptoId(X, now, n, vis) = PlacesOf(X \cup {now}, vis)
  BY <1>2
<1> HIDE DEF n
<1> QED
  BY <1>3, <1>7, <1>8 DEF Good

(* The first and the last of the visits, when one comes behind them.        *)
LEMMA TimeEntered ==
  ASSUME NEW name, NEW times, NEW now \in Nat, NEW S,
         S \subseteq 1 .. now - 1, NEW vis, TimesOK(name, times, S, vis),
         TimesAre(name, times, S, vis),
         NEW w \in Owners(name), \A who \in Owners(name) : Concerns(vis[now], who) <=> who = w
  PROVE  TimesAre(name, AddTime(times, w, now), S \cup {now}, vis)
<1> DEFINE r == AddTime(times, w, now)
           T == S \cup {now}
<1>1. \A who \in Owners(name) :
        ConcernedIn(T, who, vis) = IF who = w THEN ConcernedIn(S, who, vis) \cup {now}
                                   ELSE ConcernedIn(S, who, vis)
  BY DEF ConcernedIn
<1>2. \A who : \A i \in ConcernedIn(S, who, vis) : i \in Nat /\ i <= now
  BY DEF ConcernedIn
<1>3. \A who \in DOMAIN times : times[who] \in [first : Nat, last : Nat]
  BY DEF TimesOK
<1>4. /\ DOMAIN r = DOMAIN times \cup {w}
      /\ \A who \in DOMAIN times : who # w => r[who] = times[who]
      /\ r[w].last = now
      /\ r[w].first = IF w \in DOMAIN times THEN times[w].first ELSE now
  <2>1. CASE w \in DOMAIN times
    <3>1. r = [times EXCEPT ![w].last = now]
      BY <2>1 DEF AddTime
    <3>2. /\ DOMAIN r = DOMAIN times /\ r[w] = [times[w] EXCEPT !.last = now]
          /\ \A who \in DOMAIN times : who # w => r[who] = times[who]
      BY <2>1, <3>1
    <3> HIDE DEF r
    <3>3. r[w].last = now /\ r[w].first = times[w].first
      BY <1>3, <2>1, <3>2
    <3> QED
      BY <2>1, <3>2, <3>3
  <2>2. CASE w \notin DOMAIN times
    BY <2>2 DEF AddTime, Put
  <2> QED
    BY <2>1, <2>2
<1> HIDE DEF r, T
<1>5. ASSUME NEW who \in Owners(name)
      PROVE  /\ who \in DOMAIN r <=> ConcernedIn(T, who, vis) # {}
             /\ who \in DOMAIN r =>
                  /\ {r[who].first, r[who].last} \subseteq ConcernedIn(T, who, vis)
                  /\ \A i \in ConcernedIn(T, who, vis) : /\ r[who].first <= i
                                                         /\ i <= r[who].last
  <2>1. /\ who \in DOMAIN times <=> ConcernedIn(S, who, vis) # {}
        /\ who \in DOMAIN times =>
             /\ {times[who].first, times[who].last} \subseteq ConcernedIn(S, who, vis)
             /\ \A i \in ConcernedIn(S, who, vis) : /\ times[who].first <= i
                                                    /\ i <= times[who].last
    BY DEF TimesAre
  <2>2. CASE who # w
    BY <1>1, <1>4, <2>1, <2>2
  <2>3. CASE who = w
    <3>1. ConcernedIn(T, who, vis) = ConcernedIn(S, who, vis) \cup {now}
      BY <1>1, <2>3
    <3>2. r[who].last = now /\ who \in DOMAIN r
          /\ r[who].first = IF w \in DOMAIN times THEN times[w].first ELSE now
      BY <1>4, <2>3
    <3>3. CASE who \in DOMAIN times
      <4>1. r[who].first = times[who].first /\ times[who].first \in ConcernedIn(S, who, vis)
        BY <2>1, <2>3, <3>2, <3>3
      <4>2. times[who].first \in Nat /\ times[who].first <= now
        BY <1>2, <4>1
      <4>3. \A i \in ConcernedIn(S, who, vis) : times[who].first <= i
        BY <2>1, <3>3
      <4> QED
        BY <1>2, <3>1, <3>2, <4>1, <4>2, <4>3
    <3>4. CASE who \notin DOMAIN times
      <4>1. ConcernedIn(T, who, vis) = {now}
        BY <2>1, <3>1, <3>4
      <4> QED
        BY <2>3, <3>2, <3>4, <4>1
    <3> QED
      BY <3>3, <3>4
  <2> QED
    BY <2>2, <2>3
<1> QED
  BY <1>5 DEF TimesAre, r, T

(* One more visit among those that are counted.                             *)
LEMMA CountGrows ==
  ASSUME NEW name, NEW who, NEW c, NEW S, IsFiniteSet(S), NEW vis, NEW now, now \notin S
  PROVE  LET n == Cardinality(Counted(name, who, c, S, vis))
             m == Cardinality(Counted(name, who, c, S \cup {now}, vis))
         IN  /\ n \in Nat
             /\ m = IF Concerns(vis[now], who) /\ CategoryOf(name, vis[now]) = c
                    THEN n + 1 ELSE n
<1> DEFINE A == Counted(name, who, c, S, vis)
           B == Counted(name, who, c, S \cup {now}, vis)
<1>1. A \in SUBSET S /\ now \notin A
  BY DEF Counted
<1>2. IsFiniteSet(A)
  BY <1>1, FS_Subset
<1>3. Cardinality(A) \in Nat
  BY <1>2, FS_CardinalityType
<1>4. CASE Concerns(vis[now], who) /\ CategoryOf(name, vis[now]) = c
  <2>1. B = A \cup {now}
    BY <1>4 DEF Counted
  <2>2. Cardinality(B) = Cardinality(A) + 1
    <3> HIDE DEF A, B
    <3> QED
      BY <1>1, <1>2, <2>1, FS_AddElement
  <2> QED
    BY <1>3, <1>4, <2>2
<1>5. CASE ~(Concerns(vis[now], who) /\ CategoryOf(name, vis[now]) = c)
  <2>1. B = A
    BY <1>5 DEF Counted
  <2> QED
    BY <1>3, <1>5, <2>1
<1> QED
  BY <1>4, <1>5

(* A hit counted: the log, and the category with the most hits in it.       *)
LEMMA HitEntered ==
  ASSUME NEW name \in HitNames, NEW hits, NEW S, IsFiniteSet(S), NEW vis,
         NEW now, now \notin S, HitsOK(name, hits, S, vis), HitsAre(name, hits, S, vis),
         NEW w \in Owners(name), \A who \in Owners(name) : Concerns(vis[now], who) <=> who = w
  PROVE  HitsAre(name, AddHit(hits, w, Categories(name), CategoryOf(name, vis[now])),
                 S \cup {now}, vis)
<1> DEFINE T == S \cup {now}
           val == CategoryOf(name, vis[now])
           n(who, c) == Cardinality(Counted(name, who, c, S, vis))
           m(who, c) == Cardinality(Counted(name, who, c, T, vis))
           r == AddHit(hits, w, Categories(name), val)
<1>1. /\ val \in Categories(name) /\ 0 \in Categories(name)
      /\ Categories(name) \in {Genders, Costs} /\ Categories(name) \subseteq Nat
  BY CategoryTyped DEF Categories, Genders, Costs
<1>2. \A who \in Owners(name) :
        /\ ConcernedIn(T, who, vis) = IF who = w THEN ConcernedIn(S, who, vis) \cup {now}
                                      ELSE ConcernedIn(S, who, vis)
        /\ now \notin ConcernedIn(S, who, vis)
  BY DEF ConcernedIn
<1>3. \A who \in Owners(name) : \A c :
        n(who, c) \in Nat /\ m(who, c) = IF who = w /\ val = c THEN n(who, c) + 1 ELSE n(who, c)
  <2> TAKE who \in Owners(name)
  <2> TAKE c
  <2>1. /\ n(who, c) \in Nat
        /\ m(who, c) = IF Concerns(vis[now], who) /\ val = c THEN n(who, c) + 1 ELSE n(who, c)
    BY CountGrows
  <2> HIDE DEF n, m, val
  <2> QED
    BY <2>1
<1>4. \A who \in Owners(name) :
        /\ who \in DOMAIN hits <=> ConcernedIn(S, who, vis) # {}
        /\ who \in DOMAIN hits => HitIs(name, who, hits[who], S, vis)
  BY DEF HitsAre
<1>5. \A who \in DOMAIN hits : hits[who].log \in [Categories(name) -> Nat]
  BY DEF HitsOK, HitOK, LogType
<1>6. /\ DOMAIN r = DOMAIN hits \cup {w}
      /\ \A who \in DOMAIN hits : who # w => r[who] = hits[who]
  BY DEF AddHit, Put
<1>7. \A who \in Owners(name) : \A hit :
        HitIs(name, who, hit, T, vis) <=>
          /\ \A c \in Categories(name) \ {0} :
               /\ hit.log[c] = m(who, c)
               /\ IF hit.category = 0 THEN m(who, c) <= 1
                  ELSE m(who, c) <= m(who, hit.category)
          /\ Cardinality(ConcernedIn(T, who, vis)) = 1
               => \A i \in ConcernedIn(T, who, vis) :
                    hit.category = CategoryOf(name, vis[i])
  BY DEF HitIs
<1>8. ASSUME NEW who \in Owners(name), who # w, HitIs(name, who, hits[who], S, vis)
      PROVE  HitIs(name, who, hits[who], T, vis)
  <2>1. \A c : m(who, c) = n(who, c)
    <3> HIDE DEF n, m, val
    <3> QED
      BY <1>3, <1>8
  <2>2. ConcernedIn(T, who, vis) = ConcernedIn(S, who, vis)
    BY <1>2, <1>8
  <2> HIDE DEF T
  <2> QED
    BY <1>8, <2>1, <2>2 DEF HitIs
<1>9. CASE w \notin DOMAIN hits
  <2> DEFINE hit == [category |-> val, log |-> NewLog(Categories(name), val)]
  <2>1. r[w] = hit
    BY <1>9 DEF AddHit, Put
  <2>2. hit.category = val /\ \A c \in Categories(name) : hit.log[c] = IF c = val THEN 1 ELSE 0
    BY DEF NewLog
  <2>3. ConcernedIn(S, w, vis) = {} /\ ConcernedIn(T, w, vis) = {now}
    BY <1>2, <1>4, <1>9
  <2>4. \A c : n(w, c) = 0
    <3>1. \A c : Counted(name, w, c, S, vis) = {}
      BY <2>3 DEF Counted, ConcernedIn
    <3> QED
      BY <3>1, FS_EmptySet
  <2>5. \A c : m(w, c) = IF val = c THEN 1 ELSE 0
    <3> HIDE DEF n, m, val
    <3> QED
      BY <1>3, <2>4
  <2> HIDE DEF r, hit
  <2>6. HitIs(name, w, hit, T, vis)
    <3>1. \A c \in Categories(name) \ {0} :
            /\ hit.log[c] = m(w, c)
            /\ IF hit.category = 0 THEN m(w, c) <= 1 ELSE m(w, c) <= m(w, hit.category)
      <4> HIDE DEF m, val
      <4> QED
        BY <2>2, <2>5
    <3>2. \A i \in ConcernedIn(T, w, vis) : hit.category = CategoryOf(name, vis[i])
      BY <2>2, <2>3
    <3> HIDE DEF T, m
    <3> QED
      BY <1>7, <3>1, <3>2
  <2> HIDE DEF T
  <2>7. \A who \in Owners(name) :
          /\ who \in DOMAIN r <=> ConcernedIn(T, who, vis) # {}
          /\ who \in DOMAIN r => HitIs(name, who, r[who], T, vis)
    <3> HIDE DEF n, m, val
    <3> QED
      BY <1>2, <1>4, <1>6, <1>8, <2>1, <2>3, <2>6
  <2> QED
    BY <2>7 DEF HitsAre, r, T
<1>10. CASE w \in DOMAIN hits
  <2> DEFINE old == hits[w].log
             log == [[old EXCEPT ![val] = @ + 1] EXCEPT ![0] = 1]
             hit == [category |-> Favourite(log), log |-> log]
  <2>1. r[w] = hit
    BY <1>10 DEF AddHit, Put
  <2>2. old \in [Categories(name) -> Nat]
    BY <1>5, <1>10
  <2>3. \A c \in Categories(name) \ {0} : old[c] = n(w, c)
    BY <1>4, <1>10 DEF HitIs
  <2> HIDE DEF old
  <2>4. /\ log \in [Categories(name) -> Nat]
        /\ \A c \in Categories(name) :
             log[c] = IF c = 0 THEN 1 ELSE IF c = val THEN old[c] + 1 ELSE old[c]
    BY <1>1, <2>2
  <2> HIDE DEF log
  <2>5. /\ Favourite(log) \in Categories(name)
        /\ \A d \in Categories(name) : log[d] <= log[Favourite(log)]
    BY <1>1, <2>4, FavouriteIsMost
  <2>6. hit.category = Favourite(log) /\ hit.log = log
    OBVIOUS
  <2>7. \A c \in Categories(name) \ {0} : log[c] = m(w, c)
    <3> TAKE c \in Categories(name) \ {0}
    <3>1. log[c] = IF c = val THEN old[c] + 1 ELSE old[c]
      BY <2>4
    <3>2. old[c] = n(w, c)
      BY <2>3
    <3>3. m(w, c) = IF val = c THEN n(w, c) + 1 ELSE n(w, c)
      BY <1>3
    <3> HIDE DEF n, m, val
    <3> QED
      BY <3>1, <3>2, <3>3
  <2>8. Cardinality(ConcernedIn(T, w, vis)) # 1
    <3>1. ConcernedIn(S, w, vis) # {} /\ ConcernedIn(S, w, vis) \in SUBSET S
      BY <1>4, <1>10 DEF ConcernedIn
    <3>2. ConcernedIn(T, w, vis) = ConcernedIn(S, w, vis) \cup {now}
          /\ now \notin ConcernedIn(S, w, vis)
      BY <1>2
    <3> DEFINE C == ConcernedIn(S, w, vis)
               D == ConcernedIn(T, w, vis)
    <3> HIDE DEF C, D, T
    <3>3. C # {} /\ C \in SUBSET S /\ D = C \cup {now} /\ now \notin C
      BY <3>1, <3>2 DEF C, D
    <3>4. IsFiniteSet(C)
      BY <3>3, FS_Subset
    <3>5. Cardinality(C) \in Nat /\ Cardinality(C) # 0
      BY <3>3, <3>4, FS_CardinalityType, FS_EmptySet
    <3>6. Cardinality(D) = Cardinality(C) + 1
      BY <3>3, <3>4, FS_AddElement
    <3> QED
      BY <3>5, <3>6 DEF D
  <2> HIDE DEF r, hit
  <2>9. HitIs(name, w, hit, T, vis)
    <3>1. ASSUME NEW c \in Categories(name) \ {0}
          PROVE  /\ hit.log[c] = m(w, c)
                 /\ IF hit.category = 0 THEN m(w, c) <= 1 ELSE m(w, c) <= m(w, hit.category)
      <4>1. log[c] = m(w, c) /\ log[c] <= log[Favourite(log)]
        BY <2>5, <2>7
      <4>2. Favourite(log) = 0 => log[Favourite(log)] = 1
        BY <1>1, <2>4
      <4>3. Favourite(log) # 0 => log[Favourite(log)] = m(w, Favourite(log))
        BY <2>5, <2>7
      <4> HIDE DEF m
      <4> QED
        BY <2>6, <4>1, <4>2, <4>3
    <3> HIDE DEF T, m
    <3> QED
      BY <1>7, <2>8, <3>1
  <2> HIDE DEF T
  <2>10. \A who \in Owners(name) :
           /\ who \in DOMAIN r <=> ConcernedIn(T, who, vis) # {}
           /\ who \in DOMAIN r => HitIs(name, who, r[who], T, vis)
    <3> HIDE DEF n, m, val
    <3> QED
      BY <1>2, <1>4, <1>6, <1>8, <1>10, <2>1, <2>9
  <2> QED
    BY <2>10 DEF HitsAre, r, T
<1> QED
  BY <1>9, <1>10

(* What an item is depends on the log of the visits that are in it.         *)
LEMMA SameIs ==
  ASSUME NEW name, NEW item, NEW S, NEW vis, NEW vis2, NEW past,
         \A i \in S : vis2[i] = vis[i], ItemIs(name, item, S, vis, past)
  PROVE  ItemIs(name, item, S, vis2, past)
<1> DEFINE P == PlacesOf(S, vis)
<1>1. PlacesOf(S, vis2) = P
  BY DEF PlacesOf
<1>2. \A p \in P : vis2[p[1]] = vis[p[1]]
  BY DEF PlacesOf
<1> HIDE DEF P
<1>3. \A n, g : AskedIn(P, n, g, vis2) = AskedIn(P, n, g, vis)
  BY <1>2 DEF AskedIn, Mentions
<1>4. \A p \in P : /\ AddedAt(p, vis2) <=> AddedAt(p, vis)
                   /\ OfferOf(p, vis2) = OfferOf(p, vis)
  BY <1>2 DEF AddedAt, OfferOf
<1>5. \A n, g : AskedIn(P, n, g, vis) \subseteq P
  BY DEF AskedIn
<1>6. \A n, g, initial : WantedIn(P, n, g, vis2, initial) <=> WantedIn(P, n, g, vis, initial)
  BY <1>3, <1>4, <1>5 DEF WantedIn
<1>7. ASSUME OffersAre(item, P, vis, past) PROVE OffersAre(item, P, vis2, past)
  <2> SUFFICES ASSUME NEW g \in Guids
               PROVE  LET asked == AskedIn(P, "retargeting", g, vis2) IN
                      /\ g \in DOMAIN item <=>
                           WantedIn(P, "retargeting", g, vis2, DOMAIN past)
                      /\ g \in DOMAIN item =>
                           item[g] = IF asked = {} THEN past[g]
                                     ELSE OfferOf(Last(asked), vis2)
    BY DEF OffersAre
  <2> DEFINE asked == AskedIn(P, "retargeting", g, vis)
  <2>1. AskedIn(P, "retargeting", g, vis2) = asked /\ asked \subseteq P
    BY <1>3, <1>5
  <2>2. /\ g \in DOMAIN item <=> WantedIn(P, "retargeting", g, vis, DOMAIN past)
        /\ g \in DOMAIN item =>
             item[g] = IF asked = {} THEN past[g] ELSE OfferOf(Last(asked), vis)
    BY <1>7 DEF OffersAre
  <2>3. WantedIn(P, "retargeting", g, vis2, DOMAIN past)
          <=> WantedIn(P, "retargeting", g, vis, DOMAIN past)
    BY <1>6
  <2>4. asked # {} /\ g \in DOMAIN item => Last(asked) \in P
    BY <2>1, <2>2 DEF WantedIn
  <2> HIDE DEF asked
  <2> QED
    BY <1>4, <2>1, <2>2, <2>3, <2>4
<1>8. ASSUME QueueIs(item, P, vis) PROVE QueueIs(item, P, vis2)
  <2>1. Known(P, vis2) = Known(P, vis)
    BY <1>3, <1>4, <1>5 DEF Known
  <2>2. \A g : Excluded(P, g, vis2) <=> Excluded(P, g, vis)
    BY <1>6 DEF Excluded
  <2> QED
    BY <1>8, <2>1, <2>2 DEF QueueIs
<1>9. \A n, who, c : Counted(n, who, c, S, vis2) = Counted(n, who, c, S, vis)
  BY DEF Counted
<1>10. \A who : ConcernedIn(S, who, vis2) = ConcernedIn(S, who, vis)
               /\ ConcernedIn(S, who, vis) \subseteq S
  BY DEF ConcernedIn
<1>11. ASSUME HitsAre(name, item, S, vis) PROVE HitsAre(name, item, S, vis2)
  <2>1. ASSUME NEW who, NEW hit, HitIs(name, who, hit, S, vis)
        PROVE  HitIs(name, who, hit, S, vis2)
    BY <1>9, <1>10, <2>1 DEF HitIs
  <2> QED
    BY <1>10, <1>11, <2>1 DEF HitsAre
<1>12. ASSUME TimesAre(name, item, S, vis) PROVE TimesAre(name, item, S, vis2)
  BY <1>10, <1>12 DEF TimesAre
<1> QED
  BY <1>1, <1>7, <1>8, <1>11, <1>12 DEF ItemIs, P

(* Loading an item changes it only by giving a time to the offers that the  *)
(* browser brought along without one.                                       *)
LEMMA LoadedIs ==
  ASSUME NEW name \in Names, NEW item, NEW S, S \subseteq Int, NEW vis,
         ItemOK(name, item, S, vis),
         NEW past, past \in {Past.retargeting, LoadedPast}, ItemIs(name, item, S, vis, past)
  PROVE  ItemIs(name, Loaded(name, item), S, vis, LoadedPast)
<1> DEFINE P == PlacesOf(S, vis)
<1>1. ASSUME name = "retargeting", OffersAre(item, P, vis, past)
      PROVE  OffersAre(LoadedOffers(item), P, vis, LoadedPast)
  <2>1. DOMAIN LoadedOffers(item) = DOMAIN item
    BY DEF LoadedOffers
  <2>2. DOMAIN LoadedPast = DOMAIN past /\ DOMAIN past = DOMAIN Past.retargeting
    BY DEF LoadedPast, LoadedOffers
  <2> SUFFICES ASSUME NEW g \in Guids
               PROVE  LET asked == AskedIn(P, "retargeting", g, vis) IN
                      /\ g \in DOMAIN item <=>
                           WantedIn(P, "retargeting", g, vis, DOMAIN past)
                      /\ g \in DOMAIN item =>
                           LoadedOffers(item)[g] = IF asked = {} THEN LoadedPast[g]
                                                   ELSE OfferOf(Last(asked), vis)
    BY <2>1, <2>2 DEF OffersAre
  <2> DEFINE asked == AskedIn(P, "retargeting", g, vis)
  <2>3. /\ g \in DOMAIN item <=> WantedIn(P, "retargeting", g, vis, DOMAIN past)
        /\ g \in DOMAIN item =>
             item[g] = IF asked = {} THEN past[g] ELSE OfferOf(Last(asked), vis)
    BY <1>1 DEF OffersAre
  <2>4. g \in DOMAIN item => LoadedOffers(item)[g] =
          IF item[g].at = NoTime THEN [item[g] EXCEPT !.at = item[g].until] ELSE item[g]
    BY DEF LoadedOffers
  <2>5. CASE g \in DOMAIN item /\ asked = {}
    <3>1. g \in DOMAIN past /\ item[g] = past[g]
      BY <2>3, <2>5 DEF WantedIn
    <3>2. g \in DOMAIN Past.retargeting /\ Past.retargeting[g] \in OfferType
      BY <2>2, <3>1, VisitorHistoryAssumption
    <3> DEFINE o == Past.retargeting[g]
    <3>3. LoadedPast[g] = IF o.at = NoTime THEN [o EXCEPT !.at = o.until] ELSE o
      BY <3>2 DEF LoadedPast, LoadedOffers
    <3>4. item[g] = o \/ item[g] = LoadedPast[g]
      BY <3>1
    <3> HIDE DEF o
    <3>5. o \in OfferType /\ NoTime \notin Int
      BY <3>2, VisitorHistoryAssumption DEF o
    <3>6. LoadedPast[g].at # NoTime
      BY <3>3, <3>5 DEF OfferType
    <3>7. LoadedOffers(item)[g] = LoadedPast[g]
      BY <2>4, <2>5, <3>3, <3>4, <3>6
    <3> QED
      BY <2>3, <2>5, <3>7
  <2>6. CASE g \in DOMAIN item /\ asked # {}
    <3>1. Last(asked) \in asked /\ item[g] = OfferOf(Last(asked), vis)
      BY <2>3, <2>6 DEF WantedIn
    <3>2. Last(asked)[1] \in S
      BY <3>1 DEF AskedIn, PlacesOf
    <3>3. item[g].at # NoTime
      <4>1. item[g].at = Last(asked)[1]
        BY <3>1 DEF OfferOf
      <4>2. Last(asked)[1] \in Int /\ NoTime \notin Int
        BY <3>2, VisitorHistoryAssumption
      <4> HIDE DEF asked
      <4> QED
        BY <4>1, <4>2
    <3> HIDE DEF asked
    <3> QED
      BY <2>3, <2>4, <2>6, <3>1, <3>3 DEF asked
  <2>7. CASE g \notin DOMAIN item
    BY <2>3, <2>7
  <2> QED
    BY <2>5, <2>6, <2>7
<1>2. name = "exclude_advertizer" => LoadedQueue(item) = item
  <2> SUFFICES ASSUME name = "exclude_advertizer" PROVE LoadedQueue(item) = item
    OBVIOUS
  <2>1. QueueOK(item, S, vis)
    BY DEF ItemOK
  <2>2. SubSeq(item, 1, Len(item)) = item
    BY <2>1 DEF QueueOK
  <2>3. Len(item) \in Nat /\ Len(item) <= QueueSize /\ QueueSize \in Nat
    BY <2>1, VisitorHistoryAssumption DEF QueueOK
  <2>4. Len(item) < QueueSize \/ Len(item) = QueueSize
    BY <2>3
  <2> QED
    BY <2>2, <2>4 DEF LoadedQueue
<1> HIDE DEF P
<1>3. CASE name = "retargeting"
  <2>1. OffersAre(item, P, vis, past)
    BY <1>3 DEF ItemIs, P
  <2>2. Loaded(name, item) = LoadedOffers(item)
    BY <1>3 DEF Loaded
  <2> QED
    BY <1>1, <1>3, <2>1, <2>2, ItemNames DEF ItemIs, P
<1>4. CASE name # "retargeting"
  <2>1. Loaded(name, item) = item
    BY <1>2, <1>4 DEF Loaded
  <2> QED
    BY <1>4, <2>1 DEF ItemIs
<1> QED
  BY <1>3, <1>4

(* A visit without an account asks for nothing.                             *)
LEMMA NoAccountIs ==
  ASSUME NEW name, NEW item, NEW S, NEW vis, NEW now, vis[now].account = NoAccount,
         NEW past, ItemIs(name, item, S, vis, past)
  PROVE  ItemIs(name, item, S \cup {now}, vis, past)
<1> DEFINE T == S \cup {now}
           P == PlacesOf(S, vis)
           Q == PlacesOf(T, vis)
<1>1. Q = P \cup ({now} \X DOMAIN vis[now].ids)
  BY DEF PlacesOf
<1>2. \A n, g : AskedIn(Q, n, g, vis) = AskedIn(P, n, g, vis)
  <2> TAKE n, g
  <2>1. \A p \in {now} \X DOMAIN vis[now].ids : ~Mentions(p, n, g, vis)
    BY DEF Mentions
  <2> HIDE DEF P, Q
  <2> QED
    BY <1>1, <2>1 DEF AskedIn
<1> HIDE DEF P, Q
<1>3. \A n, g, initial : WantedIn(Q, n, g, vis, initial) <=> WantedIn(P, n, g, vis, initial)
  BY <1>2 DEF WantedIn
<1>4. OffersAre(item, P, vis, past) => OffersAre(item, Q, vis, past)
  BY <1>2, <1>3 DEF OffersAre
<1>5. QueueIs(item, P, vis) => QueueIs(item, Q, vis)
  <2>1. Known(Q, vis) = Known(P, vis)
    BY <1>2 DEF Known
  <2>2. \A g : Excluded(Q, g, vis) <=> Excluded(P, g, vis)
    BY <1>3 DEF Excluded
  <2> QED
    BY <2>1, <2>2 DEF QueueIs
<1>6. \A n, who, c : Counted(n, who, c, T, vis) = Counted(n, who, c, S, vis)
  BY DEF Counted, Concerns
<1>7. \A who : ConcernedIn(T, who, vis) = ConcernedIn(S, who, vis)
  BY DEF ConcernedIn, Concerns
<1> HIDE DEF T
<1>8. HitsAre(name, item, S, vis) => HitsAre(name, item, T, vis)
  <2>1. ASSUME NEW who, NEW hit, HitIs(name, who, hit, S, vis)
        PROVE  HitIs(name, who, hit, T, vis)
    BY <1>6, <1>7, <2>1 DEF HitIs
  <2> QED
    BY <1>7, <2>1 DEF HitsAre
<1>9. TimesAre(name, item, S, vis) => TimesAre(name, item, T, vis)
  BY <1>7 DEF TimesAre
<1> QED
  BY <1>4, <1>5, <1>8, <1>9 DEF ItemIs, P, Q, T

(* A whole visit entered: what the visits and it itself leave.              *)
LEMMA EnteredIs ==
  ASSUME NEW memory, DOMAIN memory = Names, NEW now \in Nat, now > 0,
         NEW A, \A n \in Names : A[n] \subseteq 1 .. now - 1,
         NEW vis, \A i \in 1 .. now : vis[i] \in Visits,
         \A n \in Names : ItemOK(n, memory[n], A[n], vis),
         NEW past, \A n \in Names : ItemIs(n, memory[n], A[n], vis, past)
  PROVE  \A n \in Names :
           ItemIs(n, Entered(memory, vis[now], now)[n], A[n] \cup {now}, vis, past)
<1> DEFINE v == vis[now]
           r == Entered(memory, v, now)
<1>1. v \in Visits
  OBVIOUS
<1>2. CASE v.account = NoAccount
  <2>1. r = memory
    BY <1>2 DEF Entered
  <2> HIDE DEF r
  <2> QED
    BY <1>2, <2>1, NoAccountIs DEF r
<1>3. CASE v.account # NoAccount
  <2> DEFINE e == EnterIds(memory, v, now)
             B == [n \in Names |-> A[n] \cup {now}]
  <2>1. MemoryOK(memory, memory, B, vis)
    <3>1. \A n \in Names : A[n] \subseteq B[n] /\ IsFiniteSet(B[n])
      <4> TAKE n \in Names
      <4>1. B[n] \subseteq 1 .. now /\ A[n] \subseteq B[n]
        OBVIOUS
      <4>2. IsFiniteSet(1 .. now)
        BY FS_Interval
      <4> HIDE DEF B
      <4> QED
        BY <4>1, <4>2, FS_Subset
    <3> HIDE DEF B
    <3>2. \A n \in Names : ItemOK(n, memory[n], B[n], vis)
      BY <3>1, StillOK
    <3> QED
      BY <3>2, NamesKnown DEF MemoryOK, ItemOK
  <2>2. \A n \in {"retargeting", "exclude_advertizer"} : now \in B[n]
    BY NamesKnown
  <2> DEFINE R == A["retargeting"]
             X == A["exclude_advertizer"]
  <2>3. R \subseteq 1 .. now - 1 /\ X \subseteq 1 .. now - 1
    BY NamesKnown
  <2>4. /\ OffersAre(memory.retargeting, PlacesOf(R, vis), vis, past)
        /\ QueueIs(memory.exclude_advertizer, PlacesOf(X, vis), vis)
    BY NamesKnown DEF ItemIs
  <2> HIDE DEF B, R, X
  <2>5. MemoryOK(e, memory, B, vis)
    BY <1>1, <1>3, <2>1, <2>2, EnterIdsOK
  <2>6. /\ OffersAre(e.retargeting, PlacesOf(R \cup {now}, vis), vis, past)
        /\ QueueIs(e.exclude_advertizer, PlacesOf(X \cup {now}, vis), vis)
    BY <1>3, <2>1, <2>2, <2>3, <2>4, IdsEntered
  <2>7. DOMAIN e = Names /\ \A n \in HitNames \cup TimeNames : e[n] = memory[n]
    BY <2>5 DEF MemoryOK
  <2> HIDE DEF e, v
  <2>8. /\ \A n \in {"retargeting", "exclude_advertizer"} : r[n] = e[n]
        /\ \A n \in HitNames :
             r[n] = AddHit(memory[n], OwnerOf(n, v), Categories(n), CategoryOf(n, v))
        /\ \A n \in TimeNames : r[n] = AddTime(memory[n], OwnerOf(n, v), now)
    BY <1>1, <1>3, <2>7, EnteredItems DEF e
  <2> HIDE DEF r
  <2>9. ASSUME NEW n \in HitNames PROVE HitsAre(n, r[n], A[n] \cup {now}, vis)
    <3> DEFINE S == A[n]
               w == OwnerOf(n, v)
               h == memory[n]
    <3>1. n \in Names /\ S \subseteq 1 .. now - 1 /\ HitsOK(n, h, S, vis)
          /\ HitsAre(n, h, S, vis)
      BY ItemNames DEF ItemOK, ItemIs
    <3>2. IsFiniteSet(S) /\ now \notin S
      <4>1. IsFiniteSet(1 .. now - 1)
        BY FS_Interval
      <4> HIDE DEF S
      <4> QED
        BY <3>1, <4>1, FS_Subset
    <3>3. w \in Owners(n) /\ \A who \in Owners(n) : Concerns(vis[now], who) <=> who = w
      BY <1>1, <1>3, OwnerKnown DEF v
    <3>4. r[n] = AddHit(h, w, Categories(n), CategoryOf(n, vis[now]))
      BY <2>8 DEF v
    <3> HIDE DEF S, w, h
    <3>5. HitsAre(n, AddHit(h, w, Categories(n), CategoryOf(n, vis[now])), S \cup {now}, vis)
      BY <3>1, <3>2, <3>3, HitEntered
    <3> QED
      BY <3>4, <3>5 DEF S
  <2>10. ASSUME NEW n \in TimeNames PROVE TimesAre(n, r[n], A[n] \cup {now}, vis)
    <3> DEFINE S == A[n]
               w == OwnerOf(n, v)
               h == memory[n]
    <3>1. n \in Names /\ S \subseteq 1 .. now - 1 /\ TimesOK(n, h, S, vis)
          /\ TimesAre(n, h, S, vis)
      BY ItemNames DEF ItemOK, ItemIs
    <3>2. w \in Owners(n) /\ \A who \in Owners(n) : Concerns(vis[now], who) <=> who = w
      BY <1>1, <1>3, OwnerKnown DEF v
    <3>3. r[n] = AddTime(h, w, now)
      BY <2>8
    <3> HIDE DEF S, w, h
    <3>4. TimesAre(n, AddTime(h, w, now), S \cup {now}, vis)
      BY <3>1, <3>2, TimeEntered
    <3> QED
      BY <3>3, <3>4 DEF S
  <2>11. \A n \in Names : ItemIs(n, r[n], A[n] \cup {now}, vis, past)
    <3> TAKE n \in Names
    <3>1. CASE n = "retargeting"
      <4>1. r[n] = e.retargeting /\ A[n] = R
        BY <2>8, <3>1 DEF R
      <4>2. OffersAre(r[n], PlacesOf(A[n] \cup {now}, vis), vis, past)
        BY <2>6, <4>1
      <4> QED
        BY <3>1, <4>2, ItemNames DEF ItemIs
    <3>2. CASE n = "exclude_advertizer"
      <4>1. r[n] = e.exclude_advertizer /\ A[n] = X
        BY <2>8, <3>2 DEF X
      <4>2. QueueIs(r[n], PlacesOf(A[n] \cup {now}, vis), vis)
        BY <2>6, <4>1
      <4> QED
        BY <3>2, <4>2, ItemNames DEF ItemIs
    <3>3. CASE n \in HitNames
      BY <2>9, <3>3, ItemNames DEF ItemIs
    <3>4. CASE n \in TimeNames
      BY <2>10, <3>4, ItemNames DEF ItemIs
    <3> QED
      BY <3>1, <3>2, <3>3, <3>4, ItemNames
  <2> QED
    BY <2>11 DEF r, v
<1> QED
  BY <1>2, <1>3

(* The items are saved in their order: with each, its visit has saved it.   *)
LEMMA SavedGrows ==
  ASSUME HistoryInv, NEW t \in Tabs, SaveItem(t), seen[tab[t].at].saved = tab[t].pos - 1,
         NEW name, name = Items[tab[t].pos], NEW at, at = tab[t].at
  PROVE  /\ Saved(name)' = Saved(name) \cup {at}
         /\ \A n \in Names : n # name => Saved(n)' = Saved(n)
<1>1. PICK r : r = tab[t] /\ name = Items[r.pos] /\ at = r.at
  OBVIOUS
<1>2. /\ r.pos \in 1 .. 8 /\ name \in Names /\ Position(name) = r.pos
      /\ DOMAIN Items = 1 .. 8
      /\ DOMAIN seen = 1 .. Len(seen) /\ at \in 1 .. Len(seen)
      /\ DOMAIN seen' = 1 .. Len(seen)
      /\ seen'[at] = [seen[at] EXCEPT !.saved = r.pos]
      /\ \A i \in 1 .. Len(seen) : i # at => seen'[i] = seen[i]
      /\ seen[at] \in [visit : Visits, saved : 0 .. 8]
  <2>1. /\ tab[t].pos \in 1 .. 8 /\ Items[tab[t].pos] \in Names
        /\ Position(Items[tab[t].pos]) = tab[t].pos
        /\ DOMAIN Items = 1 .. 8
    BY SaveSeen
  <2>2. /\ DOMAIN seen = 1 .. Len(seen) /\ tab[t].at \in 1 .. Len(seen)
        /\ DOMAIN seen' = 1 .. Len(seen)
        /\ seen'[tab[t].at] = [seen[tab[t].at] EXCEPT !.saved = tab[t].pos]
        /\ \A i \in 1 .. Len(seen) : i # tab[t].at => seen'[i] = seen[i]
        /\ seen[tab[t].at] \in [visit : Visits, saved : 0 .. 8]
    BY SaveSeen
  <2> QED
    BY <1>1, <2>1, <2>2
<1>3. seen[at].saved = r.pos - 1 /\ seen'[at].saved = r.pos
  BY <1>1, <1>2
<1>4. ASSUME NEW n \in Names, n # name
      PROVE  seen'[at].saved >= Position(n) <=> seen[at].saved >= Position(n)
  <2>1. Position(n) \in 1 .. 8 /\ Position(n) # r.pos
    BY <1>1, <1>2, <1>4, PositionKnown
  <2>2. r.pos \in 1 .. 8
    BY <1>2
  <2> QED
    BY ONLY <1>3, <2>1, <2>2
<1>5. Saved(name)' = Saved(name) \cup {at}
  <2>1. \A i \in 1 .. Len(seen) : i \in Saved(name)' <=> i \in Saved(name) \/ i = at
    BY <1>2, <1>3 DEF Saved
  <2> QED
    BY <1>2, <2>1 DEF Saved
<1>6. ASSUME NEW n \in Names, n # name PROVE Saved(n)' = Saved(n)
  <2>1. \A i \in 1 .. Len(seen) : i \in Saved(n)' <=> i \in Saved(n)
    BY <1>2, <1>4, <1>6 DEF Saved
  <2> QED
    BY <1>2, <2>1 DEF Saved
<1> QED
  BY <1>1, <1>5, <1>6

(* What there is at first is what no visit leaves.                          *)
LEMMA PastQueueFinite == IsFiniteSet(PastQueue)
<1> DEFINE q == Past.exclude_advertizer
<1>1. q \in Seq(Guids) /\ Len(q) \in Nat /\ DOMAIN q = 1 .. Len(q)
  BY VisitorHistoryAssumption
<1>2. q \in Surjection(1 .. Len(q), PastQueue)
  <2>1. \A i \in 1 .. Len(q) : q[i] \in PastQueue
    BY <1>1 DEF PastQueue, InQueue
  <2>2. \A h \in PastQueue : \E i \in 1 .. Len(q) : q[i] = h
    BY <1>1 DEF PastQueue, InQueue
  <2>3. q \in [1 .. Len(q) -> PastQueue]
    BY <1>1, <2>1
  <2> HIDE DEF q
  <2> QED
    BY <2>2, <2>3 DEF Surjection
<1>3. IsFiniteSet(1 .. Len(q))
  BY <1>1, FS_Interval
<1> HIDE DEF q
<1> QED
  BY <1>2, <1>3, FS_Surjection

LEMMA PastIs ==
  ASSUME NEW n \in Names, NEW vis
  PROVE  ItemIs(n, Past[n], {}, vis, Past.retargeting)
<1>1. PlacesOf({}, vis) = {}
  BY DEF PlacesOf
<1>2. \A name, g : AskedIn({}, name, g, vis) = {}
  BY DEF AskedIn
<1>3. OffersAre(Past.retargeting, {}, vis, Past.retargeting)
  BY <1>2 DEF OffersAre, WantedIn
<1>4. QueueIs(Past.exclude_advertizer, {}, vis)
  <2>1. Known({}, vis) = PastQueue
    BY <1>2 DEF Known, PastQueue
  <2>2. \A g \in Guids : Excluded({}, g, vis) <=> InQueue(Past.exclude_advertizer, g)
    BY <1>2 DEF Excluded, WantedIn, PastQueue
  <2>3. \A k \in DOMAIN Past.exclude_advertizer : Past.exclude_advertizer[k] \in PastQueue
    BY VisitorHistoryAssumption DEF PastQueue, InQueue
  <2> QED
    BY <2>1, <2>2, <2>3, PastQueueFinite DEF QueueIs
<1>5. \A who : ConcernedIn({}, who, vis) = {}
  BY DEF ConcernedIn
<1>6. n \in HitNames \cup TimeNames => DOMAIN Past[n] = {}
  BY VisitorHistoryAssumption, ItemNames DEF None
<1>7. n \in HitNames => HitsAre(n, Past[n], {}, vis)
  BY <1>5, <1>6 DEF HitsAre
<1>8. n \in TimeNames => TimesAre(n, Past[n], {}, vis)
  BY <1>5, <1>6 DEF TimesAre
<1> QED
  BY <1>1, <1>3, <1>4, <1>7, <1>8 DEF ItemIs

(* A step that leaves seen alone leaves alone what the visits leave.        *)
LEMMA SameLog ==
  ASSUME seen' = seen
  PROVE  /\ \A r : TabIs(r)' <=> TabIs(r)
         /\ storage' = storage => (StorageIs' <=> StorageIs)
<1>1. Entries' = Entries /\ \A n : Saved(n)' = Saved(n)
  BY SameSeen
<1>2. \A n : StoredPast(n)' = StoredPast(n)
  BY <1>1 DEF StoredPast
<1>3. ASSUME NEW r PROVE TabIs(r)' <=> TabIs(r)
  BY <1>1 DEF TabIs
<1>4. storage' = storage => (StorageIs' <=> StorageIs)
  BY <1>1, <1>2 DEF StorageIs
<1> QED
  BY <1>3, <1>4

LEMMA IdleIs == TabIs(Idle)
BY DEF TabIs, Idle

(* Only the script that takes a step has to be looked at.                   *)
LEMMA OthersIdle ==
  ASSUME NEW t \in Tabs, ~overlapped, ~forgot, AloneInv, tab[t] # Idle
  PROVE  /\ StorageIs /\ TabIs(tab[t])
         /\ \A u \in Tabs : u # t => tab[u] = Idle
BY DEF AloneInv

LEMMA AloneInit == HistoryInit => AloneInv
<1> SUFFICES ASSUME HistoryInit PROVE AloneInv
  OBVIOUS
<1>1. \A n : Saved(n) = {}
  BY DEF HistoryInit, Saved
<1>2. StorageIs
  BY <1>1, PastIs DEF HistoryInit, StorageIs, StoredPast
<1>3. \A t \in Tabs : tab[t] = Idle
  BY DEF HistoryInit
<1> QED
  BY <1>2, <1>3, IdleIs DEF AloneInv

LEMMA AloneOpen ==
  ASSUME HistoryInv, AloneInv, NEW t \in Tabs, Open(t)
  PROVE  AloneInv'
<1> SUFFICES ASSUME ~overlapped', ~forgot'
             PROVE  AloneInv'
  BY DEF AloneInv
<1>1. ~overlapped /\ ~forgot /\ seen' = seen /\ storage' = storage
      /\ \A u \in Tabs : tab[u] = Idle
  BY DEF Open
<1>2. PICK v \in Visits, works \in BOOLEAN :
        tab' = [tab EXCEPT ![t] =
                  [pc |-> IF works THEN "load" ELSE "enter", pos |-> 1,
                   loaded |-> works, visit |-> v, memory |-> Fresh]]
  BY DEF Open
<1>3. DOMAIN tab = Tabs
  BY DEF HistoryInv, TabsOK
<1>4. TabIs(tab'[t])
  <2>1. tab'[t] = [pc |-> IF works THEN "load" ELSE "enter", pos |-> 1,
                   loaded |-> works, visit |-> v, memory |-> Fresh]
    BY <1>2, <1>3
  <2>2. tab'[t].pc = (IF works THEN "load" ELSE "enter")
        /\ tab'[t].pos = 1 /\ (tab'[t].loaded <=> works)
    BY <2>1
  <2>3. \A n \in Names : ~(Position(n) < 1)
    BY PositionKnown
  <2> QED
    BY <2>2, <2>3 DEF TabIs
<1>5. \A u \in Tabs : u # t => tab'[u] = Idle
  BY <1>1, <1>2, <1>3
<1>6. StorageIs' /\ TabIs(tab[t])'
  BY <1>1, <1>4, SameLog DEF AloneInv
<1>7. \A u \in Tabs : u # t => TabIs(tab[u])'
  BY <1>1, <1>5, IdleIs, SameLog
<1> QED
  BY <1>5, <1>6, <1>7 DEF AloneInv

LEMMA AloneEnd ==
  ASSUME HistoryInv, AloneInv, NEW t \in Tabs, End(t)
  PROVE  AloneInv'
<1> SUFFICES ASSUME ~overlapped', ~forgot'
             PROVE  AloneInv'
  BY DEF AloneInv
<1>1. ~overlapped /\ ~forgot /\ seen' = seen /\ storage' = storage /\ tab[t] # Idle
  BY DEF End
<1>2. \A u \in Tabs : tab'[u] = Idle
  BY <1>1, OthersIdle DEF End, HistoryInv, TabsOK
<1>3. StorageIs'
  BY <1>1, OthersIdle, SameLog
<1>4. \A u \in Tabs : TabIs(tab[u])'
  BY <1>1, <1>2, IdleIs, SameLog
<1> QED
  BY <1>2, <1>3, <1>4 DEF AloneInv

LEMMA AloneLoad ==
  ASSUME HistoryInv, AloneInv, NEW t \in Tabs, LoadItem(t)
  PROVE  AloneInv'
<1> SUFFICES ASSUME ~overlapped', ~forgot'
             PROVE  AloneInv'
  BY DEF AloneInv
<1>0. PICK r, name : r = tab[t] /\ name = Items[r.pos]
  OBVIOUS
<1>1. r.pc = "load" /\ ReadsOK(r)
  BY <1>0, TabState DEF HistoryInv, TabsOK, LoadItem
<1>2. /\ ~overlapped /\ ~forgot /\ seen' = seen /\ storage' = storage
      /\ tab' = [tab EXCEPT
           ![t] = [r EXCEPT !.memory[name] = Loaded(name, storage[name]),
                            !.pos = IF r.pos = Len(Items) THEN 1 ELSE r.pos + 1,
                            !.pc = IF r.pos = Len(Items) THEN "enter" ELSE "load"]]
  BY <1>0, <1>1 DEF LoadItem
<1>3. r.pos \in 1 .. 8 /\ name \in Names /\ Position(name) = r.pos /\ Len(Items) = 8
      /\ DOMAIN r.memory = Names
  BY <1>0, <1>1, PositionKnown DEF ReadsOK
<1>4. StorageIs /\ TabIs(r) /\ \A u \in Tabs : u # t => tab[u] = Idle
  <2>1. tab[t] # Idle
    BY <1>0, <1>1 DEF Idle
  <2> QED
    BY <1>0, <1>2, <2>1, OthersIdle
<1>5. ItemIs(name, Loaded(name, storage[name]), Saved(name), Entries, LoadedPast)
  <2>1. ItemOK(name, storage[name], Saved(name), Entries)
    BY <1>3 DEF HistoryInv, StorageOK
  <2>2. ItemIs(name, storage[name], Saved(name), Entries, StoredPast(name))
    BY <1>3, <1>4 DEF StorageIs
  <2>3. StoredPast(name) \in {Past.retargeting, LoadedPast}
    BY DEF StoredPast
  <2>4. Saved(name) \subseteq Int
    BY SavedFinite DEF HistoryInv
  <2> QED
    BY <1>3, <2>1, <2>2, <2>3, <2>4, LoadedIs
<1>6. DOMAIN tab = Tabs
  BY DEF HistoryInv, TabsOK
<1>7. PICK s : /\ s = tab'[t] /\ s.loaded = r.loaded
               /\ s.pc = IF r.pos = 8 THEN "enter" ELSE "load"
               /\ s.pos = IF r.pos = 8 THEN 1 ELSE r.pos + 1
               /\ s.memory[name] = Loaded(name, storage[name])
               /\ \A n \in Names : n # name => s.memory[n] = r.memory[n]
  <2> DEFINE s == [r EXCEPT !.memory[name] = Loaded(name, storage[name]),
                            !.pos = IF r.pos = 8 THEN 1 ELSE r.pos + 1,
                            !.pc = IF r.pos = 8 THEN "enter" ELSE "load"]
  <2>1. tab'[t] = s
    BY <1>2, <1>3, <1>6
  <2>2. r \in [pc : {"load", "enter"}, pos : DOMAIN Items, loaded : BOOLEAN,
               visit : Visits, memory : {r.memory}]
    BY <1>1 DEF ReadsOK
  <2>3. /\ s.loaded = r.loaded
        /\ s.pc = IF r.pos = 8 THEN "enter" ELSE "load"
        /\ s.pos = IF r.pos = 8 THEN 1 ELSE r.pos + 1
        /\ s.memory = [r.memory EXCEPT ![name] = Loaded(name, storage[name])]
    BY <2>2
  <2> HIDE DEF s
  <2> QED
    BY <1>3, <2>1, <2>3
<1>8. \A n \in Names : Position(n) < r.pos \/ n = name =>
        ItemIs(n, s.memory[n], Saved(n), Entries, LoadedPast)
  BY <1>1, <1>4, <1>5, <1>7 DEF TabIs
<1>9. \A n \in Names : /\ Position(n) <= r.pos => Position(n) < r.pos \/ n = name
                       /\ Position(n) <= 8
                       /\ Position(n) < r.pos + 1 => Position(n) <= r.pos
  <2> TAKE n \in Names
  <2>1. Position(n) \in 1 .. 8 /\ Items[Position(n)] = n
    BY PositionKnown
  <2> QED
    BY <1>0, <1>3, <2>1
<1>10. r.loaded
  BY <1>1, <1>4 DEF TabIs
<1>11. TabIs(s)
  <2>1. CASE r.pos = 8
    <3>1. \A n \in Names : ItemIs(n, s.memory[n], Saved(n), Entries, LoadedPast)
      <4> TAKE n \in Names
      <4>1. Position(n) <= r.pos
        BY <1>9, <2>1
      <4>2. Position(n) < r.pos \/ n = name
        BY <1>9, <4>1
      <4> QED
        BY <1>8, <4>2
    <3>2. s.pc = "enter"
      BY <1>7, <2>1
    <3> QED
      BY <3>1, <3>2 DEF TabIs
  <2>2. CASE r.pos # 8
    <3>1. \A n \in Names : Position(n) < s.pos =>
            ItemIs(n, s.memory[n], Saved(n), Entries, LoadedPast)
      <4> SUFFICES ASSUME NEW n \in Names, Position(n) < s.pos
                   PROVE  ItemIs(n, s.memory[n], Saved(n), Entries, LoadedPast)
        OBVIOUS
      <4>1. Position(n) < r.pos + 1
        BY <1>7, <2>2
      <4>2. Position(n) < r.pos \/ n = name
        BY <1>9, <4>1
      <4> QED
        BY <1>8, <4>2
    <3>2. s.pc = "load" /\ s.loaded
      BY <1>7, <1>10, <2>2
    <3> QED
      BY <3>1, <3>2 DEF TabIs
  <2> QED
    BY <2>1, <2>2
<1>12. \A u \in Tabs : u # t => tab'[u] = Idle
  BY <1>2, <1>4, <1>6
<1>13. StorageIs' /\ TabIs(tab[t])'
  BY <1>2, <1>4, <1>7, <1>11, SameLog
<1>14. \A u \in Tabs : u # t => TabIs(tab[u])'
  BY <1>2, <1>12, IdleIs, SameLog
<1> QED
  BY <1>12, <1>13, <1>14 DEF AloneInv

LEMMA AloneEnter ==
  ASSUME HistoryInv, AloneInv, NEW t \in Tabs, Enter(t)
  PROVE  AloneInv'
<1> SUFFICES ASSUME ~overlapped', ~forgot'
             PROVE  AloneInv'
  BY DEF AloneInv
<1>0. PICK r, now : r = tab[t] /\ now = Len(seen) + 1
  OBVIOUS
<1>1. /\ r.pc = "enter" /\ r.visit \in Visits /\ DOMAIN r.memory = Names
      /\ \A n \in Names : ItemOK(n, r.memory[n], Saved(n), Entries)
  BY <1>0, EnterSeen
<1>2. /\ Len(seen) \in Nat /\ now \in Nat /\ now > 0 /\ now - 1 = Len(seen)
      /\ DOMAIN Entries = 1 .. Len(seen)
      /\ \A n : Saved(n) \subseteq 1 .. Len(seen) /\ IsFiniteSet(Saved(n))
  BY <1>0, SavedFinite DEF HistoryInv
<1>3. /\ seen'[now] = [visit |-> r.visit, saved |-> 0]
      /\ \A n \in Names : Saved(n)' = Saved(n)
      /\ Entries'[now] = r.visit
      /\ \A i \in 1 .. Len(seen) : Entries'[i] = Entries[i]
  BY <1>0, EnterSeen
<1>4. \A u \in Tabs : u # t => tab'[u] = tab[u]
  BY EnterSeen
<1>5. tab'[t] = [pc |-> "save", pos |-> 1, loaded |-> r.loaded, at |-> now,
                 memory |-> Entered(r.memory, r.visit, now)]
  BY <1>0, EnterSeen
<1>6. ~overlapped /\ ~forgot /\ storage' = storage
  BY DEF Enter
<1>7. StorageIs /\ TabIs(r) /\ \A u \in Tabs : u # t => tab[u] = Idle
  <2>1. tab[t] # Idle
    BY <1>0, <1>1 DEF Idle
  <2> QED
    BY <1>0, <1>6, <2>1, OthersIdle
<1>8. \A n \in Names : \A item, past :
        ItemIs(n, item, Saved(n), Entries, past) => ItemIs(n, item, Saved(n), Entries', past)
  BY <1>2, <1>3, SameIs
<1>9. StorageIs'
  <2>1. \A n \in Names : StoredPast(n)' = StoredPast(n)
    BY <1>3 DEF StoredPast
  <2> QED
    BY <1>3, <1>6, <1>7, <1>8, <2>1 DEF StorageIs
<1>10. ASSUME r.loaded
       PROVE  \A n \in Names : ItemIs(n, Entered(r.memory, r.visit, now)[n],
                                      Saved(n)' \cup {now}, Entries', LoadedPast)
  <2> DEFINE A == [n \in Names |-> Saved(n)]
             vis == Entries'
             memory == r.memory
             past == LoadedPast
  <2>1. \A n \in Names : A[n] \subseteq 1 .. now - 1
    BY <1>2
  <2>2. \A i \in 1 .. now : vis[i] \in Visits
    <3>1. \A i \in 1 .. Len(seen) : Entries[i] \in Visits
      <4> TAKE i \in 1 .. Len(seen)
      <4>1. DOMAIN seen = 1 .. Len(seen) /\ Entries[i] = seen[i].visit
        BY SavedFinite DEF HistoryInv, Entries
      <4>2. seen[i] \in EntryType
        BY <4>1 DEF HistoryInv, SeenTyped
      <4> QED
        BY <4>1, <4>2 DEF EntryType
    <3>2. \A i \in 1 .. now : i = now \/ i \in 1 .. Len(seen)
      BY <1>2
    <3> QED
      BY <1>1, <1>3, <3>1, <3>2
  <2>3. \A n \in Names : ItemOK(n, memory[n], A[n], vis)
    <3> TAKE n \in Names
    <3>1. ItemOK(n, memory[n], Saved(n), Entries) /\ IsFiniteSet(Saved(n))
      BY <1>1, <1>2
    <3>2. \A i \in Saved(n) : vis[i] = Entries[i]
      BY <1>2, <1>3
    <3>3. Saved(n) \subseteq Saved(n) /\ A[n] = Saved(n)
      OBVIOUS
    <3> HIDE DEF vis, memory, A
    <3> QED
      BY <3>1, <3>2, <3>3, StillOK
  <2>4. \A n \in Names : ItemIs(n, memory[n], A[n], vis, past)
    BY <1>1, <1>7, <1>8, <1>10 DEF TabIs
  <2>5. DOMAIN memory = Names
    BY <1>1
  <2>6. r.visit = vis[now] /\ \A n \in Names : A[n] = Saved(n)'
    BY <1>3
  <2> HIDE DEF A, vis, memory, past
  <2>7. \A n \in Names :
          ItemIs(n, Entered(memory, vis[now], now)[n], A[n] \cup {now}, vis, past)
    BY <1>2, <2>1, <2>2, <2>3, <2>4, <2>5, EnteredIs
  <2> QED
    BY <2>6, <2>7 DEF memory, vis, past
<1>11. TabIs(tab[t])'
  <2>1. seen'[tab'[t].at].saved = tab'[t].pos - 1
    BY <1>3, <1>5
  <2>2. /\ tab'[t].pc = "save" /\ tab'[t].loaded = r.loaded /\ tab'[t].at = now
        /\ tab'[t].memory = Entered(r.memory, r.visit, now)
    BY <1>5
  <2> QED
    BY <1>10, <2>1, <2>2 DEF TabIs
<1>12. \A u \in Tabs : u # t => tab'[u] = Idle /\ TabIs(tab[u])'
  BY <1>4, <1>7 DEF TabIs, Idle
<1> QED
  BY <1>9, <1>11, <1>12 DEF AloneInv

LEMMA AloneSave ==
  ASSUME HistoryInv, AloneInv, NEW t \in Tabs, SaveItem(t)
  PROVE  AloneInv'
<1> SUFFICES ASSUME ~overlapped', ~forgot'
             PROVE  AloneInv'
  BY DEF AloneInv
<1>0. PICK r, name, at : r = tab[t] /\ name = Items[r.pos] /\ at = r.at
  OBVIOUS
<1>1. WritesOK(r) /\ r.pc = "save"
  BY <1>0, SaveSeen
<1>2. /\ storage' = [storage EXCEPT ![name] = r.memory[name]]
      /\ \A u \in Tabs : u # t => tab'[u] = tab[u]
      /\ tab'[t] = IF r.pos = 8 THEN Idle ELSE [r EXCEPT !.pos = r.pos + 1]
  BY <1>0, SaveSeen
<1>3. /\ r.pos \in 1 .. 8 /\ name \in Names /\ Position(name) = r.pos
      /\ DOMAIN Items = 1 .. 8
  BY <1>0, SaveSeen
<1>4. /\ at \in 1 .. Len(seen) /\ \A n : Saved(n) \subseteq 1 .. Len(seen)
      /\ seen'[at] = [seen[at] EXCEPT !.saved = r.pos]
      /\ seen[at] \in [visit : Visits, saved : 0 .. 8]
      /\ \A i \in 1 .. Len(seen) : Entries'[i] = Entries[i]
  BY <1>0, SaveSeen
<1>5. ~overlapped /\ ~forgot /\ r.loaded
  BY <1>0 DEF SaveItem
<1>6. StorageIs /\ TabIs(r) /\ \A u \in Tabs : u # t => tab[u] = Idle
  <2>1. tab[t] # Idle
    BY <1>0, <1>1 DEF Idle
  <2> QED
    BY <1>0, <1>5, <2>1, OthersIdle
<1>7. /\ seen[at].saved = r.pos - 1
      /\ \A n \in Names : ItemIs(n, r.memory[n], Saved(n) \cup {at}, Entries, LoadedPast)
  BY <1>0, <1>1, <1>5, <1>6 DEF TabIs
<1>8. Saved(name)' = Saved(name) \cup {at} /\ \A n \in Names : n # name => Saved(n)' = Saved(n)
  BY <1>0, <1>7, SavedGrows
<1>9. ASSUME NEW n \in Names, NEW item, NEW past, NEW S, S \subseteq 1 .. Len(seen),
             ItemIs(n, item, S, Entries, past)
      PROVE  ItemIs(n, item, S, Entries', past)
  BY <1>4, <1>9, SameIs
<1>10. \A n \in Names : ItemIs(n, r.memory[n], Saved(n) \cup {at}, Entries', LoadedPast)
  <2> TAKE n \in Names
  <2>1. Saved(n) \cup {at} \subseteq 1 .. Len(seen)
    BY <1>4
  <2> QED
    BY <1>7, <1>9, <2>1
<1>11. StorageIs'
  <2>1. storage'[name] = r.memory[name] /\ \A n \in Names : n # name => storage'[n] = storage[n]
    BY <1>2, <1>3 DEF HistoryInv, StorageOK
  <2>2. ItemIs(name, storage'[name], Saved(name)', Entries', StoredPast(name)')
    <3>1. StoredPast(name)' = LoadedPast
      BY <1>8 DEF StoredPast
    <3>2. ItemIs(name, r.memory[name], Saved(name) \cup {at}, Entries', LoadedPast)
      BY <1>3, <1>10
    <3> QED
      BY <1>8, <2>1, <3>1, <3>2
  <2>3. ASSUME NEW n \in Names, n # name
        PROVE  ItemIs(n, storage'[n], Saved(n)', Entries', StoredPast(n)')
    <3>1. StoredPast(n)' = StoredPast(n) /\ Saved(n)' = Saved(n)
      BY <1>8, <2>3 DEF StoredPast
    <3>2. ItemIs(n, storage[n], Saved(n), Entries', StoredPast(n))
      BY <1>4, <1>6, <1>9 DEF StorageIs
    <3> QED
      BY <2>1, <2>3, <3>1, <3>2
  <2> QED
    BY <2>2, <2>3 DEF StorageIs
<1>12. TabIs(tab[t])'
  <2>1. CASE r.pos = 8
    BY <1>2, <2>1 DEF TabIs, Idle
  <2>2. CASE r.pos # 8
    <3>1. /\ tab'[t].pc = "save" /\ tab'[t].at = at /\ tab'[t].memory = r.memory
          /\ tab'[t].pos = r.pos + 1 /\ tab'[t].loaded
      BY <1>0, <1>1, <1>2, <1>5, <2>2 DEF WritesOK
    <3>2. seen'[at].saved = r.pos /\ r.pos = (r.pos + 1) - 1
      BY <1>3, <1>4
    <3>3. \A n \in Names : Saved(n)' \cup {at} = Saved(n) \cup {at}
      BY <1>8
    <3> QED
      BY <1>10, <3>1, <3>2, <3>3 DEF TabIs
  <2> QED
    BY <2>1, <2>2
<1>13. \A u \in Tabs : u # t => tab'[u] = Idle /\ TabIs(tab[u])'
  BY <1>2, <1>6 DEF TabIs, Idle
<1> QED
  BY <1>11, <1>12, <1>13 DEF AloneInv

LEMMA AloneStep == HistoryInv /\ AloneInv /\ [HistoryNext]_historyVars => AloneInv'
<1> SUFFICES ASSUME HistoryInv, AloneInv, [HistoryNext]_historyVars PROVE AloneInv'
  OBVIOUS
<1>1. ASSUME NEW t \in Tabs, Open(t) \/ LoadItem(t) \/ Enter(t) \/ SaveItem(t) \/ End(t)
      PROVE  AloneInv'
  BY <1>1, AloneOpen, AloneLoad, AloneEnter, AloneSave, AloneEnd
<1>2. CASE UNCHANGED historyVars
  <2>1. UNCHANGED <<storage, tab, opened, seen, failures, overlapped, forgot>>
    BY <1>2 DEF historyVars
  <2> QED
    BY <2>1, SameLog DEF AloneInv
<1> QED
  BY <1>1, <1>2 DEF HistoryNext

LEMMA AloneInvariant == HistorySpec => []AloneInv
BY HistoryInvariant, AloneInit, AloneStep, PTL DEF HistorySpec

(* The properties speak of the log of the visits, the invariant of visits.  *)
LEMMA AskedOfLog ==
  ASSUME NEW name, NEW g
  PROVE  LET P == PlacesOf(Saved(name), Entries) IN
         /\ Asked(name, g) = AskedIn(P, name, g, Entries)
         /\ AskedTo("add", name, g) = {p \in AskedIn(P, name, g, Entries) : AddedAt(p, Entries)}
         /\ \A p \in Asked(name, g) : OfferOf(p, Entries) = AtPlace(p[1])
<1> DEFINE P == PlacesOf(Saved(name), Entries)
<1>1. \A i \in Saved(name) : Entries[i] = seen[i].visit
  BY DEF Saved, Entries
<1>2. P = UNION {{i} \X DOMAIN seen[i].visit.ids : i \in Saved(name)}
  BY <1>1 DEF PlacesOf
<1>3. \A p \in P : Entries[p[1]] = seen[p[1]].visit
  BY <1>1 DEF PlacesOf
<1> HIDE DEF P
<1>4. Asked(name, g) = AskedIn(P, name, g, Entries)
  BY <1>2, <1>3 DEF Asked, AskedIn, Mentions
<1>5. Asked(name, g) \subseteq P
  BY <1>4 DEF AskedIn
<1>6. AskedTo("add", name, g) = {p \in Asked(name, g) : AddedAt(p, Entries)}
  BY <1>3, <1>5 DEF AskedTo, AddedAt
<1>7. \A p \in Asked(name, g) : OfferOf(p, Entries) = AtPlace(p[1])
  BY <1>3, <1>5 DEF OfferOf, AtPlace
<1> QED
  BY <1>4, <1>6, <1>7 DEF P

LEMMA WantedOfLog ==
  ASSUME NEW name, NEW g, NEW initial
  PROVE  Wanted(name, g, g \in initial)
           <=> WantedIn(PlacesOf(Saved(name), Entries), name, g, Entries, initial)
<1> DEFINE P == PlacesOf(Saved(name), Entries)
<1> HIDE DEF P
<1>1. /\ Asked(name, g) = AskedIn(P, name, g, Entries)
      /\ \A p : p \in AskedTo("add", name, g)
                  <=> p \in AskedIn(P, name, g, Entries) /\ AddedAt(p, Entries)
  BY AskedOfLog DEF P
<1> QED
  BY <1>1 DEF Wanted, WantedIn, P

LEMMA VisitsOfLog ==
  ASSUME NEW name, NEW who
  PROVE  /\ VisitsOf(name, who) = ConcernedIn(Saved(name), who, Entries)
         /\ \A c : Hits(name, who, c) = Cardinality(Counted(name, who, c, Saved(name), Entries))
         /\ name \in HitNames =>
              \A i \in VisitsOf(name, who) : Category(name, i) = CategoryOf(name, Entries[i])
<1>1. \A i \in Saved(name) : Entries[i] = seen[i].visit
  BY DEF Saved, Entries
<1>2. VisitsOf(name, who) = ConcernedIn(Saved(name), who, Entries)
  BY <1>1 DEF VisitsOf, ConcernedIn, Concerns
<1>3. \A i \in Saved(name) : Category(name, i) = CategoryOf(name, Entries[i])
  BY <1>1 DEF Category, CategoryOf
<1>4. \A c : {i \in VisitsOf(name, who) : Category(name, i) = c}
             = Counted(name, who, c, Saved(name), Entries)
  BY <1>1, <1>3 DEF VisitsOf, Counted, Concerns
<1>5. VisitsOf(name, who) \subseteq Saved(name)
  BY DEF VisitsOf
<1> QED
  BY <1>2, <1>3, <1>4, <1>5 DEF Hits

LEMMA AloneExact == HistoryInv /\ AloneInv => AloneNothingLost
<1> SUFFICES ASSUME HistoryInv, AloneInv, ~overlapped, ~forgot
             PROVE  OffersExact /\ QueueExact /\ HitsExact /\ TimesExact
  BY DEF AloneNothingLost
<1>1. StorageIs
  BY DEF AloneInv
<1>2. OffersExact
  <2> DEFINE name == "retargeting"
             P == PlacesOf(Saved(name), Entries)
             past == StoredPast(name)
             offers == storage.retargeting
  <2>1. OffersAre(offers, P, Entries, past)
    BY <1>1, NamesKnown DEF StorageIs, ItemIs
  <2>2. past = IF Saved(name) = {} THEN Past.retargeting ELSE LoadedOffers(Past.retargeting)
    BY DEF StoredPast, LoadedPast
  <2>3. DOMAIN past = DOMAIN Past.retargeting
    BY <2>2 DEF LoadedOffers
  <2> SUFFICES ASSUME NEW g \in Guids
               PROVE  /\ g \in DOMAIN offers
                           <=> Wanted(name, g, g \in DOMAIN Past.retargeting)
                      /\ g \in DOMAIN offers =>
                           offers[g] = IF Asked(name, g) = {} THEN past[g]
                                       ELSE AtPlace(Last(Asked(name, g))[1])
    BY <2>2 DEF OffersExact
  <2> DEFINE asked == AskedIn(P, name, g, Entries)
  <2>4. /\ g \in DOMAIN offers <=> WantedIn(P, name, g, Entries, DOMAIN past)
        /\ g \in DOMAIN offers =>
             offers[g] = IF asked = {} THEN past[g] ELSE OfferOf(Last(asked), Entries)
    BY <2>1 DEF OffersAre
  <2>5. Wanted(name, g, g \in DOMAIN past) <=> WantedIn(P, name, g, Entries, DOMAIN past)
    BY WantedOfLog
  <2>6. Asked(name, g) = asked /\ \A p \in asked : OfferOf(p, Entries) = AtPlace(p[1])
    BY AskedOfLog
  <2>7. WantedIn(P, name, g, Entries, DOMAIN past) /\ asked # {} => Last(asked) \in asked
    BY DEF WantedIn
  <2> HIDE DEF asked, past, offers, P, name
  <2>8. g \in DOMAIN offers <=> Wanted(name, g, g \in DOMAIN Past.retargeting)
    BY <2>3, <2>4, <2>5
  <2>9. g \in DOMAIN offers =>
          offers[g] = IF Asked(name, g) = {} THEN past[g]
                      ELSE AtPlace(Last(Asked(name, g))[1])
    BY <2>4, <2>6, <2>7
  <2> QED
    BY <2>8, <2>9
<1>3. QueueExact
  <2> DEFINE name == "exclude_advertizer"
             P == PlacesOf(Saved(name), Entries)
             queue == storage.exclude_advertizer
  <2>1. QueueIs(queue, P, Entries)
    BY <1>1, NamesKnown DEF StorageIs, ItemIs
  <2> SUFFICES ASSUME NEW g \in Guids
               PROVE  LET wanted == Wanted(name, g, InQueue(Past[name], g)) IN
                      /\ InQueue(queue, g) => wanted
                      /\ wanted /\ ~InQueue(queue, g) =>
                           Cardinality({h \in Guids \ {g} :
                             \/ InQueue(Past[name], h)
                             \/ AskedTo("add", name, h) # {}}) >= QueueSize
    BY DEF QueueExact
  <2>2. Wanted(name, g, InQueue(Past[name], g)) <=> Wanted(name, g, g \in PastQueue)
    BY DEF Wanted, PastQueue
  <2>3. Wanted(name, g, g \in PastQueue) <=> Excluded(P, g, Entries)
    BY WantedOfLog DEF Excluded
  <2>4. {h \in Guids \ {g} : InQueue(Past[name], h) \/ AskedTo("add", name, h) # {}}
          = Known(P, Entries) \ {g}
    <3>1. \A h : AskedTo("add", name, h) # {}
                   <=> \E p \in AskedIn(P, name, h, Entries) : AddedAt(p, Entries)
      <4> TAKE h
      <4>1. AskedTo("add", name, h) = {p \in AskedIn(P, name, h, Entries) : AddedAt(p, Entries)}
        BY AskedOfLog
      <4> QED
        BY <4>1
    <3>2. \A h \in Guids : h \in PastQueue <=> InQueue(Past[name], h)
      BY DEF PastQueue
    <3> HIDE DEF P
    <3> QED
      BY <3>1, <3>2 DEF Known
  <2>5. /\ InQueue(queue, g) => Excluded(P, g, Entries)
        /\ Excluded(P, g, Entries) /\ ~InQueue(queue, g)
             => Cardinality(Known(P, Entries) \ {g}) >= QueueSize
    BY <2>1 DEF QueueIs
  <2> HIDE DEF P, queue, name
  <2> QED
    BY <2>2, <2>3, <2>4, <2>5
<1>4. ASSUME NEW n \in HitNames, NEW who \in Owners(n)
      PROVE  LET visits == VisitsOf(n, who) IN
             /\ who \in DOMAIN storage[n] <=> visits # {}
             /\ who \in DOMAIN storage[n] =>
                  LET h == storage[n][who] IN
                  /\ \A c \in DOMAIN h.log \ {0} : h.log[c] = Hits(n, who, c)
                  /\ \A c \in DOMAIN h.log \ {0} :
                       IF h.category = 0 THEN Hits(n, who, c) <= 1
                       ELSE Hits(n, who, c) <= Hits(n, who, h.category)
                  /\ Cardinality(visits) = 1 => \A i \in visits : h.category = Category(n, i)
  <2>1. HitsAre(n, storage[n], Saved(n), Entries)
    BY <1>1, ItemNames DEF StorageIs, ItemIs
  <2>2. who \in DOMAIN storage[n] => DOMAIN storage[n][who].log = Categories(n)
    BY ItemNames DEF HistoryInv, StorageOK, ItemOK, HitsOK, HitOK, LogType
  <2>3. /\ VisitsOf(n, who) = ConcernedIn(Saved(n), who, Entries)
        /\ \A c : Hits(n, who, c) = Cardinality(Counted(n, who, c, Saved(n), Entries))
        /\ \A i \in VisitsOf(n, who) : Category(n, i) = CategoryOf(n, Entries[i])
    BY VisitsOfLog
  <2>4. /\ who \in DOMAIN storage[n] <=> ConcernedIn(Saved(n), who, Entries) # {}
        /\ who \in DOMAIN storage[n] => HitIs(n, who, storage[n][who], Saved(n), Entries)
    BY <2>1 DEF HitsAre
  <2> QED
    BY <2>2, <2>3, <2>4 DEF HitIs
<1>5. ASSUME NEW n \in TimeNames, NEW who \in Owners(n)
      PROVE  LET visits == VisitsOf(n, who) IN
             /\ who \in DOMAIN storage[n] <=> visits # {}
             /\ who \in DOMAIN storage[n] =>
                  /\ {storage[n][who].first, storage[n][who].last} \subseteq visits
                  /\ \A i \in visits : /\ storage[n][who].first <= i
                                       /\ i <= storage[n][who].last
  <2>1. TimesAre(n, storage[n], Saved(n), Entries)
    BY <1>1, ItemNames DEF StorageIs, ItemIs
  <2>2. VisitsOf(n, who) = ConcernedIn(Saved(n), who, Entries)
    BY VisitsOfLog
  <2> QED
    BY <2>1, <2>2 DEF TimesAre
<1>6. HitsExact
  BY <1>4 DEF HitsExact, HitNames, Owners
<1>7. TimesExact
  BY <1>5 DEF TimesExact, TimeNames, Owners
<1> QED
  BY <1>2, <1>3, <1>6, <1>7

-----------------------------------------------------------------------------
(* The storage and the memory of every script (out.html, the objects that   *)
(* load and save items of localStorage) keep their types: offers with their *)
(* end, a queue no longer than its size, counters by category, times.       *)
THEOREM HistoryTyped == HistorySpec => []HistoryTypeOK
BY HistoryTypes, HistoryInvariant, PTL

(* Whatever the interleaving of scripts over one localStorage, an offer, an *)
(* excluded offer, a hit or a time that is remembered was brought by a      *)
(* visit or was there before: updates may be lost, none is made up.         *)
THEOREM NothingInvented == HistorySpec => []NeverInvented
BY HistoryBrought, HistoryInvariant, PTL

(* As long as scripts run one after another and none saves without having   *)
(* loaded, the storage is exactly what the visits ask for, whenever and     *)
(* however often a script ends early: offers with the times of the last     *)
(* visit that names them, the queue but for the offers that as many others  *)
(* have pushed out, every hit in its category, the first and last visit.    *)
THEOREM NothingLost == HistorySpec => []AloneNothingLost
BY HistoryInvariant, AloneInvariant, AloneExact, PTL
=============================================================================
