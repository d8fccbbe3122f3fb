--------------------------- MODULE PubSubFetchProofs ---------------------------
(*****************************************************************************)
(* Proofs about PubSubFetch for any number of publications and subscriptions *)
(* and any window, retry and cache limits.                                   *)
(*                                                                           *)
(* The invariant says of each publication alone that it is Fine (what was    *)
(* given and what is still owed to a subscription, and what its entry waits  *)
(* for), and of all together that the fetches keep to the window.  An        *)
(* operator on receiver states is shown to change one publication at a time  *)
(* and to leave that one Fine; FoldProofs carries this over the loops over   *)
(* packets, names and fetches, whose lengths are unbounded.  Each action is  *)
(* then a few such operators.                                                *)
(*                                                                           *)
(* That nothing is lost rests on a second invariant, which follows each pair *)
(* of a subscription and a publication it has to get (Kept), from the state  *)
(* the first one describes.                                                  *)
(*****************************************************************************)
EXTENDS PubSubFetch, FiniteSetTheorems, TLAPS

--------------------------------------------------------------------------------
(*****************************************************************************)
(* Sorting                                                                   *)
(*****************************************************************************)

\* R orders the elements of S.
Orders(R, S) ==
  /\ \A p \in S : <<p, p>> \notin R
  /\ \A p, q \in S : p # q => <<p, q>> \in R \/ <<q, p>> \in R
  /\ \A p, q, t \in S : <<p, q>> \in R /\ <<q, t>> \in R => <<p, t>> \in R

Ranks(R, S) == [p \in S |-> Cardinality({ q \in S : <<q, p>> \in R })]

LoopOfPackets == INSTANCE FoldProofs WITH op <- LAMBDA c, r, q : ReceivePacket(r, q)
LoopOfNames == INSTANCE FoldProofs WITH op <- LAMBDA c, r, p : ProcessMapping(r, p)
LoopOfFetches == INSTANCE FoldProofs WITH op <- LAMBDA c, r, p : FetchTurn(r, p)
LoopOfSegments == INSTANCE FoldProofs WITH op <- LAMBDA c, taken, block : TakeSegment(taken, block)

\* Min of a set of numbers is one of them.
LEMMA Least ==
  ASSUME NEW S \in SUBSET Nat, S # {}
  PROVE  Min(S) \in S
BY LoopOfPackets!MinIn DEF Min, LoopOfPackets!Min

\* seq lists the elements of S.
Lists(seq, S) ==
  /\ seq \in Seq(S)
  /\ \A p \in S : \E k \in 1 .. Len(seq) : seq[k] = p

\* In an order different elements have different ranks, so that each place is
\* taken.
LEMMA SortedLists ==
  ASSUME NEW S, IsFiniteSet(S), NEW R, Orders(R, S)
  PROVE  Lists(Sorted(S, Ranks(R, S)), S)
<1> DEFINE Lower(p) == { q \in S : <<q, p>> \in R }
           rank == Ranks(R, S)
           n == Cardinality(S)
<1>1. n \in Nat
  BY FS_CardinalityType
<1>2. ASSUME NEW p \in S
      PROVE  IsFiniteSet(Lower(p)) /\ Cardinality(Lower(p)) \in Nat
  BY FS_Subset, FS_CardinalityType
<1>3. ASSUME NEW p \in S
      PROVE  Cardinality(Lower(p)) < n
  <2>1. Lower(p) \in SUBSET S /\ p \notin Lower(p)
    BY DEF Orders
  <2> HIDE DEF Lower
  <2>2. Cardinality(Lower(p)) <= n /\ (n = Cardinality(Lower(p)) => S = Lower(p))
    BY <2>1, FS_Subset
  <2> QED
    BY <1>1, <1>2, <2>1, <2>2
<1>4. ASSUME NEW p \in S, NEW q \in S, <<p, q>> \in R
      PROVE  Cardinality(Lower(p)) < Cardinality(Lower(q))
  <2>1. Lower(p) \in SUBSET Lower(q) /\ p \in Lower(q) /\ p \notin Lower(p)
    BY <1>4 DEF Orders
  <2> HIDE DEF Lower
  <2>2. /\ Cardinality(Lower(p)) <= Cardinality(Lower(q))
        /\ Cardinality(Lower(q)) = Cardinality(Lower(p)) => Lower(q) = Lower(p)
    BY <1>2, <2>1, FS_Subset
  <2> QED
    BY <1>2, <2>1, <2>2
<1>5. \A p \in S : rank[p] = Cardinality(Lower(p))
  BY DEF Ranks
<1>6. rank \in [S -> 0 .. n - 1]
  <2>1. \A p \in S : Cardinality(Lower(p)) \in 0 .. n - 1
    <3> HIDE DEF Lower, n
    <3> QED
      BY <1>1, <1>2, <1>3
  <2> QED
    BY <2>1, <1>5 DEF Ranks
<1> HIDE DEF Lower
<1>7. ASSUME NEW p \in S, NEW q \in S, p # q
      PROVE  rank[p] # rank[q]
  <2>1. <<p, q>> \in R \/ <<q, p>> \in R
    BY <1>7 DEF Orders
  <2>2. Cardinality(Lower(p)) # Cardinality(Lower(q))
    BY <1>2, <1>4, <2>1
  <2> QED
    BY <1>5, <2>2
<1> HIDE DEF rank, n
<1>8. ASSUME NEW i \in 0 .. n - 1
      PROVE  \E p \in S : rank[p] = i
  <2> SUFFICES ASSUME \A p \in S : rank[p] # i PROVE FALSE
    OBVIOUS
  <2> DEFINE T == (0 .. n - 1) \ {i}
  <2>1. IsFiniteSet(0 .. n - 1) /\ Cardinality(0 .. n - 1) = n
    <3>1. 0 \in Int /\ n - 1 \in Int /\ ~(0 > n - 1) /\ (n - 1) - 0 + 1 = n
      BY <1>1
    <3> QED
      BY <3>1, FS_Interval
  <2>2. IsFiniteSet(T) /\ Cardinality(T) = n - 1
    BY <2>1, FS_RemoveElement
  <2>3. rank \in [S -> T]
    BY <1>6
  <2>4. Cardinality(T) < Cardinality(S)
    BY <1>1, <2>2 DEF n
  <2> HIDE DEF T
  <2>5. \E p, q \in S : p # q /\ rank[p] = rank[q]
    BY <2>2, <2>3, <2>4, FS_PigeonHole
  <2> QED
    BY <1>7, <2>5
<1> DEFINE seq == Sorted(S, rank)
<1>9. seq = [i \in 1 .. n |-> CHOOSE p \in S : rank[p] = i - 1]
  BY DEF Sorted, n
<1>10. ASSUME NEW i \in 1 .. n
       PROVE  seq[i] \in S /\ rank[seq[i]] = i - 1
  <2>1. i - 1 \in 0 .. n - 1
    BY <1>1
  <2>2. \E p \in S : rank[p] = i - 1
    BY <1>8, <2>1
  <2>3. seq[i] = CHOOSE p \in S : rank[p] = i - 1
    BY <1>9
  <2> HIDE DEF seq
  <2> QED
    BY <2>2, <2>3
<1>11. seq \in [1 .. n -> S]
  <2> HIDE DEF seq
  <2> QED
    BY <1>9, <1>10
<1> HIDE DEF seq
<1>12. seq \in Seq(S) /\ Len(seq) = n
  BY <1>1, <1>11
<1>13. ASSUME NEW p \in S
       PROVE  \E k \in 1 .. Len(seq) : seq[k] = p
  <2> DEFINE k == rank[p] + 1
  <2>1. k \in 1 .. n /\ k - 1 = rank[p]
    BY <1>1, <1>6
  <2>2. seq[k] \in S /\ rank[seq[k]] = rank[p]
    BY <1>10, <2>1
  <2>3. seq[k] = p
    BY <1>7, <2>2
  <2> QED
    BY <1>12, <2>1, <2>3
<1> QED
  BY <1>12, <1>13 DEF Lists, seq, rank

--------------------------------------------------------------------------------
(*****************************************************************************)
(* The inductive invariant                                                   *)
(*****************************************************************************)

\* The receiver states
Cache == { c \in Seq(Pub \X {"name", "full"}) : Len(c) <= CacheLimit }
Remembered == { m \in Seq(Pub) : Len(m) <= DeliveredLimit }

ReceiverState ==
  [mapping : SUBSET Pub, cache : Cache, remembered : Remembered,
   fetch : [Pub -> Entry \cup {None}],
   requests : [Pub -> Nat], checking : [Pub -> Nat], collecting : [Pub -> Nat],
   timers : [Pub -> Nat], given : [Sub -> [Pub -> 0 .. Many]],
   wrong : SUBSET Pub, excused : SUBSET Pub, queued : BOOLEAN]

In(r, p, status) == r.fetch[p] # None /\ r.fetch[p].status = status

\* A segmented publication is asked for, checked or collected once at a time,
\* for the entry it has: its packets do not come in Sync Interests, so that
\* nothing else ends the entry meanwhile.
OneAtATime(r, p) ==
  /\ r.requests[p] + (r.checking[p] + r.collecting[p]) <= 1
  /\ r.requests[p] > 0 => In(r, p, "fetching")
  /\ r.checking[p] + r.collecting[p] > 0 => In(r, p, "delivered")

\* What a subscription s to a producer got and is entered for is one, or s is
\* for packets, has got the first one, and the others are collected for others.
OnceFor(r, p, s) ==
  /\ r.given[s][p] <= 1
  /\ r.fetch[p] # None =>
       \/ r.given[s][p] + r.fetch[p].subs[s] <= 1
       \/ s \in PacketSub /\ p \in Segmented /\ r.collecting[p] > 0

\* Something will come that moves the entry on, unless a packet was refused.
Served(r, p) ==
  /\ "invalid" \notin MayFail /\ In(r, p, "fetching") => r.requests[p] > 0
  /\ In(r, p, "backoff") => r.timers[p] > 0
  /\ In(r, p, "delivered") => r.checking[p] + r.collecting[p] > 0

\* p has not been reported: no subscription to a producer knows of it.
Unreported(r, p) ==
  \A s \in ProducerSub : /\ r.given[s][p] = 0
                         /\ r.fetch[p] # None => r.fetch[p].subs[s] = 0

\* The invariant of publication p while the numbers up to a are reported; others
\* may be named already.
Fine(r, p, a) ==
  /\ p \in Segmented => OneAtATime(r, p)
  /\ \A s \in ProducerSub : OnceFor(r, p, s)
  /\ Served(r, p)
  /\ p > a => Unreported(r, p)

\* With room for all, what is due has an event, or will be looked at.
Due(r) ==
  window >= MaxSeq => \A p \in Pub : In(r, p, "ready") => r.timers[p] > 0 \/ r.queued

NoExtension == \A p, q \in Pub : <<p, q>> \in Extends => p = q

Good(r, a) ==
  /\ r \in ReceiverState
  /\ \A p \in Pub : Fine(r, p, a)
  /\ Cardinality(Fetching(r)) <= window
  /\ NoExtension => r.wrong = {}

IInv ==
  /\ TypeOK
  /\ alive => /\ Good(Receiver, announced) /\ Due(Receiver)
              /\ asked \subseteq (1 .. announced) \X (1 .. announced)
  /\ ProducerAtMostOnce
  /\ NoExtension => ContentRight
  /\ alive /\ "invalid" \notin MayFail => inFlight = asked

--------------------------------------------------------------------------------
(*****************************************************************************)
(* The operators on receiver states                                          *)
(*****************************************************************************)

\* The constants, one by one
LEMMA Constants ==
  /\ MaxSeq \in Nat /\ Pub = 1 .. MaxSeq /\ Pub \subseteq Nat
  /\ ProducerSub \subseteq Sub /\ PacketSub \subseteq Sub
  /\ Segmented \subseteq Pub /\ None \notin Entry /\ None \notin Pub
  /\ CacheLimit \in Nat /\ DeliveredLimit \in Nat /\ Windows \subseteq Nat \ {0}
BY PubSubAssumption DEF Pub

\* q is as it was.
SameAt(r, t, q) ==
  /\ t.fetch[q] = r.fetch[q]
  /\ t.requests[q] = r.requests[q] /\ t.checking[q] = r.checking[q]
  /\ t.collecting[q] = r.collecting[q] /\ t.timers[q] = r.timers[q]
  /\ \A s \in Sub : t.given[s][q] = r.given[s][q]

\* Then its invariant holds as before.
LEMMA SameIsFine ==
  ASSUME NEW r, NEW t, NEW q \in Pub, NEW a, SameAt(r, t, q), Fine(r, q, a)
  PROVE  Fine(t, q, a)
<1>1. ProducerSub \subseteq Sub
  BY Constants
<1> QED
  BY <1>1 DEF SameAt, Fine, OneAtATime, OnceFor, Served, Unreported, In

\* Remember adds a key to a bounded queue.
LEMMA RememberBounded ==
  ASSUME NEW S, NEW keys \in Seq(S), NEW key \in S, NEW limit \in Nat
  PROVE  Remember(keys, key, limit) \in Seq(S) /\ Len(Remember(keys, key, limit)) <= limit
<1> DEFINE all == IF key \in Range(keys) THEN keys ELSE Append(keys, key)
<1>1. all \in Seq(S)
  OBVIOUS
<1> HIDE DEF all
<1>2. CASE Len(all) > limit
  <2> DEFINE m == (Len(all) - limit) + 1
  <2>1. Len(all) \in Nat /\ m \in 1 .. Len(all) + 1 /\ Len(all) - m + 1 = limit
    BY <1>1, <1>2
  <2>2. SubSeq(all, m, Len(all)) \in Seq(S) /\ Len(SubSeq(all, m, Len(all))) = limit
    BY <1>1, <2>1
  <2> QED
    BY <1>2, <2>2 DEF Remember, all
<1>3. CASE ~(Len(all) > limit)
  <2>1. Len(all) \in Nat
    BY <1>1
  <2> QED
    BY <1>1, <1>3, <2>1 DEF Remember, all
<1> QED
  BY <1>2, <1>3

LEMMA SetEntryFields ==
  ASSUME NEW r \in ReceiverState, NEW p \in Pub, NEW e \in Entry \cup {None}
  PROVE  /\ SetEntry(r, p, e) \in ReceiverState
         /\ SetEntry(r, p, e).fetch[p] = e
         /\ \A q \in Pub : q # p => SetEntry(r, p, e).fetch[q] = r.fetch[q]
         /\ SetEntry(r, p, e).mapping = r.mapping
         /\ SetEntry(r, p, e).cache = r.cache
         /\ SetEntry(r, p, e).remembered = r.remembered
         /\ SetEntry(r, p, e).requests = r.requests
         /\ SetEntry(r, p, e).checking = r.checking
         /\ SetEntry(r, p, e).collecting = r.collecting
         /\ SetEntry(r, p, e).timers = r.timers
         /\ SetEntry(r, p, e).given = r.given
         /\ SetEntry(r, p, e).wrong = r.wrong
         /\ SetEntry(r, p, e).excused = r.excused
         /\ SetEntry(r, p, e).queued = r.queued
BY DEF SetEntry, ReceiverState

LEMMA DeliverFields ==
  ASSUME NEW r \in ReceiverState, NEW p \in Pub, NEW copies \in [Sub -> 0 .. Many], NEW q
  PROVE  /\ Deliver(r, p, copies, q) \in ReceiverState
         /\ \A s \in Sub : Deliver(r, p, copies, q).given[s][p] = Upto(r.given[s][p] + copies[s])
         /\ \A s \in Sub, o \in Pub : o # p => Deliver(r, p, copies, q).given[s][o] = r.given[s][o]
         /\ q = p => Deliver(r, p, copies, q).wrong = r.wrong
         /\ Deliver(r, p, copies, q).mapping = r.mapping
         /\ Deliver(r, p, copies, q).cache = r.cache
         /\ Deliver(r, p, copies, q).remembered = r.remembered
         /\ Deliver(r, p, copies, q).fetch = r.fetch
         /\ Deliver(r, p, copies, q).requests = r.requests
         /\ Deliver(r, p, copies, q).checking = r.checking
         /\ Deliver(r, p, copies, q).collecting = r.collecting
         /\ Deliver(r, p, copies, q).timers = r.timers
         /\ Deliver(r, p, copies, q).excused = r.excused
         /\ Deliver(r, p, copies, q).queued = r.queued
<1> DEFINE g == [s \in Sub |-> [r.given[s] EXCEPT ![p] = Upto(@ + copies[s])]]
           w == IF q = p THEN r.wrong ELSE r.wrong \cup {p}
<1>1. r.given \in [Sub -> [Pub -> 0 .. Many]] /\ r.wrong \in SUBSET Pub
  BY DEF ReceiverState
<1>2. \A n \in 0 .. Many, m \in 0 .. Many : Upto(n + m) \in 0 .. Many
  BY DEF Upto, Many
<1>3. g \in [Sub -> [Pub -> 0 .. Many]]
  BY <1>1, <1>2
<1>4. \A s \in Sub : g[s][p] = Upto(r.given[s][p] + copies[s])
  BY <1>1
<1>5. \A s \in Sub, o \in Pub : o # p => g[s][o] = r.given[s][o]
  BY <1>1
<1>6. w \in SUBSET Pub
  BY <1>1
<1> DEFINE told == [r EXCEPT !.given = g]
<1>7. told \in ReceiverState /\ told.given = g /\ told.wrong = r.wrong
  <2> HIDE DEF g
  <2> QED
    BY <1>3 DEF ReceiverState
<1>8. Deliver(r, p, copies, q) = [told EXCEPT !.wrong = w]
  BY <1>7 DEF Deliver
<1>9. q = p => w = r.wrong
  OBVIOUS
<1>10. /\ told.mapping = r.mapping /\ told.cache = r.cache /\ told.remembered = r.remembered
       /\ told.fetch = r.fetch /\ told.requests = r.requests /\ told.checking = r.checking
       /\ told.collecting = r.collecting /\ told.timers = r.timers
       /\ told.excused = r.excused /\ told.queued = r.queued
  <2> HIDE DEF g
  <2> QED
    BY DEF ReceiverState
<1> DEFINE d == [told EXCEPT !.wrong = w]
<1> HIDE DEF told, g, w
<1>11. d \in ReceiverState /\ d.wrong = w
  BY <1>6, <1>7 DEF ReceiverState
<1>12. /\ d.mapping = told.mapping /\ d.cache = told.cache /\ d.remembered = told.remembered
       /\ d.fetch = told.fetch /\ d.requests = told.requests /\ d.checking = told.checking
       /\ d.collecting = told.collecting /\ d.timers = told.timers
       /\ d.excused = told.excused /\ d.queued = told.queued /\ d.given = told.given
  BY <1>7 DEF ReceiverState
<1> HIDE DEF d
<1>13. d = Deliver(r, p, copies, q)
  BY <1>8 DEF d
<1> QED
  BY <1>4, <1>5, <1>7, <1>9, <1>10, <1>11, <1>12, <1>13

\* The publications being fetched can be counted.
LEMMA FetchingFinite ==
  ASSUME NEW r
  PROVE  IsFiniteSet(Fetching(r)) /\ Cardinality(Fetching(r)) \in Nat
<1>1. IsFiniteSet(Pub)
  BY Constants, FS_Interval
<1>2. Fetching(r) \in SUBSET Pub
  BY DEF Fetching
<1> QED
  BY <1>1, <1>2, FS_Subset, FS_CardinalityType

\* A step that changes publication p alone keeps Good, if p is fine afterwards
\* and is fetched only if it was before or there is room in the window.
LEMMA StepAtOne ==
  ASSUME window \in Nat, NEW a, NEW r, Good(r, a),
         NEW t \in ReceiverState, NEW p \in Pub,
         \A q \in Pub : q # p => SameAt(r, t, q),
         Fine(t, p, a),
         In(t, p, "fetching") => In(r, p, "fetching") \/ Cardinality(Fetching(r)) < window,
         NoExtension => t.wrong = r.wrong
  PROVE  Good(t, a)
<1>1. \A q \in Pub : Fine(t, q, a)
  BY SameIsFine DEF Good
<1>2. Cardinality(Fetching(t)) <= window
  <2>1. Cardinality(Fetching(r)) <= window
    BY DEF Good
  <2>2. \A q \in Pub : q \in Fetching(t) => q \in Fetching(r) \/ q = p
    BY DEF SameAt, Fetching
  <2>3. CASE In(t, p, "fetching") /\ ~In(r, p, "fetching")
    <3>1. Cardinality(Fetching(r)) < window
      BY <2>3
    <3>2. Fetching(t) \in SUBSET (Fetching(r) \cup {p})
      BY <2>2 DEF Fetching
    <3>3. /\ IsFiniteSet(Fetching(r) \cup {p})
          /\ Cardinality(Fetching(r) \cup {p}) <= Cardinality(Fetching(r)) + 1
      BY FetchingFinite, FS_AddElement
    <3>4. Cardinality(Fetching(t)) <= Cardinality(Fetching(r) \cup {p})
      BY <3>2, <3>3, FS_Subset
    <3>5. Cardinality(Fetching(r) \cup {p}) \in Nat
      BY <3>3, FS_CardinalityType
    <3> QED
      BY <3>1, <3>3, <3>4, <3>5, FetchingFinite
  <2>4. CASE ~(In(t, p, "fetching") /\ ~In(r, p, "fetching"))
    <3>1. Fetching(t) \in SUBSET Fetching(r)
      BY <2>2, <2>4 DEF Fetching, In
    <3>2. Cardinality(Fetching(t)) <= Cardinality(Fetching(r))
      BY <3>1, FetchingFinite, FS_Subset
    <3> QED
      BY <2>1, <3>2, FetchingFinite
  <2> QED
    BY <2>3, <2>4
<1> QED
  BY <1>1, <1>2 DEF Good

\* The same for Due.
LEMMA DueAtOne ==
  ASSUME NEW r, NEW t, NEW p \in Pub, Due(r),
         \A q \in Pub : q # p => SameAt(r, t, q),
         r.queued => t.queued,
         In(t, p, "ready") => t.queued \/ t.timers[p] > 0 \/ (In(r, p, "ready") /\ t.timers[p] = r.timers[p])
  PROVE  Due(t)
BY DEF Due, SameAt, In

\* How t differs from r when the fetch of p has ended with the packet of q
EndsFetch(r, t, p, q) ==
  /\ t \in ReceiverState
  /\ t.fetch[p] = None
  /\ \A s \in Sub : t.given[s][p] = Upto(r.given[s][p] + r.fetch[p].subs[s])
  /\ t.requests = r.requests /\ t.checking = r.checking
  /\ t.collecting = r.collecting /\ t.timers = r.timers
  /\ t.queued = r.queued /\ (q = p => t.wrong = r.wrong)
  /\ \A o \in Pub : o # p => SameAt(r, t, o)

\* What a fetch brought is delivered, and the entry goes.
LEMMA EndFetchFields ==
  ASSUME NEW r \in ReceiverState, NEW p \in Pub, r.fetch[p] # None, NEW q
  PROVE  EndsFetch(r, EndFetchWith(r, p, q), p, q)
<1> DEFINE copies == r.fetch[p].subs
           d == Deliver(r, p, copies, q)
           m == [d EXCEPT !.remembered = Remember(@, p, DeliveredLimit)]
<1>1. copies \in [Sub -> 0 .. Many]
  <2>1. r.fetch[p] \in Entry
    BY DEF ReceiverState
  <2> QED
    BY <2>1 DEF Entry
<1>2. /\ d \in ReceiverState
      /\ \A s \in Sub : d.given[s][p] = Upto(r.given[s][p] + copies[s])
      /\ \A s \in Sub, o \in Pub : o # p => d.given[s][o] = r.given[s][o]
      /\ q = p => d.wrong = r.wrong
      /\ d.mapping = r.mapping /\ d.cache = r.cache
      /\ d.fetch = r.fetch /\ d.requests = r.requests /\ d.checking = r.checking
      /\ d.collecting = r.collecting /\ d.timers = r.timers /\ d.queued = r.queued
  <2> HIDE DEF copies
  <2> QED
    BY <1>1, DeliverFields
<1> HIDE DEF d
<1>3. Remember(d.remembered, p, DeliveredLimit) \in Remembered
  <2>1. d.remembered \in Seq(Pub)
    BY <1>2 DEF ReceiverState, Remembered
  <2> QED
    BY <2>1, RememberBounded, Constants DEF Remembered
<1>4. /\ m \in ReceiverState
      /\ m.given = d.given /\ m.wrong = d.wrong /\ m.mapping = d.mapping /\ m.cache = d.cache
      /\ m.fetch = d.fetch /\ m.requests = d.requests /\ m.checking = d.checking
      /\ m.collecting = d.collecting /\ m.timers = d.timers /\ m.queued = d.queued
  BY <1>2, <1>3 DEF ReceiverState
<1>5. RememberPiggyDelivered(d, p) = m
  BY DEF RememberPiggyDelivered
<1> HIDE DEF m, copies
<1> DEFINE t == SetEntry(m, p, None)
<1>6. /\ t \in ReceiverState /\ t.fetch[p] = None
      /\ \A o \in Pub : o # p => t.fetch[o] = m.fetch[o]
      /\ t.given = m.given /\ t.wrong = m.wrong /\ t.mapping = m.mapping /\ t.cache = m.cache
      /\ t.requests = m.requests /\ t.checking = m.checking
      /\ t.collecting = m.collecting /\ t.timers = m.timers /\ t.queued = m.queued
  BY <1>4, SetEntryFields
<1>7. EndFetchWith(r, p, q) = t
  BY <1>5 DEF EndFetchWith, CleanUpFetch, d, copies
<1> HIDE DEF t
<1>8. \A o \in Pub : o # p => SameAt(r, t, o)
  BY <1>2, <1>4, <1>6 DEF SameAt
<1> QED
  BY <1>2, <1>4, <1>6, <1>7, <1>8 DEF copies, EndsFetch

\* That is fine unless a segmented publication is being fetched.
LEMMA EndFetchGood ==
  ASSUME window \in Nat, NEW a, NEW r, Good(r, a), NEW p \in Pub, r.fetch[p] # None,
         p \in Segmented => In(r, p, "ready"),
         NEW q, NoExtension => q = p
  PROVE  Good(EndFetchWith(r, p, q), a) /\ (Due(r) => Due(EndFetchWith(r, p, q)))
<1> DEFINE t == EndFetchWith(r, p, q)
<1>1. r \in ReceiverState /\ Fine(r, p, a)
  BY DEF Good
<1>2. /\ t \in ReceiverState
      /\ t.fetch[p] = None
      /\ \A s \in Sub : t.given[s][p] = Upto(r.given[s][p] + r.fetch[p].subs[s])
      /\ t.requests = r.requests /\ t.checking = r.checking
      /\ t.collecting = r.collecting /\ t.timers = r.timers
      /\ t.queued = r.queued /\ (q = p => t.wrong = r.wrong)
      /\ \A o \in Pub : o # p => SameAt(r, t, o)
  BY <1>1, EndFetchFields DEF EndsFetch
<1> HIDE DEF t
<1>3. /\ \A s \in Sub : r.given[s][p] \in Nat /\ r.fetch[p].subs[s] \in Nat
      /\ r.requests[p] \in Nat /\ r.checking[p] \in Nat /\ r.collecting[p] \in Nat
  <2>1. r.fetch[p] \in Entry
    BY <1>1 DEF ReceiverState
  <2>2. r.fetch[p].subs \in [Sub -> 0 .. Many]
    BY <2>1 DEF Entry
  <2>3. \A s \in Sub : r.fetch[p].subs[s] \in Nat
    BY <2>2 DEF Many
  <2> QED
    BY <1>1, <2>3 DEF ReceiverState, Many
<1>4. p \in Segmented => r.requests[p] = 0 /\ r.checking[p] = 0 /\ r.collecting[p] = 0
  BY <1>1, <1>3 DEF Fine, OneAtATime, In
<1>5. ASSUME NEW s \in ProducerSub
      PROVE  t.given[s][p] <= 1 /\ (p > a => t.given[s][p] = 0)
  <2>1. s \in Sub
    BY Constants
  <2>2. r.given[s][p] + r.fetch[p].subs[s] <= 1
    BY <1>1, <1>3, <1>4, <2>1 DEF Fine, OnceFor
  <2>3. p > a => r.given[s][p] = 0 /\ r.fetch[p].subs[s] = 0
    BY <1>1 DEF Fine, Unreported
  <2> QED
    BY <1>2, <1>3, <2>1, <2>2, <2>3 DEF Upto, Many
<1>6. Fine(t, p, a)
  <2>1. p \in Segmented => OneAtATime(t, p)
    BY <1>2, <1>4 DEF OneAtATime
  <2>2. \A s \in ProducerSub : OnceFor(t, p, s)
    BY <1>2, <1>5 DEF OnceFor
  <2>3. Served(t, p)
    BY <1>2 DEF Served, In
  <2>4. p > a => Unreported(t, p)
    BY <1>1, <1>2, <1>5 DEF Unreported, Fine
  <2> QED
    BY <1>1, <1>2, <2>1, <2>2, <2>3, <2>4 DEF Fine
<1>7. ~In(t, p, "fetching") /\ ~In(t, p, "ready")
  BY <1>2 DEF In
<1>8. Good(t, a)
  BY <1>2, <1>6, <1>7, StepAtOne
<1>9. Due(r) => Due(t)
  BY <1>2, <1>7, DueAtOne
<1> QED
  BY <1>8, <1>9 DEF t

\* Changes of other fields do not matter.
LEMMA SameIsGood ==
  ASSUME NEW a, NEW r, Good(r, a), NEW t \in ReceiverState,
         \A q \in Pub : SameAt(r, t, q), NoExtension => t.wrong = r.wrong
  PROVE  /\ Good(t, a)
         /\ Due(r) /\ (r.queued => t.queued) => Due(t)
<1>1. \A q \in Pub : Fine(t, q, a)
  BY SameIsFine DEF Good
<1>2. Fetching(t) = Fetching(r)
  BY DEF Fetching, SameAt
<1>3. Due(r) /\ (r.queued => t.queued) => Due(t)
  BY DEF Due, SameAt, In
<1> QED
  BY <1>1, <1>2, <1>3 DEF Good

\* rememberPiggyDeliveredPublication
LEMMA RememberGood ==
  ASSUME NEW a, NEW r, Good(r, a), NEW p \in Pub
  PROVE  /\ Good(RememberPiggyDelivered(r, p), a)
         /\ Due(r) => Due(RememberPiggyDelivered(r, p))
<1> DEFINE m == Remember(r.remembered, p, DeliveredLimit)
           t == [r EXCEPT !.remembered = m]
<1>1. r \in ReceiverState
  BY DEF Good
<1>2. m \in Remembered
  <2>1. r.remembered \in Seq(Pub)
    BY <1>1 DEF ReceiverState, Remembered
  <2> QED
    BY <2>1, RememberBounded, Constants DEF Remembered
<1>3. RememberPiggyDelivered(r, p) = t
  BY DEF RememberPiggyDelivered
<1> HIDE DEF m
<1>4. /\ t \in ReceiverState /\ t.wrong = r.wrong /\ t.queued = r.queued
      /\ t.fetch = r.fetch /\ t.requests = r.requests /\ t.checking = r.checking
      /\ t.collecting = r.collecting /\ t.timers = r.timers /\ t.given = r.given
  BY <1>1, <1>2 DEF ReceiverState
<1> HIDE DEF t
<1>5. \A q \in Pub : SameAt(r, t, q)
  BY <1>4 DEF SameAt
<1> QED
  BY <1>3, <1>4, <1>5, SameIsGood

\* A packet of a Sync Interest: it is never one of a segmented publication.
LEMMA ReceivePacketGood ==
  ASSUME window \in Nat, NEW a, NEW r, Good(r, a), NEW q \in Pub, q \notin Segmented
  PROVE  /\ Good(ReceivePacket(r, q), a)
         /\ Due(r) => Due(ReceivePacket(r, q))
<1> DEFINE s == SatisfyPendingFetch(r, q)
           c == Remember(Remember(s.cache, <<q, "name">>, CacheLimit), <<q, "full">>, CacheLimit)
           t == [s EXCEPT !.cache = c]
<1>1. Good(s, a) /\ (Due(r) => Due(s))
  BY EndFetchGood DEF SatisfyPendingFetch
<1> HIDE DEF s
<1>2. s \in ReceiverState
  BY <1>1 DEF Good
<1>3. c \in Cache
  <2> DEFINE K == Pub \X {"name", "full"}
  <2>1. s.cache \in Seq(K) /\ <<q, "name">> \in K /\ <<q, "full">> \in K /\ CacheLimit \in Nat
    BY <1>2, Constants DEF ReceiverState, Cache
  <2> HIDE DEF K
  <2>2. Remember(s.cache, <<q, "name">>, CacheLimit) \in Seq(K)
    BY <2>1, RememberBounded
  <2>3. c \in Seq(K) /\ Len(c) <= CacheLimit
    BY <2>1, <2>2, RememberBounded
  <2> QED
    BY <2>3 DEF Cache, K
<1>4. ReceivePacket(r, q) = t
  BY DEF ReceivePacket, s
<1> HIDE DEF c
<1>5. /\ t \in ReceiverState /\ t.wrong = s.wrong /\ t.queued = s.queued
      /\ t.fetch = s.fetch /\ t.requests = s.requests /\ t.checking = s.checking
      /\ t.collecting = s.collecting /\ t.timers = s.timers /\ t.given = s.given
  BY <1>2, <1>3 DEF ReceiverState
<1> HIDE DEF t
<1>6. \A o \in Pub : SameAt(s, t, o)
  BY <1>5 DEF SameAt
<1> QED
  BY <1>1, <1>4, <1>5, <1>6, SameIsGood

\* A callback that is none of a subscription to a producer
LEMMA DeliverGood ==
  ASSUME window \in Nat, NEW a, NEW r, Good(r, a), NEW p \in Pub,
         NEW copies \in [Sub -> 0 .. Many], \A s \in ProducerSub : copies[s] = 0,
         NEW q, NoExtension => q = p
  PROVE  /\ Good(Deliver(r, p, copies, q), a)
         /\ Due(r) => Due(Deliver(r, p, copies, q))
         /\ Deliver(r, p, copies, q).fetch = r.fetch
<1> DEFINE t == Deliver(r, p, copies, q)
<1>1. r \in ReceiverState /\ Fine(r, p, a)
  BY DEF Good
<1>2. /\ t \in ReceiverState
      /\ \A s \in Sub : t.given[s][p] = Upto(r.given[s][p] + copies[s])
      /\ \A s \in Sub, o \in Pub : o # p => t.given[s][o] = r.given[s][o]
      /\ q = p => t.wrong = r.wrong
      /\ t.fetch = r.fetch /\ t.requests = r.requests /\ t.checking = r.checking
      /\ t.collecting = r.collecting /\ t.timers = r.timers /\ t.queued = r.queued
  BY <1>1, DeliverFields
<1> HIDE DEF t
<1>3. \A s \in ProducerSub : t.given[s][p] = r.given[s][p]
  <2>1. \A s \in Sub : r.given[s][p] \in 0 .. Many
    BY <1>1 DEF ReceiverState
  <2> QED
    BY <1>2, <2>1, Constants DEF Upto, Many
<1>4. Fine(t, p, a)
  BY <1>1, <1>2, <1>3 DEF Fine, OneAtATime, OnceFor, Served, Unreported, In
<1>5. \A o \in Pub : o # p => SameAt(r, t, o)
  BY <1>2 DEF SameAt
<1>6. Good(t, a)
  BY <1>2, <1>4, <1>5, StepAtOne DEF In
<1>7. Due(r) => Due(t)
  BY <1>2, <1>5, DueAtOne DEF In
<1> QED
  BY <1>2, <1>6, <1>7 DEF t

\* How often each subscription in who is entered
LEMMA OnceFacts ==
  ASSUME NEW who \in SUBSET Sub
  PROVE  /\ Once(who) \in [Sub -> 0 .. Many]
         /\ \A s \in Sub : Once(who)[s] = IF s \in who THEN 1 ELSE 0
BY DEF Once, Many

LEMMA NewEntryFields ==
  ASSUME NEW copies \in [Sub -> 0 .. Many]
  PROVE  /\ NewEntry(copies) \in Entry /\ NewEntry(copies).subs = copies
         /\ NewEntry(copies).status = "ready"
<1>1. 0 \in Nat
  OBVIOUS
<1>2. NewEntry(copies) \in Entry
  BY <1>1, Zenon DEF NewEntry, Entry
<1> QED
  BY <1>2 DEF NewEntry

\* How t differs from r when the subscriptions in who are entered for p
Enters(r, t, p, who) ==
  /\ t \in ReceiverState
  /\ \A o \in Pub : o # p => SameAt(r, t, o)
  /\ t.requests = r.requests /\ t.checking = r.checking
  /\ t.collecting = r.collecting /\ t.timers = r.timers
  /\ t.given = r.given /\ t.wrong = r.wrong /\ t.queued = r.queued
  /\ who = {} => t = r
  /\ who # {} =>
       /\ t.fetch[p] # None
       /\ t.fetch[p].status = IF r.fetch[p] = None THEN "ready" ELSE r.fetch[p].status
       /\ \A s \in Sub : t.fetch[p].subs[s] = IF r.fetch[p] = None THEN Once(who)[s]
                                              ELSE Upto(r.fetch[p].subs[s] + Once(who)[s])

LEMMA AddFields ==
  ASSUME NEW r \in ReceiverState, NEW p \in Pub, NEW who \in SUBSET Sub
  PROVE  Enters(r, AddPublicationFetch(r, p, who), p, who)
<1> DEFINE o == r.fetch[p]
           once == Once(who)
           more == [s \in Sub |-> Upto(o.subs[s] + once[s])]
           e == IF o = None THEN NewEntry(once) ELSE [o EXCEPT !.subs = more]
           t == AddPublicationFetch(r, p, who)
<1>1. o \in Entry \cup {None} /\ once \in [Sub -> 0 .. Many]
  BY OnceFacts DEF ReceiverState
<1> HIDE DEF once
<1>2. CASE who = {}
  <2>1. t = r
    BY <1>2 DEF AddPublicationFetch
  <2> QED
    BY <1>2, <2>1 DEF SameAt, Enters
<1>3. CASE who # {}
  <2>1. /\ e \in Entry /\ e # None
        /\ e.status = IF o = None THEN "ready" ELSE o.status
        /\ \A s \in Sub : e.subs[s] = IF o = None THEN once[s] ELSE Upto(o.subs[s] + once[s])
    <3>1. CASE o = None
      <4>1. e = NewEntry(once)
        BY <3>1
      <4> HIDE DEF e
      <4> QED
        BY <1>1, <3>1, <4>1, NewEntryFields, Constants
    <3>2. CASE o # None
      <4>1. o \in Entry
        BY <1>1, <3>2
      <4>2. more \in [Sub -> 0 .. Many]
        <5>1. o.subs \in [Sub -> 0 .. Many]
          BY <4>1 DEF Entry
        <5> HIDE DEF o
        <5> QED
          BY <1>1, <5>1 DEF Upto, Many
      <4>3. \A s \in Sub : more[s] = Upto(o.subs[s] + once[s])
        OBVIOUS
      <4> HIDE DEF more, o
      <4>4. e = [o EXCEPT !.subs = more]
        BY <3>2
      <4>5. e \in Entry /\ e.status = o.status /\ e.subs = more
        BY <4>1, <4>2, <4>4 DEF Entry
      <4> QED
        BY <3>2, <4>3, <4>5, Constants
    <3> QED
      BY <3>1, <3>2
  <2>2. t = SetEntry(r, p, e)
    BY <1>3 DEF AddPublicationFetch, once
  <2> HIDE DEF e
  <2>3. /\ t \in ReceiverState /\ t.fetch[p] = e
        /\ \A q \in Pub : q # p => t.fetch[q] = r.fetch[q]
        /\ t.requests = r.requests /\ t.checking = r.checking
        /\ t.collecting = r.collecting /\ t.timers = r.timers
        /\ t.given = r.given /\ t.wrong = r.wrong /\ t.queued = r.queued
    BY <2>1, <2>2, SetEntryFields
  <2> HIDE DEF t, o
  <2>4. \A q \in Pub : q # p => SameAt(r, t, q)
    BY <2>3 DEF SameAt
  <2> QED
    BY <1>3, <2>1, <2>3, <2>4 DEF t, o, once, Enters
<1> QED
  BY <1>2, <1>3

\* Entering subscriptions to names
LEMMA AddGood ==
  ASSUME window \in Nat, NEW a, NEW r, Good(r, a), NEW p \in Pub,
         NEW who \in SUBSET (Sub \ ProducerSub)
  PROVE  Good(AddPublicationFetch(r, p, who), a)
<1> DEFINE t == AddPublicationFetch(r, p, who)
<1>1. r \in ReceiverState /\ Fine(r, p, a)
  BY DEF Good
<1>2. who \in SUBSET Sub /\ \A s \in ProducerSub : s \in Sub /\ Once(who)[s] = 0
  BY OnceFacts, Constants
<1>3. Enters(r, t, p, who)
  BY <1>1, <1>2, AddFields
<1> HIDE DEF t
<1>4. CASE who = {}
  BY <1>3, <1>4 DEF Enters, t
<1>5. CASE who # {}
  <2>1. /\ t \in ReceiverState
        /\ t.requests = r.requests /\ t.checking = r.checking
        /\ t.collecting = r.collecting /\ t.timers = r.timers
        /\ t.given = r.given /\ t.wrong = r.wrong
        /\ t.fetch[p] # None
        /\ t.fetch[p].status = IF r.fetch[p] = None THEN "ready" ELSE r.fetch[p].status
        /\ \A s \in Sub : t.fetch[p].subs[s] = IF r.fetch[p] = None THEN Once(who)[s]
                                               ELSE Upto(r.fetch[p].subs[s] + Once(who)[s])
    BY <1>3, <1>5 DEF Enters
  <2>2. /\ \A s \in Sub : r.given[s][p] \in 0 .. Many
        /\ r.fetch[p] # None => \A s \in Sub : r.fetch[p].subs[s] \in 0 .. Many
        /\ r.requests[p] \in Nat /\ r.checking[p] \in Nat /\ r.collecting[p] \in Nat
    <3>1. r.fetch[p] # None => r.fetch[p] \in Entry
      BY <1>1 DEF ReceiverState
    <3>2. r.fetch[p] # None => r.fetch[p].subs \in [Sub -> 0 .. Many]
      BY <3>1 DEF Entry
    <3> QED
      BY <1>1, <3>2 DEF ReceiverState
  <2>3. ASSUME NEW s \in ProducerSub
        PROVE  t.fetch[p].subs[s] = IF r.fetch[p] = None THEN 0 ELSE r.fetch[p].subs[s]
    BY <1>2, <2>1, <2>2 DEF Upto, Many
  <2>4. \A x \in {"fetching", "backoff", "delivered"} : In(t, p, x) <=> In(r, p, x)
    BY <2>1 DEF In
  <2>5. Fine(t, p, a)
    <3>1. p \in Segmented => OneAtATime(t, p)
      BY <1>1, <2>1, <2>4 DEF Fine, OneAtATime
    <3>2. ASSUME NEW s \in ProducerSub
          PROVE  OnceFor(t, p, s)
      BY <1>1, <1>2, <2>1, <2>2, <2>3 DEF Fine, OnceFor, Many
    <3>3. Served(t, p)
      BY <1>1, <2>1, <2>4 DEF Fine, Served
    <3>4. p > a => Unreported(t, p)
      BY <1>1, <2>1, <2>3 DEF Fine, Unreported
    <3> QED
      BY <3>1, <3>2, <3>3, <3>4 DEF Fine
  <2>6. \A o \in Pub : o # p => SameAt(r, t, o)
    BY <1>3 DEF Enters
  <2>7. Good(t, a)
    BY <2>1, <2>4, <2>5, <2>6, StepAtOne
  <2> QED
    BY <2>7 DEF t
<1> QED
  BY <1>4, <1>5

\* processMapping's return value does not matter to Good.
LEMMA QueuedGood ==
  ASSUME NEW a, NEW r, Good(r, a), NEW b \in BOOLEAN
  PROVE  Good([r EXCEPT !.queued = b], a) /\ [r EXCEPT !.queued = b].queued = b
<1> DEFINE t == [r EXCEPT !.queued = b]
<1>1. r \in ReceiverState
  BY DEF Good
<1>2. /\ t \in ReceiverState /\ t.queued = b /\ t.wrong = r.wrong
      /\ t.fetch = r.fetch /\ t.requests = r.requests /\ t.checking = r.checking
      /\ t.collecting = r.collecting /\ t.timers = r.timers /\ t.given = r.given
  BY <1>1 DEF ReceiverState
<1> HIDE DEF t
<1>3. \A q \in Pub : SameAt(r, t, q)
  BY <1>2 DEF SameAt
<1>4. Good(t, a)
  BY <1>2, <1>3, SameIsGood
<1> QED
  BY <1>2, <1>4 DEF t

\* A lookup in the cache
LEMMA CacheHitFacts ==
  ASSUME NEW r \in ReceiverState, NEW p \in Pub, CacheHit(r, p) # None
  PROVE  CacheHit(r, p) \in Pub /\ (NoExtension => CacheHit(r, p) = p)
<1> DEFINE cached == { key[1] : key \in Range(r.cache) }
           hits == CacheHits(r, p)
<1>1. cached \subseteq Pub
  <2>1. r.cache \in Seq(Pub \X {"name", "full"})
    BY DEF ReceiverState, Cache
  <2>2. \A i \in DOMAIN r.cache : r.cache[i] \in Pub \X {"name", "full"}
    BY <2>1
  <2>3. \A key \in Range(r.cache) : key \in Pub \X {"name", "full"}
    BY <2>2 DEF Range
  <2> QED
    BY <2>3
<1> HIDE DEF cached
<1>2. hits = IF p \in cached THEN {p} ELSE { q \in cached : <<p, q>> \in Extends }
  BY DEF CacheHits, cached
<1>3. hits \subseteq Pub /\ (NoExtension => \A q \in hits : q = p)
  BY <1>1, <1>2 DEF NoExtension
<1> HIDE DEF hits
<1>4. hits # {} /\ CacheHit(r, p) = Min(hits)
  BY DEF CacheHit, hits
<1>5. hits \in SUBSET Nat
  BY <1>3, Constants
<1>6. Min(hits) \in hits
  BY <1>4, <1>5, Least
<1> QED
  BY <1>3, <1>4, <1>6

\* processMapping
LEMMA ProcessMappingGood ==
  ASSUME window \in Nat, NEW a, NEW r, Good(r, a), NEW p \in Pub
  PROVE  /\ Good(ProcessMapping(r, p), a)
         /\ Due(r) => Due(ProcessMapping(r, p))
<1> DEFINE matched == { s \in NameSubs : p \in matching[s] }
           fetchers == matched \ NameOnlySub
           tell == Once(matched \cap NameOnlySub)
           told == Deliver(r, p, tell, p)
           hit == CacheHit(r, p)
           found == Deliver(told, p, Once(fetchers), hit)
           added == AddPublicationFetch(told, p, fetchers)
<1>1. matched \subseteq Sub \ ProducerSub
  BY DEF NameSubs
<1>2. /\ tell \in [Sub -> 0 .. Many] /\ \A s \in ProducerSub : tell[s] = 0
      /\ Once(fetchers) \in [Sub -> 0 .. Many] /\ \A s \in ProducerSub : Once(fetchers)[s] = 0
  <2> HIDE DEF matched
  <2> QED
    BY <1>1, OnceFacts, Constants
<1>3. fetchers \in SUBSET (Sub \ ProducerSub)
  BY <1>1
<1> HIDE DEF matched, fetchers, tell
<1>4. Good(told, a) /\ (Due(r) => Due(told))
  BY <1>2, DeliverGood
<1>5. ProcessMapping(r, p) =
        IF p \in Range(r.remembered) \/ p \in old THEN r
        ELSE IF fetchers = {} THEN told
        ELSE IF hit # None THEN RememberPiggyDelivered(found, p)
        ELSE [added EXCEPT !.queued = TRUE]
  BY DEF ProcessMapping, matched, fetchers, tell
<1> HIDE DEF told
<1>6. ASSUME hit # None
      PROVE  /\ Good(RememberPiggyDelivered(found, p), a)
             /\ Due(r) => Due(RememberPiggyDelivered(found, p))
  <2>1. r \in ReceiverState
    BY DEF Good
  <2>2. NoExtension => hit = p
    BY <1>6, <2>1, CacheHitFacts
  <2> HIDE DEF hit
  <2>3. Good(found, a) /\ (Due(r) => Due(found))
    BY <1>2, <1>4, <2>2, DeliverGood
  <2> HIDE DEF found
  <2> QED
    BY <2>3, RememberGood
<1>7. Good([added EXCEPT !.queued = TRUE], a) /\ Due([added EXCEPT !.queued = TRUE])
  <2>1. Good(added, a)
    BY <1>3, <1>4, AddGood
  <2> HIDE DEF added
  <2>2. Good([added EXCEPT !.queued = TRUE], a) /\ [added EXCEPT !.queued = TRUE].queued
    BY <2>1, QueuedGood
  <2> DEFINE t == [added EXCEPT !.queued = TRUE]
  <2> HIDE DEF t
  <2>3. Good(t, a) /\ t.queued
    BY <2>2 DEF t
  <2>4. Due(t)
    BY <2>3 DEF Due
  <2> QED
    BY <2>3, <2>4 DEF t
<1> HIDE DEF hit, found, added
<1> QED
  BY <1>4, <1>5, <1>6, <1>7

--------------------------------------------------------------------------------
(*****************************************************************************)
(* The scheduler                                                             *)
(*****************************************************************************)

\* A count at p
LEMMA AddCount ==
  ASSUME NEW count \in [Pub -> Nat], NEW p \in Pub, NEW n \in Int, count[p] + n \in Nat
  PROVE  /\ Add(count, p, n) \in [Pub -> Nat]
         /\ Add(count, p, n)[p] = count[p] + n
         /\ \A q \in Pub : q # p => Add(count, p, n)[q] = count[q]
BY DEF Add

\* How t differs from r when p is asked for
Asks(r, t, p) ==
  /\ t \in ReceiverState
  /\ \A o \in Pub : o # p => SameAt(r, t, o)
  /\ t.fetch[p] # None /\ t.fetch[p].status = "fetching"
  /\ t.fetch[p].subs = r.fetch[p].subs
  /\ t.requests[p] = r.requests[p] + 1
  /\ t.checking = r.checking /\ t.collecting = r.collecting /\ t.timers = r.timers
  /\ t.given = r.given /\ t.wrong = r.wrong /\ t.queued = r.queued

Asked(r, p) ==
  [SetEntry(r, p, [r.fetch[p] EXCEPT !.status = "fetching", !.attempts = @ + 1])
     EXCEPT !.requests = Add(@, p, 1)]

LEMMA AskedFields ==
  ASSUME NEW r \in ReceiverState, NEW p \in Pub, r.fetch[p] # None
  PROVE  Asks(r, Asked(r, p), p)
<1> DEFINE o == r.fetch[p]
           e == [o EXCEPT !.status = "fetching", !.attempts = @ + 1]
           s == SetEntry(r, p, e)
           c == Add(s.requests, p, 1)
           t == [s EXCEPT !.requests = c]
<1>1. o \in Entry
  BY DEF ReceiverState
<1> HIDE DEF o
<1>2. e \in Entry /\ e # None /\ e.status = "fetching" /\ e.subs = o.subs
  <2> DEFINE e1 == [o EXCEPT !.status = "fetching"]
             e2 == [e1 EXCEPT !.attempts = @ + 1]
  <2>1. e1 \in Entry /\ e1.status = "fetching" /\ e1.subs = o.subs
    BY <1>1 DEF Entry
  <2>2. e = e2
    BY <1>1 DEF Entry
  <2> HIDE DEF e1, e
  <2>3. e2 \in Entry /\ e2.status = "fetching" /\ e2.subs = o.subs
    BY <2>1 DEF Entry
  <2> HIDE DEF e2
  <2> QED
    BY <2>2, <2>3, Constants
<1> HIDE DEF e
<1>3. /\ s \in ReceiverState /\ s.fetch[p] = e
      /\ \A q \in Pub : q # p => s.fetch[q] = r.fetch[q]
      /\ s.requests = r.requests /\ s.checking = r.checking
      /\ s.collecting = r.collecting /\ s.timers = r.timers
      /\ s.given = r.given /\ s.wrong = r.wrong /\ s.queued = r.queued
  BY <1>2, SetEntryFields
<1> HIDE DEF s
<1>4. c \in [Pub -> Nat] /\ c[p] = r.requests[p] + 1 /\ \A q \in Pub : q # p => c[q] = r.requests[q]
  <2>1. s.requests \in [Pub -> Nat]
    BY <1>3 DEF ReceiverState
  <2>2. s.requests[p] + 1 \in Nat
    BY <2>1
  <2> QED
    BY <1>3, <2>1, <2>2, AddCount
<1> HIDE DEF c
<1>5. /\ t \in ReceiverState /\ t.requests = c
      /\ t.fetch = s.fetch /\ t.checking = s.checking
      /\ t.collecting = s.collecting /\ t.timers = s.timers
      /\ t.given = s.given /\ t.wrong = s.wrong /\ t.queued = s.queued
  BY <1>3, <1>4 DEF ReceiverState
<1>6. t = Asked(r, p)
  BY DEF Asked, s, c, e, o
<1> HIDE DEF t
<1>7. \A q \in Pub : q # p => SameAt(r, t, q)
  BY <1>3, <1>4, <1>5 DEF SameAt
<1> QED
  BY <1>2, <1>3, <1>4, <1>5, <1>6, <1>7 DEF Asks, o

\* What is due and has room in the window is asked for.
LEMMA AskedGood ==
  ASSUME window \in Nat, NEW a, NEW r, Good(r, a), NEW p \in Pub, In(r, p, "ready"),
         Cardinality(Fetching(r)) < window
  PROVE  Good(Asked(r, p), a)
<1> DEFINE t == Asked(r, p)
<1>1. r \in ReceiverState /\ Fine(r, p, a) /\ r.fetch[p] # None
  BY DEF Good, In
<1>2. Asks(r, t, p)
  BY <1>1, AskedFields
<1> HIDE DEF t
<1> USE DEF Asks
<1>3. r.requests[p] \in Nat /\ r.checking[p] \in Nat /\ r.collecting[p] \in Nat
  BY <1>1 DEF ReceiverState
<1>4. In(t, p, "fetching") /\ ~In(t, p, "backoff") /\ ~In(t, p, "delivered")
  BY <1>2 DEF In
<1>5. p \in Segmented => r.requests[p] = 0 /\ r.checking[p] = 0 /\ r.collecting[p] = 0
  BY <1>1, <1>3 DEF Fine, OneAtATime, In
<1>6. Fine(t, p, a)
  <2>1. p \in Segmented => OneAtATime(t, p)
    BY <1>2, <1>4, <1>5 DEF OneAtATime
  <2>2. \A s \in ProducerSub : OnceFor(t, p, s)
    BY <1>1, <1>2 DEF Fine, OnceFor
  <2>3. Served(t, p)
    BY <1>2, <1>3, <1>4 DEF Served
  <2>4. p > a => Unreported(t, p)
    BY <1>1, <1>2 DEF Fine, Unreported
  <2> QED
    BY <2>1, <2>2, <2>3, <2>4 DEF Fine
<1>7. Good(t, a)
  BY <1>2, <1>6, StepAtOne
<1> QED
  BY <1>7 DEF t

\* What fetchAll has of the publications it looks at, and of the others,
\* during its loop
Turning(r, a, ready) ==
  /\ Good(r, a)
  /\ \A q \in ready : ~In(r, q, "delivered")
  /\ \A q \in Pub \ ready : ~In(r, q, "ready")

\* One turn of its loop
LEMMA FetchTurnStep ==
  ASSUME window \in Nat, NEW a, NEW ready \in SUBSET Pub,
         NEW r, Turning(r, a, ready), NEW p \in ready
  PROVE  /\ Turning(FetchTurn(r, p), a, ready)
         /\ \A q \in Pub : q # p => (In(FetchTurn(r, p), q, "ready") <=> In(r, q, "ready"))
         /\ window >= MaxSeq => ~In(FetchTurn(r, p), p, "ready")
<1> DEFINE hit == IF p \in r.mapping THEN CacheHit(r, p) ELSE None
           full == Cardinality(Fetching(r)) >= window
           ended == EndFetchWith(r, p, hit)
           t == FetchTurn(r, p)
<1>1. r \in ReceiverState /\ Good(r, a) /\ p \in Pub
  BY DEF Turning, Good
<1>2. t = IF full \/ r.fetch[p] = None \/ r.fetch[p].status \in {"fetching", "backoff"} THEN r
          ELSE IF hit # None THEN ended ELSE Asked(r, p)
  BY DEF FetchTurn, Asked
<1>3. Cardinality(Fetching(r)) \in Nat
  BY FetchingFinite
<1>4. r.fetch[p] # None => r.fetch[p].status \in {"ready", "fetching", "backoff", "delivered"}
  <2>1. r.fetch[p] # None => r.fetch[p] \in Entry
    BY <1>1 DEF ReceiverState
  <2> QED
    BY <2>1 DEF Entry
<1> HIDE DEF t
<1>5. CASE t = r /\ (full \/ ~In(r, p, "ready"))
  <2>1. ASSUME window >= MaxSeq, full PROVE ~In(r, p, "ready")
    <3>1. Fetching(r) \in SUBSET Pub
      BY DEF Fetching
    <3>2. IsFiniteSet(Pub) /\ Cardinality(Pub) = MaxSeq
      <4>1. CASE MaxSeq = 0
        <5>1. Pub = {}
          BY <4>1, Constants
        <5> QED
          BY <4>1, <5>1, FS_EmptySet
      <4>2. CASE MaxSeq # 0
        <5>1. 1 \in Int /\ MaxSeq \in Int /\ ~(1 > MaxSeq) /\ MaxSeq - 1 + 1 = MaxSeq
          BY <4>2, Constants
        <5> QED
          BY <5>1, Constants, FS_Interval
      <4> QED
        BY <4>1, <4>2
    <3>3. /\ Cardinality(Fetching(r)) <= Cardinality(Pub)
          /\ Cardinality(Pub) = Cardinality(Fetching(r)) => Fetching(r) = Pub
      BY <3>1, <3>2, FS_Subset
    <3>4. Cardinality(Fetching(r)) = MaxSeq
      BY <1>3, <2>1, <3>2, <3>3, Constants
    <3>5. p \in Fetching(r)
      BY <1>1, <3>2, <3>3, <3>4
    <3> QED
      BY <3>5 DEF Fetching, In
  <2> QED
    BY <1>5, <2>1 DEF t
<1>6. CASE ~full /\ In(r, p, "ready")
  <2>1. CASE hit # None
    <3>1. t = ended
      BY <1>2, <1>6, <2>1 DEF In
    <3>2. NoExtension => hit = p
      BY <1>1, <2>1, CacheHitFacts
    <3> HIDE DEF hit
    <3>3. r.fetch[p] # None /\ (p \in Segmented => In(r, p, "ready"))
      BY <1>6 DEF In
    <3>4. Good(ended, a)
      BY <1>1, <3>2, <3>3, EndFetchGood
    <3>5. EndsFetch(r, ended, p, hit)
      BY <1>1, <3>3, EndFetchFields
    <3> HIDE DEF ended
    <3>6. \A q \in Pub : q # p => SameAt(r, ended, q)
      BY <3>5 DEF EndsFetch
    <3>7. ended.fetch[p] = None
      BY <3>5 DEF EndsFetch
    <3>8. Turning(ended, a, ready)
      BY <3>4, <3>6, <3>7 DEF Turning, SameAt, In
    <3>9. \A q \in Pub : q # p => (In(ended, q, "ready") <=> In(r, q, "ready"))
      BY <3>6 DEF SameAt, In
    <3> QED
      BY <3>1, <3>7, <3>8, <3>9 DEF In, t
  <2>2. CASE ~(hit # None)
    <3> DEFINE x == Asked(r, p)
    <3>1. t = x
      BY <1>2, <1>6, <2>2 DEF In
    <3>2. Cardinality(Fetching(r)) < window
      BY <1>3, <1>6
    <3>3. Good(x, a)
      BY <1>1, <1>6, <3>2, AskedGood
    <3>4. Asks(r, x, p)
      BY <1>1, <1>6, AskedFields DEF In
    <3> HIDE DEF x
    <3>5. \A q \in Pub : q # p => SameAt(r, x, q)
      BY <3>4 DEF Asks
    <3>6. x.fetch[p].status = "fetching"
      BY <3>4 DEF Asks
    <3>7. Turning(x, a, ready)
      BY <3>3, <3>5, <3>6 DEF Turning, SameAt, In
    <3>8. \A q \in Pub : q # p => (In(x, q, "ready") <=> In(r, q, "ready"))
      BY <3>5 DEF SameAt, In
    <3> QED
      BY <3>1, <3>6, <3>7, <3>8 DEF In, t
  <2> QED
    BY <2>1, <2>2
<1>7. ~In(r, p, "delivered")
  BY DEF Turning
<1>8. full \/ ~In(r, p, "ready") => t = r
  BY <1>2, <1>4, <1>7 DEF In
<1> QED
  BY <1>5, <1>6, <1>8

\* With room for all, nothing that is due lacks an event.
Calm(r) == window >= MaxSeq => \A p \in Pub : In(r, p, "ready") => r.timers[p] > 0

LEMMA SameFetches ==
  ASSUME NEW r, NEW ready
  PROVE  FetchReady(r, ready) = LoopOfFetches!Loop({}, r, FetchOrder(r, ready))
  BY DEF FetchReady, FoldLeft, MapThenFoldSet, Max, LoopOfFetches!Loop, LoopOfFetches!FoldLeft,
         LoopOfFetches!MapThenFoldSet, LoopOfFetches!Max

\* fetchAll looks at each publication that is ready.
LEMMA FetchOrderLists ==
  ASSUME NEW r \in ReceiverState, NEW ready \in SUBSET Pub, \A p \in ready : r.fetch[p] # None
  PROVE  Lists(FetchOrder(r, ready), ready)
<1> DEFINE R == { qp \in ready \X ready : Before(r, qp[1], qp[2]) }
<1>1. IsFiniteSet(ready)
  <2>1. IsFiniteSet(Pub)
    BY Constants, FS_Interval
  <2> QED
    BY <2>1, FS_Subset
<1>2. \A p \in ready : r.fetch[p].attempts \in Nat /\ p \in Nat
  <2>1. \A p \in ready : r.fetch[p] \in Entry
    BY DEF ReceiverState
  <2> QED
    BY <2>1, Constants DEF Entry
<1>3. Orders(R, ready)
  BY <1>2 DEF Orders, Before
<1>4. \A p \in ready : { q \in ready : <<q, p>> \in R } = { q \in ready : Before(r, q, p) }
  OBVIOUS
<1> HIDE DEF R
<1>5. Ranks(R, ready) = [p \in ready |-> Cardinality({ q \in ready : Before(r, q, p) })]
  BY <1>4 DEF Ranks
<1>6. FetchOrder(r, ready) = Sorted(ready, Ranks(R, ready))
  BY <1>5 DEF FetchOrder
<1> QED
  BY <1>1, <1>3, <1>6, SortedLists

\* Its loop keeps the invariant and leaves nothing due, if there is room.
LEMMA FetchReadyGood ==
  ASSUME window \in Nat, NEW a, NEW r, NEW ready \in SUBSET Pub,
         Turning(r, a, ready), \A p \in ready : r.fetch[p] # None
  PROVE  /\ Good(FetchReady(r, ready), a)
         /\ Calm(FetchReady(r, ready))
<1> DEFINE A == { x \in ReceiverState : Turning(x, a, ready) }
           seq == FetchOrder(r, ready)
           end == LoopOfFetches!Loop({}, r, seq)
           Not(p) == { x \in ReceiverState : ~In(x, p, "ready") }
<1>1. r \in A
  BY DEF Turning, Good
<1>2. seq \in Seq(ready) /\ \A p \in ready : \E k \in 1 .. Len(seq) : seq[k] = p
  BY <1>1, FetchOrderLists DEF Lists
<1> HIDE DEF seq
<1>3. ASSUME NEW x \in A, NEW p \in ready
      PROVE  /\ FetchTurn(x, p) \in A
             /\ \A q \in Pub : q # p => (In(FetchTurn(x, p), q, "ready") <=> In(x, q, "ready"))
             /\ window >= MaxSeq => ~In(FetchTurn(x, p), p, "ready")
  <2> DEFINE t == FetchTurn(x, p)
  <2>1. /\ Turning(t, a, ready)
        /\ \A q \in Pub : q # p => (In(t, q, "ready") <=> In(x, q, "ready"))
        /\ window >= MaxSeq => ~In(t, p, "ready")
    BY FetchTurnStep
  <2> HIDE DEF t
  <2>2. t \in ReceiverState
    BY <2>1 DEF Turning, Good
  <2> QED
    BY <2>1, <2>2 DEF t
<1> HIDE DEF A
<1>4. LoopOfFetches!Closed({}, A, ready)
  BY <1>3 DEF LoopOfFetches!Closed
<1>5. end \in A
  BY <1>1, <1>2, <1>4, LoopOfFetches!FoldInvariant
<1>6. ASSUME window >= MaxSeq, NEW p \in ready
      PROVE  ~In(end, p, "ready")
  <2> DEFINE G == Not(p)
  <2>1. PICK k \in 1 .. Len(seq) : seq[k] = p
    BY <1>2
  <2>2. \A x \in A : FetchTurn(x, p) \in G
    BY <1>3, <1>6 DEF A
  <2>3. ASSUME NEW x \in A \cap G, NEW q \in ready PROVE FetchTurn(x, q) \in A \cap G
    <3>1. FetchTurn(x, q) \in A
      BY <1>3
    <3>2. p # q => ~In(FetchTurn(x, q), p, "ready")
      BY <1>3
    <3>3. p = q => ~In(FetchTurn(x, q), p, "ready")
      BY <1>3, <1>6
    <3> QED
      BY <3>1, <3>2, <3>3 DEF A
  <2> HIDE DEF G
  <2>4. LoopOfFetches!Closed({}, A \cap G, ready)
    BY <2>3 DEF LoopOfFetches!Closed
  <2>5. \A x \in A : FetchTurn(x, seq[k]) \in G
    BY <2>1, <2>2
  <2>6. end \in G
    BY <1>1, <1>2, <1>4, <2>4, <2>5, LoopOfFetches!FoldReaches
  <2> HIDE DEF end
  <2> QED
    BY <2>6 DEF G
<1> HIDE DEF end
<1>7. FetchReady(r, ready) = end
  BY SameFetches DEF end, seq
<1>8. Turning(end, a, ready)
  BY <1>5 DEF A
<1>9. window >= MaxSeq => \A p \in Pub : ~In(end, p, "ready")
  BY <1>6, <1>8 DEF Turning
<1> QED
  BY <1>7, <1>8, <1>9 DEF Turning, Calm

\* Ending entries that nothing is asked for
LEMMA StepAtMany ==
  ASSUME window \in Nat, NEW a, NEW r, Good(r, a), NEW t \in ReceiverState,
         NEW b,
         \A q \in Pub : Fine(t, q, b) /\ (In(t, q, "fetching") => In(r, q, "fetching")),
         NoExtension => t.wrong = r.wrong
  PROVE  Good(t, b)
<1>1. Fetching(t) \in SUBSET Fetching(r)
  BY DEF Fetching, In
<1>2. Cardinality(Fetching(t)) <= Cardinality(Fetching(r))
  BY <1>1, FetchingFinite, FS_Subset
<1>3. Cardinality(Fetching(r)) <= window
  BY DEF Good
<1>4. Cardinality(Fetching(t)) <= window
  BY <1>2, <1>3, FetchingFinite
<1> QED
  BY <1>4 DEF Good

\* fetchAll
LEMMA FetchAllGood ==
  ASSUME window \in Nat, NEW a, NEW r, Good(r, a)
  PROVE  Good(FetchAll(r), a) /\ Calm(FetchAll(r))
<1> DEFINE waiting == { p \in Pub : r.fetch[p] # None /\ r.fetch[p].status \in {"ready", "backoff"} }
           expired == { p \in waiting : r.fetch[p].late }
           ready == { p \in waiting \ expired : r.fetch[p].status = "ready" }
           f == [p \in Pub |-> IF p \in expired THEN None ELSE r.fetch[p]]
           k1 == [r EXCEPT !.fetch = f]
           kept == [k1 EXCEPT !.excused = @ \cup expired]
<1>1. r \in ReceiverState /\ \A p \in Pub : Fine(r, p, a)
  BY DEF Good
<1>2. /\ ready \in SUBSET Pub /\ expired \in SUBSET Pub
      /\ \A p \in ready : p \notin expired /\ In(r, p, "ready")
      /\ \A p \in expired : In(r, p, "ready") \/ In(r, p, "backoff")
      /\ \A p \in Pub : In(r, p, "ready") => p \in ready \/ p \in expired
  BY DEF In
<1>3. FetchAll(r) = FetchReady(kept, ready)
  <2>1. kept = [r EXCEPT !.fetch = f, !.excused = @ \cup expired]
    <3> HIDE DEF expired, f
    <3> QED
      BY <1>1 DEF ReceiverState
  <2> QED
    BY <2>1 DEF FetchAll
<1> HIDE DEF waiting, expired, ready
<1>4. f \in [Pub -> Entry \cup {None}]
  BY <1>1 DEF ReceiverState
<1>5. \A p \in Pub : f[p] = IF p \in expired THEN None ELSE r.fetch[p]
  OBVIOUS
<1> HIDE DEF f
<1>6. /\ k1 \in ReceiverState /\ k1.fetch = f
      /\ k1.requests = r.requests /\ k1.checking = r.checking
      /\ k1.collecting = r.collecting /\ k1.timers = r.timers
      /\ k1.given = r.given /\ k1.wrong = r.wrong
  BY <1>1, <1>4 DEF ReceiverState
<1> HIDE DEF k1
<1>7. /\ kept \in ReceiverState /\ kept.fetch = k1.fetch
      /\ kept.requests = k1.requests /\ kept.checking = k1.checking
      /\ kept.collecting = k1.collecting /\ kept.timers = k1.timers
      /\ kept.given = k1.given /\ kept.wrong = k1.wrong
  BY <1>2, <1>6 DEF ReceiverState
<1> HIDE DEF kept
<1>8. ASSUME NEW p \in Pub
      PROVE  Fine(kept, p, a) /\ (In(kept, p, "fetching") => In(r, p, "fetching"))
  <2>1. CASE p \notin expired
    <3>1. SameAt(r, kept, p)
      BY <1>5, <1>6, <1>7, <2>1 DEF SameAt
    <3> QED
      BY <1>1, <3>1, SameIsFine DEF SameAt, In
  <2>2. CASE p \in expired
    <3>1. /\ kept.fetch[p] = None /\ kept.requests = r.requests /\ kept.checking = r.checking
          /\ kept.collecting = r.collecting /\ kept.timers = r.timers /\ kept.given = r.given
      BY <1>5, <1>6, <1>7, <2>2
    <3>2. ~In(r, p, "fetching") /\ ~In(r, p, "delivered")
      BY <1>2, <2>2 DEF In
    <3>3. \A x : ~In(kept, p, x)
      BY <3>1 DEF In
    <3>4. Fine(r, p, a)
      BY <1>1
    <3>5. p \in Segmented => OneAtATime(kept, p)
      BY <3>1, <3>2, <3>3, <3>4 DEF Fine, OneAtATime
    <3>6. \A s \in ProducerSub : OnceFor(kept, p, s)
      BY <3>1, <3>4 DEF Fine, OnceFor
    <3>7. Served(kept, p)
      BY <3>3 DEF Served
    <3>8. p > a => Unreported(kept, p)
      BY <3>1, <3>4 DEF Fine, Unreported
    <3> QED
      BY <3>1, <3>3, <3>5, <3>6, <3>7, <3>8 DEF Fine
  <2> QED
    BY <2>1, <2>2
<1>9. Good(kept, a)
  BY <1>6, <1>7, <1>8, StepAtMany
<1>10. Turning(kept, a, ready)
  <2>1. \A q \in ready : ~In(kept, q, "delivered")
    BY <1>2, <1>5, <1>6, <1>7 DEF In
  <2>2. \A q \in Pub \ ready : ~In(kept, q, "ready")
    BY <1>2, <1>5, <1>6, <1>7 DEF In
  <2> QED
    BY <1>9, <2>1, <2>2 DEF Turning
<1>11. \A p \in ready : kept.fetch[p] # None
  BY <1>2, <1>5, <1>6, <1>7 DEF In
<1> QED
  BY <1>2, <1>3, <1>10, <1>11, FetchReadyGood

--------------------------------------------------------------------------------
(*****************************************************************************)
(* What a Sync Interest brings                                               *)
(*****************************************************************************)

\* The loops over names and packets
EachName(r, seq) == FoldLeft(ProcessMapping, r, seq)
EachPacket(r, seq) == FoldLeft(ReceivePacket, r, seq)

LEMMA SameNames ==
  ASSUME NEW r, NEW seq
  PROVE  EachName(r, seq) = LoopOfNames!Loop({}, r, seq)
  BY DEF EachName, FoldLeft, MapThenFoldSet, Max, LoopOfNames!Loop, LoopOfNames!FoldLeft,
         LoopOfNames!MapThenFoldSet, LoopOfNames!Max

LEMMA SamePackets ==
  ASSUME NEW r, NEW seq
  PROVE  EachPacket(r, seq) = LoopOfPackets!Loop({}, r, seq)
  BY DEF EachPacket, FoldLeft, MapThenFoldSet, Max, LoopOfPackets!Loop, LoopOfPackets!FoldLeft,
         LoopOfPackets!MapThenFoldSet, LoopOfPackets!Max

LEMMA EachNameGood ==
  ASSUME window \in Nat, NEW a, NEW r, Good(r, a),
         NEW E \in SUBSET Pub, NEW seq \in Seq(E)
  PROVE  /\ Good(EachName(r, seq), a)
         /\ Due(r) => Due(EachName(r, seq))
<1> DEFINE d == Due(r)
           A == { x \in ReceiverState : Good(x, a) /\ (d => Due(x)) }
<1>1. r \in A
  BY DEF Good
<1> HIDE DEF d
<1>2. ASSUME NEW x \in A, NEW p \in E
      PROVE  ProcessMapping(x, p) \in A
  <2> DEFINE t == ProcessMapping(x, p)
  <2>1. Good(t, a) /\ (Due(x) => Due(t))
    BY ProcessMappingGood
  <2> HIDE DEF t
  <2>2. t \in ReceiverState
    BY <2>1 DEF Good
  <2> QED
    BY <2>1, <2>2 DEF t
<1> HIDE DEF A
<1>3. LoopOfNames!Closed({}, A, E)
  BY <1>2 DEF LoopOfNames!Closed
<1>4. LoopOfNames!Loop({}, r, seq) \in A
  BY <1>1, <1>3, LoopOfNames!FoldInvariant
<1> QED
  BY <1>4, SameNames DEF A, d

LEMMA EachPacketGood ==
  ASSUME window \in Nat, NEW a, NEW r, Good(r, a),
         NEW E \in SUBSET Pub, \A q \in E : q \notin Segmented, NEW seq \in Seq(E)
  PROVE  /\ Good(EachPacket(r, seq), a)
         /\ Due(r) => Due(EachPacket(r, seq))
<1> DEFINE d == Due(r)
           A == { x \in ReceiverState : Good(x, a) /\ (d => Due(x)) }
<1>1. r \in A
  BY DEF Good
<1> HIDE DEF d
<1>2. ASSUME NEW x \in A, NEW q \in E
      PROVE  ReceivePacket(x, q) \in A
  <2> DEFINE t == ReceivePacket(x, q)
  <2>1. Good(t, a) /\ (Due(x) => Due(t))
    BY ReceivePacketGood
  <2> HIDE DEF t
  <2>2. t \in ReceiverState
    BY <2>1 DEF Good
  <2> QED
    BY <2>1, <2>2 DEF t
<1> HIDE DEF A
<1>3. LoopOfPackets!Closed({}, A, E)
  BY <1>2 DEF LoopOfPackets!Closed
<1>4. LoopOfPackets!Loop({}, r, seq) \in A
  BY <1>1, <1>3, LoopOfPackets!FoldInvariant
<1> QED
  BY <1>4, SamePackets DEF A, d

\* Numbers in order, and the other way round
LEMMA InOrderLists ==
  ASSUME NEW S \in SUBSET Pub
  PROVE  Lists(InOrder(S), S) /\ NewestFirst(S) \in Seq(S)
<1> DEFINE R == { qp \in S \X S : qp[1] < qp[2] }
           seq == InOrder(S)
<1>1. IsFiniteSet(S)
  <2>1. IsFiniteSet(Pub)
    BY Constants, FS_Interval
  <2> QED
    BY <2>1, FS_Subset
<1>2. \A p \in S : p \in Nat
  BY Constants
<1>3. Orders(R, S)
  BY <1>2 DEF Orders
<1>4. \A p \in S : { q \in S : <<q, p>> \in R } = { q \in S : q < p }
  OBVIOUS
<1> HIDE DEF R
<1>5. Ranks(R, S) = [p \in S |-> Cardinality({ q \in S : q < p })]
  BY <1>4 DEF Ranks
<1>6. seq = Sorted(S, Ranks(R, S))
  BY <1>5 DEF InOrder
<1> HIDE DEF seq
<1>7. Lists(seq, S)
  BY <1>1, <1>3, <1>6, SortedLists
<1>8. Reverse(seq) \in Seq(S)
  <2>1. seq \in Seq(S) /\ Len(seq) \in Nat
    BY <1>7 DEF Lists
  <2>2. \A i \in 1 .. Len(seq) : (Len(seq) - i) + 1 \in 1 .. Len(seq)
    BY <2>1
  <2>3. Reverse(seq) \in [1 .. Len(seq) -> S]
    BY <2>1, <2>2 DEF Reverse
  <2> QED
    BY <2>1, <2>3
<1> QED
  BY <1>7, <1>8 DEF NewestFirst, seq

\* Once fetchAll has run, nothing that is due lacks an event.
LEMMA FetchIfQueuedGood ==
  ASSUME window \in Nat, NEW a, NEW r, Good(r, a), Due(r)
  PROVE  Good(FetchIfQueued(r), a) /\ Calm(FetchIfQueued(r))
<1>1. CASE r.queued
  BY <1>1, FetchAllGood DEF FetchIfQueued
<1>2. CASE ~r.queued
  BY <1>2 DEF FetchIfQueued, Due, Calm
<1> QED
  BY <1>1, <1>2

\* Knowing more names
LEMMA NamedGood ==
  ASSUME NEW a, NEW r, Good(r, a), NEW names \in SUBSET Pub
  PROVE  LET t == [r EXCEPT !.mapping = names]
         IN  Good(t, a) /\ (Due(r) => Due(t))
<1> DEFINE t == [r EXCEPT !.mapping = names]
<1>1. r \in ReceiverState
  BY DEF Good
<1>2. /\ t \in ReceiverState /\ t.queued = r.queued /\ t.wrong = r.wrong
      /\ t.fetch = r.fetch /\ t.requests = r.requests /\ t.checking = r.checking
      /\ t.collecting = r.collecting /\ t.timers = r.timers /\ t.given = r.given
  BY <1>1 DEF ReceiverState
<1> HIDE DEF t
<1>3. \A q \in Pub : SameAt(r, t, q)
  BY <1>2 DEF SameAt
<1>4. Good(t, a) /\ (Due(r) => Due(t))
  BY <1>2, <1>3, SameIsGood
<1> QED
  BY <1>4 DEF t

\* onRecvExtraBlocks and onRecvExtraData
LEMMA OnRecvExtraBlocksGood ==
  ASSUME window \in Nat, NEW a, NEW r, Good(r, a), Due(r), NEW b \in Blocks
  PROVE  Good(OnRecvExtraBlocks(r, b), a) /\ Calm(OnRecvExtraBlocks(r, b))
<1> DEFINE names == (r.mapping \cup b.notified) \cup b.repeated
           named == [r EXCEPT !.mapping = names]
           stored == EachPacket(named, NewestFirst(b.data))
           seq == NewestFirst(b.notified) \o NewestFirst(b.repeated)
           end == EachName(stored, seq)
           E == b.notified \cup b.repeated
<1>1. /\ b.notified \in SUBSET Pub /\ b.repeated \in SUBSET Pub /\ b.data \in SUBSET Pub
      /\ \A q \in b.data : q \notin Segmented
  BY PubSubAssumption
<1>2. E \in SUBSET Pub
  BY <1>1
<1>3. OnRecvExtraBlocks(r, b) = FetchIfQueued(end)
  BY DEF OnRecvExtraBlocks, EachName, EachPacket
<1>4. names \in SUBSET Pub
  BY <1>1 DEF Good, ReceiverState
<1>5. Good(named, a) /\ Due(named)
  <2> HIDE DEF names
  <2> QED
    BY <1>4, NamedGood
<1> HIDE DEF named
<1>6. NewestFirst(b.data) \in Seq(b.data)
  BY <1>1, InOrderLists
<1>7. Good(stored, a) /\ Due(stored)
  BY <1>1, <1>5, <1>6, EachPacketGood
<1> HIDE DEF stored
<1>8. seq \in Seq(E)
  <2> DEFINE x == NewestFirst(b.notified)
             y == NewestFirst(b.repeated)
  <2>1. x \in Seq(b.notified) /\ y \in Seq(b.repeated)
    BY <1>1, InOrderLists
  <2> HIDE DEF x, y
  <2>2. x \in Seq(E) /\ y \in Seq(E)
    <3>1. x \in [1 .. Len(x) -> E] /\ y \in [1 .. Len(y) -> E] /\ Len(x) \in Nat /\ Len(y) \in Nat
      BY <2>1
    <3> HIDE DEF E
    <3> QED
      BY <3>1
  <2> HIDE DEF E
  <2>3. x \o y \in Seq(E)
    BY <2>2
  <2> QED
    BY <2>3 DEF x, y
<1> HIDE DEF seq, E
<1>9. Good(end, a) /\ Due(end)
  BY <1>2, <1>7, <1>8, EachNameGood
<1> HIDE DEF end
<1> QED
  BY <1>3, <1>9, FetchIfQueuedGood

\* updateCallbackInternal: from then on, the numbers up to high are reported.
LEMMA UpdateCallbackGood ==
  ASSUME window \in Nat, NEW low \in Nat \ {0}, NEW high \in low .. MaxSeq,
         NEW r, Good(r, low - 1)
  PROVE  Good(UpdateCallback(r, low, high), high) /\ Calm(UpdateCallback(r, low, high))
<1> DEFINE a == low - 1
           producers == { s \in ProducerSub : sub[s] = "on" }
           x(p) == AddPublicationFetch(r, p, producers)
           f == [p \in Pub |-> IF p \in low .. high THEN x(p).fetch[p] ELSE r.fetch[p]]
           wanted == [r EXCEPT !.fetch = f]
           known == IF NameSubs = {} THEN {} ELSE KnownPrefix(r, low, high)
           E == Pub \cap (low .. high)
           end == EachName(wanted, InOrder(known))
<1>1. r \in ReceiverState /\ \A p \in Pub : Fine(r, p, a)
  BY DEF Good
<1> high \in Nat
  BY Constants
<1>2. producers \in SUBSET Sub /\ producers \subseteq ProducerSub
  BY Constants
<1>3. UpdateCallback(r, low, high) = FetchAll(EachName(wanted, InOrder(known)))
  BY <1>1 DEF UpdateCallback, EachName, ReceiverState
<1> HIDE DEF producers
<1>4. \A p \in Pub : Enters(r, x(p), p, producers)
  BY <1>1, <1>2, AddFields
<1> HIDE DEF x
<1>5. f \in [Pub -> Entry \cup {None}]
  <2>1. \A p \in Pub : x(p).fetch[p] \in Entry \cup {None}
    BY <1>4 DEF Enters, ReceiverState
  <2>2. \A p \in Pub : r.fetch[p] \in Entry \cup {None}
    BY <1>1 DEF ReceiverState
  <2> QED
    BY <2>1, <2>2
<1>6. \A p \in Pub : f[p] = IF p \in low .. high THEN x(p).fetch[p] ELSE r.fetch[p]
  OBVIOUS
<1> HIDE DEF f
<1>7. /\ wanted \in ReceiverState /\ wanted.fetch = f
      /\ wanted.requests = r.requests /\ wanted.checking = r.checking
      /\ wanted.collecting = r.collecting /\ wanted.timers = r.timers
      /\ wanted.given = r.given /\ wanted.wrong = r.wrong
  BY <1>1, <1>5 DEF ReceiverState
<1> HIDE DEF wanted
<1>8. ASSUME NEW p \in Pub
      PROVE  /\ Fine(wanted, p, high)
             /\ In(wanted, p, "fetching") => In(r, p, "fetching")
  <2>1. Fine(r, p, a) /\ p \in Nat
    BY <1>1, Constants
  <2>2. CASE p \notin low .. high
    <3>1. SameAt(r, wanted, p)
      BY <1>6, <1>7, <2>2 DEF SameAt
    <3>2. Fine(wanted, p, a)
      BY <2>1, <3>1, SameIsFine
    <3>3. p > high => p > a
      BY <2>1
    <3>4. Fine(wanted, p, high)
      BY <3>2, <3>3 DEF Fine
    <3> QED
      BY <3>1, <3>4 DEF SameAt, In
  <2>3. CASE p \in low .. high
    <3>1. p > a /\ ~(p > high)
      BY <2>1, <2>3
    <3>2. Unreported(r, p)
      BY <2>1, <3>1 DEF Fine
    <3>3. wanted.fetch[p] = x(p).fetch[p]
      BY <1>6, <1>7, <2>3
    <3>4. CASE producers = {}
      <4>1. SameAt(r, wanted, p)
        BY <1>4, <1>7, <3>3, <3>4 DEF SameAt, Enters
      <4>2. Fine(wanted, p, a)
        BY <2>1, <4>1, SameIsFine
      <4>3. Fine(wanted, p, high)
        BY <3>1, <4>2 DEF Fine
      <4> QED
        BY <4>1, <4>3 DEF SameAt, In
    <3>5. CASE producers # {}
      <4>1. /\ x(p).fetch[p] # None
            /\ x(p).fetch[p].status = IF r.fetch[p] = None THEN "ready" ELSE r.fetch[p].status
            /\ \A s \in Sub : x(p).fetch[p].subs[s] = IF r.fetch[p] = None THEN Once(producers)[s]
                                                      ELSE Upto(r.fetch[p].subs[s] + Once(producers)[s])
        BY <1>4, <3>5 DEF Enters
      <4>2. \A y \in {"fetching", "backoff", "delivered"} : In(wanted, p, y) <=> In(r, p, y)
        BY <3>3, <4>1 DEF In
      <4>3. ASSUME NEW s \in ProducerSub
            PROVE  wanted.given[s][p] = 0 /\ wanted.fetch[p].subs[s] \in {0, 1}
        <5>1. s \in Sub /\ Once(producers)[s] \in {0, 1}
          BY <1>2, OnceFacts, Constants
        <5>2. r.given[s][p] = 0 /\ (r.fetch[p] # None => r.fetch[p].subs[s] = 0)
          BY <3>2 DEF Unreported
        <5> QED
          BY <1>7, <3>3, <4>1, <5>1, <5>2 DEF Upto, Many
      <4>4. p \in Segmented => OneAtATime(wanted, p)
        BY <1>7, <2>1, <4>2 DEF Fine, OneAtATime
      <4>5. \A s \in ProducerSub : OnceFor(wanted, p, s)
        BY <4>3 DEF OnceFor
      <4>6. Served(wanted, p)
        BY <1>7, <2>1, <4>2 DEF Fine, Served
      <4> QED
        BY <3>1, <4>2, <4>4, <4>5, <4>6 DEF Fine
    <3> QED
      BY <3>4, <3>5
  <2> QED
    BY <2>2, <2>3
<1>9. Good(wanted, high)
  BY <1>7, <1>8, StepAtMany
<1>10. known \in SUBSET Pub
  <2>1. \A p \in KnownPrefix(r, low, high) : p \in low .. high
    BY DEF KnownPrefix
  <2>2. \A p \in low .. high : p \in Pub
    BY Constants
  <2> QED
    BY <2>1, <2>2
<1> HIDE DEF known
<1>11. InOrder(known) \in Seq(known)
  BY <1>10, InOrderLists DEF Lists
<1>12. Good(end, high)
  BY <1>9, <1>10, <1>11, EachNameGood
<1> HIDE DEF end
<1>13. UpdateCallback(r, low, high) = FetchAll(end)
  BY <1>3 DEF end
<1> QED
  BY <1>12, <1>13, FetchAllGood

--------------------------------------------------------------------------------
(*****************************************************************************)
(* Packets that come, and fetches that fail                                  *)
(*****************************************************************************)

\* A step at p that leaves it neither due nor asked for
LEMMA SettledAtOne ==
  ASSUME window \in Nat, NEW a, NEW r, Good(r, a), NEW t \in ReceiverState, NEW p \in Pub,
         \A q \in Pub : q # p => SameAt(r, t, q), Fine(t, p, a),
         ~In(t, p, "fetching"), ~In(t, p, "ready"),
         NoExtension => t.wrong = r.wrong, r.queued => t.queued
  PROVE  Good(t, a) /\ (Due(r) => Due(t))
<1>1. Good(t, a)
  BY StepAtOne
<1>2. Due(r) => Due(t)
  BY DueAtOne
<1> QED
  BY <1>1, <1>2

\* The entry of p is gone.
LEMMA ClosedGood ==
  ASSUME window \in Nat, NEW a, NEW r, Good(r, a), NEW t \in ReceiverState, NEW p \in Pub,
         \A q \in Pub : q # p => SameAt(r, t, q), t.fetch[p] = None,
         p \in Segmented => t.requests[p] = 0 /\ t.checking[p] = 0 /\ t.collecting[p] = 0,
         \A s \in ProducerSub : t.given[s][p] <= 1 /\ (p > a => t.given[s][p] = 0),
         NoExtension => t.wrong = r.wrong, r.queued => t.queued
  PROVE  Good(t, a) /\ (Due(r) => Due(t))
<1>1. \A x : ~In(t, p, x)
  BY DEF In
<1>2. p \in Segmented => OneAtATime(t, p)
  BY DEF OneAtATime
<1>3. Fine(t, p, a)
  BY <1>1, <1>2 DEF Fine, OnceFor, Served, Unreported
<1> QED
  BY <1>1, <1>3, SettledAtOne

\* How t differs from r when only the entry of p does
EntryAt(r, t, p) ==
  /\ t \in ReceiverState
  /\ \A q \in Pub : q # p => SameAt(r, t, q)
  /\ t.requests = r.requests /\ t.checking = r.checking
  /\ t.collecting = r.collecting /\ t.timers = r.timers
  /\ t.given = r.given /\ t.wrong = r.wrong /\ t.queued = r.queued

\* cleanUpFetch after a failure
LEMMA GiveUpFields ==
  ASSUME NEW r \in ReceiverState, NEW p \in Pub
  PROVE  EntryAt(r, GiveUp(r, p), p) /\ GiveUp(r, p).fetch[p] = None
<1> DEFINE s == SetEntry(r, p, None)
           t == [s EXCEPT !.excused = @ \cup {p}]
<1>1. /\ s \in ReceiverState /\ s.fetch[p] = None
      /\ \A q \in Pub : q # p => s.fetch[q] = r.fetch[q]
      /\ s.requests = r.requests /\ s.checking = r.checking
      /\ s.collecting = r.collecting /\ s.timers = r.timers
      /\ s.given = r.given /\ s.wrong = r.wrong /\ s.queued = r.queued
  BY SetEntryFields
<1>2. GiveUp(r, p) = t
  BY DEF GiveUp, CleanUpFetch
<1> HIDE DEF s
<1>3. /\ t \in ReceiverState /\ t.fetch = s.fetch
      /\ t.requests = s.requests /\ t.checking = s.checking
      /\ t.collecting = s.collecting /\ t.timers = s.timers
      /\ t.given = s.given /\ t.wrong = s.wrong /\ t.queued = s.queued
  BY <1>1 DEF ReceiverState
<1> HIDE DEF t
<1>4. \A q \in Pub : q # p => SameAt(r, t, q)
  BY <1>1, <1>3 DEF SameAt
<1> QED
  BY <1>1, <1>2, <1>3, <1>4 DEF EntryAt

\* How t differs from r when the status of the entry of p does
StatusAt(r, t, p, x) ==
  /\ EntryAt(r, t, p)
  /\ t.fetch[p] # None /\ t.fetch[p].status = x /\ t.fetch[p].subs = r.fetch[p].subs

LEMMA SetStatusFields ==
  ASSUME NEW r \in ReceiverState, NEW p \in Pub, r.fetch[p] # None,
         NEW x \in {"ready", "backoff", "delivered"}
  PROVE  StatusAt(r, SetStatus(r, p, x), p, x)
<1> DEFINE o == r.fetch[p]
           e == [o EXCEPT !.status = x]
           t == SetEntry(r, p, e)
<1>1. o \in Entry
  BY DEF ReceiverState
<1> HIDE DEF o
<1>2. e \in Entry /\ e.status = x /\ e.subs = o.subs
  BY <1>1 DEF Entry
<1>3. e # None
  <2> HIDE DEF e
  <2> QED
    BY <1>2, Constants
<1>4. SetStatus(r, p, x) = t
  BY DEF SetStatus, o
<1> HIDE DEF e
<1>5. /\ t \in ReceiverState /\ t.fetch[p] = e
      /\ \A q \in Pub : q # p => t.fetch[q] = r.fetch[q]
      /\ t.requests = r.requests /\ t.checking = r.checking
      /\ t.collecting = r.collecting /\ t.timers = r.timers
      /\ t.given = r.given /\ t.wrong = r.wrong /\ t.queued = r.queued
  BY <1>2, SetEntryFields
<1> HIDE DEF t
<1>6. \A q \in Pub : q # p => SameAt(r, t, q)
  BY <1>5 DEF SameAt
<1> QED
  BY <1>2, <1>3, <1>4, <1>5, <1>6 DEF o, StatusAt, EntryAt

\* Those and what they leave out
LEMMA ThoseFacts ==
  ASSUME NEW copies \in [Sub -> 0 .. Many], NEW who
  PROVE  /\ Those(copies, who) \in [Sub -> 0 .. Many]
         /\ \A s \in Sub : Those(copies, who)[s] = IF s \in who THEN copies[s] ELSE 0
BY DEF Those, Many

\* How t differs from r when returnData has run: nothing is pending, or the
\* other segments are to be collected, or all is delivered.
Returns(r, t, p) ==
  /\ t \in ReceiverState
  /\ \A q \in Pub : q # p => SameAt(r, t, q)
  /\ t.requests = r.requests /\ t.checking = r.checking /\ t.timers = r.timers
  /\ t.wrong = r.wrong /\ t.queued = r.queued
  /\ \/ r.fetch[p] = None /\ t = r
     \/ /\ r.fetch[p] # None /\ p \in Segmented
        /\ t.fetch = r.fetch /\ t.collecting[p] = r.collecting[p] + 1
        /\ \A s \in Sub : t.given[s][p] = IF s \in PacketSub
                                          THEN Upto(r.given[s][p] + r.fetch[p].subs[s])
                                          ELSE r.given[s][p]
     \/ /\ r.fetch[p] # None /\ t.fetch[p] = None /\ t.collecting = r.collecting
        /\ \A s \in Sub : t.given[s][p] = Upto(r.given[s][p] + r.fetch[p].subs[s])

\* returnData
LEMMA ReturnDataFields ==
  ASSUME NEW r \in ReceiverState, NEW p \in Pub
  PROVE  Returns(r, ReturnData(r, p), p)
<1>1. CASE r.fetch[p] = None
  <2>1. ReturnData(r, p) = r
    BY <1>1 DEF ReturnData
  <2>2. \A q \in Pub : SameAt(r, r, q)
    BY DEF SameAt
  <2> QED
    BY <1>1, <2>1, <2>2 DEF Returns
<1>2. CASE r.fetch[p] # None
  <2> DEFINE copies == r.fetch[p].subs
             blob == { s \in Sub \ PacketSub : copies[s] > 0 }
             these == IF p \in Segmented THEN Those(copies, PacketSub) ELSE copies
             now == Deliver(r, p, these, p)
  <2>1. copies \in [Sub -> 0 .. Many]
    <3>1. r.fetch[p] \in Entry
      BY <1>2 DEF ReceiverState
    <3> QED
      BY <3>1 DEF Entry
  <2>2. ReturnData(r, p) = IF p \in Segmented /\ blob # {}
                           THEN [now EXCEPT !.collecting = Add(@, p, 1)]
                           ELSE SetEntry(now, p, None)
    BY <1>2 DEF ReturnData, CleanUpFetch
  <2>3. blob = {} => \A s \in Sub : s \notin PacketSub => copies[s] = 0
    <3> HIDE DEF copies
    <3> QED
      BY <2>1 DEF Many
  <2> HIDE DEF copies, blob
  <2>4. these \in [Sub -> 0 .. Many]
    BY <2>1, ThoseFacts
  <2>5. /\ p \in Segmented => \A s \in Sub : these[s] = IF s \in PacketSub THEN copies[s] ELSE 0
        /\ ~(p \in Segmented /\ blob # {}) => \A s \in Sub : these[s] = copies[s]
    BY <2>1, <2>3, ThoseFacts
  <2> HIDE DEF these
  <2>6. /\ now \in ReceiverState
        /\ \A s \in Sub : now.given[s][p] = Upto(r.given[s][p] + these[s])
        /\ \A s \in Sub, o \in Pub : o # p => now.given[s][o] = r.given[s][o]
        /\ now.wrong = r.wrong
        /\ now.fetch = r.fetch /\ now.requests = r.requests /\ now.checking = r.checking
        /\ now.collecting = r.collecting /\ now.timers = r.timers /\ now.queued = r.queued
    BY <2>4, DeliverFields
  <2> HIDE DEF now
  <2>7. CASE p \in Segmented /\ blob # {}
    <3> DEFINE c == Add(now.collecting, p, 1)
               t == [now EXCEPT !.collecting = c]
    <3>1. c \in [Pub -> Nat] /\ c[p] = r.collecting[p] + 1 /\ \A q \in Pub : q # p => c[q] = r.collecting[q]
      <4>1. now.collecting \in [Pub -> Nat]
        BY <2>6 DEF ReceiverState
      <4>2. now.collecting[p] + 1 \in Nat
        BY <4>1
      <4> QED
        BY <2>6, <4>1, <4>2, AddCount
    <3>2. ReturnData(r, p) = t
      BY <2>2, <2>7
    <3> HIDE DEF c
    <3>3. /\ t \in ReceiverState /\ t.collecting = c /\ t.wrong = now.wrong
          /\ t.fetch = now.fetch /\ t.requests = now.requests /\ t.checking = now.checking
          /\ t.given = now.given /\ t.timers = now.timers /\ t.queued = now.queued
      BY <2>6, <3>1 DEF ReceiverState
    <3> HIDE DEF t
    <3>4. \A q \in Pub : q # p => SameAt(r, t, q)
      BY <2>6, <3>1, <3>3 DEF SameAt
    <3>5. ASSUME NEW s \in Sub
          PROVE  t.given[s][p] = IF s \in PacketSub THEN Upto(r.given[s][p] + copies[s])
                                 ELSE r.given[s][p]
      <4>1. r.given[s][p] \in 0 .. Many
        BY DEF ReceiverState
      <4> QED
        BY <2>5, <2>6, <2>7, <3>3, <4>1 DEF Upto, Many
    <3>6. Returns(r, t, p)
      BY <1>2, <2>6, <2>7, <3>1, <3>3, <3>4, <3>5 DEF Returns, copies
    <3> QED
      BY <3>2, <3>6
  <2>8. CASE ~(p \in Segmented /\ blob # {})
    <3> DEFINE t == SetEntry(now, p, None)
    <3>1. ReturnData(r, p) = t
      BY <2>2, <2>8
    <3>2. /\ t \in ReceiverState /\ t.fetch[p] = None
          /\ \A q \in Pub : q # p => t.fetch[q] = now.fetch[q]
          /\ t.requests = now.requests /\ t.checking = now.checking
          /\ t.collecting = now.collecting /\ t.timers = now.timers
          /\ t.given = now.given /\ t.wrong = now.wrong /\ t.queued = now.queued
      BY <2>6, SetEntryFields
    <3> HIDE DEF t
    <3>3. \A q \in Pub : q # p => SameAt(r, t, q)
      BY <2>6, <3>2 DEF SameAt
    <3>4. \A s \in Sub : t.given[s][p] = Upto(r.given[s][p] + copies[s])
      BY <2>5, <2>6, <2>8, <3>2
    <3>5. Returns(r, t, p)
      BY <1>2, <2>6, <3>2, <3>3, <3>4 DEF Returns, copies
    <3> QED
      BY <3>1, <3>5
  <2> QED
    BY <2>7, <2>8
<1> QED
  BY <1>1, <1>2

\* returnData, in a state r that differs from the good state g in what is said
\* of the packet of p: each subscription to a producer gets it once.
LEMMA ReturnDataGood ==
  ASSUME window \in Nat, NEW a, NEW g, Good(g, a), NEW r \in ReceiverState, NEW p \in Pub,
         \A q \in Pub : q # p => SameAt(g, r, q),
         r.given = g.given, r.wrong = g.wrong, r.queued = g.queued,
         r.fetch[p] # None => g.fetch[p] # None /\ r.fetch[p].subs = g.fetch[p].subs,
         p \in Segmented => /\ r.requests[p] = 0 /\ r.checking[p] = 0 /\ r.collecting[p] = 0
                            /\ g.collecting[p] = 0
                            /\ r.fetch[p] # None => In(r, p, "delivered")
  PROVE  Good(ReturnData(r, p), a) /\ (Due(g) => Due(ReturnData(r, p)))
<1> DEFINE t == ReturnData(r, p)
<1>1. Returns(r, t, p)
  BY ReturnDataFields
<1> HIDE DEF t
<1>2. /\ t \in ReceiverState
      /\ t.requests = r.requests /\ t.checking = r.checking /\ t.timers = r.timers
      /\ t.wrong = g.wrong /\ t.queued = g.queued
      /\ \A q \in Pub : q # p => SameAt(g, t, q)
  BY <1>1 DEF Returns, SameAt
<1>3. Fine(g, p, a) /\ g \in ReceiverState
  BY DEF Good
<1>4. ASSUME NEW s \in ProducerSub
      PROVE  /\ s \in Sub /\ r.given[s][p] \in Nat /\ r.given[s][p] <= 1
             /\ r.fetch[p] # None => /\ r.fetch[p].subs[s] \in Nat
                                     /\ r.given[s][p] + r.fetch[p].subs[s] <= 1
             /\ p > a => /\ r.given[s][p] = 0
                         /\ r.fetch[p] # None => r.fetch[p].subs[s] = 0
  <2>1. s \in Sub
    BY Constants
  <2>2. r.given[s][p] \in Nat
    BY <2>1 DEF ReceiverState, Many
  <2>3. r.fetch[p] # None => r.fetch[p].subs[s] \in Nat
    <3>1. r.fetch[p] # None => r.fetch[p] \in Entry
      BY DEF ReceiverState
    <3>2. r.fetch[p] # None => r.fetch[p].subs \in [Sub -> 0 .. Many]
      BY <3>1 DEF Entry
    <3> QED
      BY <2>1, <3>2 DEF Many
  <2>4. OnceFor(g, p, s) /\ (p > a => Unreported(g, p))
    BY <1>3 DEF Fine
  <2> QED
    BY <2>1, <2>2, <2>3, <2>4 DEF OnceFor, Unreported
<1>5. CASE t.fetch[p] = None /\ t.collecting = r.collecting
           /\ \A s \in ProducerSub : t.given[s][p] <= 1 /\ (p > a => t.given[s][p] = 0)
  <2>1. Good(t, a) /\ (Due(g) => Due(t))
    BY <1>2, <1>5, ClosedGood
  <2> QED
    BY <2>1 DEF t
<1>6. CASE r.fetch[p] = None /\ t = r
  <2>1. \A s \in ProducerSub : t.given[s][p] <= 1 /\ (p > a => t.given[s][p] = 0)
    BY <1>4, <1>6
  <2> QED
    BY <1>5, <1>6, <2>1
<1>7. CASE r.fetch[p] # None /\ t.fetch[p] = None /\ t.collecting = r.collecting
           /\ \A s \in Sub : t.given[s][p] = Upto(r.given[s][p] + r.fetch[p].subs[s])
  <2>1. \A s \in ProducerSub : t.given[s][p] <= 1 /\ (p > a => t.given[s][p] = 0)
    BY <1>4, <1>7 DEF Upto, Many
  <2> QED
    BY <1>5, <1>7, <2>1
<1>8. CASE /\ r.fetch[p] # None /\ p \in Segmented
           /\ t.fetch = r.fetch /\ t.collecting[p] = r.collecting[p] + 1
           /\ \A s \in Sub : t.given[s][p] = IF s \in PacketSub
                                             THEN Upto(r.given[s][p] + r.fetch[p].subs[s])
                                             ELSE r.given[s][p]
  <2>1. In(t, p, "delivered") /\ ~In(t, p, "fetching") /\ ~In(t, p, "ready") /\ ~In(t, p, "backoff")
    BY <1>8 DEF In
  <2>2. OneAtATime(t, p)
    BY <1>2, <1>8, <2>1 DEF OneAtATime
  <2>3. ASSUME NEW s \in ProducerSub PROVE OnceFor(t, p, s)
    <3>1. t.given[s][p] <= 1
      BY <1>4, <1>8 DEF Upto, Many
    <3>2. s \notin PacketSub => t.given[s][p] + t.fetch[p].subs[s] <= 1
      BY <1>4, <1>8
    <3> QED
      BY <1>8, <3>1, <3>2 DEF OnceFor
  <2>4. Served(t, p)
    BY <1>2, <1>8, <2>1 DEF Served
  <2>5. p > a => Unreported(t, p)
    BY <1>4, <1>8 DEF Unreported, Upto, Many
  <2>6. Fine(t, p, a)
    BY <2>2, <2>3, <2>4, <2>5 DEF Fine
  <2>7. Good(t, a) /\ (Due(g) => Due(t))
    BY <1>2, <2>1, <2>6, SettledAtOne
  <2> QED
    BY <2>7 DEF t
<1> QED
  BY <1>1, <1>6, <1>7, <1>8 DEF Returns

\* How t differs from r when only counts at p do
CountsAt(r, t, p) ==
  /\ t \in ReceiverState /\ t.fetch = r.fetch /\ t.given = r.given
  /\ t.wrong = r.wrong /\ t.queued = r.queued
  /\ \A q \in Pub : q # p => SameAt(r, t, q)

RequestsChange(r, t, p, n) ==
  /\ CountsAt(r, t, p) /\ t.requests[p] = r.requests[p] + n
  /\ t.checking = r.checking /\ t.collecting = r.collecting /\ t.timers = r.timers

CheckingChange(r, t, p, n) ==
  /\ CountsAt(r, t, p) /\ t.checking[p] = r.checking[p] + n
  /\ t.requests = r.requests /\ t.collecting = r.collecting /\ t.timers = r.timers

CollectingChange(r, t, p, n) ==
  /\ CountsAt(r, t, p) /\ t.collecting[p] = r.collecting[p] + n
  /\ t.requests = r.requests /\ t.checking = r.checking /\ t.timers = r.timers

TimersChange(r, t, p, n) ==
  /\ CountsAt(r, t, p) /\ t.timers[p] = r.timers[p] + n
  /\ t.requests = r.requests /\ t.checking = r.checking /\ t.collecting = r.collecting

LEMMA RequestsFields ==
  ASSUME NEW r \in ReceiverState, NEW p \in Pub, NEW n \in Int, r.requests[p] + n \in Nat
  PROVE  RequestsChange(r, [r EXCEPT !.requests = Add(@, p, n)], p, n)
<1> DEFINE c == Add(r.requests, p, n)
           t == [r EXCEPT !.requests = c]
<1>1. c \in [Pub -> Nat] /\ c[p] = r.requests[p] + n /\ \A q \in Pub : q # p => c[q] = r.requests[q]
  <2>1. r.requests \in [Pub -> Nat]
    BY DEF ReceiverState
  <2> QED
    BY <2>1, AddCount
<1> HIDE DEF c
<1>2. /\ t \in ReceiverState /\ t.requests = c
      /\ t.fetch = r.fetch /\ t.checking = r.checking
      /\ t.collecting = r.collecting /\ t.timers = r.timers
      /\ t.given = r.given /\ t.wrong = r.wrong /\ t.queued = r.queued
  BY <1>1 DEF ReceiverState
<1>3. [r EXCEPT !.requests = Add(@, p, n)] = t
  BY DEF c
<1> HIDE DEF t
<1>4. \A q \in Pub : q # p => SameAt(r, t, q)
  BY <1>1, <1>2 DEF SameAt
<1>5. RequestsChange(r, t, p, n)
  BY <1>1, <1>2, <1>4 DEF RequestsChange, CountsAt
<1> QED
  BY <1>3, <1>5

LEMMA CheckingFields ==
  ASSUME NEW r \in ReceiverState, NEW p \in Pub, NEW n \in Int, r.checking[p] + n \in Nat
  PROVE  CheckingChange(r, [r EXCEPT !.checking = Add(@, p, n)], p, n)
<1> DEFINE c == Add(r.checking, p, n)
           t == [r EXCEPT !.checking = c]
<1>1. c \in [Pub -> Nat] /\ c[p] = r.checking[p] + n /\ \A q \in Pub : q # p => c[q] = r.checking[q]
  <2>1. r.checking \in [Pub -> Nat]
    BY DEF ReceiverState
  <2> QED
    BY <2>1, AddCount
<1> HIDE DEF c
<1>2. /\ t \in ReceiverState /\ t.checking = c
      /\ t.fetch = r.fetch /\ t.requests = r.requests
      /\ t.collecting = r.collecting /\ t.timers = r.timers
      /\ t.given = r.given /\ t.wrong = r.wrong /\ t.queued = r.queued
  BY <1>1 DEF ReceiverState
<1>3. [r EXCEPT !.checking = Add(@, p, n)] = t
  BY DEF c
<1> HIDE DEF t
<1>4. \A q \in Pub : q # p => SameAt(r, t, q)
  BY <1>1, <1>2 DEF SameAt
<1>5. CheckingChange(r, t, p, n)
  BY <1>1, <1>2, <1>4 DEF CheckingChange, CountsAt
<1> QED
  BY <1>3, <1>5

LEMMA CollectingFields ==
  ASSUME NEW r \in ReceiverState, NEW p \in Pub, NEW n \in Int, r.collecting[p] + n \in Nat
  PROVE  CollectingChange(r, [r EXCEPT !.collecting = Add(@, p, n)], p, n)
<1> DEFINE c == Add(r.collecting, p, n)
           t == [r EXCEPT !.collecting = c]
<1>1. c \in [Pub -> Nat] /\ c[p] = r.collecting[p] + n /\ \A q \in Pub : q # p => c[q] = r.collecting[q]
  <2>1. r.collecting \in [Pub -> Nat]
    BY DEF ReceiverState
  <2> QED
    BY <2>1, AddCount
<1> HIDE DEF c
<1>2. /\ t \in ReceiverState /\ t.collecting = c
      /\ t.fetch = r.fetch /\ t.requests = r.requests
      /\ t.checking = r.checking /\ t.timers = r.timers
      /\ t.given = r.given /\ t.wrong = r.wrong /\ t.queued = r.queued
  BY <1>1 DEF ReceiverState
<1>3. [r EXCEPT !.collecting = Add(@, p, n)] = t
  BY DEF c
<1> HIDE DEF t
<1>4. \A q \in Pub : q # p => SameAt(r, t, q)
  BY <1>1, <1>2 DEF SameAt
<1>5. CollectingChange(r, t, p, n)
  BY <1>1, <1>2, <1>4 DEF CollectingChange, CountsAt
<1> QED
  BY <1>3, <1>5

LEMMA TimersFields ==
  ASSUME NEW r \in ReceiverState, NEW p \in Pub, NEW n \in Int, r.timers[p] + n \in Nat
  PROVE  TimersChange(r, [r EXCEPT !.timers = Add(@, p, n)], p, n)
<1> DEFINE c == Add(r.timers, p, n)
           t == [r EXCEPT !.timers = c]
<1>1. c \in [Pub -> Nat] /\ c[p] = r.timers[p] + n /\ \A q \in Pub : q # p => c[q] = r.timers[q]
  <2>1. r.timers \in [Pub -> Nat]
    BY DEF ReceiverState
  <2> QED
    BY <2>1, AddCount
<1> HIDE DEF c
<1>2. /\ t \in ReceiverState /\ t.timers = c
      /\ t.fetch = r.fetch /\ t.requests = r.requests
      /\ t.checking = r.checking /\ t.collecting = r.collecting
      /\ t.given = r.given /\ t.wrong = r.wrong /\ t.queued = r.queued
  BY <1>1 DEF ReceiverState
<1>3. [r EXCEPT !.timers = Add(@, p, n)] = t
  BY DEF c
<1> HIDE DEF t
<1>4. \A q \in Pub : q # p => SameAt(r, t, q)
  BY <1>1, <1>2 DEF SameAt
<1>5. TimersChange(r, t, p, n)
  BY <1>1, <1>2, <1>4 DEF TimersChange, CountsAt
<1> QED
  BY <1>3, <1>5

\* The rest of a publication: what is put together is the publication itself.
LEMMA DecodeRight ==
  ASSUME NEW p \in Pub, NEW blocks \in Answers(p)
  PROVE  DecodeInnerSegments(blocks) \in {NoAssembly, Segments(p, SegmentCount)}
<1> DEFINE n == SegmentCount
           whole == Segments(p, n)
           Block == Range(whole) \cup {Segment(0, 1, 1), Malformed(p)}
           Alike(T) == \A x, y \in T : x.base = y.base /\ x.final = y.final /\ x.sound
           A == {NoAssembly} \cup { T \in SUBSET Block : Alike(T) }
           loop == LoopOfSegments!Loop({}, {}, blocks)
           taken == FoldLeft(TakeSegment, {}, blocks)
<1>1. n \in Nat /\ n # 0 /\ n # 1
  BY PubSubAssumption
<1>2. whole \in Seq(Range(whole)) /\ Len(whole) = n
  <2>1. whole \in [1 .. n -> Range(whole)]
    BY DEF Segments, Range
  <2> HIDE DEF whole
  <2> QED
    BY <1>1, <2>1
<1>3. blocks \in Seq(Block)
  <2> HIDE DEF whole
  <2> DEFINE W == Range(whole)
  <2>1. whole \in Seq(Block)
    <3>1. whole \in [1 .. n -> W]
      BY <1>1, <1>2
    <3>2. whole \in [1 .. n -> Block]
      BY <3>1
    <3> HIDE DEF Block
    <3> QED
      BY <1>1, <3>2
  <2> HIDE DEF Block
  <2>2. whole # <<>>
    BY <1>1, <1>2
  <2>3. Tail(whole) \in Seq(Block) /\ <<>> \in Seq(Block)
    BY <2>1, <2>2
  <2>4. Reverse(whole) \in Seq(Block)
    <3>1. \A i \in 1 .. n : (n - i) + 1 \in 1 .. n
      BY <1>1
    <3>2. Reverse(whole) \in [1 .. n -> Block]
      BY <1>2, <2>1, <3>1 DEF Reverse
    <3> QED
      BY <1>1, <3>2
  <2>5. ASSUME NEW i \in DOMAIN whole, NEW block \in Block
        PROVE  [whole EXCEPT ![i] = block] \in Seq(Block)
    BY <2>1
  <2>6. blocks \in {<<>>, Tail(whole), Reverse(whole)}
          \cup { [whole EXCEPT ![i] = block] : i \in DOMAIN whole, block \in Block }
    BY DEF Answers, whole, Block
  <2>7. CASE blocks \in {<<>>, Tail(whole), Reverse(whole)}
    BY <2>3, <2>4, <2>7
  <2>8. CASE blocks \in { [whole EXCEPT ![i] = block] : i \in DOMAIN whole, block \in Block }
    <3>1. PICK i \in DOMAIN whole : \E block \in Block : blocks = [whole EXCEPT ![i] = block]
      BY <2>8
    <3>2. PICK block \in Block : blocks = [whole EXCEPT ![i] = block]
      BY <3>1
    <3> QED
      BY <2>5, <3>2
  <2> QED
    BY <2>6, <2>7, <2>8
<1>4. LoopOfSegments!Closed({}, A, Block)
  <2> SUFFICES ASSUME NEW T \in A, NEW block \in Block PROVE TakeSegment(T, block) \in A
    BY DEF LoopOfSegments!Closed
  <2> HIDE DEF Block
  <2>1. CASE /\ T # NoAssembly
             /\ block.sound /\ block.number <= block.final
             /\ \A other \in T : /\ other.base = block.base
                                 /\ other.final = block.final
                                 /\ other.number # block.number
    <3>1. TakeSegment(T, block) = T \cup {block}
      BY <2>1 DEF TakeSegment
    <3>2. T \in SUBSET Block /\ Alike(T)
      BY <2>1
    <3>3. Alike(T \cup {block})
      BY <2>1, <3>2
    <3> HIDE DEF Alike
    <3> QED
      BY <3>1, <3>2, <3>3
  <2>2. CASE ~ /\ T # NoAssembly
               /\ block.sound /\ block.number <= block.final
               /\ \A other \in T : /\ other.base = block.base
                                   /\ other.final = block.final
                                   /\ other.number # block.number
    <3>1. TakeSegment(T, block) = NoAssembly
      BY <2>2 DEF TakeSegment
    <3> QED
      BY <3>1
  <2> QED
    BY <2>1, <2>2
<1>5. {} \in A
  OBVIOUS
<1>6. loop \in A
  <2> HIDE DEF A, Block
  <2> QED
    BY <1>3, <1>4, <1>5, LoopOfSegments!FoldInvariant
<1>7. taken = loop
  BY DEF FoldLeft, MapThenFoldSet, Max, LoopOfSegments!Loop, LoopOfSegments!FoldLeft,
         LoopOfSegments!MapThenFoldSet, LoopOfSegments!Max
<1> DEFINE final == (CHOOSE block \in taken : TRUE).final
           numbers == { block.number : block \in taken }
           payload == [i \in 1 .. final + 1 |-> CHOOSE block \in taken : block.number = i - 1]
<1>8. DecodeInnerSegments(blocks) =
        IF taken \in {{}, NoAssembly} THEN NoAssembly
        ELSE IF numbers # 0 .. final THEN NoAssembly ELSE payload
  BY DEF DecodeInnerSegments
<1> HIDE DEF taken, loop
<1>9. SUFFICES ASSUME taken # {}, taken # NoAssembly, numbers = 0 .. final
               PROVE  payload = whole
  BY <1>8
<1>10. PICK first \in taken : first = CHOOSE block \in taken : TRUE
  BY <1>9
<1>11. /\ taken \in SUBSET Block /\ first.final = final
       /\ \A x \in taken : x.base = first.base /\ x.final = final /\ x.sound
  BY <1>6, <1>7, <1>9, <1>10
<1> HIDE DEF final
<1>12. \A x \in Range(whole) : \E i \in 1 .. n : x = Segment(p, i - 1, n - 1)
  BY DEF Segments, Range
<1> HIDE DEF whole
<1>13. Segment(0, 1, 1) \notin taken
  <2> SUFFICES ASSUME Segment(0, 1, 1) \in taken PROVE FALSE
    OBVIOUS
  <2>1. Segment(0, 1, 1).base = 0 /\ Segment(0, 1, 1).final = 1
    BY DEF Segment
  <2>2. first.base = 0 /\ final = 1
    BY <1>11, <2>1
  <2>3. p # 0
    BY Constants
  <2>4. \A x \in Range(whole) : x.base = p
    BY <1>12 DEF Segment
  <2>5. Malformed(p).base = p
    BY DEF Malformed, Segment
  <2>6. \A x \in taken : x = Segment(0, 1, 1)
    BY <1>11, <2>2, <2>3, <2>4, <2>5
  <2>7. \A k \in numbers : k = 1
    BY <2>6 DEF Segment
  <2>8. 0 \in numbers
    BY <1>9, <2>2
  <2> QED
    BY <2>7, <2>8
<1>14. Malformed(p) \notin taken
  BY <1>11 DEF Malformed, Segment
<1>15. taken \in SUBSET Range(whole)
  BY <1>11, <1>13, <1>14
<1>16. final = n - 1
  BY <1>10, <1>11, <1>12, <1>15 DEF Segment
<1>17. ASSUME NEW i \in 1 .. n
       PROVE  payload[i] = Segment(p, i - 1, n - 1)
  <2>1. i \in 1 .. final + 1 /\ i - 1 \in 0 .. final
    BY <1>1, <1>16
  <2>2. \E block \in taken : block.number = i - 1
    BY <1>9, <2>1
  <2>3. payload[i] \in taken /\ payload[i].number = i - 1
    BY <2>1, <2>2
  <2> HIDE DEF payload
  <2>4. PICK j \in 1 .. n : payload[i] = Segment(p, j - 1, n - 1)
    BY <1>12, <1>15, <2>3
  <2>5. j - 1 = i - 1
    BY <2>3, <2>4 DEF Segment
  <2> QED
    BY <2>4, <2>5
<1>18. final + 1 = n
  BY <1>1, <1>16
<1> QED
  BY <1>17, <1>18 DEF whole, Segments

\* The steps below start from a good state g.
At(g, a) == Good(g, a) /\ Due(g) /\ ~g.queued

\* A good state with nothing to look at
Rests(t, a) == Good(t, a) /\ Calm(t)

\* What is asked for, checked or collected is so for its entry, if it is
\* segmented, and for no subscription to a producer before it is reported.
LEMMA UnderWay ==
  ASSUME NEW a, NEW g, Good(g, a), NEW p \in Pub,
         g.requests[p] + (g.checking[p] + g.collecting[p]) > 0
  PROVE  /\ g \in ReceiverState /\ (p > a => Unreported(g, p))
         /\ g.requests[p] \in Nat /\ g.checking[p] \in Nat
         /\ g.collecting[p] \in Nat /\ g.timers[p] \in Nat
         /\ \A s \in ProducerSub : /\ OnceFor(g, p, s) /\ g.given[s][p] <= 1
                                   /\ p > a => g.given[s][p] = 0
         /\ p \in Segmented => OneAtATime(g, p) /\ g.fetch[p] # None
<1>1. g \in ReceiverState /\ Fine(g, p, a)
  BY DEF Good
<1>2. /\ g.requests[p] \in Nat /\ g.checking[p] \in Nat
      /\ g.collecting[p] \in Nat /\ g.timers[p] \in Nat
  BY <1>1 DEF ReceiverState
<1>3. p > a => Unreported(g, p)
  BY <1>1 DEF Fine
<1>4. p \in Segmented => OneAtATime(g, p) /\ g.fetch[p] # None
  BY <1>1, <1>2 DEF Fine, OneAtATime, In
<1>5. \A s \in ProducerSub : /\ OnceFor(g, p, s) /\ g.given[s][p] <= 1
                             /\ p > a => g.given[s][p] = 0
  BY <1>1, <1>3 DEF Fine, OnceFor, Unreported
<1> QED
  BY <1>1, <1>2, <1>3, <1>4, <1>5, Zenon

\* A request ends.
LessRequests(g, p) == [g EXCEPT !.requests = Add(@, p, -1)]

\* A fetch fails: it is given up or tried again later.
LEMMA FailedRests ==
  ASSUME window \in Nat, NEW a, NEW g, At(g, a), NEW p \in Pub, g.requests[p] > 0
  PROVE  Rests(MarkPublicationFetchFailed(LessRequests(g, p), p), a)
<1> DEFINE e == LessRequests(g, p)
           o == e.fetch[p]
           exhausted == Retries >= 0 /\ o.attempts > Retries
           t == MarkPublicationFetchFailed(e, p)
<1>1. Good(g, a) /\ g \in ReceiverState /\ Due(g) /\ ~g.queued
  BY DEF At, Good
<1>2. g.requests[p] \in Nat /\ g.checking[p] \in Nat /\ g.collecting[p] \in Nat
  BY <1>1 DEF ReceiverState
<1>3. /\ p > a => Unreported(g, p)
      /\ g.timers[p] \in Nat
      /\ \A s \in ProducerSub : /\ OnceFor(g, p, s) /\ g.given[s][p] <= 1
                                /\ p > a => g.given[s][p] = 0
      /\ p \in Segmented => OneAtATime(g, p)
  BY <1>1, <1>2, UnderWay
<1>4. g.requests[p] + (-1) \in Nat
  BY <1>2
<1>5. /\ e \in ReceiverState /\ e.requests[p] = g.requests[p] + (-1)
      /\ e.fetch = g.fetch /\ e.checking = g.checking
      /\ e.collecting = g.collecting /\ e.timers = g.timers /\ e.given = g.given
      /\ e.wrong = g.wrong /\ e.queued = g.queued
      /\ \A q \in Pub : q # p => SameAt(g, e, q)
  BY <1>1, <1>4, RequestsFields DEF LessRequests, RequestsChange, CountsAt
<1> HIDE DEF e
<1>6. p \in Segmented => e.requests[p] = 0 /\ e.checking[p] = 0 /\ e.collecting[p] = 0
  BY <1>2, <1>3, <1>5 DEF OneAtATime
<1>7. t = IF o = None THEN e ELSE IF exhausted \/ o.late THEN GiveUp(e, p)
          ELSE [SetStatus(e, p, "backoff") EXCEPT !.timers = Add(@, p, 1)]
  BY DEF MarkPublicationFetchFailed
<1> HIDE DEF exhausted, t
<1>8. CASE o = None
  <2>1. Good(e, a) /\ Due(e)
    BY <1>1, <1>3, <1>5, <1>6, <1>8, ClosedGood
  <2> QED
    BY <1>1, <1>5, <1>7, <1>8, <2>1 DEF Rests, Calm, Due, t, e
<1>9. CASE o # None /\ (exhausted \/ o.late)
  <2> DEFINE x == GiveUp(e, p)
  <2>1. /\ x \in ReceiverState /\ x.fetch[p] = None
        /\ \A q \in Pub : q # p => SameAt(e, x, q)
        /\ x.requests = e.requests /\ x.checking = e.checking
        /\ x.collecting = e.collecting
        /\ x.given = e.given /\ x.wrong = e.wrong /\ x.queued = e.queued
    BY <1>5, GiveUpFields DEF EntryAt
  <2>2. t = x
    BY <1>7, <1>9
  <2> HIDE DEF x
  <2>3. \A q \in Pub : q # p => SameAt(g, x, q)
    BY <1>5, <2>1 DEF SameAt
  <2>4. Good(x, a) /\ Due(x)
    BY <1>1, <1>3, <1>5, <1>6, <2>1, <2>3, ClosedGood
  <2>5. ~x.queued
    BY <1>1, <1>5, <2>1
  <2> QED
    BY <2>2, <2>4, <2>5 DEF Rests, Calm, Due, t, e
<1>10. CASE o # None /\ ~(exhausted \/ o.late)
  <2> DEFINE s == SetStatus(e, p, "backoff")
             x == [s EXCEPT !.timers = Add(@, p, 1)]
  <2>1. e.fetch[p] # None /\ e \in ReceiverState
    BY <1>5, <1>10
  <2>2. StatusAt(e, s, p, "backoff")
    BY <2>1, SetStatusFields
  <2>3. t = x
    BY <1>7, <1>10
  <2> HIDE DEF s
  <2>4. /\ s \in ReceiverState
        /\ s.fetch[p] # None /\ s.fetch[p].status = "backoff" /\ s.fetch[p].subs = e.fetch[p].subs
        /\ \A q \in Pub : q # p => SameAt(e, s, q)
        /\ s.requests = e.requests /\ s.checking = e.checking
        /\ s.collecting = e.collecting /\ s.timers = e.timers
        /\ s.given = e.given /\ s.wrong = e.wrong /\ s.queued = e.queued
    BY <2>2 DEF StatusAt, EntryAt
  <2>5. s.timers[p] + 1 \in Nat
    BY <1>3, <1>5, <2>4
  <2>6. TimersChange(s, x, p, 1)
    BY <2>4, <2>5, TimersFields
  <2> HIDE DEF x
  <2>7. /\ x \in ReceiverState /\ x.timers[p] = s.timers[p] + 1
        /\ x.fetch = s.fetch /\ x.requests = s.requests
        /\ x.checking = s.checking /\ x.collecting = s.collecting /\ x.given = s.given
        /\ x.wrong = s.wrong /\ x.queued = s.queued
        /\ \A q \in Pub : q # p => SameAt(s, x, q)
    BY <2>6 DEF TimersChange, CountsAt
  <2>8. \A q \in Pub : q # p => SameAt(g, x, q)
    BY <1>5, <2>4, <2>7 DEF SameAt
  <2>9. In(x, p, "backoff") /\ ~In(x, p, "fetching") /\ ~In(x, p, "ready") /\ ~In(x, p, "delivered")
    BY <2>4, <2>7 DEF In
  <2>10. p \in Segmented => OneAtATime(x, p)
    BY <1>6, <2>4, <2>7 DEF OneAtATime
  <2>11. \A y \in ProducerSub : OnceFor(x, p, y)
    BY <1>3, <1>5, <1>10, <2>4, <2>7 DEF OnceFor
  <2>12. x.timers[p] > 0
    BY <1>3, <1>5, <2>4, <2>7
  <2>13. Fine(x, p, a)
    <3>1. p > a => Unreported(x, p)
      BY <1>3, <1>5, <1>10, <2>4, <2>7 DEF Unreported
    <3> QED
      BY <2>9, <2>10, <2>11, <2>12, <3>1 DEF Fine, Served
  <2>14. x.wrong = g.wrong /\ ~x.queued
    BY <1>1, <1>5, <2>4, <2>7
  <2>15. Good(x, a) /\ Due(x)
    BY <1>1, <2>7, <2>8, <2>9, <2>13, <2>14, SettledAtOne
  <2> QED
    BY <2>3, <2>14, <2>15 DEF Rests, Calm, Due, t, e
<1> QED
  BY <1>8, <1>9, <1>10

\* A packet of which nobody is told: its request is gone, its entry stays.
LEMMA RefusedRests ==
  ASSUME window \in Nat, NEW a, NEW g, At(g, a), NEW p \in Pub, g.requests[p] > 0,
         "invalid" \in MayFail
  PROVE  Rests(LessRequests(g, p), a)
<1> DEFINE e == LessRequests(g, p)
<1>1. Good(g, a) /\ g \in ReceiverState /\ Due(g) /\ ~g.queued /\ Fine(g, p, a)
  BY DEF At, Good
<1>2. g.requests[p] \in Nat /\ g.checking[p] \in Nat /\ g.collecting[p] \in Nat
  BY <1>1 DEF ReceiverState
<1>3. p \in Segmented => OneAtATime(g, p)
  BY <1>1, <1>2, UnderWay
<1>4. g.requests[p] + (-1) \in Nat
  BY <1>2
<1>5. /\ e \in ReceiverState /\ e.requests[p] = g.requests[p] + (-1)
      /\ e.fetch = g.fetch /\ e.checking = g.checking
      /\ e.collecting = g.collecting /\ e.timers = g.timers /\ e.given = g.given
      /\ e.wrong = g.wrong /\ e.queued = g.queued
      /\ \A q \in Pub : q # p => SameAt(g, e, q)
  BY <1>1, <1>4, RequestsFields DEF LessRequests, RequestsChange, CountsAt
<1> HIDE DEF e
<1>6. \A x : In(e, p, x) <=> In(g, p, x)
  BY <1>5 DEF In
<1>7. p \in Segmented => OneAtATime(e, p)
  BY <1>2, <1>3, <1>5, <1>6 DEF OneAtATime
<1>8. Fine(e, p, a)
  BY <1>1, <1>5, <1>6, <1>7 DEF Fine, OnceFor, Served, Unreported
<1>9. Good(e, a)
  BY <1>1, <1>5, <1>6, <1>8, StepAtOne
<1>10. Due(e)
  BY <1>1, <1>5, <1>6, DueAtOne
<1> QED
  BY <1>1, <1>5, <1>9, <1>10 DEF Rests, Calm, Due, e

\* The entry of p ends.
LEMMA ClosedRests ==
  ASSUME window \in Nat, NEW a, NEW g, At(g, a), NEW t \in ReceiverState, NEW p \in Pub,
         \A q \in Pub : q # p => SameAt(g, t, q), t.fetch[p] = None,
         p \in Segmented => t.requests[p] = 0 /\ t.checking[p] = 0 /\ t.collecting[p] = 0,
         \A s \in ProducerSub : t.given[s][p] <= 1 /\ (p > a => t.given[s][p] = 0),
         t.wrong = g.wrong, t.queued = g.queued
  PROVE  Rests(t, a)
<1>1. Good(g, a) /\ Due(g) /\ ~g.queued
  BY DEF At
<1>2. Good(t, a) /\ Due(t)
  BY <1>1, ClosedGood
<1> QED
  BY <1>1, <1>2 DEF Rests, Calm, Due

\* observePublicationFetchSuccess
LEMMA ObservedFields ==
  ASSUME NEW r \in ReceiverState, NEW p \in Pub
  PROVE  /\ EntryAt(r, Observed(r, p), p)
         /\ r.fetch[p] = None => Observed(r, p).fetch[p] = None
         /\ r.fetch[p] # None => StatusAt(r, Observed(r, p), p, "delivered")
<1>1. CASE r.fetch[p] = None
  <2>1. Observed(r, p) = r
    BY <1>1 DEF Observed
  <2>2. \A q \in Pub : SameAt(r, r, q)
    BY DEF SameAt
  <2> QED
    BY <1>1, <2>1, <2>2 DEF EntryAt
<1>2. CASE r.fetch[p] # None
  <2>1. Observed(r, p) = SetStatus(r, p, "delivered")
    BY <1>2 DEF Observed
  <2>2. StatusAt(r, Observed(r, p), p, "delivered")
    BY <1>2, <2>1, SetStatusFields
  <2> QED
    BY <1>2, <2>2 DEF StatusAt
<1> QED
  BY <1>1, <1>2

\* The Fetcher brings a packet: it cannot be decoded, or is delivered at once,
\* or is checked first.
LEMMA DataRests ==
  ASSUME window \in Nat, NEW a, NEW g, At(g, a), NEW p \in Pub, g.requests[p] > 0
  PROVE  /\ Rests(GiveUp(Observed(LessRequests(g, p), p), p), a)
         /\ Rests(ReturnData(Observed(LessRequests(g, p), p), p), a)
         /\ Rests([Observed(LessRequests(g, p), p) EXCEPT !.checking = Add(@, p, 1)], a)
<1> DEFINE e == LessRequests(g, p)
           o == Observed(e, p)
<1>1. Good(g, a) /\ g \in ReceiverState /\ Due(g) /\ ~g.queued
  BY DEF At, Good
<1>2. g.requests[p] \in Nat /\ g.checking[p] \in Nat /\ g.collecting[p] \in Nat
  BY <1>1 DEF ReceiverState
<1>3. /\ p > a => Unreported(g, p)
      /\ \A s \in ProducerSub : /\ OnceFor(g, p, s) /\ g.given[s][p] <= 1
                                /\ p > a => g.given[s][p] = 0
      /\ p \in Segmented => OneAtATime(g, p)
  BY <1>1, <1>2, UnderWay
<1>4. g.requests[p] + (-1) \in Nat
  BY <1>2
<1>5. RequestsChange(g, e, p, -1)
  BY <1>1, <1>4, RequestsFields DEF LessRequests
<1> HIDE DEF e
<1>6. e \in ReceiverState
  BY <1>5 DEF RequestsChange, CountsAt
<1>7. /\ EntryAt(e, o, p) /\ (e.fetch[p] = None => o.fetch[p] = None)
      /\ e.fetch[p] # None => StatusAt(e, o, p, "delivered")
  BY <1>6, ObservedFields
<1> HIDE DEF o
<1>8. /\ o \in ReceiverState /\ o.requests[p] = g.requests[p] + (-1)
      /\ o.checking = g.checking /\ o.collecting = g.collecting /\ o.timers = g.timers
      /\ o.given = g.given /\ o.wrong = g.wrong /\ o.queued = g.queued
      /\ \A q \in Pub : q # p => SameAt(g, o, q)
  BY <1>5, <1>7 DEF RequestsChange, CountsAt, EntryAt, SameAt
<1>9. o.fetch[p] # None => /\ g.fetch[p] # None /\ o.fetch[p].subs = g.fetch[p].subs
                           /\ o.fetch[p].status = "delivered"
  BY <1>5, <1>7 DEF RequestsChange, CountsAt, StatusAt
<1>10. p \in Segmented => o.requests[p] = 0 /\ o.checking[p] = 0 /\ o.collecting[p] = 0
  BY <1>2, <1>3, <1>8 DEF OneAtATime
<1>11. Rests(GiveUp(o, p), a)
  <2> DEFINE x == GiveUp(o, p)
  <2>1. EntryAt(o, x, p) /\ x.fetch[p] = None
    BY <1>8, GiveUpFields
  <2> HIDE DEF x
  <2>2. /\ x \in ReceiverState /\ x.requests = o.requests /\ x.checking = o.checking
        /\ x.collecting = o.collecting /\ x.given = g.given
        /\ x.wrong = g.wrong /\ x.queued = g.queued
        /\ \A q \in Pub : q # p => SameAt(g, x, q)
    BY <1>8, <2>1 DEF EntryAt, SameAt
  <2>3. Rests(x, a)
    BY <1>3, <1>10, <2>1, <2>2, ClosedRests
  <2> QED
    BY <2>3 DEF x
<1>12. Rests(ReturnData(o, p), a)
  <2>1. p \in Segmented /\ o.fetch[p] # None => In(o, p, "delivered")
    BY <1>9 DEF In
  <2>2. p \in Segmented => g.collecting[p] = 0
    BY <1>8, <1>10
  <2> DEFINE x == ReturnData(o, p)
  <2>3. Good(x, a) /\ Due(x)
    BY <1>1, <1>3, <1>8, <1>9, <1>10, <2>1, <2>2, ReturnDataGood
  <2>4. x.queued = o.queued
    BY <1>8, ReturnDataFields DEF Returns
  <2> HIDE DEF x
  <2>5. Rests(x, a)
    BY <1>1, <1>8, <2>3, <2>4 DEF Rests, Calm, Due
  <2> QED
    BY <2>5 DEF x
<1>13. Rests([o EXCEPT !.checking = Add(@, p, 1)], a)
  <2> DEFINE x == [o EXCEPT !.checking = Add(@, p, 1)]
  <2>1. o.checking[p] + 1 \in Nat
    BY <1>2, <1>8
  <2>2. CheckingChange(o, x, p, 1)
    BY <1>8, <2>1, CheckingFields
  <2> HIDE DEF x
  <2>3. /\ x \in ReceiverState /\ x.requests = o.requests /\ x.checking[p] = o.checking[p] + 1
        /\ x.collecting = o.collecting /\ x.timers = o.timers /\ x.given = o.given
        /\ x.fetch = o.fetch
        /\ x.wrong = g.wrong /\ x.queued = g.queued
        /\ \A q \in Pub : q # p => SameAt(g, x, q)
    BY <1>8, <2>2 DEF CheckingChange, CountsAt, SameAt
  <2>4. ~In(x, p, "fetching") /\ ~In(x, p, "ready") /\ ~In(x, p, "backoff")
    BY <1>9, <2>3 DEF In
  <2>5. x.checking[p] + x.collecting[p] > 0
    BY <1>2, <1>8, <2>3
  <2>6. p \in Segmented => OneAtATime(x, p)
    <3>1. p \in Segmented => In(g, p, "fetching")
      BY <1>3 DEF OneAtATime
    <3>2. p \in Segmented => In(x, p, "delivered")
      BY <1>5, <1>7, <2>3, <3>1 DEF In, RequestsChange, CountsAt, StatusAt
    <3> QED
      BY <1>10, <2>3, <2>4, <3>2 DEF OneAtATime
  <2>7. \A s \in ProducerSub : OnceFor(x, p, s)
    BY <1>3, <1>8, <1>9, <2>3 DEF OnceFor
  <2>8. Fine(x, p, a)
    <3>1. p > a => Unreported(x, p)
      BY <1>3, <1>8, <1>9, <2>3 DEF Unreported
    <3> QED
      BY <2>4, <2>5, <2>6, <2>7, <3>1 DEF Fine, Served
  <2>9. Good(x, a) /\ Due(x)
    BY <1>1, <2>3, <2>4, <2>8, SettledAtOne
  <2>10. Rests(x, a)
    BY <1>1, <2>3, <2>9 DEF Rests, Calm, Due
  <2> QED
    BY <2>10 DEF x
<1> QED
  BY <1>11, <1>12, <1>13 DEF o, e

\* The inner validator answers.
LessChecking(g, p) == [g EXCEPT !.checking = Add(@, p, -1)]

LEMMA CheckedRests ==
  ASSUME window \in Nat, NEW a, NEW g, At(g, a), NEW p \in Pub, g.checking[p] > 0
  PROVE  /\ Rests(GiveUp(LessChecking(g, p), p), a)
         /\ Rests(ReturnData(LessChecking(g, p), p), a)
<1> DEFINE o == LessChecking(g, p)
<1>1. Good(g, a) /\ g \in ReceiverState /\ Due(g) /\ ~g.queued
  BY DEF At, Good
<1>2. g.requests[p] \in Nat /\ g.checking[p] \in Nat /\ g.collecting[p] \in Nat
  BY <1>1 DEF ReceiverState
<1>3. /\ p > a => Unreported(g, p)
      /\ \A s \in ProducerSub : /\ OnceFor(g, p, s) /\ g.given[s][p] <= 1
                                /\ p > a => g.given[s][p] = 0
      /\ p \in Segmented => OneAtATime(g, p)
  BY <1>1, <1>2, UnderWay
<1>4. g.checking[p] + (-1) \in Nat
  BY <1>2
<1>5. CheckingChange(g, o, p, -1)
  BY <1>1, <1>4, CheckingFields DEF LessChecking
<1> HIDE DEF o
<1>6. /\ o \in ReceiverState /\ o.checking[p] = g.checking[p] + (-1) /\ o.fetch = g.fetch
      /\ o.requests = g.requests /\ o.collecting = g.collecting /\ o.timers = g.timers
      /\ o.given = g.given /\ o.wrong = g.wrong /\ o.queued = g.queued
      /\ \A q \in Pub : q # p => SameAt(g, o, q)
  BY <1>5 DEF CheckingChange, CountsAt
<1>7. p \in Segmented => /\ o.requests[p] = 0 /\ o.checking[p] = 0 /\ o.collecting[p] = 0
                         /\ g.collecting[p] = 0 /\ In(g, p, "delivered")
  BY <1>2, <1>3, <1>6 DEF OneAtATime
<1>8. Rests(GiveUp(o, p), a)
  <2> DEFINE x == GiveUp(o, p)
  <2>1. EntryAt(o, x, p) /\ x.fetch[p] = None
    BY <1>6, GiveUpFields
  <2> HIDE DEF x
  <2>2. /\ x \in ReceiverState /\ x.requests = o.requests /\ x.checking = o.checking
        /\ x.collecting = o.collecting /\ x.given = g.given
        /\ x.wrong = g.wrong /\ x.queued = g.queued
        /\ \A q \in Pub : q # p => SameAt(g, x, q)
    BY <1>6, <2>1 DEF EntryAt, SameAt
  <2>3. Rests(x, a)
    BY <1>3, <1>7, <2>1, <2>2, ClosedRests
  <2> QED
    BY <2>3 DEF x
<1>9. Rests(ReturnData(o, p), a)
  <2>1. p \in Segmented => In(o, p, "delivered")
    BY <1>6, <1>7 DEF In
  <2> DEFINE x == ReturnData(o, p)
  <2>2. Good(x, a) /\ Due(x)
    BY <1>1, <1>3, <1>6, <1>7, <2>1, ReturnDataGood
  <2>3. x.queued = o.queued
    BY <1>6, ReturnDataFields DEF Returns
  <2> HIDE DEF x
  <2>4. Rests(x, a)
    BY <1>1, <1>6, <2>2, <2>3 DEF Rests, Calm, Due
  <2> QED
    BY <2>4 DEF x
<1> QED
  BY <1>8, <1>9 DEF o

\* The SegmentFetcher comes back.
LessCollecting(g, p) == [g EXCEPT !.collecting = Add(@, p, -1)]

\* The whole publication is delivered; what was delivered wrongly before stays.
Assembled(r, p) ==
  CleanUpFetch([DeliverBlob(r, p) EXCEPT !.wrong = DeliverBlob(r, p).wrong], p)

LEMMA CollectedRests ==
  ASSUME window \in Nat, NEW a, NEW g, At(g, a), NEW p \in Pub, g.collecting[p] > 0
  PROVE  /\ Rests(GiveUp(LessCollecting(g, p), p), a)
         /\ g.fetch[p] = None => Rests(LessCollecting(g, p), a)
         /\ g.fetch[p] # None => Rests(Assembled(LessCollecting(g, p), p), a)
<1> DEFINE o == LessCollecting(g, p)
<1>1. Good(g, a) /\ g \in ReceiverState /\ Due(g) /\ ~g.queued
  BY DEF At, Good
<1>2. g.requests[p] \in Nat /\ g.checking[p] \in Nat /\ g.collecting[p] \in Nat
  BY <1>1 DEF ReceiverState
<1>3. /\ p > a => Unreported(g, p)
      /\ \A s \in ProducerSub : /\ OnceFor(g, p, s) /\ g.given[s][p] <= 1
                                /\ p > a => g.given[s][p] = 0
      /\ p \in Segmented => OneAtATime(g, p)
  BY <1>1, <1>2, UnderWay
<1>4. g.collecting[p] + (-1) \in Nat
  BY <1>2
<1>5. CollectingChange(g, o, p, -1)
  BY <1>1, <1>4, CollectingFields DEF LessCollecting
<1> HIDE DEF o
<1>6. /\ o \in ReceiverState /\ o.collecting[p] = g.collecting[p] + (-1) /\ o.fetch = g.fetch
      /\ o.requests = g.requests /\ o.checking = g.checking /\ o.timers = g.timers
      /\ o.given = g.given /\ o.wrong = g.wrong /\ o.queued = g.queued
      /\ \A q \in Pub : q # p => SameAt(g, o, q)
  BY <1>5 DEF CollectingChange, CountsAt
<1>7. p \in Segmented => o.requests[p] = 0 /\ o.checking[p] = 0 /\ o.collecting[p] = 0
  BY <1>2, <1>3, <1>6 DEF OneAtATime
<1>8. Rests(GiveUp(o, p), a)
  <2> DEFINE x == GiveUp(o, p)
  <2>1. EntryAt(o, x, p) /\ x.fetch[p] = None
    BY <1>6, GiveUpFields
  <2> HIDE DEF x
  <2>2. /\ x \in ReceiverState /\ x.requests = o.requests /\ x.checking = o.checking
        /\ x.collecting = o.collecting /\ x.given = g.given
        /\ x.wrong = g.wrong /\ x.queued = g.queued
        /\ \A q \in Pub : q # p => SameAt(g, x, q)
    BY <1>6, <2>1 DEF EntryAt, SameAt
  <2>3. Rests(x, a)
    BY <1>3, <1>7, <2>1, <2>2, ClosedRests
  <2> QED
    BY <2>3 DEF x
<1>9. g.fetch[p] = None => Rests(o, a)
  BY <1>3, <1>6, <1>7, ClosedRests
<1>10. ASSUME g.fetch[p] # None
       PROVE  Rests(Assembled(o, p), a)
  <2> DEFINE copies == o.fetch[p].subs
             blob == Sub \ PacketSub
             these == Those(copies, blob)
             d == Deliver(o, p, these, p)
             w == [d EXCEPT !.wrong = d.wrong]
             x == SetEntry(w, p, None)
  <2>1. copies \in [Sub -> 0 .. Many]
    <3>1. o.fetch[p] \in Entry
      BY <1>6, <1>10 DEF ReceiverState
    <3> QED
      BY <3>1 DEF Entry
  <2>2. Assembled(o, p) = x
    BY DEF Assembled, DeliverBlob, CleanUpFetch
  <2>3. copies = g.fetch[p].subs
    BY <1>6
  <2> HIDE DEF copies, blob
  <2>4. these \in [Sub -> 0 .. Many] /\ \A s \in Sub : these[s] = IF s \in blob THEN copies[s] ELSE 0
    BY <2>1, ThoseFacts
  <2> HIDE DEF these
  <2>5. /\ d \in ReceiverState
        /\ \A s \in Sub : d.given[s][p] = Upto(o.given[s][p] + these[s])
        /\ \A s \in Sub, q \in Pub : q # p => d.given[s][q] = o.given[s][q]
        /\ d.wrong = o.wrong
        /\ d.fetch = o.fetch /\ d.requests = o.requests /\ d.checking = o.checking
        /\ d.collecting = o.collecting /\ d.timers = o.timers /\ d.queued = o.queued
    BY <1>6, <2>4, DeliverFields
  <2> HIDE DEF d
  <2>6. w = d
    BY <2>5 DEF ReceiverState
  <2> HIDE DEF w
  <2>7. /\ x \in ReceiverState /\ x.fetch[p] = None
        /\ \A q \in Pub : q # p => x.fetch[q] = d.fetch[q]
        /\ x.requests = d.requests /\ x.checking = d.checking
        /\ x.collecting = d.collecting /\ x.timers = d.timers
        /\ x.given = d.given /\ x.wrong = d.wrong /\ x.queued = d.queued
    BY <2>5, <2>6, SetEntryFields
  <2> HIDE DEF x
  <2>8. \A q \in Pub : q # p => SameAt(g, x, q)
    BY <1>6, <2>5, <2>7 DEF SameAt
  <2>9. ASSUME NEW s \in ProducerSub
        PROVE  x.given[s][p] <= 1 /\ (p > a => x.given[s][p] = 0)
    <3>1. s \in Sub /\ g.given[s][p] \in 0 .. Many
      BY <1>1, Constants DEF ReceiverState
    <3>2. s \in blob => g.given[s][p] + copies[s] <= 1
      BY <1>3, <1>10, <2>3 DEF OnceFor, blob
    <3>3. x.given[s][p] = Upto(g.given[s][p] + these[s]) /\ copies[s] \in 0 .. Many
      BY <1>6, <2>1, <2>5, <2>7, <3>1
    <3>4. g.given[s][p] <= 1 /\ (p > a => g.given[s][p] = 0 /\ copies[s] = 0)
      BY <1>3, <1>10, <2>3 DEF Unreported
    <3> QED
      BY <2>4, <3>1, <3>2, <3>3, <3>4 DEF Upto, Many
  <2>10. Rests(x, a)
    BY <1>3, <1>6, <1>7, <2>5, <2>7, <2>8, <2>9, ClosedRests
  <2> QED
    BY <2>2, <2>10
<1> QED
  BY <1>8, <1>9, <1>10 DEF o

\* A backoff event that is not the one an entry waits for
LEMMA BackoffRests ==
  ASSUME window \in Nat, NEW a, NEW g, At(g, a), NEW p \in Pub,
         g.timers[p] > (IF In(g, p, "backoff") THEN 1 ELSE 0)
  PROVE  Rests(FetchAll([g EXCEPT !.timers = Add(@, p, -1)]), a)
<1> DEFINE o == [g EXCEPT !.timers = Add(@, p, -1)]
<1>1. Good(g, a) /\ g \in ReceiverState /\ Fine(g, p, a)
  BY DEF At, Good
<1>2. g.timers[p] \in Nat
  BY <1>1 DEF ReceiverState
<1>3. g.timers[p] + (-1) \in Nat
  BY <1>2
<1>4. TimersChange(g, o, p, -1)
  BY <1>1, <1>3, TimersFields
<1> HIDE DEF o
<1>5. /\ o \in ReceiverState /\ o.timers[p] = g.timers[p] + (-1) /\ o.fetch = g.fetch
      /\ o.requests = g.requests /\ o.checking = g.checking /\ o.collecting = g.collecting
      /\ o.given = g.given /\ o.wrong = g.wrong /\ o.queued = g.queued
      /\ \A q \in Pub : q # p => SameAt(g, o, q)
  BY <1>4 DEF TimersChange, CountsAt
<1>6. \A x : In(o, p, x) <=> In(g, p, x)
  BY <1>5 DEF In
<1>7. In(o, p, "backoff") => o.timers[p] > 0
  BY <1>2, <1>5, <1>6
<1>8. Fine(o, p, a)
  BY <1>1, <1>5, <1>6, <1>7 DEF Fine, OneAtATime, OnceFor, Served, Unreported
<1>9. Good(o, a)
  BY <1>1, <1>5, <1>6, <1>8, StepAtOne
<1>10. Good(FetchAll(o), a) /\ Calm(FetchAll(o))
  BY <1>9, FetchAllGood
<1> QED
  BY <1>10 DEF Rests, o

\* nextAttempt has passed: the event of the entry is due.
LEMMA NextAttemptRests ==
  ASSUME window \in Nat, NEW a, NEW g, At(g, a), NEW p \in Pub, In(g, p, "backoff")
  PROVE  Rests(SetStatus(g, p, "ready"), a)
<1> DEFINE x == SetStatus(g, p, "ready")
<1>1. Good(g, a) /\ g \in ReceiverState /\ Due(g) /\ ~g.queued /\ Fine(g, p, a)
  BY DEF At, Good
<1>2. g.fetch[p] # None /\ "ready" \in {"ready", "backoff", "delivered"}
  BY DEF In
<1>3. StatusAt(g, x, p, "ready")
  BY <1>1, <1>2, SetStatusFields
<1> HIDE DEF x
<1>4. /\ x \in ReceiverState /\ x.requests = g.requests /\ x.checking = g.checking
      /\ x.collecting = g.collecting /\ x.timers = g.timers /\ x.given = g.given
      /\ x.wrong = g.wrong /\ x.queued = g.queued
      /\ \A q \in Pub : q # p => SameAt(g, x, q)
      /\ x.fetch[p] # None /\ x.fetch[p].status = "ready" /\ x.fetch[p].subs = g.fetch[p].subs
  BY <1>3 DEF StatusAt, EntryAt
<1>5. ~In(x, p, "fetching") /\ ~In(x, p, "backoff") /\ ~In(x, p, "delivered")
  BY <1>4 DEF In
<1>6. p \in Segmented => OneAtATime(x, p)
  BY <1>1, <1>4 DEF Fine, OneAtATime, In
<1>7. \A s \in ProducerSub : OnceFor(x, p, s)
  BY <1>1, <1>2, <1>4 DEF Fine, OnceFor
<1>8. p > a => Unreported(x, p)
  BY <1>1, <1>2, <1>4 DEF Fine, Unreported
<1>9. Fine(x, p, a)
  BY <1>5, <1>6, <1>7, <1>8 DEF Fine, Served
<1>10. Good(x, a)
  BY <1>1, <1>4, <1>5, <1>9, StepAtOne
<1>11. x.timers[p] > 0
  BY <1>1, <1>4 DEF Fine, Served
<1>12. Due(x)
  BY <1>1, <1>4, <1>11, DueAtOne
<1>13. Rests(x, a)
  BY <1>1, <1>4, <1>10, <1>12 DEF Rests, Calm, Due
<1> QED
  BY <1>13 DEF x

\* The deadline of a fetch passes.
LEMMA DeadlineRests ==
  ASSUME window \in Nat, NEW a, NEW g, At(g, a), NEW p \in Pub, g.fetch[p] # None
  PROVE  Rests(SetEntry(g, p, [g.fetch[p] EXCEPT !.late = TRUE]), a)
<1> DEFINE o == g.fetch[p]
           e == [o EXCEPT !.late = TRUE]
           x == SetEntry(g, p, e)
<1>1. Good(g, a) /\ g \in ReceiverState /\ Due(g) /\ ~g.queued /\ Fine(g, p, a)
  BY DEF At, Good
<1>2. o \in Entry
  BY <1>1 DEF ReceiverState
<1> HIDE DEF o
<1>3. e \in Entry /\ e.status = o.status /\ e.subs = o.subs
  BY <1>2 DEF Entry
<1> HIDE DEF e
<1>4. e # None
  BY <1>3, Constants
<1>5. /\ x \in ReceiverState /\ x.fetch[p] = e
      /\ \A q \in Pub : q # p => x.fetch[q] = g.fetch[q]
      /\ x.requests = g.requests /\ x.checking = g.checking
      /\ x.collecting = g.collecting /\ x.timers = g.timers
      /\ x.given = g.given /\ x.wrong = g.wrong /\ x.queued = g.queued
  BY <1>1, <1>3, SetEntryFields
<1> HIDE DEF x
<1>6. \A q \in Pub : q # p => SameAt(g, x, q)
  BY <1>5 DEF SameAt
<1>7. \A y : In(x, p, y) <=> In(g, p, y)
  BY <1>3, <1>4, <1>5 DEF In, o
<1>8. Fine(x, p, a)
  BY <1>1, <1>3, <1>5, <1>7 DEF Fine, OneAtATime, OnceFor, Served, Unreported, o
<1>9. Good(x, a)
  BY <1>1, <1>5, <1>6, <1>7, <1>8, StepAtOne
<1>10. Due(x)
  BY <1>1, <1>5, <1>6, <1>7, DueAtOne
<1>11. Rests(x, a)
  BY <1>1, <1>5, <1>9, <1>10 DEF Rests, Calm, Due
<1> QED
  BY <1>11 DEF x, e, o

--------------------------------------------------------------------------------
(*****************************************************************************)
(* The invariant and the actions                                             *)
(*****************************************************************************)

\* TypeOK, without the receiver state
EnvOK ==
  /\ window \in Windows /\ alive \in BOOLEAN /\ announced \in 0 .. MaxSeq
  /\ rounds \in 0 .. MaxRounds /\ faults \in 0 .. MaxFaults
  /\ sub \in [Sub -> {"new", "on", "off"}]
  /\ old \subseteq Pub
  /\ inFlight \subseteq Pub \X Pub /\ asked \subseteq Pub \X Pub /\ suppressed \subseteq Pub \X Pub
  /\ owed \subseteq Sub \X Pub

\* The fields of the receiver state
LEMMA Fields ==
  /\ Receiver.mapping = mapping /\ Receiver.cache = cache /\ Receiver.remembered = remembered
  /\ Receiver.fetch = fetch /\ Receiver.requests = requests /\ Receiver.checking = checking
  /\ Receiver.collecting = collecting /\ Receiver.timers = timers /\ Receiver.given = given
  /\ Receiver.wrong = wrong /\ Receiver.excused = excused /\ Receiver.queued = FALSE
BY DEF Receiver

LEMMA TypeParts ==
  /\ TypeOK => EnvOK /\ Receiver \in ReceiverState
  /\ EnvOK /\ Receiver \in ReceiverState => TypeOK
<1>1. TypeOK => EnvOK
  BY DEF TypeOK, EnvOK
<1>2. TypeOK => Receiver \in ReceiverState
  <2> SUFFICES ASSUME TypeOK PROVE Receiver \in ReceiverState
    OBVIOUS
  <2>1. /\ mapping \in SUBSET Pub /\ cache \in Cache /\ remembered \in Remembered
        /\ fetch \in [Pub -> Entry \cup {None}]
        /\ requests \in [Pub -> Nat] /\ checking \in [Pub -> Nat]
        /\ collecting \in [Pub -> Nat] /\ timers \in [Pub -> Nat]
        /\ given \in [Sub -> [Pub -> 0 .. Many]]
        /\ wrong \in SUBSET Pub /\ excused \in SUBSET Pub
    BY DEF TypeOK, Cache, Remembered
  <2>2. FALSE \in BOOLEAN
    OBVIOUS
  <2> QED
    BY <2>1, <2>2, Zenon DEF Receiver, ReceiverState
<1>3. EnvOK /\ Receiver \in ReceiverState => TypeOK
  <2> SUFFICES ASSUME EnvOK, Receiver \in ReceiverState PROVE TypeOK
    OBVIOUS
  <2> DEFINE r == Receiver
  <2> HIDE DEF r
  <2>1. /\ r.mapping \in SUBSET Pub /\ r.cache \in Cache /\ r.remembered \in Remembered
        /\ r.fetch \in [Pub -> Entry \cup {None}]
        /\ r.requests \in [Pub -> Nat] /\ r.checking \in [Pub -> Nat]
        /\ r.collecting \in [Pub -> Nat] /\ r.timers \in [Pub -> Nat]
        /\ r.given \in [Sub -> [Pub -> 0 .. Many]]
        /\ r.wrong \in SUBSET Pub /\ r.excused \in SUBSET Pub
    <3>1. r \in ReceiverState
      BY DEF r
    <3> QED
      BY <3>1 DEF ReceiverState
  <2>2. /\ mapping \in SUBSET Pub /\ cache \in Cache /\ remembered \in Remembered
        /\ fetch \in [Pub -> Entry \cup {None}]
        /\ requests \in [Pub -> Nat] /\ checking \in [Pub -> Nat]
        /\ collecting \in [Pub -> Nat] /\ timers \in [Pub -> Nat]
        /\ given \in [Sub -> [Pub -> 0 .. Many]]
        /\ wrong \in SUBSET Pub /\ excused \in SUBSET Pub
    BY <2>1, Fields DEF r
  <2> QED
    BY <2>2 DEF TypeOK, EnvOK, Cache, Remembered
<1> QED
  BY <1>1, <1>2, <1>3

\* What an action makes of the receiver state
LEMMA BecomesTyped ==
  ASSUME NEW t \in ReceiverState, Becomes(t)
  PROVE  /\ Receiver' \in ReceiverState
         /\ \A q \in Pub : SameAt(t, Receiver', q)
         /\ Receiver'.wrong = t.wrong /\ Receiver'.given = t.given
         /\ Receiver'.queued = FALSE
<1> DEFINE r == [mapping |-> t.mapping, cache |-> t.cache, remembered |-> t.remembered,
                 fetch |-> t.fetch, requests |-> t.requests, checking |-> t.checking,
                 collecting |-> t.collecting, timers |-> t.timers, given |-> t.given,
                 wrong |-> t.wrong, excused |-> t.excused, queued |-> FALSE]
<1>1. Receiver' = r
  BY DEF Becomes, Receiver
<1>2. /\ r.fetch = t.fetch /\ r.requests = t.requests /\ r.checking = t.checking
      /\ r.collecting = t.collecting /\ r.timers = t.timers /\ r.given = t.given
      /\ r.wrong = t.wrong /\ r.queued = FALSE
  OBVIOUS
<1>3. r \in ReceiverState
  <2>1. /\ t.mapping \in SUBSET Pub /\ t.cache \in Cache /\ t.remembered \in Remembered
        /\ t.fetch \in [Pub -> Entry \cup {None}]
        /\ t.requests \in [Pub -> Nat] /\ t.checking \in [Pub -> Nat]
        /\ t.collecting \in [Pub -> Nat] /\ t.timers \in [Pub -> Nat]
        /\ t.given \in [Sub -> [Pub -> 0 .. Many]]
        /\ t.wrong \in SUBSET Pub /\ t.excused \in SUBSET Pub
    BY DEF ReceiverState
  <2>2. FALSE \in BOOLEAN
    OBVIOUS
  <2> QED
    BY <2>1, <2>2, Zenon DEF ReceiverState
<1> HIDE DEF r
<1>4. \A q \in Pub : SameAt(t, r, q)
  BY <1>2 DEF SameAt
<1> QED
  BY <1>1, <1>2, <1>3, <1>4

\* The same for a state with the invariant
LEMMA RestsInv ==
  ASSUME NEW t, Becomes(t), Rests(t, announced'), window' = window, EnvOK',
         asked' \subseteq (1 .. announced') \X (1 .. announced'),
         "invalid" \notin MayFail => inFlight' = asked'
  PROVE  IInv'
<1> DEFINE r == Receiver'
<1>1. t \in ReceiverState /\ Good(t, announced') /\ Calm(t)
  BY DEF Rests, Good
<1>2. /\ r \in ReceiverState /\ \A q \in Pub : SameAt(t, r, q)
      /\ r.wrong = t.wrong /\ r.given = t.given /\ r.queued = FALSE
  BY <1>1, BecomesTyped
<1>3. r.given = given' /\ r.wrong = wrong'
  BY DEF Receiver
<1> HIDE DEF r
<1>4. Good(r, announced')
  BY <1>1, <1>2, SameIsGood
<1>5. Due(r)
  BY <1>1, <1>2 DEF Due, Calm, SameAt, In
<1>6. Good(Receiver, announced)' /\ Due(Receiver)'
  BY <1>4, <1>5 DEF Good, Due, r
<1>7. TypeOK'
  <2>1. (EnvOK /\ Receiver \in ReceiverState)' => TypeOK'
    BY TypeParts, PTL
  <2> QED
    BY <1>2, <2>1 DEF r
<1>8. \A s \in ProducerSub, p \in Pub : given'[s][p] <= 1
  BY <1>3, <1>4 DEF Good, Fine, OnceFor
<1>9. NoExtension => wrong' = {}
  BY <1>3, <1>4 DEF Good
<1>10. ProducerAtMostOnce' /\ (NoExtension => ContentRight')
  BY <1>8, <1>9 DEF ProducerAtMostOnce, ContentRight
<1> QED
  BY <1>6, <1>7, <1>10 DEF IInv, NoExtension

\* Once the object is destroyed, only that nothing more is delivered matters.
LEMMA SilentInv ==
  ASSUME IInv, ~alive', EnvOK', Receiver' \in ReceiverState, given' = given, wrong' = wrong
  PROVE  IInv'
<1>1. TypeOK'
  <2>1. (EnvOK /\ Receiver \in ReceiverState)' => TypeOK'
    BY TypeParts, PTL
  <2> QED
    BY <2>1
<1>2. ProducerAtMostOnce' /\ (NoExtension => ContentRight')
  BY DEF IInv, ProducerAtMostOnce, ContentRight
<1> QED
  BY <1>1, <1>2 DEF IInv, NoExtension

\* What an action of the living object starts from
LEMMA Living ==
  ASSUME IInv, alive
  PROVE  /\ EnvOK /\ window \in Nat /\ announced \in Nat /\ announced <= MaxSeq
         /\ At(Receiver, announced)
         /\ asked \subseteq (1 .. announced) \X (1 .. announced)
         /\ "invalid" \notin MayFail => inFlight = asked
<1>1. EnvOK
  BY TypeParts DEF IInv
<1>2. window \in Nat /\ announced \in Nat /\ announced <= MaxSeq
  BY <1>1, Constants DEF EnvOK
<1>3. At(Receiver, announced)
  BY Fields DEF IInv, At
<1> QED
  BY <1>1, <1>2, <1>3 DEF IInv

\* At rest, the state is one an action may leave.
LEMMA AtRests ==
  ASSUME NEW g, NEW a, At(g, a)
  PROVE  Rests(g, a)
BY DEF At, Rests, Due, Calm

\* The receiver state as it was
LEMMA UnchangedBecomes ==
  ASSUME UNCHANGED rcvVars
  PROVE  Becomes(Receiver)
BY Fields DEF rcvVars, Becomes

\* A step that leaves queries, bounds and reported numbers alone
LEMMA EnvStays ==
  ASSUME EnvOK, UNCHANGED envVars, UNCHANGED mapVars, faults' \in 0 .. MaxFaults
  PROVE  EnvOK'
BY DEF EnvOK, envVars, mapVars

LEMMA FaultsStay ==
  ASSUME EnvOK, NEW ok, Faultless(ok)
  PROVE  faults' \in 0 .. MaxFaults
<1>1. faults \in 0 .. MaxFaults /\ MaxFaults \in Nat
  BY PubSubAssumption DEF EnvOK
<1>2. faults' = faults \/ (faults < MaxFaults /\ faults' = faults + 1)
  BY DEF Faultless
<1> QED
  BY <1>1, <1>2

\* An action that makes t of the receiver state and leaves the rest alone
LEMMA StepInv ==
  ASSUME IInv, alive, UNCHANGED envVars, UNCHANGED mapVars, faults' \in 0 .. MaxFaults,
         NEW t, Becomes(t), Rests(t, announced)
  PROVE  IInv'
<1>1. window' = window /\ announced' = announced /\ asked' = asked /\ inFlight' = inFlight
  BY DEF envVars, mapVars
<1>2. EnvOK'
  BY Living, EnvStays
<1> QED
  BY <1>1, <1>2, Living, RestsInv

LEMMA SubscribeStep ==
  ASSUME IInv, NEW s \in Sub, Subscribe(s) \/ Unsubscribe(s)
  PROVE  IInv'
<1>1. /\ alive /\ alive' = alive /\ window' = window /\ rounds' = rounds /\ faults' = faults
      /\ announced' = announced /\ old' = old /\ owed' = owed
      /\ UNCHANGED mapVars /\ UNCHANGED rcvVars
  BY DEF Subscribe, Unsubscribe
<1>2. sub' = [sub EXCEPT ![s] = "on"] \/ sub' = [sub EXCEPT ![s] = "off"]
  BY DEF Subscribe, Unsubscribe
<1>3. EnvOK /\ sub' \in [Sub -> {"new", "on", "off"}]
  BY <1>1, <1>2, Living DEF EnvOK
<1>4. EnvOK'
  BY <1>1, <1>3 DEF EnvOK, mapVars
<1>5. Becomes(Receiver) /\ Rests(Receiver, announced)
  BY <1>1, Living, AtRests, UnchangedBecomes
<1>6. asked' = asked /\ inFlight' = inFlight
  BY <1>1 DEF mapVars
<1> QED
  BY <1>1, <1>4, <1>5, <1>6, Living, RestsInv

\* The ranges of queries
LEMMA ChunksIn ==
  ASSUME NEW low \in Nat \ {0}, NEW high \in Nat, NEW range \in Chunks(low, high)
  PROVE  range \in (1 .. high) \X (1 .. high)
<1>1. ChunkSize \in Nat /\ ChunkSize # 0
  BY PubSubAssumption
<1> DEFINE S == { n \in low .. high : (n - low) % ChunkSize = 0 }
           end(a) == IF a + ChunkSize - 1 < high THEN a + ChunkSize - 1 ELSE high
<1>2. range \in { <<a, end(a)>> : a \in S }
  BY DEF Chunks
<1>3. S \subseteq low .. high
  OBVIOUS
<1> HIDE DEF S
<1>4. PICK a \in S : range = <<a, end(a)>>
  BY <1>2
<1>5. a \in 1 .. high /\ end(a) \in 1 .. high
  BY <1>1, <1>3
<1> HIDE DEF end
<1> QED
  BY <1>4, <1>5

\* scheduleMappingFetch
LEMMA ScheduleFacts ==
  ASSUME NEW ranges, NEW flying, NEW waiting, ScheduleMappingFetch(ranges, flying, waiting),
         NEW P, ranges \subseteq P
  PROVE  /\ waiting \subseteq P => asked' \subseteq P
         /\ flying \subseteq P => inFlight' \subseteq P
         /\ flying = waiting => inFlight' = asked'
BY DEF ScheduleMappingFetch

LEMMA OnSyncInterestStep ==
  ASSUME IInv, NEW high \in announced .. MaxSeq, NEW b \in Blocks, OnSyncInterest(high, b)
  PROVE  IInv'
<1> DEFINE low == announced + 1
           g == Receiver
           r == OnRecvExtraBlocks(g, b)
           s == [r EXCEPT !.queued = FALSE]
           rest == IF NameSubs = {} THEN {} ELSE (low .. high) \ KnownPrefix(r, low, high)
           ranges == IF rest = {} THEN {} ELSE Chunks(Min(rest), high)
           u == UpdateCallback(s, low, high)
<1>1. /\ alive /\ rounds < MaxRounds
      /\ high = announced => Becomes(r) /\ UNCHANGED <<inFlight, asked>>
      /\ high # announced => Becomes(u) /\ ScheduleMappingFetch(ranges, inFlight, asked)
      /\ announced' = high /\ rounds' = rounds + 1
      /\ owed' = owed \cup { o \in Sub \X Pub : o[1] \in Wants(o[2], high, b) }
      /\ UNCHANGED <<window, sub, alive, faults, old, suppressed>>
  BY DEF OnSyncInterest
<1>2. /\ EnvOK /\ window \in Nat /\ announced \in Nat /\ announced <= MaxSeq
      /\ At(g, announced) /\ asked \subseteq (1 .. announced) \X (1 .. announced)
      /\ "invalid" \notin MayFail => inFlight = asked
  BY <1>1, Living
<1>3. high \in Nat /\ announced <= high /\ high <= MaxSeq /\ MaxSeq \in Nat
  BY <1>2, Constants
<1> HIDE DEF g
<1>4. Good(g, announced) /\ Due(g)
  BY <1>2 DEF At
<1>5. Good(r, announced) /\ Calm(r)
  BY <1>2, <1>4, OnRecvExtraBlocksGood
<1> HIDE DEF r
<1>6. (1 .. high) \X (1 .. high) \subseteq Pub \X Pub
  BY <1>3, Constants
<1>7. rounds' \in 0 .. MaxRounds /\ owed' \subseteq Sub \X Pub
  <2>1. rounds \in 0 .. MaxRounds /\ owed \subseteq Sub \X Pub
    BY <1>2 DEF EnvOK
  <2>2. rounds' \in 0 .. MaxRounds
    BY <1>1, <2>1, PubSubAssumption
  <2> QED
    BY <1>1, <2>1, <2>2
<1>8. CASE high = announced
  <2>1. Becomes(r) /\ asked' = asked /\ inFlight' = inFlight
    BY <1>1, <1>8
  <2>2. Rests(r, announced')
    BY <1>1, <1>5, <1>8 DEF Rests
  <2>3. EnvOK'
    BY <1>1, <1>2, <1>7, <1>8, <2>1 DEF EnvOK
  <2> QED
    BY <1>1, <1>2, <1>8, <2>1, <2>2, <2>3, RestsInv
<1>9. CASE high # announced
  <2>1. low \in Nat \ {0} /\ high \in low .. MaxSeq /\ low - 1 = announced
    BY <1>2, <1>3, <1>9
  <2>2. Good(s, announced)
    BY <1>5, QueuedGood
  <2>3. Rests(u, high)
    <3> HIDE DEF s, low
    <3>1. Good(s, low - 1)
      BY <2>1, <2>2
    <3> QED
      BY <1>2, <2>1, <3>1, UpdateCallbackGood DEF Rests
  <2>4. ranges \subseteq (1 .. high) \X (1 .. high)
    <3>1. CASE rest = {}
      BY <3>1
    <3>2. CASE rest # {}
      <4>1. rest \in SUBSET Nat /\ \A x \in rest : x # 0
        BY <2>1
      <4> HIDE DEF rest
      <4>2. Min(rest) \in rest
        BY <3>2, <4>1, Least
      <4>3. Min(rest) \in Nat \ {0}
        BY <4>1, <4>2
      <4> QED
        BY <1>3, <3>2, <4>3, ChunksIn
    <3> QED
      BY <3>1, <3>2
  <2> HIDE DEF ranges, u
  <2>5. ScheduleMappingFetch(ranges, inFlight, asked) /\ Becomes(u)
    BY <1>1, <1>9
  <2>6. asked \subseteq (1 .. high) \X (1 .. high)
    <3>1. 1 .. announced \subseteq 1 .. high
      BY <1>2, <1>3
    <3> QED
      BY <1>2, <3>1
  <2>7. asked' \subseteq (1 .. high) \X (1 .. high)
    <3> DEFINE P == (1 .. high) \X (1 .. high)
    <3>1. ranges \subseteq P /\ asked \subseteq P
      BY <2>4, <2>6
    <3> HIDE DEF P
    <3>2. asked' \subseteq P
      BY <2>5, <3>1, ScheduleFacts
    <3> QED
      BY <3>2 DEF P
  <2>8. inFlight' \subseteq Pub \X Pub
    <3>1. inFlight \subseteq Pub \X Pub /\ ranges \subseteq Pub \X Pub
      BY <1>2, <1>6, <2>4 DEF EnvOK
    <3> QED
      BY <2>5, <3>1, ScheduleFacts
  <2>9. "invalid" \notin MayFail => inFlight' = asked'
    BY <1>2, <2>5, ScheduleFacts
  <2>10. EnvOK'
    <3>1. announced' \in 0 .. MaxSeq
      BY <1>1, <1>3
    <3>2. asked' \subseteq Pub \X Pub
      BY <1>6, <2>7
    <3> QED
      BY <1>1, <1>2, <1>7, <2>8, <3>1, <3>2 DEF EnvOK
  <2> QED
    BY <1>1, <2>3, <2>5, <2>7, <2>9, <2>10, RestsInv
<1> QED
  BY <1>8, <1>9

LEMMA OnFetchedNameMappingsStep ==
  ASSUME IInv, NEW range \in asked, NEW got, OnFetchedNameMappings(range, got)
  PROVE  IInv'
<1> DEFINE g == Receiver
           named == [g EXCEPT !.mapping = @ \cup got]
           end == EachName(named, NewestFirst(got))
           t == FetchIfQueued(end)
           P == (1 .. announced) \X (1 .. announced)
           ranges == MissingRanges(range[1], range[2], got)
<1>1. /\ alive /\ got \in SUBSET (range[1] .. range[2])
      /\ Becomes(t) /\ ScheduleMappingFetch(ranges, inFlight \ {range}, asked \ {range})
      /\ UNCHANGED envVars /\ faults' = faults /\ suppressed' = suppressed
  BY DEF OnFetchedNameMappings, MappingAnswers, FetchNameMapping, EachName
<1>2. /\ EnvOK /\ window \in Nat /\ announced \in Nat /\ announced <= MaxSeq
      /\ At(g, announced) /\ asked \subseteq P
      /\ "invalid" \notin MayFail => inFlight = asked
  BY <1>1, Living
<1>3. range[1] \in 1 .. announced /\ range[2] \in 1 .. announced
  BY <1>2
<1>4. \A q \in range[1] .. range[2] : q \in 1 .. announced
  BY <1>2, <1>3
<1>5. got \in SUBSET Pub
  BY <1>1, <1>2, <1>4, Constants
<1>6. P \subseteq Pub \X Pub
  BY <1>2, Constants
<1>7. ranges \subseteq P
  BY <1>4 DEF MissingRanges
<1> HIDE DEF g, P, ranges
<1>8. Good(g, announced) /\ Due(g) /\ g \in ReceiverState
  BY <1>2 DEF At, Good
<1>9. Good(named, announced) /\ Due(named)
  <2> DEFINE names == g.mapping \cup got
             x == [g EXCEPT !.mapping = names]
  <2>1. names \in SUBSET Pub
    BY <1>5, <1>8 DEF ReceiverState
  <2> HIDE DEF names
  <2>2. Good(x, announced) /\ Due(x)
    BY <1>8, <2>1, NamedGood
  <2> QED
    BY <2>2 DEF names
<1> HIDE DEF named
<1>10. NewestFirst(got) \in Seq(got)
  BY <1>5, InOrderLists
<1>11. Good(end, announced) /\ Due(end)
  BY <1>2, <1>5, <1>9, <1>10, EachNameGood
<1> HIDE DEF end
<1>12. Rests(t, announced)
  BY <1>2, <1>11, FetchIfQueuedGood DEF Rests
<1> HIDE DEF t
<1>13. announced' = announced /\ window' = window
  BY <1>1 DEF envVars
<1>14. asked' \subseteq P
  <2>1. asked \ {range} \subseteq P
    BY <1>2
  <2> QED
    BY <1>1, <1>7, <2>1, ScheduleFacts
<1>15. inFlight' \subseteq Pub \X Pub
  <2> DEFINE Q == Pub \X Pub
  <2>1. inFlight \ {range} \subseteq Q /\ ranges \subseteq Q
    BY <1>2, <1>6, <1>7 DEF EnvOK
  <2> HIDE DEF Q
  <2>2. inFlight' \subseteq Q
    BY <1>1, <2>1, ScheduleFacts
  <2> QED
    BY <2>2 DEF Q
<1>16. "invalid" \notin MayFail => inFlight' = asked'
  BY <1>1, <1>2, <1>7, ScheduleFacts
<1>17. EnvOK'
  <2>1. asked' \subseteq Pub \X Pub
    BY <1>6, <1>14
  <2> QED
    BY <1>1, <1>2, <1>15, <2>1 DEF EnvOK, envVars
<1> QED
  BY <1>1, <1>12, <1>13, <1>14, <1>16, <1>17, RestsInv DEF P

\* What is given up, as a field that no property of the state depends on
LEMMA ExcusedRests ==
  ASSUME NEW a, NEW g, At(g, a), NEW some \in SUBSET Pub
  PROVE  Rests([g EXCEPT !.excused = some], a)
<1> DEFINE t == [g EXCEPT !.excused = some]
<1>1. Good(g, a) /\ Due(g) /\ ~g.queued /\ g \in ReceiverState
  BY DEF At, Good
<1>2. /\ t \in ReceiverState /\ t.wrong = g.wrong /\ t.queued = g.queued
      /\ t.fetch = g.fetch /\ t.requests = g.requests /\ t.checking = g.checking
      /\ t.collecting = g.collecting /\ t.timers = g.timers /\ t.given = g.given
  BY <1>1 DEF ReceiverState
<1> HIDE DEF t
<1>3. \A q \in Pub : SameAt(g, t, q)
  BY <1>2 DEF SameAt
<1>4. Good(t, a) /\ Due(t)
  BY <1>1, <1>2, <1>3, SameIsGood
<1>5. Rests(t, a)
  BY <1>1, <1>2, <1>4 DEF Rests, Calm, Due
<1> QED
  BY <1>5 DEF t

\* The variables, when only excused changes
LEMMA ExcusedBecomes ==
  ASSUME UNCHANGED <<mapping, cache, remembered, fetch, requests, checking, collecting, timers,
                     given, wrong>>,
         Receiver \in ReceiverState
  PROVE  Becomes([Receiver EXCEPT !.excused = excused'])
<1> DEFINE g == Receiver
           x == excused'
           t == [g EXCEPT !.excused = x]
<1>1. /\ g.mapping = mapping /\ g.cache = cache /\ g.remembered = remembered
      /\ g.fetch = fetch /\ g.requests = requests /\ g.checking = checking
      /\ g.collecting = collecting /\ g.timers = timers /\ g.given = given
      /\ g.wrong = wrong
  BY Fields
<1> HIDE DEF g, x
<1>2. /\ t.mapping = g.mapping /\ t.cache = g.cache /\ t.remembered = g.remembered
      /\ t.fetch = g.fetch /\ t.requests = g.requests /\ t.checking = g.checking
      /\ t.collecting = g.collecting /\ t.timers = g.timers /\ t.given = g.given
      /\ t.wrong = g.wrong /\ t.excused = x
  BY DEF g, ReceiverState
<1> HIDE DEF t
<1>3. Becomes(t)
  BY <1>1, <1>2 DEF Becomes, x
<1> QED
  BY <1>3 DEF t, g, x

LEMMA MappingFetchFailsStep ==
  ASSUME IInv, NEW range \in asked, NEW how \in MayFail, MappingFetchFails(range, how)
  PROVE  IInv'
<1>1. /\ alive /\ how \in {"mapping", "invalid"} /\ Faultless(FALSE)
      /\ asked' = asked \ {range}
      /\ how = "mapping" => /\ inFlight' = inFlight \ {range}
                            /\ suppressed' = suppressed \cup {range}
      /\ how # "mapping" => inFlight' = inFlight /\ suppressed' = suppressed
      /\ excused' = excused \cup ((range[1] .. range[2]) \ mapping)
      /\ UNCHANGED envVars
      /\ UNCHANGED <<mapping, cache, remembered, fetch, requests, checking, collecting, timers,
                     given, wrong>>
  BY DEF MappingFetchFails, MarkMappingFetchFailed
<1>2. /\ EnvOK /\ window \in Nat /\ announced \in Nat /\ announced <= MaxSeq
      /\ At(Receiver, announced) /\ asked \subseteq (1 .. announced) \X (1 .. announced)
      /\ "invalid" \notin MayFail => inFlight = asked
  BY <1>1, Living
<1>3. range[1] \in 1 .. announced /\ range[2] \in 1 .. announced
  BY <1>2
<1>4. \A q \in range[1] .. range[2] : q \in Pub
  BY <1>2, <1>3, Constants
<1>5. Receiver \in ReceiverState /\ excused \in SUBSET Pub
  <2>1. TypeOK
    BY DEF IInv
  <2> QED
    BY <2>1, TypeParts DEF TypeOK
<1>6. excused' \in SUBSET Pub
  BY <1>1, <1>4, <1>5
<1> DEFINE t == [Receiver EXCEPT !.excused = excused']
<1>7. Becomes(t)
  BY <1>1, <1>5, ExcusedBecomes
<1>8. Rests(t, announced)
  BY <1>2, <1>6, ExcusedRests
<1> HIDE DEF t
<1>9. faults' \in 0 .. MaxFaults
  BY <1>1, <1>2, FaultsStay
<1>10. EnvOK'
  <2>1. inFlight' \subseteq Pub \X Pub /\ asked' \subseteq Pub \X Pub /\ suppressed' \subseteq Pub \X Pub
    BY <1>1, <1>2 DEF EnvOK
  <2> QED
    BY <1>1, <1>2, <1>9, <2>1 DEF EnvOK, envVars
<1>11. announced' = announced /\ window' = window
  BY <1>1 DEF envVars
<1>12. "invalid" \notin MayFail => inFlight' = asked'
  BY <1>1, <1>2
<1>13. asked' \subseteq (1 .. announced) \X (1 .. announced)
  BY <1>1, <1>2
<1> QED
  BY <1>7, <1>8, <1>10, <1>11, <1>12, <1>13, RestsInv

LEMMA SuppressionEndsStep ==
  ASSUME IInv, NEW range \in suppressed, SuppressionEnds(range)
  PROVE  IInv'
<1>1. /\ alive /\ suppressed' = suppressed \ {range} /\ UNCHANGED envVars
      /\ faults' = faults /\ inFlight' = inFlight /\ asked' = asked /\ UNCHANGED rcvVars
  BY DEF SuppressionEnds
<1>2. EnvOK'
  BY <1>1, Living DEF EnvOK, envVars
<1>3. Becomes(Receiver) /\ Rests(Receiver, announced)
  BY <1>1, Living, AtRests, UnchangedBecomes
<1>4. announced' = announced /\ window' = window
  BY <1>1 DEF envVars
<1> QED
  BY <1>1, <1>2, <1>3, <1>4, Living, RestsInv

LEMMA GrowsOldStep ==
  ASSUME IInv, NEW p \in Pub, GrowsOld(p)
  PROVE  IInv'
<1>1. /\ alive /\ Faultless(FALSE) /\ old' = old \cup {p} /\ excused' = excused \cup {p}
      /\ UNCHANGED <<window, sub, alive, rounds, announced, owed>> /\ UNCHANGED mapVars
      /\ UNCHANGED <<mapping, cache, remembered, fetch, requests, checking, collecting, timers,
                     given, wrong>>
  BY DEF GrowsOld
<1>2. EnvOK /\ At(Receiver, announced)
  BY <1>1, Living
<1>3. Receiver \in ReceiverState /\ excused \in SUBSET Pub
  <2>1. TypeOK
    BY DEF IInv
  <2> QED
    BY <2>1, TypeParts DEF TypeOK
<1>4. excused' \in SUBSET Pub
  BY <1>1, <1>3
<1> DEFINE t == [Receiver EXCEPT !.excused = excused']
<1>5. Becomes(t)
  BY <1>1, <1>3, ExcusedBecomes
<1>6. Rests(t, announced)
  BY <1>2, <1>4, ExcusedRests
<1> HIDE DEF t
<1>7. faults' \in 0 .. MaxFaults
  BY <1>1, <1>2, FaultsStay
<1>8. EnvOK'
  BY <1>1, <1>2, <1>7 DEF EnvOK, mapVars
<1>9. asked' = asked /\ inFlight' = inFlight
  BY <1>1 DEF mapVars
<1> QED
  BY <1>1, <1>5, <1>6, <1>8, <1>9, Living, RestsInv

LEMMA FetchEndsStep ==
  ASSUME IInv, NEW p \in Pub, NEW how, FetchEnds(p, how)
  PROVE  IInv'
<1> DEFINE g == Receiver
           e == LessRequests(g, p)
           o == Observed(e, p)
           checked == [o EXCEPT !.checking = Add(@, p, 1)]
<1>1. /\ alive /\ requests[p] > 0 /\ Faultless(how = "data")
      /\ how \in {"data"} \cup ({"timeout", "plain", "undecodable", "invalid"} \cap MayFail)
      /\ UNCHANGED envVars /\ UNCHANGED mapVars
  BY DEF FetchEnds
<1>2. EnvOK /\ window \in Nat /\ At(g, announced)
  BY <1>1, Living
<1>3. faults' \in 0 .. MaxFaults
  BY <1>1, <1>2, FaultsStay
<1>4. g.requests[p] > 0
  BY <1>1, Fields
<1>5. Ended(p) = e
  BY DEF Ended, LessRequests
<1>6. OnSyncData(p) = IF HasInnerValidator THEN checked ELSE ReturnData(o, p)
  BY <1>5 DEF OnSyncData
<1>7. Becomes(CASE how = "data" -> OnSyncData(p)
                [] how \in {"timeout", "plain"} -> MarkPublicationFetchFailed(Ended(p), p)
                [] how = "undecodable" -> GiveUp(Observed(Ended(p), p), p)
                [] how = "invalid" -> Ended(p))
  BY DEF FetchEnds
<1> HIDE DEF g
<1>8. /\ Rests(MarkPublicationFetchFailed(e, p), announced)
      /\ Rests(GiveUp(o, p), announced) /\ Rests(ReturnData(o, p), announced)
      /\ Rests(checked, announced)
  BY <1>2, <1>4, FailedRests, DataRests
<1>9. "invalid" \in MayFail => Rests(e, announced)
  BY <1>2, <1>4, RefusedRests
<1> HIDE DEF e, o, checked
<1>10. CASE how = "data"
  <2>1. Becomes(OnSyncData(p))
    BY <1>7, <1>10
  <2>2. Rests(OnSyncData(p), announced)
    BY <1>6, <1>8
  <2> QED
    BY <1>1, <1>3, <2>1, <2>2, StepInv
<1>11. CASE how \in {"timeout", "plain"}
  <2>1. Becomes(MarkPublicationFetchFailed(e, p))
    BY <1>5, <1>7, <1>11
  <2> QED
    BY <1>1, <1>3, <1>8, <2>1, StepInv
<1>12. CASE how = "undecodable"
  <2>1. Becomes(GiveUp(o, p))
    BY <1>5, <1>7, <1>12 DEF o
  <2> QED
    BY <1>1, <1>3, <1>8, <2>1, StepInv
<1>13. CASE how = "invalid"
  <2>1. Becomes(e) /\ "invalid" \in MayFail
    BY <1>1, <1>5, <1>7, <1>13
  <2> QED
    BY <1>1, <1>3, <1>9, <2>1, StepInv
<1> QED
  BY <1>1, <1>10, <1>11, <1>12, <1>13

\* An answer after destruction: only the count of what was awaited changes.
LEMMA SilentStep ==
  ASSUME IInv, ~alive, UNCHANGED envVars, UNCHANGED mapVars, faults' \in 0 .. MaxFaults,
         NEW t \in ReceiverState, Becomes(t), t.given = given, t.wrong = wrong
  PROVE  IInv'
<1>1. EnvOK
  BY TypeParts DEF IInv
<1>2. EnvOK' /\ ~alive'
  BY <1>1, EnvStays DEF envVars
<1>3. Receiver' \in ReceiverState
  BY BecomesTyped
<1>4. given' = given /\ wrong' = wrong
  BY DEF Becomes
<1> QED
  BY <1>2, <1>3, <1>4, SilentInv

LEMMA InnerCheckedStep ==
  ASSUME IInv, NEW p \in Pub, NEW ok \in BOOLEAN, InnerChecked(p, ok)
  PROVE  IInv' /\ (~alive => given' = given)
<1> DEFINE g == Receiver
           o == LessChecking(g, p)
<1>1. /\ checking[p] > 0 /\ Faultless(ok)
      /\ Becomes(IF ~alive THEN o ELSE IF ok THEN ReturnData(o, p) ELSE GiveUp(o, p))
      /\ UNCHANGED envVars /\ UNCHANGED mapVars
  BY DEF InnerChecked, LessChecking
<1>2. EnvOK /\ g \in ReceiverState
  BY TypeParts DEF IInv
<1>3. faults' \in 0 .. MaxFaults
  BY <1>1, <1>2, FaultsStay
<1>4. g.checking[p] > 0 /\ g.given = given /\ g.wrong = wrong
  BY <1>1, Fields
<1> HIDE DEF g
<1>5. CASE ~alive
  <2>1. g.checking[p] + (-1) \in Nat
    <3>1. g.checking[p] \in Nat
      BY <1>2 DEF ReceiverState
    <3> QED
      BY <1>4, <3>1
  <2>2. CheckingChange(g, o, p, -1)
    BY <1>2, <2>1, CheckingFields DEF LessChecking
  <2> HIDE DEF o
  <2>3. o \in ReceiverState /\ o.given = given /\ o.wrong = wrong
    BY <1>4, <2>2 DEF CheckingChange, CountsAt
  <2>4. Becomes(o)
    BY <1>1, <1>5
  <2>5. given' = given
    BY <2>3, <2>4 DEF Becomes
  <2> QED
    BY <1>1, <1>3, <1>5, <2>3, <2>4, <2>5, SilentStep
<1>6. CASE alive
  <2>1. window \in Nat /\ At(g, announced)
    BY <1>6, Living DEF g
  <2>2. Rests(ReturnData(o, p), announced) /\ Rests(GiveUp(o, p), announced)
    BY <1>4, <2>1, CheckedRests
  <2> HIDE DEF o
  <2>3. \/ Becomes(ReturnData(o, p)) \/ Becomes(GiveUp(o, p))
    BY <1>1, <1>6
  <2>4. IInv'
    BY <1>1, <1>3, <1>6, <2>2, <2>3, StepInv
  <2> QED
    BY <1>6, <2>4
<1> QED
  BY <1>5, <1>6

LEMMA SegmentsArriveStep ==
  ASSUME IInv, NEW p \in Pub, NEW blocks \in Answers(p), NEW valid \in BOOLEAN,
         SegmentsArrive(p, blocks, valid)
  PROVE  IInv' /\ (~alive => given' = given)
<1> DEFINE g == Receiver
           o == LessCollecting(g, p)
           payload == DecodeInnerSegments(blocks)
           other == IF payload = Segments(p, SegmentCount) THEN p ELSE None
           d == DeliverBlob(o, p)
           x == CleanUpFetch([d EXCEPT !.wrong = IF other = p THEN @ ELSE @ \cup {p}], p)
<1>1. /\ collecting[p] > 0
      /\ Faultless(valid /\ Range(blocks) = Range(Segments(p, SegmentCount)))
      /\ Becomes(IF ~alive THEN o
                 ELSE IF payload = NoAssembly \/ ~valid THEN GiveUp(o, p)
                 ELSE IF o.fetch[p] = None THEN o ELSE x)
      /\ UNCHANGED envVars /\ UNCHANGED mapVars
  BY DEF SegmentsArrive, LessCollecting
<1>2. EnvOK /\ g \in ReceiverState
  BY TypeParts DEF IInv
<1>3. faults' \in 0 .. MaxFaults
  BY <1>1, <1>2, FaultsStay
<1>4. g.collecting[p] > 0 /\ g.given = given /\ g.wrong = wrong
  BY <1>1, Fields
<1> HIDE DEF g
<1>5. g.collecting[p] + (-1) \in Nat
  <2>1. g.collecting[p] \in Nat
    BY <1>2 DEF ReceiverState
  <2> QED
    BY <1>4, <2>1
<1>6. CollectingChange(g, o, p, -1)
  BY <1>2, <1>5, CollectingFields DEF LessCollecting
<1>7. payload # NoAssembly => payload = Segments(p, SegmentCount)
  BY DecodeRight
<1>8. payload # NoAssembly => x = Assembled(o, p)
  BY <1>7 DEF Assembled
<1> HIDE DEF o, payload, x
<1>9. o \in ReceiverState /\ o.fetch = g.fetch /\ o.given = given /\ o.wrong = wrong
  BY <1>4, <1>6 DEF CollectingChange, CountsAt
<1>10. CASE ~alive
  <2>1. Becomes(o)
    BY <1>1, <1>10
  <2>2. given' = given
    BY <1>9, <2>1 DEF Becomes
  <2> QED
    BY <1>1, <1>3, <1>9, <1>10, <2>1, <2>2, SilentStep
<1>11. CASE alive
  <2>1. window \in Nat /\ At(g, announced)
    BY <1>11, Living DEF g
  <2>2. /\ Rests(GiveUp(o, p), announced)
        /\ g.fetch[p] = None => Rests(o, announced)
        /\ g.fetch[p] # None => Rests(Assembled(o, p), announced)
    BY <1>4, <2>1, CollectedRests DEF o
  <2>3. \/ Becomes(GiveUp(o, p))
        \/ g.fetch[p] = None /\ Becomes(o)
        \/ g.fetch[p] # None /\ Becomes(Assembled(o, p))
    BY <1>1, <1>8, <1>9, <1>11
  <2>4. IInv'
    BY <1>1, <1>3, <1>11, <2>2, <2>3, StepInv
  <2> QED
    BY <1>11, <2>4
<1> QED
  BY <1>10, <1>11

\* The variables, when only an entry changes
LEMMA EntryBecomes ==
  ASSUME Receiver \in ReceiverState, NEW p \in Pub, NEW e \in Entry,
         fetch' = SetEntry(Receiver, p, e).fetch,
         UNCHANGED <<mapping, cache, remembered, requests, checking, collecting, timers, given,
                     wrong, excused>>
  PROVE  Becomes(SetEntry(Receiver, p, e))
<1> DEFINE g == Receiver
           t == SetEntry(g, p, e)
<1>1. /\ g.mapping = mapping /\ g.cache = cache /\ g.remembered = remembered
      /\ g.requests = requests /\ g.checking = checking
      /\ g.collecting = collecting /\ g.timers = timers /\ g.given = given
      /\ g.wrong = wrong /\ g.excused = excused
  BY Fields
<1>2. g \in ReceiverState
  OBVIOUS
<1> HIDE DEF g
<1>3. /\ t.mapping = g.mapping /\ t.cache = g.cache /\ t.remembered = g.remembered
      /\ t.requests = g.requests /\ t.checking = g.checking
      /\ t.collecting = g.collecting /\ t.timers = g.timers /\ t.given = g.given
      /\ t.wrong = g.wrong /\ t.excused = g.excused
  BY <1>2, SetEntryFields
<1>4. fetch' = t.fetch
  BY DEF g
<1> HIDE DEF t
<1>5. Becomes(t)
  BY <1>1, <1>3, <1>4 DEF Becomes
<1> QED
  BY <1>5 DEF t, g

LEMMA NextAttemptComesStep ==
  ASSUME IInv, NEW p \in Pub, NextAttemptComes(p)
  PROVE  IInv'
<1> DEFINE g == Receiver
           o == g.fetch[p]
           e == [o EXCEPT !.status = "ready"]
           t == SetStatus(g, p, "ready")
<1>1. /\ alive /\ fetch[p] # None /\ fetch[p].status = "backoff"
      /\ fetch' = t.fetch /\ UNCHANGED envVars /\ faults' = faults /\ UNCHANGED mapVars
      /\ UNCHANGED <<mapping, cache, remembered, requests, checking, collecting, timers, given,
                     wrong, excused>>
  BY DEF NextAttemptComes
<1>2. EnvOK /\ window \in Nat /\ At(g, announced) /\ g \in ReceiverState
  BY <1>1, Living, TypeParts DEF IInv
<1>3. o # None /\ In(g, p, "backoff")
  BY <1>1, Fields DEF In
<1> HIDE DEF g
<1>4. Rests(t, announced)
  BY <1>2, <1>3, NextAttemptRests
<1>5. t = SetEntry(g, p, e)
  BY DEF SetStatus
<1>6. e \in Entry
  <2>1. o \in Entry
    BY <1>2, <1>3 DEF ReceiverState
  <2> HIDE DEF o
  <2> QED
    BY <2>1 DEF Entry
<1> HIDE DEF e, t
<1>7. Becomes(t)
  BY <1>1, <1>2, <1>5, <1>6, EntryBecomes DEF g
<1>8. faults' \in 0 .. MaxFaults
  BY <1>1, <1>2 DEF EnvOK
<1> QED
  BY <1>1, <1>4, <1>7, <1>8, StepInv

LEMMA DeadlinePassesStep ==
  ASSUME IInv, NEW p \in Pub, DeadlinePasses(p)
  PROVE  IInv'
<1> DEFINE g == Receiver
           o == g.fetch[p]
           e == [o EXCEPT !.late = TRUE]
           t == SetEntry(g, p, e)
<1>1. /\ alive /\ fetch[p] # None /\ Faultless(FALSE)
      /\ fetch' = SetEntry(Receiver, p, [fetch[p] EXCEPT !.late = TRUE]).fetch
      /\ UNCHANGED envVars /\ UNCHANGED mapVars
      /\ UNCHANGED <<mapping, cache, remembered, requests, checking, collecting, timers, given,
                     wrong, excused>>
  BY DEF DeadlinePasses
<1>2. EnvOK /\ window \in Nat /\ At(g, announced) /\ g \in ReceiverState
  BY <1>1, Living, TypeParts DEF IInv
<1>3. o # None /\ o = fetch[p]
  BY <1>1, Fields
<1>4. fetch' = t.fetch
  BY <1>1, <1>3
<1> HIDE DEF g
<1>5. Rests(t, announced)
  BY <1>2, <1>3, DeadlineRests
<1>6. e \in Entry
  <2>1. o \in Entry
    BY <1>2, <1>3 DEF ReceiverState
  <2> HIDE DEF o
  <2> QED
    BY <2>1 DEF Entry
<1> HIDE DEF e
<1>7. Becomes(t)
  BY <1>1, <1>2, <1>4, <1>6, EntryBecomes DEF g
<1>8. faults' \in 0 .. MaxFaults
  BY <1>1, <1>2, FaultsStay
<1> QED
  BY <1>1, <1>5, <1>7, <1>8, StepInv

LEMMA BackoffEventStep ==
  ASSUME IInv, NEW p \in Pub, BackoffEvent(p)
  PROVE  IInv'
<1> DEFINE g == Receiver
           t == FetchAll([g EXCEPT !.timers = Add(@, p, -1)])
<1>1. /\ alive /\ timers[p] > (IF fetch[p] # None /\ fetch[p].status = "backoff" THEN 1 ELSE 0)
      /\ Becomes(t) /\ UNCHANGED envVars /\ faults' = faults /\ UNCHANGED mapVars
  BY DEF BackoffEvent
<1>2. EnvOK /\ window \in Nat /\ At(g, announced)
  BY <1>1, Living
<1>3. g.timers[p] > (IF In(g, p, "backoff") THEN 1 ELSE 0)
  BY <1>1, Fields DEF In
<1> HIDE DEF g
<1>4. Rests(t, announced)
  BY <1>2, <1>3, BackoffRests
<1> HIDE DEF t
<1>5. faults' \in 0 .. MaxFaults
  BY <1>1, <1>2 DEF EnvOK
<1> QED
  BY <1>1, <1>4, <1>5, StepInv

LEMMA DestroyStep ==
  ASSUME IInv, Destroy
  PROVE  IInv'
<1>1. /\ alive' = FALSE
      /\ requests' = [p \in Pub |-> 0] /\ timers' = [p \in Pub |-> 0] /\ asked' = {}
      /\ UNCHANGED <<window, sub, rounds, faults, announced, old, owed, inFlight, suppressed,
                     mapping, cache, remembered, fetch, checking, collecting, given, wrong, excused>>
  BY DEF Destroy
<1>2. TypeOK
  BY DEF IInv
<1>3. TypeOK'
  <2>1. requests' \in [Pub -> Nat] /\ timers' \in [Pub -> Nat]
    BY <1>1
  <2>2. alive' \in BOOLEAN
    BY <1>1
  <2> QED
    BY <1>1, <1>2, <2>1, <2>2 DEF TypeOK
<1>4. ProducerAtMostOnce' /\ (NoExtension => ContentRight')
  BY <1>1 DEF IInv, ProducerAtMostOnce, ContentRight
<1> QED
  BY <1>1, <1>3, <1>4 DEF IInv, NoExtension

\* A step that changes nothing
LEMMA StutterStep ==
  ASSUME IInv, UNCHANGED vars
  PROVE  IInv'
BY DEF IInv, vars, TypeOK, Receiver, Good, Due, Fetching, ProducerAtMostOnce, ContentRight, NoExtension

LEMMA InitInv ==
  ASSUME Init
  PROVE  IInv
<1> DEFINE g == Receiver
<1>1. TypeOK
  <2>1. 0 \in 0 .. MaxSeq /\ 0 \in 0 .. MaxRounds /\ 0 \in 0 .. MaxFaults /\ 0 \in 0 .. Many
    BY PubSubAssumption DEF Many
  <2>2. sub \in [Sub -> {"new", "on", "off"}]
    <3>1. PICK start \in StartingSubs : sub = [s \in Sub |-> IF s \in start THEN "on" ELSE "new"]
      BY DEF Init
    <3> QED
      BY <3>1
  <2>3. alive \in BOOLEAN
    BY DEF Init
  <2>4. cache \in Seq(Pub \X {"name", "full"}) /\ Len(cache) <= CacheLimit
        /\ remembered \in Seq(Pub) /\ Len(remembered) <= DeliveredLimit
    BY Constants DEF Init
  <2>5. given \in [Sub -> [Pub -> 0 .. Many]]
    BY <2>1 DEF Init
  <2> QED
    BY <2>1, <2>2, <2>3, <2>4, <2>5 DEF Init, TypeOK
<1>2. g \in ReceiverState
  BY <1>1, TypeParts
<1>3. /\ window \in Nat /\ announced = 0 /\ asked = {} /\ inFlight = {}
      /\ \A s \in Sub, p \in Pub : given[s][p] = 0
      /\ \A p \in Pub : /\ fetch[p] = None /\ requests[p] = 0 /\ checking[p] = 0
                        /\ collecting[p] = 0
      /\ wrong = {}
  BY Constants DEF Init
<1>4. /\ \A s \in Sub, p \in Pub : g.given[s][p] = 0
      /\ \A p \in Pub : /\ g.fetch[p] = None /\ g.requests[p] = 0 /\ g.checking[p] = 0
                        /\ g.collecting[p] = 0
      /\ g.wrong = {}
  BY <1>3, Fields
<1> HIDE DEF g
<1>5. \A p \in Pub : \A x : ~In(g, p, x)
  BY <1>4 DEF In
<1>6. ASSUME NEW p \in Pub PROVE Fine(g, p, announced)
  <2>1. OneAtATime(g, p)
    BY <1>4 DEF OneAtATime
  <2>2. \A s \in ProducerSub : OnceFor(g, p, s)
    BY <1>4, Constants DEF OnceFor
  <2>3. Served(g, p)
    BY <1>5 DEF Served
  <2>4. Unreported(g, p)
    BY <1>4, Constants DEF Unreported
  <2> QED
    BY <1>4, <2>1, <2>2, <2>3, <2>4 DEF Fine
<1>7. Cardinality(Fetching(g)) <= window
  <2>1. Fetching(g) = {}
    BY <1>4 DEF Fetching
  <2> QED
    BY <1>3, <2>1, FS_EmptySet
<1>8. Good(g, announced) /\ Due(g)
  BY <1>2, <1>4, <1>5, <1>6, <1>7 DEF Good, Due
<1>9. ProducerAtMostOnce /\ ContentRight
  BY <1>3, Constants DEF ProducerAtMostOnce, ContentRight
<1> QED
  BY <1>1, <1>3, <1>8, <1>9 DEF IInv, g

LEMMA ProgressStep ==
  ASSUME IInv, NEW p \in Pub, Progress(p)
  PROVE  IInv' /\ (~alive => given' = given)
<1>1. CASE \E how \in {"data"} \cup MayFail : FetchEnds(p, how)
  <2>1. PICK how \in {"data"} \cup MayFail : FetchEnds(p, how)
    BY <1>1
  <2> QED
    BY <2>1, FetchEndsStep DEF FetchEnds
<1>2. CASE \E ok \in BOOLEAN : InnerChecked(p, ok)
  BY <1>2, InnerCheckedStep
<1>3. CASE \E blocks \in Answers(p), valid \in BOOLEAN : SegmentsArrive(p, blocks, valid)
  BY <1>3, SegmentsArriveStep
<1>4. CASE NextAttemptComes(p)
  BY <1>4, NextAttemptComesStep DEF NextAttemptComes
<1>5. CASE BackoffEvent(p)
  BY <1>5, BackoffEventStep DEF BackoffEvent
<1> QED
  BY <1>1, <1>2, <1>3, <1>4, <1>5 DEF Progress

\* One step for each action
LEMMA NextStep ==
  ASSUME IInv, Next
  PROVE  IInv' /\ (~alive => given' = given)
<1>1. CASE \E s \in Sub : Subscribe(s) \/ Unsubscribe(s)
  BY <1>1, SubscribeStep DEF Subscribe, Unsubscribe
<1>2. CASE \E high \in announced .. MaxSeq, b \in Blocks : OnSyncInterest(high, b)
  BY <1>2, OnSyncInterestStep DEF OnSyncInterest
<1>3. CASE \E range \in asked : \E got \in MappingAnswers(range) : OnFetchedNameMappings(range, got)
  BY <1>3, OnFetchedNameMappingsStep DEF OnFetchedNameMappings
<1>4. CASE \E range \in asked, how \in MayFail : MappingFetchFails(range, how)
  BY <1>4, MappingFetchFailsStep DEF MappingFetchFails
<1>5. CASE \E range \in suppressed : SuppressionEnds(range)
  BY <1>5, SuppressionEndsStep DEF SuppressionEnds
<1>6. CASE \E p \in Pub : Progress(p) \/ DeadlinePasses(p) \/ GrowsOld(p)
  <2>1. PICK p \in Pub : Progress(p) \/ DeadlinePasses(p) \/ GrowsOld(p)
    BY <1>6
  <2>2. CASE Progress(p)
    BY <2>2, ProgressStep
  <2>3. CASE DeadlinePasses(p)
    BY <2>3, DeadlinePassesStep DEF DeadlinePasses
  <2>4. CASE GrowsOld(p)
    BY <2>4, GrowsOldStep DEF GrowsOld
  <2> QED
    BY <2>1, <2>2, <2>3, <2>4
<1>7. CASE Destroy
  BY <1>7, DestroyStep DEF Destroy
<1> QED
  BY <1>1, <1>2, <1>3, <1>4, <1>5, <1>6, <1>7 DEF Next

\* The inductive invariant of the receiving side of SVSPubSub holds in every
\* reachable state, whatever arrives in which order.
THEOREM PubSubInvariance == Spec => []IInv
<1>1. Init => IInv
  BY InitInv
<1>2. IInv /\ [Next]_vars => IInv'
  BY NextStep, StutterStep
<1> QED
  BY <1>1, <1>2, PTL DEF Spec

\* The state is well-typed; the piggyback caches keep to their limits.
THEOREM PubSubTypeCorrect == Spec => []TypeOK
<1>1. IInv => TypeOK
  BY DEF IInv
<1> QED
  BY <1>1, PubSubInvariance, PTL

\* A subscription to a producer gets each publication at most once, by
\* whichever of the ways its packets may come.
THEOREM DeliveredAtMostOnce == Spec => []ProducerAtMostOnce
<1>1. IInv => ProducerAtMostOnce
  BY DEF IInv
<1> QED
  BY <1>1, PubSubInvariance, PTL

\* Every entry of m_fetchMap has something under way that moves it on, and the
\* fetches keep to publicationFetchWindow, if the Fetcher's validator refuses
\* nothing (onSyncData is not told of what it refuses).
THEOREM NobodyWaitsForNothing ==
  ASSUME "invalid" \notin MayFail
  PROVE  Spec => []NoLeak
<1>1. IInv => NoLeak
  <2> SUFFICES ASSUME IInv, alive
               PROVE  /\ inFlight = asked
                      /\ Cardinality(Fetching(Receiver)) <= window
                      /\ \A p \in Pub : fetch[p] # None =>
                           CASE fetch[p].status = "fetching"  -> requests[p] > 0
                             [] fetch[p].status = "backoff"   -> timers[p] > 0
                             [] fetch[p].status = "delivered" -> checking[p] + collecting[p] > 0
                             [] OTHER -> window >= MaxSeq => timers[p] > 0
    BY DEF NoLeak
  <2> DEFINE g == Receiver
  <2>1. Good(g, announced) /\ Due(g) /\ inFlight = asked
    BY DEF IInv
  <2>2. /\ g.fetch = fetch /\ g.requests = requests /\ g.timers = timers
        /\ g.checking = checking /\ g.collecting = collecting /\ ~g.queued
    BY Fields
  <2>3. g \in ReceiverState
    BY <2>1 DEF Good
  <2> HIDE DEF g
  <2>4. Cardinality(Fetching(g)) <= window
    BY <2>1 DEF Good
  <2>5. ASSUME NEW p \in Pub, fetch[p] # None
        PROVE  /\ fetch[p].status = "fetching" => requests[p] > 0
               /\ fetch[p].status = "backoff" => timers[p] > 0
               /\ fetch[p].status = "delivered" => checking[p] + collecting[p] > 0
               /\ fetch[p].status = "ready" => (window >= MaxSeq => timers[p] > 0)
               /\ fetch[p].status \in {"ready", "fetching", "backoff", "delivered"}
    <3>1. Served(g, p)
      BY <2>1 DEF Good, Fine
    <3>2. fetch[p].status = "ready" => (window >= MaxSeq => timers[p] > 0)
      BY <2>1, <2>2, <2>5 DEF Due, In
    <3>3. fetch[p] \in Entry
      BY <2>2, <2>3, <2>5 DEF ReceiverState
    <3>4. fetch[p].status \in {"ready", "fetching", "backoff", "delivered"}
      BY <3>3 DEF Entry
    <3> QED
      BY <2>2, <2>5, <3>1, <3>2, <3>4 DEF Served, In
  <2> QED
    BY <2>1, <2>4, <2>5 DEF g
<1> QED
  BY <1>1, PubSubInvariance, PTL

\* What is delivered is the content of the publication it is delivered as, if
\* no publication's name extends another's: then a lookup by prefix in the
\* cache finds the right packet, and segments are put together correctly
\* whatever the SegmentFetcher returns.
THEOREM ContentIsRight ==
  ASSUME NoExtension
  PROVE  Spec => []ContentRight
<1>1. IInv => ContentRight
  BY DEF IInv
<1> QED
  BY <1>1, PubSubInvariance, PTL

\* Once the object is destroyed no callback runs, though validators and
\* SegmentFetchers still answer.
THEOREM SilenceAfterDestruction == Spec => SilentAfterDestruction
<1>1. IInv /\ [Next]_vars => [~alive => given' = given]_vars
  BY NextStep
<1> QED
  BY <1>1, PubSubInvariance, PTL DEF Spec, SilentAfterDestruction

--------------------------------------------------------------------------------
(*****************************************************************************)
(* Nothing is lost                                                           *)
(*****************************************************************************)

\* Subscription s has got p, or p has been given up.
Had(r, s, p) == r.given[s][p] > 0 \/ p \in r.excused

Entered(r, s, p) == r.fetch[p] # None /\ r.fetch[p].subs[s] > 0

\* The receiver has worked on p.
Trace(r, p) == r.fetch[p] # None \/ p \in Range(r.remembered)

\* The pairs in O are kept, as far as their publications are in M, the ones
\* whose subscriptions have been entered.  Publications outside M have left no
\* trace and are not collected.  Who is for packets has got the first one when
\* the others are collected.
Kept(r, O, M) ==
  \A p \in Pub :
    /\ Trace(r, p) => p \in M
    /\ r.collecting[p] > 0 => p \in M
    /\ \A s \in Sub : <<s, p>> \in O =>
         /\ p \in M => Had(r, s, p) \/ Entered(r, s, p)
         /\ s \in PacketSub /\ r.collecting[p] > 0 => Had(r, s, p)

\* A change from r to t loses nothing and begins nothing at p.
KeepsAt(r, t, p) ==
  /\ t.collecting[p] > 0 => r.collecting[p] > 0
  /\ Trace(t, p) => Trace(r, p)
  /\ \A s \in Sub : /\ Had(r, s, p) => Had(t, s, p)
                    /\ Entered(r, s, p) => Had(t, s, p) \/ Entered(t, s, p)

Keeps(r, t) ==
  /\ t \in ReceiverState /\ t.mapping = r.mapping /\ r.excused \subseteq t.excused
  /\ \A p \in Pub : KeepsAt(r, t, p)

LEMMA KeepsSame ==
  ASSUME NEW r \in ReceiverState
  PROVE  Keeps(r, r)
BY DEF Keeps, KeepsAt

LEMMA KeepsBoth ==
  ASSUME NEW r, NEW s, NEW t, Keeps(r, s), Keeps(s, t)
  PROVE  Keeps(r, t)
BY DEF Keeps, KeepsAt

LEMMA KeptStays ==
  ASSUME NEW r, NEW t, Keeps(r, t), NEW O, NEW M, Kept(r, O, M)
  PROVE  Kept(t, O, M)
BY DEF Keeps, KeepsAt, Kept

\* The other publications
LEMMA SameKeeps ==
  ASSUME NEW r, NEW t, NEW q \in Pub, SameAt(r, t, q), r.excused \subseteq t.excused,
         q \in Range(t.remembered) => q \in Range(r.remembered)
  PROVE  KeepsAt(r, t, q)
BY DEF SameAt, KeepsAt, Trace, Had, Entered

\* A bounded queue holds the keys it held and the new one, or fewer.
LEMMA RememberRange ==
  ASSUME NEW S, NEW keys \in Seq(S), NEW key \in S, NEW limit \in Nat,
         NEW k \in Range(Remember(keys, key, limit))
  PROVE  k \in Range(keys) \/ k = key
<1> DEFINE all == IF key \in Range(keys) THEN keys ELSE Append(keys, key)
           t == Remember(keys, key, limit)
<1>1. all \in Seq(S) /\ \A i \in 1 .. Len(all) : all[i] \in Range(keys) \/ all[i] = key
  <2>1. \A i \in 1 .. Len(keys) : keys[i] \in Range(keys)
    BY DEF Range
  <2> QED
    BY <2>1
<1> HIDE DEF all
<1>2. CASE Len(all) > limit
  <2> DEFINE m == (Len(all) - limit) + 1
             x == SubSeq(all, m, Len(all))
  <2>1. Len(all) \in Nat /\ m \in 1 .. Len(all) + 1
    BY <1>1, <1>2
  <2>2. t = x
    BY <1>2 DEF Remember, all
  <2> HIDE DEF m
  <2>3. DOMAIN x = 1 .. (Len(all) - m + 1) /\ \A i \in DOMAIN x : x[i] = all[m + i - 1]
    BY <1>1, <2>1
  <2>4. \A i \in DOMAIN x : m + i - 1 \in 1 .. Len(all)
    BY <2>1, <2>3
  <2>5. PICK i \in DOMAIN x : k = x[i]
    BY <2>2 DEF Range
  <2> QED
    BY <1>1, <2>3, <2>4, <2>5
<1>3. CASE ~(Len(all) > limit)
  <2>1. t = all /\ DOMAIN all = 1 .. Len(all)
    BY <1>1, <1>3 DEF Remember, all
  <2>2. PICK i \in DOMAIN all : k = all[i]
    BY <2>1 DEF Range
  <2> QED
    BY <1>1, <2>1, <2>2
<1> QED
  BY <1>2, <1>3

\* rememberPiggyDeliveredPublication
LEMMA RememberFields ==
  ASSUME NEW r \in ReceiverState, NEW p \in Pub
  PROVE  /\ RememberPiggyDelivered(r, p) \in ReceiverState
         /\ \A q \in Pub : SameAt(r, RememberPiggyDelivered(r, p), q)
         /\ \A q \in Range(RememberPiggyDelivered(r, p).remembered) :
              q \in Range(r.remembered) \/ q = p
         /\ RememberPiggyDelivered(r, p).mapping = r.mapping
         /\ RememberPiggyDelivered(r, p).excused = r.excused
         /\ RememberPiggyDelivered(r, p).fetch = r.fetch
         /\ RememberPiggyDelivered(r, p).given = r.given
         /\ RememberPiggyDelivered(r, p).collecting = r.collecting
<1> DEFINE m == Remember(r.remembered, p, DeliveredLimit)
           t == [r EXCEPT !.remembered = m]
<1>1. r.remembered \in Seq(Pub)
  BY DEF ReceiverState, Remembered
<1>2. m \in Remembered
  BY <1>1, RememberBounded, Constants DEF Remembered
<1>3. ASSUME NEW q \in Range(m) PROVE q \in Range(r.remembered) \/ q = p
  <2>1. DeliveredLimit \in Nat
    BY Constants
  <2> QED
    BY <1>1, <2>1, RememberRange
<1> HIDE DEF m
<1>4. /\ t \in ReceiverState /\ t.remembered = m /\ t.mapping = r.mapping /\ t.excused = r.excused
      /\ t.fetch = r.fetch /\ t.requests = r.requests /\ t.checking = r.checking
      /\ t.collecting = r.collecting /\ t.timers = r.timers /\ t.given = r.given
  BY <1>2 DEF ReceiverState
<1>5. RememberPiggyDelivered(r, p) = t
  BY DEF RememberPiggyDelivered, m
<1> HIDE DEF t
<1>6. \A q \in Pub : SameAt(r, t, q)
  BY <1>4 DEF SameAt
<1> QED
  BY <1>3, <1>4, <1>5, <1>6

\* A callback makes a difference.
LEMMA UptoGrows ==
  ASSUME NEW n \in 0 .. Many, NEW m \in 0 .. Many
  PROVE  Upto(n + m) > 0 <=> n > 0 \/ m > 0
BY DEF Upto, Many

\* What a fetch brought is delivered to all that are entered.
LEMMA EndFetchKeeps ==
  ASSUME NEW r \in ReceiverState, NEW p \in Pub, r.fetch[p] # None, NEW q
  PROVE  Keeps(r, EndFetchWith(r, p, q))
<1> DEFINE copies == r.fetch[p].subs
           d == Deliver(r, p, copies, q)
           m == RememberPiggyDelivered(d, p)
           t == SetEntry(m, p, None)
<1>1. copies \in [Sub -> 0 .. Many]
  <2>1. r.fetch[p] \in Entry
    BY DEF ReceiverState
  <2> QED
    BY <2>1 DEF Entry
<1> HIDE DEF copies
<1>2. /\ d \in ReceiverState
      /\ \A s \in Sub : d.given[s][p] = Upto(r.given[s][p] + copies[s])
      /\ \A s \in Sub, o \in Pub : o # p => d.given[s][o] = r.given[s][o]
      /\ d.mapping = r.mapping /\ d.remembered = r.remembered /\ d.excused = r.excused
      /\ d.fetch = r.fetch /\ d.collecting = r.collecting
  BY <1>1, DeliverFields
<1> HIDE DEF d
<1>3. /\ m \in ReceiverState /\ \A o \in Range(m.remembered) : o \in Range(d.remembered) \/ o = p
      /\ m.mapping = d.mapping /\ m.excused = d.excused /\ m.fetch = d.fetch
      /\ m.given = d.given /\ m.collecting = d.collecting
  BY <1>2, RememberFields
<1> HIDE DEF m
<1>4. /\ t \in ReceiverState /\ t.fetch[p] = None
      /\ \A o \in Pub : o # p => t.fetch[o] = m.fetch[o]
      /\ t.mapping = m.mapping /\ t.remembered = m.remembered /\ t.excused = m.excused
      /\ t.given = m.given /\ t.collecting = m.collecting
  BY <1>3, SetEntryFields
<1>5. EndFetchWith(r, p, q) = t
  BY DEF EndFetchWith, CleanUpFetch, t, m, d, copies
<1> HIDE DEF t
<1>6. ASSUME NEW s \in Sub PROVE t.given[s][p] > 0 <=> r.given[s][p] > 0 \/ copies[s] > 0
  <2>1. r.given[s][p] \in 0 .. Many /\ copies[s] \in 0 .. Many
    BY <1>1 DEF ReceiverState
  <2> QED
    BY <1>2, <1>3, <1>4, <2>1, UptoGrows
<1>7. KeepsAt(r, t, p)
  BY <1>2, <1>3, <1>4, <1>6 DEF KeepsAt, Trace, Had, Entered, copies
<1>8. ASSUME NEW o \in Pub, o # p PROVE KeepsAt(r, t, o)
  BY <1>2, <1>3, <1>4, <1>8 DEF KeepsAt, Trace, Had, Entered
<1> QED
  BY <1>2, <1>3, <1>4, <1>5, <1>7, <1>8 DEF Keeps

\* A change of one publication's entry or counts
LEMMA KeepsAtOne ==
  ASSUME NEW r, NEW t \in ReceiverState, NEW p \in Pub, KeepsAt(r, t, p),
         t.mapping = r.mapping, t.remembered = r.remembered, r.excused \subseteq t.excused,
         \A q \in Pub : q # p => SameAt(r, t, q)
  PROVE  Keeps(r, t)
<1>1. ASSUME NEW q \in Pub, q # p PROVE KeepsAt(r, t, q)
  BY <1>1, SameKeeps
<1> QED
  BY <1>1 DEF Keeps

\* A packet in a Sync Interest
LEMMA ReceivePacketKeeps ==
  ASSUME NEW r \in ReceiverState, NEW q \in Pub
  PROVE  Keeps(r, ReceivePacket(r, q))
<1> DEFINE s == SatisfyPendingFetch(r, q)
           c == Remember(Remember(s.cache, <<q, "name">>, CacheLimit), <<q, "full">>, CacheLimit)
           t == [s EXCEPT !.cache = c]
<1>1. Keeps(r, s)
  BY EndFetchKeeps, KeepsSame DEF SatisfyPendingFetch
<1> HIDE DEF s
<1>2. s \in ReceiverState
  BY <1>1 DEF Keeps
<1>3. c \in Cache
  <2> DEFINE K == Pub \X {"name", "full"}
  <2>1. s.cache \in Seq(K) /\ <<q, "name">> \in K /\ <<q, "full">> \in K /\ CacheLimit \in Nat
    BY <1>2, Constants DEF ReceiverState, Cache
  <2> HIDE DEF K
  <2>2. Remember(s.cache, <<q, "name">>, CacheLimit) \in Seq(K)
    BY <2>1, RememberBounded
  <2>3. c \in Seq(K) /\ Len(c) <= CacheLimit
    BY <2>1, <2>2, RememberBounded
  <2> QED
    BY <2>3 DEF Cache, K
<1>4. ReceivePacket(r, q) = t
  BY DEF ReceivePacket, s
<1> HIDE DEF c
<1>5. /\ t \in ReceiverState /\ t.mapping = s.mapping /\ t.excused = s.excused
      /\ t.remembered = s.remembered /\ t.fetch = s.fetch
      /\ t.collecting = s.collecting /\ t.given = s.given
  BY <1>2, <1>3 DEF ReceiverState
<1> HIDE DEF t
<1>6. Keeps(s, t)
  BY <1>5 DEF Keeps, KeepsAt, Trace, Had, Entered
<1> QED
  BY <1>1, <1>4, <1>6, KeepsBoth

LEMMA EachPacketKeeps ==
  ASSUME NEW r \in ReceiverState, NEW E \in SUBSET Pub, NEW seq \in Seq(E)
  PROVE  Keeps(r, EachPacket(r, seq))
<1> DEFINE A == { x \in ReceiverState : Keeps(r, x) }
<1>1. r \in A
  BY KeepsSame
<1>2. ASSUME NEW x \in A, NEW q \in E PROVE ReceivePacket(x, q) \in A
  <2> DEFINE t == ReceivePacket(x, q)
  <2>1. Keeps(x, t)
    BY ReceivePacketKeeps
  <2> HIDE DEF t
  <2>2. Keeps(r, t)
    BY <2>1, KeepsBoth
  <2>3. t \in ReceiverState
    BY <2>2 DEF Keeps
  <2> QED
    BY <2>2, <2>3 DEF t
<1> HIDE DEF A
<1>3. LoopOfPackets!Closed({}, A, E)
  BY <1>2 DEF LoopOfPackets!Closed
<1>4. LoopOfPackets!Loop({}, r, seq) \in A
  BY <1>1, <1>3, LoopOfPackets!FoldInvariant
<1> QED
  BY <1>4, SamePackets DEF A

\* What is asked for stays entered.
LEMMA AskedKeeps ==
  ASSUME NEW r \in ReceiverState, NEW p \in Pub, r.fetch[p] # None
  PROVE  Keeps(r, Asked(r, p))
<1> DEFINE o == r.fetch[p]
           e == [o EXCEPT !.status = "fetching", !.attempts = @ + 1]
           s == SetEntry(r, p, e)
           t == [s EXCEPT !.requests = Add(@, p, 1)]
<1>1. Asks(r, t, p)
  BY AskedFields DEF Asked
<1>2. e \in Entry
  <2> DEFINE e1 == [o EXCEPT !.status = "fetching"]
             e2 == [e1 EXCEPT !.attempts = @ + 1]
  <2>1. o \in Entry
    BY DEF ReceiverState
  <2> HIDE DEF o
  <2>2. e1 \in Entry
    BY <2>1 DEF Entry
  <2>3. e = e2
    BY <2>1 DEF Entry
  <2> HIDE DEF e1, e
  <2>4. e2 \in Entry
    BY <2>2 DEF Entry
  <2> QED
    BY <2>3, <2>4
<1> HIDE DEF e
<1>3. /\ s \in ReceiverState /\ s.mapping = r.mapping /\ s.remembered = r.remembered
      /\ s.excused = r.excused
  BY <1>2, SetEntryFields
<1> HIDE DEF s
<1>4. t.mapping = s.mapping /\ t.remembered = s.remembered /\ t.excused = s.excused
  BY <1>3 DEF ReceiverState
<1>5. t = Asked(r, p)
  BY DEF Asked, t, s, e, o
<1> HIDE DEF t
<1>6. KeepsAt(r, t, p)
  BY <1>1, <1>3, <1>4 DEF Asks, KeepsAt, Trace, Had, Entered
<1> QED
  BY <1>1, <1>3, <1>4, <1>5, <1>6, KeepsAtOne DEF Asks

LEMMA FetchTurnKeeps ==
  ASSUME NEW r \in ReceiverState, NEW p \in Pub
  PROVE  Keeps(r, FetchTurn(r, p))
<1> DEFINE hit == IF p \in r.mapping THEN CacheHit(r, p) ELSE None
           t == FetchTurn(r, p)
<1>1. \/ t = r
      \/ r.fetch[p] # None /\ t = EndFetchWith(r, p, hit)
      \/ r.fetch[p] # None /\ t = Asked(r, p)
  BY DEF FetchTurn, Asked
<1> HIDE DEF t, hit
<1>2. Keeps(r, t)
  BY <1>1, KeepsSame, EndFetchKeeps, AskedKeeps
<1> QED
  BY <1>2 DEF t

LEMMA FetchReadyKeeps ==
  ASSUME NEW r \in ReceiverState, NEW ready \in SUBSET Pub, \A p \in ready : r.fetch[p] # None
  PROVE  Keeps(r, FetchReady(r, ready))
<1> DEFINE A == { x \in ReceiverState : Keeps(r, x) }
           seq == FetchOrder(r, ready)
<1>1. r \in A
  BY KeepsSame
<1>2. ASSUME NEW x \in A, NEW p \in ready PROVE FetchTurn(x, p) \in A
  <2> DEFINE t == FetchTurn(x, p)
  <2>1. Keeps(x, t)
    BY FetchTurnKeeps
  <2> HIDE DEF t
  <2>2. Keeps(r, t)
    BY <2>1, KeepsBoth
  <2>3. t \in ReceiverState
    BY <2>2 DEF Keeps
  <2> QED
    BY <2>2, <2>3 DEF t
<1>3. seq \in Seq(ready)
  BY FetchOrderLists DEF Lists
<1> HIDE DEF A, seq
<1>4. LoopOfFetches!Closed({}, A, ready)
  BY <1>2 DEF LoopOfFetches!Closed
<1>5. LoopOfFetches!Loop({}, r, seq) \in A
  BY <1>1, <1>3, <1>4, LoopOfFetches!FoldInvariant
<1> QED
  BY <1>5, SameFetches DEF A, seq

\* fetchAll: what has expired is excused.
LEMMA FetchAllKeeps ==
  ASSUME NEW r \in ReceiverState
  PROVE  Keeps(r, FetchAll(r))
<1> DEFINE waiting == { p \in Pub : r.fetch[p] # None /\ r.fetch[p].status \in {"ready", "backoff"} }
           expired == { p \in waiting : r.fetch[p].late }
           ready == { p \in waiting \ expired : r.fetch[p].status = "ready" }
           f == [p \in Pub |-> IF p \in expired THEN None ELSE r.fetch[p]]
           k1 == [r EXCEPT !.fetch = f]
           kept == [k1 EXCEPT !.excused = @ \cup expired]
<1>1. /\ ready \in SUBSET Pub /\ expired \in SUBSET Pub
      /\ \A p \in ready : p \notin expired /\ r.fetch[p] # None
      /\ \A p \in expired : r.fetch[p] # None
  OBVIOUS
<1>2. FetchAll(r) = FetchReady(kept, ready)
  <2>1. kept = [r EXCEPT !.fetch = f, !.excused = @ \cup expired]
    <3> HIDE DEF expired, f
    <3> QED
      BY DEF ReceiverState
  <2> QED
    BY <2>1 DEF FetchAll
<1> HIDE DEF waiting, expired, ready
<1>3. f \in [Pub -> Entry \cup {None}]
  BY DEF ReceiverState
<1>4. \A p \in Pub : f[p] = IF p \in expired THEN None ELSE r.fetch[p]
  OBVIOUS
<1> HIDE DEF f
<1>5. /\ k1 \in ReceiverState /\ k1.fetch = f /\ k1.mapping = r.mapping
      /\ k1.remembered = r.remembered /\ k1.collecting = r.collecting
      /\ k1.given = r.given /\ k1.excused = r.excused
  BY <1>3 DEF ReceiverState
<1> HIDE DEF k1
<1>6. /\ kept \in ReceiverState /\ kept.fetch = k1.fetch /\ kept.mapping = k1.mapping
      /\ kept.remembered = k1.remembered /\ kept.collecting = k1.collecting
      /\ kept.given = k1.given /\ kept.excused = k1.excused \cup expired
  BY <1>1, <1>5 DEF ReceiverState
<1> HIDE DEF kept
<1>7. ASSUME NEW p \in Pub PROVE KeepsAt(r, kept, p)
  <2>1. kept.fetch[p] = IF p \in expired THEN None ELSE r.fetch[p]
    BY <1>4, <1>5, <1>6
  <2> QED
    BY <1>5, <1>6, <2>1 DEF KeepsAt, Trace, Had, Entered
<1>8. Keeps(r, kept)
  BY <1>5, <1>6, <1>7 DEF Keeps
<1>9. \A p \in ready : kept.fetch[p] # None
  BY <1>1, <1>4, <1>5, <1>6
<1>10. Keeps(kept, FetchReady(kept, ready))
  BY <1>1, <1>6, <1>9, FetchReadyKeeps
<1> QED
  BY <1>2, <1>8, <1>10, KeepsBoth

LEMMA FetchIfQueuedKeeps ==
  ASSUME NEW r \in ReceiverState
  PROVE  Keeps(r, FetchIfQueued(r))
BY FetchAllKeeps, KeepsSame DEF FetchIfQueued

--------------------------------------------------------------------------------
(* Names *)

\* A callback for the subscriptions in who
LEMMA DeliverOnce ==
  ASSUME NEW r \in ReceiverState, NEW p \in Pub, NEW who \in SUBSET Sub, NEW q
  PROVE  /\ Deliver(r, p, Once(who), q) \in ReceiverState
         /\ \A s \in Sub : Deliver(r, p, Once(who), q).given[s][p] > 0
                             <=> r.given[s][p] > 0 \/ s \in who
         /\ \A s \in Sub, o \in Pub :
              o # p => Deliver(r, p, Once(who), q).given[s][o] = r.given[s][o]
         /\ Deliver(r, p, Once(who), q).mapping = r.mapping
         /\ Deliver(r, p, Once(who), q).remembered = r.remembered
         /\ Deliver(r, p, Once(who), q).fetch = r.fetch
         /\ Deliver(r, p, Once(who), q).collecting = r.collecting
         /\ Deliver(r, p, Once(who), q).excused = r.excused
<1> DEFINE once == Once(who)
           t == Deliver(r, p, once, q)
<1>1. once \in [Sub -> 0 .. Many] /\ \A s \in Sub : once[s] = IF s \in who THEN 1 ELSE 0
  BY OnceFacts
<1> HIDE DEF once
<1>2. /\ t \in ReceiverState
      /\ \A s \in Sub : t.given[s][p] = Upto(r.given[s][p] + once[s])
      /\ \A s \in Sub, o \in Pub : o # p => t.given[s][o] = r.given[s][o]
      /\ t.mapping = r.mapping /\ t.remembered = r.remembered /\ t.fetch = r.fetch
      /\ t.collecting = r.collecting /\ t.excused = r.excused
  BY <1>1, DeliverFields
<1> HIDE DEF t
<1>3. ASSUME NEW s \in Sub PROVE t.given[s][p] > 0 <=> r.given[s][p] > 0 \/ s \in who
  <2>1. r.given[s][p] \in 0 .. Many /\ once[s] \in 0 .. Many
    BY <1>1 DEF ReceiverState
  <2>2. once[s] > 0 <=> s \in who
    BY <1>1
  <2> QED
    BY <1>2, <2>1, <2>2, UptoGrows
<1> QED
  BY <1>2, <1>3 DEF t, once

\* How t differs from r when the name of p has been looked at, for the
\* subscriptions in matched
Names(r, t, p, matched) ==
  /\ t \in ReceiverState /\ t.mapping = r.mapping /\ t.excused = r.excused
  /\ t.collecting = r.collecting
  /\ \A q \in Pub : q # p => /\ Trace(t, q) => Trace(r, q)
                             /\ t.fetch[q] = r.fetch[q]
                             /\ \A s \in Sub : t.given[s][q] = r.given[s][q]
  /\ \A s \in Sub : /\ Had(r, s, p) => Had(t, s, p)
                    /\ Entered(r, s, p) => Entered(t, s, p)
  /\ \/ p \in Range(r.remembered) \/ p \in old
     \/ \A s \in matched : Had(t, s, p) \/ Entered(t, s, p)
  /\ matched = {} => Keeps(r, t)

LEMMA AddEntered ==
  ASSUME NEW r \in ReceiverState, NEW p \in Pub, NEW who \in SUBSET Sub
  PROVE  /\ AddPublicationFetch(r, p, who) \in ReceiverState
         /\ AddPublicationFetch(r, p, who).given = r.given
         /\ AddPublicationFetch(r, p, who).collecting = r.collecting
         /\ AddPublicationFetch(r, p, who).mapping = r.mapping
         /\ AddPublicationFetch(r, p, who).remembered = r.remembered
         /\ AddPublicationFetch(r, p, who).excused = r.excused
         /\ \A q \in Pub : q # p => AddPublicationFetch(r, p, who).fetch[q] = r.fetch[q]
         /\ \A s \in Sub : Entered(AddPublicationFetch(r, p, who), s, p)
                             <=> Entered(r, s, p) \/ s \in who
<1> DEFINE t == AddPublicationFetch(r, p, who)
           e == IF r.fetch[p] = None THEN NewEntry(Once(who))
                ELSE [r.fetch[p] EXCEPT !.subs = [s \in Sub |-> Upto(@[s] + Once(who)[s])]]
<1>1. Enters(r, t, p, who)
  BY AddFields
<1>2. t = IF who = {} THEN r ELSE SetEntry(r, p, e)
  BY DEF AddPublicationFetch
<1>3. t.mapping = r.mapping /\ t.remembered = r.remembered /\ t.excused = r.excused
  <2> HIDE DEF t, e
  <2>1. CASE who = {}
    BY <1>2, <2>1
  <2>2. CASE who # {}
    <3> DEFINE x == [r EXCEPT !.fetch = [@ EXCEPT ![p] = e]]
    <3>1. t = x
      BY <1>2, <2>2 DEF SetEntry
    <3>2. x.mapping = r.mapping /\ x.remembered = r.remembered /\ x.excused = r.excused
      BY DEF ReceiverState
    <3> QED
      BY <3>1, <3>2
  <2> QED
    BY <2>1, <2>2
<1> HIDE DEF t, e
<1>4. ASSUME NEW s \in Sub PROVE Entered(t, s, p) <=> Entered(r, s, p) \/ s \in who
  <2>1. CASE who = {}
    BY <1>2, <2>1
  <2>2. CASE who # {}
    <3>1. /\ t.fetch[p] # None
          /\ t.fetch[p].subs[s] = IF r.fetch[p] = None THEN Once(who)[s]
                                  ELSE Upto(r.fetch[p].subs[s] + Once(who)[s])
      BY <1>1, <2>2 DEF Enters
    <3>2. Once(who)[s] \in 0 .. Many /\ (Once(who)[s] > 0 <=> s \in who)
      BY OnceFacts
    <3>3. r.fetch[p] # None => r.fetch[p].subs[s] \in 0 .. Many
      <4>1. r.fetch[p] # None => r.fetch[p] \in Entry
        BY DEF ReceiverState
      <4> QED
        BY <4>1 DEF Entry
    <3>4. CASE r.fetch[p] = None
      BY <3>1, <3>2, <3>4 DEF Entered
    <3>5. CASE r.fetch[p] # None
      BY <3>1, <3>2, <3>3, <3>5, UptoGrows DEF Entered
    <3> QED
      BY <3>4, <3>5
  <2> QED
    BY <2>1, <2>2
<1> QED
  BY <1>1, <1>3, <1>4 DEF t, Enters, SameAt

\* processMapping: each subscription that matches is told or entered, unless
\* the publication was delivered before or is too old.
LEMMA ProcessMappingNames ==
  ASSUME NEW r \in ReceiverState, NEW p \in Pub
  PROVE  Names(r, ProcessMapping(r, p), p, { s \in NameSubs : p \in matching[s] })
<1> DEFINE matched == { s \in NameSubs : p \in matching[s] }
           fetchers == matched \ NameOnlySub
           only == matched \cap NameOnlySub
           told == Deliver(r, p, Once(only), p)
           hit == CacheHit(r, p)
           found == Deliver(told, p, Once(fetchers), hit)
           known == RememberPiggyDelivered(found, p)
           added == AddPublicationFetch(told, p, fetchers)
           queue == [added EXCEPT !.queued = TRUE]
<1>1. matched \in SUBSET Sub
  BY DEF NameSubs
<1>2. ProcessMapping(r, p) =
        IF p \in Range(r.remembered) \/ p \in old THEN r
        ELSE IF fetchers = {} THEN told
        ELSE IF hit # None THEN known ELSE queue
  BY DEF ProcessMapping
<1> HIDE DEF matched
<1>3. fetchers \in SUBSET Sub /\ only \in SUBSET Sub /\ matched = fetchers \cup only
  BY <1>1
<1> HIDE DEF fetchers, only
<1>4. /\ told \in ReceiverState
      /\ \A s \in Sub : told.given[s][p] > 0 <=> r.given[s][p] > 0 \/ s \in only
      /\ \A s \in Sub, o \in Pub : o # p => told.given[s][o] = r.given[s][o]
      /\ told.mapping = r.mapping /\ told.remembered = r.remembered /\ told.fetch = r.fetch
      /\ told.collecting = r.collecting /\ told.excused = r.excused
  BY <1>3, DeliverOnce
<1> HIDE DEF told
<1>5. ASSUME p \in Range(r.remembered) \/ p \in old
      PROVE  Names(r, r, p, matched)
  BY <1>5, KeepsSame DEF Names
<1>6. ASSUME fetchers = {}
      PROVE  Names(r, told, p, matched)
  <2>1. \A s \in matched : Had(told, s, p)
    BY <1>1, <1>3, <1>4, <1>6 DEF Had
  <2>2. \A q \in Pub : Trace(told, q) <=> Trace(r, q)
    BY <1>4 DEF Trace
  <2>3. \A s \in Sub, q \in Pub : /\ Had(r, s, q) => Had(told, s, q)
                                  /\ Entered(told, s, q) <=> Entered(r, s, q)
    BY <1>4 DEF Had, Entered
  <2>4. Keeps(r, told)
    BY <1>4, <2>2, <2>3 DEF Keeps, KeepsAt
  <2> QED
    BY <1>4, <2>1, <2>2, <2>3, <2>4 DEF Names
<1>7. ASSUME fetchers # {}
      PROVE  Names(r, known, p, matched)
  <2>1. /\ found \in ReceiverState
        /\ \A s \in Sub : found.given[s][p] > 0 <=> told.given[s][p] > 0 \/ s \in fetchers
        /\ \A s \in Sub, o \in Pub : o # p => found.given[s][o] = told.given[s][o]
        /\ found.mapping = told.mapping /\ found.remembered = told.remembered
        /\ found.fetch = told.fetch
        /\ found.collecting = told.collecting /\ found.excused = told.excused
    BY <1>3, <1>4, DeliverOnce
  <2> HIDE DEF found
  <2>2. /\ known \in ReceiverState
        /\ \A q \in Range(known.remembered) : q \in Range(found.remembered) \/ q = p
        /\ known.mapping = found.mapping /\ known.excused = found.excused
        /\ known.fetch = found.fetch /\ known.given = found.given
        /\ known.collecting = found.collecting
    BY <2>1, RememberFields
  <2> HIDE DEF known
  <2>3. \A s \in matched : Had(known, s, p)
    BY <1>1, <1>3, <1>4, <2>1, <2>2 DEF Had
  <2>4. \A q \in Pub : q # p => (Trace(known, q) => Trace(r, q))
    BY <1>4, <2>1, <2>2 DEF Trace
  <2>5. \A s \in Sub : /\ Had(r, s, p) => Had(known, s, p)
                       /\ Entered(r, s, p) => Entered(known, s, p)
    BY <1>4, <2>1, <2>2 DEF Had, Entered
  <2> QED
    BY <1>3, <1>4, <1>7, <2>1, <2>2, <2>3, <2>4, <2>5 DEF Names
<1>8. ASSUME fetchers # {}
      PROVE  Names(r, queue, p, matched)
  <2>1. /\ added \in ReceiverState
        /\ added.given = told.given /\ added.collecting = told.collecting
        /\ added.mapping = told.mapping /\ added.remembered = told.remembered
        /\ added.excused = told.excused
        /\ \A q \in Pub : q # p => added.fetch[q] = told.fetch[q]
        /\ \A s \in Sub : Entered(added, s, p) <=> Entered(told, s, p) \/ s \in fetchers
    BY <1>3, <1>4, AddEntered
  <2> HIDE DEF added
  <2>2. TRUE \in BOOLEAN
    OBVIOUS
  <2>3. /\ queue \in ReceiverState /\ queue.fetch = added.fetch /\ queue.given = added.given
        /\ queue.collecting = added.collecting /\ queue.mapping = added.mapping
        /\ queue.remembered = added.remembered /\ queue.excused = added.excused
    BY <2>1, <2>2 DEF ReceiverState
  <2> HIDE DEF queue
  <2>4. \A s \in Sub : /\ Entered(queue, s, p) <=> Entered(r, s, p) \/ s \in fetchers
                       /\ Had(queue, s, p) <=> Had(r, s, p) \/ s \in only
    BY <1>4, <2>1, <2>3 DEF Entered, Had
  <2>5. \A s \in matched : Had(queue, s, p) \/ Entered(queue, s, p)
    BY <1>1, <1>3, <2>4
  <2>6. \A q \in Pub : q # p => (Trace(queue, q) => Trace(r, q))
    BY <1>4, <2>1, <2>3 DEF Trace
  <2> QED
    BY <1>3, <1>4, <1>8, <2>1, <2>3, <2>4, <2>5, <2>6 DEF Names
<1> HIDE DEF known, queue, hit
<1>9. Names(r, ProcessMapping(r, p), p, matched)
  BY <1>2, <1>5, <1>6, <1>7, <1>8
<1> QED
  BY <1>9 DEF matched

\* What subscription s has to get of p it has got, or is entered for.
SettledAt(r, O, p) == \A s \in Sub : <<s, p>> \in O => Had(r, s, p) \/ Entered(r, s, p)

\* Kept, while the names in E are looked at: the publications that have left
\* a trace are among those looked at already.
Going(r, O, M, E) ==
  /\ r \in ReceiverState /\ old \subseteq r.excused
  /\ \A p \in Pub :
       /\ Trace(r, p) => p \in M \cup E
       /\ r.collecting[p] > 0 => p \in M \cup E
       /\ p \in M \/ Trace(r, p) => SettledAt(r, O, p)
       /\ \A s \in Sub : <<s, p>> \in O /\ s \in PacketSub /\ r.collecting[p] > 0 => Had(r, s, p)

\* The subscriptions in O to publications in E are to names, and match.
Matched(O, E) ==
  \A s \in Sub, p \in E : <<s, p>> \in O => s \in NameSubs /\ p \in matching[s]

LEMMA GoingStep ==
  ASSUME NEW O, NEW M, NEW E \in SUBSET Pub, Matched(O, E),
         NEW r, Going(r, O, M, E), NEW p \in E
  PROVE  /\ Going(ProcessMapping(r, p), O, M, E)
         /\ SettledAt(ProcessMapping(r, p), O, p)
         /\ \A q \in Pub : SettledAt(r, O, q) => SettledAt(ProcessMapping(r, p), O, q)
         /\ ProcessMapping(r, p).mapping = r.mapping
         /\ ProcessMapping(r, p).excused = r.excused
<1> DEFINE t == ProcessMapping(r, p)
           matched == { s \in NameSubs : p \in matching[s] }
<1>1. r \in ReceiverState /\ old \subseteq r.excused /\ p \in Pub
  BY DEF Going
<1>2. Names(r, t, p, matched)
  BY <1>1, ProcessMappingNames
<1>3. \A s \in Sub : <<s, p>> \in O => s \in matched
  BY DEF Matched
<1> HIDE DEF t, matched
<1>4. /\ t \in ReceiverState /\ t.excused = r.excused /\ t.collecting = r.collecting
      /\ t.mapping = r.mapping
  BY <1>2 DEF Names
<1>5. ASSUME NEW q \in Pub, q # p
      PROVE  /\ Trace(t, q) => Trace(r, q)
             /\ \A s \in Sub : /\ Had(t, s, q) <=> Had(r, s, q)
                               /\ Entered(t, s, q) <=> Entered(r, s, q)
  BY <1>2, <1>4, <1>5 DEF Names, Had, Entered
<1>6. \A s \in Sub : /\ Had(r, s, p) => Had(t, s, p)
                     /\ Entered(r, s, p) => Entered(t, s, p)
  BY <1>2 DEF Names
<1>7. SettledAt(t, O, p)
  <2>1. CASE p \in Range(r.remembered)
    <3>1. Trace(r, p)
      BY <2>1 DEF Trace
    <3>2. SettledAt(r, O, p)
      BY <1>1, <3>1 DEF Going
    <3> QED
      BY <1>6, <3>2 DEF SettledAt
  <2>2. CASE p \in old
    <3>1. p \in t.excused
      BY <1>1, <1>4, <2>2
    <3> QED
      BY <3>1 DEF SettledAt, Had
  <2>3. CASE \A s \in matched : Had(t, s, p) \/ Entered(t, s, p)
    BY <1>3, <2>3 DEF SettledAt
  <2> QED
    BY <1>2, <2>1, <2>2, <2>3 DEF Names
<1>8. ASSUME NEW q \in Pub, SettledAt(r, O, q)
      PROVE  SettledAt(t, O, q)
  <2>1. CASE q = p
    BY <1>7, <2>1
  <2>2. CASE q # p
    BY <1>5, <1>8, <2>2 DEF SettledAt
  <2> QED
    BY <2>1, <2>2
<1>9. ASSUME NEW q \in Pub
      PROVE  /\ Trace(t, q) => q \in M \cup E
             /\ t.collecting[q] > 0 => q \in M \cup E
             /\ q \in M \/ Trace(t, q) => SettledAt(t, O, q)
             /\ \A s \in Sub : <<s, q>> \in O /\ s \in PacketSub /\ t.collecting[q] > 0 => Had(t, s, q)
  <2>1. /\ Trace(r, q) => q \in M \cup E
        /\ r.collecting[q] > 0 => q \in M \cup E
        /\ q \in M \/ Trace(r, q) => SettledAt(r, O, q)
        /\ \A s \in Sub : <<s, q>> \in O /\ s \in PacketSub /\ r.collecting[q] > 0 => Had(r, s, q)
    BY DEF Going
  <2>2. CASE q = p
    BY <1>4, <1>6, <1>7, <2>1, <2>2
  <2>3. CASE q # p
    BY <1>4, <1>5, <1>8, <2>1, <2>3
  <2> QED
    BY <2>2, <2>3
<1>10. Going(t, O, M, E)
  BY <1>1, <1>4, <1>9 DEF Going
<1> QED
  BY <1>4, <1>7, <1>8, <1>10 DEF t

\* The loop over the names of E
LEMMA EachNameKept ==
  ASSUME NEW O, NEW M, NEW E \in SUBSET Pub, Matched(O, E), NEW seq, Lists(seq, E),
         NEW r \in ReceiverState, Kept(r, O, M), old \subseteq r.excused
  PROVE  /\ Kept(EachName(r, seq), O, M \cup E)
         /\ EachName(r, seq) \in ReceiverState
         /\ EachName(r, seq).mapping = r.mapping
         /\ EachName(r, seq).excused = r.excused
<1> DEFINE A == { x \in ReceiverState : Going(x, O, M, E) /\ x.mapping = r.mapping
                                         /\ x.excused = r.excused }
           G(p) == { x \in ReceiverState : SettledAt(x, O, p) }
           end == EachName(r, seq)
<1>1. seq \in Seq(E)
  BY DEF Lists
<1>2. Going(r, O, M, E)
  BY DEF Going, Kept, SettledAt
<1>3. r \in A
  BY <1>2
<1>4. ASSUME NEW x \in A, NEW p \in E
      PROVE  /\ ProcessMapping(x, p) \in A
             /\ ProcessMapping(x, p) \in G(p)
             /\ \A q \in Pub : x \in G(q) => ProcessMapping(x, p) \in G(q)
  <2> DEFINE t == ProcessMapping(x, p)
  <2>1. /\ Going(t, O, M, E) /\ SettledAt(t, O, p)
        /\ \A q \in Pub : SettledAt(x, O, q) => SettledAt(t, O, q)
        /\ t.mapping = x.mapping /\ t.excused = x.excused
    BY GoingStep
  <2> HIDE DEF t
  <2>2. t \in ReceiverState
    BY <2>1 DEF Going
  <2> QED
    BY <2>1, <2>2 DEF t
<1> HIDE DEF A, G
<1>5. LoopOfNames!Closed({}, A, E)
  BY <1>4 DEF LoopOfNames!Closed
<1>6. LoopOfNames!Loop({}, r, seq) \in A
  BY <1>1, <1>3, <1>5, LoopOfNames!FoldInvariant
<1>7. end \in A
  BY <1>6, SameNames
<1>8. ASSUME NEW p \in E PROVE end \in G(p)
  <2>1. PICK k \in 1 .. Len(seq) : seq[k] = p
    BY DEF Lists
  <2> DEFINE H == G(p)
  <2>2. \A x \in A : ProcessMapping(x, seq[k]) \in H
    BY <1>4, <2>1
  <2>3. \A x \in A \cap H, q \in E : ProcessMapping(x, q) \in A \cap H
    BY <1>4
  <2> HIDE DEF H
  <2>4. LoopOfNames!Closed({}, A \cap H, E)
    BY <2>3 DEF LoopOfNames!Closed
  <2>5. LoopOfNames!Loop({}, r, seq) \in H
    BY <1>1, <1>3, <1>5, <2>2, <2>4, LoopOfNames!FoldReaches
  <2> QED
    BY <2>5, SameNames DEF H
<1> HIDE DEF end
<1>9. /\ end \in ReceiverState /\ Going(end, O, M, E)
      /\ end.mapping = r.mapping /\ end.excused = r.excused
  BY <1>7 DEF A
<1>10. \A p \in E : SettledAt(end, O, p)
  BY <1>8 DEF G
<1>11. Kept(end, O, M \cup E)
  BY <1>9, <1>10 DEF Kept, Going, SettledAt
<1> QED
  BY <1>9, <1>11 DEF end

LEMMA EachNameFields ==
  ASSUME NEW r \in ReceiverState, NEW E \in SUBSET Pub, NEW seq \in Seq(E)
  PROVE  /\ EachName(r, seq) \in ReceiverState
         /\ EachName(r, seq).mapping = r.mapping
         /\ EachName(r, seq).excused = r.excused
<1> DEFINE A == { x \in ReceiverState : x.mapping = r.mapping /\ x.excused = r.excused }
<1>1. r \in A
  OBVIOUS
<1>2. ASSUME NEW x \in A, NEW p \in E PROVE ProcessMapping(x, p) \in A
  <2> DEFINE t == ProcessMapping(x, p)
  <2>1. Names(x, t, p, { s \in NameSubs : p \in matching[s] })
    BY ProcessMappingNames
  <2> HIDE DEF t
  <2>2. t \in ReceiverState /\ t.mapping = x.mapping /\ t.excused = x.excused
    BY <2>1 DEF Names
  <2> QED
    BY <2>2 DEF t
<1> HIDE DEF A
<1>3. LoopOfNames!Closed({}, A, E)
  BY <1>2 DEF LoopOfNames!Closed
<1>4. LoopOfNames!Loop({}, r, seq) \in A
  BY <1>1, <1>3, LoopOfNames!FoldInvariant
<1> QED
  BY <1>4, SameNames DEF A

\* Without subscriptions to names, names change nothing.
LEMMA EachNameKeeps ==
  ASSUME NameSubs = {}, NEW r \in ReceiverState, NEW E \in SUBSET Pub, NEW seq \in Seq(E)
  PROVE  Keeps(r, EachName(r, seq)) /\ EachName(r, seq).excused = r.excused
<1> DEFINE A == { x \in ReceiverState : Keeps(r, x) /\ x.excused = r.excused }
<1>1. r \in A
  BY KeepsSame
<1>2. ASSUME NEW x \in A, NEW p \in E PROVE ProcessMapping(x, p) \in A
  <2> DEFINE t == ProcessMapping(x, p)
             matched == { s \in NameSubs : p \in matching[s] }
  <2>1. matched = {} /\ Names(x, t, p, matched)
    BY ProcessMappingNames
  <2> HIDE DEF t, matched
  <2>2. Keeps(x, t) /\ t \in ReceiverState /\ t.excused = x.excused
    BY <2>1 DEF Names
  <2>3. Keeps(r, t)
    BY <2>2, KeepsBoth
  <2> QED
    BY <2>2, <2>3 DEF t
<1> HIDE DEF A
<1>3. LoopOfNames!Closed({}, A, E)
  BY <1>2 DEF LoopOfNames!Closed
<1>4. LoopOfNames!Loop({}, r, seq) \in A
  BY <1>1, <1>3, LoopOfNames!FoldInvariant
<1> QED
  BY <1>4, SameNames DEF A

\* The other way round, all are listed too, and one after the other.
LEMMA NewestFirstLists ==
  ASSUME NEW S \in SUBSET Pub
  PROVE  Lists(NewestFirst(S), S)
<1> DEFINE x == InOrder(S)
           y == Reverse(x)
<1>1. Lists(x, S) /\ y \in Seq(S)
  BY InOrderLists DEF NewestFirst
<1>2. x \in Seq(S) /\ Len(x) \in Nat
  BY <1>1 DEF Lists
<1> HIDE DEF x
<1>3. y = [i \in 1 .. Len(x) |-> x[(Len(x) - i) + 1]]
  BY DEF Reverse
<1>4. Len(y) = Len(x)
  BY <1>2, <1>3
<1>5. ASSUME NEW p \in S PROVE \E k \in 1 .. Len(y) : y[k] = p
  <2>1. PICK j \in 1 .. Len(x) : x[j] = p
    BY <1>1 DEF Lists
  <2> DEFINE k == (Len(x) - j) + 1
  <2>2. k \in 1 .. Len(x) /\ (Len(x) - k) + 1 = j
    BY <1>2
  <2> HIDE DEF k, y
  <2>3. y[k] = p
    BY <1>3, <2>1, <2>2
  <2> QED
    BY <1>4, <2>2, <2>3
<1> HIDE DEF y
<1> QED
  BY <1>1, <1>5 DEF Lists, NewestFirst, x, y

LEMMA BothLists ==
  ASSUME NEW S, NEW T, NEW x, Lists(x, S), NEW y, Lists(y, T)
  PROVE  Lists(x \o y, S \cup T)
<1> DEFINE E == S \cup T
           z == x \o y
<1>1. x \in Seq(S) /\ y \in Seq(T) /\ Len(x) \in Nat /\ Len(y) \in Nat
  BY DEF Lists
<1>2. x \in Seq(E) /\ y \in Seq(E)
  <2>1. x \in [1 .. Len(x) -> E] /\ y \in [1 .. Len(y) -> E]
    BY <1>1
  <2> HIDE DEF E
  <2> QED
    BY <1>1, <2>1
<1>3. z \in Seq(E) /\ Len(z) = Len(x) + Len(y)
  <2> HIDE DEF E
  <2> QED
    BY <1>2
<1>4. \A i \in 1 .. Len(x) : i \in 1 .. Len(z) /\ z[i] = x[i]
  BY <1>1, <1>3
<1>5. ASSUME NEW i \in 1 .. Len(y)
      PROVE  Len(x) + i \in 1 .. Len(z) /\ z[Len(x) + i] = y[i]
  BY <1>1, <1>3
<1> HIDE DEF z
<1>6. ASSUME NEW p \in S \cup T PROVE \E k \in 1 .. Len(z) : z[k] = p
  <2>1. CASE p \in S
    <3>1. PICK j \in 1 .. Len(x) : x[j] = p
      BY <2>1 DEF Lists
    <3> QED
      BY <1>4, <3>1
  <2>2. CASE p \in T
    <3>1. PICK j \in 1 .. Len(y) : y[j] = p
      BY <2>2 DEF Lists
    <3>2. Len(x) + j \in 1 .. Len(z) /\ z[Len(x) + j] = p
      BY <1>5, <3>1
    <3> QED
      BY <3>2
  <2> QED
    BY <2>1, <2>2
<1> QED
  BY <1>3, <1>6 DEF Lists, z

\* onRecvExtraBlocks: the names it brings are looked at.
LEMMA OnRecvExtraBlocksKept ==
  ASSUME NEW O, NEW M, NEW r \in ReceiverState, Kept(r, O, M), old \subseteq r.excused,
         NEW b \in Blocks
  PROVE  /\ OnRecvExtraBlocks(r, b) \in ReceiverState
         /\ OnRecvExtraBlocks(r, b).mapping = r.mapping \cup (b.notified \cup b.repeated)
         /\ r.excused \subseteq OnRecvExtraBlocks(r, b).excused
         /\ Matched(O, b.notified \cup b.repeated)
              => Kept(OnRecvExtraBlocks(r, b), O, M \cup (b.notified \cup b.repeated))
         /\ NameSubs = {} => Kept(OnRecvExtraBlocks(r, b), O, M)
<1> DEFINE E == b.notified \cup b.repeated
           names == (r.mapping \cup b.notified) \cup b.repeated
           named == [r EXCEPT !.mapping = names]
           data == NewestFirst(b.data)
           stored == EachPacket(named, data)
           seq == NewestFirst(b.notified) \o NewestFirst(b.repeated)
           end == EachName(stored, seq)
           t == OnRecvExtraBlocks(r, b)
<1>1. b.notified \in SUBSET Pub /\ b.repeated \in SUBSET Pub /\ b.data \in SUBSET Pub
  BY PubSubAssumption
<1>2. t = FetchIfQueued(end)
  BY DEF OnRecvExtraBlocks, EachName, EachPacket
<1>3. names = r.mapping \cup E /\ names \in SUBSET Pub /\ E \in SUBSET Pub
  BY <1>1 DEF ReceiverState
<1> HIDE DEF names
<1>4. /\ named \in ReceiverState /\ named.mapping = names /\ named.excused = r.excused
      /\ named.fetch = r.fetch /\ named.remembered = r.remembered
      /\ named.collecting = r.collecting /\ named.given = r.given
  BY <1>3 DEF ReceiverState
<1> HIDE DEF named
<1>5. Kept(named, O, M)
  BY <1>4 DEF Kept, Trace, Had, Entered
<1>6. data \in Seq(b.data)
  BY <1>1, InOrderLists
<1> HIDE DEF data
<1>7. Keeps(named, stored)
  BY <1>1, <1>4, <1>6, EachPacketKeeps
<1>8. Lists(seq, E)
  BY <1>1, NewestFirstLists, BothLists
<1> HIDE DEF stored, seq
<1>9. Kept(stored, O, M)
  BY <1>5, <1>7, KeptStays
<1>10. /\ stored \in ReceiverState /\ stored.mapping = names
       /\ r.excused \subseteq stored.excused /\ old \subseteq stored.excused
  BY <1>4, <1>7 DEF Keeps
<1> HIDE DEF E, t
<1>11. ASSUME end \in ReceiverState, end.mapping = names, r.excused \subseteq end.excused
       PROVE  /\ t \in ReceiverState /\ t.mapping = names /\ r.excused \subseteq t.excused
              /\ \A N : Kept(end, O, N) => Kept(t, O, N)
  <2> HIDE DEF end
  <2>1. Keeps(end, t)
    BY <1>2, <1>11, FetchIfQueuedKeeps
  <2>2. \A N : Kept(end, O, N) => Kept(t, O, N)
    BY <2>1, KeptStays
  <2> QED
    BY <1>11, <2>1, <2>2 DEF Keeps
<1>12. ASSUME Matched(O, E)
       PROVE  /\ t \in ReceiverState /\ t.mapping = names /\ r.excused \subseteq t.excused
              /\ Kept(t, O, M \cup E)
  <2>1. /\ Kept(end, O, M \cup E) /\ end \in ReceiverState
        /\ end.mapping = stored.mapping /\ end.excused = stored.excused
    BY <1>3, <1>8, <1>9, <1>10, <1>12, EachNameKept
  <2> HIDE DEF end
  <2> QED
    BY <1>10, <1>11, <2>1
<1>13. end \in ReceiverState /\ end.mapping = names /\ r.excused \subseteq end.excused
  <2>1. seq \in Seq(E)
    BY <1>8 DEF Lists
  <2>2. /\ end \in ReceiverState
        /\ end.mapping = stored.mapping /\ end.excused = stored.excused
    BY <1>3, <1>10, <2>1, EachNameFields
  <2> HIDE DEF end
  <2> QED
    BY <1>10, <2>2
<1>14. ASSUME NameSubs = {} PROVE Kept(t, O, M)
  <2>1. seq \in Seq(E)
    BY <1>8 DEF Lists
  <2>2. Keeps(stored, end)
    BY <1>3, <1>10, <1>14, <2>1, EachNameKeeps
  <2> HIDE DEF end
  <2>3. Kept(end, O, M)
    BY <1>9, <2>2, KeptStays
  <2> QED
    BY <1>11, <1>13, <2>3
<1> QED
  BY <1>3, <1>11, <1>12, <1>13, <1>14 DEF E, t

\* updateCallbackInternal, with subscriptions to names
LEMMA UpdateNamesKept ==
  ASSUME NEW low \in Nat \ {0}, NEW high \in low .. MaxSeq,
         { s \in ProducerSub : sub[s] = "on" } = {},
         NEW O, Matched(O, Pub), NEW r \in ReceiverState, Kept(r, O, r.mapping),
         old \subseteq r.excused
  PROVE  /\ UpdateCallback(r, low, high) \in ReceiverState
         /\ UpdateCallback(r, low, high).mapping = r.mapping
         /\ r.excused \subseteq UpdateCallback(r, low, high).excused
         /\ Kept(UpdateCallback(r, low, high), O, r.mapping)
         /\ KnownPrefix(r, low, high) \subseteq r.mapping
<1> DEFINE producers == { s \in ProducerSub : sub[s] = "on" }
           f == [p \in Pub |-> IF p \in low .. high THEN AddPublicationFetch(r, p, producers).fetch[p]
                               ELSE r.fetch[p]]
           wanted == [r EXCEPT !.fetch = f]
           known == IF NameSubs = {} THEN {} ELSE KnownPrefix(r, low, high)
           seq == InOrder(known)
           end == EachName(wanted, seq)
           t == UpdateCallback(r, low, high)
<1>1. t = FetchAll(EachName(wanted, InOrder(known)))
  BY DEF UpdateCallback, EachName, ReceiverState
<1>2. wanted = r
  <2>1. \A p \in Pub : AddPublicationFetch(r, p, producers).fetch[p] = r.fetch[p]
    BY DEF AddPublicationFetch
  <2> HIDE DEF producers
  <2>2. f = r.fetch
    BY <2>1 DEF ReceiverState
  <2> HIDE DEF f
  <2> QED
    BY <2>2 DEF ReceiverState
<1>3. ASSUME NEW p \in KnownPrefix(r, low, high) PROVE p \in r.mapping
  <2>1. p \in low .. high
    BY DEF KnownPrefix
  <2>2. p \in low .. p /\ p \in Pub
    BY <2>1, Constants
  <2>3. p \in r.mapping \/ p \in Range(r.remembered)
    BY <2>2 DEF KnownPrefix
  <2>4. p \in Range(r.remembered) => Trace(r, p)
    BY DEF Trace
  <2> QED
    BY <2>2, <2>3, <2>4 DEF Kept
<1>4. known \subseteq r.mapping /\ known \in SUBSET Pub
  BY <1>3 DEF ReceiverState
<1> HIDE DEF known, wanted
<1>5. Lists(seq, known)
  BY <1>4, InOrderLists
<1>6. Matched(O, known)
  BY <1>4 DEF Matched
<1> HIDE DEF seq
<1>7. /\ Kept(end, O, r.mapping \cup known) /\ end \in ReceiverState
      /\ end.mapping = r.mapping /\ end.excused = r.excused
  <2> DEFINE M == r.mapping
             e == EachName(r, seq)
  <2>1. Kept(r, O, M) /\ old \subseteq r.excused /\ known \in SUBSET Pub
    BY <1>4
  <2> HIDE DEF M
  <2>2. /\ Kept(e, O, M \cup known) /\ e \in ReceiverState
        /\ e.mapping = r.mapping /\ e.excused = r.excused
    BY <2>1, <1>5, <1>6, EachNameKept
  <2> HIDE DEF e
  <2>3. end = e
    BY <1>2 DEF e
  <2> HIDE DEF end
  <2> QED
    BY <2>2, <2>3 DEF M
<1>8. r.mapping \cup known = r.mapping
  BY <1>4
<1>9. t = FetchAll(end)
  BY <1>1 DEF seq
<1> HIDE DEF end, t
<1>10. Keeps(end, t)
  BY <1>7, <1>9, FetchAllKeeps
<1>11. Kept(t, O, r.mapping)
  BY <1>7, <1>8, <1>10, KeptStays
<1> QED
  BY <1>3, <1>7, <1>10, <1>11 DEF Keeps, t

\* updateCallbackInternal, with subscriptions to producers
LEMMA UpdateProducersKept ==
  ASSUME NEW low \in Nat \ {0}, NEW high \in low .. MaxSeq, NameSubs = {}, NEW O,
         \A s \in Sub, p \in low .. high : <<s, p>> \in O => s \in ProducerSub /\ sub[s] = "on",
         NEW r \in ReceiverState, Kept(r, O, 1 .. low - 1)
  PROVE  /\ UpdateCallback(r, low, high) \in ReceiverState
         /\ UpdateCallback(r, low, high).mapping = r.mapping
         /\ r.excused \subseteq UpdateCallback(r, low, high).excused
         /\ Kept(UpdateCallback(r, low, high), O, 1 .. high)
<1> DEFINE producers == { s \in ProducerSub : sub[s] = "on" }
           x(p) == AddPublicationFetch(r, p, producers)
           f == [p \in Pub |-> IF p \in low .. high THEN x(p).fetch[p] ELSE r.fetch[p]]
           wanted == [r EXCEPT !.fetch = f]
           seq == InOrder({})
           end == EachName(wanted, seq)
           t == UpdateCallback(r, low, high)
<1>1. t = FetchAll(end)
  BY DEF UpdateCallback, EachName, ReceiverState
<1>2. producers \in SUBSET Sub
  BY Constants
<1>3. \A s \in Sub, p \in low .. high : <<s, p>> \in O => s \in producers
  OBVIOUS
<1> HIDE DEF producers
<1>4. ASSUME NEW p \in Pub
      PROVE  /\ x(p) \in ReceiverState
             /\ \A s \in Sub : Entered(x(p), s, p) <=> Entered(r, s, p) \/ s \in producers
  BY <1>2, AddEntered
<1> HIDE DEF x
<1>5. f \in [Pub -> Entry \cup {None}]
  <2>1. \A p \in Pub : x(p).fetch[p] \in Entry \cup {None}
    BY <1>4 DEF ReceiverState
  <2>2. \A p \in Pub : r.fetch[p] \in Entry \cup {None}
    BY DEF ReceiverState
  <2> QED
    BY <2>1, <2>2
<1>6. \A p \in Pub : f[p] = IF p \in low .. high THEN x(p).fetch[p] ELSE r.fetch[p]
  OBVIOUS
<1> HIDE DEF f
<1>7. /\ wanted \in ReceiverState /\ wanted.fetch = f
      /\ wanted.mapping = r.mapping /\ wanted.excused = r.excused
      /\ wanted.remembered = r.remembered /\ wanted.collecting = r.collecting
      /\ wanted.given = r.given
  BY <1>5 DEF ReceiverState
<1> HIDE DEF wanted
<1>8. ASSUME NEW p \in Pub
      PROVE  /\ Trace(wanted, p) => p \in 1 .. high
             /\ wanted.collecting[p] > 0 => p \in 1 .. high
             /\ \A s \in Sub : <<s, p>> \in O =>
                  /\ p \in 1 .. high => Had(wanted, s, p) \/ Entered(wanted, s, p)
                  /\ s \in PacketSub /\ wanted.collecting[p] > 0 => Had(wanted, s, p)
  <2>1. p \in Nat /\ high \in Nat /\ (p \in 1 .. low - 1 => p \in 1 .. high)
    BY Constants
  <2>2. /\ Trace(r, p) => p \in 1 .. low - 1
        /\ r.collecting[p] > 0 => p \in 1 .. low - 1
        /\ \A s \in Sub : <<s, p>> \in O =>
             /\ p \in 1 .. low - 1 => Had(r, s, p) \/ Entered(r, s, p)
             /\ s \in PacketSub /\ r.collecting[p] > 0 => Had(r, s, p)
    BY DEF Kept
  <2>3. \A s \in Sub : Had(wanted, s, p) <=> Had(r, s, p)
    BY <1>7 DEF Had
  <2>4. CASE p \in low .. high
    <3>1. wanted.fetch[p] = x(p).fetch[p] /\ p \in 1 .. high
      BY <1>6, <1>7, <2>1, <2>4
    <3>2. \A s \in producers : Entered(wanted, s, p)
      BY <1>2, <1>4, <3>1 DEF Entered
    <3> QED
      BY <1>3, <1>7, <2>2, <2>3, <2>4, <3>1, <3>2
  <2>5. CASE p \notin low .. high
    <3>1. wanted.fetch[p] = r.fetch[p]
      BY <1>6, <1>7, <2>5
    <3>2. p \in 1 .. high => p \in 1 .. low - 1
      BY <2>1, <2>5
    <3>3. /\ Trace(wanted, p) <=> Trace(r, p)
          /\ \A s \in Sub : Entered(wanted, s, p) <=> Entered(r, s, p)
      BY <1>7, <3>1 DEF Trace, Entered
    <3> QED
      BY <1>7, <2>1, <2>2, <2>3, <3>2, <3>3
  <2> QED
    BY <2>4, <2>5
<1>9. Kept(wanted, O, 1 .. high)
  BY <1>8 DEF Kept
<1>10. seq \in Seq({})
  BY InOrderLists DEF Lists
<1> HIDE DEF seq
<1>11. Keeps(wanted, end)
  BY <1>7, <1>10, EachNameKeeps
<1> HIDE DEF end, t
<1>12. end \in ReceiverState
  BY <1>11 DEF Keeps
<1>13. Keeps(end, t)
  BY <1>1, <1>12, FetchAllKeeps
<1>14. Keeps(wanted, t)
  BY <1>11, <1>13, KeepsBoth
<1>15. Kept(t, O, 1 .. high)
  BY <1>9, <1>14, KeptStays
<1> QED
  BY <1>7, <1>14, <1>15 DEF Keeps, t

LEMMA UpdateCallbackFields ==
  ASSUME NEW low \in Nat \ {0}, NEW high \in low .. MaxSeq, NEW r \in ReceiverState
  PROVE  /\ UpdateCallback(r, low, high) \in ReceiverState
         /\ UpdateCallback(r, low, high).mapping = r.mapping
         /\ r.excused \subseteq UpdateCallback(r, low, high).excused
<1> DEFINE producers == { s \in ProducerSub : sub[s] = "on" }
           x(p) == AddPublicationFetch(r, p, producers)
           f == [p \in Pub |-> IF p \in low .. high THEN x(p).fetch[p] ELSE r.fetch[p]]
           wanted == [r EXCEPT !.fetch = f]
           known == IF NameSubs = {} THEN {} ELSE KnownPrefix(r, low, high)
           seq == InOrder(known)
           end == EachName(wanted, seq)
           t == UpdateCallback(r, low, high)
<1>1. t = FetchAll(end)
  BY DEF UpdateCallback, EachName, ReceiverState
<1>2. producers \in SUBSET Sub
  BY Constants
<1> HIDE DEF producers
<1>3. \A p \in Pub : x(p) \in ReceiverState
  BY <1>2, AddEntered
<1> HIDE DEF x
<1>4. f \in [Pub -> Entry \cup {None}]
  <2>1. \A p \in Pub : x(p).fetch[p] \in Entry \cup {None}
    BY <1>3 DEF ReceiverState
  <2>2. \A p \in Pub : r.fetch[p] \in Entry \cup {None}
    BY DEF ReceiverState
  <2> QED
    BY <2>1, <2>2
<1> HIDE DEF f
<1>5. /\ wanted \in ReceiverState /\ wanted.mapping = r.mapping /\ wanted.excused = r.excused
  BY <1>4 DEF ReceiverState
<1>6. known \in SUBSET Pub
  <2>1. \A p \in KnownPrefix(r, low, high) : p \in low .. high
    BY DEF KnownPrefix
  <2>2. \A p \in low .. high : p \in Pub
    BY Constants
  <2> QED
    BY <2>1, <2>2
<1> HIDE DEF wanted, known
<1>7. seq \in Seq(known)
  BY <1>6, InOrderLists DEF Lists
<1> HIDE DEF seq
<1>8. /\ end \in ReceiverState /\ end.mapping = r.mapping /\ end.excused = r.excused
  BY <1>5, <1>6, <1>7, EachNameFields
<1> HIDE DEF end, t
<1>9. Keeps(end, t)
  BY <1>1, <1>8, FetchAllKeeps
<1> QED
  BY <1>8, <1>9 DEF Keeps, t

--------------------------------------------------------------------------------
(* Mapping queries *)

\* Of each set of numbers one is the least.
LEMMA LeastOf ==
  ASSUME NEW S \in SUBSET Nat, S # {}
  PROVE  \E x \in S : \A y \in S : x <= y
<1> SUFFICES ASSUME \A x \in S : \E y \in S : ~(x <= y) PROVE FALSE
  OBVIOUS
<1> DEFINE T == { n \in Nat : \A y \in S : n <= y }
<1>1. 0 \in T
  OBVIOUS
<1>2. ASSUME NEW n \in Nat, n \in T PROVE n + 1 \in T
  <2>1. n \notin S
    BY <1>2
  <2>2. \A y \in S : n <= y /\ n # y /\ y \in Nat
    BY <1>2, <2>1
  <2> QED
    BY <2>2
<1> HIDE DEF T
<1>3. Nat \subseteq T
  BY <1>1, <1>2, LoopOfPackets!NatInduct
<1>4. PICK y \in S : TRUE
  OBVIOUS
<1> y \in Nat /\ y + 1 \in Nat
  BY <1>4
<1>5. y + 1 \in T
  BY <1>3, <1>4
<1>6. y + 1 <= y
  BY <1>4, <1>5 DEF T
<1> QED
  BY <1>4, <1>6

LEMMA Division ==
  ASSUME NEW x \in Nat, NEW n \in Nat \ {0}
  PROVE  \E k \in 0 .. x : k % n = 0 /\ x < k + n
<1>1. PICK d \in Nat : d = x \div n
  OBVIOUS
<1>2. x = (d * n) + (x % n)
  BY <1>1
<1>3. x % n \in 0 .. n - 1
  OBVIOUS
<1>4. PICK k \in Nat : k = d * n
  OBVIOUS
<1>5. k % n = 0
  BY <1>4
<1>6. x = k + (x % n)
  BY <1>2, <1>4
<1>7. k <= x /\ x < k + n
  BY <1>3, <1>6
<1> QED
  BY <1>5, <1>7

\* The queries ask for all of low .. high.
LEMMA ChunksCover ==
  ASSUME NEW low \in Nat, NEW high \in Nat, NEW p \in low .. high
  PROVE  \E range \in Chunks(low, high) : p \in range[1] .. range[2]
<1> DEFINE end(n) == IF n + ChunkSize - 1 < high THEN n + ChunkSize - 1 ELSE high
<1>1. ChunkSize \in Nat \ {0} /\ p - low \in Nat
  BY PubSubAssumption
<1>2. PICK k \in 0 .. p - low : k % ChunkSize = 0 /\ p - low < k + ChunkSize
  BY <1>1, Division
<1> DEFINE a == low + k
<1>3. a \in low .. high /\ a - low = k
  BY <1>1, <1>2
<1>4. a <= p /\ p <= end(a) /\ a \in Nat /\ end(a) \in Nat
  BY <1>1, <1>2, <1>3
<1>5. (a - low) % ChunkSize = 0
  BY <1>2, <1>3
<1> HIDE DEF a
<1>6. <<a, end(a)>> \in Chunks(low, high)
  BY <1>3, <1>5 DEF Chunks
<1> HIDE DEF end
<1>7. p \in a .. end(a)
  BY <1>4
<1> QED
  BY <1>6, <1>7

\* What an answer leaves out is in one of the missing ranges.
LEMMA MissingRangesCover ==
  ASSUME NEW low \in Nat, NEW high \in Nat, NEW got, NEW p \in low .. high, p \notin got
  PROVE  \E range \in MissingRanges(low, high, got) : p \in range[1] .. range[2]
<1> DEFINE S == { k \in Nat : p - k \in low .. p /\ (p - k = low \/ (p - k) - 1 \in got) }
           T == { n \in p .. high : n = high \/ n + 1 \in got }
<1>1. PICK k \in S : \A y \in S : k <= y
  <2>1. p - low \in S
    OBVIOUS
  <2>2. S \in SUBSET Nat /\ S # {}
    BY <2>1
  <2> HIDE DEF S
  <2> QED
    BY <2>2, LeastOf
<1>2. PICK b \in T : \A y \in T : b <= y
  <2>1. high \in T
    OBVIOUS
  <2>2. T \in SUBSET Nat /\ T # {}
    BY <2>1
  <2> HIDE DEF T
  <2> QED
    BY <2>2, LeastOf
<1> DEFINE a == p - k
<1>3. a \in low .. p /\ (a = low \/ a - 1 \in got) /\ k \in Nat
  OBVIOUS
<1>4. b \in p .. high /\ (b = high \/ b + 1 \in got)
  OBVIOUS
<1>5. ASSUME NEW n \in a .. b, n \in got PROVE FALSE
  <2>1. n # p /\ n \in Nat /\ p \in Nat
    BY <1>3, <1>4, <1>5
  <2>2. CASE n < p
    <3> DEFINE y == p - (n + 1)
    <3>1. y \in Nat /\ p - y = n + 1 /\ (p - y) - 1 = n /\ p - y \in low .. p /\ y < k
      BY <1>3, <2>1, <2>2
    <3>2. y \in S
      BY <1>5, <3>1
    <3> QED
      BY <1>1, <3>1, <3>2
  <2>3. CASE n > p
    <3> DEFINE y == n - 1
    <3>1. y \in p .. high /\ y + 1 = n /\ y < b
      BY <1>4, <2>1, <2>3
    <3>2. y \in T
      BY <1>5, <3>1
    <3> QED
      BY <1>2, <3>1, <3>2
  <2> QED
    BY <2>1, <2>2, <2>3
<1>6. a \in low .. high /\ b \in low .. high /\ a <= b /\ p \in a .. b
  BY <1>3, <1>4
<1> HIDE DEF a
<1>7. <<a, b>> \in MissingRanges(low, high, got)
  <2> DEFINE range == <<a, b>>
  <2>1. range[1] = a /\ range[2] = b /\ range \in (low .. high) \X (low .. high)
    BY <1>6
  <2>2. (a .. b) \cap got = {}
    BY <1>5
  <2> HIDE DEF range
  <2>3. range \in MissingRanges(low, high, got)
    BY <1>3, <1>4, <1>6, <2>1, <2>2 DEF MissingRanges
  <2> QED
    BY <2>3 DEF range
<1> QED
  BY <1>6, <1>7

--------------------------------------------------------------------------------
(* Packets that come, and fetches that fail *)

\* What is not about a publication
Rest(r, t) ==
  t.mapping = r.mapping /\ t.remembered = r.remembered /\ r.excused \subseteq t.excused

LEMMA CountKeeps ==
  ASSUME NEW r, NEW t, NEW p \in Pub, CountsAt(r, t, p), Rest(r, t),
         t.collecting[p] > 0 => r.collecting[p] > 0
  PROVE  Keeps(r, t)
<1>1. KeepsAt(r, t, p)
  BY DEF CountsAt, Rest, KeepsAt, Trace, Had, Entered
<1> QED
  BY <1>1, KeepsAtOne DEF CountsAt, Rest

LEMMA LessRequestsKeeps ==
  ASSUME NEW r \in ReceiverState, NEW p \in Pub, r.requests[p] > 0
  PROVE  Keeps(r, LessRequests(r, p))
<1> DEFINE t == LessRequests(r, p)
<1>1. r.requests[p] \in Nat
  BY DEF ReceiverState
<1>2. r.requests[p] + (-1) \in Nat
  BY <1>1
<1>3. RequestsChange(r, t, p, -1)
  BY <1>2, RequestsFields DEF LessRequests
<1>4. Rest(r, t)
  BY DEF LessRequests, Rest, ReceiverState
<1> HIDE DEF t
<1>5. CountsAt(r, t, p) /\ t.collecting = r.collecting
  BY <1>3 DEF RequestsChange
<1>6. Keeps(r, t)
  BY <1>4, <1>5, CountKeeps
<1> QED
  BY <1>6 DEF t

LEMMA LessCheckingKeeps ==
  ASSUME NEW r \in ReceiverState, NEW p \in Pub, r.checking[p] > 0
  PROVE  Keeps(r, LessChecking(r, p))
<1> DEFINE t == LessChecking(r, p)
<1>1. r.checking[p] \in Nat
  BY DEF ReceiverState
<1>2. r.checking[p] + (-1) \in Nat
  BY <1>1
<1>3. CheckingChange(r, t, p, -1)
  BY <1>2, CheckingFields DEF LessChecking
<1>4. Rest(r, t)
  BY DEF LessChecking, Rest, ReceiverState
<1> HIDE DEF t
<1>5. CountsAt(r, t, p) /\ t.collecting = r.collecting
  BY <1>3 DEF CheckingChange
<1>6. Keeps(r, t)
  BY <1>4, <1>5, CountKeeps
<1> QED
  BY <1>6 DEF t

LEMMA MoreCheckingKeeps ==
  ASSUME NEW r \in ReceiverState, NEW p \in Pub
  PROVE  Keeps(r, [r EXCEPT !.checking = Add(@, p, 1)])
<1> DEFINE t == [r EXCEPT !.checking = Add(@, p, 1)]
<1>1. r.checking[p] \in Nat
  BY DEF ReceiverState
<1>2. r.checking[p] + 1 \in Nat
  BY <1>1
<1>3. CheckingChange(r, t, p, 1)
  BY <1>2, CheckingFields
<1>4. Rest(r, t)
  BY DEF Rest, ReceiverState
<1> HIDE DEF t
<1>5. CountsAt(r, t, p) /\ t.collecting = r.collecting
  BY <1>3 DEF CheckingChange
<1>6. Keeps(r, t)
  BY <1>4, <1>5, CountKeeps
<1> QED
  BY <1>6 DEF t

LEMMA LessCollectingKeeps ==
  ASSUME NEW r \in ReceiverState, NEW p \in Pub, r.collecting[p] > 0
  PROVE  Keeps(r, LessCollecting(r, p))
<1> DEFINE t == LessCollecting(r, p)
<1>1. r.collecting[p] \in Nat
  BY DEF ReceiverState
<1>2. r.collecting[p] + (-1) \in Nat
  BY <1>1
<1>3. CollectingChange(r, t, p, -1)
  BY <1>2, CollectingFields DEF LessCollecting
<1>4. Rest(r, t)
  BY DEF LessCollecting, Rest, ReceiverState
<1> HIDE DEF t
<1>5. CountsAt(r, t, p)
  BY <1>3 DEF CollectingChange
<1>6. Keeps(r, t)
  BY <1>4, <1>5, CountKeeps
<1> QED
  BY <1>6 DEF t

LEMMA TimersKeeps ==
  ASSUME NEW r \in ReceiverState, NEW p \in Pub, NEW n \in Int, r.timers[p] + n \in Nat
  PROVE  Keeps(r, [r EXCEPT !.timers = Add(@, p, n)])
<1> DEFINE t == [r EXCEPT !.timers = Add(@, p, n)]
<1>1. TimersChange(r, t, p, n)
  BY TimersFields
<1>2. Rest(r, t)
  BY DEF Rest, ReceiverState
<1> HIDE DEF t
<1>3. CountsAt(r, t, p) /\ t.collecting = r.collecting
  BY <1>1 DEF TimersChange
<1>4. Keeps(r, t)
  BY <1>2, <1>3, CountKeeps
<1> QED
  BY <1>4 DEF t

\* What is given up is excused.
LEMMA GiveUpKeeps ==
  ASSUME NEW r \in ReceiverState, NEW p \in Pub
  PROVE  Keeps(r, GiveUp(r, p))
<1> DEFINE s == SetEntry(r, p, None)
           t == [s EXCEPT !.excused = @ \cup {p}]
<1>1. /\ s \in ReceiverState /\ s.mapping = r.mapping /\ s.remembered = r.remembered
      /\ s.excused = r.excused
  BY SetEntryFields
<1>2. GiveUp(r, p) = t
  BY DEF GiveUp, CleanUpFetch
<1> HIDE DEF s
<1>3. t.mapping = s.mapping /\ t.remembered = s.remembered /\ t.excused = s.excused \cup {p}
  BY <1>1 DEF ReceiverState
<1> HIDE DEF t
<1>4. /\ t \in ReceiverState /\ t.fetch[p] = None /\ t.collecting = r.collecting
      /\ \A q \in Pub : q # p => SameAt(r, t, q)
  BY <1>2, GiveUpFields DEF EntryAt
<1>5. KeepsAt(r, t, p)
  BY <1>1, <1>3, <1>4 DEF KeepsAt, Trace, Had
<1> QED
  BY <1>1, <1>2, <1>3, <1>4, <1>5, KeepsAtOne

LEMMA SetStatusKeeps ==
  ASSUME NEW r \in ReceiverState, NEW p \in Pub, r.fetch[p] # None,
         NEW x \in {"ready", "backoff", "delivered"}
  PROVE  Keeps(r, SetStatus(r, p, x))
<1> DEFINE t == SetStatus(r, p, x)
<1>1. StatusAt(r, t, p, x)
  BY SetStatusFields
<1>2. t.mapping = r.mapping /\ t.remembered = r.remembered /\ t.excused = r.excused
  BY DEF SetStatus, SetEntry, ReceiverState
<1> HIDE DEF t
<1>3. /\ t \in ReceiverState /\ t.fetch[p] # None /\ t.fetch[p].subs = r.fetch[p].subs
      /\ t.collecting = r.collecting /\ t.given = r.given
      /\ \A q \in Pub : q # p => SameAt(r, t, q)
  BY <1>1 DEF StatusAt, EntryAt
<1>4. KeepsAt(r, t, p)
  BY <1>2, <1>3 DEF KeepsAt, Trace, Had, Entered
<1>5. Keeps(r, t)
  BY <1>2, <1>3, <1>4, KeepsAtOne
<1> QED
  BY <1>5 DEF t

LEMMA LateKeeps ==
  ASSUME NEW r \in ReceiverState, NEW p \in Pub, r.fetch[p] # None
  PROVE  Keeps(r, SetEntry(r, p, [r.fetch[p] EXCEPT !.late = TRUE]))
<1> DEFINE o == r.fetch[p]
           e == [o EXCEPT !.late = TRUE]
           t == SetEntry(r, p, e)
<1>1. o \in Entry
  BY DEF ReceiverState
<1> HIDE DEF o
<1>2. e \in Entry /\ e.subs = o.subs
  BY <1>1 DEF Entry
<1> HIDE DEF e
<1>3. e # None
  BY <1>2, Constants
<1>4. /\ t \in ReceiverState /\ t.fetch[p] = e
      /\ \A q \in Pub : q # p => t.fetch[q] = r.fetch[q]
      /\ t.requests = r.requests /\ t.checking = r.checking
      /\ t.collecting = r.collecting /\ t.timers = r.timers /\ t.given = r.given
      /\ t.mapping = r.mapping /\ t.remembered = r.remembered /\ t.excused = r.excused
  BY <1>2, SetEntryFields
<1> HIDE DEF t
<1>5. \A q \in Pub : q # p => SameAt(r, t, q)
  BY <1>4 DEF SameAt
<1>6. KeepsAt(r, t, p)
  BY <1>2, <1>3, <1>4 DEF KeepsAt, Trace, Had, Entered, o
<1>7. Keeps(r, t)
  BY <1>4, <1>5, <1>6, KeepsAtOne
<1> QED
  BY <1>7 DEF t, e, o

LEMMA MarkFailedKeeps ==
  ASSUME NEW r \in ReceiverState, NEW p \in Pub
  PROVE  Keeps(r, MarkPublicationFetchFailed(r, p))
<1> DEFINE s == SetStatus(r, p, "backoff")
           x == [s EXCEPT !.timers = Add(@, p, 1)]
           t == MarkPublicationFetchFailed(r, p)
<1>1. t = r \/ t = GiveUp(r, p) \/ (r.fetch[p] # None /\ t = x)
  BY DEF MarkPublicationFetchFailed
<1>2. ASSUME r.fetch[p] # None PROVE Keeps(r, x)
  <2>1. Keeps(r, s)
    BY <1>2, SetStatusKeeps
  <2> HIDE DEF s
  <2>2. s \in ReceiverState
    BY <2>1 DEF Keeps
  <2>3. s.timers[p] \in Nat
    BY <2>2 DEF ReceiverState
  <2>4. s.timers[p] + 1 \in Nat
    BY <2>3
  <2>5. Keeps(s, x)
    BY <2>2, <2>4, TimersKeeps
  <2> HIDE DEF x
  <2> QED
    BY <2>1, <2>5, KeepsBoth
<1> HIDE DEF x, t
<1>3. Keeps(r, t)
  BY <1>1, <1>2, KeepsSame, GiveUpKeeps
<1> QED
  BY <1>3 DEF t

LEMMA ObservedKeeps ==
  ASSUME NEW r \in ReceiverState, NEW p \in Pub
  PROVE  Keeps(r, Observed(r, p))
<1>1. CASE r.fetch[p] = None
  BY <1>1, KeepsSame DEF Observed
<1>2. CASE r.fetch[p] # None
  BY <1>2, SetStatusKeeps DEF Observed
<1> QED
  BY <1>1, <1>2

\* A change at p alone
LEMMA KeptAtOne ==
  ASSUME NEW O, NEW M, NEW r, Kept(r, O, M), NEW t, Rest(r, t), NEW p \in Pub,
         \A q \in Pub : q # p => SameAt(r, t, q),
         Trace(t, p) => p \in M, t.collecting[p] > 0 => p \in M,
         \A s \in Sub : <<s, p>> \in O =>
           /\ p \in M => Had(t, s, p) \/ Entered(t, s, p)
           /\ s \in PacketSub /\ t.collecting[p] > 0 => Had(t, s, p)
  PROVE  Kept(t, O, M)
<1>1. ASSUME NEW q \in Pub, q # p
      PROVE  /\ Trace(t, q) => q \in M
             /\ t.collecting[q] > 0 => q \in M
             /\ \A s \in Sub : <<s, q>> \in O =>
                  /\ q \in M => Had(t, s, q) \/ Entered(t, s, q)
                  /\ s \in PacketSub /\ t.collecting[q] > 0 => Had(t, s, q)
  <2>1. KeepsAt(r, t, q)
    BY <1>1, SameKeeps DEF Rest
  <2> QED
    BY <2>1 DEF KeepsAt, Kept
<1> QED
  BY <1>1 DEF Kept

\* returnData: who waits for packets gets the first one at once.
LEMMA ReturnDataKept ==
  ASSUME NEW O, NEW M, NEW r \in ReceiverState, Kept(r, O, M), NEW p \in Pub
  PROVE  /\ Kept(ReturnData(r, p), O, M) /\ ReturnData(r, p) \in ReceiverState
         /\ Rest(r, ReturnData(r, p))
<1> DEFINE t == ReturnData(r, p)
<1>1. Returns(r, t, p)
  BY ReturnDataFields
<1>2. Rest(r, t)
  <2> DEFINE copies == r.fetch[p].subs
             blob == { s \in Sub \ PacketSub : copies[s] > 0 }
             these == IF p \in Segmented THEN Those(copies, PacketSub) ELSE copies
             now == Deliver(r, p, these, p)
  <2>1. CASE r.fetch[p] = None
    BY <2>1 DEF ReturnData, Rest
  <2>2. CASE r.fetch[p] # None
    <3>1. copies \in [Sub -> 0 .. Many]
      <4>1. r.fetch[p] \in Entry
        BY <2>2 DEF ReceiverState
      <4> QED
        BY <4>1 DEF Entry
    <3>2. t = IF p \in Segmented /\ blob # {} THEN [now EXCEPT !.collecting = Add(@, p, 1)]
              ELSE SetEntry(now, p, None)
      BY <2>2 DEF ReturnData, CleanUpFetch
    <3> HIDE DEF copies, blob, t
    <3>3. these \in [Sub -> 0 .. Many]
      BY <3>1, ThoseFacts
    <3> HIDE DEF these
    <3>4. now \in ReceiverState /\ Rest(r, now)
      BY <3>3, DeliverFields DEF Rest
    <3> HIDE DEF now
    <3>5. Rest(now, SetEntry(now, p, None))
      BY <3>4, SetEntryFields DEF Rest
    <3>6. Rest(now, [now EXCEPT !.collecting = Add(@, p, 1)])
      BY <3>4 DEF Rest, ReceiverState
    <3> QED
      BY <3>2, <3>4, <3>5, <3>6 DEF Rest
  <2> QED
    BY <2>1, <2>2
<1> HIDE DEF t
<1>3. t \in ReceiverState /\ \A q \in Pub : q # p => SameAt(r, t, q)
  BY <1>1 DEF Returns
<1>4. /\ Trace(r, p) => p \in M
      /\ \A s \in Sub : <<s, p>> \in O =>
           /\ p \in M => Had(r, s, p) \/ Entered(r, s, p)
           /\ s \in PacketSub /\ r.collecting[p] > 0 => Had(r, s, p)
  BY DEF Kept
<1>5. \A s \in Sub : r.given[s][p] \in 0 .. Many
  BY DEF ReceiverState
<1>6. ASSUME r.fetch[p] # None
      PROVE  \A s \in Sub : r.fetch[p].subs[s] \in 0 .. Many
  <2>1. r.fetch[p] \in Entry
    BY <1>6 DEF ReceiverState
  <2> QED
    BY <2>1 DEF Entry
<1>7. CASE t = r
  BY <1>2, <1>3, <1>7 DEF t
<1>8. CASE r.fetch[p] # None /\ t.fetch = r.fetch
           /\ \A s \in Sub : t.given[s][p] = IF s \in PacketSub
                                             THEN Upto(r.given[s][p] + r.fetch[p].subs[s])
                                             ELSE r.given[s][p]
  <2>1. p \in M
    BY <1>4, <1>8 DEF Trace
  <2>2. ASSUME NEW s \in Sub
        PROVE  /\ Had(r, s, p) => Had(t, s, p)
               /\ Entered(r, s, p) => Entered(t, s, p)
               /\ s \in PacketSub /\ Entered(r, s, p) => Had(t, s, p)
    <3>1. t.given[s][p] > 0 <=> \/ r.given[s][p] > 0
                                \/ s \in PacketSub /\ r.fetch[p].subs[s] > 0
      BY <1>5, <1>6, <1>8, UptoGrows
    <3> QED
      BY <1>2, <1>8, <3>1 DEF Had, Entered, Rest
  <2>3. Kept(t, O, M)
    BY <1>2, <1>3, <1>4, <2>1, <2>2, KeptAtOne
  <2> QED
    BY <1>2, <1>3, <2>3 DEF t
<1>9. CASE r.fetch[p] # None /\ t.fetch[p] = None /\ t.collecting = r.collecting
           /\ \A s \in Sub : t.given[s][p] = Upto(r.given[s][p] + r.fetch[p].subs[s])
  <2>1. p \in M
    BY <1>4, <1>9 DEF Trace
  <2>2. ASSUME NEW s \in Sub
        PROVE  Had(r, s, p) \/ Entered(r, s, p) => Had(t, s, p)
    <3>1. t.given[s][p] > 0 <=> r.given[s][p] > 0 \/ r.fetch[p].subs[s] > 0
      BY <1>5, <1>6, <1>9, UptoGrows
    <3> QED
      BY <1>2, <1>9, <3>1 DEF Had, Entered, Rest
  <2>3. Kept(t, O, M)
    BY <1>2, <1>3, <1>4, <2>1, <2>2, KeptAtOne
  <2> QED
    BY <1>2, <1>3, <2>3 DEF t
<1> QED
  BY <1>1, <1>7, <1>8, <1>9 DEF Returns

\* The SegmentFetcher comes back with the segments: who waits for packets got
\* the first one when it was started.
LEMMA AssembledKept ==
  ASSUME NEW O, NEW M, NEW g \in ReceiverState, Kept(g, O, M), NEW p \in Pub,
         g.collecting[p] > 0, g.fetch[p] # None
  PROVE  /\ Kept(Assembled(LessCollecting(g, p), p), O, M)
         /\ Assembled(LessCollecting(g, p), p) \in ReceiverState
         /\ Rest(g, Assembled(LessCollecting(g, p), p))
<1> DEFINE r == LessCollecting(g, p)
           copies == r.fetch[p].subs
           these == Those(copies, Sub \ PacketSub)
           d == Deliver(r, p, these, p)
           w == [d EXCEPT !.wrong = d.wrong]
           t == SetEntry(w, p, None)
<1>1. Keeps(g, r)
  BY LessCollectingKeeps
<1>2. Assembled(r, p) = t
  BY DEF Assembled, DeliverBlob, CleanUpFetch
<1>3. r.fetch = g.fetch /\ r.given = g.given /\ Rest(g, r) /\ r \in ReceiverState
      /\ \A q \in Pub : q # p => SameAt(g, r, q)
  <2>1. g.collecting[p] + (-1) \in Nat
    <3>1. g.collecting[p] \in Nat
      BY DEF ReceiverState
    <3> QED
      BY <3>1
  <2>2. CollectingChange(g, r, p, -1)
    BY <2>1, CollectingFields DEF LessCollecting
  <2>3. Rest(g, r)
    BY DEF LessCollecting, Rest, ReceiverState
  <2> HIDE DEF r
  <2> QED
    BY <2>2, <2>3 DEF CollectingChange, CountsAt
<1> HIDE DEF r
<1>4. copies \in [Sub -> 0 .. Many]
  <2>1. r.fetch[p] \in Entry
    BY <1>3 DEF ReceiverState
  <2> QED
    BY <2>1 DEF Entry
<1> HIDE DEF copies
<1>5. /\ these \in [Sub -> 0 .. Many]
      /\ \A s \in Sub : these[s] = IF s \in Sub \ PacketSub THEN copies[s] ELSE 0
  BY <1>4, ThoseFacts
<1> HIDE DEF these
<1>6. /\ d \in ReceiverState
      /\ \A s \in Sub : d.given[s][p] = Upto(r.given[s][p] + these[s])
      /\ \A s \in Sub, o \in Pub : o # p => d.given[s][o] = r.given[s][o]
      /\ d.mapping = r.mapping /\ d.remembered = r.remembered /\ d.excused = r.excused
      /\ d.fetch = r.fetch /\ d.requests = r.requests /\ d.checking = r.checking
      /\ d.collecting = r.collecting /\ d.timers = r.timers
  BY <1>3, <1>5, DeliverFields
<1> HIDE DEF d
<1>7. w = d
  BY <1>6 DEF ReceiverState
<1> HIDE DEF w
<1>8. /\ t \in ReceiverState /\ t.fetch[p] = None
      /\ \A q \in Pub : q # p => t.fetch[q] = d.fetch[q]
      /\ t.mapping = d.mapping /\ t.remembered = d.remembered /\ t.excused = d.excused
      /\ t.requests = d.requests /\ t.checking = d.checking
      /\ t.collecting = d.collecting /\ t.timers = d.timers /\ t.given = d.given
  BY <1>6, <1>7, SetEntryFields
<1> HIDE DEF t
<1>9. Rest(g, t) /\ \A q \in Pub : q # p => SameAt(g, t, q)
  BY <1>3, <1>6, <1>8 DEF Rest, SameAt
<1>10. ASSUME NEW s \in Sub
       PROVE  /\ Had(g, s, p) => Had(t, s, p)
              /\ Entered(g, s, p) /\ s \notin PacketSub => Had(t, s, p)
  <2>1. g.given[s][p] \in 0 .. Many /\ these[s] \in 0 .. Many
    BY <1>5 DEF ReceiverState
  <2>2. t.given[s][p] > 0 <=> g.given[s][p] > 0 \/ these[s] > 0
    BY <1>3, <1>6, <1>8, <2>1, UptoGrows
  <2>3. s \notin PacketSub => these[s] = g.fetch[p].subs[s]
    BY <1>3, <1>5 DEF copies
  <2> QED
    BY <1>9, <2>2, <2>3 DEF Had, Entered, Rest
<1>11. /\ Trace(g, p) => p \in M
       /\ \A s \in Sub : <<s, p>> \in O =>
            /\ p \in M => Had(g, s, p) \/ Entered(g, s, p)
            /\ s \in PacketSub => Had(g, s, p)
  BY DEF Kept
<1>12. p \in M
  BY <1>11 DEF Trace
<1>13. Kept(t, O, M)
  BY <1>9, <1>10, <1>11, <1>12, KeptAtOne
<1> QED
  BY <1>2, <1>8, <1>9, <1>13 DEF r

--------------------------------------------------------------------------------
(* The invariant *)

\* What subscriptions that are still there have to get
Open == { o \in owed : sub[o[1]] = "on" }

\* Nobody subscribes to producers, or nobody to names.  With subscriptions to
\* names alone the publications whose subscriptions have been entered are the
\* ones whose names are known, with subscriptions to producers alone the
\* reported ones.
Naming == \A s \in ProducerSub : sub[s] = "new"
Nameless == \A s \in Sub \ ProducerSub : sub[s] = "new"

\* What is owed was wanted.
OwedWanted ==
  /\ owed \subseteq Sub \X Pub
  /\ \A o \in owed : /\ sub[o[1]] # "new"
                     /\ IF o[1] \in ProducerSub THEN o[2] \in 1 .. announced
                        ELSE o[2] \in matching[o[1]]

\* A range that is not asked for though it is in one of the maps of
\* ranges has been given up.
RangesGivenUp ==
  \A range \in suppressed \cup (inFlight \ asked) :
    range[1] .. range[2] \subseteq excused \cup mapping

\* What is owed is kept in r.
AllKept(r) ==
  /\ Naming => Kept(r, Open, mapping)
  /\ Nameless => Kept(r, Open, 1 .. announced)

\* Names that are not known are asked for.
NamesAsked ==
  Naming => \A o \in Open : \/ o[2] \in mapping \/ o[2] \in excused
                            \/ \E range \in asked : o[2] \in range[1] .. range[2]

KeptInv ==
  alive => /\ old \subseteq excused /\ OwedWanted /\ RangesGivenUp
           /\ AllKept(Receiver) /\ NamesAsked

\* The sets of pairs and publications are as good as any others.
LEMMA AllKeptStays ==
  ASSUME NEW r, NEW t, Keeps(r, t), AllKept(r)
  PROVE  AllKept(t)
<1> DEFINE O == Open
           M == mapping
           N == 1 .. announced
<1>1. (Naming => Kept(r, O, M)) /\ (Nameless => Kept(r, O, N))
  BY DEF AllKept
<1> HIDE DEF O, M, N
<1>2. (Naming => Kept(t, O, M)) /\ (Nameless => Kept(t, O, N))
  BY <1>1, KeptStays
<1> QED
  BY <1>2 DEF AllKept, O, M, N

LEMMA BecomesKept ==
  ASSUME NEW t, Becomes(t), NEW O, NEW M, Kept(t, O, M)
  PROVE  Kept(Receiver', O, M)
<1> DEFINE r == Receiver'
<1>1. /\ r.fetch = t.fetch /\ r.remembered = t.remembered /\ r.given = t.given
      /\ r.excused = t.excused /\ r.collecting = t.collecting
  BY DEF Becomes, Receiver
<1> HIDE DEF r
<1>2. Kept(r, O, M)
  BY <1>1 DEF Kept, Trace, Had, Entered
<1> QED
  BY <1>2 DEF r

\* The receiver state in the next state
LEMMA AllKeptNext ==
  ASSUME NEW t, Becomes(t),
         Naming' => Kept(t, Open', mapping'), Nameless' => Kept(t, Open', 1 .. announced')
  PROVE  AllKept(Receiver)'
<1> DEFINE O == Open'
           M == mapping'
           N == 1 .. announced'
           r == Receiver'
<1>1. (Naming' => Kept(t, O, M)) /\ (Nameless' => Kept(t, O, N))
  OBVIOUS
<1> HIDE DEF O, M, N
<1>2. (Naming' => Kept(r, O, M)) /\ (Nameless' => Kept(r, O, N))
  BY <1>1, BecomesKept
<1> HIDE DEF r
<1>3. (Naming => Kept(Receiver, Open, mapping))'
  BY <1>2 DEF Kept, Trace, Had, Entered, r, O, M
<1>4. (Nameless => Kept(Receiver, Open, 1 .. announced))'
  BY <1>2 DEF Kept, Trace, Had, Entered, r, O, N
<1> QED
  BY <1>3, <1>4 DEF AllKept

\* A step that is about packets alone
LEMMA PacketStep ==
  ASSUME KeptInv, alive, UNCHANGED envVars, UNCHANGED mapVars,
         NEW t, Becomes(t), t.mapping = mapping, excused \subseteq t.excused, AllKept(t)
  PROVE  KeptInv'
<1>1. /\ alive' = alive /\ sub' = sub /\ announced' = announced /\ old' = old /\ owed' = owed
      /\ asked' = asked /\ inFlight' = inFlight /\ suppressed' = suppressed
  BY DEF envVars, mapVars
<1>2. mapping' = mapping /\ excused \subseteq excused'
  BY DEF Becomes
<1>3. Open' = Open /\ (Naming' <=> Naming) /\ (Nameless' <=> Nameless)
  BY <1>1 DEF Open, Naming, Nameless
<1>4. OwedWanted'
  BY <1>1 DEF KeptInv, OwedWanted
<1>5. RangesGivenUp'
  BY <1>1, <1>2 DEF KeptInv, RangesGivenUp
<1>6. NamesAsked'
  BY <1>1, <1>2, <1>3 DEF KeptInv, NamesAsked
<1>7. AllKept(Receiver)'
  BY <1>1, <1>2, <1>3, AllKeptNext DEF AllKept
<1> QED
  BY <1>1, <1>2, <1>4, <1>5, <1>6, <1>7 DEF KeptInv

LEMMA KeepsStep ==
  ASSUME KeptInv, alive, UNCHANGED envVars, UNCHANGED mapVars,
         NEW t, Becomes(t), Keeps(Receiver, t)
  PROVE  KeptInv'
<1>1. t.mapping = mapping /\ excused \subseteq t.excused
  BY Fields DEF Keeps
<1>2. AllKept(t)
  BY AllKeptStays DEF KeptInv
<1> QED
  BY <1>1, <1>2, PacketStep

--------------------------------------------------------------------------------
(* The actions *)

LEMMA ReturnStep ==
  ASSUME KeptInv, alive, UNCHANGED envVars, UNCHANGED mapVars, Receiver \in ReceiverState,
         NEW r, Keeps(Receiver, r), NEW p \in Pub, Becomes(ReturnData(r, p))
  PROVE  KeptInv'
<1> DEFINE t == ReturnData(r, p)
           g == Receiver
<1>1. r \in ReceiverState /\ r.mapping = mapping /\ excused \subseteq r.excused
  BY Fields DEF Keeps
<1>2. Rest(r, t)
  <2> DEFINE none == {}
             all == Pub
  <2>1. Kept(r, none, all)
    BY DEF Kept
  <2> HIDE DEF none, all
  <2> QED
    BY <1>1, <2>1, ReturnDataKept
<1> HIDE DEF t
<1>3. t.mapping = mapping /\ excused \subseteq t.excused
  BY <1>1, <1>2 DEF Rest
<1>4. AllKept(t)
  <2> DEFINE O == Open
             M == mapping
             N == 1 .. announced
  <2>1. (Naming => Kept(r, O, M)) /\ (Nameless => Kept(r, O, N))
    BY AllKeptStays DEF KeptInv, AllKept
  <2> HIDE DEF O, M, N, g
  <2>2. (Naming => Kept(t, O, M)) /\ (Nameless => Kept(t, O, N))
    BY <1>1, <2>1, ReturnDataKept DEF t
  <2> QED
    BY <2>2 DEF AllKept, O, M, N
<1>5. Becomes(t)
  BY DEF t
<1> QED
  BY <1>3, <1>4, <1>5, PacketStep

LEMMA FetchEndsKept ==
  ASSUME IInv, KeptInv, NEW p \in Pub, NEW how, FetchEnds(p, how)
  PROVE  KeptInv'
<1> DEFINE g == Receiver
           e == LessRequests(g, p)
           o == Observed(e, p)
           checked == [o EXCEPT !.checking = Add(@, p, 1)]
<1>1. /\ alive /\ requests[p] > 0
      /\ how \in {"data"} \cup ({"timeout", "plain", "undecodable", "invalid"} \cap MayFail)
      /\ UNCHANGED envVars /\ UNCHANGED mapVars
  BY DEF FetchEnds
<1>2. g \in ReceiverState /\ g.requests[p] > 0
  BY <1>1, TypeParts, Fields DEF IInv
<1>3. Ended(p) = e
  BY DEF Ended, LessRequests
<1>4. OnSyncData(p) = IF HasInnerValidator THEN checked ELSE ReturnData(o, p)
  BY <1>3 DEF OnSyncData
<1>5. Becomes(CASE how = "data" -> OnSyncData(p)
                [] how \in {"timeout", "plain"} -> MarkPublicationFetchFailed(Ended(p), p)
                [] how = "undecodable" -> GiveUp(Observed(Ended(p), p), p)
                [] how = "invalid" -> Ended(p))
  BY DEF FetchEnds
<1> HIDE DEF g
<1>6. Keeps(g, e)
  BY <1>2, LessRequestsKeeps
<1> HIDE DEF e
<1>7. e \in ReceiverState
  BY <1>6 DEF Keeps
<1>8. Keeps(e, o)
  BY <1>7, ObservedKeeps
<1> HIDE DEF o
<1>9. o \in ReceiverState /\ Keeps(g, o)
  BY <1>6, <1>8, KeepsBoth DEF Keeps
<1>10. CASE how = "data" /\ ~HasInnerValidator
  <2>1. Becomes(ReturnData(o, p))
    BY <1>4, <1>5, <1>10
  <2> QED
    BY <1>1, <1>2, <1>9, <2>1, ReturnStep DEF g
<1>11. CASE how = "data" /\ HasInnerValidator
  <2>1. Becomes(checked)
    BY <1>4, <1>5, <1>11
  <2>2. Keeps(o, checked)
    BY <1>9, MoreCheckingKeeps
  <2> HIDE DEF checked
  <2>3. Keeps(g, checked)
    BY <1>9, <2>2, KeepsBoth
  <2> QED
    BY <1>1, <2>1, <2>3, KeepsStep DEF g
<1>12. CASE how \in {"timeout", "plain"}
  <2> DEFINE x == MarkPublicationFetchFailed(e, p)
  <2>1. Becomes(x)
    BY <1>3, <1>5, <1>12
  <2>2. Keeps(e, x)
    BY <1>7, MarkFailedKeeps
  <2> HIDE DEF x
  <2>3. Keeps(g, x)
    BY <1>6, <2>2, KeepsBoth
  <2> QED
    BY <1>1, <2>1, <2>3, KeepsStep DEF g
<1>13. CASE how = "undecodable"
  <2> DEFINE x == GiveUp(o, p)
  <2>1. Becomes(x)
    BY <1>3, <1>5, <1>13 DEF o
  <2>2. Keeps(o, x)
    BY <1>9, GiveUpKeeps
  <2> HIDE DEF x
  <2>3. Keeps(g, x)
    BY <1>9, <2>2, KeepsBoth
  <2> QED
    BY <1>1, <2>1, <2>3, KeepsStep DEF g
<1>14. CASE how = "invalid"
  <2>1. Becomes(e)
    BY <1>3, <1>5, <1>14
  <2> QED
    BY <1>1, <1>6, <2>1, KeepsStep DEF g
<1> QED
  BY <1>1, <1>10, <1>11, <1>12, <1>13, <1>14

\* Once the object is destroyed there is nothing to keep.
LEMMA DeadKept ==
  ASSUME ~alive'
  PROVE  KeptInv'
BY DEF KeptInv

LEMMA InnerCheckedKept ==
  ASSUME IInv, KeptInv, NEW p \in Pub, NEW ok \in BOOLEAN, InnerChecked(p, ok)
  PROVE  KeptInv'
<1> DEFINE g == Receiver
           o == LessChecking(g, p)
<1>1. /\ checking[p] > 0
      /\ Becomes(IF ~alive THEN o ELSE IF ok THEN ReturnData(o, p) ELSE GiveUp(o, p))
      /\ UNCHANGED envVars /\ UNCHANGED mapVars
  BY DEF InnerChecked, LessChecking
<1>2. g \in ReceiverState /\ g.checking[p] > 0
  BY <1>1, TypeParts, Fields DEF IInv
<1> HIDE DEF g
<1>3. Keeps(g, o)
  BY <1>2, LessCheckingKeeps
<1> HIDE DEF o
<1>4. o \in ReceiverState
  BY <1>3 DEF Keeps
<1>5. CASE ~alive
  BY <1>1, <1>5, DeadKept DEF envVars
<1>6. CASE alive /\ ok
  <2>1. Becomes(ReturnData(o, p))
    BY <1>1, <1>6
  <2> QED
    BY <1>1, <1>2, <1>3, <1>6, <2>1, ReturnStep DEF g
<1>7. CASE alive /\ ~ok
  <2> DEFINE x == GiveUp(o, p)
  <2>1. Becomes(x)
    BY <1>1, <1>7
  <2>2. Keeps(o, x)
    BY <1>4, GiveUpKeeps
  <2> HIDE DEF x
  <2>3. Keeps(g, x)
    BY <1>3, <2>2, KeepsBoth
  <2> QED
    BY <1>1, <1>7, <2>1, <2>3, KeepsStep DEF g
<1> QED
  BY <1>5, <1>6, <1>7

LEMMA SegmentsArriveKept ==
  ASSUME IInv, KeptInv, NEW p \in Pub, NEW blocks \in Answers(p), NEW valid \in BOOLEAN,
         SegmentsArrive(p, blocks, valid)
  PROVE  KeptInv'
<1> DEFINE g == Receiver
           o == LessCollecting(g, p)
           payload == DecodeInnerSegments(blocks)
           other == IF payload = Segments(p, SegmentCount) THEN p ELSE None
           d == DeliverBlob(o, p)
           x == CleanUpFetch([d EXCEPT !.wrong = IF other = p THEN @ ELSE @ \cup {p}], p)
<1>1. /\ collecting[p] > 0
      /\ Becomes(IF ~alive THEN o
                 ELSE IF payload = NoAssembly \/ ~valid THEN GiveUp(o, p)
                 ELSE IF o.fetch[p] = None THEN o ELSE x)
      /\ UNCHANGED envVars /\ UNCHANGED mapVars
  BY DEF SegmentsArrive, LessCollecting
<1>2. g \in ReceiverState /\ g.collecting[p] > 0
  BY <1>1, TypeParts, Fields DEF IInv
<1>3. payload # NoAssembly => payload = Segments(p, SegmentCount)
  BY DecodeRight
<1>4. payload # NoAssembly => x = Assembled(o, p)
  BY <1>3 DEF Assembled
<1> HIDE DEF g, payload, x
<1>5. Keeps(g, o) /\ o.fetch = g.fetch
  <2>1. o.fetch = g.fetch
    BY <1>2 DEF LessCollecting, ReceiverState
  <2> QED
    BY <1>2, <2>1, LessCollectingKeeps
<1>6. o \in ReceiverState
  BY <1>5 DEF Keeps
<1>7. CASE ~alive
  BY <1>1, <1>7, DeadKept DEF envVars
<1>8. CASE alive /\ Becomes(o)
  BY <1>1, <1>5, <1>8, KeepsStep DEF g
<1>9. CASE alive /\ Becomes(GiveUp(o, p))
  <2> DEFINE y == GiveUp(o, p)
  <2>1. Keeps(o, y)
    BY <1>6, GiveUpKeeps
  <2>2. Becomes(y)
    BY <1>9
  <2> HIDE DEF y, o
  <2>3. Keeps(g, y)
    BY <1>5, <2>1, KeepsBoth
  <2> QED
    BY <1>1, <1>9, <2>2, <2>3, KeepsStep DEF g
<1>10. CASE alive /\ g.fetch[p] # None /\ Becomes(Assembled(o, p))
  <2> DEFINE y == Assembled(o, p)
  <2>1. Rest(g, y)
    <3> DEFINE none == {}
               all == Pub
    <3>1. Kept(g, none, all)
      BY DEF Kept
    <3> HIDE DEF none, all
    <3> QED
      BY <1>2, <1>10, <3>1, AssembledKept
  <2>2. AllKept(y)
    <3> DEFINE O == Open
               M == mapping
               N == 1 .. announced
    <3>1. (Naming => Kept(g, O, M)) /\ (Nameless => Kept(g, O, N))
      BY <1>10 DEF KeptInv, AllKept, g
    <3> HIDE DEF O, M, N
    <3>2. (Naming => Kept(y, O, M)) /\ (Nameless => Kept(y, O, N))
      BY <1>2, <1>10, <3>1, AssembledKept
    <3> HIDE DEF y
    <3> QED
      BY <3>2 DEF AllKept, O, M, N
  <2>3. Becomes(y)
    BY <1>10
  <2> HIDE DEF y
  <2>4. y.mapping = mapping /\ excused \subseteq y.excused
    BY <2>1, Fields DEF Rest, g
  <2> QED
    BY <1>1, <1>10, <2>2, <2>3, <2>4, PacketStep
<1> HIDE DEF o
<1>11. \/ ~alive \/ Becomes(o) \/ Becomes(GiveUp(o, p))
       \/ g.fetch[p] # None /\ Becomes(Assembled(o, p))
  BY <1>1, <1>4, <1>5
<1> QED
  BY <1>7, <1>8, <1>9, <1>10, <1>11

LEMMA NextAttemptComesKept ==
  ASSUME IInv, KeptInv, NEW p \in Pub, NextAttemptComes(p)
  PROVE  KeptInv'
<1> DEFINE g == Receiver
           o == g.fetch[p]
           e == [o EXCEPT !.status = "ready"]
           t == SetStatus(g, p, "ready")
<1>1. /\ alive /\ fetch[p] # None
      /\ fetch' = t.fetch /\ UNCHANGED envVars /\ UNCHANGED mapVars
      /\ UNCHANGED <<mapping, cache, remembered, requests, checking, collecting, timers, given,
                     wrong, excused>>
  BY DEF NextAttemptComes
<1>2. g \in ReceiverState /\ o # None
  BY <1>1, TypeParts, Fields DEF IInv
<1> HIDE DEF g
<1>3. Keeps(g, t)
  BY <1>2, SetStatusKeeps
<1>4. t = SetEntry(g, p, e)
  BY DEF SetStatus
<1>5. e \in Entry
  <2>1. o \in Entry
    BY <1>2 DEF ReceiverState
  <2> HIDE DEF o
  <2> QED
    BY <2>1 DEF Entry
<1> HIDE DEF e, t
<1>6. Becomes(t)
  BY <1>1, <1>2, <1>4, <1>5, EntryBecomes DEF g
<1> QED
  BY <1>1, <1>3, <1>6, KeepsStep DEF g

LEMMA DeadlinePassesKept ==
  ASSUME IInv, KeptInv, NEW p \in Pub, DeadlinePasses(p)
  PROVE  KeptInv'
<1> DEFINE g == Receiver
           o == g.fetch[p]
           e == [o EXCEPT !.late = TRUE]
           t == SetEntry(g, p, e)
<1>1. /\ alive /\ fetch[p] # None
      /\ fetch' = SetEntry(Receiver, p, [fetch[p] EXCEPT !.late = TRUE]).fetch
      /\ UNCHANGED envVars /\ UNCHANGED mapVars
      /\ UNCHANGED <<mapping, cache, remembered, requests, checking, collecting, timers, given,
                     wrong, excused>>
  BY DEF DeadlinePasses
<1>2. g \in ReceiverState /\ o # None /\ o = fetch[p]
  BY <1>1, TypeParts, Fields DEF IInv
<1>3. fetch' = t.fetch
  BY <1>1, <1>2
<1> HIDE DEF g
<1>4. Keeps(g, t)
  BY <1>2, LateKeeps
<1>5. e \in Entry
  <2>1. o \in Entry
    BY <1>2 DEF ReceiverState
  <2> HIDE DEF o
  <2> QED
    BY <2>1 DEF Entry
<1> HIDE DEF e
<1>6. Becomes(t)
  BY <1>1, <1>2, <1>3, <1>5, EntryBecomes DEF g
<1> QED
  BY <1>1, <1>4, <1>6, KeepsStep DEF g

LEMMA BackoffEventKept ==
  ASSUME IInv, KeptInv, NEW p \in Pub, BackoffEvent(p)
  PROVE  KeptInv'
<1> DEFINE g == Receiver
           o == [g EXCEPT !.timers = Add(@, p, -1)]
           t == FetchAll(o)
<1>1. /\ alive /\ timers[p] > (IF fetch[p] # None /\ fetch[p].status = "backoff" THEN 1 ELSE 0)
      /\ Becomes(t) /\ UNCHANGED envVars /\ UNCHANGED mapVars
  BY DEF BackoffEvent
<1>2. g \in ReceiverState /\ g.timers = timers
  BY TypeParts, Fields DEF IInv
<1> HIDE DEF g
<1>3. g.timers[p] + (-1) \in Nat
  <2>1. timers[p] \in Nat
    BY <1>2 DEF ReceiverState
  <2>2. timers[p] > 0
    BY <1>1, <2>1
  <2> QED
    BY <1>2, <2>1, <2>2
<1>4. Keeps(g, o)
  BY <1>2, <1>3, TimersKeeps
<1> HIDE DEF o
<1>5. o \in ReceiverState
  BY <1>4 DEF Keeps
<1>6. Keeps(o, t)
  BY <1>5, FetchAllKeeps
<1> HIDE DEF t
<1>7. Keeps(g, t)
  BY <1>4, <1>6, KeepsBoth
<1> QED
  BY <1>1, <1>7, KeepsStep DEF g

LEMMA KeptFewer ==
  ASSUME NEW r, NEW O, NEW P \in SUBSET O, NEW M, Kept(r, O, M)
  PROVE  Kept(r, P, M)
BY DEF Kept

\* Subscriptions come and go, but not back.
LEMMA SubscribeKept ==
  ASSUME IInv, KeptInv, NEW s \in Sub, Subscribe(s) \/ Unsubscribe(s)
  PROVE  KeptInv'
<1>1. /\ alive /\ alive' = alive /\ announced' = announced /\ old' = old /\ owed' = owed
      /\ UNCHANGED mapVars /\ UNCHANGED rcvVars
  BY DEF Subscribe, Unsubscribe
<1>2. \/ sub[s] = "new" /\ sub' = [sub EXCEPT ![s] = "on"]
      \/ sub[s] = "on" /\ sub' = [sub EXCEPT ![s] = "off"]
  BY DEF Subscribe, Unsubscribe
<1>3. asked' = asked /\ inFlight' = inFlight /\ suppressed' = suppressed
  BY <1>1 DEF mapVars
<1>4. mapping' = mapping /\ excused' = excused /\ Becomes(Receiver)
  BY <1>1, UnchangedBecomes DEF rcvVars
<1>5. sub \in [Sub -> {"new", "on", "off"}] /\ ProducerSub \subseteq Sub
  BY Constants DEF IInv, TypeOK
<1>6. \A x \in Sub : /\ sub'[x] = "new" => sub[x] = "new"
                     /\ sub[x] # "new" => sub'[x] # "new"
                     /\ sub[x] # "new" /\ sub'[x] = "on" => sub[x] = "on"
  BY <1>2, <1>5
<1>7. OwedWanted /\ RangesGivenUp /\ old \subseteq excused /\ AllKept(Receiver) /\ NamesAsked
  BY <1>1 DEF KeptInv
<1>8. OwedWanted'
  <2>1. \A o \in owed : o[1] \in Sub
    BY <1>7 DEF OwedWanted
  <2> QED
    BY <1>1, <1>6, <1>7, <2>1 DEF OwedWanted
<1>9. RangesGivenUp'
  BY <1>3, <1>4, <1>7 DEF RangesGivenUp
<1>10. Open' \subseteq Open
  <2>1. \A o \in owed : o[1] \in Sub /\ sub[o[1]] # "new"
    BY <1>7 DEF OwedWanted
  <2> QED
    BY <1>1, <1>6, <2>1 DEF Open
<1>11. (Naming' => Naming) /\ (Nameless' => Nameless)
  BY <1>5, <1>6 DEF Naming, Nameless
<1>12. NamesAsked'
  BY <1>3, <1>4, <1>7, <1>10, <1>11 DEF NamesAsked
<1>13. AllKept(Receiver)'
  <2> DEFINE O == Open
             P == Open'
             M == mapping
             N == 1 .. announced
             g == Receiver
  <2>1. (Naming => Kept(g, O, M)) /\ (Nameless => Kept(g, O, N)) /\ P \in SUBSET O
    BY <1>7, <1>10 DEF AllKept
  <2>2. mapping' = M /\ 1 .. announced' = N /\ Becomes(g)
    BY <1>1, <1>4
  <2> HIDE DEF O, P, M, N, g
  <2>3. (Naming => Kept(g, P, M)) /\ (Nameless => Kept(g, P, N))
    BY <2>1, KeptFewer
  <2>4. (Naming' => Kept(g, P, M)) /\ (Nameless' => Kept(g, P, N))
    BY <1>11, <2>3
  <2>5. (Naming' => Kept(g, Open', mapping')) /\ (Nameless' => Kept(g, Open', 1 .. announced'))
    BY <2>2, <2>4 DEF P
  <2> QED
    BY <2>2, <2>5, AllKeptNext
<1> QED
  BY <1>1, <1>4, <1>7, <1>8, <1>9, <1>12, <1>13 DEF KeptInv

\* A step that gives up, or is about queries alone
LEMMA QuietStep ==
  ASSUME KeptInv, alive, alive' = alive, sub' = sub, announced' = announced, owed' = owed,
         excused \subseteq excused', old' \subseteq excused', RangesGivenUp',
         Receiver \in ReceiverState, excused' \in SUBSET Pub,
         UNCHANGED <<mapping, cache, remembered, fetch, requests, checking, collecting, timers,
                     given, wrong>>,
         \A range \in asked \ asked' : range[1] .. range[2] \subseteq excused' \cup mapping
  PROVE  KeptInv'
<1> DEFINE g == Receiver
           x == excused'
           t == [g EXCEPT !.excused = x]
<1>1. Becomes(t)
  BY ExcusedBecomes
<1>2. g.excused \subseteq x /\ x \in SUBSET Pub /\ g \in ReceiverState
  BY Fields
<1>3. mapping' = mapping
  OBVIOUS
<1>4. Open' = Open /\ (Naming' <=> Naming) /\ (Nameless' <=> Nameless)
  BY DEF Open, Naming, Nameless
<1>5. OwedWanted'
  BY DEF KeptInv, OwedWanted
<1>6. AllKept(Receiver)'
  <2> DEFINE O == Open
             M == mapping
             N == 1 .. announced
  <2>1. (Naming => Kept(g, O, M)) /\ (Nameless => Kept(g, O, N))
    BY DEF KeptInv, AllKept
  <2>2. Open' = O /\ mapping' = M /\ 1 .. announced' = N
    BY <1>3, <1>4
  <2> HIDE DEF O, M, N, g, x
  <2>3. /\ t.fetch = g.fetch /\ t.remembered = g.remembered /\ t.given = g.given
        /\ t.collecting = g.collecting /\ t.excused = x
    BY <1>2 DEF ReceiverState
  <2> HIDE DEF t
  <2>4. ASSUME NEW K, Kept(g, O, K) PROVE Kept(t, O, K)
    BY <1>2, <2>3, <2>4 DEF Kept, Trace, Had, Entered
  <2>5. (Naming => Kept(t, O, M)) /\ (Nameless => Kept(t, O, N))
    BY <2>1, <2>4
  <2> QED
    BY <1>1, <1>4, <2>2, <2>5, AllKeptNext
<1>7. NamesAsked'
  <2> SUFFICES ASSUME Naming, NEW o \in Open, o[2] \notin mapping, o[2] \notin excused'
               PROVE  \E range \in asked' : o[2] \in range[1] .. range[2]
    BY <1>3, <1>4 DEF NamesAsked
  <2>1. o[2] \notin excused
    OBVIOUS
  <2>2. PICK range \in asked : o[2] \in range[1] .. range[2]
    BY <2>1 DEF KeptInv, NamesAsked
  <2> QED
    BY <2>2
<1> QED
  BY <1>5, <1>6, <1>7 DEF KeptInv

LEMMA MappingFetchFailsKept ==
  ASSUME IInv, KeptInv, NEW range \in asked, NEW how \in MayFail, MappingFetchFails(range, how)
  PROVE  KeptInv'
<1>1. /\ alive /\ asked' = asked \ {range}
      /\ how = "mapping" => /\ inFlight' = inFlight \ {range}
                            /\ suppressed' = suppressed \cup {range}
      /\ how # "mapping" => inFlight' = inFlight /\ suppressed' = suppressed
      /\ excused' = excused \cup ((range[1] .. range[2]) \ mapping)
      /\ UNCHANGED envVars
      /\ UNCHANGED <<mapping, cache, remembered, fetch, requests, checking, collecting, timers,
                     given, wrong>>
  BY DEF MappingFetchFails, MarkMappingFetchFailed
<1>2. /\ alive' = alive /\ sub' = sub /\ announced' = announced /\ owed' = owed /\ old' = old
  BY <1>1 DEF envVars
<1>3. EnvOK /\ Receiver \in ReceiverState /\ excused \in SUBSET Pub
  <2>1. TypeOK
    BY DEF IInv
  <2> QED
    BY <2>1, TypeParts DEF TypeOK
<1>4. excused' \in SUBSET Pub
  <2>1. range[1] \in Pub /\ range[2] \in Pub
    BY <1>3 DEF EnvOK
  <2>2. \A q \in range[1] .. range[2] : q \in Pub
    BY <2>1, Constants
  <2> QED
    BY <1>1, <1>3, <2>2
<1>5. RangesGivenUp /\ old \subseteq excused
  BY <1>1 DEF KeptInv
<1>6. range[1] .. range[2] \subseteq excused' \cup mapping
  BY <1>1
<1>7. mapping' = mapping /\ excused \subseteq excused'
  BY <1>1
<1>8. RangesGivenUp'
  <2>1. \A c \in suppressed' \cup (inFlight' \ asked') :
          c = range \/ c \in suppressed \cup (inFlight \ asked)
    BY <1>1
  <2> QED
    BY <1>5, <1>6, <1>7, <2>1 DEF RangesGivenUp
<1> QED
  BY <1>1, <1>2, <1>3, <1>4, <1>5, <1>6, <1>7, <1>8, QuietStep

LEMMA SuppressionEndsKept ==
  ASSUME IInv, KeptInv, NEW range \in suppressed, SuppressionEnds(range)
  PROVE  KeptInv'
<1>1. /\ alive /\ suppressed' = suppressed \ {range} /\ UNCHANGED envVars
      /\ inFlight' = inFlight /\ asked' = asked /\ UNCHANGED rcvVars
  BY DEF SuppressionEnds
<1>2. /\ alive' = alive /\ sub' = sub /\ announced' = announced /\ owed' = owed /\ old' = old
  BY <1>1 DEF envVars
<1>3. /\ excused' = excused /\ mapping' = mapping
      /\ UNCHANGED <<mapping, cache, remembered, fetch, requests, checking, collecting, timers,
                     given, wrong>>
  BY <1>1 DEF rcvVars
<1>4. Receiver \in ReceiverState /\ excused \in SUBSET Pub
  <2>1. TypeOK
    BY DEF IInv
  <2> QED
    BY <2>1, TypeParts DEF TypeOK
<1>5. RangesGivenUp /\ old \subseteq excused
  BY <1>1 DEF KeptInv
<1>6. RangesGivenUp'
  BY <1>1, <1>3, <1>5 DEF RangesGivenUp
<1> QED
  BY <1>1, <1>2, <1>3, <1>4, <1>5, <1>6, QuietStep

LEMMA GrowsOldKept ==
  ASSUME IInv, KeptInv, NEW p \in Pub, GrowsOld(p)
  PROVE  KeptInv'
<1>1. /\ alive /\ old' = old \cup {p} /\ excused' = excused \cup {p}
      /\ UNCHANGED <<window, sub, alive, rounds, announced, owed>> /\ UNCHANGED mapVars
      /\ UNCHANGED <<mapping, cache, remembered, fetch, requests, checking, collecting, timers,
                     given, wrong>>
  BY DEF GrowsOld
<1>2. asked' = asked /\ inFlight' = inFlight /\ suppressed' = suppressed
  BY <1>1 DEF mapVars
<1>3. Receiver \in ReceiverState /\ excused \in SUBSET Pub
  <2>1. TypeOK
    BY DEF IInv
  <2> QED
    BY <2>1, TypeParts DEF TypeOK
<1>4. RangesGivenUp /\ old \subseteq excused
  BY <1>1 DEF KeptInv
<1>5. RangesGivenUp'
  BY <1>1, <1>2, <1>4 DEF RangesGivenUp
<1> QED
  BY <1>1, <1>2, <1>3, <1>4, <1>5, QuietStep

\* A range that scheduleMappingFetch leaves out is asked for or has been
\* given up.
LEMMA ScheduleKept ==
  ASSUME RangesGivenUp, NEW ranges, NEW flying, NEW waiting,
         ScheduleMappingFetch(ranges, flying, waiting), flying \ waiting \subseteq inFlight \ asked
  PROVE  /\ \A c \in ranges : c \in asked' \/ c[1] .. c[2] \subseteq excused \cup mapping
         /\ inFlight' \ asked' \subseteq inFlight \ asked
         /\ waiting \subseteq asked'
BY DEF ScheduleMappingFetch, RangesGivenUp

\* The two kinds of subscriptions
LEMMA NamingMatched ==
  ASSUME OwedWanted, Naming
  PROVE  Matched(Open, Pub)
BY DEF OwedWanted, Naming, Matched, Open, NameSubs

LEMMA NobodyNaming ==
  ASSUME Nameless
  PROVE  NameSubs = {}
BY DEF Nameless, NameSubs

LEMMA OnFetchedNameMappingsKept ==
  ASSUME IInv, KeptInv, NEW range \in asked, NEW got, OnFetchedNameMappings(range, got)
  PROVE  KeptInv'
<1> DEFINE g == Receiver
           names == g.mapping \cup got
           named == [g EXCEPT !.mapping = names]
           end == EachName(named, NewestFirst(got))
           t == FetchIfQueued(end)
           ranges == MissingRanges(range[1], range[2], got)
           O == Open
           M == mapping
           A == 1 .. announced
<1>1. /\ alive /\ got \in SUBSET (range[1] .. range[2])
      /\ Becomes(t) /\ ScheduleMappingFetch(ranges, inFlight \ {range}, asked \ {range})
      /\ UNCHANGED envVars /\ suppressed' = suppressed
  BY DEF OnFetchedNameMappings, MappingAnswers, FetchNameMapping, EachName
<1>2. /\ alive' = alive /\ sub' = sub /\ announced' = announced /\ owed' = owed /\ old' = old
  BY <1>1 DEF envVars
<1>3. announced \in Nat /\ announced <= MaxSeq /\ asked \subseteq (1 .. announced) \X (1 .. announced)
  BY <1>1, Living
<1>4. range[1] \in Nat /\ range[2] \in Nat /\ \A q \in range[1] .. range[2] : q \in 1 .. announced
  <2>1. range[1] \in 1 .. announced /\ range[2] \in 1 .. announced
    BY <1>3
  <2> QED
    BY <1>3, <2>1
<1>5. got \in SUBSET Pub
  BY <1>1, <1>3, <1>4, Constants
<1>6. OwedWanted /\ RangesGivenUp /\ old \subseteq excused /\ NamesAsked
  BY <1>1 DEF KeptInv
<1>7. g \in ReceiverState
  BY TypeParts DEF IInv
<1>8. names = mapping \cup got /\ g.excused = excused
  BY Fields
<1>9. (Naming => Kept(g, O, M)) /\ (Nameless => Kept(g, O, A))
  BY <1>1 DEF KeptInv, AllKept
<1>10. names \in SUBSET Pub
  BY <1>5, <1>7 DEF ReceiverState
<1> HIDE DEF g, names, O, M, A, ranges
<1>11. /\ named \in ReceiverState /\ named.mapping = names /\ named.excused = g.excused
       /\ named.fetch = g.fetch /\ named.remembered = g.remembered /\ named.given = g.given
       /\ named.collecting = g.collecting
  BY <1>7, <1>10 DEF ReceiverState
<1> HIDE DEF named
<1>12. (Naming => Kept(named, O, M)) /\ (Nameless => Kept(named, O, A))
  BY <1>9, <1>11 DEF Kept, Trace, Had, Entered
<1>13. Lists(NewestFirst(got), got) /\ NewestFirst(got) \in Seq(got)
  BY <1>5, NewestFirstLists DEF Lists
<1>14. end \in ReceiverState /\ end.mapping = names /\ end.excused = excused
  BY <1>5, <1>8, <1>11, <1>13, EachNameFields
<1>15. ASSUME Naming PROVE Kept(end, O, M \cup got)
  <2> DEFINE all == Pub
  <2>1. Matched(O, all)
    BY <1>6, <1>15, NamingMatched DEF O
  <2> HIDE DEF all
  <2>2. got \subseteq all
    BY <1>5 DEF all
  <2>3. Matched(O, got)
    BY <2>1, <2>2 DEF Matched
  <2> QED
    BY <1>5, <1>6, <1>8, <1>11, <1>12, <1>13, <1>15, <2>3, EachNameKept
<1>16. ASSUME Nameless PROVE Kept(end, O, A)
  <2>1. Keeps(named, end)
    BY <1>5, <1>11, <1>13, <1>16, NobodyNaming, EachNameKeeps
  <2> HIDE DEF end
  <2> QED
    BY <1>12, <1>16, <2>1, KeptStays
<1> HIDE DEF end
<1>17. Keeps(end, t)
  BY <1>14, FetchIfQueuedKeeps
<1> HIDE DEF t
<1>18. t.mapping = names /\ excused \subseteq t.excused
  BY <1>14, <1>17 DEF Keeps
<1>19. mapping' = mapping \cup got /\ excused \subseteq excused'
  BY <1>1, <1>8, <1>18 DEF Becomes
<1>20. Open' = O /\ (Naming' <=> Naming) /\ (Nameless' <=> Nameless)
       /\ mapping' = M \cup got /\ 1 .. announced' = A
  BY <1>2, <1>19 DEF O, M, A, Open, Naming, Nameless
<1>21. (inFlight \ {range}) \ (asked \ {range}) \subseteq inFlight \ asked
  OBVIOUS
<1>22. /\ \A c \in ranges : c \in asked' \/ c[1] .. c[2] \subseteq excused \cup mapping
       /\ inFlight' \ asked' \subseteq inFlight \ asked
       /\ asked \ {range} \subseteq asked'
  <2> DEFINE flying == inFlight \ {range}
             waiting == asked \ {range}
  <2>1. ScheduleMappingFetch(ranges, flying, waiting) /\ flying \ waiting \subseteq inFlight \ asked
    BY <1>1, <1>21
  <2> HIDE DEF flying, waiting
  <2>2. /\ \A c \in ranges : c \in asked' \/ c[1] .. c[2] \subseteq excused \cup mapping
        /\ inFlight' \ asked' \subseteq inFlight \ asked
        /\ waiting \subseteq asked'
    BY <1>6, <2>1, ScheduleKept
  <2> QED
    BY <2>2 DEF waiting
<1>23. OwedWanted'
  BY <1>2, <1>6 DEF OwedWanted
<1>24. RangesGivenUp'
  <2>1. suppressed' \cup (inFlight' \ asked') \subseteq suppressed \cup (inFlight \ asked)
    BY <1>1, <1>22
  <2> QED
    BY <1>6, <1>19, <2>1 DEF RangesGivenUp
<1>25. AllKept(Receiver)'
  <2> DEFINE N == M \cup got
  <2>1. Naming => Kept(end, O, N)
    BY <1>15
  <2>2. mapping' = N
    BY <1>20
  <2> HIDE DEF N
  <2>3. (Naming => Kept(t, O, N)) /\ (Nameless => Kept(t, O, A))
    BY <1>16, <1>17, <2>1, KeptStays
  <2> QED
    BY <1>1, <1>20, <2>2, <2>3, AllKeptNext
<1>26. NamesAsked'
  <2> SUFFICES ASSUME Naming, NEW o \in O, o[2] \notin mapping', o[2] \notin excused'
               PROVE  \E c \in asked' : o[2] \in c[1] .. c[2]
    BY <1>20 DEF NamesAsked
  <2>1. o[2] \notin mapping /\ o[2] \notin got /\ o[2] \notin excused
    BY <1>19
  <2>2. PICK c \in asked : o[2] \in c[1] .. c[2]
    BY <1>6, <2>1 DEF NamesAsked, O
  <2>3. CASE c # range
    BY <1>22, <2>2, <2>3
  <2>4. CASE c = range
    <3> DEFINE p == o[2]
    <3>1. p \in range[1] .. range[2] /\ p \notin got
      BY <2>1, <2>2, <2>4
    <3> HIDE DEF p
    <3>2. \E m \in ranges : p \in m[1] .. m[2]
      BY <1>4, <3>1, MissingRangesCover DEF ranges
    <3>3. PICK m \in ranges : p \in m[1] .. m[2]
      BY <3>2
    <3>4. m \in asked' \/ m[1] .. m[2] \subseteq excused \cup mapping
      BY <1>22
    <3> QED
      BY <2>1, <3>3, <3>4 DEF p
  <2> QED
    BY <2>3, <2>4
<1>27. old' \subseteq excused'
  BY <1>2, <1>6, <1>19
<1> QED
  BY <1>23, <1>24, <1>25, <1>26, <1>27 DEF KeptInv

LEMMA LeastBelow ==
  ASSUME NEW S \in SUBSET Nat, NEW p \in S
  PROVE  Min(S) \in S /\ Min(S) <= p
<1>1. \E x \in S : \A y \in S : x <= y
  BY LeastOf
<1> QED
  BY <1>1 DEF Min

\* New pairs, of publications that have left no trace
LEMMA KeptMore ==
  ASSUME NEW r, NEW O, NEW M, Kept(r, O, M), NEW N,
         \A s \in Sub, p \in Pub : <<s, p>> \in N => p \notin M
  PROVE  Kept(r, O \cup N, M)
BY DEF Kept

\* The flag is for the handlers alone.
LEMMA QueuedKept ==
  ASSUME NEW r \in ReceiverState, NEW O, NEW M
  PROVE  /\ [r EXCEPT !.queued = FALSE] \in ReceiverState
         /\ [r EXCEPT !.queued = FALSE].mapping = r.mapping
         /\ [r EXCEPT !.queued = FALSE].excused = r.excused
         /\ [r EXCEPT !.queued = FALSE].remembered = r.remembered
         /\ Kept(r, O, M) => Kept([r EXCEPT !.queued = FALSE], O, M)
<1> DEFINE s == [r EXCEPT !.queued = FALSE]
<1>1. FALSE \in BOOLEAN
  OBVIOUS
<1>2. s \in ReceiverState
  BY <1>1, Zenon DEF ReceiverState
<1>3. /\ s.mapping = r.mapping /\ s.excused = r.excused /\ s.remembered = r.remembered
      /\ s.fetch = r.fetch /\ s.given = r.given /\ s.collecting = r.collecting
  BY DEF ReceiverState
<1> HIDE DEF s
<1>4. Kept(r, O, M) => Kept(s, O, M)
  BY <1>3 DEF Kept, Trace, Had, Entered
<1> QED
  BY <1>2, <1>3, <1>4 DEF s

\* The queries of updateCallbackInternal cover the names that are not known.
LEMMA RestCovered ==
  ASSUME NEW low \in Nat, NEW high \in Nat, NEW known, NEW p \in (low .. high) \ known
  PROVE  \E c \in Chunks(Min((low .. high) \ known), high) : p \in c[1] .. c[2]
<1> DEFINE rest == (low .. high) \ known
<1>1. rest \in SUBSET Nat /\ p \in rest /\ rest \subseteq low .. high
  OBVIOUS
<1> HIDE DEF rest
<1>2. Min(rest) \in rest /\ Min(rest) <= p
  BY <1>1, LeastBelow
<1> DEFINE m == Min(rest)
<1>3. m \in low .. high /\ p \in low .. high /\ m <= p
  BY <1>1, <1>2
<1> HIDE DEF m
<1>4. m \in Nat /\ p \in m .. high
  BY <1>3
<1>5. \E c \in Chunks(m, high) : p \in c[1] .. c[2]
  BY <1>4, ChunksCover
<1> QED
  BY <1>5 DEF m, rest

\* The fields of the receiver state, whoever has subscribed
LEMMA OnRecvExtraBlocksFields ==
  ASSUME NEW r \in ReceiverState, NEW b \in Blocks
  PROVE  /\ OnRecvExtraBlocks(r, b) \in ReceiverState
         /\ OnRecvExtraBlocks(r, b).mapping = r.mapping \cup (b.notified \cup b.repeated)
         /\ r.excused \subseteq OnRecvExtraBlocks(r, b).excused
<1> DEFINE E == b.notified \cup b.repeated
           names == (r.mapping \cup b.notified) \cup b.repeated
           named == [r EXCEPT !.mapping = names]
           data == NewestFirst(b.data)
           stored == EachPacket(named, data)
           seq == NewestFirst(b.notified) \o NewestFirst(b.repeated)
           end == EachName(stored, seq)
           t == OnRecvExtraBlocks(r, b)
<1>1. b.notified \in SUBSET Pub /\ b.repeated \in SUBSET Pub /\ b.data \in SUBSET Pub
  BY PubSubAssumption
<1>2. t = FetchIfQueued(end)
  BY DEF OnRecvExtraBlocks, EachName, EachPacket
<1>3. names = r.mapping \cup E /\ names \in SUBSET Pub /\ E \in SUBSET Pub
  BY <1>1 DEF ReceiverState
<1> HIDE DEF names
<1>4. named \in ReceiverState /\ named.mapping = names /\ named.excused = r.excused
  BY <1>3 DEF ReceiverState
<1>5. data \in Seq(b.data) /\ seq \in Seq(E)
  BY <1>1, NewestFirstLists, BothLists DEF Lists
<1> HIDE DEF named, data, seq
<1>6. Keeps(named, stored)
  BY <1>1, <1>4, <1>5, EachPacketKeeps
<1> HIDE DEF stored
<1>7. stored \in ReceiverState /\ stored.mapping = names /\ r.excused \subseteq stored.excused
  BY <1>4, <1>6 DEF Keeps
<1>8. end \in ReceiverState /\ end.mapping = stored.mapping /\ end.excused = stored.excused
  BY <1>3, <1>5, <1>7, EachNameFields
<1> HIDE DEF end, E, t
<1>9. Keeps(end, t)
  BY <1>2, <1>8, FetchIfQueuedKeeps
<1>10. t \in ReceiverState /\ t.mapping = names /\ r.excused \subseteq t.excused
  BY <1>7, <1>8, <1>9 DEF Keeps
<1> QED
  BY <1>3, <1>10 DEF E, t

\* What the extra blocks and the update callback of a Sync Interest make of
\* the receiver state
LEMMA SyncNamesKept ==
  ASSUME NEW low \in Nat \ {0}, NEW high \in low .. MaxSeq, NEW b \in Blocks,
         { s \in ProducerSub : sub[s] = "on" } = {},
         NEW O, Matched(O, Pub), NEW g \in ReceiverState, Kept(g, O, g.mapping),
         old \subseteq g.excused, NEW r, r = OnRecvExtraBlocks(g, b)
  PROVE  /\ Kept(UpdateCallback([r EXCEPT !.queued = FALSE], low, high), O, r.mapping)
         /\ KnownPrefix(r, low, high) \subseteq r.mapping
<1> DEFINE E == b.notified \cup b.repeated
           M == g.mapping
           N == M \cup E
           s == [r EXCEPT !.queued = FALSE]
           u == UpdateCallback(s, low, high)
<1>1. E \subseteq Pub
  BY PubSubAssumption
<1>2. Matched(O, E)
  <2> DEFINE all == Pub
  <2>1. Matched(O, all) /\ E \subseteq all
    BY <1>1
  <2> HIDE DEF all, E
  <2> QED
    BY <2>1 DEF Matched
<1>3. Kept(g, O, M)
  OBVIOUS
<1> HIDE DEF M
<1>4. r \in ReceiverState /\ r.mapping = N /\ g.excused \subseteq r.excused /\ Kept(r, O, N)
  <2>1. /\ r \in ReceiverState /\ r.mapping = g.mapping \cup E /\ g.excused \subseteq r.excused
        /\ Kept(r, O, M \cup E)
    BY <1>2, <1>3, OnRecvExtraBlocksKept
  <2> QED
    BY <2>1 DEF M
<1> HIDE DEF N
<1>5. /\ s \in ReceiverState /\ s.mapping = N /\ s.excused = r.excused
      /\ s.remembered = r.remembered /\ Kept(s, O, N)
  BY <1>4, QueuedKept
<1> HIDE DEF s
<1>6. old \subseteq s.excused
  BY <1>4, <1>5
<1>7. Kept(s, O, s.mapping)
  BY <1>5
<1>8. Kept(u, O, s.mapping) /\ KnownPrefix(s, low, high) \subseteq s.mapping
  BY <1>5, <1>6, <1>7, UpdateNamesKept
<1>9. KnownPrefix(s, low, high) = KnownPrefix(r, low, high)
  BY <1>4, <1>5 DEF KnownPrefix
<1> HIDE DEF u
<1> QED
  BY <1>4, <1>5, <1>8, <1>9 DEF u, s

LEMMA SyncProducersKept ==
  ASSUME NEW low \in Nat \ {0}, NEW high \in low .. MaxSeq, NEW b \in Blocks, NameSubs = {}, NEW O,
         \A s \in Sub, p \in low .. high : <<s, p>> \in O => s \in ProducerSub /\ sub[s] = "on",
         NEW g \in ReceiverState, Kept(g, O, 1 .. low - 1), old \subseteq g.excused,
         NEW r, r = OnRecvExtraBlocks(g, b)
  PROVE  Kept(UpdateCallback([r EXCEPT !.queued = FALSE], low, high), O, 1 .. high)
<1> DEFINE M == 1 .. low - 1
           s == [r EXCEPT !.queued = FALSE]
<1>1. Kept(g, O, M)
  OBVIOUS
<1> HIDE DEF M
<1>2. r \in ReceiverState /\ Kept(r, O, M)
  BY <1>1, OnRecvExtraBlocksKept
<1>3. s \in ReceiverState /\ Kept(s, O, M)
  BY <1>2, QueuedKept
<1> HIDE DEF s
<1>4. Kept(s, O, 1 .. low - 1)
  BY <1>3 DEF M
<1>5. Kept(UpdateCallback(s, low, high), O, 1 .. high)
  BY <1>3, <1>4, UpdateProducersKept
<1> QED
  BY <1>5 DEF s

LEMMA OnSyncInterestKept ==
  ASSUME IInv, KeptInv, NEW high \in announced .. MaxSeq, NEW b \in Blocks,
         OnSyncInterest(high, b)
  PROVE  KeptInv'
<1> DEFINE low == announced + 1
           g == Receiver
           r == OnRecvExtraBlocks(g, b)
           s == [r EXCEPT !.queued = FALSE]
           known == KnownPrefix(r, low, high)
           rest == IF NameSubs = {} THEN {} ELSE (low .. high) \ known
           ranges == IF rest = {} THEN {} ELSE Chunks(Min(rest), high)
           u == UpdateCallback(s, low, high)
           E == b.notified \cup b.repeated
           N == { o \in Sub \X Pub : o[1] \in Wants(o[2], high, b) }
           O == Open \cup N
           M == mapping
           A == 1 .. announced
<1>1. /\ alive
      /\ high = announced => Becomes(r) /\ UNCHANGED <<inFlight, asked>>
      /\ high # announced => Becomes(u) /\ ScheduleMappingFetch(ranges, inFlight, asked)
      /\ announced' = high /\ owed' = owed \cup N
      /\ alive' = alive /\ sub' = sub /\ old' = old /\ suppressed' = suppressed
  BY DEF OnSyncInterest
<1>2. announced \in Nat /\ high \in Nat /\ announced <= high /\ high <= MaxSeq /\ MaxSeq \in Nat
  BY <1>1, Living, Constants
<1>3. /\ OwedWanted /\ RangesGivenUp /\ old \subseteq excused /\ NamesAsked
      /\ Naming => Kept(g, Open, M)
      /\ Nameless => Kept(g, Open, A)
  BY <1>1 DEF KeptInv, AllKept
<1>4. g \in ReceiverState /\ g.mapping = mapping /\ g.excused = excused
  BY TypeParts, Fields DEF IInv
<1>5. E \in SUBSET Pub
  BY PubSubAssumption
<1>6. \A o \in N : o[1] \in Sub /\ o[2] \in Pub /\ sub[o[1]] = "on"
  BY DEF Wants
<1>7. \A o \in N : o[1] \in ProducerSub => o[2] \in low .. high
  BY DEF Wants
<1>8. \A o \in N : o[1] \notin ProducerSub =>
                  /\ o[2] \in matching[o[1]] /\ o[2] \notin mapping
                  /\ o[2] \in low .. high \/ o[2] \in E
  BY DEF Wants
<1>9. Open' = O
  <2> HIDE DEF N
  <2> QED
    BY <1>1, <1>6 DEF Open
<1>10. OwedWanted'
  <2>1. N \subseteq Sub \X Pub
    OBVIOUS
  <2> HIDE DEF N
  <2>2. owed' \subseteq Sub \X Pub
    BY <1>1, <1>3, <2>1 DEF OwedWanted
  <2>3. \A x \in low .. high : x \in 1 .. high
    BY <1>2
  <2>4. \A x \in 1 .. announced : x \in 1 .. high
    BY <1>2
  <2>5. \A o \in owed' : /\ sub'[o[1]] # "new"
                        /\ IF o[1] \in ProducerSub THEN o[2] \in 1 .. announced'
                           ELSE o[2] \in matching[o[1]]
    BY <1>1, <1>3, <1>6, <1>7, <1>8, <2>3, <2>4 DEF OwedWanted
  <2> QED
    BY <2>2, <2>5 DEF OwedWanted
<1>11. (Naming => Kept(g, O, M)) /\ (Nameless => Kept(g, O, A))
  <2> DEFINE P == Open
  <2>1. (Naming => Kept(g, P, M)) /\ (Nameless => Kept(g, P, A))
    BY <1>3
  <2>2. ASSUME Naming, NEW x \in Sub, NEW p \in Pub, <<x, p>> \in N
        PROVE  p \notin M
    <3>1. sub[x] = "on" /\ (x \notin ProducerSub => p \notin mapping)
      BY <1>6, <1>8, <2>2
    <3> QED
      BY <2>2, <3>1 DEF Naming
  <2>3. ASSUME Nameless, NEW x \in Sub, NEW p \in Pub, <<x, p>> \in N
        PROVE  p \notin A
    <3>1. sub[x] = "on" /\ (x \in ProducerSub => p \in low .. high)
      BY <1>6, <1>7, <2>3
    <3>2. p \in low .. high
      BY <2>3, <3>1 DEF Nameless
    <3> QED
      BY <1>2, <3>2
  <2> HIDE DEF P, N, M, A, g
  <2>4. (Naming => Kept(g, P \cup N, M)) /\ (Nameless => Kept(g, P \cup N, A))
    BY <2>1, <2>2, <2>3, KeptMore
  <2> QED
    BY <2>4 DEF P
<1>12. Naming => Matched(O, Pub)
  <2> SUFFICES ASSUME Naming PROVE Matched(O, Pub)
    OBVIOUS
  <2>1. Matched(Open, Pub)
    BY <1>3, NamingMatched
  <2>2. ASSUME NEW x \in Sub, NEW p \in Pub, <<x, p>> \in N
        PROVE  x \in NameSubs /\ p \in matching[x]
    <3>1. sub[x] = "on" /\ (x \notin ProducerSub => p \in matching[x])
      BY <1>6, <1>8, <2>2
    <3> QED
      BY <3>1 DEF Naming, NameSubs
  <2> HIDE DEF N
  <2> QED
    BY <2>1, <2>2 DEF Matched
<1>13. (Naming' <=> Naming) /\ (Nameless' <=> Nameless)
  BY <1>1 DEF Naming, Nameless
<1>14. r \in ReceiverState /\ r.mapping = mapping \cup E /\ excused \subseteq r.excused
  <2> HIDE DEF g
  <2>1. r \in ReceiverState /\ r.mapping = g.mapping \cup E /\ g.excused \subseteq r.excused
    BY <1>4, OnRecvExtraBlocksFields
  <2> QED
    BY <1>4, <2>1
<1>15. CASE high = announced
  <2>1. Becomes(r) /\ asked' = asked /\ inFlight' = inFlight
    BY <1>1, <1>15
  <2>2. Naming => Kept(r, O, M \cup E)
    <3> SUFFICES ASSUME Naming PROVE Kept(r, O, M \cup E)
      OBVIOUS
    <3> DEFINE all == Pub
    <3>1. Matched(O, all) /\ E \subseteq all
      BY <1>5, <1>12
    <3> HIDE DEF all, O
    <3>2. Matched(O, E)
      BY <3>1 DEF Matched
    <3> HIDE DEF M, g
    <3> QED
      BY <1>3, <1>4, <1>11, <3>2, OnRecvExtraBlocksKept
  <2>3. Nameless => Kept(r, O, A)
    <3> HIDE DEF O, A, g
    <3> QED
      BY <1>3, <1>4, <1>11, NobodyNaming, OnRecvExtraBlocksKept
  <2> HIDE DEF r
  <2>4. mapping' = M \cup E /\ excused \subseteq excused' /\ 1 .. announced' = A
    BY <1>1, <1>14, <1>15, <2>1 DEF Becomes
  <2>5. RangesGivenUp'
    BY <1>1, <1>3, <2>1, <2>4 DEF RangesGivenUp
  <2>6. AllKept(Receiver)'
    <3> DEFINE K == M \cup E
    <3>1. (Naming => Kept(r, O, K)) /\ mapping' = K
      BY <2>2, <2>4
    <3> HIDE DEF O, K, A
    <3> QED
      BY <1>9, <1>13, <2>1, <2>3, <2>4, <3>1, AllKeptNext
  <2>7. NamesAsked'
    <3> SUFFICES ASSUME Naming, NEW o \in O, o[2] \notin mapping', o[2] \notin excused'
                 PROVE  \E c \in asked' : o[2] \in c[1] .. c[2]
      BY <1>9, <1>13 DEF NamesAsked
    <3>1. o[2] \notin mapping /\ o[2] \notin E /\ o[2] \notin excused
      BY <2>4
    <3>2. ASSUME o \in N PROVE FALSE
      <4>1. sub[o[1]] = "on"
        BY <1>6, <3>2
      <4>2. o[1] \notin ProducerSub
        BY <4>1 DEF Naming
      <4>3. o[2] \in low .. high
        BY <1>8, <3>1, <3>2, <4>2
      <4> QED
        BY <1>2, <1>15, <4>3
    <3>3. o \in Open
      BY <3>2
    <3> QED
      BY <1>3, <2>1, <3>1, <3>3 DEF NamesAsked
  <2>8. old' \subseteq excused'
    BY <1>1, <1>3, <2>4
  <2> QED
    BY <1>10, <2>5, <2>6, <2>7, <2>8 DEF KeptInv
<1>16. CASE high # announced
  <2>1. low \in Nat \ {0} /\ high \in low .. MaxSeq /\ 1 .. low - 1 = 1 .. announced
    BY <1>2, <1>16
  <2>2. Becomes(u) /\ ScheduleMappingFetch(ranges, inFlight, asked)
    BY <1>1, <1>16
  <2>3. s \in ReceiverState /\ s.mapping = mapping \cup E /\ excused \subseteq s.excused
    <3> HIDE DEF r
    <3> QED
      BY <1>14, QueuedKept
  <2>4. u.mapping = mapping \cup E /\ excused \subseteq u.excused
    <3> HIDE DEF s, low
    <3> QED
      BY <2>1, <2>3, UpdateCallbackFields
  <2>5. ASSUME Naming PROVE Kept(u, O, r.mapping) /\ known \subseteq r.mapping
    <3>1. { x \in ProducerSub : sub[x] = "on" } = {}
      BY <2>5 DEF Naming
    <3>2. Kept(g, O, g.mapping)
      BY <1>4, <1>11, <2>5
    <3>3. old \subseteq g.excused /\ Matched(O, Pub)
      BY <1>3, <1>4, <1>12, <2>5
    <3> DEFINE y == r
    <3>4. y = OnRecvExtraBlocks(g, b)
      OBVIOUS
    <3> HIDE DEF O, g, y, low
    <3>5. /\ Kept(UpdateCallback([y EXCEPT !.queued = FALSE], low, high), O, y.mapping)
          /\ KnownPrefix(y, low, high) \subseteq y.mapping
      BY <1>4, <2>1, <3>1, <3>2, <3>3, <3>4, SyncNamesKept
    <3> QED
      BY <3>5 DEF y
  <2>6. ASSUME Nameless PROVE Kept(u, O, 1 .. high)
    <3>1. NameSubs = {}
      BY <2>6, NobodyNaming
    <3>2. \A x \in Sub, p \in low .. high : <<x, p>> \in O => x \in ProducerSub /\ sub[x] = "on"
      <4> SUFFICES ASSUME NEW x \in Sub, NEW p \in low .. high, <<x, p>> \in O
                   PROVE  x \in ProducerSub /\ sub[x] = "on"
        OBVIOUS
      <4>1. sub[x] = "on"
        <5> HIDE DEF N
        <5> QED
          BY <1>6 DEF Open
      <4> QED
        BY <3>1, <4>1 DEF NameSubs
    <3>3. Kept(g, O, 1 .. low - 1)
      BY <1>11, <2>1, <2>6
    <3>4. old \subseteq g.excused
      BY <1>3, <1>4
    <3> DEFINE y == r
    <3>5. y = OnRecvExtraBlocks(g, b)
      OBVIOUS
    <3> HIDE DEF O, g, y, low
    <3>6. Kept(UpdateCallback([y EXCEPT !.queued = FALSE], low, high), O, 1 .. high)
      BY <1>4, <2>1, <3>1, <3>2, <3>3, <3>4, <3>5, SyncProducersKept
    <3> QED
      BY <3>6 DEF y
  <2>7. /\ \A c \in ranges : c \in asked' \/ c[1] .. c[2] \subseteq excused \cup mapping
        /\ inFlight' \ asked' \subseteq inFlight \ asked
        /\ asked \subseteq asked'
    <3> HIDE DEF ranges
    <3> QED
      BY <1>3, <2>2, ScheduleKept
  <2> HIDE DEF u
  <2>8. mapping' = M \cup E /\ excused \subseteq excused'
    BY <2>2, <2>4 DEF Becomes
  <2>9. RangesGivenUp'
    <3>1. suppressed' \cup (inFlight' \ asked') \subseteq suppressed \cup (inFlight \ asked)
      BY <1>1, <2>7
    <3> QED
      BY <1>3, <2>8, <3>1 DEF RangesGivenUp
  <2>10. AllKept(Receiver)'
    <3> DEFINE K == M \cup E
               H == 1 .. high
    <3>1. mapping' = K /\ 1 .. announced' = H
      BY <1>1, <2>8
    <3>2. Naming => Kept(u, O, K)
      BY <1>14, <2>5
    <3>3. Nameless => Kept(u, O, H)
      BY <2>6
    <3> HIDE DEF O, K, H
    <3> QED
      BY <1>9, <1>13, <2>2, <3>1, <3>2, <3>3, AllKeptNext
  <2>11. NamesAsked'
    <3> SUFFICES ASSUME Naming, NEW o \in O, o[2] \notin mapping', o[2] \notin excused'
                 PROVE  \E c \in asked' : o[2] \in c[1] .. c[2]
      BY <1>9, <1>13 DEF NamesAsked
    <3>1. o[2] \notin mapping /\ o[2] \notin E /\ o[2] \notin r.mapping /\ o[2] \notin excused
      BY <1>14, <2>8
    <3>2. CASE o \in Open
      <4>1. \E c \in asked : o[2] \in c[1] .. c[2]
        BY <1>3, <3>1, <3>2 DEF NamesAsked
      <4> QED
        BY <2>7, <4>1
    <3>3. CASE o \in N
      <4> DEFINE p == o[2]
      <4>1. sub[o[1]] = "on" /\ o[1] \in Sub
        BY <1>6, <3>3
      <4>2. o[1] \notin ProducerSub
        BY <4>1 DEF Naming
      <4>3. p \in low .. high
        BY <1>8, <3>1, <3>3, <4>2
      <4>4. NameSubs # {}
        BY <4>1, <4>2 DEF NameSubs
      <4>5. p \in (low .. high) \ known
        <5> HIDE DEF known, r
        <5> QED
          BY <2>5, <3>1, <4>3
      <4>6. ranges = Chunks(Min((low .. high) \ known), high)
        <5> HIDE DEF known
        <5> QED
          BY <4>4, <4>5
      <4> HIDE DEF p, known
      <4>7. low \in Nat
        BY <2>1
      <4> HIDE DEF low
      <4>8. \E c \in Chunks(Min((low .. high) \ known), high) : p \in c[1] .. c[2]
        BY <1>2, <4>5, <4>7, RestCovered
      <4> HIDE DEF ranges
      <4>9. PICK c \in ranges : p \in c[1] .. c[2]
        BY <4>6, <4>8
      <4>10. c \in asked' \/ c[1] .. c[2] \subseteq excused \cup mapping
        BY <2>7
      <4> QED
        BY <3>1, <4>9, <4>10 DEF p
    <3> QED
      BY <3>2, <3>3
  <2>12. old' \subseteq excused'
    BY <1>1, <1>3, <2>8
  <2> QED
    BY <1>10, <2>9, <2>10, <2>11, <2>12 DEF KeptInv
<1> QED
  BY <1>15, <1>16

LEMMA InitKept ==
  ASSUME Init
  PROVE  KeptInv
<1>1. /\ owed = {} /\ mapping = {} /\ old = {} /\ suppressed = {} /\ inFlight = {}
      /\ remembered = <<>> /\ \A p \in Pub : fetch[p] = None /\ collecting[p] = 0
  BY DEF Init
<1>2. Open = {}
  BY <1>1 DEF Open
<1>3. AllKept(Receiver)
  <2> DEFINE g == Receiver
             O == Open
  <2>1. \A p \in Pub : g.fetch[p] = None /\ g.collecting[p] = 0
    BY <1>1, Fields
  <2>2. g.remembered = <<>> /\ O = {}
    BY <1>1, <1>2, Fields
  <2> HIDE DEF g, O
  <2>3. \A p \in Pub : ~Trace(g, p)
    BY <2>1, <2>2 DEF Trace, Range
  <2>4. ASSUME NEW M PROVE Kept(g, O, M)
    BY <2>1, <2>2, <2>3 DEF Kept
  <2>5. Kept(g, O, mapping) /\ Kept(g, O, 1 .. announced)
    BY <2>4
  <2> QED
    BY <2>5 DEF AllKept, g, O
<1>4. NamesAsked
  BY <1>2 DEF NamesAsked
<1> QED
  BY <1>1, <1>3, <1>4 DEF KeptInv, OwedWanted, RangesGivenUp

LEMMA StutterKept ==
  ASSUME KeptInv, UNCHANGED vars
  PROVE  KeptInv'
<1>1. /\ alive' = alive /\ UNCHANGED envVars /\ UNCHANGED mapVars /\ UNCHANGED rcvVars
  BY DEF vars, envVars, mapVars, rcvVars
<1>2. CASE alive
  <2>1. Becomes(Receiver)
    BY <1>1, UnchangedBecomes
  <2>2. Receiver.mapping = mapping /\ excused \subseteq Receiver.excused
    BY Fields
  <2>3. AllKept(Receiver)
    BY <1>2 DEF KeptInv
  <2> DEFINE g == Receiver
  <2> HIDE DEF g
  <2>4. Becomes(g) /\ g.mapping = mapping /\ excused \subseteq g.excused /\ AllKept(g)
    BY <2>1, <2>2, <2>3 DEF g
  <2> QED
    BY <1>1, <1>2, <2>4, PacketStep
<1>3. CASE ~alive
  BY <1>1, <1>3, DeadKept
<1> QED
  BY <1>2, <1>3

LEMMA ProgressKept ==
  ASSUME IInv, KeptInv, NEW p \in Pub, Progress(p)
  PROVE  KeptInv'
<1>1. CASE \E how \in {"data"} \cup MayFail : FetchEnds(p, how)
  <2>1. PICK how \in {"data"} \cup MayFail : FetchEnds(p, how)
    BY <1>1
  <2> QED
    BY <2>1, FetchEndsKept
<1>2. CASE \E ok \in BOOLEAN : InnerChecked(p, ok)
  BY <1>2, InnerCheckedKept
<1>3. CASE \E blocks \in Answers(p), valid \in BOOLEAN : SegmentsArrive(p, blocks, valid)
  BY <1>3, SegmentsArriveKept
<1>4. CASE NextAttemptComes(p)
  BY <1>4, NextAttemptComesKept
<1>5. CASE BackoffEvent(p)
  BY <1>5, BackoffEventKept
<1> QED
  BY <1>1, <1>2, <1>3, <1>4, <1>5 DEF Progress

LEMMA NextKept ==
  ASSUME IInv, KeptInv, Next
  PROVE  KeptInv'
<1>1. CASE \E s \in Sub : Subscribe(s) \/ Unsubscribe(s)
  BY <1>1, SubscribeKept
<1>2. CASE \E high \in announced .. MaxSeq, b \in Blocks : OnSyncInterest(high, b)
  BY <1>2, OnSyncInterestKept
<1>3. CASE \E range \in asked : \E got \in MappingAnswers(range) : OnFetchedNameMappings(range, got)
  BY <1>3, OnFetchedNameMappingsKept
<1>4. CASE \E range \in asked, how \in MayFail : MappingFetchFails(range, how)
  BY <1>4, MappingFetchFailsKept
<1>5. CASE \E range \in suppressed : SuppressionEnds(range)
  BY <1>5, SuppressionEndsKept
<1>6. CASE \E p \in Pub : Progress(p) \/ DeadlinePasses(p) \/ GrowsOld(p)
  <2>1. PICK p \in Pub : Progress(p) \/ DeadlinePasses(p) \/ GrowsOld(p)
    BY <1>6
  <2>2. CASE Progress(p)
    BY <2>2, ProgressKept
  <2>3. CASE DeadlinePasses(p)
    BY <2>3, DeadlinePassesKept
  <2>4. CASE GrowsOld(p)
    BY <2>4, GrowsOldKept
  <2> QED
    BY <2>1, <2>2, <2>3, <2>4
<1>7. CASE Destroy
  BY <1>7, DeadKept DEF Destroy
<1> QED
  BY <1>1, <1>2, <1>3, <1>4, <1>5, <1>6, <1>7 DEF Next

\* The invariant says more than the property: a publication that is entered,
\* or was delivered, or whose name is not known.
LEMMA KeptIsNotLost ==
  ASSUME IInv, KeptInv
  PROVE  NotLost
<1> SUFFICES ASSUME Unmixed, alive, NEW s \in Sub, NEW p \in Pub, <<s, p>> \in owed,
                    sub[s] = "on", ~(given[s][p] > 0), p \notin excused,
                    ~(fetch[p] # None /\ fetch[p].subs[s] > 0)
             PROVE  p \notin mapping /\ \E range \in asked : p \in range[1] .. range[2]
  BY DEF NotLost
<1> DEFINE g == Receiver
           O == Open
           pair == <<s, p>>
<1>1. AllKept(g) /\ OwedWanted /\ NamesAsked
  BY DEF KeptInv
<1>2. pair \in O /\ pair[1] = s /\ pair[2] = p
  BY DEF Open
<1>3. ~Had(g, s, p) /\ ~Entered(g, s, p)
  <2>1. g.given = given /\ g.excused = excused /\ g.fetch = fetch
    BY Fields
  <2> HIDE DEF g
  <2> QED
    BY <2>1 DEF Had, Entered
<1>4. ASSUME NEW M, Kept(g, O, M) PROVE p \notin M
  <2> HIDE DEF g, O
  <2> QED
    BY <1>2, <1>3, <1>4 DEF Kept
<1>5. (Naming => p \notin mapping) /\ (Nameless => p \notin 1 .. announced)
  BY <1>1, <1>4 DEF AllKept
<1>6. Naming
  <2>1. Naming \/ Nameless
    BY Constants DEF Unmixed, Naming, Nameless
  <2>2. ASSUME Nameless PROVE FALSE
    <3>1. s \in ProducerSub
      BY <2>2 DEF Nameless
    <3>2. pair \in owed
      OBVIOUS
    <3>3. p \in 1 .. announced
      BY <1>1, <1>2, <3>1, <3>2 DEF OwedWanted
    <3> QED
      BY <1>5, <2>2, <3>3
  <2> QED
    BY <2>1, <2>2
<1>7. \E range \in asked : pair[2] \in range[1] .. range[2]
  BY <1>1, <1>2, <1>5, <1>6 DEF NamesAsked
<1> QED
  BY <1>2, <1>5, <1>6, <1>7

\* What a subscription was made for, and was named or reported, is not lost,
\* in whatever order Sync Interests, packets, answers to mapping queries,
\* failures and events of the scheduler come: it has been delivered or given
\* up after a failure, or it is being fetched for that subscription, or its
\* name is being asked for.  This is for applications that do not mix the two
\* kinds of subscription.
THEOREM NothingIsLost == Spec => []NotLost
<1>1. Init => KeptInv
  BY InitKept
<1>2. IInv /\ KeptInv /\ [Next]_vars => KeptInv'
  BY NextKept, StutterKept
<1>3. IInv /\ KeptInv => NotLost
  BY KeptIsNotLost
<1> QED
  BY <1>1, <1>2, <1>3, PubSubInvariance, PTL DEF Spec
================================================================================
