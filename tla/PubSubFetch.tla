------------------------------ MODULE PubSubFetch ------------------------------
(***************************************************************************)
(* The receiving side of SVSPubSub (ndn-svs/svspubsub.cpp): subscriptions, *)
(* the update callback, names of publications (mappings) that arrive in    *)
(* Sync Interests or are asked for, the scheduler that fetches             *)
(* publications, packets carried by Sync Interests, and delivery.          *)
(*                                                                         *)
(* Publications are the numbers of one stream.  Everything runs on the     *)
(* Face thread, so a handler is one action.  A handler is written as an    *)
(* operator on the receiver state r (see Receiver).  Times are left out:   *)
(* what is due happens at any later time.                                  *)
(***************************************************************************)
EXTENDS SegmentAssembly, FiniteSets, FiniteSetsExt

CONSTANTS
  MaxSeq,          \* bound: the publications are 1 .. MaxSeq
  MaxRounds,       \* bound: Sync Interests received
  MaxFaults,       \* bound: failures
  Sub,             \* the subscriptions the application may make
  ProducerSub,     \* those made with subscribeToProducer
  PacketSub,       \* those for Data packets instead of BLOBs
  NameOnlySub,     \* those made with subscribeWithRegex(.., autofetch = false)
  matching,        \* per subscription: the publications its prefix or regex matches
  StartingSubs,    \* sets of subscriptions made before anything arrives
  LateSub,         \* subscriptions that may be made at any time
  Segmented,       \* publications of several segments
  SegmentCount,    \* how many
  Extends,         \* pairs of publications: the second one's name extends the first's
  Blocks,          \* what the extra blocks of a Sync Interest may carry
  Windows,         \* values of publicationFetchWindow, at least 1
  Retries,         \* publicationFetchRetries, or -1
  ChunkSize,       \* numbers asked for by one mapping query (11 in the code)
  CacheLimit,      \* m_piggyDataCacheLimit, in entries
  DeliveredLimit,  \* m_piggyDeliveredPublicationLimit
  HasInnerValidator,  \* encapsulatedDataValidator is set
  MayFail,         \* what may go wrong: see AnyFailure
  None             \* no entry in m_fetchMap

AnyFailure == {"timeout", "plain", "undecodable", "invalid", "inner", "mapping",
               "deadline", "age"}

Pub == 1 .. MaxSeq

\* Callbacks and subscriptions are counted as none, one or many.
Many == 2
Upto(n) == IF n > Many THEN Many ELSE n

\* An entry of m_fetchMap with its PublicationFetchState: how often each
\* subscription is in it, and whether its deadline has passed.  "ready" is
\* Queued, or Backoff when nextAttempt has passed.
Entry == [subs : [Sub -> 0 .. Many], status : {"ready", "fetching", "backoff", "delivered"},
          attempts : Nat, late : BOOLEAN]

ASSUME PubSubAssumption ==
  /\ MaxSeq \in Nat /\ MaxRounds \in Nat /\ MaxFaults \in Nat
  /\ Retries \in Nat \cup {-1}
  /\ ProducerSub \cup PacketSub \cup NameOnlySub \cup LateSub \subseteq Sub
  /\ matching \in [Sub -> SUBSET Pub] /\ StartingSubs \subseteq SUBSET Sub
  /\ Segmented \subseteq Pub /\ SegmentCount \in Nat \ {0, 1}
  /\ Extends \subseteq Pub \X Pub
  /\ Windows \subseteq Nat \ {0} /\ ChunkSize \in Nat \ {0}
  /\ CacheLimit \in Nat /\ DeliveredLimit \in Nat
  /\ HasInnerValidator \in BOOLEAN /\ MayFail \subseteq AnyFailure
  /\ None \notin Entry /\ None \notin Pub
  /\ \A b \in Blocks : /\ b.notified \cup b.repeated \cup b.data \subseteq Pub
                       /\ b.data \cap Segmented = {}   \* prepareReservedBytes

VARIABLES
  window,      \* publicationFetchWindow
  sub,         \* per subscription: "new", "on" or "off" (unsubscribed)
  alive,       \* m_asyncPublishAlive
  rounds,      \* Sync Interests received, for the bound
  faults,      \* failures, for the bound
  announced,   \* the highest number the core has reported
  old,         \* publications older than maxPubAge
  mapping,     \* MappingProvider::m_map: the publications whose name is known
  cache,       \* m_piggyDataCacheOrder: pairs of publication and kind of name
  remembered,  \* m_piggyDeliveredPublicationOrder
  fetch,       \* m_fetchMap and m_publicationFetchStates
  requests,    \* per publication: fetches the Fetcher has not ended
  checking,    \* per publication: first packets in the inner validator
  collecting,  \* per publication: SegmentFetchers and the checks of their packets
  timers,      \* per publication: backoff events in the scheduler
  inFlight,    \* m_mappingFetchInFlight
  asked,       \* mapping queries the Fetcher has not ended
  suppressed,  \* m_mappingFetchSuppressUntil, in the future
  given,       \* history: how often a callback got a publication, up to Many
  wrong,       \* history: publications delivered with another one's content
  owed,        \* history: subscriptions there were when a publication was named or reported
  excused      \* history: publications given up because something failed

envVars == <<window, sub, alive, rounds, announced, old, owed>>
mapVars == <<inFlight, asked, suppressed>>
rcvVars == <<mapping, cache, remembered, fetch, requests, checking, collecting,
             timers, given, wrong, excused>>
vars == <<window, sub, alive, rounds, faults, announced, old, owed, inFlight, asked,
          suppressed, mapping, cache, remembered, fetch, requests, checking, collecting,
          timers, given, wrong, excused>>

\* The state the handlers work on.  queued is processMapping's return value.
Receiver ==
  [mapping |-> mapping, cache |-> cache, remembered |-> remembered, fetch |-> fetch,
   requests |-> requests, checking |-> checking, collecting |-> collecting,
   timers |-> timers, given |-> given, wrong |-> wrong, excused |-> excused,
   queued |-> FALSE]

Becomes(r) ==
  /\ mapping' = r.mapping /\ cache' = r.cache /\ remembered' = r.remembered
  /\ fetch' = r.fetch /\ requests' = r.requests /\ checking' = r.checking
  /\ collecting' = r.collecting /\ timers' = r.timers
  /\ given' = r.given /\ wrong' = r.wrong /\ excused' = r.excused

Init ==
  /\ window \in Windows
  /\ \E start \in StartingSubs : sub = [s \in Sub |-> IF s \in start THEN "on" ELSE "new"]
  /\ alive = TRUE /\ rounds = 0 /\ faults = 0 /\ announced = 0 /\ old = {}
  /\ mapping = {} /\ cache = <<>> /\ remembered = <<>>
  /\ fetch = [p \in Pub |-> None]
  /\ requests = [p \in Pub |-> 0] /\ checking = [p \in Pub |-> 0]
  /\ collecting = [p \in Pub |-> 0]
  /\ timers = [p \in Pub |-> 0] /\ inFlight = {} /\ asked = {} /\ suppressed = {}
  /\ given = [s \in Sub |-> [p \in Pub |-> 0]] /\ wrong = {}
  /\ owed = {} /\ excused = {}

--------------------------------------------------------------------------------
(***************************************************************************)
(* Caches and delivery                                                     *)
(***************************************************************************)

\* Faulty variant: one key more than the limit.
RememberOneMore(keys, key, limit) ==
  LET all == IF key \in Range(keys) THEN keys ELSE Append(keys, key)
  IN  IF Len(all) > limit + 1 THEN Tail(all) ELSE all

\* A map with a queue of its keys: a new key goes to the end, and the oldest
\* ones leave when there are more than limit.
Remember(keys, key, limit) ==
  LET all == IF key \in Range(keys) THEN keys ELSE Append(keys, key)
  IN  IF Len(all) > limit THEN SubSeq(all, Len(all) - limit + 1, Len(all)) ELSE all

\* The publication whose packet a lookup in m_piggyDataCache returns for p's
\* name: the packet of that name, or the first one whose name extends it.
CacheHits(r, p) ==
  LET cached == { key[1] : key \in Range(r.cache) }
  IN  IF p \in cached THEN {p} ELSE { q \in cached : <<p, q>> \in Extends }

CacheHit(r, p) == IF CacheHits(r, p) = {} THEN None ELSE Min(CacheHits(r, p))

SetEntry(r, p, entry) == [r EXCEPT !.fetch = [@ EXCEPT ![p] = entry]]

Add(count, p, n) == [count EXCEPT ![p] = @ + n]

\* Faulty variant: a failed cleanup.
KeepEntry(r, p) == r

\* cleanUpFetch
CleanUpFetch(r, p) == SetEntry(r, p, None)

\* cleanUpFetch after a failure
GiveUp(r, p) == [CleanUpFetch(r, p) EXCEPT !.excused = @ \cup {p}]

\* The callbacks of publication p, copies[s] times for s, with q's content.
Deliver(r, p, copies, q) ==
  LET told == [r EXCEPT !.given =
                 [s \in Sub |-> [r.given[s] EXCEPT ![p] = Upto(@ + copies[s])]]]
  IN  [told EXCEPT !.wrong = IF q = p THEN @ ELSE @ \cup {p}]

Those(copies, who) == [s \in Sub |-> IF s \in who THEN copies[s] ELSE 0]

Once(who) == [s \in Sub |-> IF s \in who THEN 1 ELSE 0]

\* rememberPiggyDeliveredPublication
RememberPiggyDelivered(r, p) ==
  [r EXCEPT !.remembered = Remember(@, p, DeliveredLimit)]

\* The packet of q from a Sync Interest ends the pending fetch of p.
EndFetchWith(r, p, q) ==
  CleanUpFetch(RememberPiggyDelivered(Deliver(r, p, r.fetch[p].subs, q), p), p)

\* satisfyPendingFetchFromPiggyData: the packet of q ends a pending fetch.
SatisfyPendingFetch(r, q) ==
  IF r.fetch[q] # None /\ q \in r.mapping THEN EndFetchWith(r, q, q) ELSE r

\* A packet in an extra block; it is cached under its name and its full name.
ReceivePacket(r, q) ==
  LET s == SatisfyPendingFetch(r, q)
  IN  [s EXCEPT !.cache = Remember(Remember(@, <<q, "name">>, CacheLimit),
                                   <<q, "full">>, CacheLimit)]

--------------------------------------------------------------------------------
(***************************************************************************)
(* The fetch scheduler                                                     *)
(***************************************************************************)

NewEntry(copies) == [subs |-> copies, status |-> "ready", attempts |-> 0, late |-> FALSE]

\* addPublicationFetch, once for each subscription in who
AddPublicationFetch(r, p, who) ==
  IF who = {} THEN r
  ELSE IF r.fetch[p] = None THEN SetEntry(r, p, NewEntry(Once(who)))
  ELSE SetEntry(r, p, [r.fetch[p] EXCEPT !.subs = [s \in Sub |-> Upto(@[s] + Once(who)[s])]])

\* Publications are tried in this order: fewer attempts, then newer.
Before(r, q, p) ==
  LET a == r.fetch[q].attempts
      b == r.fetch[p].attempts
  IN  a < b \/ (a = b /\ q > p)

Fetching(r) == { p \in Pub : r.fetch[p] # None /\ r.fetch[p].status = "fetching" }

\* The elements of S, sorted: rank[p] is the number of those before p.
Sorted(S, rank) == [i \in 1 .. Cardinality(S) |-> CHOOSE p \in S : rank[p] = i - 1]

FetchOrder(r, ready) ==
  Sorted(ready, [p \in ready |-> Cardinality({ q \in ready : Before(r, q, p) })])

\* One turn of the loop of fetchAll: until the window is full, what the cache
\* has is delivered and the other publications are requested.
FetchTurn(r, p) ==
  LET entry == r.fetch[p]
      hit   == IF p \in r.mapping THEN CacheHit(r, p) ELSE None
  IN  IF \/ Cardinality(Fetching(r)) >= window
         \/ entry = None \/ entry.status \in {"fetching", "backoff"}
      THEN r
      ELSE IF hit # None
      THEN EndFetchWith(r, p, hit)
      ELSE [SetEntry(r, p, [entry EXCEPT !.status = "fetching", !.attempts = @ + 1])
              EXCEPT !.requests = Add(@, p, 1)]

FetchReady(r, ready) == FoldLeft(FetchTurn, r, FetchOrder(r, ready))

\* fetchAll: entries past their deadline go first.
FetchAll(r) ==
  LET waiting == { p \in Pub : r.fetch[p] # None /\ r.fetch[p].status \in {"ready", "backoff"} }
      expired == { p \in waiting : r.fetch[p].late }
      ready   == { p \in waiting \ expired : r.fetch[p].status = "ready" }
      kept    == [r EXCEPT !.fetch = [p \in Pub |-> IF p \in expired THEN None ELSE @[p]],
                           !.excused = @ \cup expired]
  IN  FetchReady(kept, ready)

SetStatus(r, p, status) == SetEntry(r, p, [r.fetch[p] EXCEPT !.status = status])

\* Faulty variant: a failed fetch is not tried again.
MarkFailedForGood(r, p) ==
  IF r.fetch[p] = None THEN r ELSE SetStatus(r, p, "backoff")

\* markPublicationFetchFailed
MarkPublicationFetchFailed(r, p) ==
  LET exhausted == Retries >= 0 /\ r.fetch[p].attempts > Retries
  IN  IF r.fetch[p] = None THEN r
      ELSE IF exhausted \/ r.fetch[p].late THEN GiveUp(r, p)
      ELSE [SetStatus(r, p, "backoff") EXCEPT !.timers = Add(@, p, 1)]

--------------------------------------------------------------------------------
(***************************************************************************)
(* Mappings                                                                *)
(***************************************************************************)

\* MappingProvider::fetchNameMapping, when the answer is valid
FetchNameMapping(r, got) == [r EXCEPT !.mapping = @ \cup got]

NameSubs == { s \in Sub \ ProducerSub : sub[s] = "on" }

\* processMapping, for a publication whose name is known
ProcessMapping(r, p) ==
  LET matched == { s \in NameSubs : p \in matching[s] }
      fetchers == matched \ NameOnlySub
      told == Deliver(r, p, Once(matched \cap NameOnlySub), p)
  IN  IF p \in Range(r.remembered) \/ p \in old THEN r
      ELSE IF fetchers = {} THEN told
      ELSE IF CacheHit(r, p) # None
      THEN RememberPiggyDelivered(Deliver(told, p, Once(fetchers), CacheHit(r, p)), p)
      ELSE [AddPublicationFetch(told, p, fetchers) EXCEPT !.queued = TRUE]

FetchIfQueued(r) == IF r.queued THEN FetchAll(r) ELSE r

InOrder(numbers) ==
  Sorted(numbers, [p \in numbers |-> Cardinality({ q \in numbers : q < p })])

\* MappingList::encode reverses a list; the queues are walked from their end.
NewestFirst(numbers) == Reverse(InOrder(numbers))

\* onRecvExtraBlocks and onRecvExtraData: the names of the notification list,
\* then the repeated names and packets; the names are looked at when
\* everything is stored.
OnRecvExtraBlocks(r, b) ==
  LET named  == [r EXCEPT !.mapping = @ \cup b.notified \cup b.repeated]
      stored == FoldLeft(ReceivePacket, named, NewestFirst(b.data))
      names  == NewestFirst(b.notified) \o NewestFirst(b.repeated)
  IN  FetchIfQueued(FoldLeft(ProcessMapping, stored, names))

\* The mapping queries for low .. high
Chunks(low, high) ==
  { <<a, IF a + ChunkSize - 1 < high THEN a + ChunkSize - 1 ELSE high>> :
      a \in { n \in low .. high : (n - low) % ChunkSize = 0 } }

\* Faulty variant: the last number of the range is left out.
MissingBelow(low, high, got) == { <<n, n>> : n \in (low .. high - 1) \ got }

\* The parts of low .. high the answer to a mapping query did not cover
MissingRanges(low, high, got) ==
  { range \in (low .. high) \X (low .. high) :
      /\ range[1] <= range[2]
      /\ (range[1] .. range[2]) \cap got = {}
      /\ range[1] = low \/ range[1] - 1 \in got
      /\ range[2] = high \/ range[2] + 1 \in got }

\* scheduleMappingFetch for each of the ranges: not when the same range is in
\* flight or was asked for in vain a moment ago.
ScheduleMappingFetch(ranges, flying, waiting) ==
  LET new == { q \in ranges : q \notin flying /\ q \notin suppressed }
  IN  /\ inFlight' = flying \cup new
      /\ asked' = waiting \cup new

\* The numbers up to the first one whose name is not known
KnownPrefix(r, low, high) ==
  { p \in low .. high :
      \A q \in low .. p : q \in r.mapping \/ q \in Range(r.remembered) }

\* updateCallbackInternal, its part on the receiver state: producer
\* subscriptions, then the names that are known already, then fetchAll.  The
\* request of a prefetching subscription has no effect on this state.
UpdateCallback(r, low, high) ==
  LET producers == { s \in ProducerSub : sub[s] = "on" }
      wanted == [r EXCEPT !.fetch = [p \in Pub |->
                   IF p \in low .. high THEN AddPublicationFetch(r, p, producers).fetch[p]
                   ELSE @[p]]]
      known == IF NameSubs = {} THEN {} ELSE KnownPrefix(r, low, high)
  IN  FetchAll(FoldLeft(ProcessMapping, wanted, InOrder(known)))

--------------------------------------------------------------------------------
(***************************************************************************)
(* Actions                                                                 *)
(***************************************************************************)

\* Counts what goes wrong.
Faultless(ok) ==
  IF ok THEN UNCHANGED faults ELSE faults < MaxFaults /\ faults' = faults + 1

\* subscribe, subscribeWithRegex, subscribeToProducer
Subscribe(s) ==
  /\ alive /\ s \in LateSub /\ sub[s] = "new"
  /\ sub' = [sub EXCEPT ![s] = "on"]
  /\ UNCHANGED <<window, alive, rounds, faults, announced, old, owed, mapVars, rcvVars>>

\* unsubscribe: entries of m_fetchMap keep their copy of the subscription
Unsubscribe(s) ==
  /\ alive /\ s \in LateSub /\ sub[s] = "on"
  /\ sub' = [sub EXCEPT ![s] = "off"]
  /\ UNCHANGED <<window, alive, rounds, faults, announced, old, owed, mapVars, rcvVars>>

\* Who has to get publication p: a subscription to the producer, if p is reported
\* now, and one to names, if p is named or reported for the first time
Wants(p, high, b) ==
  LET reported == p \in announced + 1 .. high
      new == /\ p > announced /\ p \notin mapping
             /\ reported \/ p \in b.notified \cup b.repeated
  IN  { s \in Sub : /\ sub[s] = "on"
                    /\ IF s \in ProducerSub THEN reported ELSE new /\ p \in matching[s] }

\* A Sync Interest, as the core hands it on: first the extra blocks, then, if
\* there are new numbers, the update callback.  Its blocks may name publications
\* that the state vector does not advertise yet (see ExtraBlocks).
OnSyncInterest(high, b) ==
  /\ alive /\ rounds < MaxRounds /\ high \in announced .. MaxSeq
  /\ LET low == announced + 1
         r == OnRecvExtraBlocks(Receiver, b)
         s == [r EXCEPT !.queued = FALSE]
         rest == IF NameSubs = {} THEN {} ELSE (low .. high) \ KnownPrefix(r, low, high)
     IN  IF high = announced
         THEN Becomes(r) /\ UNCHANGED <<inFlight, asked>>
         ELSE /\ Becomes(UpdateCallback(s, low, high))
              /\ ScheduleMappingFetch(IF rest = {} THEN {} ELSE Chunks(Min(rest), high),
                                      inFlight, asked)
  /\ announced' = high /\ rounds' = rounds + 1
  /\ owed' = owed \cup { o \in Sub \X Pub : o[1] \in Wants(o[2], high, b) }
  /\ UNCHANGED <<window, sub, alive, faults, old, suppressed>>

\* onMappingQuery at the producer: it returns the names it has of the range,
\* whichever these are, and does not answer when it has none.
MappingAnswers(range) == (SUBSET (range[1] .. range[2])) \ {{}}

\* The answer to a mapping query: the handler of fetchNameMapping enters the
\* names, then markMappingFetchComplete and onFetchedNameMappings.
OnFetchedNameMappings(range, got) ==
  /\ alive /\ range \in asked /\ got \in MappingAnswers(range)
  /\ LET named == FetchNameMapping(Receiver, got)
     IN  Becomes(FetchIfQueued(FoldLeft(ProcessMapping, named, NewestFirst(got))))
  /\ ScheduleMappingFetch(MissingRanges(range[1], range[2], got),
                          inFlight \ {range}, asked \ {range})
  /\ UNCHANGED <<envVars, faults, suppressed>>

\* markMappingFetchFailed
MarkMappingFetchFailed(range) ==
  /\ inFlight' = inFlight \ {range}
  /\ suppressed' = suppressed \cup {range}

\* The query ends without names: it times out or is Nacked, or its answer is
\* refused ("invalid"), of which nobody is told.  Nothing asks again by itself.
MappingFetchFails(range, how) ==
  /\ alive /\ how \in {"mapping", "invalid"} \cap MayFail /\ range \in asked
  /\ Faultless(FALSE)
  /\ asked' = asked \ {range}
  /\ IF how = "mapping" THEN MarkMappingFetchFailed(range)
     ELSE UNCHANGED <<inFlight, suppressed>>
  /\ excused' = excused \cup ((range[1] .. range[2]) \ mapping)
  /\ UNCHANGED <<envVars, mapping, cache, remembered, fetch, requests, checking,
                 collecting, timers, given, wrong>>

\* mappingFetchFailureBackoff has passed
SuppressionEnds(range) ==
  /\ alive /\ range \in suppressed
  /\ suppressed' = suppressed \ {range}
  /\ UNCHANGED <<envVars, faults, inFlight, asked, rcvVars>>

\* returnData: the first packet is valid
ReturnData(r, p) ==
  LET copies == r.fetch[p].subs
      blob == { s \in Sub \ PacketSub : copies[s] > 0 }
      now == IF p \in Segmented THEN Deliver(r, p, Those(copies, PacketSub), p)
             ELSE Deliver(r, p, copies, p)
  IN  IF r.fetch[p] = None THEN r
      ELSE IF p \in Segmented /\ blob # {}
      THEN [now EXCEPT !.collecting = Add(@, p, 1)]
      ELSE CleanUpFetch(now, p)

Ended(p) == [Receiver EXCEPT !.requests = Add(@, p, -1)]

\* observePublicationFetchSuccess
Observed(r, p) == IF r.fetch[p] = None THEN r ELSE SetStatus(r, p, "delivered")

\* onSyncData, with a packet that holds another one
OnSyncData(p) ==
  LET r == Observed(Ended(p), p)
  IN  IF HasInnerValidator THEN [r EXCEPT !.checking = Add(@, p, 1)] ELSE ReturnData(r, p)

\* The Fetcher ends a fetch (Fetcher.tla: each request ends once).  Of a
\* packet that the Fetcher's validator refuses nobody is told.
FetchEnds(p, how) ==
  /\ alive /\ requests[p] > 0
  /\ how \in {"data"} \cup ({"timeout", "plain", "undecodable", "invalid"} \cap MayFail)
  /\ Faultless(how = "data")
  /\ Becomes(CASE how = "data" -> OnSyncData(p)
               [] how \in {"timeout", "plain"} -> MarkPublicationFetchFailed(Ended(p), p)
               [] how = "undecodable" -> GiveUp(Observed(Ended(p), p), p)
               [] how = "invalid" -> Ended(p))
  /\ UNCHANGED <<envVars, mapVars>>

\* Faulty variant: the flag m_asyncPublishAlive is not looked at.
InnerCheckedUnfenced(p, ok) ==
  /\ checking[p] > 0 /\ ok
  /\ Becomes(ReturnData([Receiver EXCEPT !.checking = Add(@, p, -1)], p))
  /\ UNCHANGED <<envVars, faults, mapVars>>

\* encapsulatedDataValidator answers
InnerChecked(p, ok) ==
  /\ checking[p] > 0 /\ (ok \/ "inner" \in MayFail)
  /\ Faultless(ok)
  /\ LET r == [Receiver EXCEPT !.checking = Add(@, p, -1)]
     IN  Becomes(IF ~alive THEN r ELSE IF ok THEN ReturnData(r, p) ELSE GiveUp(r, p))
  /\ UNCHANGED <<envVars, mapVars>>

\* The packets a SegmentFetcher may come back with: all of them, in either
\* order, some of them, with one in the place of another, a malformed one or
\* one of another publication; or none, when it reports an error.  Not among
\* them is a complete set of another publication's packets: only the producer
\* itself could sign that under the outer names of p, and decodeInnerSegments,
\* which compares the packets with each other only, would take it.
Answers(p) ==
  LET whole == Segments(p, SegmentCount)
      other == Range(whole) \cup {Segment(0, 1, 1), Malformed(p)}
  IN  {<<>>, Tail(whole), Reverse(whole)}
        \cup { [whole EXCEPT ![i] = block] : i \in DOMAIN whole, block \in other }

\* finishOne, when the last packet is checked and none failed
DeliverBlob(r, p) == Deliver(r, p, Those(r.fetch[p].subs, Sub \ PacketSub), p)

\* The SegmentFetcher completes or fails (blocks = <<>>) and, with a
\* validator, all packets are checked; valid: none of them failed.
SegmentsArrive(p, blocks, valid) ==
  /\ collecting[p] > 0 /\ (valid \/ (HasInnerValidator /\ "inner" \in MayFail))
  /\ Faultless(valid /\ Range(blocks) = Range(Segments(p, SegmentCount)))
  /\ LET r == [Receiver EXCEPT !.collecting = Add(@, p, -1)]
         payload == DecodeInnerSegments(blocks)
         other == IF payload = Segments(p, SegmentCount) THEN p ELSE None
     IN  Becomes(
           IF ~alive THEN r
           ELSE IF payload = NoAssembly \/ ~valid THEN GiveUp(r, p)
           ELSE IF r.fetch[p] = None THEN r
           ELSE CleanUpFetch([DeliverBlob(r, p) EXCEPT
                                !.wrong = IF other = p THEN @ ELSE @ \cup {p}], p))
  /\ UNCHANGED <<envVars, mapVars>>

\* Time passes: nextAttempt of a publication in backoff
NextAttemptComes(p) ==
  /\ alive /\ fetch[p] # None /\ fetch[p].status = "backoff"
  /\ fetch' = SetStatus(Receiver, p, "ready").fetch
  /\ UNCHANGED <<envVars, faults, mapVars, mapping, cache, remembered, requests, checking,
                 collecting, timers, given, wrong, excused>>

\* The scheduler runs a backoff event.  The one of an entry in backoff is not
\* due; there may be others, of earlier entries for p.
BackoffEvent(p) ==
  /\ alive /\ timers[p] > (IF fetch[p] # None /\ fetch[p].status = "backoff" THEN 1 ELSE 0)
  /\ Becomes(FetchAll([Receiver EXCEPT !.timers = Add(@, p, -1)]))
  /\ UNCHANGED <<envVars, faults, mapVars>>

\* Time passes: the deadline of a fetch, and maxPubAge of a publication
DeadlinePasses(p) ==
  /\ alive /\ "deadline" \in MayFail
  /\ fetch[p] # None /\ ~fetch[p].late /\ Faultless(FALSE)
  /\ fetch' = SetEntry(Receiver, p, [fetch[p] EXCEPT !.late = TRUE]).fetch
  /\ UNCHANGED <<envVars, mapVars, mapping, cache, remembered, requests, checking,
                 collecting, timers, given, wrong, excused>>

GrowsOld(p) ==
  /\ alive /\ "age" \in MayFail /\ p \notin old /\ Faultless(FALSE)
  /\ old' = old \cup {p}
  /\ excused' = excused \cup {p}
  /\ UNCHANGED <<window, sub, alive, rounds, announced, owed, mapVars, mapping, cache, remembered,
                 fetch, requests, checking, collecting, timers, given, wrong>>

\* ~SVSPubSub: both Fetchers and the scheduler go with the object; inner
\* validators and SegmentFetchers still answer.
Destroy ==
  /\ alive /\ alive' = FALSE
  /\ requests' = [p \in Pub |-> 0] /\ timers' = [p \in Pub |-> 0] /\ asked' = {}
  /\ UNCHANGED <<window, sub, rounds, faults, announced, old, owed, inFlight, suppressed, mapping, cache,
                 remembered, fetch, checking, collecting, given, wrong, excused>>

\* Something the network or a validator owes comes.
Progress(p) ==
  \/ \E how \in {"data"} \cup MayFail : FetchEnds(p, how)
  \/ \E ok \in BOOLEAN : InnerChecked(p, ok)
  \/ \E blocks \in Answers(p), valid \in BOOLEAN : SegmentsArrive(p, blocks, valid)
  \/ NextAttemptComes(p)
  \/ BackoffEvent(p)

Next ==
  \/ \E s \in Sub : Subscribe(s) \/ Unsubscribe(s)
  \/ \E high \in announced .. MaxSeq, b \in Blocks : OnSyncInterest(high, b)
  \/ \E range \in asked : \E got \in MappingAnswers(range) : OnFetchedNameMappings(range, got)
  \/ \E range \in asked, how \in MayFail : MappingFetchFails(range, how)
  \/ \E range \in suppressed : SuppressionEnds(range)
  \/ \E p \in Pub : Progress(p) \/ DeadlinePasses(p) \/ GrowsOld(p)
  \/ Destroy

Spec == Init /\ [][Next]_vars

\* Each request ends, validators and SegmentFetchers answer, and scheduled
\* events run.  No fairness is assumed of Sync Interests.
Fairness == WF_vars(\E p \in Pub : Progress(p))

FairSpec == Spec /\ Fairness

--------------------------------------------------------------------------------
(***************************************************************************)
(* Properties                                                              *)
(***************************************************************************)

\* Type correctness; in particular the caches keep to their limits.
TypeOK ==
  /\ window \in Windows /\ alive \in BOOLEAN /\ announced \in 0 .. MaxSeq
  /\ rounds \in 0 .. MaxRounds /\ faults \in 0 .. MaxFaults
  /\ sub \in [Sub -> {"new", "on", "off"}]
  /\ old \cup mapping \cup wrong \cup excused \subseteq Pub
  /\ cache \in Seq(Pub \X {"name", "full"}) /\ Len(cache) <= CacheLimit
  /\ remembered \in Seq(Pub) /\ Len(remembered) <= DeliveredLimit
  /\ fetch \in [Pub -> Entry \cup {None}]
  /\ requests \in [Pub -> Nat] /\ checking \in [Pub -> Nat]
  /\ collecting \in [Pub -> Nat] /\ timers \in [Pub -> Nat]
  /\ inFlight \cup asked \cup suppressed \subseteq Pub \X Pub
  /\ given \in [Sub -> [Pub -> 0 .. Many]]
  /\ owed \subseteq Sub \X Pub

\* Nobody waits for nothing: an entry in status Fetching has a request, one in
\* Backoff its event, one in Delivered a check or a SegmentFetcher under way,
\* and one that is due an event, if there is room for all in the window; each
\* range in m_mappingFetchInFlight has a query.
NoLeak ==
  alive =>
    /\ inFlight = asked
    /\ Cardinality(Fetching(Receiver)) <= window
    /\ \A p \in Pub : fetch[p] # None =>
         CASE fetch[p].status = "fetching"  -> requests[p] > 0
           [] fetch[p].status = "backoff"   -> timers[p] > 0
           [] fetch[p].status = "delivered" -> checking[p] + collecting[p] > 0
           [] OTHER -> window >= MaxSeq => timers[p] > 0

\* A subscription to a producer gets each publication at most once, however
\* its packets arrive: by a fetch, by a retry of it, in a Sync Interest before
\* or after its number is reported.  (Subscriptions to names may get it again
\* each time its name comes again: processMapping enters them anew.)
ProducerAtMostOnce == \A s \in ProducerSub, p \in Pub : given[s][p] <= 1

\* Only subscriptions to a producer, or only subscriptions to names
Unmixed == \E kind \in {ProducerSub, Sub \ ProducerSub} : \A s \in kind : sub[s] = "new"

\* What a subscription was made for, and was named by an Interest or reported by
\* the core, is not lost: it has been delivered, or is being fetched for that subscription, or
\* its name is being asked for, or something failed that the code gives up on
\* (no answer within the retries or the deadline, packets that do not check,
\* a mapping query without answer, maxPubAge).
NotLost ==
  Unmixed /\ alive =>
    \A s \in Sub, p \in Pub : <<s, p>> \in owed =>
      \/ sub[s] # "on"
      \/ given[s][p] > 0
      \/ p \in excused
      \/ fetch[p] # None /\ fetch[p].subs[s] > 0
      \/ p \notin mapping /\ \E range \in asked : p \in range[1] .. range[2]

\* A callback gets the content of the publication it is told of, whole.
ContentRight == wrong = {}

\* No callback runs once the object is destroyed, though validators and
\* SegmentFetchers answer later (m_asyncPublishAlive).
SilentAfterDestruction == [][~alive => given' = given]_vars

\* Each fetch comes to an end: the publication is delivered or given up.
EveryFetchEnds == \A p \in Pub : fetch[p] # None ~> (fetch[p] = None \/ ~alive)
================================================================================
