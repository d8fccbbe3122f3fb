---------------------------- MODULE PublishPipeline ----------------------------
(***************************************************************************)
(* How SVSPubSub (ndn-svs/svspubsub.cpp) turns calls of the application    *)
(* into advertised sequence numbers of one node prefix, and how SVSyncBase *)
(* (ndn-svs/svsync-base.cpp) stores their packets.                         *)
(*                                                                         *)
(* publishAsync runs on any thread: it reserves a number, stores the       *)
(* packets and posts the rest to the Face thread, which installs the       *)
(* mapping and advertises in sequence order, retrying a commit that threw. *)
(* publish and publishPacket do everything at once on the Face thread.     *)
(* Both share m_reservedSeqNo, m_nextAsyncCommitSeq and the DataStore.     *)
(***************************************************************************)
EXTENDS Integers, Sequences, FiniteSets

CONSTANTS
  Calls,        \* the kinds of calls the application makes, of AnyCall
  MayThrow,     \* the operations that may throw, of AnyThrow
  MaxPackets,   \* bound: packets of a segmented publication
  MaxSeq        \* bound: sequence numbers given out

AnyCall  == {"async", "bytes", "name", "packet"}
AnyThrow == {"sign", "insert", "erase", "mapping", "queue", "hook"}
  \* signing or encoding; DataStore::insert and erase; insertMapping, before
  \* the MappingProvider has the entry; the push to m_piggyDataQueue after it;
  \* m_preparedPublicationCommitHook, which runs before a commit

ASSUME PipelineAssumption ==
  /\ Calls \subseteq AnyCall /\ MayThrow \subseteq AnyThrow
  /\ MaxPackets \in Nat \ {0} /\ MaxSeq \in Nat

VARIABLES
  core,      \* SVSyncCore::getSeqNo: the advertised sequence number
  reserved,  \* m_reservedSeqNo
  next,      \* m_nextAsyncCommitSeq; 0 when it has no entry
  staged,    \* m_stagedPublicationPackets
  posted,    \* closures of prepareAndStageAsyncPublication in the io_context
  prepared,  \* m_preparedPublications
  store,     \* the DataStore: the packets it holds
  mapped,    \* MappingProvider: the numbers that have a mapping
  alive,     \* m_asyncPublishAlive
  size,      \* history: how many packets the publication of a number has
  reused     \* history: some number was given to two publications

vars == <<core, reserved, next, staged, posted, prepared, store, mapped, alive,
          size, reused>>

\* A PreparedPublication.
Publication == [seq : 1 .. MaxSeq, packets : 0 .. MaxPackets,
                stored : BOOLEAN, retry : BOOLEAN]

Unused == -1

Packet == (1 .. MaxSeq) \X (1 .. MaxPackets)

\* The outer packets of a publication: one, or one per segment.
Names(seq, k) == { <<seq, i>> : i \in 1 .. k }

Init ==
  /\ core = 0 /\ reserved = 0 /\ next = 0
  /\ staged = {} /\ posted = <<>> /\ prepared = {}
  /\ store = {} /\ mapped = {}
  /\ alive = TRUE
  /\ size = [n \in 1 .. MaxSeq |-> Unused]
  /\ reused = FALSE

--------------------------------------------------------------------------------
(***************************************************************************)
(* The store: each operator is the set of its outcomes                     *)
(***************************************************************************)

\* Faulty variant: one segment too many.
InsertOneMore(st, seq, k) == { [ok |-> TRUE, store |-> st \cup Names(seq, k + 1)] }

\* insertPreparedDataBatch: when an insertion throws, the packets inserted so
\* far are erased again, last one first, unless erase throws too.  Its checks
\* (supportsErase, packet sizes) throw as a first insertion does.
InsertBatch(st, seq, k) ==
  { [ok |-> TRUE, store |-> st \cup Names(seq, k)] }
  \cup { [ok |-> FALSE, store |-> (st \ Names(seq, n.inserted)) \cup Names(seq, n.left)] :
           n \in { m \in [inserted : 0 .. k, left : 0 .. k] :
             /\ "insert" \in MayThrow /\ m.left <= m.inserted /\ m.inserted < k
             /\ m.left > 0 => "erase" \in MayThrow } }

\* Faulty variant: the first packet is forgotten.
RemoveAllButFirst(st, seq, k) ==
  { [ok |-> TRUE, store |-> st \ (Names(seq, k) \ Names(seq, 1))] }

\* removePreparedDataBatch erases from the last packet on and reports failure.
RemoveBatch(st, seq, k) ==
  { [ok |-> (i = 0), store |-> st \ (Names(seq, k) \ Names(seq, i))] :
      i \in { n \in 0 .. k : n > 0 => "erase" \in MayThrow } }

\* Faulty variant: after a rollback the publication still counts as stored.
CommitKeepsFlag(st, p) ==
  { [ok |-> FALSE, store |-> st \ Names(p.seq, p.packets), stored |-> TRUE, mapped |-> TRUE],
    [ok |-> TRUE, store |-> st, stored |-> TRUE, mapped |-> TRUE] }

\* commitPreparedPublication: each outcome says what becomes of the
\* publication's "stored" flag and whether it installed the mapping.  A failed
\* rollback leaves the flag set, and no rollback removes the mapping.  Only a
\* publication of one packet may have a piggyPacket.
Commit(st, p) ==
  LET inserted == IF p.stored THEN {[ok |-> TRUE, store |-> st]}
                  ELSE InsertBatch(st, p.seq, p.packets)
      throws   == { x \in MayThrow \cap {"mapping", "queue"} : x = "queue" => p.packets = 1 }
      Outcome(ok, s, flag, named) == [ok |-> ok, store |-> s, stored |-> flag, mapped |-> named]
  IN  { Outcome(FALSE, i.store, FALSE, FALSE) : i \in { j \in inserted : ~j.ok } }
      \cup { Outcome(FALSE, r.store, ~r.ok, x = "queue") :
               x \in throws, r \in UNION { RemoveBatch(i.store, p.seq, p.packets) :
                                           i \in { j \in inserted : j.ok } } }
      \cup { Outcome(TRUE, i.store, p.packets > 0, TRUE) : i \in { j \in inserted : j.ok } }

\* m_preparedPublicationCommitHook throws before the commit begins.
Hook(st, p) ==
  { [ok |-> FALSE, store |-> st, stored |-> p.stored, mapped |-> FALSE] :
      x \in MayThrow \cap {"hook"} }

\* History of a call that returned seq for a publication of k packets.
Gives(seq, k) ==
  /\ size' = [size EXCEPT ![seq] = k]
  /\ reused' = (reused \/ size[seq] # Unused)

--------------------------------------------------------------------------------
(***************************************************************************)
(* Committing, on the Face thread                                          *)
(***************************************************************************)

\* The prepared publication of seq may be committed.
Ready(pubs, seq) == \E p \in pubs : p.seq = seq /\ ~p.retry

\* Faulty variant: a failed commit does not hold up the ones behind it.
CommitAtOnce(pubs) ==
  \E p \in { q \in pubs : ~q.retry } : \E o \in Commit(store, p) :
    /\ store' = o.store
    /\ prepared' = (pubs \ {p}) \cup
         (IF o.ok THEN {} ELSE {[p EXCEPT !.stored = o.stored, !.retry = TRUE]})
    /\ core' = IF o.ok THEN p.seq ELSE core
    /\ next' = core' + 1
    /\ mapped' = mapped \cup { n \in {p.seq} : o.mapped }

\* The loop of commitReadyPreparedPublications over the publications pubs: it
\* commits first .. last - 1, and stops at last because that one is not ready
\* or because its commit throws; then a retry is scheduled for it.
CommitReady(pubs) ==
  LET first == next IN
  \E last \in first .. MaxSeq + 1 :
    LET done  == { p \in pubs : p.seq \in first .. last - 1 }
        after == store \cup UNION { Names(p.seq, p.packets) : p \in { q \in done : ~q.stored } }
    IN  /\ \A n \in first .. last - 1 : Ready(pubs, n)
        /\ first = 0 => last = 0
        /\ core' = IF last > first THEN last - 1 ELSE core
        /\ next' = last
        /\ \/ /\ ~Ready(pubs, last)
              /\ prepared' = pubs \ done
              /\ store' = after
              /\ mapped' = mapped \cup { p.seq : p \in done }
           \/ \E p \in pubs :
                /\ p.seq = last /\ ~p.retry
                /\ \E o \in Commit(after, p) \cup Hook(after, p) :
                     /\ ~o.ok
                     /\ store' = o.store
                     /\ mapped' = mapped \cup { q.seq : q \in done } \cup { n \in {last} : o.mapped }
                     /\ prepared' = (pubs \ (done \cup {p}))
                          \cup {[p EXCEPT !.stored = o.stored, !.retry = TRUE]}

\* Faulty variant: a publication whose turn has not come is forgotten.
RunPostedDropsWaiting ==
  /\ posted # <<>> /\ alive
  /\ posted' = Tail(posted)
  /\ staged' = { q \in staged : q.seq # Head(posted).seq }
  /\ IF Head(posted).seq = next THEN CommitReady(prepared \cup {Head(posted)})
     ELSE UNCHANGED <<core, next, prepared, store, mapped>>
  /\ UNCHANGED <<reserved, alive, size, reused>>

\* The closure of prepareAndStageAsyncPublication: onPreparedPublication
RunPosted ==
  /\ posted # <<>>
  /\ posted' = Tail(posted)
  /\ LET p == Head(posted) IN
     \/ /\ alive
        /\ staged' = { q \in staged : q.seq # p.seq }
        /\ CommitReady({ q \in prepared : q.seq # p.seq } \cup {p})
     \/ /\ ~alive
        /\ UNCHANGED <<core, next, staged, prepared, store, mapped>>
  /\ UNCHANGED <<reserved, alive, size, reused>>

\* Faulty variant: the retry only clears the flag.
RetryForgets(p) ==
  /\ alive /\ p \in prepared /\ p.retry
  /\ prepared' = (prepared \ {p}) \cup {[p EXCEPT !.retry = FALSE]}
  /\ UNCHANGED <<core, reserved, next, staged, posted, store, mapped, alive, size, reused>>

\* The event of schedulePreparedPublicationRetry
RetryTimer(p) ==
  /\ alive /\ p \in prepared /\ p.retry
  /\ CommitReady((prepared \ {p}) \cup {[p EXCEPT !.retry = FALSE]})
  /\ UNCHANGED <<reserved, staged, posted, alive, size, reused>>

--------------------------------------------------------------------------------
(***************************************************************************)
(* The calls of the application                                            *)
(***************************************************************************)

\* Faulty variant: numbers that are reserved but not advertised are ignored.
AfterCore == 1 + core

\* std::max(reserved, getSeqNo()) + 1
Tentative == 1 + IF reserved < core THEN core ELSE reserved

\* publishAsync and publishPacketAsync: prepareAndStageAsyncPublication.  The
\* three kinds differ in the number of packets.  A call that throws has
\* changed nothing but the store, and reserved as far as core.
PublishAsync(k) ==
  /\ "async" \in Calls /\ alive /\ Tentative <= MaxSeq
  /\ \/ /\ "sign" \in MayThrow /\ k > 0
        /\ reserved' = Tentative - 1
        /\ UNCHANGED <<next, staged, posted, store, size, reused>>
     \/ \E i \in InsertBatch(store, Tentative, k) :
          /\ ~i.ok
          /\ store' = i.store
          /\ reserved' = Tentative - 1
          /\ UNCHANGED <<next, staged, posted, size, reused>>
     \/ \E i \in InsertBatch(store, Tentative, k) :
          /\ i.ok
          /\ store' = i.store
          /\ reserved' = Tentative
          /\ next' = IF next = 0 THEN Tentative ELSE next
          /\ staged' = staged \cup {[seq |-> Tentative, packets |-> k]}
          /\ posted' = Append(posted, [seq |-> Tentative, packets |-> k,
                                       stored |-> k > 0, retry |-> FALSE])
          /\ Gives(Tentative, k)
  /\ UNCHANGED <<core, prepared, mapped, alive>>

\* publish(name, value): the number is reserved last, so that the next call
\* takes it when this one throws; but a mapping it installed stays until then.
PublishBytes(k) ==
  /\ "bytes" \in Calls /\ alive /\ Tentative <= MaxSeq /\ k > 0
  /\ \/ /\ "sign" \in MayThrow
        /\ UNCHANGED <<core, reserved, next, store, mapped, size, reused>>
     \/ \E o \in Commit(store, [seq |-> Tentative, packets |-> k,
                                stored |-> FALSE, retry |-> FALSE]) :
          /\ store' = o.store
          /\ mapped' = mapped \cup { n \in {Tentative} : o.mapped }
          /\ \/ /\ ~o.ok
                /\ UNCHANGED <<core, reserved, next, size, reused>>
             \/ /\ o.ok
                /\ core' = Tentative /\ reserved' = Tentative
                /\ next' = Tentative + 1
                /\ Gives(Tentative, k)
  /\ UNCHANGED <<staged, posted, prepared, alive>>

\* publish(name) with k = 0 and publishPacket with k = 1: reserveSeqNo comes
\* first, and a later exception does not give the number back.
PublishNow(k) ==
  /\ (IF k = 0 THEN "name" ELSE "packet") \in Calls /\ alive /\ Tentative <= MaxSeq
  /\ reserved' = Tentative
  /\ next' = IF next = 0 THEN Tentative ELSE next
  /\ \/ /\ k = 1 /\ MayThrow \cap {"sign", "insert"} # {}
        /\ UNCHANGED <<core, store, mapped, size, reused>>
     \/ /\ "mapping" \in MayThrow
        /\ store' = store \cup Names(Tentative, k)
        /\ UNCHANGED <<core, mapped, size, reused>>
     \/ /\ store' = store \cup Names(Tentative, k)
        /\ mapped' = mapped \cup {Tentative}
        /\ core' = Tentative
        /\ Gives(Tentative, k)
  /\ UNCHANGED <<staged, posted, prepared, alive>>

\* ~SVSPubSub: what was stored but never advertised is erased.  A failed
\* erase only ends the batch it belongs to.
Destroy ==
  /\ alive
  /\ alive' = FALSE
  /\ LET batches == { [seq |-> p.seq, packets |-> p.packets] :
                        p \in staged \cup { q \in prepared : q.stored } }
     IN  \E left \in [batches -> 0 .. MaxPackets] :
           /\ \A b \in batches : left[b] <= b.packets
                                 /\ (left[b] > 0 => "erase" \in MayThrow)
           /\ store' = store \ UNION { Names(b.seq, b.packets) \ Names(b.seq, left[b]) :
                                         b \in batches }
  /\ staged' = {} /\ prepared' = {}
  /\ UNCHANGED <<core, reserved, next, posted, mapped, size, reused>>

--------------------------------------------------------------------------------
Next ==
  \/ \E k \in 0 .. MaxPackets : PublishAsync(k) \/ PublishBytes(k)
  \/ \E k \in {0, 1} : PublishNow(k)
  \/ RunPosted
  \/ \E p \in prepared : RetryTimer(p)
  \/ Destroy

Spec == Init /\ [][Next]_vars

\* The Face thread runs what is posted and what is due, and a commit that is
\* tried again and again succeeds at last.
Fairness ==
  /\ WF_vars(RunPosted)
  /\ SF_vars(\E p \in prepared : RetryTimer(p) /\ next' > next)

FairSpec == Spec /\ Fairness

--------------------------------------------------------------------------------
(***************************************************************************)
(* Properties                                                              *)
(***************************************************************************)

\* The shape of the state of the pipeline: what each member may hold.
TypeOK ==
  /\ core \in 0 .. MaxSeq /\ reserved \in 0 .. MaxSeq /\ next \in 0 .. MaxSeq + 1
  /\ staged \subseteq [seq : 1 .. MaxSeq, packets : 0 .. MaxPackets]
  /\ posted \in Seq(Publication) /\ prepared \subseteq Publication
  /\ store \subseteq Packet /\ mapped \subseteq 1 .. MaxSeq
  /\ alive \in BOOLEAN /\ reused \in BOOLEAN
  /\ size \in [1 .. MaxSeq -> {Unused} \cup 0 .. MaxPackets]

\* Whoever learns a sequence number from a Sync Interest can get its mapping
\* and all of its packets: nothing is advertised before it is complete, no
\* rollback and no shutdown takes back what was advertised.
AdvertisedIsServable ==
  \A n \in 1 .. core : n \in mapped /\ Names(n, size[n]) \subseteq store

\* While the object lives, the packets of a publication that has a mapping are
\* stored, or its commit was rolled back (which leaves the mapping) and the
\* publication waits for a retry that knows it has to store them again.
\* The mapping a call that threw left behind is of no publication (Unused).
MappedIsStored ==
  alive => \A n \in mapped : size[n] # Unused =>
    \/ Names(n, size[n]) \subseteq store
    \/ \E p \in prepared : p.seq = n /\ ~p.stored

\* Rollbacks leave nothing behind: a stored packet belongs to an advertised
\* publication or to one that will still be committed or rolled back, and
\* after the destructor to an advertised one.
NoOrphans ==
  \A q \in store :
    \/ q[1] <= core
    \/ \E p \in staged \cup { r \in prepared : r.stored } : p.seq = q[1]

\* No two publications get the same sequence number, whichever of the
\* publishing calls are mixed and whichever of them throw.
NumbersUnique == ~reused

\* The commit head is where the advertised number ends: every number between
\* it and the last reserved one is on its way in exactly one of the places
\* that hold uncommitted publications.
PipelineComplete ==
  /\ next # 0 => next = core + 1
  /\ alive => \A n \in core + 1 .. reserved :
       Cardinality({ i \in 1 .. Len(posted) : posted[i].seq = n })
       + Cardinality({ p \in prepared : p.seq = n }) = 1

\* The advertised sequence number never goes back.
OwnSeqMonotone == [][core' >= core]_vars

\* Every number returned to the application is advertised in the end,
\* unless the object is destroyed first.
EventuallyCommitted ==
  \A n \in 1 .. MaxSeq : size[n] # Unused ~> (core >= n \/ ~alive)

\* The same of publishAsync alone: a number it has returned, and whose closure
\* is still to run on the Face thread, is advertised in the end.
AsyncCommitted ==
  \A n \in 1 .. MaxSeq : (\E p \in staged : p.seq = n) ~> (core >= n \/ ~alive)
================================================================================
