------------------------- MODULE PublishPipelineProofs -------------------------
(***************************************************************************)
(* Proofs about PublishPipeline for every number of sequence numbers and   *)
(* packets, and for the mixes of calls and exceptions each theorem names.  *)
(***************************************************************************)
EXTENDS PublishPipeline, FiniteSetTheorems, TLAPS

--------------------------------------------------------------------------------
(***************************************************************************)
(* The store                                                               *)
(***************************************************************************)

\* The packets of a publication, and of its first segments.
LEMMA NamesFacts ==
  ASSUME NEW seq \in 1 .. MaxSeq, NEW k \in 0 .. MaxPackets
  PROVE  /\ Names(seq, k) \subseteq Packet
         /\ Names(seq, 0) = {}
         /\ \A q \in Names(seq, k) : q[1] = seq
         /\ \A j \in 0 .. k : Names(seq, j) \subseteq Names(seq, k)
BY PipelineAssumption DEF Names, Packet

\* What the outcome o of insertPreparedDataBatch says: the store has all packets
\* now, or, when erase does not throw, what was there before without the
\* packets it tried to insert.
Inserts(st, seq, k, o) ==
  /\ o.ok \in BOOLEAN
  /\ o.store \subseteq st \cup Names(seq, k)
  /\ o.ok => o.store = st \cup Names(seq, k)
  /\ ~o.ok /\ "erase" \notin MayThrow =>
       \E j \in 0 .. k : o.store = st \ Names(seq, j)

\* insertPreparedDataBatch
LEMMA InsertOutcome ==
  ASSUME NEW st, NEW seq \in 1 .. MaxSeq, NEW k \in 0 .. MaxPackets,
         NEW o \in InsertBatch(st, seq, k)
  PROVE  Inserts(st, seq, k, o)
<1>1. CASE o = [ok |-> TRUE, store |-> st \cup Names(seq, k)]
  BY <1>1 DEF Inserts
<1>2. CASE o # [ok |-> TRUE, store |-> st \cup Names(seq, k)]
  <2>1. PICK n \in [inserted : 0 .. k, left : 0 .. k] :
          /\ n.left > 0 => "erase" \in MayThrow
          /\ o = [ok |-> FALSE, store |-> (st \ Names(seq, n.inserted)) \cup Names(seq, n.left)]
    BY <1>2 DEF InsertBatch
  <2>2. ~o.ok /\ o.ok \in BOOLEAN /\ o.store = (st \ Names(seq, n.inserted)) \cup Names(seq, n.left)
    BY <2>1
  <2>3. n.left \in 0 .. k /\ n.inserted \in 0 .. k
    OBVIOUS
  <2>4. "erase" \notin MayThrow => Names(seq, n.left) = {}
    BY <2>1, <2>3, NamesFacts
  <2> QED BY <2>2, <2>3, <2>4, NamesFacts DEF Inserts
<1> QED BY <1>1, <1>2

\* removePreparedDataBatch
LEMMA RemoveOutcome ==
  ASSUME NEW st, NEW seq \in 1 .. MaxSeq, NEW k \in 0 .. MaxPackets,
         NEW o \in RemoveBatch(st, seq, k)
  PROVE  /\ o.ok \in BOOLEAN
         /\ o.store \subseteq st
         /\ "erase" \notin MayThrow => o.ok /\ o.store = st \ Names(seq, k)
<1>1. PICK i \in 0 .. k :
        /\ i > 0 => "erase" \in MayThrow
        /\ o = [ok |-> (i = 0), store |-> st \ (Names(seq, k) \ Names(seq, i))]
  BY DEF RemoveBatch
<1>2. o.store = st \ (Names(seq, k) \ Names(seq, i))
  BY <1>1
<1>3. o.ok <=> i = 0
  BY <1>1
<1>4. o.ok \in BOOLEAN
  BY <1>1, Zenon
<1>5. "erase" \notin MayThrow => i = 0
  BY <1>1
<1>6. i = 0 => o.store = st \ Names(seq, k)
  BY <1>2, NamesFacts
<1> QED BY <1>2, <1>3, <1>4, <1>5, <1>6

\* commitPreparedPublication and the hook before it.  If erase does not throw,
\* a commit that failed has left no packet of a publication that was stored,
\* or has not got as far as touching the store.
LEMMA CommitOutcome ==
  ASSUME NEW st, NEW p \in Publication, NEW o \in Commit(st, p) \cup Hook(st, p)
  PROVE  /\ o.ok \in BOOLEAN /\ o.stored \in BOOLEAN
         /\ o.ok => o.mapped
         /\ o.store \subseteq st \cup Names(p.seq, p.packets)
         /\ o.ok => o.store = IF p.stored THEN st ELSE st \cup Names(p.seq, p.packets)
         /\ ~o.ok /\ "erase" \notin MayThrow =>
              \/ o.store = st /\ (o.stored <=> p.stored)
              \/ /\ ~o.stored
                 /\ \E j \in 0 .. p.packets :
                      /\ o.store = st \ Names(p.seq, j)
                      /\ p.stored => j = p.packets
<1> DEFINE inserted == IF p.stored THEN {[ok |-> TRUE, store |-> st]}
                       ELSE InsertBatch(st, p.seq, p.packets)
<1>1. /\ p.seq \in 1 .. MaxSeq /\ p.packets \in 0 .. MaxPackets
      /\ p.stored \in BOOLEAN /\ p.packets \in 0 .. p.packets
  BY PipelineAssumption DEF Publication
<1>2. ASSUME NEW i \in inserted
      PROVE  /\ i.ok \in BOOLEAN /\ i.store \subseteq st \cup Names(p.seq, p.packets)
             /\ i.ok => i.store = IF p.stored THEN st ELSE st \cup Names(p.seq, p.packets)
             /\ ~i.ok => ~p.stored
             /\ ~i.ok /\ "erase" \notin MayThrow =>
                  \E j \in 0 .. p.packets : i.store = st \ Names(p.seq, j)
  <2>1. CASE p.stored
    <3>1. i = [ok |-> TRUE, store |-> st]
      BY <2>1
    <3>2. i.ok = TRUE /\ i.store = st
      BY <3>1
    <3> QED BY <2>1, <3>2
  <2>2. CASE ~p.stored
    <3>1. Inserts(st, p.seq, p.packets, i)
      BY <1>1, <2>2, InsertOutcome
    <3> QED BY <2>2, <3>1 DEF Inserts
  <2> QED BY <2>1, <2>2
<1> HIDE DEF inserted
<1>3. CASE o \in Hook(st, p)
  <2>1. o = [ok |-> FALSE, store |-> st, stored |-> p.stored, mapped |-> FALSE]
    BY <1>3 DEF Hook
  <2>2. o.ok = FALSE /\ o.store = st /\ o.stored = p.stored
    BY <2>1
  <2> QED BY <1>1, <2>2
<1>4. CASE \E i \in inserted :
             ~i.ok /\ o = [ok |-> FALSE, store |-> i.store, stored |-> FALSE, mapped |-> FALSE]
  <2>1. PICK i \in inserted :
          ~i.ok /\ o = [ok |-> FALSE, store |-> i.store, stored |-> FALSE, mapped |-> FALSE]
    BY <1>4
  <2> QED BY <1>2, <2>1
<1>5. CASE \E i \in inserted : \E r \in RemoveBatch(i.store, p.seq, p.packets) : \E named \in BOOLEAN :
             i.ok /\ o = [ok |-> FALSE, store |-> r.store, stored |-> ~r.ok, mapped |-> named]
  <2>0. PICK i \in inserted : \E r \in RemoveBatch(i.store, p.seq, p.packets) : \E named \in BOOLEAN :
          i.ok /\ o = [ok |-> FALSE, store |-> r.store, stored |-> ~r.ok, mapped |-> named]
    BY <1>5
  <2>1. PICK r \in RemoveBatch(i.store, p.seq, p.packets) : \E named \in BOOLEAN :
          i.ok /\ o = [ok |-> FALSE, store |-> r.store, stored |-> ~r.ok, mapped |-> named]
    BY <2>0
  <2>2. /\ r.ok \in BOOLEAN /\ r.store \subseteq i.store
        /\ "erase" \notin MayThrow => r.ok /\ r.store = i.store \ Names(p.seq, p.packets)
    BY <1>1, RemoveOutcome
  <2>3. i.store \ Names(p.seq, p.packets) = st \ Names(p.seq, p.packets)
    BY <1>2, <2>1
  <2> DEFINE flag == ~r.ok
  <2>4. flag \in BOOLEAN /\ (flag <=> ~r.ok)
    OBVIOUS
  <2>5. i.ok /\ \E named \in BOOLEAN :
          o = [ok |-> FALSE, store |-> r.store, stored |-> flag, mapped |-> named]
    BY <2>1, Zenon
  <2> HIDE DEF flag
  <2>6. o.ok = FALSE /\ o.store = r.store /\ o.stored = flag
    BY <2>5
  <2> QED BY <1>1, <1>2, <2>2, <2>3, <2>4, <2>5, <2>6
<1>6. CASE \E i \in inserted :
             i.ok /\ o = [ok |-> TRUE, store |-> i.store, stored |-> p.packets > 0, mapped |-> TRUE]
  <2>1. PICK i \in inserted :
          i.ok /\ o = [ok |-> TRUE, store |-> i.store, stored |-> p.packets > 0, mapped |-> TRUE]
    BY <1>6
  <2>2. o.ok = TRUE /\ o.store = i.store /\ o.mapped = TRUE
    BY <2>1
  <2>3. o.stored \in BOOLEAN
    <3> DEFINE flag == p.packets > 0
    <3>1. flag \in BOOLEAN
      BY <1>1
    <3>2. o.stored = flag
      BY <2>1, Zenon
    <3> HIDE DEF flag
    <3> QED BY <3>1, <3>2
  <2> QED BY <1>2, <2>1, <2>2, <2>3
<1>7. CASE o \in Commit(st, p)
  <2>1. \/ \E i \in inserted :
             ~i.ok /\ o = [ok |-> FALSE, store |-> i.store, stored |-> FALSE, mapped |-> FALSE]
        \/ \E i \in inserted : \E r \in RemoveBatch(i.store, p.seq, p.packets) :
             \E x \in {"mapping", "queue"} :
               i.ok /\ o = [ok |-> FALSE, store |-> r.store, stored |-> ~r.ok, mapped |-> x = "queue"]
        \/ \E i \in inserted :
             i.ok /\ o = [ok |-> TRUE, store |-> i.store, stored |-> p.packets > 0, mapped |-> TRUE]
    BY <1>7 DEF Commit, inserted
  <2>2. \A x \in {"mapping", "queue"} : (x = "queue") \in BOOLEAN
    OBVIOUS
  <2> QED BY <1>4, <1>5, <1>6, <2>1, <2>2
<1> QED BY <1>3, <1>7

--------------------------------------------------------------------------------
(***************************************************************************)
(* The inductive invariants                                                *)
(***************************************************************************)

Elements(q) == { q[i] : i \in 1 .. Len(q) }

\* The publications that are on their way.
Waiting == Elements(posted) \cup prepared

\* Everything that has a number has one that was reserved.
Ordered ==
  /\ core <= reserved
  /\ \A n \in 1 .. MaxSeq : size[n] # Unused => n <= reserved
  /\ \A p \in Waiting : p.seq <= reserved

\* A publication on its way is in one place and has the packets of its call;
\* what is staged is posted, and a destroyed object commits nothing.
Tracked ==
  /\ \A i, j \in 1 .. Len(posted) : posted[i].seq = posted[j].seq => i = j
  /\ \A p, q \in prepared : p.seq = q.seq => p = q
  /\ \A p \in Elements(posted), q \in prepared : p.seq # q.seq
  /\ \A p \in Waiting : size[p.seq] = p.packets
  /\ \A s \in staged : \E p \in Elements(posted) : p.seq = s.seq /\ p.packets = s.packets
  /\ ~alive => staged = {} /\ prepared = {}

Base == TypeOK /\ Ordered /\ Tracked /\ NumbersUnique

\* The "stored" flag tells the truth, while erase does not throw.
FlagsTrue ==
  \A p \in Waiting : alive /\ p.stored => Names(p.seq, p.packets) \subseteq store

\* With publishAsync as the only call the commit head follows the advertised
\* number, nothing that was reserved is missing, and what is on its way is
\* not advertised.
Chain ==
  /\ IF next = 0 THEN reserved = 0 ELSE next = core + 1
  /\ \A n \in 1 .. core : n \in mapped
  /\ alive => \A n \in core + 1 .. reserved : \E p \in Waiting : p.seq = n
  /\ \A p \in Waiting : p.seq > core

\* The packets of every advertised publication are there.
Served == \A n \in 1 .. core : Names(n, size[n]) \subseteq store

\* The store holds packets of publications only, and none of a publication
\* that is not flagged as stored.
StoreClean ==
  /\ \A q \in store : q \in Names(q[1], size[q[1]])
  /\ \A p \in Waiting : ~p.stored => \A q \in store : q[1] # p.seq

--------------------------------------------------------------------------------
(***************************************************************************)
(* Committing                                                              *)
(***************************************************************************)

\* The publications that commitReadyPreparedPublications commits when it stops
\* at last, and the store it then has.
Done(pubs, last) == { p \in pubs : p.seq \in next .. last - 1 }

After(pubs, last) ==
  store \cup UNION { Names(p.seq, p.packets) : p \in { q \in Done(pubs, last) : ~q.stored } }

CommitsTo(pubs, last) ==
  /\ last \in next .. MaxSeq + 1
  /\ \A n \in next .. last - 1 : \E p \in Done(pubs, last) : p.seq = n
  /\ core' = IF last > next THEN last - 1 ELSE core
  /\ next = 0 => last = 0
  /\ next' = last
  /\ \A p \in Done(pubs, last) : p.seq \in mapped'
  /\ \A n \in mapped' : n \in mapped \/ \E p \in pubs : p.seq = n
  /\ mapped \subseteq mapped'
  /\ \/ prepared' = pubs \ Done(pubs, last) /\ store' = After(pubs, last)
     \/ \E p \in pubs \ Done(pubs, last) :
          \E o \in Commit(After(pubs, last), p) \cup Hook(After(pubs, last), p) :
            /\ ~o.ok
            /\ store' = o.store
            /\ prepared' = (pubs \ (Done(pubs, last) \cup {p}))
                             \cup {[p EXCEPT !.stored = o.stored, !.retry = TRUE]}

\* The loop of commitReadyPreparedPublications stops somewhere.
LEMMA CommitStops ==
  ASSUME NEW pubs, next \in 0 .. MaxSeq + 1, CommitReady(pubs)
  PROVE  \E last \in next .. MaxSeq + 1 : CommitsTo(pubs, last)
<1>1. PICK last \in next .. MaxSeq + 1 :
        /\ \A n \in next .. last - 1 : Ready(pubs, n)
        /\ next = 0 => last = 0
        /\ core' = IF last > next THEN last - 1 ELSE core
        /\ next' = last
        /\ \/ /\ ~Ready(pubs, last)
              /\ prepared' = pubs \ Done(pubs, last)
              /\ store' = After(pubs, last)
              /\ mapped' = mapped \cup { p.seq : p \in Done(pubs, last) }
           \/ \E p \in pubs :
                /\ p.seq = last /\ ~p.retry
                /\ \E o \in Commit(After(pubs, last), p) \cup Hook(After(pubs, last), p) :
                     /\ ~o.ok
                     /\ store' = o.store
                     /\ mapped' = mapped \cup { q.seq : q \in Done(pubs, last) }
                                         \cup { n \in {last} : o.mapped }
                     /\ prepared' = (pubs \ (Done(pubs, last) \cup {p}))
                          \cup {[p EXCEPT !.stored = o.stored, !.retry = TRUE]}
  BY DEF CommitReady, Done, After
<1>2. \A n \in next .. last - 1 : \E p \in Done(pubs, last) : p.seq = n
  BY <1>1 DEF Ready, Done
<1>3. \A p \in pubs : p.seq = last => p \notin Done(pubs, last)
  BY PipelineAssumption DEF Done
<1>4. \/ prepared' = pubs \ Done(pubs, last) /\ store' = After(pubs, last)
      \/ \E p \in pubs \ Done(pubs, last) :
           \E o \in Commit(After(pubs, last), p) \cup Hook(After(pubs, last), p) :
             /\ ~o.ok
             /\ store' = o.store
             /\ prepared' = (pubs \ (Done(pubs, last) \cup {p}))
                              \cup {[p EXCEPT !.stored = o.stored, !.retry = TRUE]}
  BY <1>1, <1>3
<1>5. /\ \A p \in Done(pubs, last) : p.seq \in mapped'
      /\ \A n \in mapped' : n \in mapped \/ \E p \in pubs : p.seq = n
      /\ mapped \subseteq mapped'
  <2>1. Done(pubs, last) \subseteq pubs
    BY DEF Done
  <2>2. CASE mapped' = mapped \cup { p.seq : p \in Done(pubs, last) }
    BY <2>1, <2>2
  <2>3. CASE \E p \in pubs : \E flag : p.seq = last
               /\ mapped' = mapped \cup { q.seq : q \in Done(pubs, last) }
                                   \cup { n \in {last} : flag }
    BY <2>1, <2>3
  <2> QED BY <1>1, <2>2, <2>3
<1> QED BY <1>1, <1>2, <1>4, <1>5 DEF CommitsTo

\* Two records of the same publication, apart from the retry flag.
SamePub(p, q) == p.seq = q.seq /\ p.packets = q.packets /\ (p.stored <=> q.stored)

Unique(pubs) == \A p, q \in pubs : p.seq = q.seq => p = q

\* What is prepared after the loop: the publications it did not commit.
LEMMA PreparedAfter ==
  ASSUME NEW pubs \in SUBSET Publication, Unique(pubs),
         NEW last, CommitsTo(pubs, last)
  PROVE  /\ prepared' \subseteq Publication /\ Unique(prepared')
         /\ \A x \in prepared' : \E p \in pubs \ Done(pubs, last) :
              x.seq = p.seq /\ x.packets = p.packets
         /\ \A p \in pubs \ Done(pubs, last) : \E x \in prepared' :
              x.seq = p.seq /\ x.packets = p.packets
<1> DEFINE done == Done(pubs, last)
<1>1. CASE prepared' = pubs \ done
  BY <1>1 DEF Unique
<1>2. CASE \E p \in pubs \ done :
             \E o \in Commit(After(pubs, last), p) \cup Hook(After(pubs, last), p) :
               prepared' = (pubs \ (done \cup {p}))
                              \cup {[p EXCEPT !.stored = o.stored, !.retry = TRUE]}
  <2>1. PICK p \in pubs \ done :
             \E o \in Commit(After(pubs, last), p) \cup Hook(After(pubs, last), p) :
               prepared' = (pubs \ (done \cup {p}))
                              \cup {[p EXCEPT !.stored = o.stored, !.retry = TRUE]}
    BY <1>2
  <2>2. PICK o \in Commit(After(pubs, last), p) \cup Hook(After(pubs, last), p) :
               prepared' = (pubs \ (done \cup {p}))
                              \cup {[p EXCEPT !.stored = o.stored, !.retry = TRUE]}
    BY <2>1
  <2> DEFINE x == [p EXCEPT !.stored = o.stored, !.retry = TRUE]
  <2>3. o.stored \in BOOLEAN
    BY CommitOutcome
  <2>4. x \in Publication /\ x.seq = p.seq /\ x.packets = p.packets
    BY <2>3 DEF Publication
  <2> HIDE DEF x, done
  <2>5. prepared' = (pubs \ (done \cup {p})) \cup {x}
    BY <2>2 DEF x
  <2>6. Unique(prepared')
    BY <2>4, <2>5 DEF Unique
  <2>7. \A y \in prepared' : \E q \in pubs \ done : y.seq = q.seq /\ y.packets = q.packets
    BY <2>4, <2>5
  <2>8. \A q \in pubs \ done : \E y \in prepared' : y.seq = q.seq /\ y.packets = q.packets
    BY <2>4, <2>5
  <2> QED BY <2>4, <2>5, <2>6, <2>7, <2>8 DEF done
<1> QED BY <1>1, <1>2 DEF CommitsTo

\* The store after the loop.  What belongs to no publication that was offered
\* is not touched, and if erase does not throw, the committed publications are
\* complete and the flags of the others are true.
LEMMA StoreAfter ==
  ASSUME NEW pubs \in SUBSET Publication, Unique(pubs),
         NEW last, CommitsTo(pubs, last), store \subseteq Packet
  PROVE  /\ store' \subseteq Packet
         /\ \A q \in store' : q \in store \/ \E p \in pubs : q[1] = p.seq
         /\ "erase" \notin MayThrow =>
              \A q \in store : (\A p \in pubs : q[1] # p.seq) => q \in store'
         /\ "erase" \notin MayThrow /\ (\A p \in pubs : p.stored => Names(p.seq, p.packets) \subseteq store) =>
              /\ \A p \in Done(pubs, last) : Names(p.seq, p.packets) \subseteq store'
              /\ \A x \in prepared' : x.stored => Names(x.seq, x.packets) \subseteq store'
<1> DEFINE done == Done(pubs, last)
           after == After(pubs, last)
           FlagsOf == \A p \in pubs : p.stored => Names(p.seq, p.packets) \subseteq store
<1>1. \A p \in pubs : /\ p.seq \in 1 .. MaxSeq /\ p.packets \in 0 .. MaxPackets
                      /\ Names(p.seq, p.packets) \subseteq Packet
                      /\ \A q \in Names(p.seq, p.packets) : q[1] = p.seq
  BY NamesFacts DEF Publication
<1>2. done \subseteq pubs
  BY DEF Done
<1>3. /\ store \subseteq after
      /\ after \subseteq Packet
      /\ \A q \in after : q \in store \/ \E p \in done : q[1] = p.seq
      /\ FlagsOf => \A p \in done : Names(p.seq, p.packets) \subseteq after
  BY <1>1, <1>2 DEF After
<1> HIDE DEF done, after
<1>4. CASE prepared' = pubs \ done /\ store' = after
  BY <1>2, <1>3, <1>4 DEF done
<1>5. CASE \E p \in pubs \ done : \E o \in Commit(after, p) \cup Hook(after, p) :
             /\ ~o.ok
             /\ store' = o.store
             /\ prepared' = (pubs \ (done \cup {p}))
                              \cup {[p EXCEPT !.stored = o.stored, !.retry = TRUE]}
  <2>1. PICK p \in pubs \ done : \E o \in Commit(after, p) \cup Hook(after, p) :
             /\ ~o.ok
             /\ store' = o.store
             /\ prepared' = (pubs \ (done \cup {p}))
                              \cup {[p EXCEPT !.stored = o.stored, !.retry = TRUE]}
    BY <1>5
  <2>2. PICK o \in Commit(after, p) \cup Hook(after, p) :
             /\ ~o.ok
             /\ store' = o.store
             /\ prepared' = (pubs \ (done \cup {p}))
                              \cup {[p EXCEPT !.stored = o.stored, !.retry = TRUE]}
    BY <2>1
  <2> DEFINE x == [p EXCEPT !.stored = o.stored, !.retry = TRUE]
  <2>3. x.seq = p.seq /\ x.packets = p.packets /\ x.stored = o.stored
    BY DEF Publication
  <2> HIDE DEF x
  <2>4. prepared' = (pubs \ (done \cup {p})) \cup {x}
    BY <2>2 DEF x
  <2>5. /\ o.stored \in BOOLEAN /\ o.store \subseteq after \cup Names(p.seq, p.packets)
        /\ "erase" \notin MayThrow =>
             \/ o.store = after /\ (o.stored <=> p.stored)
             \/ ~o.stored /\ \E j \in 0 .. p.packets : o.store = after \ Names(p.seq, j)
    <3>1. p \in Publication /\ ~o.ok
      BY <2>2, Zenon
    <3>2. o.stored \in BOOLEAN /\ o.store \subseteq after \cup Names(p.seq, p.packets)
      BY <3>1, CommitOutcome
    <3>3. ASSUME "erase" \notin MayThrow
          PROVE  \/ o.store = after /\ (o.stored <=> p.stored)
                 \/ /\ ~o.stored
                    /\ \E j \in 0 .. p.packets :
                         /\ o.store = after \ Names(p.seq, j)
                         /\ p.stored => j = p.packets
      BY <3>1, <3>3, CommitOutcome
    <3> QED BY <3>2, <3>3
  <2>6. /\ store' \subseteq Packet
        /\ \A q \in store' : q \in store \/ \E r \in pubs : q[1] = r.seq
    BY <1>1, <1>2, <1>3, <2>2, <2>5
  <2>7. "erase" \notin MayThrow => \A q \in after : q[1] # p.seq => q \in store'
    <3>1. \A j \in 0 .. p.packets : Names(p.seq, j) \subseteq Names(p.seq, p.packets)
      BY <1>1, NamesFacts
    <3> QED BY <1>1, <2>2, <2>5, <3>1
  <2>8. ASSUME "erase" \notin MayThrow, FlagsOf
        PROVE  /\ \A r \in done : Names(r.seq, r.packets) \subseteq store'
               /\ \A y \in prepared' : y.stored => Names(y.seq, y.packets) \subseteq store'
    <3>1. \A r \in pubs : r # p => r.seq # p.seq
      BY DEF Unique
    <3>2. \A r \in pubs : r # p /\ Names(r.seq, r.packets) \subseteq after
                            => Names(r.seq, r.packets) \subseteq store'
      BY <1>1, <2>7, <2>8, <3>1
    <3>3. \A r \in done : Names(r.seq, r.packets) \subseteq store'
      BY <1>2, <1>3, <2>1, <2>8, <3>2
    <3>4. x.stored => Names(x.seq, x.packets) \subseteq store'
      BY <1>3, <2>2, <2>3, <2>5, <2>8
    <3>5. \A r \in pubs \ (done \cup {p}) : r.stored => Names(r.seq, r.packets) \subseteq store'
      BY <1>3, <2>8, <3>2
    <3> QED BY <2>4, <3>3, <3>4, <3>5
  <2> QED BY <1>3, <2>6, <2>7, <2>8 DEF done
<1> QED BY <1>4, <1>5 DEF CommitsTo, done, after

\* The publications pubs that the Face thread offers for commit are, with
\* what stays posted, the ones that were on their way.
Offered(pubs) ==
  /\ pubs \subseteq Publication /\ Unique(pubs)
  /\ posted' \in Seq(Publication)
  /\ \A i, j \in 1 .. Len(posted') : posted'[i].seq = posted'[j].seq => i = j
  /\ Elements(posted') \subseteq Elements(posted)
  /\ \A x \in Elements(posted'), p \in pubs : x.seq # p.seq
  /\ \A p \in pubs : \E w \in Waiting : SamePub(p, w)
  /\ \A w \in Waiting : w \in Elements(posted') \/ \E p \in pubs : SamePub(p, w)
  /\ staged' \subseteq staged
  /\ \A s \in staged' : \E p \in Elements(posted') : p.seq = s.seq /\ p.packets = s.packets
  /\ \A s \in staged \ staged' : \E p \in pubs : p.seq = s.seq

\* The Face thread commits what it was offered.
CommitStep ==
  /\ alive /\ UNCHANGED <<reserved, alive, size, reused>>
  /\ \E pubs : Offered(pubs) /\ CommitReady(pubs)

\* The first element of a queue without repetitions, and the others.
LEMMA HeadAndTail ==
  ASSUME NEW q \in Seq(Publication), q # <<>>,
         \A i, j \in 1 .. Len(q) : q[i].seq = q[j].seq => i = j
  PROVE  /\ Head(q) \in Publication /\ Tail(q) \in Seq(Publication)
         /\ Elements(q) = Elements(Tail(q)) \cup {Head(q)}
         /\ \A x \in Elements(Tail(q)) : x.seq # Head(q).seq
         /\ \A i, j \in 1 .. Len(Tail(q)) : Tail(q)[i].seq = Tail(q)[j].seq => i = j
<1>1. /\ Len(q) \in Nat /\ Len(q) >= 1 /\ Head(q) = q[1] /\ Head(q) \in Publication
      /\ Tail(q) \in Seq(Publication) /\ Len(Tail(q)) = Len(q) - 1
  OBVIOUS
<1>2. \A i \in 1 .. Len(Tail(q)) : Tail(q)[i] = q[i + 1] /\ i + 1 \in 1 .. Len(q) /\ i + 1 # 1
  BY <1>1
<1>3. \A i \in 1 .. Len(q) : i = 1 \/ (i - 1 \in 1 .. Len(Tail(q)) /\ q[i] = Tail(q)[i - 1])
  BY <1>1
<1>4. 1 \in 1 .. Len(q)
  BY <1>1
<1>5. Elements(q) = Elements(Tail(q)) \cup {Head(q)}
  <2>1. \A x \in Elements(q) : x \in Elements(Tail(q)) \/ x = Head(q)
    <3> SUFFICES ASSUME NEW i \in 1 .. Len(q)
                 PROVE  q[i] \in Elements(Tail(q)) \/ q[i] = Head(q)
      BY DEF Elements
    <3> QED BY <1>1, <1>3 DEF Elements
  <2>2. \A x \in Elements(Tail(q)) : x \in Elements(q)
    <3> SUFFICES ASSUME NEW i \in 1 .. Len(Tail(q)) PROVE Tail(q)[i] \in Elements(q)
      BY DEF Elements
    <3> QED BY <1>2 DEF Elements
  <2>3. Head(q) \in Elements(q)
    BY <1>1, <1>4 DEF Elements
  <2> QED BY <2>1, <2>2, <2>3
<1>6. \A x \in Elements(Tail(q)) : x.seq # Head(q).seq
  BY <1>1, <1>2, <1>4 DEF Elements
<1>7. \A i, j \in 1 .. Len(Tail(q)) : Tail(q)[i].seq = Tail(q)[j].seq => i = j
  <2> SUFFICES ASSUME NEW i \in 1 .. Len(Tail(q)), NEW j \in 1 .. Len(Tail(q)),
                      Tail(q)[i].seq = Tail(q)[j].seq
               PROVE  i = j
    OBVIOUS
  <2>1. i + 1 = j + 1
    BY <1>2
  <2> QED BY <2>1
<1> QED BY <1>1, <1>5, <1>6, <1>7

\* onPreparedPublication offers the posted publication and the prepared ones.
LEMMA RunPostedOffers ==
  ASSUME Base, RunPosted, alive
  PROVE  CommitStep
<1> DEFINE h == Head(posted)
           pubs == { q \in prepared : q.seq # h.seq } \cup {h}
<1>1. /\ posted # <<>> /\ posted' = Tail(posted) /\ CommitReady(pubs)
      /\ staged' = { q \in staged : q.seq # h.seq }
      /\ UNCHANGED <<reserved, alive, size, reused>>
  BY DEF RunPosted
<1>2. posted \in Seq(Publication) /\ prepared \subseteq Publication
  BY DEF Base, TypeOK
<1>3. \A i, j \in 1 .. Len(posted) : posted[i].seq = posted[j].seq => i = j
  BY DEF Base, Tracked
<1>4. /\ h \in Publication /\ posted' \in Seq(Publication)
      /\ Elements(posted) = Elements(posted') \cup {h}
      /\ \A x \in Elements(posted') : x.seq # h.seq
      /\ \A i, j \in 1 .. Len(posted') : posted'[i].seq = posted'[j].seq => i = j
  BY <1>1, <1>2, <1>3, HeadAndTail
<1> HIDE DEF h
<1>5. \A q \in prepared : q.seq # h.seq
  BY <1>4 DEF Base, Tracked
<1>6. pubs = prepared \cup {h}
  BY <1>5
<1> HIDE DEF pubs
<1>7. pubs \subseteq Publication /\ Unique(pubs)
  BY <1>2, <1>4, <1>5, <1>6 DEF Unique, Base, Tracked
<1>8. \A x \in Elements(posted'), p \in pubs : x.seq # p.seq
  BY <1>4, <1>6 DEF Base, Tracked
<1>9. /\ \A p \in pubs : \E w \in Waiting : SamePub(p, w)
      /\ \A w \in Waiting : w \in Elements(posted') \/ \E p \in pubs : SamePub(p, w)
  BY <1>4, <1>6 DEF Waiting, SamePub
<1>10. /\ staged' \subseteq staged
       /\ \A s \in staged' : \E p \in Elements(posted') : p.seq = s.seq /\ p.packets = s.packets
       /\ \A s \in staged \ staged' : \E p \in pubs : p.seq = s.seq
  BY <1>1, <1>4, <1>6 DEF Base, Tracked
<1>11. Offered(pubs)
  BY <1>4, <1>7, <1>8, <1>9, <1>10 DEF Offered
<1> QED BY <1>1, <1>11 DEF CommitStep

\* The retry event offers what is prepared, one of them without its flag.
LEMMA RetryOffers ==
  ASSUME Base, NEW r \in prepared, RetryTimer(r)
  PROVE  CommitStep
<1> DEFINE x == [r EXCEPT !.retry = FALSE]
           pubs == (prepared \ {r}) \cup {x}
<1>1. /\ alive /\ CommitReady(pubs)
      /\ UNCHANGED <<reserved, staged, posted, alive, size, reused>>
  BY DEF RetryTimer
<1>2. posted \in Seq(Publication) /\ prepared \subseteq Publication
  BY DEF Base, TypeOK
<1>3. x \in Publication /\ SamePub(x, r)
  BY <1>2 DEF Publication, SamePub
<1> HIDE DEF x
<1>4. pubs \subseteq Publication /\ Unique(pubs)
  BY <1>2, <1>3 DEF Unique, Base, Tracked, SamePub
<1>5. /\ \A p \in pubs : \E w \in Waiting : SamePub(p, w)
      /\ \A w \in Waiting : w \in Elements(posted') \/ \E p \in pubs : SamePub(p, w)
  BY <1>1, <1>3 DEF Waiting, SamePub
<1>6. \A y \in Elements(posted'), p \in pubs : y.seq # p.seq
  BY <1>1, <1>3 DEF Base, Tracked, SamePub
<1> HIDE DEF pubs
<1>7. Offered(pubs)
  BY <1>1, <1>2, <1>4, <1>5, <1>6 DEF Offered, Base, Tracked
<1> QED BY <1>1, <1>7 DEF CommitStep

\* A commit names the publications it concerns.
LEMMA CommitFacts ==
  ASSUME Base, CommitStep
  PROVE  \E pubs \in SUBSET Publication, last \in next .. MaxSeq + 1 :
           Offered(pubs) /\ Unique(pubs) /\ CommitsTo(pubs, last)
<1>1. PICK pubs : Offered(pubs) /\ CommitReady(pubs)
  BY DEF CommitStep
<1>2. next \in 0 .. MaxSeq + 1
  BY DEF Base, TypeOK
<1>3. PICK last \in next .. MaxSeq + 1 : CommitsTo(pubs, last)
  BY <1>1, <1>2, CommitStops
<1>4. pubs \in SUBSET Publication /\ Unique(pubs)
  BY <1>1 DEF Offered
<1> QED BY <1>1, <1>3, <1>4

\* What is on its way after a commit was so before it and was not committed.
LEMMA WaitingAfter ==
  ASSUME Base, NEW pubs \in SUBSET Publication, NEW last,
         Offered(pubs), Unique(pubs), CommitsTo(pubs, last)
  PROVE  /\ \A x \in Waiting' :
              /\ \E w \in Waiting : w.seq = x.seq /\ w.packets = x.packets
              /\ \A d \in Done(pubs, last) : d.seq # x.seq
         /\ \A w \in Waiting :
              \/ \E x \in Waiting' : w.seq = x.seq
              \/ \E d \in Done(pubs, last) : d.seq = w.seq
<1>1. Waiting' = Elements(posted') \cup prepared'
  BY DEF Waiting
<1>2. Done(pubs, last) \subseteq pubs
  BY DEF Done
<1>3. ASSUME NEW x \in prepared'
      PROVE  /\ \E w \in Waiting : w.seq = x.seq /\ w.packets = x.packets
             /\ \A d \in Done(pubs, last) : d.seq # x.seq
  <2>1. PICK p \in pubs \ Done(pubs, last) : x.seq = p.seq /\ x.packets = p.packets
    BY PreparedAfter
  <2>2. PICK w \in Waiting : SamePub(p, w)
    BY <2>1 DEF Offered
  <2> QED BY <1>2, <2>1, <2>2 DEF SamePub, Unique
<1>4. ASSUME NEW x \in Elements(posted')
      PROVE  x \in Waiting /\ \A d \in Done(pubs, last) : d.seq # x.seq
  BY <1>2 DEF Offered, Waiting
<1>5. ASSUME NEW w \in Waiting, w \notin Elements(posted')
      PROVE  \/ \E x \in prepared' : w.seq = x.seq
             \/ \E d \in Done(pubs, last) : d.seq = w.seq
  <2>1. PICK p \in pubs : SamePub(p, w)
    BY <1>5 DEF Offered
  <2> QED BY <2>1, PreparedAfter DEF SamePub
<1> QED BY <1>1, <1>3, <1>4, <1>5

\* Committing keeps the numbers in order and the publications in place.
LEMMA CommitKeepsBase ==
  ASSUME Base, CommitStep
  PROVE  Base'
<1>1. PICK pubs \in SUBSET Publication, last \in next .. MaxSeq + 1 :
        Offered(pubs) /\ Unique(pubs) /\ CommitsTo(pubs, last)
  BY CommitFacts
<1>2. /\ alive /\ UNCHANGED <<reserved, alive, size, reused>>
  BY DEF CommitStep
<1>3. TypeOK /\ Ordered /\ Tracked /\ next \in 0 .. MaxSeq + 1
  BY DEF Base, TypeOK
<1> DEFINE done == Done(pubs, last)
<1>4. \A d \in done : \E w \in Waiting : d.seq = w.seq
  BY <1>1 DEF Done, Offered, SamePub
<1>5. \A d \in done : d.seq <= reserved /\ d.seq \in 1 .. MaxSeq
  <2>1. done \subseteq Publication
    BY DEF Done
  <2> QED BY <1>3, <1>4, <2>1 DEF Ordered, Publication
<1>6. \A n \in mapped' : n \in mapped \/ \E p \in pubs : p.seq = n
  BY <1>1 DEF CommitsTo
<1>7. last \in 0 .. MaxSeq + 1 /\ next' = last /\ core' = IF last > next THEN last - 1 ELSE core
  <2>1. next' = last /\ core' = IF last > next THEN last - 1 ELSE core
    BY <1>1 DEF CommitsTo
  <2>2. last \in 0 .. MaxSeq + 1
    BY <1>3, PipelineAssumption
  <2> QED BY <2>1, <2>2
<1>8. core' \in 0 .. MaxSeq /\ core' <= reserved
  <2>1. CASE last > next
    <3>1. last - 1 \in next .. last - 1
      BY <1>3, <1>7, <2>1
    <3>2. PICK d \in done : d.seq = last - 1
      BY <1>1, <3>1 DEF CommitsTo
    <3> QED BY <1>5, <1>7, <2>1, <3>2, PipelineAssumption
  <2>2. CASE ~(last > next)
    BY <1>3, <1>7, <2>2 DEF TypeOK, Ordered
  <2> QED BY <2>1, <2>2
<1>9. prepared' \subseteq Publication /\ Unique(prepared') /\ store' \subseteq Packet
  BY <1>1, <1>3, PreparedAfter, StoreAfter DEF TypeOK
<1>10. TypeOK'
  <2>1. posted' \in Seq(Publication) /\ staged' \subseteq staged
    BY <1>1 DEF Offered
  <2>2. mapped' \subseteq 1 .. MaxSeq
    BY <1>3, <1>6 DEF TypeOK, Publication
  <2>3. staged' \subseteq [seq : 1 .. MaxSeq, packets : 0 .. MaxPackets]
    BY <1>3, <2>1 DEF TypeOK
  <2>4. reserved' \in 0 .. MaxSeq /\ alive' \in BOOLEAN /\ reused' \in BOOLEAN
        /\ size' \in [1 .. MaxSeq -> {Unused} \cup 0 .. MaxPackets]
    BY <1>2, <1>3 DEF TypeOK
  <2> QED BY <1>7, <1>8, <1>9, <2>1, <2>2, <2>3, <2>4 DEF TypeOK
<1>11. \A x \in Waiting' :
         /\ \E w \in Waiting : w.seq = x.seq /\ w.packets = x.packets
         /\ \A d \in done : d.seq # x.seq
  BY <1>1, WaitingAfter
<1>12. Ordered'
  BY <1>2, <1>3, <1>8, <1>11 DEF Ordered
<1>13. Tracked'
  <2>1. /\ \A i, j \in 1 .. Len(posted') : posted'[i].seq = posted'[j].seq => i = j
        /\ \A s \in staged' : \E p \in Elements(posted') : p.seq = s.seq /\ p.packets = s.packets
    BY <1>1 DEF Offered
  <2>2. \A p, q \in prepared' : p.seq = q.seq => p = q
    BY <1>9 DEF Unique
  <2>3. \A p \in Elements(posted'), q \in prepared' : p.seq # q.seq
    BY <1>1, PreparedAfter DEF Offered
  <2>4. \A x \in Waiting' : size'[x.seq] = x.packets
    BY <1>2, <1>3, <1>11 DEF Tracked
  <2> QED BY <1>2, <2>1, <2>2, <2>3, <2>4 DEF Tracked
<1>14. NumbersUnique'
  BY <1>2 DEF Base, NumbersUnique
<1> QED BY <1>10, <1>12, <1>13, <1>14 DEF Base

--------------------------------------------------------------------------------
(***************************************************************************)
(* Publishing                                                              *)
(***************************************************************************)

\* The tentative number follows the last reserved one and is new.
LEMMA TentativeIsNew ==
  ASSUME Base, Tentative <= MaxSeq
  PROVE  /\ Tentative = reserved + 1 /\ Tentative \in 1 .. MaxSeq
         /\ Tentative - 1 = reserved /\ reserved \in Nat
         /\ size[Tentative] = Unused
         /\ \A p \in Waiting : p.seq # Tentative /\ p.seq \in 1 .. MaxSeq
<1>1. reserved \in 0 .. MaxSeq /\ core \in 0 .. MaxSeq /\ core <= reserved
  BY DEF Base, TypeOK, Ordered
<1>2. Tentative = reserved + 1
  BY <1>1 DEF Tentative
<1>3. Tentative \in 1 .. MaxSeq /\ Tentative - 1 = reserved /\ ~(Tentative <= reserved)
  BY <1>1, <1>2, PipelineAssumption
<1>4. \A p \in Waiting : p \in Publication /\ p.seq \in 1 .. MaxSeq
  <2>1. \A p \in Elements(posted) : p \in Publication
    BY DEF Base, TypeOK, Elements
  <2>2. \A p \in Publication : p.seq \in 1 .. MaxSeq
    BY DEF Publication
  <2> QED BY <2>1, <2>2 DEF Base, TypeOK, Waiting
<1> QED BY <1>1, <1>2, <1>3, <1>4 DEF Base, Ordered

\* A call that gets the tentative number: the history of it.
LEMMA GivesFacts ==
  ASSUME Base, Tentative <= MaxSeq, NEW k \in 0 .. MaxPackets, Gives(Tentative, k)
  PROVE  /\ ~reused' /\ reused' \in BOOLEAN
         /\ size' \in [1 .. MaxSeq -> {Unused} \cup 0 .. MaxPackets]
         /\ size'[Tentative] = k
         /\ \A n \in 1 .. MaxSeq : n # Tentative => size'[n] = size[n]
<1>1. size[Tentative] = Unused /\ Tentative \in 1 .. MaxSeq
  BY TentativeIsNew
<1>2. reused' = (reused \/ size[Tentative] # Unused) /\ ~reused
  BY DEF Gives, Base, NumbersUnique
<1>3. reused' = FALSE
  BY <1>1, <1>2, Zenon
<1>4. /\ size' = [size EXCEPT ![Tentative] = k]
      /\ size \in [1 .. MaxSeq -> {Unused} \cup 0 .. MaxPackets]
  BY DEF Gives, Base, TypeOK
<1> QED BY <1>1, <1>3, <1>4

\* A call that posts nothing: it fails, or it advertises its number at once.
LEMMA PlainCallKeepsBase ==
  ASSUME Base, Tentative <= MaxSeq, NEW k \in 0 .. MaxPackets,
         store' \subseteq store \cup Names(Tentative, k),
         reserved' \in {reserved, Tentative}, next' \in 0 .. MaxSeq + 1,
         mapped' \in {mapped, mapped \cup {Tentative}},
         \/ UNCHANGED <<core, size, reused>>
         \/ /\ core' = Tentative /\ reserved' = Tentative
            /\ Gives(Tentative, k),
         UNCHANGED <<staged, posted, prepared, alive>>
  PROVE  Base'
<1>1. /\ Tentative = reserved + 1 /\ Tentative \in 1 .. MaxSeq /\ reserved \in Nat
      /\ \A p \in Waiting : p.seq # Tentative /\ p.seq \in 1 .. MaxSeq
  BY TentativeIsNew
<1>2. /\ reserved' \in 0 .. MaxSeq /\ reserved <= reserved'
      /\ store' \subseteq Packet /\ Waiting' = Waiting /\ mapped' \subseteq 1 .. MaxSeq
  <2>1. Names(Tentative, k) \subseteq Packet
    BY <1>1, NamesFacts
  <2> QED BY <1>1, <2>1 DEF Base, TypeOK, Waiting
<1>3. CASE UNCHANGED <<core, size, reused>>
  <2>1. TypeOK'
    BY <1>2, <1>3 DEF Base, TypeOK
  <2>2. Ordered'
    <3>1. \A n \in Nat : n <= reserved => n <= reserved'
      BY <1>1, <1>2
    <3>2. core \in Nat
      BY DEF Base, TypeOK
    <3> QED BY <1>1, <1>2, <1>3, <3>1, <3>2 DEF Base, Ordered
  <2> QED BY <1>2, <1>3, <2>1, <2>2 DEF Base, Tracked, NumbersUnique
<1>4. CASE core' = Tentative /\ reserved' = Tentative /\ Gives(Tentative, k)
  <2>1. TypeOK' /\ NumbersUnique'
    BY <1>1, <1>2, <1>4, GivesFacts DEF Base, TypeOK, NumbersUnique
  <2>2. Ordered'
    <3>1. \A n \in 1 .. MaxSeq : n <= reserved => n <= reserved'
      BY <1>1, <1>2
    <3>3. core' <= reserved' /\ Tentative <= reserved'
      BY <1>1, <1>4
    <3>4. \A n \in 1 .. MaxSeq : size'[n] # Unused => n <= reserved'
      BY <1>4, <3>1, <3>3, GivesFacts DEF Base, Ordered
    <3> QED BY <1>1, <1>2, <1>4, <3>1, <3>3, <3>4 DEF Base, Ordered
  <2>3. Tracked'
    BY <1>1, <1>2, <1>4, GivesFacts DEF Base, Tracked
  <2> QED BY <2>1, <2>2, <2>3 DEF Base
<1> QED BY <1>3, <1>4

\* The PreparedPublication that prepareAndStageAsyncPublication posts.
NewPub(k) == [seq |-> Tentative, packets |-> k, stored |-> k > 0, retry |-> FALSE]

\* It is a publication of the tentative number, and it is posted last.
LEMMA NewPubFacts ==
  ASSUME Base, Tentative <= MaxSeq, NEW k \in 0 .. MaxPackets
  PROVE  /\ NewPub(k) \in Publication
         /\ NewPub(k).seq = Tentative /\ NewPub(k).packets = k
         /\ NewPub(k).stored <=> k > 0
         /\ Append(posted, NewPub(k)) \in Seq(Publication)
         /\ Elements(Append(posted, NewPub(k))) = Elements(posted) \cup {NewPub(k)}
<1> DEFINE flag == k > 0
<1>1. flag \in BOOLEAN
  BY PipelineAssumption
<1>2. NewPub(k) = [seq |-> Tentative, packets |-> k, stored |-> flag, retry |-> FALSE]
  BY DEF NewPub
<1> HIDE DEF flag
<1>3. /\ NewPub(k) \in Publication /\ NewPub(k).seq = Tentative /\ NewPub(k).packets = k
      /\ NewPub(k).stored = flag
  BY <1>1, <1>2, TentativeIsNew DEF Publication
<1> DEFINE a == NewPub(k)
           q == Append(posted, a)
<1>4. a \in Publication /\ posted \in Seq(Publication)
  BY <1>3 DEF Base, TypeOK
<1> HIDE DEF a
<1>5. /\ q \in Seq(Publication) /\ Len(posted) \in Nat /\ Len(q) = Len(posted) + 1
      /\ q[Len(posted) + 1] = a /\ \A i \in 1 .. Len(posted) : q[i] = posted[i]
  BY <1>4
<1> HIDE DEF q
<1>6. Elements(q) = Elements(posted) \cup {a}
  <2>1. \A i \in 1 .. Len(q) : i \in 1 .. Len(posted) \/ i = Len(posted) + 1
    BY <1>5
  <2>2. Len(posted) + 1 \in 1 .. Len(q) /\ \A i \in 1 .. Len(posted) : i \in 1 .. Len(q)
    BY <1>5
  <2> QED BY <1>5, <2>1, <2>2 DEF Elements
<1>7. NewPub(k).stored <=> k > 0
  BY <1>3 DEF flag
<1> QED BY <1>3, <1>5, <1>6, <1>7 DEF a, q

\* publishAsync keeps the numbers in order and the publications in place.
LEMMA PublishAsyncKeepsBase ==
  ASSUME Base, NEW k \in 0 .. MaxPackets, PublishAsync(k)
  PROVE  Base'
<1>1. /\ Tentative <= MaxSeq /\ alive /\ UNCHANGED <<core, prepared, mapped, alive>>
      /\ Tentative = reserved + 1 /\ Tentative - 1 = reserved /\ Tentative \in 1 .. MaxSeq
      /\ reserved \in Nat /\ next \in 0 .. MaxSeq + 1
  BY TentativeIsNew DEF PublishAsync, Base, TypeOK
<1>2. CASE /\ store' \subseteq store \cup Names(Tentative, k)
           /\ reserved' = Tentative - 1
           /\ UNCHANGED <<next, staged, posted, size, reused>>
  BY <1>1, <1>2, PlainCallKeepsBase
<1>3. CASE /\ store' \subseteq store \cup Names(Tentative, k)
           /\ reserved' = Tentative
           /\ next' = IF next = 0 THEN Tentative ELSE next
           /\ staged' = staged \cup {[seq |-> Tentative, packets |-> k]}
           /\ posted' = Append(posted, NewPub(k))
           /\ Gives(Tentative, k)
  <2> DEFINE a == NewPub(k)
  <2>1. /\ a \in Publication /\ a.seq = Tentative /\ a.packets = k
        /\ posted' \in Seq(Publication) /\ Elements(posted') = Elements(posted) \cup {a}
    BY <1>1, <1>3, NewPubFacts
  <2> HIDE DEF a
  <2>2. Waiting' = Waiting \cup {a}
    BY <1>1, <2>1 DEF Waiting
  <2>3. \A p \in Waiting : p.seq # Tentative /\ p.seq \in 1 .. MaxSeq
    BY <1>1, TentativeIsNew
  <2>4. TypeOK' /\ NumbersUnique'
    <3>1. store' \subseteq Packet
      BY <1>1, <1>3, NamesFacts DEF Base, TypeOK
    <3>2. next' \in 0 .. MaxSeq + 1 /\ reserved' \in 0 .. MaxSeq
      <4>1. Tentative \in 0 .. MaxSeq + 1 /\ Tentative \in 0 .. MaxSeq
        BY <1>1, PipelineAssumption
      <4> QED BY <1>1, <1>3, <4>1
    <3>3. staged' \subseteq [seq : 1 .. MaxSeq, packets : 0 .. MaxPackets]
      BY <1>1, <1>3 DEF Base, TypeOK
    <3> QED BY <1>1, <1>3, <2>1, <3>1, <3>2, <3>3, GivesFacts DEF Base, TypeOK, NumbersUnique
  <2>5. Ordered'
    <3>1. \A n \in 1 .. MaxSeq : n <= reserved => n <= reserved'
      BY <1>1, <1>3
    <3>3. core' <= reserved' /\ Tentative <= reserved'
      BY <1>1, <1>3 DEF Base, Ordered, TypeOK
    <3>4. \A n \in 1 .. MaxSeq : size'[n] # Unused => n <= reserved'
      BY <1>1, <1>3, <3>1, <3>3, GivesFacts DEF Base, Ordered
    <3> QED BY <1>1, <2>1, <2>2, <2>3, <3>1, <3>3, <3>4 DEF Base, Ordered
  <2>6. Tracked'
    <3>1. \A i, j \in 1 .. Len(posted') : posted'[i].seq = posted'[j].seq => i = j
      <4>1. /\ posted \in Seq(Publication) /\ Len(posted) \in Nat /\ a \in Publication
            /\ posted' = Append(posted, a)
        BY <1>3, <2>1 DEF Base, TypeOK, a
      <4>2. /\ Len(posted') = Len(posted) + 1 /\ posted'[Len(posted) + 1] = a
            /\ \A i \in 1 .. Len(posted) : posted'[i] = posted[i]
            /\ \A i \in 1 .. Len(posted') : i \in 1 .. Len(posted) \/ i = Len(posted) + 1
        BY <4>1
      <4>3. \A i \in 1 .. Len(posted) : posted[i].seq # a.seq
        BY <2>1, <2>3 DEF Waiting, Elements
      <4> QED BY <4>2, <4>3 DEF Base, Tracked
    <3>2. \A p \in Elements(posted'), q \in prepared' : p.seq # q.seq
      BY <1>1, <2>1, <2>3 DEF Base, Tracked, Waiting
    <3>3. \A p \in Waiting' : size'[p.seq] = p.packets
      BY <1>1, <1>3, <2>1, <2>2, <2>3, GivesFacts, TentativeIsNew DEF Base, Tracked
    <3>4. \A s \in staged' : \E p \in Elements(posted') : p.seq = s.seq /\ p.packets = s.packets
      BY <1>3, <2>1 DEF Base, Tracked
    <3> QED BY <1>1, <3>1, <3>2, <3>3, <3>4 DEF Base, Tracked
  <2> QED BY <2>4, <2>5, <2>6 DEF Base
<1>4. \A i \in InsertBatch(store, Tentative, k) : i.store \subseteq store \cup Names(Tentative, k)
  BY <1>1, InsertOutcome DEF Inserts
<1> QED BY <1>2, <1>3, <1>4 DEF PublishAsync, NewPub

\* publish(name, value)
LEMMA PublishBytesKeepsBase ==
  ASSUME Base, NEW k \in 0 .. MaxPackets, PublishBytes(k)
  PROVE  Base'
<1> DEFINE p == [seq |-> Tentative, packets |-> k, stored |-> FALSE, retry |-> FALSE]
<1>1. /\ Tentative <= MaxSeq /\ UNCHANGED <<staged, posted, prepared, alive>>
      /\ Tentative \in 1 .. MaxSeq /\ next \in 0 .. MaxSeq + 1
      /\ Tentative + 1 \in 0 .. MaxSeq + 1
  BY TentativeIsNew, PipelineAssumption DEF PublishBytes, Base, TypeOK
<1>2. p \in Publication /\ p.seq = Tentative /\ p.packets = k
  BY <1>1 DEF Publication
<1>3. \A o \in Commit(store, p) : o.store \subseteq store \cup Names(Tentative, k)
  BY <1>2, CommitOutcome
<1>4. CASE /\ store' \subseteq store \cup Names(Tentative, k)
           /\ mapped' \in {mapped, mapped \cup {Tentative}}
           /\ UNCHANGED <<core, reserved, next, size, reused>>
  BY <1>1, <1>4, PlainCallKeepsBase
<1>5. CASE /\ store' \subseteq store \cup Names(Tentative, k)
           /\ mapped' \in {mapped, mapped \cup {Tentative}}
           /\ core' = Tentative /\ reserved' = Tentative
           /\ next' = Tentative + 1
           /\ Gives(Tentative, k)
  BY <1>1, <1>5, PlainCallKeepsBase
<1>6. \A flag : mapped \cup { n \in {Tentative} : flag } \in {mapped, mapped \cup {Tentative}}
  <2> SUFFICES ASSUME NEW flag
               PROVE  mapped \cup { n \in {Tentative} : flag } \in {mapped, mapped \cup {Tentative}}
    OBVIOUS
  <2>1. CASE flag
    <3>1. { n \in {Tentative} : flag } = {Tentative}
      BY <2>1
    <3> QED BY <3>1
  <2>2. CASE ~flag
    <3>1. { n \in {Tentative} : flag } = {}
      BY <2>2
    <3> QED BY <3>1
  <2> QED BY <2>1, <2>2
<1> QED BY <1>3, <1>4, <1>5, <1>6 DEF PublishBytes

\* publish(name) and publishPacket
LEMMA PublishNowKeepsBase ==
  ASSUME Base, NEW k \in {0, 1}, PublishNow(k)
  PROVE  Base'
<1>1. /\ Tentative <= MaxSeq /\ UNCHANGED <<staged, posted, prepared, alive>>
      /\ reserved' = Tentative /\ next' = IF next = 0 THEN Tentative ELSE next
  BY DEF PublishNow
<1>2. k \in 0 .. MaxPackets /\ next' \in 0 .. MaxSeq + 1
  BY <1>1, TentativeIsNew, PipelineAssumption DEF Base, TypeOK
<1>3. CASE store' \subseteq store \cup Names(Tentative, k) /\ UNCHANGED <<core, mapped, size, reused>>
  BY <1>1, <1>2, <1>3, PlainCallKeepsBase
<1>4. CASE /\ store' = store \cup Names(Tentative, k)
           /\ mapped' = mapped \cup {Tentative}
           /\ core' = Tentative
           /\ Gives(Tentative, k)
  BY <1>1, <1>2, <1>4, PlainCallKeepsBase
<1> QED BY <1>3, <1>4 DEF PublishNow

\* ~SVSPubSub, and what is run after it.
LEMMA DestroyKeepsBase ==
  ASSUME Base, Destroy
  PROVE  Base'
<1>1. /\ ~alive' /\ alive' \in BOOLEAN /\ store' \subseteq store /\ staged' = {} /\ prepared' = {}
      /\ UNCHANGED <<core, reserved, next, posted, mapped, size, reused>>
  BY DEF Destroy
<1>2. Waiting' \subseteq Waiting
  BY <1>1 DEF Waiting
<1>3. TypeOK' /\ NumbersUnique'
  BY <1>1 DEF Base, TypeOK, NumbersUnique
<1> QED BY <1>1, <1>2, <1>3 DEF Base, Ordered, Tracked

\* A closure that runs after the destructor does nothing but leave the queue.
LEMMA DropPostedKeepsBase ==
  ASSUME Base, RunPosted, ~alive
  PROVE  /\ Base' /\ Waiting' \subseteq Waiting
         /\ UNCHANGED <<core, reserved, next, staged, prepared, store, mapped, alive, size, reused>>
<1>1. /\ posted # <<>> /\ posted' = Tail(posted) /\ posted \in Seq(Publication)
      /\ UNCHANGED <<core, reserved, next, staged, prepared, store, mapped, alive, size, reused>>
  BY DEF RunPosted, Base, TypeOK
<1>2. \A i, j \in 1 .. Len(posted) : posted[i].seq = posted[j].seq => i = j
  BY DEF Base, Tracked
<1>3. /\ posted' \in Seq(Publication) /\ Elements(posted') \subseteq Elements(posted)
      /\ \A i, j \in 1 .. Len(posted') : posted'[i].seq = posted'[j].seq => i = j
  BY <1>1, <1>2, HeadAndTail
<1>4. Waiting' \subseteq Waiting
  BY <1>1, <1>3 DEF Waiting
<1>5. TypeOK' /\ NumbersUnique'
  BY <1>1, <1>3 DEF Base, TypeOK, NumbersUnique
<1> QED BY <1>1, <1>3, <1>4, <1>5 DEF Base, Ordered, Tracked

\* The steps of the pipeline: those of the Face thread are commits while the
\* object lives.
LEMMA StepCases ==
  ASSUME Base, [Next]_vars
  PROVE  \/ \E k \in 0 .. MaxPackets : PublishAsync(k) \/ PublishBytes(k)
         \/ \E k \in {0, 1} : PublishNow(k)
         \/ CommitStep
         \/ RunPosted /\ ~alive
         \/ Destroy
         \/ UNCHANGED vars
BY RunPostedOffers, RetryOffers DEF Next

\* Base is inductive: every step keeps it, whatever is called and throws.
LEMMA NextKeepsBase == Base /\ [Next]_vars => Base'
<1> SUFFICES ASSUME Base, [Next]_vars PROVE Base'
  OBVIOUS
<1>1. CASE UNCHANGED vars
  BY <1>1 DEF vars, Base, TypeOK, Ordered, Tracked, NumbersUnique, Waiting
<1> QED BY <1>1, StepCases, PublishAsyncKeepsBase, PublishBytesKeepsBase, PublishNowKeepsBase,
           CommitKeepsBase, DropPostedKeepsBase, DestroyKeepsBase

\* A new pipeline satisfies it.
LEMMA InitBase == Init => Base
<1> SUFFICES ASSUME Init PROVE Base
  OBVIOUS
<1>1. Waiting = {}
  BY DEF Init, Waiting, Elements
<1>2. TypeOK
  <2>1. 0 \in 0 .. MaxSeq /\ 0 \in 0 .. MaxSeq + 1
    BY PipelineAssumption
  <2>2. posted \in Seq(Publication) /\ prepared \subseteq Publication
    BY DEF Init
  <2>3. size \in [1 .. MaxSeq -> {Unused} \cup 0 .. MaxPackets]
    BY DEF Init
  <2> QED BY <2>1, <2>2, <2>3 DEF Init, TypeOK
<1>3. \A n \in 1 .. MaxSeq : size[n] = Unused
  BY DEF Init
<1>4. Ordered /\ Tracked
  BY <1>1, <1>3 DEF Init, Ordered, Tracked
<1> QED BY <1>2, <1>4 DEF Init, Base, NumbersUnique

--------------------------------------------------------------------------------
(***************************************************************************)
(* Whatever is called and whatever throws                                  *)
(***************************************************************************)

\* In every state of the pipeline the numbers are in order and every
\* publication on its way is in one place.
THEOREM PipelineInvariance == Spec => []Base
BY InitBase, NextKeepsBase, PTL DEF Spec

\* The members of the pipeline keep their shape.
THEOREM PipelineTypeCorrect == Spec => []TypeOK
<1>1. Base => TypeOK
  BY DEF Base
<1> QED BY <1>1, PipelineInvariance, PTL

\* No two publications get the same sequence number, for any mix of publishing
\* calls, any exceptions and any number of packets.
THEOREM NumbersNeverReused == Spec => []NumbersUnique
<1>1. Base => NumbersUnique
  BY DEF Base
<1> QED BY <1>1, PipelineInvariance, PTL

--------------------------------------------------------------------------------
(***************************************************************************)
(* While erase does not throw: what has a mapping is stored, or will be    *)
(***************************************************************************)

Stored == FlagsTrue /\ MappedIsStored

\* A packet bears the number of its publication.
LEMMA NamesSeq == \A seq, k : \A q \in Names(seq, k) : q[1] = seq
BY DEF Names

\* A call that touches only packets of the tentative number, and gives that
\* number a size or a stored publication only together with its packets.
LEMMA CallKeepsStored ==
  ASSUME Base, Stored, Tentative <= MaxSeq, NEW k \in 0 .. MaxPackets,
         alive' => alive,
         \A q \in store : q[1] # Tentative => q \in store',
         \A n \in 1 .. MaxSeq : n # Tentative => size'[n] = size[n],
         \A n \in mapped' : n \in mapped \/ n = Tentative,
         \A p \in Waiting' : p \in Waiting \/ (p.seq = Tentative /\ p.packets = k),
         prepared' = prepared,
         (size'[Tentative] # Unused \/ \E p \in Waiting' : p.seq = Tentative /\ p.stored)
           => Names(Tentative, k) \subseteq store' /\ size'[Tentative] = k
  PROVE  Stored'
<1>1. /\ mapped \subseteq 1 .. MaxSeq
      /\ \A p \in Waiting : p.seq # Tentative
  BY TentativeIsNew DEF Base, TypeOK
<1>2. FlagsTrue'
  <2> SUFFICES ASSUME NEW p \in Waiting', alive', p.stored
               PROVE  Names(p.seq, p.packets) \subseteq store'
    BY DEF FlagsTrue
  <2>1. CASE p \in Waiting
    BY <1>1, <2>1, NamesSeq DEF Stored, FlagsTrue
  <2>2. CASE p \notin Waiting
    BY <2>2
  <2> QED BY <2>1, <2>2
<1>3. MappedIsStored'
  <2> SUFFICES ASSUME NEW n \in mapped', alive', size'[n] # Unused
               PROVE  \/ Names(n, size'[n]) \subseteq store'
                      \/ \E p \in prepared : p.seq = n /\ ~p.stored
    BY DEF MappedIsStored
  <2>1. CASE n # Tentative
    <3>1. size'[n] = size[n] /\ n \in mapped
      BY <1>1, <2>1
    <3>2. \/ Names(n, size[n]) \subseteq store
          \/ \E p \in prepared : p.seq = n /\ ~p.stored
      BY <3>1 DEF Stored, MappedIsStored
    <3> QED BY <2>1, <3>1, <3>2, NamesSeq
  <2>2. CASE n = Tentative
    BY <2>2
  <2> QED BY <2>1, <2>2
<1> QED BY <1>2, <1>3 DEF Stored

\* publishAsync stores before it posts, and its rollback takes its own packets.
LEMMA PublishAsyncKeepsStored ==
  ASSUME Base, Stored, "erase" \notin MayThrow, NEW k \in 0 .. MaxPackets, PublishAsync(k)
  PROVE  Stored'
<1>1. /\ Tentative <= MaxSeq /\ UNCHANGED <<core, prepared, mapped, alive>>
      /\ Tentative \in 1 .. MaxSeq /\ size[Tentative] = Unused
      /\ \A p \in Waiting : p.seq # Tentative
  BY TentativeIsNew DEF PublishAsync
<1>2. ASSUME NEW i \in InsertBatch(store, Tentative, k)
      PROVE  /\ i.ok => i.store = store \cup Names(Tentative, k)
             /\ \A q \in store : q[1] # Tentative => q \in i.store
  <2>1. /\ i.ok => i.store = store \cup Names(Tentative, k)
        /\ ~i.ok => \E j \in 0 .. k : i.store = store \ Names(Tentative, j)
    <3>1. Inserts(store, Tentative, k, i)
      BY <1>1, InsertOutcome
    <3> QED BY <3>1 DEF Inserts
  <2> QED BY <2>1, NamesSeq
<1>3. CASE /\ \A q \in store : q[1] # Tentative => q \in store'
           /\ UNCHANGED <<posted, size>>
  <2>1. Waiting' = Waiting
    BY <1>1, <1>3 DEF Waiting
  <2> QED BY <1>1, <1>3, <2>1, CallKeepsStored
<1>4. CASE /\ store' = store \cup Names(Tentative, k)
           /\ posted' = Append(posted, NewPub(k))
           /\ Gives(Tentative, k)
  <2> DEFINE a == NewPub(k)
  <2>1. a.seq = Tentative /\ a.packets = k /\ Elements(posted') = Elements(posted) \cup {a}
    BY <1>1, <1>4, NewPubFacts
  <2> HIDE DEF a
  <2>2. Waiting' = Waiting \cup {a}
    BY <1>1, <2>1 DEF Waiting
  <2>3. size'[Tentative] = k /\ \A n \in 1 .. MaxSeq : n # Tentative => size'[n] = size[n]
    BY <1>1, <1>4, GivesFacts
  <2> QED BY <1>1, <1>4, <2>1, <2>2, <2>3, CallKeepsStored
<1> QED BY <1>2, <1>3, <1>4 DEF PublishAsync, NewPub

\* publish(name, value), publish(name) and publishPacket return a number after
\* they have stored.
LEMMA PublishBytesKeepsStored ==
  ASSUME Base, Stored, "erase" \notin MayThrow, NEW k \in 0 .. MaxPackets, PublishBytes(k)
  PROVE  Stored'
<1> DEFINE p == [seq |-> Tentative, packets |-> k, stored |-> FALSE, retry |-> FALSE]
<1>1. /\ Tentative <= MaxSeq /\ UNCHANGED <<staged, posted, prepared, alive>>
      /\ Tentative \in 1 .. MaxSeq /\ size[Tentative] = Unused
      /\ \A w \in Waiting : w.seq # Tentative
  BY TentativeIsNew DEF PublishBytes
<1>2. p \in Publication /\ p.seq = Tentative /\ p.packets = k /\ ~p.stored
  BY <1>1 DEF Publication
<1>3. Waiting' = Waiting
  BY <1>1 DEF Waiting
<1> HIDE DEF p
<1>4. ASSUME NEW o \in Commit(store, p)
      PROVE  /\ o.ok => o.store = store \cup Names(Tentative, k)
             /\ \A q \in store : q[1] # Tentative => q \in o.store
  <2>1. o.ok => o.store = store \cup Names(Tentative, k)
    BY <1>2, CommitOutcome
  <2>2. ASSUME ~o.ok
        PROVE  o.store = store \/ \E j \in 0 .. k : o.store = store \ Names(Tentative, j)
    <3>1. \/ o.store = store /\ (o.stored <=> p.stored)
          \/ /\ ~o.stored
             /\ \E j \in 0 .. p.packets :
                  /\ o.store = store \ Names(p.seq, j)
                  /\ p.stored => j = p.packets
      BY <1>2, <2>2, CommitOutcome
    <3> QED BY <1>2, <3>1
  <2> QED BY <2>1, <2>2, NamesSeq
<1>5. CASE /\ \A q \in store : q[1] # Tentative => q \in store'
           /\ mapped' \subseteq mapped \cup {Tentative}
           /\ UNCHANGED size
  BY <1>1, <1>3, <1>5, CallKeepsStored
<1>6. CASE /\ store' = store \cup Names(Tentative, k)
           /\ mapped' \subseteq mapped \cup {Tentative}
           /\ Gives(Tentative, k)
  <2>1. size'[Tentative] = k /\ \A n \in 1 .. MaxSeq : n # Tentative => size'[n] = size[n]
    BY <1>1, <1>6, GivesFacts
  <2> QED BY <1>1, <1>3, <1>6, <2>1, CallKeepsStored
<1>7. \A flag : mapped \cup { n \in {Tentative} : flag } \subseteq mapped \cup {Tentative}
  OBVIOUS
<1> QED BY <1>4, <1>5, <1>6, <1>7 DEF PublishBytes, p

\* The same for publish(name) and publishPacket, which never erase.
LEMMA PublishNowKeepsStored ==
  ASSUME Base, Stored, NEW k \in {0, 1}, PublishNow(k)
  PROVE  Stored'
<1>1. /\ Tentative <= MaxSeq /\ UNCHANGED <<staged, posted, prepared, alive>>
      /\ k \in 0 .. MaxPackets
  BY PipelineAssumption DEF PublishNow
<1>2. size[Tentative] = Unused /\ \A w \in Waiting : w.seq # Tentative
  BY <1>1, TentativeIsNew
<1>3. Waiting' = Waiting
  BY <1>1 DEF Waiting
<1>4. CASE store \subseteq store' /\ UNCHANGED <<mapped, size>>
  BY <1>1, <1>2, <1>3, <1>4, CallKeepsStored
<1>5. CASE /\ store' = store \cup Names(Tentative, k)
           /\ mapped' = mapped \cup {Tentative}
           /\ Gives(Tentative, k)
  <2>1. size'[Tentative] = k /\ \A n \in 1 .. MaxSeq : n # Tentative => size'[n] = size[n]
    BY <1>1, <1>5, GivesFacts
  <2> QED BY <1>1, <1>2, <1>3, <1>5, <2>1, CallKeepsStored
<1> QED BY <1>4, <1>5 DEF PublishNow

\* A commit leaves the packets of other publications alone, installs a mapping
\* for what it stored, and its rollback clears the flag.
LEMMA CommitKeepsStored ==
  ASSUME Base, Stored, "erase" \notin MayThrow, CommitStep
  PROVE  Stored'
<1>1. PICK pubs \in SUBSET Publication, last \in next .. MaxSeq + 1 :
        Offered(pubs) /\ Unique(pubs) /\ CommitsTo(pubs, last)
  BY CommitFacts
<1>2. /\ alive /\ UNCHANGED <<reserved, alive, size, reused>>
  BY DEF CommitStep
<1> DEFINE done == Done(pubs, last)
<1>3. store \subseteq Packet /\ done \subseteq pubs
  BY DEF Base, TypeOK, Done
<1>4. \A p \in pubs : /\ p.stored => Names(p.seq, p.packets) \subseteq store
                      /\ size[p.seq] = p.packets
  <2> SUFFICES ASSUME NEW p \in pubs
               PROVE  /\ p.stored => Names(p.seq, p.packets) \subseteq store
                      /\ size[p.seq] = p.packets
    OBVIOUS
  <2>1. PICK w \in Waiting : SamePub(p, w)
    BY <1>1 DEF Offered
  <2> QED BY <1>2, <2>1 DEF SamePub, Stored, FlagsTrue, Base, Tracked
<1>5. \A q \in store : (\A p \in pubs : q[1] # p.seq) => q \in store'
  BY <1>1, <1>3, StoreAfter
<1>6. /\ \A p \in done : Names(p.seq, p.packets) \subseteq store'
      /\ \A x \in prepared' : x.stored => Names(x.seq, x.packets) \subseteq store'
  BY <1>1, <1>3, <1>4, StoreAfter
<1>7. FlagsTrue'
  <2>1. ASSUME NEW x \in Elements(posted'), x.stored
        PROVE  Names(x.seq, x.packets) \subseteq store'
    <3>1. x \in Waiting /\ \A p \in pubs : x.seq # p.seq
      BY <1>1 DEF Offered, Waiting
    <3>2. Names(x.seq, x.packets) \subseteq store
      BY <1>2, <2>1, <3>1 DEF Stored, FlagsTrue
    <3> QED BY <1>5, <3>1, <3>2, NamesSeq
  <2>2. Waiting' = Elements(posted') \cup prepared'
    BY DEF Waiting
  <2> QED BY <1>6, <2>1, <2>2 DEF FlagsTrue
<1>8. MappedIsStored'
  <2> SUFFICES ASSUME NEW n \in mapped', size[n] # Unused
               PROVE  \/ Names(n, size[n]) \subseteq store'
                      \/ \E x \in prepared' : x.seq = n /\ ~x.stored
    BY <1>2 DEF MappedIsStored
  <2>1. CASE \E p \in pubs : p.seq = n
    <3>1. PICK p \in pubs : p.seq = n
      BY <2>1
    <3>2. CASE p \in done
      BY <1>4, <1>6, <3>1, <3>2
    <3>3. CASE p \notin done
      <4>1. PICK x \in prepared' : x.seq = p.seq /\ x.packets = p.packets
        BY <1>1, <3>3, PreparedAfter
      <4> QED BY <1>4, <1>6, <3>1, <4>1
    <3> QED BY <3>2, <3>3
  <2>2. CASE ~\E p \in pubs : p.seq = n
    <3>1. n \in mapped
      BY <1>1, <2>2 DEF CommitsTo
    <3>2. \A p \in prepared : p.seq # n
      <4> SUFFICES ASSUME NEW p \in prepared PROVE p.seq # n
        OBVIOUS
      <4>1. p \in Waiting /\ p \notin Elements(posted)
        BY DEF Waiting, Base, Tracked
      <4>2. PICK r \in pubs : SamePub(r, p)
        BY <1>1, <4>1 DEF Offered
      <4> QED BY <2>2, <4>2 DEF SamePub
    <3>3. Names(n, size[n]) \subseteq store
      BY <1>2, <3>1, <3>2 DEF Stored, MappedIsStored
    <3> QED BY <1>5, <2>2, <3>3, NamesSeq
  <2> QED BY <2>1, <2>2
<1> QED BY <1>7, <1>8 DEF Stored

\* The destructor erases only packets of what is on its way.
LEMMA DestroyErases ==
  ASSUME Base, Destroy
  PROVE  /\ ~alive' /\ UNCHANGED <<core, mapped, size>>
         /\ \A q \in store : q \in store' \/ \E p \in Waiting : q[1] = p.seq
<1> DEFINE batches == { [seq |-> p.seq, packets |-> p.packets] :
                          p \in staged \cup { q \in prepared : q.stored } }
<1>1. PICK left \in [batches -> 0 .. MaxPackets] :
        store' = store \ UNION { Names(b.seq, b.packets) \ Names(b.seq, left[b]) : b \in batches }
  BY DEF Destroy
<1>2. \A b \in batches : \E p \in staged \cup prepared : b.seq = p.seq
  OBVIOUS
<1> HIDE DEF batches
<1>3. \A q \in store : q \in store' \/ \E b \in batches : q \in Names(b.seq, b.packets)
  BY <1>1
<1>4. \A q \in store : q \in store' \/ \E b \in batches : q[1] = b.seq
  BY <1>3, NamesSeq
<1>5. \A s \in staged \cup prepared : \E p \in Waiting : p.seq = s.seq
  BY DEF Base, Tracked, Waiting
<1> QED BY <1>2, <1>4, <1>5 DEF Destroy

\* Every step keeps what is mapped stored, if erase does not throw.
LEMMA NextKeepsStored ==
  ASSUME "erase" \notin MayThrow
  PROVE  Base /\ Stored /\ [Next]_vars => Stored'
<1> SUFFICES ASSUME Base, Stored, [Next]_vars PROVE Stored'
  OBVIOUS
<1>1. CASE UNCHANGED vars
  BY <1>1 DEF vars, Stored, FlagsTrue, MappedIsStored, Waiting
<1>2. CASE RunPosted /\ ~alive
  BY <1>2, DropPostedKeepsBase DEF Stored, FlagsTrue, MappedIsStored
<1>3. CASE Destroy
  BY <1>3, DestroyErases DEF Stored, FlagsTrue, MappedIsStored
<1> QED BY <1>1, <1>2, <1>3, StepCases, PublishAsyncKeepsStored, PublishBytesKeepsStored,
           PublishNowKeepsStored, CommitKeepsStored

\* A new pipeline has no mapping and nothing on its way.
LEMMA InitStored == Init => Stored
<1> SUFFICES ASSUME Init PROVE Stored
  OBVIOUS
<1>1. Waiting = {} /\ mapped = {}
  BY DEF Init, Waiting, Elements
<1> QED BY <1>1 DEF Stored, FlagsTrue, MappedIsStored

\* A publication that has a mapping has all of its packets in the store, or is
\* kept with its flag cleared, so that the retry stores them again; for any mix
\* of publishing calls and any exceptions but those of erase, the ones thrown
\* after the mapping was installed included.
THEOREM MappedStaysStored ==
  ASSUME "erase" \notin MayThrow
  PROVE  Spec => []MappedIsStored
<1>1. Stored => MappedIsStored
  BY DEF Stored
<1>2. Base /\ Stored /\ [Next]_vars => Stored'
  BY NextKeepsStored
<1> QED BY <1>1, <1>2, InitStored, PipelineInvariance, PTL DEF Spec

--------------------------------------------------------------------------------
(***************************************************************************)
(* While publishAsync is the only call: the pipeline is complete           *)
(***************************************************************************)

\* A commit moves the commit head and the advertised number together.
LEMMA CommitKeepsChain ==
  ASSUME Base, Chain, CommitStep
  PROVE  Chain' /\ core' >= core
<1>1. PICK pubs \in SUBSET Publication, last \in next .. MaxSeq + 1 :
        Offered(pubs) /\ Unique(pubs) /\ CommitsTo(pubs, last)
  BY CommitFacts
<1>2. /\ alive /\ UNCHANGED <<reserved, alive, size, reused>>
  BY DEF CommitStep
<1> DEFINE done == Done(pubs, last)
<1>3. /\ next \in Nat /\ core \in Nat /\ reserved \in Nat /\ core <= reserved
      /\ last \in Nat /\ next <= last
  <2>1. next \in 0 .. MaxSeq + 1 /\ core \in 0 .. MaxSeq /\ reserved \in 0 .. MaxSeq
        /\ core <= reserved
    BY DEF Base, TypeOK, Ordered
  <2> QED BY <2>1, PipelineAssumption
<1>4. /\ core' = IF last > next THEN last - 1 ELSE core
      /\ next = 0 => last = 0
      /\ next' = last
      /\ mapped \subseteq mapped' /\ \A p \in done : p.seq \in mapped'
      /\ \A n \in next .. last - 1 : \E p \in done : p.seq = n
  BY <1>1 DEF CommitsTo
<1>5. /\ IF next = 0 THEN reserved = 0 ELSE next = core + 1
      /\ \A n \in 1 .. core : n \in mapped
      /\ \A n \in core + 1 .. reserved : \E p \in Waiting : p.seq = n
      /\ \A p \in Waiting : p.seq > core
  BY <1>2 DEF Chain
<1>6. /\ core' >= core /\ core' \in Nat
      /\ IF next' = 0 THEN reserved' = 0 ELSE next' = core' + 1
  BY <1>2, <1>3, <1>4, <1>5
<1>7. \A d \in done : d.seq <= core'
  <2>1. \A d \in done : d.seq \in next .. last - 1
    BY DEF Done
  <2> QED BY <1>3, <1>4, <2>1
<1>8. \A n \in 1 .. core' : n \in mapped'
  <2> SUFFICES ASSUME NEW n \in 1 .. core' PROVE n \in mapped'
    OBVIOUS
  <2>1. CASE n \in 1 .. core
    BY <1>4, <1>5, <2>1
  <2>2. CASE n \notin 1 .. core
    <3>1. n \in next .. last - 1
      BY <1>3, <1>4, <1>5, <1>6, <2>2
    <3> QED BY <1>4, <3>1
  <2> QED BY <2>1, <2>2
<1>9. \A n \in core' + 1 .. reserved' : \E p \in Waiting' : p.seq = n
  <2> SUFFICES ASSUME NEW n \in Nat, core' < n, n <= reserved
               PROVE  \E p \in Waiting' : p.seq = n
    <3>1. \A a, b \in Nat : \A n \in a + 1 .. b : n \in Nat /\ a < n /\ n <= b
      OBVIOUS
    <3>2. core' \in Nat /\ reserved' \in Nat /\ reserved' = reserved
      BY <1>2, <1>3, <1>6
    <3>3. \A n \in core' + 1 .. reserved' : n \in Nat /\ core' < n /\ n <= reserved
      BY <3>1, <3>2, Zenon
    <3> QED BY <3>3, Zenon
  <2>1. n \in core + 1 .. reserved /\ ~(n <= core')
    BY <1>3, <1>6
  <2>2. PICK w \in Waiting : w.seq = n
    BY <1>5, <2>1
  <2>3. \/ \E x \in Waiting' : w.seq = x.seq
        \/ \E d \in done : d.seq = w.seq
    BY <1>1, WaitingAfter
  <2> QED BY <1>7, <2>1, <2>2, <2>3
<1>10. \A x \in Waiting' : x.seq > core'
  <2> SUFFICES ASSUME NEW x \in Waiting' PROVE x.seq > core'
    OBVIOUS
  <2>1. /\ \E w \in Waiting : w.seq = x.seq
        /\ \A d \in done : d.seq # x.seq
    BY <1>1, WaitingAfter
  <2>2. x.seq \notin next .. last - 1 /\ x.seq > core
    BY <1>4, <1>5, <2>1
  <2>3. x.seq \in Nat
    <3>1. \A p \in Publication : p.seq \in Nat
      BY DEF Publication
    <3>2. Waiting \subseteq Publication
      BY DEF Base, TypeOK, Waiting, Elements
    <3> QED BY <2>1, <3>1, <3>2
  <2> QED BY <1>3, <1>4, <1>5, <2>2, <2>3
<1> QED BY <1>6, <1>8, <1>9, <1>10 DEF Chain

\* publishAsync adds the number after the last one on its way.
LEMMA PublishAsyncKeepsChain ==
  ASSUME Base, Chain, NEW k \in 0 .. MaxPackets, PublishAsync(k)
  PROVE  Chain' /\ core' = core
<1>1. /\ Tentative <= MaxSeq /\ UNCHANGED <<core, prepared, mapped, alive>>
      /\ Tentative = reserved + 1 /\ Tentative - 1 = reserved /\ reserved \in Nat
  BY TentativeIsNew DEF PublishAsync
<1>2. core \in Nat /\ core <= reserved /\ next \in Nat
  <2>1. next \in 0 .. MaxSeq + 1 /\ core \in 0 .. MaxSeq /\ core <= reserved
    BY DEF Base, TypeOK, Ordered
  <2> QED BY <2>1, PipelineAssumption
<1>3. CASE reserved' = Tentative - 1 /\ UNCHANGED <<next, posted>>
  BY <1>1, <1>3 DEF Chain, Waiting
<1>4. CASE /\ reserved' = Tentative
           /\ next' = IF next = 0 THEN Tentative ELSE next
           /\ posted' = Append(posted, NewPub(k))
  <2> DEFINE a == NewPub(k)
  <2>1. a.seq = Tentative /\ Elements(posted') = Elements(posted) \cup {a}
    BY <1>1, <1>4, NewPubFacts
  <2> HIDE DEF a
  <2>2. Waiting' = Waiting \cup {a}
    BY <1>1, <2>1 DEF Waiting
  <2>3. IF next' = 0 THEN reserved' = 0 ELSE next' = core' + 1
    BY <1>1, <1>2, <1>4 DEF Chain
  <2>4. ASSUME NEW n \in core' + 1 .. reserved', alive'
        PROVE  \E p \in Waiting' : p.seq = n
    <3>1. n \in core + 1 .. reserved \/ n = Tentative
      BY <1>1, <1>2, <1>4
    <3> QED BY <1>1, <2>1, <2>2, <2>4, <3>1 DEF Chain
  <2>5. \A p \in Waiting' : p.seq > core'
    BY <1>1, <1>2, <2>1, <2>2 DEF Chain
  <2> QED BY <1>1, <2>3, <2>4, <2>5 DEF Chain
<1> QED BY <1>3, <1>4 DEF PublishAsync, NewPub

\* Every step keeps the chain and moves the advertised number forward only.
LEMMA NextKeepsChain ==
  ASSUME Calls \subseteq {"async"}
  PROVE  Base /\ Chain /\ [Next]_vars => Chain' /\ core' >= core
<1> SUFFICES ASSUME Base, Chain, [Next]_vars PROVE Chain' /\ core' >= core
  OBVIOUS
<1>1. core \in Nat
  BY DEF Base, TypeOK
<1>2. CASE UNCHANGED vars
  BY <1>1, <1>2 DEF vars, Chain, Waiting
<1>3. CASE RunPosted /\ ~alive
  BY <1>1, <1>3, DropPostedKeepsBase DEF Chain
<1>4. CASE Destroy
  BY <1>1, <1>4 DEF Destroy, Chain, Waiting
<1>5. ~\E k \in 0 .. MaxPackets : PublishBytes(k)
  BY DEF PublishBytes
<1>6. ~\E k \in {0, 1} : PublishNow(k)
  BY DEF PublishNow
<1>7. ASSUME NEW k \in 0 .. MaxPackets, PublishAsync(k)
      PROVE  Chain' /\ core' >= core
  BY <1>1, <1>7, PublishAsyncKeepsChain
<1> QED BY <1>2, <1>3, <1>4, <1>5, <1>6, <1>7, StepCases, CommitKeepsChain

\* A new pipeline has reserved nothing.
LEMMA InitChain == Init => Chain
<1> SUFFICES ASSUME Init PROVE Chain
  OBVIOUS
<1>1. \A n : n \notin 1 .. 0
  OBVIOUS
<1>2. Waiting = {}
  BY DEF Init, Waiting, Elements
<1> QED BY <1>1, <1>2 DEF Init, Chain

\* In every state the chain is unbroken.
LEMMA ChainInvariance ==
  ASSUME Calls \subseteq {"async"}
  PROVE  Spec => [](Base /\ Chain)
<1>1. Base /\ Chain /\ [Next]_vars => Chain'
  BY NextKeepsChain
<1> QED BY <1>1, InitChain, PipelineInvariance, PTL DEF Spec

\* The commit head is where the advertised number ends, and every reserved
\* number behind it is on its way in exactly one place: no failed commit, no
\* retry and no late closure loses or doubles a publication.
THEOREM PipelineStaysComplete ==
  ASSUME Calls \subseteq {"async"}
  PROVE  Spec => []PipelineComplete
<1>1. ASSUME Base, Chain PROVE PipelineComplete
  <2>1. next # 0 => next = core + 1
    BY <1>1 DEF Chain
  <2>2. ASSUME NEW n \in core + 1 .. reserved, alive
        PROVE  Cardinality({ i \in 1 .. Len(posted) : posted[i].seq = n })
               + Cardinality({ p \in prepared : p.seq = n }) = 1
    <3> DEFINE inPosted == { i \in 1 .. Len(posted) : posted[i].seq = n }
               inPrepared == { p \in prepared : p.seq = n }
    <3>1. PICK w \in Waiting : w.seq = n
      BY <1>1, <2>2 DEF Chain
    <3>2. CASE w \in Elements(posted)
      <4>1. PICK i \in 1 .. Len(posted) : w = posted[i]
        BY <3>2 DEF Elements
      <4>2. inPosted = {i}
        BY <1>1, <3>1, <4>1 DEF Base, Tracked
      <4>3. inPrepared = {}
        BY <1>1, <3>1, <3>2 DEF Base, Tracked
      <4>4. Cardinality(inPosted) = 1
        BY <4>2, FS_Singleton
      <4>5. Cardinality(inPrepared) = 0
        BY <4>3, FS_EmptySet
      <4> HIDE DEF inPosted, inPrepared
      <4>6. Cardinality(inPosted) + Cardinality(inPrepared) = 1
        BY <4>4, <4>5
      <4> QED BY <4>6 DEF inPosted, inPrepared
    <3>3. CASE w \in prepared
      <4>1. inPosted = {}
        BY <1>1, <3>1, <3>3 DEF Base, Tracked, Elements
      <4>2. inPrepared = {w}
        BY <1>1, <3>1, <3>3 DEF Base, Tracked
      <4>3. Cardinality(inPosted) = 0
        BY <4>1, FS_EmptySet
      <4>4. Cardinality(inPrepared) = 1
        BY <4>2, FS_Singleton
      <4> HIDE DEF inPosted, inPrepared
      <4>5. Cardinality(inPosted) + Cardinality(inPrepared) = 1
        BY <4>3, <4>4
      <4> QED BY <4>5 DEF inPosted, inPrepared
    <3> QED BY <3>1, <3>2, <3>3 DEF Waiting
  <2> QED BY <2>1, <2>2 DEF PipelineComplete
<1> QED BY <1>1, ChainInvariance, PTL

\* The advertised sequence number never goes back.
THEOREM OwnSeqNeverGoesBack ==
  ASSUME Calls \subseteq {"async"}
  PROVE  Spec => OwnSeqMonotone
<1>1. Base /\ Chain /\ [Next]_vars => [core' >= core]_vars
  BY NextKeepsChain
<1> QED BY <1>1, ChainInvariance, PTL DEF Spec, OwnSeqMonotone

--------------------------------------------------------------------------------
(***************************************************************************)
(* Both together: what is advertised is served, and nothing else is kept   *)
(***************************************************************************)

\* A commit advertises what it has stored and takes nothing else away.
LEMMA CommitKeepsServed ==
  ASSUME Base, Stored, Chain, Served, "erase" \notin MayThrow, CommitStep
  PROVE  Served'
<1>1. PICK pubs \in SUBSET Publication, last \in next .. MaxSeq + 1 :
        Offered(pubs) /\ Unique(pubs) /\ CommitsTo(pubs, last)
  BY CommitFacts
<1>2. /\ alive /\ UNCHANGED <<reserved, alive, size, reused>>
  BY DEF CommitStep
<1> DEFINE done == Done(pubs, last)
<1>3. store \subseteq Packet /\ done \subseteq pubs
  BY DEF Base, TypeOK, Done
<1>4. \A p \in pubs : /\ p.stored => Names(p.seq, p.packets) \subseteq store
                      /\ size[p.seq] = p.packets /\ p.seq > core
  <2> SUFFICES ASSUME NEW p \in pubs
               PROVE  /\ p.stored => Names(p.seq, p.packets) \subseteq store
                      /\ size[p.seq] = p.packets /\ p.seq > core
    OBVIOUS
  <2>1. PICK w \in Waiting : SamePub(p, w)
    BY <1>1 DEF Offered
  <2> QED BY <1>2, <2>1 DEF SamePub, Stored, FlagsTrue, Base, Tracked, Chain
<1>5. \A q \in store : (\A p \in pubs : q[1] # p.seq) => q \in store'
  BY <1>1, <1>3, StoreAfter
<1>6. \A p \in done : Names(p.seq, p.packets) \subseteq store'
  BY <1>1, <1>3, <1>4, StoreAfter
<1>7. /\ next \in Nat /\ core \in Nat /\ last \in Nat
      /\ core' = IF last > next THEN last - 1 ELSE core
      /\ next = 0 => last = 0
      /\ next # 0 => next = core + 1
      /\ \A n \in next .. last - 1 : \E p \in done : p.seq = n
  <2>1. next \in 0 .. MaxSeq + 1 /\ core \in 0 .. MaxSeq
    BY DEF Base, TypeOK
  <2>2. next \in Nat /\ core \in Nat /\ last \in Nat
    BY <2>1, PipelineAssumption
  <2>3. /\ core' = IF last > next THEN last - 1 ELSE core
        /\ next = 0 => last = 0
        /\ \A n \in next .. last - 1 : \E p \in done : p.seq = n
    BY <1>1 DEF CommitsTo
  <2>4. next # 0 => next = core + 1
    BY DEF Chain
  <2> QED BY <2>2, <2>3, <2>4
<1> SUFFICES ASSUME NEW n \in 1 .. core' PROVE Names(n, size[n]) \subseteq store'
  BY <1>2 DEF Served
<1>8. CASE n \in 1 .. core
  <2>1. Names(n, size[n]) \subseteq store /\ \A p \in pubs : p.seq # n
    BY <1>4, <1>7, <1>8 DEF Served
  <2> QED BY <1>5, <2>1, NamesSeq
<1>9. CASE n \notin 1 .. core
  <2>1. n \in next .. last - 1
    BY <1>7, <1>9
  <2>2. PICK d \in done : d.seq = n
    BY <1>7, <2>1
  <2> QED BY <1>3, <1>4, <1>6, <2>2
<1> QED BY <1>8, <1>9

\* Every step keeps what is advertised in the store.
LEMMA NextKeepsServed ==
  ASSUME Calls \subseteq {"async"}, "erase" \notin MayThrow
  PROVE  Base /\ Stored /\ Chain /\ Served /\ [Next]_vars => Served'
<1> SUFFICES ASSUME Base, Stored, Chain, Served, [Next]_vars PROVE Served'
  OBVIOUS
<1>1. CASE UNCHANGED vars
  BY <1>1 DEF vars, Served
<1>2. CASE RunPosted /\ ~alive
  BY <1>2, DropPostedKeepsBase DEF Served
<1>3. CASE Destroy
  <2>1. core \in Nat /\ \A p \in Waiting : p.seq > core
    BY DEF Base, TypeOK, Chain
  <2>2. \A n \in 1 .. core : \A p \in Waiting : p.seq # n
    BY <2>1
  <2> QED BY <1>3, <2>2, DestroyErases, NamesSeq DEF Served
<1>4. ~\E k \in 0 .. MaxPackets : PublishBytes(k)
  BY DEF PublishBytes
<1>5. ~\E k \in {0, 1} : PublishNow(k)
  BY DEF PublishNow
<1>6. ASSUME NEW k \in 0 .. MaxPackets, PublishAsync(k)
      PROVE  Served'
  <2>1. /\ Tentative <= MaxSeq /\ core' = core /\ Tentative = reserved + 1
        /\ Tentative \in 1 .. MaxSeq /\ reserved \in Nat
    BY <1>6, TentativeIsNew DEF PublishAsync
  <2>2. core \in 0 .. MaxSeq /\ core <= reserved
    BY DEF Base, TypeOK, Ordered
  <2>3. \A n \in 1 .. core : n # Tentative /\ n \in 1 .. MaxSeq
    BY <2>1, <2>2, PipelineAssumption
  <2>4. \A n \in 1 .. MaxSeq : n # Tentative => size'[n] = size[n]
    BY <1>6, <2>1, GivesFacts DEF PublishAsync
  <2>5. ASSUME NEW i \in InsertBatch(store, Tentative, k)
        PROVE  \A q \in store : q[1] # Tentative => q \in i.store
    <3>1. /\ i.ok => i.store = store \cup Names(Tentative, k)
          /\ ~i.ok => \E j \in 0 .. k : i.store = store \ Names(Tentative, j)
      <4>1. Inserts(store, Tentative, k, i)
        BY <2>1, InsertOutcome
      <4> QED BY <4>1 DEF Inserts
    <3> QED BY <3>1, NamesSeq
  <2>6. \A q \in store : q[1] # Tentative => q \in store'
    BY <1>6, <2>5 DEF PublishAsync
  <2> QED BY <2>1, <2>3, <2>4, <2>6, NamesSeq DEF Served
<1> QED BY <1>1, <1>2, <1>3, <1>4, <1>5, <1>6, StepCases, CommitKeepsServed

\* Every advertised sequence number has a mapping and all of its packets, in
\* every state and whatever fails but erase: no rollback and no shutdown takes
\* back what was advertised.
THEOREM AdvertisedStaysServable ==
  ASSUME Calls \subseteq {"async"}, "erase" \notin MayThrow
  PROVE  Spec => []AdvertisedIsServable
<1>1. Chain /\ Served => AdvertisedIsServable
  BY DEF Chain, Served, AdvertisedIsServable
<1>2. Base /\ Stored /\ [Next]_vars => Stored'
  BY NextKeepsStored
<1>3. Spec => [](Base /\ Chain)
  BY ChainInvariance
<1>4. Base /\ Stored /\ Chain /\ Served /\ [Next]_vars => Served'
  BY NextKeepsServed
<1>5. Init => Served
  <2>1. \A n : n \notin 1 .. 0
    OBVIOUS
  <2> QED BY <2>1 DEF Init, Served
<1> QED BY <1>1, <1>2, <1>3, <1>4, <1>5, InitStored, PTL DEF Spec

\* Only packets of the publications that were offered, which are in their
\* publication and flagged as stored.
CleanFor(pubs) ==
  \A q \in store, p \in pubs : q[1] = p.seq => p.stored /\ q \in Names(p.seq, p.packets)

\* The store after the loop, if erase does not throw: the packets it had and
\* those of the committed publications, and none of a publication that is
\* tried again without its packets.
LEMMA CleanAfter ==
  ASSUME NEW pubs \in SUBSET Publication, Unique(pubs), CleanFor(pubs),
         NEW last, CommitsTo(pubs, last), "erase" \notin MayThrow
  PROVE  /\ \A q \in store' : q \in store \/ \E d \in Done(pubs, last) : q \in Names(d.seq, d.packets)
         /\ \A x \in prepared' : ~x.stored => \A q \in store' : q[1] # x.seq
<1> DEFINE done == Done(pubs, last)
           after == After(pubs, last)
<1>1. done \subseteq pubs /\ \A p \in pubs : p.stored \in BOOLEAN
  BY DEF Done, Publication
<1>2. \A q \in after : q \in store \/ \E d \in done : q \in Names(d.seq, d.packets)
  BY <1>1 DEF After
<1> HIDE DEF done, after
<1>3. \A q \in after, p \in pubs \ done : q[1] = p.seq => q \in store
  BY <1>1, <1>2, NamesSeq DEF Unique
<1>4. \A p \in pubs \ done : ~p.stored => \A q \in after : q[1] # p.seq
  BY <1>3 DEF CleanFor
<1>5. CASE prepared' = pubs \ done /\ store' = after
  BY <1>2, <1>4, <1>5 DEF done
<1>6. CASE \E p \in pubs \ done : \E o \in Commit(after, p) \cup Hook(after, p) :
             /\ ~o.ok
             /\ store' = o.store
             /\ prepared' = (pubs \ (done \cup {p}))
                              \cup {[p EXCEPT !.stored = o.stored, !.retry = TRUE]}
  <2>1. PICK p \in pubs \ done : \E o \in Commit(after, p) \cup Hook(after, p) :
             /\ ~o.ok
             /\ store' = o.store
             /\ prepared' = (pubs \ (done \cup {p}))
                              \cup {[p EXCEPT !.stored = o.stored, !.retry = TRUE]}
    BY <1>6
  <2>2. PICK o \in Commit(after, p) \cup Hook(after, p) :
             /\ ~o.ok
             /\ store' = o.store
             /\ prepared' = (pubs \ (done \cup {p}))
                              \cup {[p EXCEPT !.stored = o.stored, !.retry = TRUE]}
    BY <2>1
  <2> DEFINE x == [p EXCEPT !.stored = o.stored, !.retry = TRUE]
  <2>3. x.seq = p.seq /\ x.stored = o.stored
    BY DEF Publication
  <2> HIDE DEF x
  <2>4. prepared' = (pubs \ (done \cup {p})) \cup {x}
    BY <2>2 DEF x
  <2>5. \/ o.store = after /\ (o.stored <=> p.stored)
        \/ /\ ~o.stored
           /\ \E j \in 0 .. p.packets :
                /\ o.store = after \ Names(p.seq, j)
                /\ p.stored => j = p.packets
    <3>1. p \in Publication /\ ~o.ok
      BY <2>2, Zenon
    <3> QED BY <3>1, CommitOutcome
  <2>6. store' = o.store
    BY <2>2, Zenon
  <2>7. store' \subseteq after
    BY <2>5, <2>6
  <2>8. ~x.stored => \A q \in store' : q[1] # x.seq
    <3>1. CASE o.store = after /\ (o.stored <=> p.stored)
      BY <1>4, <2>3, <2>6, <3>1
    <3>2. CASE ~p.stored
      BY <1>4, <2>3, <2>7, <3>2
    <3>3. CASE p.stored /\ o.store = after \ Names(p.seq, p.packets)
      <4>1. \A q \in after : q[1] = p.seq => q \in Names(p.seq, p.packets)
        BY <1>3 DEF CleanFor
      <4> QED BY <2>3, <2>6, <3>3, <4>1
    <3> QED BY <1>1, <2>5, <3>1, <3>2, <3>3
  <2>9. \A y \in pubs \ (done \cup {p}) : ~y.stored => \A q \in store' : q[1] # y.seq
    BY <1>4, <2>7
  <2> QED BY <1>2, <2>4, <2>7, <2>8, <2>9 DEF done
<1> QED BY <1>5, <1>6 DEF CommitsTo, done, after

Clean == StoreClean /\ NoOrphans

\* A commit turns packets of publications on their way into advertised ones.
LEMMA CommitKeepsClean ==
  ASSUME Base, Chain, Clean, "erase" \notin MayThrow, CommitStep
  PROVE  Clean'
<1>1. PICK pubs \in SUBSET Publication, last \in next .. MaxSeq + 1 :
        Offered(pubs) /\ Unique(pubs) /\ CommitsTo(pubs, last)
  BY CommitFacts
<1>2. /\ alive /\ UNCHANGED <<reserved, alive, size, reused>>
  BY DEF CommitStep
<1> DEFINE done == Done(pubs, last)
<1>3. done \subseteq pubs /\ \A p \in pubs : size[p.seq] = p.packets
  BY <1>1 DEF Done, Offered, SamePub, Base, Tracked
<1>4. CleanFor(pubs)
  <2> SUFFICES ASSUME NEW q \in store, NEW p \in pubs, q[1] = p.seq
               PROVE  p.stored /\ q \in Names(p.seq, p.packets)
    BY DEF CleanFor
  <2>1. PICK w \in Waiting : SamePub(p, w)
    BY <1>1 DEF Offered
  <2>2. w.stored /\ w.seq = q[1]
    BY <2>1 DEF Clean, StoreClean, SamePub
  <2> QED BY <1>3, <2>1, <2>2 DEF SamePub, Clean, StoreClean
<1>5. /\ \A q \in store' : q \in store \/ \E d \in done : q \in Names(d.seq, d.packets)
      /\ \A x \in prepared' : ~x.stored => \A q \in store' : q[1] # x.seq
  BY <1>1, <1>4, CleanAfter
<1> HIDE DEF done
<1>6. StoreClean'
  <2>1. \A q \in store' : q \in Names(q[1], size'[q[1]])
    BY <1>2, <1>3, <1>5, NamesSeq DEF Clean, StoreClean
  <2>2. ASSUME NEW x \in Elements(posted'), ~x.stored, NEW q \in store'
        PROVE  q[1] # x.seq
    <3>1. x \in Waiting /\ \A d \in done : d.seq # x.seq
      BY <1>1, <1>3 DEF Offered, Waiting
    <3> QED BY <1>5, <2>2, <3>1, NamesSeq DEF Clean, StoreClean
  <2>3. Waiting' = Elements(posted') \cup prepared'
    BY DEF Waiting
  <2> QED BY <1>5, <2>1, <2>2, <2>3 DEF StoreClean
<1>7. /\ core' >= core /\ core \in Nat /\ core' \in Nat /\ store \subseteq Packet
      /\ \A d \in done : d.seq <= core'
  <2>1. core' >= core
    BY CommitKeepsChain
  <2>2. /\ core \in 0 .. MaxSeq /\ core' \in 0 .. MaxSeq /\ next \in 0 .. MaxSeq + 1
        /\ store \subseteq Packet
    BY CommitKeepsBase DEF Base, TypeOK
  <2>3. \A d \in done : d.seq \in next .. last - 1
    BY DEF Done, done
  <2>4. core' = IF last > next THEN last - 1 ELSE core
    BY <1>1 DEF CommitsTo
  <2>5. last \in Nat /\ next \in Nat
    BY <2>2, PipelineAssumption
  <2> QED BY <2>1, <2>2, <2>3, <2>4, <2>5
<1>8. NoOrphans'
  <2> SUFFICES ASSUME NEW q \in store', ~(q[1] <= core')
               PROVE  \/ \E p \in prepared' : p.stored /\ p.seq = q[1]
                      \/ \E s \in staged' : s.seq = q[1]
    BY DEF NoOrphans
  <2>1. q \in store /\ \A d \in done : d.seq # q[1]
    BY <1>5, <1>7, NamesSeq
  <2>2. ~(q[1] <= core)
    <3>1. q[1] \in Nat
      BY <1>7, <2>1 DEF Packet
    <3> QED BY <1>7, <3>1
  <2>3. PICK p \in staged \cup { r \in prepared : r.stored } : p.seq = q[1]
    BY <2>1, <2>2 DEF Clean, NoOrphans
  <2>4. ASSUME NEW r \in pubs, r.seq = q[1]
        PROVE  \E y \in prepared' : y.stored /\ y.seq = q[1]
    <3>1. r \in pubs \ done
      BY <2>1, <2>4
    <3>2. PICK y \in prepared' : y.seq = r.seq
      BY <1>1, <3>1, PreparedAfter DEF done
    <3> QED BY <1>5, <2>4, <3>2
  <2>5. CASE p \in staged
    BY <1>1, <2>3, <2>4, <2>5 DEF Offered
  <2>6. CASE p \in prepared
    <3>1. p \in Waiting /\ p \notin Elements(posted)
      BY <2>6 DEF Waiting, Base, Tracked
    <3>2. PICK r \in pubs : SamePub(r, p)
      BY <1>1, <3>1 DEF Offered
    <3> QED BY <2>3, <2>4, <3>2 DEF SamePub
  <2> QED BY <2>3, <2>5, <2>6
<1> QED BY <1>6, <1>8 DEF Clean

\* publishAsync stages what it stores, or takes it out of the store again.
LEMMA PublishAsyncKeepsClean ==
  ASSUME Base, Clean, "erase" \notin MayThrow, NEW k \in 0 .. MaxPackets, PublishAsync(k)
  PROVE  Clean'
<1>1. /\ Tentative <= MaxSeq /\ UNCHANGED <<core, prepared, mapped, alive>>
      /\ Tentative \in 1 .. MaxSeq /\ size[Tentative] = Unused
      /\ \A p \in Waiting : p.seq # Tentative
  BY TentativeIsNew DEF PublishAsync
<1>2. ASSUME NEW i \in InsertBatch(store, Tentative, k)
      PROVE  /\ i.ok => i.store = store \cup Names(Tentative, k)
             /\ ~i.ok => i.store \subseteq store
  <2>1. /\ i.ok => i.store = store \cup Names(Tentative, k)
        /\ ~i.ok => \E j \in 0 .. k : i.store = store \ Names(Tentative, j)
    <3>1. Inserts(store, Tentative, k, i)
      BY <1>1, InsertOutcome
    <3> QED BY <3>1 DEF Inserts
  <2> QED BY <2>1
<1>3. CASE store' \subseteq store /\ UNCHANGED <<posted, staged, size>>
  <2>1. Waiting' = Waiting
    BY <1>1, <1>3 DEF Waiting
  <2> QED BY <1>1, <1>3, <2>1 DEF Clean, StoreClean, NoOrphans
<1>4. CASE /\ store' = store \cup Names(Tentative, k)
           /\ staged' = staged \cup {[seq |-> Tentative, packets |-> k]}
           /\ posted' = Append(posted, NewPub(k))
           /\ Gives(Tentative, k)
  <2> DEFINE a == NewPub(k)
  <2>1. /\ a.seq = Tentative /\ a.packets = k /\ (a.stored <=> k > 0)
        /\ Elements(posted') = Elements(posted) \cup {a}
    BY <1>1, <1>4, NewPubFacts
  <2> HIDE DEF a
  <2>2. Waiting' = Waiting \cup {a}
    BY <1>1, <2>1 DEF Waiting
  <2>3. size'[Tentative] = k /\ \A n \in 1 .. MaxSeq : n # Tentative => size'[n] = size[n]
    BY <1>1, <1>4, GivesFacts
  <2>4. \A q \in store : q[1] \in 1 .. MaxSeq /\ q[1] # Tentative
    <3>1. Names(Tentative, Unused) = {}
      BY DEF Names, Unused
    <3> QED BY <1>1, <3>1 DEF Clean, StoreClean, Base, TypeOK, Packet
  <2>5. StoreClean'
    <3>1. \A q \in store' : q \in Names(q[1], size'[q[1]])
      BY <1>4, <2>3, <2>4, NamesSeq DEF Clean, StoreClean
    <3>2. ~a.stored => Names(Tentative, k) = {}
      BY <1>1, <2>1, NamesFacts
    <3>3. ~a.stored => \A q \in store' : q[1] # a.seq
      BY <1>4, <2>1, <2>4, <3>2
    <3>4. \A p \in Waiting : ~p.stored => \A q \in store' : q[1] # p.seq
      BY <1>1, <1>4, NamesSeq DEF Clean, StoreClean
    <3> QED BY <2>2, <3>1, <3>3, <3>4 DEF StoreClean
  <2>6. NoOrphans'
    <3> DEFINE s == [seq |-> Tentative, packets |-> k]
    <3>1. s \in staged' /\ staged \subseteq staged' /\ s.seq = Tentative
      BY <1>4
    <3> HIDE DEF s
    <3>2. \A q \in store' : q \in store \/ q[1] = Tentative
      BY <1>4, NamesSeq
    <3>3. UNCHANGED <<core, prepared>>
      BY <1>1
    <3> QED BY <3>1, <3>2, <3>3 DEF Clean, NoOrphans
  <2> QED BY <2>5, <2>6 DEF Clean
<1> QED BY <1>2, <1>3, <1>4 DEF PublishAsync, NewPub

\* The destructor erases all that was stored and not advertised.
LEMMA DestroyKeepsClean ==
  ASSUME Base, Clean, "erase" \notin MayThrow, Destroy
  PROVE  Clean'
<1> DEFINE batches == { [seq |-> p.seq, packets |-> p.packets] :
                          p \in staged \cup { q \in prepared : q.stored } }
<1>1. /\ staged' = {} /\ prepared' = {} /\ store' \subseteq store
      /\ UNCHANGED <<core, posted, size>>
  BY DEF Destroy
<1>2. StoreClean'
  <2>1. Waiting' \subseteq Waiting
    BY <1>1 DEF Waiting
  <2> QED BY <1>1, <2>1 DEF Clean, StoreClean
<1>3. PICK left \in [batches -> 0 .. MaxPackets] :
        /\ \A b \in batches : left[b] <= b.packets /\ (left[b] > 0 => "erase" \in MayThrow)
        /\ store' = store \ UNION { Names(b.seq, b.packets) \ Names(b.seq, left[b]) : b \in batches }
  BY DEF Destroy
<1>4. ASSUME NEW p \in staged \cup { r \in prepared : r.stored }
      PROVE  \A q \in store' : q[1] # p.seq
  <2> DEFINE b == [seq |-> p.seq, packets |-> p.packets]
  <2>1. b \in batches /\ b.seq = p.seq /\ b.packets = p.packets
    OBVIOUS
  <2> HIDE DEF b, batches
  <2>2. left[b] = 0
    <3>1. left[b] \in 0 .. MaxPackets /\ ~(left[b] > 0)
      BY <1>3, <2>1
    <3> QED BY <3>1, PipelineAssumption
  <2>3. Names(b.seq, 0) = {}
    BY DEF Names
  <2>4. \A q \in store' : q \notin Names(b.seq, b.packets)
    <3>1. store' = store \ UNION { Names(c.seq, c.packets) \ Names(c.seq, left[c]) : c \in batches }
      BY <1>3
    <3>2. Names(b.seq, b.packets) \ Names(b.seq, left[b]) = Names(b.seq, b.packets)
      BY <2>2, <2>3
    <3> QED BY <2>1, <3>1, <3>2
  <2>5. size[p.seq] = p.packets
    BY DEF Base, Tracked, Waiting
  <2> QED BY <1>1, <2>1, <2>4, <2>5 DEF Clean, StoreClean
<1>5. NoOrphans'
  BY <1>1, <1>4 DEF Clean, NoOrphans
<1> QED BY <1>2, <1>5 DEF Clean

\* Every step keeps the store clean.
LEMMA NextKeepsClean ==
  ASSUME Calls \subseteq {"async"}, "erase" \notin MayThrow
  PROVE  Base /\ Chain /\ Clean /\ [Next]_vars => Clean'
<1> SUFFICES ASSUME Base, Chain, Clean, [Next]_vars PROVE Clean'
  OBVIOUS
<1>1. CASE UNCHANGED vars
  BY <1>1 DEF vars, Clean, StoreClean, NoOrphans, Waiting
<1>2. CASE RunPosted /\ ~alive
  BY <1>2, DropPostedKeepsBase DEF Clean, StoreClean, NoOrphans
<1>3. ~\E k \in 0 .. MaxPackets : PublishBytes(k)
  BY DEF PublishBytes
<1>4. ~\E k \in {0, 1} : PublishNow(k)
  BY DEF PublishNow
<1> QED BY <1>1, <1>2, <1>3, <1>4, StepCases, PublishAsyncKeepsClean, CommitKeepsClean,
           DestroyKeepsClean

\* The store holds packets of advertised publications and of those that will
\* still be committed or rolled back; after the destructor only of advertised
\* ones.
THEOREM NothingIsOrphaned ==
  ASSUME Calls \subseteq {"async"}, "erase" \notin MayThrow
  PROVE  Spec => []NoOrphans
<1>1. Init => Clean
  <2> SUFFICES ASSUME Init PROVE Clean
    OBVIOUS
  <2>1. Waiting = {} /\ store = {}
    BY DEF Init, Waiting, Elements
  <2> QED BY <2>1 DEF Clean, StoreClean, NoOrphans
<1>2. Base /\ Chain /\ Clean /\ [Next]_vars => Clean'
  BY NextKeepsClean
<1>3. Clean => NoOrphans
  BY DEF Clean
<1>4. Spec => [](Base /\ Chain)
  BY ChainInvariance
<1> QED BY <1>1, <1>2, <1>3, <1>4, PTL DEF Spec
================================================================================
