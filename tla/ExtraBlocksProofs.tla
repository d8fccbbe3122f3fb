--------------------------- MODULE ExtraBlocksProofs ---------------------------
(*****************************************************************************)
(* Proofs about ExtraBlocks, for every number and size of publications,      *)
(* every limit and every way to produce Interests.                           *)
(* The loops over the queues are handled with the rules of FoldProofs: each  *)
(* entry of a queue is shown to be placed somewhere by its turn of the loop. *)
(* The inductive invariant IInv bounds the queues and jobs by what is        *)
(* published or failed to be, fixes which jobs hold blocks in which mode,    *)
(* and extends NamesReachTheNetwork to the publication under way.            *)
(*****************************************************************************)
EXTENDS ExtraBlocks, FiniteSetTheorems, TLAPS

\* The loops of ExtraBlocks, as instances of the rules
LoopOfNotified == INSTANCE FoldProofs WITH op <- LAMBDA c, taken, p : NotifyIfItFits(taken, p)
LoopOfPack == INSTANCE FoldProofs WITH op <- LAMBDA c, acc, entry : PackEntry(c[1], c[2], acc, entry)
LoopOfSeqNos == INSTANCE FoldProofs WITH op <- LAMBDA c, all, range : AddSeqNos(all, range)
LoopOfEnqueue == INSTANCE FoldProofs WITH op <- LAMBDA c, q, p : EnqueueRepairPublication(q, p)

\* The four loops are the FoldLeft terms of ExtraBlocks.
LEMMA SameNotified ==
  ASSUME NEW q
  PROVE  Notified(q) = LoopOfNotified!Loop({}, <<>>, q.notification)
  BY DEF Notified, FoldLeft, MapThenFoldSet, Max, LoopOfNotified!Loop, LoopOfNotified!FoldLeft,
         LoopOfNotified!MapThenFoldSet, LoopOfNotified!Max

\* What Pack starts from
EmptyPack(size) == [size |-> size, taken |-> {}, kept |-> <<>>, expired |-> {}]

\* The same for Pack, whose turns depend on the size and the repeat count
LEMMA SamePack ==
  ASSUME NEW queue, NEW size, NEW each, NEW repeat
  PROVE  Pack(queue, size, each, repeat)
           = LoopOfPack!Loop(<<each, repeat>>, EmptyPack(size), Reverse(queue))
  BY DEF Pack, EmptyPack, FoldLeft, MapThenFoldSet, Max, LoopOfPack!Loop, LoopOfPack!FoldLeft,
         LoopOfPack!MapThenFoldSet, LoopOfPack!Max

\* The same for SeqNos
LEMMA SameSeqNos ==
  ASSUME NEW request, Decodes(request)
  PROVE  SeqNos(request) = LoopOfSeqNos!Loop({}, <<>>, request)
  BY DEF SeqNos, FoldLeft, MapThenFoldSet, Max, LoopOfSeqNos!Loop, LoopOfSeqNos!FoldLeft,
         LoopOfSeqNos!MapThenFoldSet, LoopOfSeqNos!Max

\* The same for the loop of RecvRepairRequests
LEMMA SameEnqueue ==
  ASSUME NEW request
  PROVE  FoldLeft(EnqueueRepairPublication, queues, SeqNos(request))
           = LoopOfEnqueue!Loop({}, queues, SeqNos(request))
  BY DEF FoldLeft, MapThenFoldSet, Max, LoopOfEnqueue!Loop, LoopOfEnqueue!FoldLeft,
         LoopOfEnqueue!MapThenFoldSet, LoopOfEnqueue!Max
--------------------------------------------------------------------------------
(*****************************************************************************)
(* The operators: what the loops compute                                     *)
(*****************************************************************************)

\* Sizes are numbers, though products are beyond the provers' arithmetic.
LEMMA SizesAreNat ==
  /\ \A n \in Nat : Encoded(n) \in Nat /\ Encoded(n) >= n
  /\ \A n \in Nat : NodeSize + EntrySize * n \in Nat
  /\ Encoded(NodeSize + EntrySize) \in Nat /\ Encoded(RequestSize) \in Nat
  /\ \A n \in Nat : RequestSize * n \in Nat
<1>1. \A n \in Nat : Encoded(n) \in Nat /\ Encoded(n) >= n
  BY DEF Encoded
<1>2. NodeSize \in Nat /\ EntrySize \in Nat /\ RequestSize \in Nat
  BY ExtraAssumption
<1>3. \A n \in Nat : EntrySize * n \in Nat /\ RequestSize * n \in Nat
  BY <1>2
<1>4. \A n \in Nat : NodeSize + EntrySize * n \in Nat
  BY <1>2, <1>3
<1>5. NodeSize + EntrySize \in Nat
  BY <1>2
<1> QED
  BY <1>1, <1>2, <1>3, <1>4, <1>5

\* The notification block has names from the list only.
LEMMA NotifiedFacts ==
  ASSUME NEW P, NEW q, q.notification \in Seq(P)
  PROVE  Notified(q) \in Seq(P)
<1>1. LoopOfNotified!Closed({}, Seq(P), P)
  <2> SUFFICES ASSUME NEW t \in Seq(P), NEW p \in P PROVE NotifyIfItFits(t, p) \in Seq(P)
    BY DEF LoopOfNotified!Closed
  <2>1. Append(t, p) \in Seq(P)
    OBVIOUS
  <2> QED
    BY <2>1 DEF NotifyIfItFits
<1>2. <<>> \in Seq(P)
  OBVIOUS
<1>3. LoopOfNotified!Loop({}, <<>>, q.notification) \in Seq(P)
  BY <1>1, <1>2, LoopOfNotified!FoldInvariant
<1> QED
  BY <1>3, SameNotified

\* What the MappingData block starts from has a size.
LEMMA BaseIsNat ==
  ASSUME NEW P, NEW q, q.notification \in Seq(P)
  PROVE  Base(q) \in Nat /\ Encoded(Base(q)) \in Nat /\ Encoded(Base(q)) >= Base(q)
<1>1. Len(Notified(q)) \in Nat
  BY NotifiedFacts
<1>2. NodeSize + EntrySize * Len(Notified(q)) \in Nat
  BY <1>1, SizesAreNat
<1>3. Base(q) \in Nat
  BY <1>2 DEF Base
<1> QED
  BY <1>3, SizesAreNat

\* The entries of a queue
Entries(Item, repeat) == [item : Item, sent : Below(repeat), missed : Below(MissLimit)]

\* What Pack computes
Packed(Item, repeat) ==
  [size : Nat, taken : SUBSET Item, kept : Queue(Item, repeat), expired : SUBSET Item]

\* The queue still holds an entry of this item.
Waits(queue, p) == \E i \in DOMAIN queue : queue[i].item = p

\* The entry for p went into the block, was given up, or is kept.
Placed(acc, p) == p \in acc.taken \/ p \in acc.expired \/ Waits(acc.kept, p)

\* One turn of Pack: its size does not shrink, and no entry is lost.
LEMMA PackEntryStep ==
  ASSUME NEW Item, NEW repeat \in Nat, NEW each \in Nat,
         NEW acc \in Packed(Item, repeat), NEW entry \in Entries(Item, repeat)
  PROVE  LET new == PackEntry(each, repeat, acc, entry)
         IN  /\ new \in Packed(Item, repeat)
             /\ new.size = acc.size \/ new.size = acc.size + each
             /\ \A p : Placed(acc, p) => Placed(new, p)
             /\ Placed(new, entry.item)
<1> DEFINE new == PackEntry(each, repeat, acc, entry)
           sent == [entry EXCEPT !.sent = @ + 1]
           missed == [entry EXCEPT !.missed = @ + 1]
<1>a. acc.kept \in Seq(Entries(Item, repeat)) /\ acc.size \in Nat
  BY DEF Packed, Queue, Entries
<1>f. acc.size + each \in Nat /\ acc.taken \cup {entry.item} \in SUBSET Item
  BY DEF Packed, Entries
<1>b. sent.item = entry.item /\ missed.item = entry.item
  BY DEF Entries
<1>c. sent.sent < repeat => sent \in Entries(Item, repeat)
  BY DEF Entries, Below
<1>d. missed.missed < MissLimit => missed \in Entries(Item, repeat)
  BY DEF Entries, Below
<1>e. ASSUME NEW x \in Entries(Item, repeat)
      PROVE  LET longer == <<x>> \o acc.kept
             IN  /\ longer \in Seq(Entries(Item, repeat))
                 /\ \A p : Waits(acc.kept, p) => Waits(longer, p)
                 /\ Waits(longer, x.item)
  <2> DEFINE longer == <<x>> \o acc.kept
  <2>1. longer \in Seq(Entries(Item, repeat)) /\ Len(longer) = Len(acc.kept) + 1
    BY <1>a
  <2>2. longer[1] = x /\ \A i \in 1 .. Len(acc.kept) : longer[i + 1] = acc.kept[i]
    BY <1>a
  <2> HIDE DEF longer
  <2>3. \A i \in 1 .. Len(acc.kept) : i + 1 \in 1 .. Len(longer)
    BY <2>1, <1>a
  <2>4. DOMAIN longer = 1 .. Len(longer) /\ DOMAIN acc.kept = 1 .. Len(acc.kept) /\ 1 \in DOMAIN longer
    BY <2>1, <1>a
  <2>5. \A p : Waits(acc.kept, p) => Waits(longer, p)
    BY <2>2, <2>3, <2>4 DEF Waits
  <2>6. Waits(longer, x.item)
    BY <2>2, <2>4 DEF Waits
  <2> QED
    BY <2>1, <2>5, <2>6 DEF longer
<1> HIDE DEF sent, missed
<1>1. CASE Fits(acc.size, each) /\ sent.sent < repeat
  <2>1. new = [acc EXCEPT !.size = acc.size + each, !.taken = acc.taken \cup {entry.item},
                          !.kept = <<sent>> \o acc.kept]
    BY <1>1 DEF PackEntry, sent
  <2> HIDE DEF new
  <2>3. /\ new.size = acc.size + each /\ new.taken = acc.taken \cup {entry.item}
        /\ new.kept = <<sent>> \o acc.kept /\ new.expired = acc.expired
        /\ new \in Packed(Item, repeat)
    BY <2>1, <1>c, <1>1, <1>e, <1>f DEF Packed, Queue, Entries
  <2> QED
    BY <2>3, <1>1, <1>b, <1>c, <1>e DEF Placed, new
<1>2. CASE Fits(acc.size, each) /\ ~(sent.sent < repeat)
  <2>1. new = [acc EXCEPT !.size = acc.size + each, !.taken = acc.taken \cup {entry.item}]
    BY <1>2 DEF PackEntry, sent, Packed
  <2> HIDE DEF new
  <2>3. /\ new.size = acc.size + each /\ new.taken = acc.taken \cup {entry.item}
        /\ new.kept = acc.kept /\ new.expired = acc.expired
        /\ new \in Packed(Item, repeat)
    BY <2>1, <1>f DEF Packed
  <2> QED
    BY <2>3 DEF Placed, new
<1>3. CASE ~Fits(acc.size, each) /\ missed.missed < MissLimit
  <2>1. new = [acc EXCEPT !.kept = <<missed>> \o acc.kept]
    BY <1>3 DEF PackEntry, missed
  <2> HIDE DEF new
  <2>3. /\ new.size = acc.size /\ new.taken = acc.taken
        /\ new.kept = <<missed>> \o acc.kept /\ new.expired = acc.expired
        /\ new \in Packed(Item, repeat)
    BY <2>1, <1>d, <1>3, <1>e DEF Packed, Queue, Entries
  <2> QED
    BY <2>3, <1>3, <1>b, <1>d, <1>e DEF Placed, new
<1>4. CASE ~Fits(acc.size, each) /\ ~(missed.missed < MissLimit)
  <2>1. new = [acc EXCEPT !.expired = acc.expired \cup {entry.item}]
    BY <1>4 DEF PackEntry, missed
  <2> HIDE DEF new
  <2>3. /\ new.size = acc.size /\ new.taken = acc.taken
        /\ new.kept = acc.kept /\ new.expired = acc.expired \cup {entry.item}
        /\ new \in Packed(Item, repeat)
    BY <2>1 DEF Packed, Entries
  <2> QED
    BY <2>3 DEF Placed, new
<1> QED
  BY <1>1, <1>2, <1>3, <1>4

\* A new entry at the end of a queue
LEMMA AppendFresh ==
  ASSUME NEW Item, NEW repeat \in Nat, NEW queue \in Queue(Item, repeat), NEW p \in Item
  PROVE  /\ Append(queue, Fresh(p)) \in Queue(Item, repeat)
         /\ \A o : Waits(queue, o) => Waits(Append(queue, Fresh(p)), o)
         /\ Waits(Append(queue, Fresh(p)), p)
<1> DEFINE longer == Append(queue, Fresh(p))
           E == Entries(Item, repeat)
<1>1. queue \in Seq(E)
  BY DEF Queue, Entries
<1>2. Fresh(p) \in E /\ Fresh(p).item = p
  BY DEF Fresh, Entries, Below
<1> HIDE DEF E
<1>3. /\ longer \in Seq(E) /\ Len(longer) = Len(queue) + 1
      /\ \A i \in 1 .. Len(queue) : longer[i] = queue[i]
      /\ longer[Len(queue) + 1] = Fresh(p)
  BY <1>1, <1>2
<1>4. /\ DOMAIN longer = 1 .. Len(longer) /\ DOMAIN queue = 1 .. Len(queue)
      /\ Len(queue) + 1 \in 1 .. Len(longer) /\ 1 .. Len(queue) \subseteq 1 .. Len(longer)
  BY <1>1, <1>3
<1> HIDE DEF longer
<1>5. \A o : Waits(queue, o) => Waits(longer, o)
  BY <1>3, <1>4 DEF Waits
<1>6. Waits(longer, p)
  BY <1>2, <1>3, <1>4 DEF Waits
<1>7. longer \in Queue(Item, repeat)
  BY <1>3 DEF E, Queue, Entries
<1> QED
  BY <1>5, <1>6, <1>7 DEF longer

\* Walking a queue backwards meets each of its entries.
LEMMA ReverseFacts ==
  ASSUME NEW E, NEW queue \in Seq(E)
  PROVE  /\ Reverse(queue) \in Seq(E)
         /\ \A i \in DOMAIN queue :
              \E k \in 1 .. Len(Reverse(queue)) : Reverse(queue)[k] = queue[i]
<1> DEFINE n == Len(queue)
           back == [i \in 1 .. n |-> queue[(n - i) + 1]]
<1>1. Reverse(queue) = back
  BY DEF Reverse
<1>2. \A i \in 1 .. n : (n - i) + 1 \in 1 .. n /\ (n - ((n - i) + 1)) + 1 = i
  OBVIOUS
<1>3. back \in Seq(E) /\ Len(back) = n
  BY <1>2
<1>4. ASSUME NEW i \in DOMAIN queue
      PROVE  \E k \in 1 .. Len(back) : back[k] = queue[i]
  <2>1. i \in 1 .. n
    OBVIOUS
  <2>2. back[(n - i) + 1] = queue[i]
    BY <2>1, <1>2
  <2> QED
    BY <2>1, <2>2, <1>2, <1>3
<1> QED
  BY <1>1, <1>3, <1>4

\* Pack places every entry.
LEMMA PackFacts ==
  ASSUME NEW Item, NEW repeat \in Nat, NEW each \in Nat, NEW size \in Nat,
         NEW queue \in Queue(Item, repeat)
  PROVE  LET r == Pack(queue, size, each, repeat)
         IN  /\ r \in Packed(Item, repeat)
             /\ r.size >= size
             /\ \A p : Waits(queue, p) => Placed(r, p)
<1> DEFINE E == Entries(Item, repeat)
           A == { a \in Packed(Item, repeat) : a.size >= size }
           c == <<each, repeat>>
           r == Pack(queue, size, each, repeat)
           back == Reverse(queue)
<1>1. queue \in Seq(E)
  BY DEF Queue, Entries
<1>2. /\ back \in Seq(E)
      /\ \A i \in DOMAIN queue : \E k \in 1 .. Len(back) : back[k] = queue[i]
  BY <1>1, ReverseFacts
<1>3. EmptyPack(size) \in A
  BY DEF EmptyPack, Packed, Queue, Entries
<1>4. ASSUME NEW a \in A, NEW e \in E
      PROVE  /\ PackEntry(each, repeat, a, e) \in A
             /\ \A p : Placed(a, p) => Placed(PackEntry(each, repeat, a, e), p)
             /\ Placed(PackEntry(each, repeat, a, e), e.item)
  <2> DEFINE new == PackEntry(each, repeat, a, e)
  <2>1. /\ new \in Packed(Item, repeat)
        /\ new.size = a.size \/ new.size = a.size + each
        /\ \A p : Placed(a, p) => Placed(new, p)
        /\ Placed(new, e.item)
    BY PackEntryStep
  <2>2. a.size \in Nat /\ new.size \in Nat
    BY <2>1 DEF Packed
  <2> HIDE DEF new
  <2>3. new \in A
    BY <2>1, <2>2
  <2> QED
    BY <2>1, <2>3 DEF new
<1> HIDE DEF A, E
<1>5. LoopOfPack!Closed(c, A, E)
  BY <1>4 DEF LoopOfPack!Closed
<1>6. r = LoopOfPack!Loop(c, EmptyPack(size), back)
  BY SamePack
<1> HIDE DEF r, c, back
<1>7. r \in A
  BY <1>2, <1>3, <1>5, <1>6, LoopOfPack!FoldInvariant
<1>8. ASSUME NEW p, Waits(queue, p)
      PROVE  Placed(r, p)
  <2> DEFINE G == { a \in A : Placed(a, p) }
  <2>1. PICK k \in 1 .. Len(back) : back[k].item = p
    BY <1>2, <1>8 DEF Waits
  <2>2. back[k] \in E
    BY <1>2
  <2>3. LoopOfPack!Closed(c, A \cap G, E)
    BY <1>4 DEF LoopOfPack!Closed, c
  <2>4. \A a \in A : PackEntry(c[1], c[2], a, back[k]) \in G
    BY <1>4, <2>1, <2>2 DEF c
  <2> HIDE DEF G
  <2>5. LoopOfPack!Loop(c, EmptyPack(size), back) \in G
    BY <1>2, <1>3, <1>5, <2>3, <2>4, LoopOfPack!FoldReaches
  <2> QED
    BY <2>5, <1>6 DEF G
<1> QED
  BY <1>7, <1>8 DEF A, r

\* The queues when names come from N and packets from D
QueuesOf(N, D) ==
  [notification : Seq(N), names : Queue(N, RepeatCount),
   packets : Queue(D, RepeatCount), repairs : Queue(Remote, RepairRepeatCount)]

\* onGetExtraBlocks: the blocks have only what was queued, and each name is in
\* the blocks, given up, or still queued.
LEMMA TakeBlocksFacts ==
  ASSUME NEW N, NEW D, NEW q \in QueuesOf(N, D)
  PROVE  LET t == TakeBlocks(q)
         IN  /\ t.queues \in QueuesOf(N, D)
             /\ t.blocks \in [names : SUBSET N, packets : SUBSET D,
                              requests : SUBSET Remote, size : Nat]
             /\ t.expired \in SUBSET N
             /\ \A p : Waits(q.names, p) =>
                  \/ p \in t.blocks.names \/ p \in t.expired \/ Waits(t.queues.names, p)
<1> DEFINE note == Notified(q)
           base == Base(q)
           name == Encoded(NodeSize + EntrySize)
           request == Encoded(RequestSize)
           n == Pack(q.names, Encoded(base), name, RepeatCount)
           d == Pack(q.packets, n.size, PacketSize, RepeatCount)
           r == Pack(q.repairs, d.size, request, RepairRepeatCount)
           mappings == Encoded(base + d.size - Encoded(base))
           repairs == IF r.taken = {} THEN 0 ELSE Encoded(RequestSize * Cardinality(r.taken))
           size == mappings + repairs
           t == TakeBlocks(q)
<1>c. /\ name \in Nat /\ PacketSize \in Nat /\ request \in Nat /\ RepeatCount \in Nat
      /\ RepairRepeatCount \in Nat
  BY ExtraAssumption, SizesAreNat
<1>1. note \in Seq(N) /\ base \in Nat /\ Encoded(base) \in Nat /\ Encoded(base) >= base
  BY NotifiedFacts, BaseIsNat DEF QueuesOf
<1>4. t = [blocks |-> [names |-> Range(note) \cup n.taken, packets |-> d.taken,
                       requests |-> r.taken, size |-> size],
           queues |-> [notification |-> <<>>, names |-> n.kept, packets |-> d.kept,
                       repairs |-> r.kept],
           expired |-> n.expired]
  BY Zenon DEF TakeBlocks
<1> HIDE DEF note, base, name, request, t
<1>5. /\ n \in Packed(N, RepeatCount) /\ n.size >= Encoded(base)
      /\ \A p : Waits(q.names, p) => Placed(n, p)
  <2>1. q.names \in Queue(N, RepeatCount)
    BY DEF QueuesOf
  <2> QED
    BY <1>c, <1>1, <2>1, PackFacts
<1>6. n.size \in Nat
  BY <1>5 DEF Packed
<1> HIDE DEF n
<1>7. d \in Packed(D, RepeatCount) /\ d.size >= n.size
  <2>1. q.packets \in Queue(D, RepeatCount)
    BY DEF QueuesOf
  <2> QED
    BY <1>c, <1>6, <2>1, PackFacts
<1>8. d.size \in Nat
  BY <1>7 DEF Packed
<1> HIDE DEF d
<1>9. r \in Packed(Remote, RepairRepeatCount)
  <2>1. q.repairs \in Queue(Remote, RepairRepeatCount)
    BY DEF QueuesOf
  <2> QED
    BY <1>c, <1>8, <2>1, PackFacts
<1> HIDE DEF r
<1>10. mappings \in Nat
  <2>1. base + d.size - Encoded(base) \in Nat
    BY <1>1, <1>5, <1>6, <1>7, <1>8
  <2> QED
    BY <2>1, SizesAreNat
<1>11. repairs \in Nat
  <2>1. r.taken \subseteq Remote
    BY <1>9 DEF Packed
  <2>2. Cardinality(r.taken) \in Nat
    BY <2>1, ExtraAssumption, FS_Subset, FS_CardinalityType
  <2>3. RequestSize * Cardinality(r.taken) \in Nat
    BY <2>2, SizesAreNat
  <2> QED
    BY <2>3, SizesAreNat
<1> HIDE DEF mappings, repairs
<1>12. size \in Nat
  BY <1>10, <1>11
<1>14. Range(note) \in SUBSET N
  BY <1>1 DEF Range
<1> HIDE DEF size
<1>15. /\ t.queues = [notification |-> <<>>, names |-> n.kept, packets |-> d.kept,
                      repairs |-> r.kept]
       /\ t.blocks = [names |-> Range(note) \cup n.taken, packets |-> d.taken,
                      requests |-> r.taken, size |-> size]
       /\ t.expired = n.expired
  BY <1>4
<1>16. t.queues \in QueuesOf(N, D)
  BY <1>15, <1>5, <1>7, <1>9 DEF QueuesOf, Packed
<1>17. t.blocks \in [names : SUBSET N, packets : SUBSET D, requests : SUBSET Remote, size : Nat]
  BY <1>15, <1>5, <1>7, <1>9, <1>12, <1>14 DEF Packed
<1>18. t.expired \in SUBSET N
  BY <1>15, <1>5 DEF Packed
<1>19. \A p : Waits(q.names, p) =>
         \/ p \in t.blocks.names \/ p \in t.expired \/ Waits(t.queues.names, p)
  BY <1>5, <1>15 DEF Placed
<1> QED
  BY <1>16, <1>17, <1>18, <1>19 DEF t

\* A RepairData block asks for numbers.
LEMMA SeqNosFacts ==
  ASSUME NEW request \in Seq(Nat \X Nat)
  PROVE  SeqNos(request) \in Seq(Nat)
<1>1. CASE ~Decodes(request)
  BY <1>1 DEF SeqNos
<1>2. CASE Decodes(request)
  <2> DEFINE E == { range \in Nat \X Nat : range[1] \in 1 .. range[2] }
  <2>1. request \in Seq(E)
    <3>1. \A i \in 1 .. Len(request) : request[i] \in E
      BY <1>2 DEF Decodes
    <3> HIDE DEF E
    <3>2. request \in [1 .. Len(request) -> E] /\ Len(request) \in Nat
      BY <3>1
    <3> QED
      BY <3>2
  <2>2. LoopOfSeqNos!Closed({}, Seq(Nat), E)
    <3> SUFFICES ASSUME NEW all \in Seq(Nat), NEW range \in E
                 PROVE  AddSeqNos(all, range) \in Seq(Nat)
      BY DEF LoopOfSeqNos!Closed
    <3> DEFINE n == (range[2] - range[1]) + 1
               more == [i \in 1 .. n |-> range[1] + (i - 1)]
    <3>1. n \in Nat /\ range[1] \in Nat /\ range[1] >= 1
      OBVIOUS
    <3>2. more \in Seq(Nat)
      <4>1. \A i \in 1 .. n : range[1] + (i - 1) \in Nat
        BY <3>1
      <4> HIDE DEF n
      <4> QED
        BY <3>1, <4>1
    <3>3. AddSeqNos(all, range) = all \o more
      BY Zenon DEF AddSeqNos
    <3> HIDE DEF more
    <3> QED
      BY <3>2, <3>3
  <2> HIDE DEF E
  <2>3. <<>> \in Seq(Nat)
    OBVIOUS
  <2>4. LoopOfSeqNos!Loop({}, <<>>, request) \in Seq(Nat)
    BY <2>1, <2>2, <2>3, LoopOfSeqNos!FoldInvariant
  <2> QED
    BY <1>2, <2>4, SameSeqNos
<1> QED
  BY <1>1, <1>2

\* Answering a RepairData block enters each number that has a mapping, and takes
\* nothing out.
LEMMA EnqueueFacts ==
  ASSUME NEW N, NEW D, NEW request \in Seq(Nat \X Nat), published \in Nat, mapped \in Nat,
         1 .. mapped \subseteq N, Small \cap 1 .. published \subseteq D,
         queues \in QueuesOf(N, D)
  PROVE  LET new == FoldLeft(EnqueueRepairPublication, queues, SeqNos(request))
         IN  /\ new \in QueuesOf(N, D)
             /\ \A p : Waits(queues.names, p) => Waits(new.names, p)
             /\ \A p \in Range(SeqNos(request)) \cap 1 .. mapped : Waits(new.names, p)
<1> DEFINE A == QueuesOf(N, D)
           numbers == SeqNos(request)
           new == FoldLeft(EnqueueRepairPublication, queues, numbers)
<1>0. RepeatCount \in Nat
  BY ExtraAssumption
<1>1. numbers \in Seq(Nat)
  BY SeqNosFacts
<1>2. new = LoopOfEnqueue!Loop({}, queues, numbers)
  BY SameEnqueue
<1>3. ASSUME NEW q \in A, NEW p \in Nat
      PROVE  /\ EnqueueRepairPublication(q, p) \in A
             /\ \A o : Waits(q.names, o) => Waits(EnqueueRepairPublication(q, p).names, o)
             /\ p \in 1 .. mapped => Waits(EnqueueRepairPublication(q, p).names, p)
  <2> DEFINE next == EnqueueRepairPublication(q, p)
  <2>1. CASE p \notin 1 .. mapped
    BY <2>1 DEF EnqueueRepairPublication
  <2>2. CASE p \in 1 .. mapped
    <3> DEFINE names == Append(q.names, Fresh(p))
               packets == IF p \in Small /\ p <= published THEN Append(q.packets, Fresh(p))
                          ELSE q.packets
    <3>1. next = [q EXCEPT !.names = names, !.packets = packets]
      BY <2>2 DEF EnqueueRepairPublication
    <3>2. /\ names \in Queue(N, RepeatCount)
          /\ \A o : Waits(q.names, o) => Waits(names, o)
          /\ Waits(names, p)
      BY <2>2, <1>0, AppendFresh DEF QueuesOf
    <3>3. packets \in Queue(D, RepeatCount)
      <4>1. q.packets \in Queue(D, RepeatCount)
        BY DEF QueuesOf
      <4>2. p \in Small /\ p <= published => p \in D
        BY <2>2
      <4> QED
        BY <1>0, <4>1, <4>2, AppendFresh
    <3> HIDE DEF names, packets, next
    <3>4. next \in A /\ next.names = names
      BY <3>1, <3>2, <3>3 DEF QueuesOf
    <3> QED
      BY <3>2, <3>4 DEF next
  <2> QED
    BY <2>1, <2>2
<1> HIDE DEF A, numbers
<1>4. LoopOfEnqueue!Closed({}, A, Nat)
  BY <1>3 DEF LoopOfEnqueue!Closed
<1>5. queues \in A
  BY DEF A
<1> HIDE DEF new
<1>6. new \in A
  BY <1>1, <1>2, <1>4, <1>5, LoopOfEnqueue!FoldInvariant
<1>7. ASSUME NEW o, Waits(queues.names, o)
      PROVE  Waits(new.names, o)
  <2> DEFINE G == { q \in A : Waits(q.names, o) }
  <2>1. LoopOfEnqueue!Closed({}, G, Nat)
    BY <1>3 DEF LoopOfEnqueue!Closed
  <2>2. queues \in G
    BY <1>5, <1>7
  <2> HIDE DEF G
  <2>3. new \in G
    BY <1>1, <1>2, <2>1, <2>2, LoopOfEnqueue!FoldInvariant
  <2> QED
    BY <2>3 DEF G
<1>8. ASSUME NEW p \in Range(numbers), p \in 1 .. mapped
      PROVE  Waits(new.names, p)
  <2> DEFINE G == { q \in A : Waits(q.names, p) }
  <2>1. PICK k \in 1 .. Len(numbers) : numbers[k] = p
    BY <1>1 DEF Range
  <2>2. LoopOfEnqueue!Closed({}, A \cap G, Nat)
    BY <1>3 DEF LoopOfEnqueue!Closed
  <2>3. \A q \in A : EnqueueRepairPublication(q, numbers[k]) \in G
    BY <1>3, <1>8, <2>1
  <2> HIDE DEF G
  <2>4. new \in G
    BY <1>1, <1>2, <1>4, <1>5, <2>2, <2>3, LoopOfEnqueue!FoldReaches
  <2> QED
    BY <2>4 DEF G
<1> QED
  BY <1>6, <1>7, <1>8 DEF A, new, numbers

--------------------------------------------------------------------------------
(*****************************************************************************)
(* The inductive invariant                                                   *)
(*****************************************************************************)

\* The highest publication whose name is queued: it is one ahead of the node's
\* number while publish is under way and after its commit has failed.
Named == IF step = "idle" /\ published + 1 \notin Failed THEN published ELSE published + 1

\* The highest publication whose packet may be queued
Committed == IF step = "committed" THEN published + 1 ELSE published

\* Blocks with names from N and packets from D
BlocksOf(N, D) == [names : SUBSET N, packets : SUBSET D, requests : SUBSET Remote, size : Nat]

\* The publications an Interest with this number may name
MayName(number) == 1 .. number \cup ({number + 1} \cap Failed)

\* NamesAreAdvertised for one Interest
Advertised(number, blocks) ==
  mode # "worker" => blocks.names \subseteq MayName(number) /\ blocks.packets \subseteq 1 .. number

\* A job or result: what it holds may be sent, and in mode worker it holds
\* nothing before the worker has run it.
GoodJob ==
  { job \in [number : 0 .. MaxPub, blocks : Blocks, stale : BOOLEAN, done : BOOLEAN] :
      /\ Advertised(job.number, job.blocks)
      /\ mode = "worker" /\ ~job.done => job.blocks.names = {} }

\* An Interest that may be sent
GoodInterest ==
  { i \in [number : 0 .. MaxPub, blocks : Blocks] : Advertised(i.number, i.blocks) }

\* The part of the invariant on what is queued, under way and sent
Shape ==
  /\ mode \in Modes /\ published \in 0 .. MaxPub
  /\ step \in {"idle", "named", "committed"} /\ (step # "idle" => published < MaxPub)
  /\ failures \in [Pub -> 0 .. MaxFailures] /\ Failed \subseteq 1 .. published + 1
  /\ mapped \in published .. Named /\ (step = "committed" => mapped = published + 1)
  /\ queues \in QueuesOf(1 .. Named, Small \cap 1 .. Committed)
  /\ jobs \in Seq(GoodJob) /\ (mode = "serial" => jobs = <<>>)
  /\ wire = NoInterest \/ wire \in GoodInterest
  /\ received \in 0 .. MaxRequests
  /\ settled \subseteq Pub /\ waiting \subseteq Pub

\* A job or result holds the name of p.
InJob(js, p) == \E i \in DOMAIN js : p \in js[i].blocks.names

\* NamesReachTheNetwork, for the publication under way too
Covered ==
  mode \in {"serial", "worker"} =>
    \A p \in ((1 .. Named) \ settled) \cup waiting : Waits(queues.names, p) \/ InJob(jobs, p)

\* The inductive invariant
IInv == Shape /\ Covered

\* What a step must do to keep Covered: a name leaves the queue and the jobs
\* when it is settled only, and what is new is queued.
LEMMA CoveredStep ==
  ASSUME Covered, mode' = mode,
         mode \in {"serial", "worker"} =>
           \A p : /\ Waits(queues.names, p) \/ InJob(jobs, p) =>
                       \/ Waits(queues.names, p)' \/ InJob(jobs, p)'
                       \/ p \in settled' /\ p \notin waiting'
                  /\ p \in ((1 .. Named) \ settled)' \cup waiting' =>
                       \/ p \in ((1 .. Named) \ settled) \cup waiting
                       \/ Waits(queues.names, p)'
  PROVE  Covered'
  BY DEF Covered

\* What sendSyncInterest leaves behind, when names of N were queued
Sent(number, N, js) ==
  LET D == Small \cap 1 .. number
  IN  /\ queues' \in QueuesOf(N, D)
      /\ \/ jobs' = js
         \/ \E b \in BlocksOf(N, D) :
              /\ jobs' = Append(js, NewJob(number, b)) /\ mode # "serial"
              /\ mode = "worker" => b.names = {}
      /\ \/ wire' = NoInterest
         \/ \E b \in BlocksOf(N, D) : wire' = [number |-> number, blocks |-> b]
      /\ settled \subseteq settled' /\ settled' \subseteq settled \cup N
      /\ waiting' \subseteq waiting
      /\ mode \in {"serial", "worker"} =>
           \A p : Waits(queues.names, p) =>
             \/ Waits(queues'.names, p)
             \/ p \in settled' /\ p \notin waiting'

\* An empty job names nothing.
LEMMA NoBlocksFacts ==
  ASSUME NEW N, NEW D
  PROVE  NoBlocks \in BlocksOf(N, D) /\ NoBlocks.names = {}
  BY DEF NoBlocks, BlocksOf

\* sendSyncInterestSerial
LEMMA SendSerialStep ==
  ASSUME NEW number, NEW N, NEW js, NEW q, NEW gone,
         q \in QueuesOf(N, Small \cap 1 .. number), gone \subseteq N,
         mode \in {"serial", "worker"} => q = queues,
         SendSerial(number, q, js, gone)
  PROVE  Sent(number, N, js)
<1> DEFINE D == Small \cap 1 .. number
           t == TakeBlocks(q)
<1>1. /\ t.queues \in QueuesOf(N, D) /\ t.blocks \in BlocksOf(N, D) /\ t.expired \in SUBSET N
      /\ \A p : Waits(q.names, p) =>
           \/ p \in t.blocks.names \/ p \in t.expired \/ Waits(t.queues.names, p)
  BY TakeBlocksFacts DEF BlocksOf
<1>2. /\ queues' = t.queues /\ wire' = [number |-> number, blocks |-> t.blocks] /\ jobs' = js
      /\ settled' = settled \cup (gone \cup t.blocks.names \cup t.expired)
      /\ waiting' = waiting \ (gone \cup t.blocks.names \cup t.expired)
  BY DEF SendSerial, Settle
<1> HIDE DEF t
<1>3. t.blocks.names \subseteq N /\ t.expired \subseteq N
  BY <1>1 DEF BlocksOf
<1>4. settled \subseteq settled' /\ settled' \subseteq settled \cup N /\ waiting' \subseteq waiting
  BY <1>2, <1>3
<1>5. ASSUME NEW p, Waits(queues.names, p), mode \in {"serial", "worker"}
      PROVE  Waits(queues'.names, p) \/ (p \in settled' /\ p \notin waiting')
  BY <1>1, <1>2, <1>5
<1>6. \E b \in BlocksOf(N, D) : wire' = [number |-> number, blocks |-> b]
  BY <1>1, <1>2
<1> QED
  BY <1>1, <1>2, <1>4, <1>5, <1>6 DEF Sent

\* sendSyncInterest, in each of the modes and with the queue of the pool full
\* or not
LEMMA SendSyncInterestStep ==
  ASSUME NEW number, NEW N, NEW js, mode \in Modes,
         queues \in QueuesOf(N, Small \cap 1 .. number),
         SendSyncInterest(number, js)
  PROVE  Sent(number, N, js)
<1> DEFINE D == Small \cap 1 .. number
           t == TakeBlocks(queues)
           full == Cardinality(Open(js)) >= MaxQueueSize
<1>1. /\ t.queues \in QueuesOf(N, D) /\ t.blocks \in BlocksOf(N, D) /\ t.expired \in SUBSET N
      /\ \A p : Waits(queues.names, p) =>
           \/ p \in t.blocks.names \/ p \in t.expired \/ Waits(t.queues.names, p)
  BY TakeBlocksFacts DEF BlocksOf
<1>2. CASE SendSerial(number, queues, js, {})
  BY <1>2, SendSerialStep
<1>3. CASE mode = "capture" /\ full
  <2>1. SendSerial(number, t.queues, js, t.expired)
    BY <1>3 DEF SendSyncInterest
  <2> HIDE DEF t
  <2>2. mode \notin {"serial", "worker"}
    BY <1>3
  <2> QED
    BY <1>1, <2>1, <2>2, SendSerialStep
<1>4. CASE mode = "capture" /\ ~full
  <2>1. /\ queues' = t.queues /\ jobs' = Append(js, NewJob(number, t.blocks))
        /\ settled' = settled \cup t.expired /\ waiting' = waiting \ t.expired
        /\ wire' = NoInterest
    BY <1>4 DEF SendSyncInterest, Settle
  <2> HIDE DEF t
  <2> QED
    BY <1>1, <1>4, <2>1 DEF Sent
<1>5. CASE mode \notin {"serial", "capture"} /\ ~full
  <2>1. /\ jobs' = Append(js, NewJob(number, NoBlocks)) /\ wire' = NoInterest
        /\ UNCHANGED <<queues, settled, waiting>>
    BY <1>5 DEF SendSyncInterest
  <2> QED
    BY <1>5, <2>1, NoBlocksFacts DEF Sent
<1> QED
  BY <1>2, <1>3, <1>4, <1>5 DEF SendSyncInterest

\* The sets that bound the queues may be widened.
LEMMA QueuesOfGrows ==
  ASSUME NEW N, NEW M, NEW D, NEW E, N \subseteq M, D \subseteq E,
         NEW q \in QueuesOf(N, D)
  PROVE  q \in QueuesOf(M, E)
<1>1. /\ q.notification \in Seq(N) /\ q.names \in Queue(N, RepeatCount)
      /\ q.packets \in Queue(D, RepeatCount)
  BY DEF QueuesOf
<1>2. q.notification \in Seq(M)
  BY <1>1
<1>3. q.names \in Queue(M, RepeatCount)
  <2>1. q.names \in Seq(Entries(N, RepeatCount)) /\ Entries(N, RepeatCount) \subseteq Entries(M, RepeatCount)
    BY <1>1 DEF Queue, Entries
  <2>2. q.names \in Seq(Entries(M, RepeatCount))
    BY <2>1
  <2> QED
    BY <2>2 DEF Queue, Entries
<1>4. q.packets \in Queue(E, RepeatCount)
  <2>1. q.packets \in Seq(Entries(D, RepeatCount)) /\ Entries(D, RepeatCount) \subseteq Entries(E, RepeatCount)
    BY <1>1 DEF Queue, Entries
  <2>2. q.packets \in Seq(Entries(E, RepeatCount))
    BY <2>1
  <2> QED
    BY <2>2 DEF Queue, Entries
<1> QED
  BY <1>2, <1>3, <1>4 DEF QueuesOf

\* Which jobs are good depends on the mode and the failed commits alone.
LEMMA GoodJobSame ==
  ASSUME mode' = mode, failures' = failures
  PROVE  /\ Failed' = Failed
         /\ GoodJob' = GoodJob /\ GoodInterest' = GoodInterest
<1>1. Failed' = Failed
  BY DEF Failed
<1> QED
  BY <1>1 DEF GoodJob, GoodInterest, Advertised, MayName

\* A further failed commit spoils no job.
LEMMA GoodJobGrows ==
  ASSUME mode' = mode, Failed \subseteq Failed'
  PROVE  GoodJob \subseteq GoodJob'
  BY DEF GoodJob, Advertised, MayName

\* Marking results as stale changes nothing else.
LEMMA OutdatedFacts ==
  ASSUME NEW js \in Seq(GoodJob)
  PROVE  /\ Outdated(js) \in Seq(GoodJob)
         /\ js = <<>> => Outdated(js) = <<>>
         /\ \A p : InJob(js, p) <=> InJob(Outdated(js), p)
<1> DEFINE new == [i \in 1 .. Len(js) |-> [js[i] EXCEPT !.stale = TRUE]]
<1>1. Outdated(js) = new
  BY DEF Outdated
<1>2. ASSUME NEW i \in 1 .. Len(js)
      PROVE  [js[i] EXCEPT !.stale = TRUE] \in GoodJob
             /\ [js[i] EXCEPT !.stale = TRUE].blocks = js[i].blocks
  <2> DEFINE job == js[i]
             out == [job EXCEPT !.stale = TRUE]
  <2>1. job \in GoodJob
    OBVIOUS
  <2> HIDE DEF job
  <2>2. /\ job \in [number : 0 .. MaxPub, blocks : Blocks, stale : BOOLEAN, done : BOOLEAN]
        /\ Advertised(job.number, job.blocks)
        /\ mode = "worker" /\ ~job.done => job.blocks.names = {}
    BY <2>1 DEF GoodJob
  <2>3. /\ out \in [number : 0 .. MaxPub, blocks : Blocks, stale : BOOLEAN, done : BOOLEAN]
        /\ out.blocks = job.blocks /\ out.number = job.number /\ (out.done <=> job.done)
    BY <2>2
  <2> HIDE DEF out
  <2>4. out \in GoodJob
    BY <2>2, <2>3 DEF GoodJob
  <2> QED
    BY <2>3, <2>4 DEF out, job
<1>3. new \in Seq(GoodJob) /\ Len(new) = Len(js)
  BY <1>2
<1>4. DOMAIN new = DOMAIN js /\ \A i \in DOMAIN js : new[i].blocks = js[i].blocks
  BY <1>2
<1>5. js = <<>> => new = <<>>
  BY <1>3
<1> HIDE DEF new
<1> QED
  BY <1>1, <1>3, <1>4, <1>5 DEF InJob

\* A new job
LEMMA AppendJob ==
  ASSUME NEW js \in Seq(GoodJob), NEW job \in GoodJob
  PROVE  /\ Append(js, job) \in Seq(GoodJob)
         /\ \A p : InJob(js, p) => InJob(Append(js, job), p)
<1> DEFINE new == Append(js, job)
<1>1. /\ new \in Seq(GoodJob) /\ Len(new) = Len(js) + 1
      /\ \A i \in 1 .. Len(js) : new[i] = js[i]
  OBVIOUS
<1>2. DOMAIN js = 1 .. Len(js) /\ DOMAIN new = 1 .. Len(new) /\ 1 .. Len(js) \subseteq 1 .. Len(new)
  BY <1>1
<1> HIDE DEF new
<1>3. \A p : InJob(js, p) => InJob(new, p)
  BY <1>1, <1>2 DEF InJob
<1> QED
  BY <1>1, <1>3 DEF new

\* Blocks bounded by what an Interest with this number may name
LEMMA BlocksOfPub ==
  ASSUME NEW number \in 0 .. MaxPub, NEW N, N \subseteq Pub, N \subseteq MayName(number),
         NEW b \in BlocksOf(N, Small \cap 1 .. number)
  PROVE  b \in Blocks /\ Advertised(number, b)
  BY DEF BlocksOf, Blocks, Advertised

\* After sendSyncInterest what is queued, under way and sent is well formed.
LEMMA SentIsGood ==
  ASSUME NEW number \in 0 .. MaxPub, NEW N, N \subseteq Pub, N \subseteq MayName(number),
         NEW js \in Seq(GoodJob), Sent(number, N, js), mode' = mode, failures' = failures,
         mode = "serial" => js = <<>>, settled \subseteq Pub, waiting \subseteq Pub
  PROVE  /\ jobs' \in Seq(GoodJob') /\ (mode' = "serial" => jobs' = <<>>)
         /\ wire' = NoInterest \/ wire' \in GoodInterest'
         /\ settled' \subseteq Pub /\ waiting' \subseteq Pub
         /\ \A p : InJob(js, p) => InJob(jobs', p)
<1> DEFINE D == Small \cap 1 .. number
<1>1. settled' \subseteq Pub /\ waiting' \subseteq Pub
  BY DEF Sent
<1>2. wire' = NoInterest \/ wire' \in GoodInterest
  <2> SUFFICES ASSUME wire' # NoInterest PROVE wire' \in GoodInterest
    OBVIOUS
  <2>1. PICK b \in BlocksOf(N, D) : wire' = [number |-> number, blocks |-> b]
    BY DEF Sent
  <2>2. b \in Blocks /\ Advertised(number, b)
    BY BlocksOfPub
  <2> QED
    BY <2>1, <2>2 DEF GoodInterest
<1>3. /\ jobs' \in Seq(GoodJob) /\ (mode = "serial" => jobs' = <<>>)
      /\ \A p : InJob(js, p) => InJob(jobs', p)
  <2>1. CASE jobs' = js
    BY <2>1
  <2>2. CASE jobs' # js
    <3>1. PICK b \in BlocksOf(N, D) :
            /\ jobs' = Append(js, NewJob(number, b)) /\ mode # "serial"
            /\ mode = "worker" => b.names = {}
      BY <2>2 DEF Sent
    <3>2. b \in Blocks /\ Advertised(number, b)
      BY BlocksOfPub
    <3>3. NewJob(number, b) \in GoodJob
      BY <3>1, <3>2 DEF NewJob, GoodJob
    <3> QED
      BY <3>1, <3>3, AppendJob
  <2> QED
    BY <2>1, <2>2
<1> QED
  BY <1>1, <1>2, <1>3, GoodJobSame

--------------------------------------------------------------------------------
(*****************************************************************************)
(* Every step keeps it                                                       *)
(*****************************************************************************)

\* The invariant holds initially.
LEMMA InitIInv ==
  ASSUME Init
  PROVE  IInv
<1>0. Failed = {}
  BY DEF Init, Failed
<1>1. Named = 0 /\ Committed = 0
  BY <1>0 DEF Init, Named, Committed
<1>2. queues \in QueuesOf(1 .. Named, Small \cap 1 .. Committed)
  BY DEF Init, QueuesOf, Queue
<1>3. failures \in [Pub -> 0 .. MaxFailures]
  BY ExtraAssumption DEF Init
<1>4. Shape
  BY <1>0, <1>1, <1>2, <1>3, ExtraAssumption DEF Shape, Init
<1>5. Covered
  BY <1>1 DEF Covered, Init
<1> QED
  BY <1>4, <1>5 DEF IInv

\* The parts of Shape that an action seldom touches
LEMMA ShapeFacts ==
  ASSUME Shape
  PROVE  /\ MaxPub \in Nat /\ published \in Nat /\ published \in 0 .. MaxPub
         /\ Named \in 0 .. MaxPub /\ Committed \in 0 .. MaxPub /\ Committed <= Named
         /\ Named \in {published, published + 1}
         /\ RepeatCount \in Nat /\ RepairRepeatCount \in Nat
<1>1. Failed \subseteq 1 .. MaxPub
  BY DEF Failed, Pub
<1>2. /\ MaxPub \in Nat /\ published \in 0 .. MaxPub /\ (step # "idle" => published < MaxPub)
      /\ RepeatCount \in Nat /\ RepairRepeatCount \in Nat
  BY ExtraAssumption DEF Shape
<1>3. published + 1 \in Failed => published < MaxPub
  BY <1>1, <1>2
<1>4. /\ Named = published \/ (Named = published + 1 /\ published < MaxPub)
      /\ Committed = published \/ (Committed = published + 1 /\ Named = published + 1)
  BY <1>2, <1>3 DEF Named, Committed
<1> QED
  BY <1>2, <1>4

\* What an idle node has queued may be named.
LEMMA IdleNames ==
  ASSUME Shape, step = "idle"
  PROVE  /\ Committed = published /\ 1 .. Named \subseteq Pub
         /\ 1 .. Named \subseteq MayName(published)
<1>1. published \in Nat /\ Named \in 0 .. MaxPub /\ MaxPub \in Nat
  BY ShapeFacts
<1>2. CASE published + 1 \in Failed
  <2>1. Named = published + 1
    BY <1>2 DEF Named
  <2>2. 1 .. published + 1 = 1 .. published \cup {published + 1}
    BY <1>1
  <2> QED
    BY <1>1, <1>2, <2>1, <2>2 DEF MayName, Pub, Committed
<1>3. CASE published + 1 \notin Failed
  <2>1. Named = published
    BY <1>3 DEF Named
  <2> QED
    BY <1>1, <2>1 DEF MayName, Pub, Committed
<1> QED
  BY <1>2, <1>3

\* The actions keep the invariant: insertMapping runs ahead of the number by
\* one.
LEMMA InsertMappingKeeps ==
  ASSUME IInv, InsertMapping
  PROVE  IInv'
<1> DEFINE p == published + 1
           N == 1 .. Named
           D == Small \cap 1 .. published
<1>1. Shape /\ Covered /\ step = "idle" /\ Committed = published
      /\ published < MaxPub /\ published \in Nat /\ RepeatCount \in Nat
      /\ Named \in {published, p}
  BY ShapeFacts DEF IInv, InsertMapping, Committed
<1>9. UNCHANGED <<mode, published, mapped, jobs, received, waiting, failures>> /\ wire' = NoInterest
      /\ step' = "named" /\ settled' = settled \ {p}
  BY DEF InsertMapping
<1>2. Named' = p /\ Committed' = published /\ p \in 1 .. p /\ N \subseteq 1 .. p
      /\ 1 .. p \subseteq N \cup {p} /\ Failed' = Failed
  BY <1>1, <1>9, GoodJobSame DEF Named, Committed
<1>3. queues \in QueuesOf(N, D)
  BY <1>1 DEF Shape
<1>4. queues \in QueuesOf(1 .. p, D)
  <2>1. N \subseteq 1 .. p /\ D \subseteq D
    BY <1>2
  <2> HIDE DEF N, D, p
  <2> QED
    BY <1>3, <2>1, QueuesOfGrows
<1> DEFINE names == Append(queues.names, Fresh(p))
           notes == Append(queues.notification, p)
<1>5. /\ names \in Queue(1 .. p, RepeatCount)
      /\ \A o : Waits(queues.names, o) => Waits(names, o)
      /\ Waits(names, p)
  <2>1. queues.names \in Queue(1 .. p, RepeatCount)
    BY <1>4 DEF QueuesOf
  <2> QED
    BY <1>1, <1>2, <2>1, AppendFresh
<1>6. notes \in Seq(1 .. p)
  BY <1>2, <1>4 DEF QueuesOf
<1>7. queues' = [queues EXCEPT !.notification = notes, !.names = names]
  BY DEF InsertMapping
<1> HIDE DEF names, notes
<1>8. queues' \in QueuesOf(1 .. p, D) /\ queues'.names = names
  BY <1>4, <1>5, <1>6, <1>7 DEF QueuesOf
<1>a. mapped' \in published .. p
  BY <1>1, <1>9 DEF Shape
<1>10. Shape'
  BY <1>1, <1>2, <1>8, <1>9, <1>a, GoodJobSame DEF Shape
<1>11. Covered'
  <2>1. \A o : /\ Waits(queues.names, o) => Waits(queues.names, o)'
               /\ InJob(jobs, o) => InJob(jobs, o)'
    BY <1>5, <1>8, <1>9
  <2>2. \A o : o \in ((1 .. Named) \ settled)' \cup waiting' =>
                 o \in ((1 .. Named) \ settled) \cup waiting \/ Waits(queues.names, o)'
    BY <1>2, <1>5, <1>8, <1>9
  <2> QED
    BY <1>1, <1>9, <2>1, <2>2, CoveredStep
<1> QED
  BY <1>10, <1>11 DEF IInv

\* The rest of commitPreparedPublication
LEMMA QueuePacketKeeps ==
  ASSUME IInv, QueuePacket
  PROVE  IInv'
<1> DEFINE p == published + 1
           D == Small \cap 1 .. p
<1>1. Shape /\ Covered /\ step = "named" /\ Named = p /\ Committed = published
      /\ published < MaxPub /\ published \in Nat /\ RepeatCount \in Nat
  BY ShapeFacts DEF IInv, Shape, QueuePacket, Named, Committed
<1>2. UNCHANGED <<mode, published, jobs, received, settled, waiting, failures>>
      /\ wire' = NoInterest /\ step' = "committed" /\ mapped' = p
  BY DEF QueuePacket
<1>3. Named' = p /\ Committed' = p /\ 1 .. published \subseteq 1 .. p /\ p \in 1 .. p
  BY <1>1, <1>2 DEF Named, Committed
<1>4. queues \in QueuesOf(1 .. p, D)
  <2>1. queues \in QueuesOf(1 .. p, Small \cap 1 .. published)
    BY <1>1 DEF Shape
  <2>2. Small \cap 1 .. published \subseteq D
    BY <1>3
  <2> QED
    BY <2>1, <2>2, QueuesOfGrows
<1>5. queues' \in QueuesOf(1 .. p, D) /\ queues'.names = queues.names
  <2>1. CASE p \notin Small
    BY <1>4, <2>1 DEF QueuePacket
  <2>2. CASE p \in Small
    <3> DEFINE packets == Append(queues.packets, Fresh(p))
    <3>1. packets \in Queue(D, RepeatCount)
      <4>1. queues.packets \in Queue(D, RepeatCount) /\ p \in D
        BY <1>3, <1>4, <2>2 DEF QueuesOf
      <4> QED
        BY <1>1, <4>1, AppendFresh
    <3>2. queues' = [queues EXCEPT !.packets = packets]
      BY <2>2 DEF QueuePacket
    <3> HIDE DEF packets
    <3> QED
      BY <1>4, <3>1, <3>2 DEF QueuesOf
  <2> QED
    BY <2>1, <2>2
<1>a. mapped' \in published .. p
  BY <1>1, <1>2
<1>6. Shape'
  BY <1>1, <1>2, <1>3, <1>5, <1>a, GoodJobSame DEF Shape
<1>7. Covered'
  <2>1. \A o : /\ Waits(queues.names, o) => Waits(queues.names, o)'
               /\ InJob(jobs, o) => InJob(jobs, o)'
    BY <1>2, <1>5
  <2>2. \A o : o \in ((1 .. Named) \ settled)' \cup waiting' =>
                 o \in ((1 .. Named) \ settled) \cup waiting
    BY <1>1, <1>2, <1>3
  <2> QED
    BY <1>1, <1>2, <2>1, <2>2, CoveredStep
<1> QED
  BY <1>6, <1>7 DEF IInv

\* The commit fails: what is queued stays queued, one ahead of the number.
LEMMA CommitFailsKeeps ==
  ASSUME IInv, NEW installed \in BOOLEAN, CommitFails(installed)
  PROVE  IInv'
<1> DEFINE p == published + 1
<1>1. Shape /\ Covered /\ step = "named" /\ Named = p /\ Committed = published
      /\ published < MaxPub /\ published \in Nat /\ MaxPub \in Nat
  BY ShapeFacts DEF IInv, Shape, CommitFails, Named, Committed
<1>2. /\ UNCHANGED <<mode, published, queues, jobs, received, settled, waiting>>
      /\ wire' = NoInterest /\ step' = "idle"
      /\ failures' = [failures EXCEPT ![p] = @ + 1] /\ failures[p] < MaxFailures
  BY DEF CommitFails
<1>a. mapped' = p \/ mapped' = mapped
  BY DEF CommitFails
<1>3. /\ failures \in [Pub -> 0 .. MaxFailures] /\ p \in Pub /\ MaxFailures \in Nat
      /\ Failed \subseteq 1 .. p
  <2>1. failures \in [Pub -> 0 .. MaxFailures] /\ Failed \subseteq 1 .. p
    BY <1>1 DEF Shape
  <2>2. p \in Pub
    BY <1>1 DEF Pub
  <2>3. MaxFailures \in Nat
    BY ExtraAssumption
  <2> QED
    BY <2>1, <2>2, <2>3
<1>4. failures' \in [Pub -> 0 .. MaxFailures] /\ failures'[p] = failures[p] + 1
  BY <1>2, <1>3
<1>5. Failed' = Failed \cup {p}
  <2>1. failures'[p] > 0
    BY <1>3, <1>4
  <2>2. \A o \in Pub : o # p => failures'[o] = failures[o]
    BY <1>2, <1>3
  <2> QED
    BY <1>3, <2>1, <2>2 DEF Failed
<1>6. Named' = p /\ Committed' = published /\ Failed' \subseteq 1 .. p
  <2>1. p \in 1 .. p
    BY <1>1
  <2> QED
    BY <1>1, <1>2, <1>3, <1>5, <2>1 DEF Named, Committed
<1>7. jobs' \in Seq(GoodJob')
  <2>1. jobs \in Seq(GoodJob) /\ GoodJob \subseteq GoodJob'
    BY <1>1, <1>2, <1>5, GoodJobGrows DEF Shape
  <2> DEFINE G == GoodJob
             H == GoodJob'
  <2> HIDE DEF G, H
  <2>2. jobs \in Seq(G) /\ G \subseteq H
    BY <2>1 DEF G, H
  <2>3. jobs \in Seq(H)
    BY <2>2
  <2> QED
    BY <1>2, <2>3 DEF H
<1>8. mapped' \in published .. p
  <2>1. mapped \in published .. p
    BY <1>1 DEF Shape
  <2> QED
    BY <1>1, <1>a, <2>1
<1>9. Shape'
  BY <1>1, <1>2, <1>4, <1>6, <1>7, <1>8 DEF Shape
<1>10. Covered'
  BY <1>1, <1>2, <1>6 DEF Covered
<1> QED
  BY <1>9, <1>10 DEF IInv

\* An action that ends with sendSyncInterest
LEMMA SendingKeeps ==
  ASSUME IInv, NEW number \in 0 .. MaxPub, NEW js \in Seq(GoodJob),
         mode = "serial" => js = <<>>, \A p : InJob(jobs, p) => InJob(js, p),
         Named' = Named, 1 .. Named \subseteq Pub, 1 .. Named \subseteq MayName(number),
         queues \in QueuesOf(1 .. Named, Small \cap 1 .. number),
         SendSyncInterest(number, js),
         step' = "idle", published' = number, UNCHANGED <<mode, mapped, received, failures>>,
         Failed \subseteq 1 .. number + 1, mapped \in number .. Named
  PROVE  IInv'
<1>1. /\ Shape /\ Covered /\ mode \in Modes /\ settled \subseteq Pub /\ waiting \subseteq Pub
      /\ failures \in [Pub -> 0 .. MaxFailures] /\ received \in 0 .. MaxRequests
  BY DEF IInv, Shape
<1>2. Sent(number, 1 .. Named, js)
  BY <1>1, SendSyncInterestStep
<1>3. /\ jobs' \in Seq(GoodJob') /\ (mode' = "serial" => jobs' = <<>>)
      /\ wire' = NoInterest \/ wire' \in GoodInterest'
      /\ settled' \subseteq Pub /\ waiting' \subseteq Pub
      /\ \A p : InJob(js, p) => InJob(jobs', p)
  BY <1>1, <1>2, SentIsGood
<1>4. Committed' = number /\ Failed' = Failed
  BY GoodJobSame DEF Committed
<1>5. /\ queues' \in QueuesOf(1 .. Named, Small \cap 1 .. number)
      /\ settled \subseteq settled' /\ waiting' \subseteq waiting
      /\ mode \in {"serial", "worker"} =>
           \A p : Waits(queues.names, p) =>
             \/ Waits(queues'.names, p)
             \/ p \in settled' /\ p \notin waiting'
  BY <1>2 DEF Sent
<1>6. Shape'
  BY <1>1, <1>3, <1>4, <1>5 DEF Shape
<1>7. Covered'
  <2>1. \A o : o \in ((1 .. Named) \ settled)' \cup waiting' =>
                 o \in ((1 .. Named) \ settled) \cup waiting
    BY <1>5
  <2> QED
    BY <1>1, <1>3, <1>5, <2>1, CoveredStep
<1> QED
  BY <1>6, <1>7 DEF IInv

\* The number is raised: no later publication has been named.
LEMMA RaisedNumber ==
  ASSUME Shape, step = "committed", step' = "idle", published' = published + 1,
         UNCHANGED <<mode, mapped, failures>>
  PROVE  /\ Named = published + 1 /\ Committed = published + 1
         /\ Named' = Named /\ Committed' = Committed
         /\ published + 1 \in 0 .. MaxPub /\ mapped = published + 1
         /\ Failed \subseteq 1 .. published + 2
<1>1. published \in Nat /\ MaxPub \in Nat /\ published < MaxPub /\ mapped = published + 1
  BY ShapeFacts DEF Shape
<1>2. Failed \subseteq 1 .. published + 1 /\ Failed' = Failed
  BY GoodJobSame DEF Shape
<1>3. published + 2 \notin Failed /\ Failed \subseteq 1 .. published + 2
  BY <1>1, <1>2
<1>4. (published + 1) + 1 \notin Failed
  BY <1>1, <1>3
<1>5. Named = published + 1 /\ Committed = published + 1
  BY DEF Named, Committed
<1>6. Named' = published + 1 /\ Committed' = published + 1
  BY <1>2, <1>4 DEF Named, Committed
<1> QED
  BY <1>1, <1>3, <1>5, <1>6

\* Only the jobs are marked.
LEMMA MarkingKeeps ==
  ASSUME IInv, jobs' = Outdated(jobs), UNCHANGED <<mode, queues, received, settled, waiting>>,
         UNCHANGED <<mapped, failures>>, wire' = NoInterest, step' = "idle",
         \/ step = "idle" /\ published' = published
         \/ step = "committed" /\ published' = published + 1
  PROVE  IInv'
<1>1. Shape /\ Covered /\ jobs \in Seq(GoodJob)
  BY DEF IInv, Shape
<1>2. /\ Named' = Named /\ Committed' = Committed /\ published' \in 0 .. MaxPub
      /\ mapped \in published' .. Named /\ Failed \subseteq 1 .. published' + 1
  <2>1. CASE step = "idle" /\ published' = published
    <3>1. Failed' = Failed
      BY GoodJobSame
    <3> QED
      BY <1>1, <2>1, <3>1 DEF Named, Committed, Shape
  <2>2. CASE step = "committed" /\ published' = published + 1
    <3>1. /\ Named = published + 1 /\ Named' = Named /\ Committed' = Committed
          /\ published + 1 \in 0 .. MaxPub /\ mapped = published + 1
          /\ Failed \subseteq 1 .. published + 2
      BY <1>1, <2>2, RaisedNumber
    <3>2. (published + 1) + 1 = published + 2 /\ mapped \in (published + 1) .. (published + 1)
      BY <1>1, <3>1, ShapeFacts
    <3> QED
      BY <2>2, <3>1, <3>2
  <2> QED
    BY <2>1, <2>2
<1>3. /\ jobs' \in Seq(GoodJob) /\ (jobs = <<>> => jobs' = <<>>)
      /\ \A p : InJob(jobs, p) <=> InJob(jobs', p)
  BY <1>1, OutdatedFacts
<1>4. Shape'
  BY <1>1, <1>2, <1>3, GoodJobSame DEF Shape
<1>5. Covered'
  <2>1. \A o : o \in ((1 .. Named) \ settled)' \cup waiting' =>
                 o \in ((1 .. Named) \ settled) \cup waiting
    BY <1>2
  <2> QED
    BY <1>1, <1>3, <2>1, CoveredStep
<1> QED
  BY <1>4, <1>5 DEF IInv

\* updateSeqNo, with and without batching
LEMMA UpdateSeqNoKeeps ==
  ASSUME IInv, NEW batching \in BOOLEAN, UpdateSeqNo(batching)
  PROVE  IInv'
<1>1. /\ step = "committed" /\ step' = "idle" /\ published' = published + 1
      /\ UNCHANGED <<mode, mapped, received, failures>>
  BY DEF UpdateSeqNo
<1>2. Shape /\ jobs \in Seq(GoodJob) /\ (mode = "serial" => jobs = <<>>) /\ published \in Nat
  BY ShapeFacts DEF IInv, Shape
<1>3. CASE batching
  BY <1>1, <1>3, MarkingKeeps DEF UpdateSeqNo
<1>4. CASE ~batching
  <2> DEFINE n == published + 1
  <2>1. SendSyncInterest(n, Outdated(jobs))
    BY <1>4 DEF UpdateSeqNo
  <2>2. /\ Outdated(jobs) \in Seq(GoodJob) /\ (mode = "serial" => Outdated(jobs) = <<>>)
        /\ \A p : InJob(jobs, p) => InJob(Outdated(jobs), p)
    BY <1>2, OutdatedFacts
  <2>3. /\ Named = n /\ Committed = n /\ Named' = Named /\ n \in 0 .. MaxPub /\ mapped = n
        /\ Failed \subseteq 1 .. published + 2
    BY <1>1, <1>2, RaisedNumber
  <2>4. Failed \subseteq 1 .. n + 1 /\ mapped \in n .. Named
    BY <1>2, <2>3
  <2>5. queues \in QueuesOf(1 .. Named, Small \cap 1 .. n)
    BY <1>2, <2>3 DEF Shape
  <2>6. 1 .. Named \subseteq Pub /\ 1 .. Named \subseteq MayName(n)
    BY <2>3, ExtraAssumption DEF Pub, MayName
  <2> HIDE DEF n
  <2>7. published' = n
    BY <1>1 DEF n
  <2> QED
    BY <1>1, <2>1, <2>2, <2>3, <2>4, <2>5, <2>6, <2>7, SendingKeeps
<1> QED
  BY <1>3, <1>4

\* The batch window or the retransmission timer
LEMMA TimerSendsKeeps ==
  ASSUME IInv, TimerSends
  PROVE  IInv'
<1>1. /\ step = "idle" /\ SendSyncInterest(published, jobs)
      /\ UNCHANGED <<mode, published, step, mapped, received, failures>>
  BY DEF TimerSends
<1>2. /\ Shape /\ Committed = published /\ jobs \in Seq(GoodJob)
      /\ published \in 0 .. MaxPub /\ (mode = "serial" => jobs = <<>>)
      /\ queues \in QueuesOf(1 .. Named, Small \cap 1 .. published)
      /\ Failed \subseteq 1 .. published + 1 /\ mapped \in published .. Named
  BY <1>1 DEF IInv, Shape, Committed
<1>3. Named' = Named
  BY <1>1, GoodJobSame DEF Named
<1> QED
  BY <1>1, <1>2, <1>3, IdleNames, SendingKeeps

\* A merge marks the results as stale.
LEMMA MergeOtherKeeps ==
  ASSUME IInv, MergeOther
  PROVE  IInv'
  BY MarkingKeeps DEF MergeOther

\* A step at which nothing is queued, sent or settled but what the hypotheses say
LEMMA IdleStepKeeps ==
  ASSUME IInv, UNCHANGED <<mode, published, step, mapped, failures>>,
         received' \in 0 .. MaxRequests,
         queues' \in QueuesOf(1 .. Named, Small \cap 1 .. Committed),
         jobs' \in Seq(GoodJob), mode = "serial" => jobs' = <<>>,
         wire' = NoInterest \/ wire' \in GoodInterest,
         settled \subseteq settled', settled' \subseteq Pub, waiting' \subseteq Pub,
         mode \in {"serial", "worker"} =>
           \A p : /\ Waits(queues.names, p) \/ InJob(jobs, p) =>
                       \/ Waits(queues.names, p)' \/ InJob(jobs, p)'
                       \/ p \in settled' /\ p \notin waiting'
                  /\ p \in waiting' => p \in waiting \/ Waits(queues.names, p)'
  PROVE  IInv'
<1>1. Shape /\ Covered
  BY DEF IInv
<1>2. Named' = Named /\ Committed' = Committed
  BY GoodJobSame DEF Named, Committed
<1>3. Shape'
  BY <1>1, <1>2, GoodJobSame DEF Shape
<1>4. Covered'
  <2>1. mode \in {"serial", "worker"} =>
          \A p : p \in ((1 .. Named) \ settled)' \cup waiting' =>
            \/ p \in ((1 .. Named) \ settled) \cup waiting
            \/ Waits(queues.names, p)'
    BY <1>2
  <2> QED
    BY <1>1, <2>1, CoveredStep
<1> QED
  BY <1>3, <1>4 DEF IInv

\* rememberRepairRequest
LEMMA FetchFailsKeeps ==
  ASSUME IInv, NEW p \in Remote, FetchFails(p)
  PROVE  IInv'
<1> DEFINE N == 1 .. Named
           D == Small \cap 1 .. Committed
<1>1. /\ UNCHANGED <<mode, published, step, mapped, jobs, received, settled, waiting, failures>>
      /\ wire' = NoInterest /\ queues' = RememberRepairRequest(p)
  BY DEF FetchFails
<1>2. /\ queues \in QueuesOf(N, D) /\ jobs \in Seq(GoodJob) /\ RepairRepeatCount \in Nat
      /\ received \in 0 .. MaxRequests /\ (mode = "serial" => jobs = <<>>)
      /\ settled \subseteq Pub /\ waiting \subseteq Pub
  BY ExtraAssumption DEF IInv, Shape
<1>3. queues' \in QueuesOf(N, D) /\ queues'.names = queues.names
  <2>1. CASE queues' = queues
    BY <1>2, <2>1
  <2>2. CASE queues' # queues
    <3> DEFINE repairs == Append(queues.repairs, Fresh(p))
    <3>1. queues' = [queues EXCEPT !.repairs = repairs]
      BY <1>1, <2>2 DEF RememberRepairRequest
    <3>2. repairs \in Queue(Remote, RepairRepeatCount)
      <4>1. queues.repairs \in Queue(Remote, RepairRepeatCount)
        BY <1>2 DEF QueuesOf
      <4> QED
        BY <1>2, <4>1, AppendFresh
    <3> HIDE DEF repairs
    <3> QED
      BY <1>2, <3>1, <3>2 DEF QueuesOf
  <2> QED
    BY <2>1, <2>2
<1> QED
  BY <1>1, <1>2, <1>3, IdleStepKeeps

\* A RepairData block is answered.
LEMMA RecvRepairRequestsKeeps ==
  ASSUME IInv, NEW request \in Requests, RecvRepairRequests(request)
  PROVE  IInv'
<1> DEFINE N == 1 .. Named
           D == Small \cap 1 .. published
           new == FoldLeft(EnqueueRepairPublication, queues, SeqNos(request))
<1>1. /\ UNCHANGED <<mode, published, step, mapped, jobs, settled, failures>> /\ wire' = NoInterest
      /\ step = "idle" /\ received < MaxRequests /\ received' = received + 1
      /\ waiting' = waiting \cup (Range(SeqNos(request)) \cap 1 .. mapped)
      /\ queues' = new
  BY DEF RecvRepairRequests
<1>2. /\ Shape /\ Committed = published /\ published \in Nat
      /\ jobs \in Seq(GoodJob) /\ (mode = "serial" => jobs = <<>>)
      /\ settled \subseteq Pub /\ waiting \subseteq Pub
      /\ queues \in QueuesOf(N, D) /\ N \subseteq Pub
  BY <1>1, ShapeFacts, IdleNames DEF IInv, Shape
<1>3. received' \in 0 .. MaxRequests
  BY <1>1, ExtraAssumption DEF IInv, Shape
<1>4. request \in Seq(Nat \X Nat)
  BY ExtraAssumption
<1>a. mapped \in Nat /\ 1 .. mapped \subseteq N
  BY <1>2, ShapeFacts DEF Shape
<1>5. /\ new \in QueuesOf(N, D)
      /\ \A p : Waits(queues.names, p) => Waits(new.names, p)
      /\ \A p \in Range(SeqNos(request)) \cap 1 .. mapped : Waits(new.names, p)
  BY <1>2, <1>4, <1>a, EnqueueFacts
<1> HIDE DEF new
<1>7. waiting' \subseteq Pub
  BY <1>1, <1>2, <1>a
<1>8. \A p : p \in waiting' => p \in waiting \/ Waits(queues.names, p)'
  BY <1>1, <1>5
<1>9. \A p : Waits(queues.names, p) \/ InJob(jobs, p) =>
               Waits(queues.names, p)' \/ InJob(jobs, p)'
  BY <1>1, <1>5
<1> QED
  BY <1>1, <1>2, <1>3, <1>5, <1>7, <1>8, <1>9, IdleStepKeeps

\* The job the pool runs next
LEMMA FirstOpenFacts ==
  ASSUME jobs \in Seq(GoodJob), Open(jobs) # {}
  PROVE  /\ FirstOpen \in 1 .. Len(jobs) /\ ~jobs[FirstOpen].done
         /\ jobs[FirstOpen] \in GoodJob /\ jobs # <<>>
<1>1. Open(jobs) \in SUBSET Nat
  BY DEF Open
<1>2. Min(Open(jobs)) \in Open(jobs)
  BY <1>1, LoopOfPack!MinIn DEF Min, LoopOfPack!Min
<1> QED
  BY <1>2 DEF FirstOpen, Open

\* What a worker takes from the queues, in any state
LEMMA TakenFacts ==
  ASSUME Shape
  PROVE  LET t == TakeBlocks(queues)
         IN  /\ t.queues \in QueuesOf(1 .. Named, Small \cap 1 .. Committed)
             /\ t.blocks \in Blocks /\ t.expired \subseteq Pub
             /\ \A p : Waits(queues.names, p) =>
                  \/ p \in t.blocks.names \/ p \in t.expired \/ Waits(t.queues.names, p)
<1> DEFINE N == 1 .. Named
           D == Small \cap 1 .. Committed
           t == TakeBlocks(queues)
<1>1. queues \in QueuesOf(N, D) /\ N \subseteq Pub
  BY ShapeFacts DEF Shape, Pub
<1>2. /\ t.queues \in QueuesOf(N, D)
      /\ t.blocks \in [names : SUBSET N, packets : SUBSET D,
                       requests : SUBSET Remote, size : Nat]
      /\ t.expired \in SUBSET N
      /\ \A p : Waits(queues.names, p) =>
           \/ p \in t.blocks.names \/ p \in t.expired \/ Waits(t.queues.names, p)
  BY <1>1, TakeBlocksFacts
<1> HIDE DEF t
<1>3. t.blocks \in Blocks /\ t.expired \subseteq Pub
  BY <1>1, <1>2 DEF Blocks
<1> QED
  BY <1>2, <1>3 DEF t

\* The worker runs a job: in mode worker the names move from the queue to the
\* job.
LEMMA WorkerRunsKeeps ==
  ASSUME IInv, WorkerRuns
  PROVE  IInv'
<1> DEFINE t == TakeBlocks(queues)
           f == FirstOpen
           job == jobs[f]
           blocks == IF mode = "worker" THEN t.blocks ELSE job.blocks
           new == [job EXCEPT !.done = TRUE, !.blocks = blocks]
<1>1. /\ UNCHANGED <<mode, published, step, mapped, received, failures>> /\ wire' = NoInterest
      /\ Open(jobs) # {}
  BY DEF WorkerRuns
<1>2. /\ Shape /\ jobs \in Seq(GoodJob) /\ received \in 0 .. MaxRequests
      /\ (mode = "serial" => jobs = <<>>) /\ settled \subseteq Pub /\ waiting \subseteq Pub
      /\ queues \in QueuesOf(1 .. Named, Small \cap 1 .. Committed)
  BY DEF IInv, Shape
<1>3. /\ f \in 1 .. Len(jobs) /\ ~job.done /\ job \in GoodJob /\ mode # "serial"
  BY <1>1, <1>2, FirstOpenFacts
<1>4. /\ t.queues \in QueuesOf(1 .. Named, Small \cap 1 .. Committed)
      /\ t.blocks \in Blocks /\ t.expired \subseteq Pub
      /\ \A p : Waits(queues.names, p) =>
           \/ p \in t.blocks.names \/ p \in t.expired \/ Waits(t.queues.names, p)
  BY <1>2, TakenFacts
<1>5. jobs' = [jobs EXCEPT ![f] = new]
  BY Zenon DEF WorkerRuns
<1>6. /\ mode = "capture" => UNCHANGED <<queues, settled, waiting>>
      /\ mode # "capture" => /\ queues' = t.queues
                             /\ settled' = settled \cup t.expired
                             /\ waiting' = waiting \ t.expired
  BY DEF WorkerRuns, Settle
<1> HIDE DEF t, f
<1>7. /\ job \in [number : 0 .. MaxPub, blocks : Blocks, stale : BOOLEAN, done : BOOLEAN]
      /\ Advertised(job.number, job.blocks)
      /\ mode = "worker" => job.blocks.names = {}
  BY <1>3 DEF GoodJob
<1> HIDE DEF job
<1>8. blocks \in Blocks /\ Advertised(job.number, blocks)
  BY <1>4, <1>7 DEF Advertised
<1> HIDE DEF blocks
<1>9. /\ new \in [number : 0 .. MaxPub, blocks : Blocks, stale : BOOLEAN, done : BOOLEAN]
      /\ new.number = job.number /\ new.blocks = blocks /\ new.done
  BY <1>7, <1>8
<1> HIDE DEF new
<1>10. new \in GoodJob
  BY <1>8, <1>9 DEF GoodJob
<1>11. /\ jobs' \in Seq(GoodJob) /\ DOMAIN jobs' = DOMAIN jobs /\ jobs'[f] = new
       /\ \A i \in DOMAIN jobs : i # f => jobs'[i] = jobs[i]
  BY <1>2, <1>3, <1>5, <1>10
<1>12. queues' \in QueuesOf(1 .. Named, Small \cap 1 .. Committed)
  BY <1>2, <1>4, <1>6
<1>13. settled \subseteq settled' /\ settled' \subseteq Pub /\ waiting' \subseteq waiting
       /\ waiting' \subseteq Pub
  BY <1>2, <1>4, <1>6
<1>14. ASSUME mode = "worker", NEW p, Waits(queues.names, p) \/ InJob(jobs, p)
       PROVE  \/ Waits(queues'.names, p) \/ InJob(jobs', p)
              \/ p \in settled' /\ p \notin waiting'
  <2>1. CASE InJob(jobs, p)
    <3>1. PICK i \in DOMAIN jobs : p \in jobs[i].blocks.names
      BY <2>1 DEF InJob
    <3>2. i # f
      BY <1>7, <1>14, <3>1 DEF job
    <3> QED
      BY <1>11, <3>1, <3>2 DEF InJob
  <2>2. CASE Waits(queues.names, p)
    <3>1. blocks = t.blocks
      BY <1>14 DEF blocks
    <3>2. p \in t.blocks.names => InJob(jobs', p)
      <4>1. f \in DOMAIN jobs'
        BY <1>2, <1>3, <1>11
      <4> QED
        BY <1>9, <1>11, <3>1, <4>1 DEF InJob
    <3> QED
      BY <1>4, <1>6, <1>14, <2>2, <3>2
  <2> QED
    BY <1>14, <2>1, <2>2
<1> QED
  BY <1>1, <1>2, <1>3, <1>11, <1>12, <1>13, <1>14, IdleStepKeeps

\* A failed job leaves; the others stay.
LEMMA RemoveAtFacts ==
  ASSUME NEW js \in Seq(GoodJob), NEW f \in 1 .. Len(js)
  PROVE  /\ RemoveAt(js, f) \in Seq(GoodJob)
         /\ \A p : InJob(js, p) => p \in js[f].blocks.names \/ InJob(RemoveAt(js, f), p)
<1> DEFINE n == Len(js)
           left == SubSeq(js, 1, f - 1)
           right == SubSeq(js, f + 1, n)
           new == left \o right
<1>1. RemoveAt(js, f) = new
  BY DEF RemoveAt
<1>2. /\ left \in Seq(GoodJob) /\ Len(left) = f - 1
      /\ \A i \in 1 .. f - 1 : left[i] = js[i]
  OBVIOUS
<1>3. /\ right \in Seq(GoodJob) /\ Len(right) = n - f
      /\ \A i \in 1 .. n - f : right[i] = js[f + i]
  OBVIOUS
<1> HIDE DEF left, right
<1>4. new \in Seq(GoodJob) /\ Len(new) = n - 1
  BY <1>2, <1>3
<1>5. /\ \A i \in 1 .. f - 1 : new[i] = js[i]
      /\ \A i \in 1 .. n - f : new[(f - 1) + i] = js[f + i]
  BY <1>2, <1>3
<1>6. ASSUME NEW p, InJob(js, p), p \notin js[f].blocks.names
      PROVE  InJob(new, p)
  <2>1. PICK i \in 1 .. n : p \in js[i].blocks.names
    BY <1>6 DEF InJob
  <2>2. i # f
    BY <1>6, <2>1
  <2>3. CASE i < f
    <3>1. i \in 1 .. f - 1 /\ i \in 1 .. Len(new)
      BY <1>4, <2>3
    <3>2. i \in DOMAIN new /\ new[i] = js[i]
      BY <1>4, <1>5, <3>1
    <3> HIDE DEF new
    <3> QED
      BY <2>1, <3>2 DEF InJob
  <2>4. CASE i > f
    <3> DEFINE k == i - f
               m == (f - 1) + k
    <3>1. k \in 1 .. n - f /\ f + k = i /\ m \in 1 .. Len(new)
      BY <1>4, <2>4
    <3> HIDE DEF k
    <3>2. new[m] = js[i]
      BY <1>5, <3>1
    <3>3. m \in DOMAIN new
      <4> HIDE DEF new, m
      <4> QED
        BY <1>4, <3>1
    <3> HIDE DEF new, m
    <3> QED
      BY <2>1, <3>2, <3>3 DEF InJob
  <2> QED
    BY <2>2, <2>3, <2>4
<1> HIDE DEF new
<1> QED
  BY <1>1, <1>4, <1>6

\* Encoding or signing throws: the names count as settled.
LEMMA WorkerFailsKeeps ==
  ASSUME IInv, WorkerFails
  PROVE  IInv'
<1> DEFINE t == TakeBlocks(queues)
           f == FirstOpen
           b == IF mode = "capture" THEN jobs[f].blocks ELSE t.blocks
           done == b.names \cup IF mode = "capture" THEN {} ELSE t.expired
<1>1. /\ UNCHANGED <<mode, published, step, mapped, received, failures>> /\ wire' = NoInterest
      /\ Open(jobs) # {}
      /\ jobs' = RemoveAt(jobs, f)
      /\ queues' = IF mode = "capture" THEN queues ELSE t.queues
      /\ settled' = settled \cup done /\ waiting' = waiting \ done
  BY DEF WorkerFails, Settle
<1>2. /\ Shape /\ jobs \in Seq(GoodJob) /\ received \in 0 .. MaxRequests
      /\ (mode = "serial" => jobs = <<>>) /\ settled \subseteq Pub /\ waiting \subseteq Pub
      /\ queues \in QueuesOf(1 .. Named, Small \cap 1 .. Committed)
  BY DEF IInv, Shape
<1>3. /\ f \in 1 .. Len(jobs) /\ ~jobs[f].done /\ jobs[f] \in GoodJob /\ mode # "serial"
  BY <1>1, <1>2, FirstOpenFacts
<1>4. /\ t.queues \in QueuesOf(1 .. Named, Small \cap 1 .. Committed)
      /\ t.blocks \in Blocks /\ t.expired \subseteq Pub
      /\ \A p : Waits(queues.names, p) =>
           \/ p \in t.blocks.names \/ p \in t.expired \/ Waits(t.queues.names, p)
  BY <1>2, TakenFacts
<1> HIDE DEF t, f
<1>5. jobs[f].blocks \in Blocks /\ (mode = "worker" => jobs[f].blocks.names = {})
  BY <1>3 DEF GoodJob
<1>6. done \subseteq Pub
  BY <1>4, <1>5 DEF Blocks
<1>7. mode = "worker" => done = t.blocks.names \cup t.expired
  OBVIOUS
<1> HIDE DEF done
<1>8. /\ jobs' \in Seq(GoodJob)
      /\ \A p : InJob(jobs, p) => p \in jobs[f].blocks.names \/ InJob(jobs', p)
  BY <1>1, <1>2, <1>3, RemoveAtFacts
<1>9. queues' \in QueuesOf(1 .. Named, Small \cap 1 .. Committed)
  BY <1>1, <1>2, <1>4
<1>10. settled \subseteq settled' /\ settled' \subseteq Pub /\ waiting' \subseteq waiting
       /\ waiting' \subseteq Pub
  BY <1>1, <1>2, <1>6
<1>11. ASSUME mode = "worker", NEW p, Waits(queues.names, p) \/ InJob(jobs, p)
       PROVE  \/ Waits(queues'.names, p) \/ InJob(jobs', p)
              \/ p \in settled' /\ p \notin waiting'
  BY <1>1, <1>4, <1>5, <1>7, <1>8, <1>11
<1> QED
  BY <1>1, <1>2, <1>3, <1>8, <1>9, <1>10, <1>11, IdleStepKeeps

\* processSyncProductionResult: only in mode capture is an Interest dropped.
LEMMA ProcessResultKeeps ==
  ASSUME IInv, ProcessResult
  PROVE  IInv'
<1> DEFINE job == Head(jobs)
<1>1. /\ UNCHANGED <<mode, published, step, mapped, queues, received, failures>> /\ jobs # <<>>
      /\ jobs' = Tail(jobs)
      /\ \/ Drops(job) /\ UNCHANGED <<settled, waiting>> /\ wire' = NoInterest
         \/ /\ wire' = [number |-> job.number, blocks |-> job.blocks]
            /\ settled' = settled \cup job.blocks.names
            /\ waiting' = waiting \ job.blocks.names
  BY DEF ProcessResult, Settle
<1>2. /\ Shape /\ jobs \in Seq(GoodJob) /\ received \in 0 .. MaxRequests
      /\ (mode = "serial" => jobs = <<>>) /\ settled \subseteq Pub /\ waiting \subseteq Pub
      /\ queues \in QueuesOf(1 .. Named, Small \cap 1 .. Committed)
  BY DEF IInv, Shape
<1>3. /\ job = jobs[1] /\ 1 \in DOMAIN jobs /\ job \in GoodJob
      /\ jobs' \in Seq(GoodJob) /\ Len(jobs') = Len(jobs) - 1
      /\ \A i \in 1 .. Len(jobs) - 1 : jobs'[i] = jobs[i + 1]
  BY <1>1, <1>2
<1> HIDE DEF job
<1>4. ASSUME NEW p, InJob(jobs, p), p \notin job.blocks.names
      PROVE  InJob(jobs', p)
  <2>1. PICK i \in 1 .. Len(jobs) : p \in jobs[i].blocks.names
    BY <1>2, <1>4 DEF InJob
  <2>2. i # 1
    BY <1>3, <1>4, <2>1
  <2>3. i - 1 \in 1 .. Len(jobs) - 1 /\ (i - 1) + 1 = i
    BY <1>2, <2>2
  <2>4. jobs'[i - 1] = jobs[i] /\ i - 1 \in DOMAIN jobs'
    BY <1>3, <2>3
  <2> QED
    BY <2>1, <2>4 DEF InJob
<1>5. /\ job.number \in 0 .. MaxPub /\ job.blocks \in Blocks
      /\ Advertised(job.number, job.blocks)
  BY <1>3 DEF GoodJob
<1>6. job.blocks.names \subseteq Pub
  BY <1>5 DEF Blocks
<1>7. wire' = NoInterest \/ wire' \in GoodInterest
  BY <1>1, <1>5 DEF GoodInterest
<1>8. settled \subseteq settled' /\ settled' \subseteq Pub /\ waiting' \subseteq waiting
       /\ waiting' \subseteq Pub
  BY <1>1, <1>2, <1>6
<1>9. mode # "serial"
  BY <1>1, <1>2
<1>10. ASSUME mode = "worker", NEW p, Waits(queues.names, p) \/ InJob(jobs, p)
       PROVE  \/ Waits(queues'.names, p) \/ InJob(jobs', p)
              \/ p \in settled' /\ p \notin waiting'
  <2>1. ~Drops(job)
    BY <1>10 DEF Drops
  <2> QED
    BY <1>1, <1>4, <1>10, <2>1
<1> QED
  BY <1>1, <1>2, <1>3, <1>7, <1>8, <1>9, <1>10, IdleStepKeeps

\* Every step keeps the invariant.
LEMMA StepKeeps ==
  ASSUME IInv, [Next]_vars
  PROVE  IInv'
<1>1. CASE UNCHANGED vars
  <2>1. /\ Named' = Named /\ Committed' = Committed /\ Failed' = Failed
        /\ GoodJob' = GoodJob /\ GoodInterest' = GoodInterest
    BY <1>1, GoodJobSame DEF vars, Named, Committed
  <2>2. Shape'
    BY <1>1, <2>1 DEF IInv, Shape, vars
  <2>3. Covered'
    BY <1>1, <2>1 DEF IInv, Covered, vars
  <2> QED
    BY <2>2, <2>3 DEF IInv
<1>2. CASE Next
  BY <1>2, InsertMappingKeeps, QueuePacketKeeps, CommitFailsKeeps, TimerSendsKeeps, MergeOtherKeeps,
     UpdateSeqNoKeeps, FetchFailsKeeps, RecvRepairRequestsKeeps, WorkerRunsKeeps,
     WorkerFailsKeeps, ProcessResultKeeps DEF Next
<1> QED
  BY <1>1, <1>2

--------------------------------------------------------------------------------
(*****************************************************************************)
(* Theorems                                                                  *)
(*****************************************************************************)

\* The inductive invariant of the extra-block queues holds in every reachable
\* state.
THEOREM ExtraInvariance == Spec => []IInv
<1>1. Init => IInv
  BY InitIInv
<1>2. IInv /\ [Next]_vars => IInv'
  BY StepKeeps
<1> QED
  BY <1>1, <1>2, PTL DEF Spec

\* Type correctness: what is queued, in jobs and sent is well formed; in
\* particular queued packets are small and no entry is in a queue that was sent
\* or missed as often as the options allow.
THEOREM ExtraTypeCorrect == Spec => []TypeOK
<1>1. IInv => TypeOK
  <2> SUFFICES ASSUME Shape PROVE TypeOK
    BY DEF IInv
  <2>1. 1 .. Named \subseteq Pub /\ Small \cap 1 .. Committed \subseteq Small
    BY ShapeFacts DEF Pub
  <2>2. queues \in QueuesOf(Pub, Small)
    <3>1. queues \in QueuesOf(1 .. Named, Small \cap 1 .. Committed)
      BY DEF Shape
    <3> DEFINE N == 1 .. Named
               D == Small \cap 1 .. Committed
    <3> HIDE DEF N, D
    <3>2. queues \in QueuesOf(N, D) /\ N \subseteq Pub /\ D \subseteq Small
      BY <2>1, <3>1 DEF N, D
    <3> QED
      BY <3>2, QueuesOfGrows
  <2>3. queues \in Queues
    BY <2>2 DEF QueuesOf, Queues
  <2>4. jobs \in Seq([number : 0 .. MaxPub, blocks : Blocks, stale : BOOLEAN, done : BOOLEAN])
    <3> DEFINE J == [number : 0 .. MaxPub, blocks : Blocks, stale : BOOLEAN, done : BOOLEAN]
    <3>1. jobs \in Seq(GoodJob) /\ GoodJob \subseteq J
      BY DEF Shape, GoodJob
    <3> HIDE DEF J
    <3>2. jobs \in Seq(J)
      BY <3>1
    <3> QED
      BY <3>2 DEF J
  <2>5. wire = NoInterest \/ wire \in [number : 0 .. MaxPub, blocks : Blocks]
    BY DEF Shape, GoodInterest
  <2>6. mapped \in 0 .. MaxPub
    BY ShapeFacts DEF Shape
  <2> QED
    BY <2>3, <2>4, <2>5, <2>6 DEF Shape, TypeOK
<1> QED
  BY <1>1, ExtraInvariance, PTL

\* Without a worker, or with a worker that takes and encodes the blocks, the
\* name of every publication, and of every one that a peer asked for again,
\* stays in a queue or in a job until an Interest has carried it, or it found
\* no room too often, or its job failed.
THEOREM NoNameIsForgotten == Spec => []NamesReachTheNetwork
<1>1. IInv => NamesReachTheNetwork
  <2> SUFFICES ASSUME IInv, mode \in {"serial", "worker"},
                      NEW p \in ((1 .. published) \ settled) \cup waiting
               PROVE  \/ \E i \in DOMAIN queues.names : queues.names[i].item = p
                      \/ \E i \in DOMAIN jobs : p \in jobs[i].blocks.names
    BY DEF NamesReachTheNetwork
  <2>1. 1 .. published \subseteq 1 .. Named
    BY ShapeFacts DEF IInv, Named
  <2> QED
    BY <2>1 DEF IInv, Covered, Waits, InJob
<1> QED
  BY <1>1, ExtraInvariance, PTL

\* Unless a worker takes the blocks later than the vector, no Interest carries a
\* packet that its state vector does not advertise, and what it names beyond the
\* vector is the next publication only, and only after its commit has failed.
THEOREM VectorCoversTheNames == Spec => []NamesAreAdvertised
<1>1. IInv => NamesAreAdvertised
  BY DEF IInv, Shape, NamesAreAdvertised, GoodInterest, Advertised, MayName
<1> QED
  BY <1>1, ExtraInvariance, PTL

================================================================================
