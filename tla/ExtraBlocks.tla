------------------------------ MODULE ExtraBlocks ------------------------------
(***************************************************************************)
(* What SVSPubSub sends along in Sync Interests: the names of its          *)
(* publications (mappings), small publications themselves, and requests to *)
(* repair failed fetches (ndn-svs/svspubsub.cpp), and how SVSyncCore makes *)
(* Interests of them, on the Face thread or with a production worker       *)
(* (ndn-svs/core.cpp).                                                     *)
(*                                                                         *)
(* The Face thread and the worker take m_extraDataMutex for each access to *)
(* the queues, so a step of the model is what is done under the lock.      *)
(* Requests for publications of other nodes, which are answered with the   *)
(* name alone, are left out.                                               *)
(***************************************************************************)
EXTENDS Naturals, Sequences, SequencesExt, FiniteSets, FiniteSetsExt

CONSTANTS
  MaxPub,         \* bound: the node's publications are 1 .. MaxPub
  Small,          \* those not larger than m_maxPiggyDataSize
  Remote,         \* publications of others whose fetch may fail
  NodeSize, EntrySize,      \* encoded sizes in bytes: the node's name in a
                            \* MappingList, one entry of it, a packet, and a
  PacketSize, RequestSize,  \* RepairEntry
  Limit,          \* m_maxApplicationParametersSize
  RepeatCount,    \* piggybackRepeatCount
  MissLimit,      \* piggybackMissLimit
  RepairRepeatCount,  \* repairRequestRepeatCount
  Requests,       \* RepairData blocks others may send: sequences of <<low, high>>
  MaxRequests,    \* bound: how many of them arrive
  MaxQueueSize,   \* jobs the production pool takes
  MaxJobs,        \* bound: jobs and results when the timer fires
  MaxFailures,    \* bound: how often the commit of one publication fails
  Modes,          \* see mode
  NoInterest

Pub == 1 .. MaxPub

ASSUME ExtraAssumption ==
  /\ MaxPub \in Nat /\ Small \subseteq Pub /\ MaxRequests \in Nat
  /\ {NodeSize, EntrySize, PacketSize, RequestSize, Limit} \subseteq Nat \ {0}
  /\ {RepeatCount, MissLimit, RepairRepeatCount, MaxQueueSize, MaxJobs, MaxFailures} \subseteq Nat
  /\ IsFiniteSet(Remote)
  /\ Modes \subseteq {"serial", "capture", "worker", "deferred"}
  /\ \A request \in Requests : request \in Seq(Nat \X Nat)

VARIABLES
  mode,       \* how Interests are produced: without a worker ("serial"); by a
              \* worker from blocks the Face thread took ("capture"), or that the
              \* worker takes and encodes ("worker") or takes and does not encode,
              \* because V3 Interests are signed on the Face thread ("deferred")
  published,  \* the node's number in m_vv
  step,       \* what publish has done of the next publication
  mapped,     \* the provider has the mappings of 1 .. mapped
  queues,     \* m_notificationMappingList, m_piggyMappingQueue, m_piggyDataQueue
              \* and m_repairRequestQueue
  jobs,       \* the production pool and the results it has posted
  wire,       \* history: the Interest the last step expressed, or NoInterest
  received,   \* RepairData blocks received, for the bound
  settled,    \* history: publications whose name was carried by an Interest, or
              \* found no room MissLimit times, or was in a job that failed
  waiting,    \* history: publications others have asked for again
  failures    \* history: how often the commit of each publication failed

vars == <<mode, published, step, mapped, queues, jobs, wire, received, settled, waiting, failures>>

Fresh(item) == [item |-> item, sent |-> 0, missed |-> 0]

NoBlocks == [names |-> {}, packets |-> {}, requests |-> {}, size |-> 0]

Init ==
  /\ mode \in Modes
  /\ published = 0 /\ step = "idle" /\ mapped = 0
  /\ queues = [notification |-> <<>>, names |-> <<>>, packets |-> <<>>, repairs |-> <<>>]
  /\ jobs = <<>> /\ wire = NoInterest
  /\ received = 0 /\ settled = {} /\ waiting = {} /\ failures = [p \in Pub |-> 0]

--------------------------------------------------------------------------------
(***************************************************************************)
(* Taking blocks from the queues                                           *)
(***************************************************************************)

\* The size of a MappingData or RepairData block with this much content
Encoded(length) == length + (IF length < 253 THEN 2 ELSE 4)

Fits(size, more) == size + more <= Limit

\* The names of the notification list that fit; the others are left out.
NotifyIfItFits(taken, p) ==
  IF Fits(0, Encoded(NodeSize + EntrySize * (Len(taken) + 1)))
  THEN Append(taken, p) ELSE taken

Notified(q) == FoldLeft(NotifyIfItFits, <<>>, q.notification)

\* One entry of a queue: what fits goes into the block and stays until it was
\* sent often enough, what does not fit stays until it has missed too often.
PackEntry(each, repeat, acc, entry) ==
  LET sent   == [entry EXCEPT !.sent = @ + 1]
      missed == [entry EXCEPT !.missed = @ + 1]
  IN  IF Fits(acc.size, each)
      THEN [acc EXCEPT !.size = @ + each, !.taken = @ \cup {entry.item},
              !.kept = IF sent.sent < repeat THEN <<sent>> \o @ ELSE @]
      ELSE IF missed.missed < MissLimit
      THEN [acc EXCEPT !.kept = <<missed>> \o @]
      ELSE [acc EXCEPT !.expired = @ \cup {entry.item}]

\* A queue is walked from its newest entry.
Pack(queue, size, each, repeat) ==
  FoldLeft(LAMBDA acc, entry : PackEntry(each, repeat, acc, entry),
           [size |-> size, taken |-> {}, kept |-> <<>>, expired |-> {}],
           Reverse(queue))

\* The content of the MappingData block before anything is added to it; without
\* a notification it has an empty node name, of two bytes.
Base(q) ==
  IF q.notification = <<>> THEN 2 ELSE NodeSize + EntrySize * Len(Notified(q))

\* onGetExtraBlocks: the blocks, the queues afterwards (the notification list
\* is always emptied) and the names that found no room.  A repeated name is a
\* MappingList of its own.  Requests are packed as a RepairData block each, and
\* put into one, next to the MappingData block with the rest, when all is packed.
TakeBlocks(q) ==
  LET n == Pack(q.names, Encoded(Base(q)), Encoded(NodeSize + EntrySize), RepeatCount)
      d == Pack(q.packets, n.size, PacketSize, RepeatCount)
      r == Pack(q.repairs, d.size, Encoded(RequestSize), RepairRepeatCount)
      mappings == Encoded(Base(q) + d.size - Encoded(Base(q)))
      repairs  == IF r.taken = {} THEN 0 ELSE Encoded(RequestSize * Cardinality(r.taken))
  IN  [blocks |-> [names |-> Range(Notified(q)) \cup n.taken, packets |-> d.taken,
                   requests |-> r.taken, size |-> mappings + repairs],
       queues |-> [notification |-> <<>>, names |-> n.kept, packets |-> d.kept,
                   repairs |-> r.kept],
       expired |-> n.expired]

\* History: these names need no Interest any more.
Settle(done) == settled' = settled \cup done /\ waiting' = waiting \ done

--------------------------------------------------------------------------------
(***************************************************************************)
(* Sending                                                                 *)
(***************************************************************************)

\* Results of older jobs are stale when the state has changed.
Outdated(js) == [i \in DOMAIN js |-> [js[i] EXCEPT !.stale = TRUE]]

\* The jobs the pool has not run
Open(js) == { i \in DOMAIN js : ~js[i].done }

NewJob(number, blocks) ==
  [number |-> number, blocks |-> blocks, stale |-> FALSE, done |-> FALSE]

\* sendSyncInterestSerial; gone: names that found no room before
SendSerial(number, q, js, gone) ==
  LET t == TakeBlocks(q)
  IN  /\ queues' = t.queues
      /\ wire' = [number |-> number, blocks |-> t.blocks]
      /\ Settle(gone \cup t.blocks.names \cup t.expired)
      /\ jobs' = js

\* sendSyncInterest: a job for the pool, with the blocks if the Face thread
\* takes them.  When the queue is full the Interest is made here instead; the
\* blocks taken for the job are gone.
SendSyncInterest(number, js) ==
  LET full == Cardinality(Open(js)) >= MaxQueueSize
      t == TakeBlocks(queues)
  IN  IF mode = "serial" THEN SendSerial(number, queues, js, {})
      ELSE IF mode = "capture"
      THEN IF full THEN SendSerial(number, t.queues, js, t.expired)
           ELSE /\ queues' = t.queues
                /\ jobs' = Append(js, NewJob(number, t.blocks))
                /\ Settle(t.expired) /\ wire' = NoInterest
      ELSE IF full THEN SendSerial(number, queues, js, {})
      ELSE /\ jobs' = Append(js, NewJob(number, NoBlocks))
           /\ UNCHANGED <<queues, settled, waiting>> /\ wire' = NoInterest

--------------------------------------------------------------------------------
(***************************************************************************)
(* Actions of the Face thread                                              *)
(***************************************************************************)

\* insertMapping, the first part of commitPreparedPublication, up to the call of
\* the provider; after a failed commit the name is queued once more.
InsertMapping ==
  /\ step = "idle" /\ published < MaxPub
  /\ step' = "named"
  /\ queues' = [queues EXCEPT !.notification = Append(@, published + 1),
                              !.names = Append(@, Fresh(published + 1))]
  /\ settled' = settled \ {published + 1}
  /\ UNCHANGED <<mode, published, mapped, jobs, received, waiting, failures>> /\ wire' = NoInterest

\* The rest of commitPreparedPublication
QueuePacket ==
  /\ step = "named"
  /\ step' = "committed" /\ mapped' = published + 1
  /\ queues' = IF published + 1 \in Small
               THEN [queues EXCEPT !.packets = Append(@, Fresh(published + 1))]
               ELSE queues
  /\ UNCHANGED <<mode, published, jobs, received, settled, waiting, failures>> /\ wire' = NoInterest

\* The provider throws, or the queue of packets after the provider has the
\* mapping: the packets leave the store, the queued name and the mapping stay,
\* and a later call or the retry timer commits the same number.
CommitFails(installed) ==
  /\ step = "named" /\ failures[published + 1] < MaxFailures
  /\ installed => published + 1 \in Small
  /\ step' = "idle"
  /\ mapped' = IF installed THEN published + 1 ELSE mapped
  /\ failures' = [failures EXCEPT ![published + 1] = @ + 1]
  /\ UNCHANGED <<mode, published, queues, jobs, received, settled, waiting>> /\ wire' = NoInterest

\* Faulty variant: the Interest is made before the number is raised.
UpdateAfterSending(batching) ==
  /\ step = "committed"
  /\ step' = "idle"
  /\ published' = published + 1
  /\ SendSyncInterest(published, jobs)
  /\ UNCHANGED <<mode, mapped, received, failures>>

\* updateSeqNo; with batching the Interest is sent later.
UpdateSeqNo(batching) ==
  /\ step = "committed"
  /\ step' = "idle"
  /\ published' = published + 1
  /\ IF batching
     THEN /\ jobs' = Outdated(jobs)
          /\ UNCHANGED <<queues, settled, waiting>> /\ wire' = NoInterest
     ELSE SendSyncInterest(published + 1, Outdated(jobs))
  /\ UNCHANGED <<mode, mapped, received, failures>>

\* The batch window ends, or the retransmission timer fires.
TimerSends ==
  /\ step = "idle" /\ Len(jobs) < MaxJobs
  /\ SendSyncInterest(published, jobs)
  /\ UNCHANGED <<mode, published, step, mapped, received, failures>>

\* A peer's vector is merged: jobs under way become stale.
MergeOther ==
  /\ step = "idle" /\ \E i \in DOMAIN jobs : ~jobs[i].stale
  /\ jobs' = Outdated(jobs)
  /\ UNCHANGED <<mode, published, step, mapped, queues, received, settled, waiting, failures>>
  /\ wire' = NoInterest

\* rememberRepairRequest
RememberRepairRequest(p) ==
  IF \E i \in DOMAIN queues.repairs : queues.repairs[i].item = p THEN queues
  ELSE [queues EXCEPT !.repairs = Append(@, Fresh(p))]

\* markPublicationFetchFailed
FetchFails(p) ==
  /\ step = "idle"
  /\ queues' = RememberRepairRequest(p)
  /\ UNCHANGED <<mode, published, step, mapped, jobs, received, settled, waiting, failures>>
  /\ wire' = NoInterest

\* decodeRepairRequests accepts
Decodes(request) == \A i \in DOMAIN request : request[i][1] \in 1 .. request[i][2]

\* Faulty variant: a packet of any size is entered.
EnqueueAnyPacket(q, p) ==
  IF p \notin 1 .. mapped THEN q
  ELSE [q EXCEPT !.names = Append(@, Fresh(p)), !.packets = Append(@, Fresh(p))]

\* enqueueRepairPublication, for a publication of the node; the packets of one
\* whose commit failed are not in the store.
EnqueueRepairPublication(q, p) ==
  IF p \notin 1 .. mapped THEN q
  ELSE [q EXCEPT !.names = Append(@, Fresh(p)),
                 !.packets = IF p \in Small /\ p <= published THEN Append(@, Fresh(p)) ELSE @]

\* The numbers a RepairData block asks for, or none if one entry is malformed
AddSeqNos(all, range) ==
  all \o [i \in 1 .. range[2] - range[1] + 1 |-> range[1] + i - 1]

SeqNos(request) ==
  IF ~Decodes(request) THEN <<>> ELSE FoldLeft(AddSeqNos, <<>>, request)

\* onRecvExtraBlocks, its RepairData block
RecvRepairRequests(request) ==
  /\ step = "idle" /\ received < MaxRequests
  /\ received' = received + 1
  /\ queues' = FoldLeft(EnqueueRepairPublication, queues, SeqNos(request))
  /\ waiting' = waiting \cup (Range(SeqNos(request)) \cap 1 .. mapped)
  /\ UNCHANGED <<mode, published, step, mapped, jobs, settled, failures>> /\ wire' = NoInterest

--------------------------------------------------------------------------------
(***************************************************************************)
(* The worker, and the results it posts                                    *)
(***************************************************************************)

FirstOpen == Min(Open(jobs))

\* The worker runs a job; in the last two modes it takes the blocks.
WorkerRuns ==
  /\ Open(jobs) # {}
  /\ LET t == TakeBlocks(queues)
         Done(job) == [job EXCEPT !.done = TRUE,
                                  !.blocks = IF mode = "worker" THEN t.blocks ELSE job.blocks]
     IN  /\ jobs' = [jobs EXCEPT ![FirstOpen] = Done(jobs[FirstOpen])]
         /\ IF mode = "capture" THEN UNCHANGED <<queues, settled, waiting>>
            ELSE queues' = t.queues /\ Settle(t.expired)
  /\ UNCHANGED <<mode, published, step, mapped, received, failures>> /\ wire' = NoInterest

\* Encoding or signing throws; the job's result is dropped by the Face thread.
WorkerFails ==
  /\ Open(jobs) # {}
  /\ LET t == TakeBlocks(queues)
         b == IF mode = "capture" THEN jobs[FirstOpen].blocks ELSE t.blocks
     IN  /\ jobs' = RemoveAt(jobs, FirstOpen)
         /\ queues' = IF mode = "capture" THEN queues ELSE t.queues
         /\ Settle(b.names \cup IF mode = "capture" THEN {} ELSE t.expired)
  /\ UNCHANGED <<mode, published, step, mapped, received, failures>> /\ wire' = NoInterest

\* Faulty variant: a stale result is dropped though the worker took the blocks.
DropsStale(job) == job.stale

\* Whether processSyncProductionResult drops the Interest
Drops(job) == job.stale /\ mode = "capture"

\* processSyncProductionResult
ProcessResult ==
  /\ step = "idle" /\ jobs # <<>> /\ Head(jobs).done
  /\ jobs' = Tail(jobs)
  /\ IF Drops(Head(jobs)) THEN UNCHANGED <<settled, waiting>> /\ wire' = NoInterest
     ELSE /\ wire' = [number |-> Head(jobs).number, blocks |-> Head(jobs).blocks]
          /\ Settle(Head(jobs).blocks.names)
  /\ UNCHANGED <<mode, published, step, mapped, queues, received, failures>>

Next ==
  \/ InsertMapping \/ QueuePacket \/ TimerSends \/ MergeOther
  \/ \E installed \in BOOLEAN : CommitFails(installed)
  \/ \E batching \in BOOLEAN : UpdateSeqNo(batching)
  \/ \E p \in Remote : FetchFails(p)
  \/ \E request \in Requests : RecvRepairRequests(request)
  \/ WorkerRuns \/ WorkerFails \/ ProcessResult

Spec == Init /\ [][Next]_vars

--------------------------------------------------------------------------------
(***************************************************************************)
(* Properties                                                              *)
(***************************************************************************)

\* The counters of an entry that is still in a queue are below their limits.
Below(limit) == { n \in Nat : n = 0 \/ n < limit }

Queue(Item, repeat) == Seq([item : Item, sent : Below(repeat), missed : Below(MissLimit)])

Queues ==
  [notification : Seq(Pub), names : Queue(Pub, RepeatCount),
   packets : Queue(Small, RepeatCount), repairs : Queue(Remote, RepairRepeatCount)]

Blocks == [names : SUBSET Pub, packets : SUBSET Small, requests : SUBSET Remote, size : Nat]

\* Type correctness: in particular what is queued is small enough and has not
\* been sent, or missed a round, as often as the options allow.
TypeOK ==
  /\ mode \in Modes /\ published \in 0 .. MaxPub
  /\ step \in {"idle", "named", "committed"} /\ mapped \in 0 .. MaxPub
  /\ queues \in Queues
  /\ jobs \in Seq([number : 0 .. MaxPub, blocks : Blocks, stale : BOOLEAN, done : BOOLEAN])
  /\ wire = NoInterest \/ wire \in [number : 0 .. MaxPub, blocks : Blocks]
  /\ received \in 0 .. MaxRequests
  /\ settled \subseteq Pub /\ waiting \subseteq Pub
  /\ failures \in [Pub -> 0 .. MaxFailures]

\* The extra blocks of an Interest keep to maxApplicationParametersSize, the
\* "Maximum encoded size of extra blocks" (svspubsub.hpp:69).
SizeBounded ==
  wire # NoInterest => wire.blocks.size <= Limit

\* The name of a publication, or of one that others asked for again, does not
\* vanish: it waits in a queue or in a job until an Interest has carried it,
\* or it found no room, or its job failed.  Not so for blocks the Face thread
\* takes for a job, which may be refused or its Interest dropped as stale, nor
\* for those a worker takes and the Face thread does not encode.
NamesReachTheNetwork ==
  mode \in {"serial", "worker"} =>
    \A p \in ((1 .. published) \ settled) \cup waiting :
      \/ \E i \in DOMAIN queues.names : queues.names[i].item = p
      \/ \E i \in DOMAIN jobs : p \in jobs[i].blocks.names

\* Publications whose commit has failed
Failed == { p \in Pub : failures[p] > 0 }

\* An Interest carries only packets that its state vector advertises, and names
\* no other publication but the next one, whose name was queued by a commit that
\* failed.  Not so when a worker takes the blocks: by then there may be
\* publications newer than the vector of the job.
NamesAreAdvertised ==
  wire # NoInterest /\ mode # "worker" =>
    /\ wire.blocks.names \subseteq 1 .. wire.number \cup ({wire.number + 1} \cap Failed)
    /\ wire.blocks.packets \subseteq 1 .. wire.number
================================================================================
