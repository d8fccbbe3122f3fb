--------------------------- MODULE SVSyncCoreProofs ----------------------------
(***************************************************************************)
(* Proofs about SVSyncCore for every set of streams and workers, every     *)
(* queue size and every bound.                                             *)
(*                                                                         *)
(* The first part follows the vectors: what the snapshots hold, what the   *)
(* application is told, and that the core implements SyncReplica.  The     *)
(* second part follows the jobs: what the pools hold, when the Face thread *)
(* joins them, and what happens to a vector on its way.                    *)
(***************************************************************************)
EXTENDS SVSyncCore, StateVectorProofs, TLAPS

--------------------------------------------------------------------------------
(***************************************************************************)
(* The own entry                                                           *)
(***************************************************************************)

\* updateSeqNo with a higher number only raises the own entry.
LEMMA SetRaises ==
  ASSUME NEW v \in Vector, NEW n \in Nat, v[Self] <= n
  PROVE  /\ Set(v, Self, n) \in Vector
         /\ Below(v, Set(v, Self, n))
         /\ Set(v, Self, n)[Self] = n
         /\ \A s \in Stream \ {Self} : Set(v, Self, n)[s] = v[s]
         /\ n = v[Self] => Set(v, Self, n) = v
BY CoreAssumption DEF Set, Below, Vector

--------------------------------------------------------------------------------
(***************************************************************************)
(* Queues                                                                  *)
(***************************************************************************)

Queued(q, j) == \E i \in 1 .. Len(q) : q[i] = j

\* SyncWorkerPool::post and the io_context append one element to a queue.
LEMMA AppendElements ==
  ASSUME NEW S, NEW q \in Seq(S), NEW e \in S
  PROVE  /\ Append(q, e) \in Seq(S)
         /\ \A j : Queued(Append(q, e), j) => Queued(q, j) \/ j = e
BY DEF Queued

\* Taking the first element of a queue adds nothing to it.
LEMMA TailElements ==
  ASSUME NEW S, NEW q \in Seq(S), q # <<>>
  PROVE  /\ Head(q) \in S /\ Tail(q) \in Seq(S)
         /\ Queued(q, Head(q))
         /\ \A j : Queued(Tail(q), j) => Queued(q, j)
<1>1. Len(q) \in Nat /\ Len(q) >= 1 /\ Head(q) = q[1]
  OBVIOUS
<1>2. \A i \in 1 .. Len(Tail(q)) : Tail(q)[i] = q[i + 1] /\ i + 1 \in 1 .. Len(q)
  BY <1>1
<1> QED BY <1>1, <1>2 DEF Queued

\* A job is in flight when a queue, a worker or the io_context holds it.
LEMMA InFlightMember ==
  \A j : j \in InFlight <=>
    \/ \E p \in Pool : Queued(queue[p], j)
    \/ \E p \in Pool, w \in Worker : run[p][w] = j /\ j # Idle
    \/ Queued(posted, j)
BY DEF InFlight, Queued

\* The same after a step.
LEMMA InFlightMemberNext ==
  \A j : j \in InFlight' <=>
    \/ \E p \in Pool : Queued(queue'[p], j)
    \/ \E p \in Pool, w \in Worker : run'[p][w] = j /\ j # Idle
    \/ Queued(posted', j)
BY DEF InFlight, Queued

\* Every job in flight is one.
LEMMA InFlightJobs ==
  ASSUME TypeOK
  PROVE  InFlight \subseteq Job
<1>1. \A p \in Pool : \A j : Queued(queue[p], j) => j \in Job
  BY DEF TypeOK, Queued
<1>2. \A j : Queued(posted, j) => j \in Job
  BY DEF TypeOK, Queued
<1>3. \A p \in Pool, w \in Worker : run[p][w] \in Job \cup {Idle}
  BY DEF TypeOK
<1> QED BY <1>1, <1>2, <1>3, InFlightMember

\* What a step may add to the queues of the pools: jobs that carry the
\* vector and the generation the step leaves behind.
NewJob(j) ==
  /\ j \in Job
  /\ j.local = vv' /\ j.gen = gen'
  /\ j.pool = "processing" =>
       /\ j.remote # NoVector
       /\ j.remote # Undecodable => j.remote[Self] <= j.local[Self]

QueuesGrow ==
  /\ queue' \in [Pool -> Seq(Job)]
  /\ \A p \in Pool : \A j : Queued(queue'[p], j) => Queued(queue[p], j) \/ NewJob(j)

\* SyncWorkerPool::post adds a job made from the current m_vv and
\* m_stateGeneration.
LEMMA PostGrows ==
  ASSUME TypeOK, NEW p \in Pool,
         NEW remote \in Vector \cup {NoVector, Undecodable},
         NEW v \in Vector, NEW g \in Nat,
         v = vv', g = gen', Post(p, remote, v, g),
         p = "processing" =>
           /\ remote # NoVector
           /\ remote # Undecodable => remote[Self] <= v[Self]
  PROVE  QueuesGrow
<1> DEFINE job == [pool |-> p, remote |-> remote, local |-> v,
                   gen |-> g, token |-> token[p]]
<1>1. job \in Job
  BY DEF TypeOK, Job
<1>2. NewJob(job)
  BY <1>1 DEF NewJob
<1> HIDE DEF job
<1>3. queue' = [queue EXCEPT ![p] = Append(queue[p], job)]
  BY DEF Post, job
<1>4. queue \in [Pool -> Seq(Job)]
  BY DEF TypeOK
<1>5. /\ Append(queue[p], job) \in Seq(Job)
      /\ \A j : Queued(Append(queue[p], job), j) => Queued(queue[p], j) \/ j = job
  BY <1>1, <1>4, AppendElements
<1> QED BY <1>2, <1>3, <1>4, <1>5 DEF QueuesGrow

\* Handlers that post nothing leave the pools' queues alone.
LEMMA QueuesStay ==
  ASSUME TypeOK, UNCHANGED queue
  PROVE  QueuesGrow
BY DEF TypeOK, QueuesGrow

\* sendSyncInterest posts the state it was called with or expresses it.
LEMMA SendStep ==
  ASSUME TypeOK, NEW v \in Vector, NEW g \in Nat, v = vv', g = gen',
         Below(sent, v), SendSyncInterest(v, g)
  PROVE  /\ QueuesGrow
         /\ sent' \in Vector /\ Below(sent, sent') /\ Below(sent', v)
<1>1. sent \in Vector
  BY DEF TypeOK
<1>2. CASE UNCHANGED <<queue, sent>>
  BY <1>1, <1>2, QueuesStay, BelowOrder
<1>3. CASE Post("production", NoVector, v, g) /\ UNCHANGED sent
  <2>1. QueuesGrow
    BY <1>3, PostGrows DEF Pool
  <2> QED BY <1>1, <1>3, <2>1, BelowOrder
<1>4. CASE Express(v) /\ UNCHANGED queue
  <2>1. sent' = Join(sent, v)
    BY <1>4 DEF Express
  <2> QED BY <1>1, <1>4, <2>1, QueuesStay, JoinBounds, BelowOrder
<1> QED BY <1>2, <1>3, <1>4 DEF SendSyncInterest

--------------------------------------------------------------------------------
(***************************************************************************)
(* The handlers                                                            *)
(***************************************************************************)

\* What every handler of the Face thread leaves behind.
CoreStep ==
  /\ vv' \in Vector /\ Below(vv, vv')
  /\ gen' \in Nat /\ gen <= gen' /\ (gen' = gen => vv' = vv)
  /\ recorded' \in Vector \cup {NoVector}
  /\ recorded' # NoVector => Below(recorded', vv')
  /\ retxArmed' \in BOOLEAN /\ pubPending' \in BOOLEAN
  /\ reported' \in Vector /\ inOrder' = TRUE
  /\ reported' = [vv' EXCEPT ![Self] = 0]
  /\ sent' \in Vector /\ Below(sent, sent') /\ Below(sent', vv')
  /\ QueuesGrow

\* m_onUpdate is told exactly what the merge added to m_vv.
LEMMA ReportStep ==
  ASSUME IInv, NEW remote \in Vector, remote[Self] <= vv[Self],
         NEW v \in Vector, Report(vv, remote),
         \A s \in Stream \ {Self} : v[s] = Join(vv, remote)[s]
  PROVE  /\ reported' \in Vector /\ inOrder' = TRUE
         /\ reported' = [v EXCEPT ![Self] = 0]
<1>1. vv \in Vector /\ inOrder = TRUE /\ reported = [vv EXCEPT ![Self] = 0]
  BY DEF IInv, TypeOK, ReportedExactlyOnce
<1>2. reported[Self] = 0 /\ \A s \in Stream \ {Self} : reported[s] = vv[s]
  BY <1>1, CoreAssumption DEF Vector
<1>3. reported' = [s \in Stream |-> IF vv[s] < remote[s] THEN remote[s] ELSE reported[s]]
  BY DEF Report
<1>4. reported'[Self] = 0
  BY <1>1, <1>2, <1>3, CoreAssumption DEF Vector
<1>5. \A s \in Stream \ {Self} : reported'[s] = v[s]
  BY <1>1, <1>2, <1>3 DEF Join, Vector
<1>6. reported' = [v EXCEPT ![Self] = 0]
  BY <1>3, <1>4, <1>5 DEF Vector
<1>7. \A m \in MissingData(vv, remote) : m.low = reported[m.stream] + 1
  BY <1>1, <1>2, CoreAssumption DEF MissingData, Vector
<1>8. inOrder' = TRUE
  BY <1>1, <1>7 DEF Report
<1> QED BY <1>6, <1>8 DEF Vector

\* The common part of onSyncInterestValidatedSerial and of
\* processSyncInterestResult, on a merge computed from the current m_vv.
LEMMA ReactStep ==
  ASSUME IInv, NEW remote \in Vector, remote[Self] <= vv[Self],
         React(remote, vv, MergedVector(vv, remote), MergedGeneration(gen, vv, remote))
  PROVE  CoreStep /\ Below(remote, vv')
<1> DEFINE M == MergedVector(vv, remote)
           G == MergedGeneration(gen, vv, remote)
<1>1. /\ vv \in Vector /\ gen \in Nat /\ sent \in Vector /\ Below(sent, vv)
      /\ recorded \in Vector \cup {NoVector}
      /\ recorded # NoVector => Below(recorded, vv)
      /\ retxArmed \in BOOLEAN /\ pubPending \in BOOLEAN /\ batching \in BOOLEAN
      /\ TypeOK
  BY DEF IInv, TypeOK, SentBelowLocal, RecordedBelowLocal
<1>2. /\ M \in Vector /\ Below(vv, M) /\ Below(remote, M)
      /\ M = Join(vv, remote)
      /\ M[Self] = vv[Self]
  BY <1>1, JoinBounds, CoreAssumption DEF MergedVector
<1>3. G \in Nat /\ gen <= G /\ (G = gen => M = vv)
  BY <1>1, GenerationTellsMerge
<1> HIDE DEF M, G
<1>4. PICK seq \in CallbackPublishes(M[Self], vv, remote), fails \in SendFailure :
        LET publishes == seq > M[Self]
            sends     == publishes /\ ~batching
            gAfter    == IF publishes THEN G + 1 ELSE G
            vAfter    == Set(M, Self, seq)
        IN  /\ vv' = vAfter
            /\ gen' = gAfter
            /\ pubPending' = (pubPending \/ (publishes /\ batching))
            /\ SendUnlessItThrows(sends, fails, vAfter, gAfter)
            /\ RecordOrSuppress(remote, MyVectorNew(vv, remote),
                                IF sends THEN NoVector ELSE recorded,
                                retxArmed \/ (sends /\ ~fails))
  BY DEF React, M, G
<1>5. seq \in Nat /\ M[Self] <= seq
  BY <1>1, <1>2, <1>4, CoreAssumption DEF CallbackPublishes, Vector
<1> DEFINE sends == seq > M[Self] /\ ~batching
           rec   == IF sends THEN NoVector ELSE recorded
           armed == retxArmed \/ (sends /\ ~fails)
<1>6. /\ vv' = Set(M, Self, seq)
      /\ vv' \in Vector /\ Below(M, vv')
      /\ \A s \in Stream \ {Self} : vv'[s] = M[s]
      /\ seq = M[Self] => vv' = M
  BY <1>2, <1>4, <1>5, SetRaises
<1>7. Below(vv, vv') /\ Below(remote, vv') /\ Below(sent, vv')
  BY <1>1, <1>2, <1>6, BelowOrder
<1>8. gen' \in Nat /\ gen <= gen' /\ (gen' = gen => vv' = vv)
  <2>1. CASE seq > M[Self]
    BY <1>1, <1>3, <1>4, <1>5, <2>1
  <2>2. CASE ~(seq > M[Self])
    <3>1. seq = M[Self] /\ gen' = G
      BY <1>2, <1>4, <1>5, <2>2, CoreAssumption DEF Vector
    <3> QED BY <1>3, <1>6, <3>1
  <2> QED BY <2>1, <2>2
<1>9. QueuesGrow /\ sent' \in Vector /\ Below(sent, sent') /\ Below(sent', vv')
  <2>1. CASE sends /\ ~fails
    <3>1. SendSyncInterest(vv', gen')
      BY <1>4, <2>1 DEF SendUnlessItThrows
    <3> QED BY <1>1, <1>6, <1>7, <1>8, <3>1, SendStep
  <2>2. CASE ~(sends /\ ~fails)
    <3>1. UNCHANGED <<queue, sent>>
      BY <1>4, <2>2 DEF SendUnlessItThrows
    <3> QED BY <1>1, <1>7, <3>1, QueuesStay, BelowOrder
  <2> QED BY <2>1, <2>2
<1>10. fails \in BOOLEAN /\ pubPending' \in BOOLEAN
  BY <1>1, <1>4 DEF SendFailure
<1>11. RecordOrSuppress(remote, MyVectorNew(vv, remote), rec, armed)
  BY <1>4
<1>12. /\ recorded' \in Vector \cup {NoVector}
       /\ recorded' # NoVector => Below(recorded', vv')
       /\ retxArmed' \in BOOLEAN
  <2>1. rec \in Vector \cup {NoVector} /\ armed \in BOOLEAN
        /\ (rec # NoVector => rec \in Vector /\ Below(rec, vv'))
    BY <1>1, <1>6, <1>7, <1>10, BelowOrder
  <2> HIDE DEF rec, armed
  <2>2. CASE rec # NoVector /\ recorded' = RecordedWith(rec, remote) /\ retxArmed' = armed
    BY <1>6, <1>7, <2>1, <2>2, JoinBounds DEF RecordedWith
  <2>3. CASE recorded' = NoVector /\ retxArmed' = TRUE
    BY <2>3
  <2>4. CASE recorded' = remote /\ retxArmed' \in {TRUE, armed}
    BY <1>7, <2>1, <2>4
  <2> QED BY <1>11, <2>2, <2>3, <2>4 DEF RecordOrSuppress
<1>13. /\ reported' \in Vector /\ inOrder' = TRUE
       /\ reported' = [vv' EXCEPT ![Self] = 0]
  <2>1. Report(vv, remote)
    BY DEF React
  <2> QED BY <1>2, <1>6, <2>1, ReportStep
<1> QED BY <1>6, <1>7, <1>8, <1>9, <1>10, <1>12, <1>13 DEF CoreStep

\* A step that leaves the core's own state alone.
LEMMA QuietStep ==
  ASSUME IInv,
         UNCHANGED <<vv, gen, recorded, retxArmed, pubPending, reported, inOrder, sent>>,
         QueuesGrow
  PROVE  CoreStep
<1>1. /\ TypeOK /\ RecordedBelowLocal /\ ReportedExactlyOnce /\ SentBelowLocal
  BY DEF IInv
<1>2. Below(vv, vv) /\ Below(sent, sent)
  BY <1>1, BelowOrder DEF TypeOK
<1> QED BY <1>1, <1>2 DEF CoreStep, TypeOK, RecordedBelowLocal, ReportedExactlyOnce,
                          SentBelowLocal

\* onSyncInterestValidatedSerial, for Interests that decode or do not.
LEMMA ValidatedSerialStep ==
  ASSUME IInv, NEW remote \in Vector \cup {Undecodable},
         remote # Undecodable => remote[Self] <= vv[Self],
         ValidatedSerial(remote)
  PROVE  CoreStep /\ (remote # Undecodable => Below(remote, vv'))
<1>1. CASE remote = Undecodable
  BY <1>1, QuietStep, QueuesStay DEF ValidatedSerial, IInv
<1>2. CASE remote # Undecodable
  BY <1>2, ReactStep DEF ValidatedSerial
<1> QED BY <1>1, <1>2

\* onSyncInterestValidated, serial and parallel
LEMMA ValidatedStep ==
  ASSUME IInv, NEW remote \in Vector \cup {Undecodable},
         remote # Undecodable => remote[Self] <= sent[Self],
         Validated(remote)
  PROVE  CoreStep /\ heard' \in Vector
<1>1. /\ TypeOK /\ vv \in Vector /\ gen \in Nat /\ sent \in Vector /\ heard \in Vector
      /\ Below(sent, vv)
  BY DEF IInv, TypeOK, SentBelowLocal
<1>2. remote # Undecodable => remote[Self] <= vv[Self]
  BY <1>1, CoreAssumption DEF Below, Vector
<1>3. heard' \in Vector
  BY <1>1, JoinBounds DEF Validated
<1>4. CASE /\ Post("processing", remote, vv, gen)
           /\ UNCHANGED <<vv, gen, recorded, retxArmed, pubPending, sent, reported, inOrder>>
  <2>1. remote # NoVector
    BY CoreAssumption
  <2>2. QueuesGrow
    BY <1>1, <1>2, <1>4, <2>1, PostGrows DEF Pool
  <2> QED BY <1>3, <1>4, <2>2, QuietStep
<1>5. CASE ValidatedSerial(remote)
  BY <1>2, <1>3, <1>5, ValidatedSerialStep
<1> QED BY <1>4, <1>5 DEF Validated

\* retxSyncInterest(true, 0): the merge with the recorded vector is void.
LEMMA RetransmitStep ==
  ASSUME IInv, Retransmit, UNCHANGED <<pubPending, reported, inOrder>>
  PROVE  CoreStep /\ UNCHANGED <<vv, gen>>
<1>1. /\ TypeOK /\ vv \in Vector /\ gen \in Nat /\ sent \in Vector /\ pubPending \in BOOLEAN
      /\ Below(sent, vv)
      /\ recorded \in Vector \cup {NoVector}
      /\ recorded # NoVector => Below(recorded, vv)
      /\ inOrder = TRUE /\ reported \in Vector /\ reported = [vv EXCEPT ![Self] = 0]
  BY DEF IInv, TypeOK, SentBelowLocal, RecordedBelowLocal, ReportedExactlyOnce
<1>2. recorded' = NoVector /\ retxArmed' = TRUE
  BY DEF Retransmit
<1>3. UNCHANGED <<vv, gen>>
  <2>1. CASE recorded = NoVector
    BY <2>1 DEF Retransmit
  <2>2. CASE recorded # NoVector
    <3>1. ~OtherVectorNew(vv, recorded)
      BY <1>1, <2>2 DEF OtherVectorNew, Below, Vector
    <3>2. MergedGeneration(gen, vv, recorded) = gen
      BY <3>1 DEF MergedGeneration
    <3>3. MergedVector(vv, recorded) = vv
      BY <1>1, <2>2, <3>2, GenerationTellsMerge
    <3> QED BY <2>2, <3>2, <3>3 DEF Retransmit
  <2> QED BY <2>1, <2>2
<1>4. QueuesGrow /\ sent' \in Vector /\ Below(sent, sent') /\ Below(sent', vv)
  <2>1. CASE SendSyncInterest(vv', gen')
    BY <1>1, <1>3, <2>1, SendStep
  <2>2. CASE UNCHANGED <<queue, sent>>
    BY <1>1, <2>2, QueuesStay, BelowOrder
  <2> QED BY <1>3, <2>1, <2>2 DEF Retransmit
<1> QED BY <1>1, <1>2, <1>3, <1>4, BelowOrder DEF CoreStep

\* updateSeqNo with a higher number
LEMMA UpdateSeqNoStep ==
  ASSUME IInv, NEW seq \in (vv[Self] + 1) .. MaxOwnSeq, UpdateSeqNo(seq)
  PROVE  CoreStep
<1>1. /\ TypeOK /\ vv \in Vector /\ gen \in Nat /\ sent \in Vector
      /\ pubPending \in BOOLEAN /\ retxArmed \in BOOLEAN /\ batching \in BOOLEAN
      /\ Below(sent, vv)
      /\ recorded \in Vector \cup {NoVector}
      /\ recorded # NoVector => Below(recorded, vv)
      /\ inOrder = TRUE /\ reported \in Vector /\ reported = [vv EXCEPT ![Self] = 0]
  BY DEF IInv, TypeOK, SentBelowLocal, RecordedBelowLocal, ReportedExactlyOnce
<1>2. seq \in Nat /\ vv[Self] \in Nat /\ seq > vv[Self]
  BY <1>1, CoreAssumption DEF Vector
<1>3. /\ vv' = Set(vv, Self, seq) /\ gen' = gen + 1
      /\ UNCHANGED <<reported, inOrder>>
      /\ pubPending' = (pubPending \/ batching)
      /\ recorded' \in {NoVector, recorded}
  BY <1>2 DEF UpdateSeqNo
<1>4. vv' \in Vector /\ Below(vv, vv') /\ \A s \in Stream \ {Self} : vv'[s] = vv[s]
  BY <1>1, <1>2, <1>3, SetRaises
<1>5. Below(sent, vv') /\ (recorded' # NoVector => Below(recorded', vv'))
  BY <1>1, <1>3, <1>4, BelowOrder
<1>6. reported' = [vv' EXCEPT ![Self] = 0]
  BY <1>1, <1>3, <1>4 DEF Vector
<1>7. PICK fails \in SendFailure :
        /\ SendUnlessItThrows(~batching, fails, vv', gen')
        /\ retxArmed' = (retxArmed \/ (~batching /\ ~fails))
  BY <1>2 DEF UpdateSeqNo
<1>8. QueuesGrow /\ sent' \in Vector /\ Below(sent, sent') /\ Below(sent', vv')
  <2>1. CASE SendSyncInterest(vv', gen')
    BY <1>1, <1>3, <1>4, <1>5, <2>1, SendStep
  <2>2. CASE UNCHANGED <<queue, sent>>
    BY <1>1, <1>5, <2>2, QueuesStay, BelowOrder
  <2> QED BY <1>7, <2>1, <2>2 DEF SendUnlessItThrows
<1>9. retxArmed' \in BOOLEAN /\ pubPending' \in BOOLEAN
  BY <1>1, <1>3, <1>7 DEF SendFailure
<1>10. gen' \in Nat /\ gen <= gen' /\ (gen' = gen => vv' = vv)
  BY <1>1, <1>3
<1>11. recorded' \in Vector \cup {NoVector} /\ reported' \in Vector /\ inOrder' = TRUE
  BY <1>1, <1>3
<1> QED BY <1>4, <1>5, <1>6, <1>8, <1>9, <1>10, <1>11 DEF CoreStep

\* sendLocalPublicationSyncInterest at the end of a batch window
LEMMA BatchWindowStep ==
  ASSUME IInv, BatchWindowEnds
  PROVE  CoreStep
<1>1. /\ TypeOK /\ vv \in Vector /\ gen \in Nat /\ sent \in Vector /\ retxArmed \in BOOLEAN
      /\ Below(sent, vv)
      /\ inOrder = TRUE /\ reported \in Vector /\ reported = [vv EXCEPT ![Self] = 0]
  BY DEF IInv, TypeOK, SentBelowLocal, ReportedExactlyOnce
<1>2. /\ recorded' = NoVector /\ pubPending' = FALSE
      /\ UNCHANGED <<vv, gen, reported, inOrder>>
  BY DEF BatchWindowEnds
<1>3. PICK fails \in SendFailure :
        /\ SendUnlessItThrows(TRUE, fails, vv', gen')
        /\ retxArmed' = (retxArmed \/ ~fails)
  BY <1>2 DEF BatchWindowEnds
<1>4. QueuesGrow /\ sent' \in Vector /\ Below(sent, sent') /\ Below(sent', vv')
  <2>1. CASE SendSyncInterest(vv', gen')
    BY <1>1, <1>2, <2>1, SendStep
  <2>2. CASE UNCHANGED <<queue, sent>>
    BY <1>1, <1>2, <2>2, QueuesStay, BelowOrder
  <2> QED BY <1>3, <2>1, <2>2 DEF SendUnlessItThrows
<1>5. retxArmed' \in BOOLEAN
  BY <1>1, <1>3 DEF SendFailure
<1>6. gen' \in Nat /\ gen <= gen' /\ (gen' = gen => vv' = vv)
  BY <1>1, <1>2
<1>7. vv' \in Vector /\ Below(vv, vv')
  BY <1>1, <1>2, BelowOrder
<1>8. /\ recorded' \in Vector \cup {NoVector} /\ ~(recorded' # NoVector)
      /\ pubPending' \in BOOLEAN
      /\ reported' \in Vector /\ inOrder' = TRUE
      /\ reported' = [vv' EXCEPT ![Self] = 0]
  BY <1>1, <1>2
<1> QED BY <1>4, <1>5, <1>6, <1>7, <1>8 DEF CoreStep

\* processSyncInterestResult: the snapshot of a current job is m_vv itself.
LEMMA ProcessingResultStep ==
  ASSUME IInv, NEW job \in InFlight, job.pool = "processing",
         ProcessSyncInterestResult(job)
  PROVE  CoreStep /\ (job.remote # Undecodable => Below(job.remote, vv'))
<1>1. job \in Job /\ vv \in Vector /\ gen \in Nat
  BY InFlightJobs DEF IInv, TypeOK
<1>2. /\ job.gen = gen => job.local = vv
      /\ Below(job.local, vv)
      /\ job.remote # NoVector
      /\ job.remote # Undecodable => job.remote[Self] <= job.local[Self]
  BY DEF IInv, SnapshotFresh, OwnStreamNotAhead
<1>3. job.remote \in Vector \cup {Undecodable} /\ job.local \in Vector
  BY <1>1, <1>2 DEF Job
<1>4. job.remote # Undecodable => job.remote[Self] <= vv[Self]
  <2> SUFFICES ASSUME job.remote # Undecodable PROVE job.remote[Self] <= vv[Self]
    OBVIOUS
  <2>1. job.remote[Self] \in Nat /\ job.local[Self] \in Nat /\ vv[Self] \in Nat
    BY <1>1, <1>3, CoreAssumption DEF Vector
  <2>2. job.local[Self] <= vv[Self]
    BY <1>2, CoreAssumption DEF Below
  <2> QED BY <1>2, <2>1, <2>2
<1>5. CASE ValidatedSerial(job.remote)
  BY <1>3, <1>4, <1>5, ValidatedSerialStep
<1>6. CASE /\ job.remote # Undecodable /\ ~Stale(job)
           /\ React(job.remote, job.local, MergedVector(job.local, job.remote),
                    MergedGeneration(gen, job.local, job.remote))
  <2>1. job.local = vv
    BY <1>2, <1>6 DEF Stale
  <2> QED BY <1>3, <1>4, <1>6, <2>1, ReactStep
<1> QED BY <1>5, <1>6 DEF ProcessSyncInterestResult

\* processSyncProductionResult expresses a vector that m_vv has outgrown or
\* equals.
LEMMA ProductionResultStep ==
  ASSUME IInv, NEW job \in InFlight, NEW fails \in BOOLEAN,
         ProcessSyncProductionResult(job, fails)
  PROVE  CoreStep
<1>1. /\ job \in Job /\ TypeOK /\ Below(job.local, vv) /\ Below(sent, vv)
      /\ vv \in Vector /\ sent \in Vector
  BY InFlightJobs DEF IInv, TypeOK, SnapshotFresh, SentBelowLocal
<1>2. job.local \in Vector
  BY <1>1 DEF Job
<1>3. UNCHANGED <<vv, gen, recorded, retxArmed, pubPending, queue, reported, inOrder>>
  BY DEF ProcessSyncProductionResult
<1>4. QueuesGrow
  BY <1>1, <1>3, QueuesStay
<1>5. CASE UNCHANGED sent
  BY <1>3, <1>4, <1>5, QuietStep
<1>6. CASE Express(job.local)
  <2>1. sent' = Join(sent, job.local)
    BY <1>6 DEF Express
  <2>2. sent' \in Vector /\ Below(sent, sent') /\ Below(sent', vv')
    BY <1>1, <1>2, <1>3, <2>1, JoinBounds
  <2>3. Below(vv, vv) /\ RecordedBelowLocal /\ ReportedExactlyOnce
    BY <1>1, BelowOrder DEF IInv
  <2> QED BY <1>1, <1>3, <1>4, <2>2, <2>3
          DEF CoreStep, TypeOK, RecordedBelowLocal, ReportedExactlyOnce
<1> QED BY <1>5, <1>6 DEF ProcessSyncProductionResult

--------------------------------------------------------------------------------
(***************************************************************************)
(* The inductive step                                                      *)
(***************************************************************************)

\* What a step does to the rest of the state: jobs move, or are new.
FrameStep ==
  /\ initialized' \in BOOLEAN /\ batching' \in BOOLEAN
  /\ enabled' \in [Pool -> BOOLEAN] /\ token' \in [Pool -> Nat]
  /\ alive' \subseteq Nat
  /\ face' \in Pool \cup {"run", "destroyed"} /\ dtor' \in BOOLEAN
  /\ heard' \in Vector
  /\ validating' \subseteq Vector \cup {Undecodable}
  /\ \A r \in validating' : r # Undecodable => r[Self] <= sent[Self]
  /\ run' \in [Pool -> [Worker -> Job \cup {Idle}]]
  /\ posted' \in Seq(Job)
  /\ \A j \in InFlight' : j \in InFlight \/ NewJob(j)

\* A step of these two kinds preserves the inductive invariant.
LEMMA StepKeepsIInv ==
  ASSUME IInv, CoreStep, FrameStep
  PROVE  IInv'
<1>1. /\ vv \in Vector /\ vv' \in Vector /\ gen \in Nat /\ gen' \in Nat
      /\ sent \in Vector /\ sent' \in Vector
      /\ Below(vv, vv') /\ gen <= gen' /\ (gen' = gen => vv' = vv)
  BY DEF IInv, TypeOK, CoreStep
<1>2. TypeOK'
  BY DEF CoreStep, FrameStep, QueuesGrow, TypeOK
<1>3. SnapshotFresh'
  <2> SUFFICES ASSUME NEW j \in InFlight'
               PROVE  j.gen <= gen' /\ (j.gen = gen' => j.local = vv') /\ Below(j.local, vv')
    BY DEF SnapshotFresh
  <2>1. CASE j \in InFlight
    <3>1. j.gen <= gen /\ (j.gen = gen => j.local = vv) /\ Below(j.local, vv)
      BY <2>1 DEF IInv, SnapshotFresh
    <3>2. j \in Job
      BY <2>1, InFlightJobs DEF IInv
    <3>3. j.gen \in Nat /\ j.local \in Vector
      BY <3>2 DEF Job
    <3>4. Below(j.local, vv')
      BY <1>1, <3>1, <3>3, BelowOrder
    <3> QED BY <1>1, <3>1, <3>3, <3>4
  <2>2. CASE NewJob(j)
    BY <1>1, <2>2, BelowOrder DEF NewJob
  <2> QED BY <2>1, <2>2 DEF FrameStep
<1>4. RecordedBelowLocal' /\ ReportedExactlyOnce' /\ SentBelowLocal'
  BY DEF CoreStep, RecordedBelowLocal, ReportedExactlyOnce, SentBelowLocal
<1>5. OwnStreamNotAhead'
  <2>1. ASSUME NEW r \in validating', r # Undecodable
        PROVE  r[Self] <= sent'[Self]
    <3>1. r \in Vector /\ r[Self] <= sent[Self]
      BY <2>1 DEF FrameStep
    <3>2. sent[Self] <= sent'[Self]
      BY CoreAssumption DEF CoreStep, Below
    <3> QED BY <1>1, <3>1, <3>2, CoreAssumption DEF Vector
  <2>2. ASSUME NEW j \in InFlight', j.pool = "processing"
        PROVE  /\ j.remote # NoVector
               /\ j.remote # Undecodable => j.remote[Self] <= j.local[Self]
    BY <2>2 DEF FrameStep, NewJob, IInv, OwnStreamNotAhead
  <2> QED BY <2>1, <2>2 DEF OwnStreamNotAhead
<1> QED BY <1>2, <1>3, <1>4, <1>5 DEF IInv

\* Handlers of the Face thread leave the workers alone.
LEMMA HandlerFlow ==
  ASSUME QueuesGrow, UNCHANGED run, \A j : Queued(posted', j) => Queued(posted, j)
  PROVE  \A j \in InFlight' : j \in InFlight \/ NewJob(j)
BY InFlightMember, InFlightMemberNext DEF QueuesGrow

\* The part of FrameStep that most actions leave unchanged.
LEMMA FrameOfInv ==
  ASSUME IInv
  PROVE  /\ TypeOK
         /\ \A r \in validating : r # Undecodable => r[Self] <= sent[Self]
         /\ \A j : Queued(posted, j) => Queued(posted, j)
BY DEF IInv, OwnStreamNotAhead

\* A peer knows of the own stream only what was advertised.
LEMMA IncomingFacts ==
  ASSUME TypeOK, NEW remote \in IncomingInterests
  PROVE  /\ remote \in Vector \cup {Undecodable}
         /\ remote # Undecodable => remote[Self] <= sent[Self]
<1>1. 0 .. MaxSeq \subseteq Nat
  BY CoreAssumption
<1> QED BY <1>1 DEF IncomingInterests, Vector

\* Every step of the specification is a CoreStep and a FrameStep.
LEMMA NextSteps ==
  ASSUME IInv, [Next]_vars
  PROVE  CoreStep /\ FrameStep
<1> USE FrameOfInv
<1>1. ASSUME NEW remote \in IncomingInterests, OnSyncInterest(remote)
      PROVE  CoreStep /\ FrameStep
  <2>1. /\ remote \in Vector \cup {Undecodable}
        /\ remote # Undecodable => remote[Self] <= sent[Self]
    BY IncomingFacts
  <2>2. UNCHANGED <<initialized, batching, enabled, token, alive, face, dtor, run, posted>>
    BY <1>1 DEF OnSyncInterest, poolVars
  <2>3. CoreStep /\ heard' \in Vector
    <3>1. CASE /\ UNCHANGED <<vv, gen, recorded, retxArmed, pubPending, queue,
                              heard, reported, inOrder, sent>>
      BY <3>1, QuietStep, QueuesStay DEF TypeOK
    <3>2. CASE Validated(remote)
      BY <2>1, <3>2, ValidatedStep
    <3> QED BY <1>1, <3>1, <3>2 DEF OnSyncInterest
  <2>4. validating' \in {validating, validating \cup {remote}}
    BY <1>1 DEF OnSyncInterest
  <2>5. \A j \in InFlight' : j \in InFlight \/ NewJob(j)
    BY <2>2, <2>3, HandlerFlow DEF CoreStep
  <2> QED BY <2>1, <2>2, <2>3, <2>4, <2>5 DEF FrameStep, TypeOK
<1>2. ASSUME NEW remote \in validating, NEW accepts \in BOOLEAN,
             ValidatorAnswers(remote, accepts)
      PROVE  CoreStep /\ FrameStep
  <2>1. /\ remote \in Vector \cup {Undecodable}
        /\ remote # Undecodable => remote[Self] <= sent[Self]
    BY DEF TypeOK
  <2>2. /\ UNCHANGED <<initialized, batching, enabled, token, alive, face, dtor, run, posted>>
        /\ validating' = validating \ {remote}
    BY <1>2 DEF ValidatorAnswers, poolVars
  <2>3. CoreStep /\ heard' \in Vector
    <3>1. CASE /\ UNCHANGED <<vv, gen, recorded, retxArmed, pubPending, queue,
                              heard, reported, inOrder, sent>>
      BY <3>1, QuietStep, QueuesStay DEF TypeOK
    <3>2. CASE Validated(remote)
      BY <2>1, <3>2, ValidatedStep
    <3> QED BY <1>2, <3>1, <3>2 DEF ValidatorAnswers
  <2>4. \A j \in InFlight' : j \in InFlight \/ NewJob(j)
    BY <2>2, <2>3, HandlerFlow DEF CoreStep
  <2> QED BY <2>2, <2>3, <2>4 DEF FrameStep, TypeOK
<1>3. CASE Publish
  <2>1. PICK seq \in (vv[Self] + 1) .. MaxOwnSeq : UpdateSeqNo(seq)
    BY <1>3 DEF Publish
  <2>2. CoreStep
    BY <2>1, UpdateSeqNoStep
  <2>3. UNCHANGED <<initialized, batching, enabled, token, alive, face, dtor,
                    validating, run, posted, heard>>
    BY <2>1 DEF UpdateSeqNo, poolVars
  <2>4. \A j \in InFlight' : j \in InFlight \/ NewJob(j)
    BY <2>2, <2>3, HandlerFlow DEF CoreStep
  <2> QED BY <2>2, <2>3, <2>4 DEF FrameStep, TypeOK
<1>4. CASE BatchWindowEnds
  <2>1. CoreStep
    BY <1>4, BatchWindowStep
  <2>2. UNCHANGED <<initialized, batching, enabled, token, alive, face, dtor,
                    validating, run, posted, heard>>
    BY <1>4 DEF BatchWindowEnds, poolVars
  <2>3. \A j \in InFlight' : j \in InFlight \/ NewJob(j)
    BY <2>1, <2>2, HandlerFlow DEF CoreStep
  <2> QED BY <2>1, <2>2, <2>3 DEF FrameStep, TypeOK
<1>5. CASE SendInitialInterest \/ RetxTimer
  <2>1. /\ Retransmit
        /\ initialized' \in {TRUE, initialized}
        /\ UNCHANGED <<batching, pubPending, enabled, token, alive, face, dtor,
                       validating, run, posted, heard, reported, inOrder>>
    BY <1>5 DEF SendInitialInterest, RetxTimer, poolVars
  <2>2. CoreStep
    BY <2>1, RetransmitStep
  <2>3. \A j \in InFlight' : j \in InFlight \/ NewJob(j)
    BY <2>1, <2>2, HandlerFlow DEF CoreStep
  <2> QED BY <2>1, <2>2, <2>3 DEF FrameStep, TypeOK
<1>6. ASSUME NEW on \in BOOLEAN, SetSyncInterestBatching(on)
      PROVE  CoreStep /\ FrameStep
  <2>1. /\ UNCHANGED <<vv, gen, recorded, initialized, retxArmed, enabled, token, alive,
                       face, dtor, validating, queue, run, posted, heard, reported,
                       inOrder, sent>>
        /\ batching' \in BOOLEAN /\ pubPending' \in BOOLEAN
    BY <1>6 DEF SetSyncInterestBatching, poolVars, TypeOK
  <2>2. QueuesGrow
    BY <2>1, QueuesStay
  <2>3. Below(vv, vv) /\ Below(sent, sent) /\ RecordedBelowLocal /\ ReportedExactlyOnce
        /\ SentBelowLocal
    BY BelowOrder DEF IInv, TypeOK
  <2>4. CoreStep
    BY <2>1, <2>2, <2>3 DEF CoreStep, TypeOK, RecordedBelowLocal, ReportedExactlyOnce,
                            SentBelowLocal
  <2>5. \A j \in InFlight' : j \in InFlight \/ NewJob(j)
    BY <2>1, <2>2, HandlerFlow
  <2> QED BY <2>1, <2>4, <2>5 DEF FrameStep, TypeOK
<1>7. ASSUME NEW p \in Pool, NEW w \in Worker, WorkerTakes(p, w)
      PROVE  CoreStep /\ FrameStep
  <2>1. /\ UNCHANGED <<vv, gen, recorded, initialized, retxArmed, batching, pubPending,
                       enabled, token, alive, face, dtor, validating, posted, heard,
                       reported, inOrder, sent>>
        /\ queue[p] # <<>>
        /\ run' = [run EXCEPT ![p][w] = Head(queue[p])]
        /\ queue' = [queue EXCEPT ![p] = Tail(queue[p])]
    BY <1>7 DEF WorkerTakes, objVars, poolVars
  <2>2. queue \in [Pool -> Seq(Job)] /\ run \in [Pool -> [Worker -> Job \cup {Idle}]]
    BY DEF TypeOK
  <2>3. /\ Head(queue[p]) \in Job /\ Tail(queue[p]) \in Seq(Job)
        /\ Queued(queue[p], Head(queue[p]))
        /\ \A j : Queued(Tail(queue[p]), j) => Queued(queue[p], j)
    BY <2>1, <2>2, TailElements
  <2>4. run' \in [Pool -> [Worker -> Job \cup {Idle}]]
    BY <2>1, <2>2, <2>3
  <2>5. /\ queue' \in [Pool -> Seq(Job)]
        /\ \A q \in Pool : \A j : Queued(queue'[q], j) => Queued(queue[q], j)
    BY <2>1, <2>2, <2>3
  <2>6. \A q \in Pool, x \in Worker : run'[q][x] = run[q][x] \/ Queued(queue[p], run'[q][x])
    BY <2>1, <2>2, <2>3
  <2>7. \A j \in InFlight' : j \in InFlight
    BY <2>1, <2>5, <2>6, InFlightMember, InFlightMemberNext
  <2>8. CoreStep
    BY <2>1, <2>5, QuietStep DEF QueuesGrow
  <2> QED BY <2>1, <2>4, <2>7, <2>8 DEF FrameStep, TypeOK
<1>8. ASSUME NEW p \in Pool, NEW w \in Worker, WorkerPosts(p, w)
      PROVE  CoreStep /\ FrameStep
  <2>1. /\ UNCHANGED <<vv, gen, recorded, initialized, retxArmed, batching, pubPending,
                       enabled, token, alive, face, dtor, validating, queue, heard,
                       reported, inOrder, sent>>
        /\ run[p][w] # Idle
        /\ posted' = Append(posted, run[p][w])
        /\ run' = [run EXCEPT ![p][w] = Idle]
    BY <1>8 DEF WorkerPosts, objVars, poolVars
  <2>2. run \in [Pool -> [Worker -> Job \cup {Idle}]] /\ posted \in Seq(Job)
    BY DEF TypeOK
  <2>3. run[p][w] \in Job
    BY <2>1, <2>2
  <2>4. /\ posted' \in Seq(Job)
        /\ \A j : Queued(posted', j) => Queued(posted, j) \/ j = run[p][w]
    BY <2>1, <2>2, <2>3, AppendElements
  <2>5. run' \in [Pool -> [Worker -> Job \cup {Idle}]]
    BY <2>1, <2>2
  <2>6. \A q \in Pool, x \in Worker : run'[q][x] = run[q][x] \/ run'[q][x] = Idle
    BY <2>1, <2>2
  <2>7. \A j \in InFlight' : j \in InFlight
    BY <2>1, <2>4, <2>6, InFlightMember, InFlightMemberNext
  <2>8. CoreStep
    BY <2>1, QuietStep, QueuesStay
  <2> QED BY <2>1, <2>4, <2>5, <2>7, <2>8 DEF FrameStep, TypeOK
<1>9. ASSUME NEW fails \in SendFailure, RunPosted(fails)
      PROVE  CoreStep /\ FrameStep
  <2> DEFINE job == Head(posted)
  <2>1. /\ posted # <<>> /\ posted' = Tail(posted)
        /\ UNCHANGED <<initialized, batching, enabled, token, alive, face, dtor,
                       validating, run, heard>>
    BY <1>9 DEF RunPosted, poolVars
  <2>2. posted \in Seq(Job)
    BY DEF TypeOK
  <2>3. /\ posted' \in Seq(Job) /\ Queued(posted, job)
        /\ \A j : Queued(posted', j) => Queued(posted, j)
    BY <2>1, <2>2, TailElements
  <2>4. job \in InFlight
    BY <2>3, InFlightMember
  <2> HIDE DEF job
  <2>5. CASE UNCHANGED <<vv, gen, recorded, retxArmed, pubPending, queue,
                         reported, inOrder, sent>>
    BY <2>1, <2>3, <2>5, QuietStep, QueuesStay, HandlerFlow DEF FrameStep, TypeOK
  <2>6. CASE job.pool = "processing" /\ ProcessSyncInterestResult(job)
    <3>1. CoreStep
      BY <2>4, <2>6, ProcessingResultStep
    <3>2. \A j \in InFlight' : j \in InFlight \/ NewJob(j)
      BY <2>1, <2>3, <3>1, HandlerFlow DEF CoreStep
    <3> QED BY <2>1, <2>3, <3>1, <3>2 DEF FrameStep, TypeOK
  <2>7. CASE ProcessSyncProductionResult(job, fails)
    <3>1. CoreStep
      BY <2>4, <2>7, ProductionResultStep DEF SendFailure
    <3>2. \A j \in InFlight' : j \in InFlight \/ NewJob(j)
      BY <2>1, <2>3, <3>1, HandlerFlow DEF CoreStep
    <3> QED BY <2>1, <2>3, <3>1, <3>2 DEF FrameStep, TypeOK
  <2> QED BY <1>9, <2>5, <2>6, <2>7 DEF RunPosted, job
<1>10. ASSUME UNCHANGED <<vv, gen, recorded, initialized, retxArmed, batching, pubPending,
                          validating, queue, run, posted, reported, inOrder, sent>>,
              enabled' \in [Pool -> BOOLEAN], token' \in [Pool -> Nat],
              alive' \subseteq Nat, face' \in Pool \cup {"run", "destroyed"},
              dtor' \in BOOLEAN, heard' \in Vector
       PROVE  CoreStep /\ FrameStep
  <2>1. QueuesGrow /\ CoreStep
    BY <1>10, QuietStep, QueuesStay
  <2>2. \A j \in InFlight' : j \in InFlight \/ NewJob(j)
    BY <1>10, <2>1, HandlerFlow
  <2> QED BY <1>10, <2>1, <2>2 DEF FrameStep, TypeOK
<1>11. ASSUME NEW p \in Pool, StopPool(p)
       PROVE  /\ enabled' \in [Pool -> BOOLEAN] /\ alive' \subseteq Nat
              /\ face' \in Pool \cup {"run", "destroyed"} /\ heard' \in Vector
  BY <1>11 DEF StopPool, TypeOK
<1>12. ASSUME NEW p \in Pool, EnablePool(p)
       PROVE  CoreStep /\ FrameStep
  <2>1. NewToken \in Nat
    BY DEF NewToken, TypeOK, Pool
  <2>2. /\ token' \in [Pool -> Nat] /\ alive' \subseteq Nat /\ enabled' \in [Pool -> BOOLEAN]
    BY <1>12, <2>1 DEF EnablePool, TypeOK
  <2> QED BY <1>10, <1>12, <2>2 DEF EnablePool, objVars, TypeOK
<1>13. ASSUME NEW p \in Pool, DisablePool(p)
       PROVE  CoreStep /\ FrameStep
  BY <1>10, <1>11, <1>13 DEF DisablePool, objVars, TypeOK
<1>14. CASE Destroy
  <2>1. /\ enabled' \in [Pool -> BOOLEAN] /\ alive' \subseteq Nat
        /\ face' \in Pool \cup {"run", "destroyed"} /\ heard' \in Vector
    <3>1. CASE StopPool("production") \/ StopPool("processing")
      BY <1>11, <3>1 DEF Pool
    <3>2. CASE face' = "destroyed" /\ UNCHANGED <<enabled, alive, heard>>
      BY <3>2 DEF TypeOK
    <3> QED BY <1>14, <3>1, <3>2 DEF Destroy
  <2> QED BY <1>10, <1>14, <2>1 DEF Destroy, objVars, TypeOK
<1>15. CASE Joined
  <2>1. /\ enabled' \in [Pool -> BOOLEAN] /\ alive' \subseteq Nat
        /\ face' \in Pool \cup {"run", "destroyed"} /\ heard' \in Vector
    <3>1. CASE StopPool("processing")
      BY <1>11, <3>1 DEF Pool
    <3>2. CASE face' \in {"destroyed", "run"} /\ UNCHANGED <<enabled, alive, heard>>
      BY <3>2 DEF TypeOK
    <3> QED BY <1>15, <3>1, <3>2 DEF Joined
  <2> QED BY <1>10, <1>15, <2>1 DEF Joined, objVars, TypeOK
<1>16. CASE UNCHANGED vars
  BY <1>10, <1>16 DEF vars, TypeOK
<1> QED BY <1>1, <1>2, <1>3, <1>4, <1>5, <1>6, <1>7, <1>8, <1>9, <1>12, <1>13,
           <1>14, <1>15, <1>16 DEF Next, Environment

--------------------------------------------------------------------------------
(***************************************************************************)
(* Theorems                                                                *)
(***************************************************************************)

\* A newly constructed SVSyncCore has no jobs.
LEMMA InitNoJobs ==
  ASSUME Init
  PROVE  \A j : j \notin InFlight
<1>1. \A p \in Pool : \A j : ~Queued(queue[p], j)
  BY DEF Init, Queued
<1>2. \A j : ~Queued(posted, j)
  BY DEF Init, Queued
<1>3. \A p \in Pool, w \in Worker : run[p][w] = Idle
  BY DEF Init
<1> QED BY <1>1, <1>2, <1>3, InFlightMember

\* A newly constructed SVSyncCore satisfies the inductive invariant.
LEMMA InitIInv == Init => IInv
<1> SUFFICES ASSUME Init PROVE IInv
  OBVIOUS
<1>1. EmptyVector \in Vector /\ Below(EmptyVector, EmptyVector)
  BY EmptyIsVector, BelowOrder
<1>2. queue \in [Pool -> Seq(Job)] /\ posted \in Seq(Job)
  BY DEF Init
<1>3. TypeOK
  BY <1>1, <1>2 DEF Init, TypeOK
<1>4. \A j : j \notin InFlight
  BY InitNoJobs
<1>5. ReportedExactlyOnce
  BY CoreAssumption DEF Init, ReportedExactlyOnce, EmptyVector
<1> QED BY <1>1, <1>3, <1>4, <1>5
        DEF IInv, Init, SnapshotFresh, RecordedBelowLocal, SentBelowLocal, OwnStreamNotAhead

\* The inductive invariant holds of every behaviour of SVSyncCore.
THEOREM Invariance == Spec => []IInv
<1>1. IInv /\ [Next]_vars => IInv'
  BY NextSteps, StepKeepsIInv
<1> QED BY <1>1, InitIInv, PTL DEF Spec

\* The members of SVSyncCore keep their types in every behaviour.
THEOREM TypeCorrect == Spec => []TypeOK
BY Invariance, PTL DEF IInv

\* A worker result whose generation is still current was computed from the
\* very vector it is about to overwrite: processSyncInterestResult never
\* takes back what a publication or another result put into m_vv.
THEOREM SnapshotsFresh == Spec => []SnapshotFresh
BY Invariance, PTL DEF IInv

\* The silent merge of retxSyncInterest never learns anything.
THEOREM SilentMergeLearnsNothing == Spec => []RecordedBelowLocal
BY Invariance, PTL DEF IInv

\* The update callback covers every foreign sequence number exactly once and
\* in order, whichever of the serial, parallel, stale and full-queue paths
\* each vector took.
THEOREM UpdatesExact == Spec => []ReportedExactlyOnce
BY Invariance, PTL DEF IInv

\* m_vv only grows, and every change of it raises m_stateGeneration.
THEOREM Monotone == Spec => StateMonotone
<1>1. IInv /\ [Next]_vars => [Below(vv, vv') /\ (vv' # vv => gen' > gen)]_vars
  <2> SUFFICES ASSUME IInv, [Next]_vars
               PROVE  Below(vv, vv') /\ (vv' # vv => gen' > gen)
    OBVIOUS
  <2>1. CoreStep
    BY NextSteps
  <2>2. gen \in Nat
    BY DEF IInv, TypeOK
  <2> QED BY <2>1, <2>2 DEF CoreStep
<1> QED BY <1>1, Invariance, PTL DEF Spec, StateMonotone

\* SVSyncCore, with its timers, workers, stale results and shutdown, does
\* what SyncReplica promises of a participant.
THEOREM CoreImplementsReplica == Spec => ReplicaSpec
<1>1. Init => Replica!Init
  BY DEF Init, Replica!Init, EmptyVector, Replica!EmptyVector
<1>2. IInv /\ [Next]_vars => [Replica!Step]_(Replica!replicaVars)
  <2> SUFFICES ASSUME IInv, [Next]_vars
               PROVE  Replica!Step
    OBVIOUS
  <2>1. CoreStep
    BY NextSteps
  <2>2. vv \in Vector /\ reported = [vv EXCEPT ![Self] = 0]
    BY DEF IInv, TypeOK, ReportedExactlyOnce
  <2>3. reported[Self] = 0
    BY <2>2, CoreAssumption DEF Vector
  <2> QED BY <2>1, <2>3 DEF CoreStep, Below, Replica!Below, Replica!Step
<1> QED BY <1>1, <1>2, Invariance, PTL DEF Spec, ReplicaSpec, Replica!Spec

--------------------------------------------------------------------------------
(***************************************************************************)
(* Jobs are added by the Face thread and taken away by running a result    *)
(***************************************************************************)

\* A job of an enabled pool, made from an Interest that knows of the own
\* stream what was advertised.
FreshJob(j) ==
  /\ j.pool \in Pool /\ enabled[j.pool] /\ j.token = token[j.pool]
  /\ j.pool = "processing" /\ j.remote # Undecodable => j.remote[Self] <= sent[Self]

\* A handler adds such jobs to the pools, or none.
HandlerQueues ==
  /\ \A p \in Pool : \A j : Queued(queue[p], j) => Queued(queue'[p], j)
  /\ \A p \in Pool : ~enabled[p] => queue'[p] = queue[p]
  /\ \A p \in Pool : \A j : Queued(queue'[p], j) =>
       Queued(queue[p], j) \/ FreshJob(j)

\* SyncWorkerPool::post appends, so it loses nothing.
LEMMA AppendKeeps ==
  ASSUME NEW S, NEW q \in Seq(S), NEW e \in S
  PROVE  /\ \A j : Queued(q, j) => Queued(Append(q, e), j)
         /\ Queued(Append(q, e), e)
<1>1. /\ Len(q) \in Nat /\ Len(Append(q, e)) = Len(q) + 1
      /\ Append(q, e)[Len(q) + 1] = e /\ \A i \in 1 .. Len(q) : Append(q, e)[i] = q[i]
  OBVIOUS
<1>2. Len(q) + 1 \in 1 .. Len(q) + 1 /\ \A i \in 1 .. Len(q) : i \in 1 .. Len(q) + 1
  BY <1>1
<1> QED BY <1>1, <1>2 DEF Queued

\* Taking the first element leaves the others.
LEMMA TailKeeps ==
  ASSUME NEW S, NEW q \in Seq(S), q # <<>>
  PROVE  \A j : Queued(q, j) => j = Head(q) \/ Queued(Tail(q), j)
<1>1. Len(q) \in Nat /\ Len(q) >= 1 /\ Head(q) = q[1] /\ Len(Tail(q)) = Len(q) - 1
  OBVIOUS
<1>2. \A i \in 1 .. Len(q) : i = 1 \/ (i - 1 \in 1 .. Len(Tail(q)) /\ q[i] = Tail(q)[i - 1])
  BY <1>1
<1> QED BY <1>1, <1>2 DEF Queued

\* The job that SyncWorkerPool::post adds to an enabled pool
LEMMA PostQueues ==
  ASSUME TypeOK, NEW p \in Pool, enabled[p],
         NEW remote \in Vector \cup {NoVector, Undecodable},
         p = "processing" /\ remote # Undecodable => remote[Self] <= sent[Self],
         NEW v \in Vector, NEW g \in Nat, Post(p, remote, v, g)
  PROVE  /\ HandlerQueues
         /\ \E j : /\ Queued(queue'[p], j) /\ j.pool = p /\ j.token = token[p]
                   /\ j.remote = remote /\ j \in Job
<1> DEFINE job == [pool |-> p, remote |-> remote, local |-> v,
                   gen |-> g, token |-> token[p]]
<1>1. job \in Job /\ job.pool = p /\ job.token = token[p] /\ job.remote = remote
  BY DEF TypeOK, Job
<1> HIDE DEF job
<1>2. queue' = [queue EXCEPT ![p] = Append(queue[p], job)]
  BY DEF Post, job
<1>3. queue \in [Pool -> Seq(Job)]
  BY DEF TypeOK
<1>4. /\ \A j : Queued(Append(queue[p], job), j) => Queued(queue[p], j) \/ j = job
      /\ \A j : Queued(queue[p], j) => Queued(Append(queue[p], job), j)
      /\ Queued(Append(queue[p], job), job)
  BY <1>1, <1>3, AppendElements, AppendKeeps
<1>5. queue'[p] = Append(queue[p], job) /\ \A q \in Pool : q # p => queue'[q] = queue[q]
  BY <1>2, <1>3
<1>6. Queued(queue'[p], job)
  BY <1>4, <1>5
<1>7. HandlerQueues
  <2>1. FreshJob(job)
    BY <1>1 DEF FreshJob
  <2> QED BY <1>4, <1>5, <2>1 DEF HandlerQueues
<1> QED BY <1>1, <1>6, <1>7

\* A handler that posts nothing
LEMMA NoPostQueues ==
  ASSUME UNCHANGED queue
  PROVE  HandlerQueues
BY DEF HandlerQueues

\* sendSyncInterest and its callers post to the production pool at most.
LEMMA SendQueues ==
  ASSUME TypeOK, NEW sends, NEW fails, NEW v \in Vector, NEW g \in Nat,
         SendUnlessItThrows(sends, fails, v, g) \/ SendSyncInterest(v, g)
  PROVE  HandlerQueues
<1>1. CASE UNCHANGED queue
  BY <1>1, NoPostQueues
<1>2. CASE CanPost("production") /\ Post("production", NoVector, v, g)
  <2>1. enabled["production"]
    BY <1>2 DEF CanPost
  <2> QED BY <1>2, <2>1, PostQueues DEF Pool
<1> QED BY <1>1, <1>2 DEF SendUnlessItThrows, SendSyncInterest

\* The same for what a handler does after the merge
LEMMA ReactQueues ==
  ASSUME TypeOK, CoreStep, NEW remote, NEW local, NEW merged, NEW g,
         React(remote, local, merged, g)
  PROVE  HandlerQueues
<1>1. PICK sends, fails : SendUnlessItThrows(sends, fails, vv', gen')
  BY DEF React
<1>2. vv' \in Vector /\ gen' \in Nat
  BY DEF CoreStep
<1> QED BY <1>1, <1>2, SendQueues

\* and for Interests that are handled on the Face thread.
LEMMA SerialQueues ==
  ASSUME TypeOK, CoreStep, NEW remote, ValidatedSerial(remote)
  PROVE  HandlerQueues
BY ReactQueues, NoPostQueues DEF ValidatedSerial

\* onSyncInterestValidated: the Interest is handled or is a job of the
\* processing pool.
LEMMA ValidatedQueues ==
  ASSUME IInv, NEW remote \in Vector \cup {Undecodable},
         remote # Undecodable => remote[Self] <= sent[Self],
         Validated(remote)
  PROVE  /\ HandlerQueues
         /\ remote # Undecodable =>
              \/ Below(remote, vv')
              \/ /\ enabled["processing"]
                 /\ \E j : /\ Queued(queue'["processing"], j) /\ j \in Job
                           /\ j.pool = "processing" /\ j.token = token["processing"]
                           /\ j.remote = remote
<1>1. /\ TypeOK /\ vv \in Vector /\ gen \in Nat /\ sent \in Vector /\ Below(sent, vv)
  BY DEF IInv, TypeOK, SentBelowLocal
<1>2. remote # Undecodable => remote[Self] <= vv[Self]
  BY <1>1, CoreAssumption DEF Below, Vector
<1>3. CASE CanPost("processing") /\ Post("processing", remote, vv, gen)
  <2>1. enabled["processing"]
    BY <1>3 DEF CanPost
  <2> QED BY <1>1, <1>3, <2>1, PostQueues DEF Pool
<1>4. CASE ValidatedSerial(remote)
  <2>1. CoreStep /\ (remote # Undecodable => Below(remote, vv'))
    BY <1>2, <1>4, ValidatedSerialStep
  <2> QED BY <1>1, <1>4, <2>1, SerialQueues
<1> QED BY <1>3, <1>4 DEF Validated

\* A worker moves a job from its queue to the io_context and drops none.
LEMMA WorkersMove ==
  ASSUME IInv, NEW p \in Pool, NEW w \in Worker, WorkerTakes(p, w) \/ WorkerPosts(p, w)
  PROVE  /\ \A j : j \in InFlight' <=> j \in InFlight
         /\ \A q \in Pool : queue[q] = <<>> => queue'[q] = <<>>
         /\ UNCHANGED <<vv, enabled, token, alive, face, dtor, heard>>
<1>1. /\ queue \in [Pool -> Seq(Job)] /\ run \in [Pool -> [Worker -> Job \cup {Idle}]]
      /\ posted \in Seq(Job)
  BY DEF IInv, TypeOK
<1>2. UNCHANGED <<vv, enabled, token, alive, face, dtor, heard>>
  BY DEF WorkerTakes, WorkerPosts, objVars, poolVars
<1>3. CASE WorkerTakes(p, w)
  <2>1. /\ run[p][w] = Idle /\ queue[p] # <<>> /\ UNCHANGED posted
        /\ run' = [run EXCEPT ![p][w] = Head(queue[p])]
        /\ queue' = [queue EXCEPT ![p] = Tail(queue[p])]
    BY <1>3 DEF WorkerTakes
  <2> DEFINE h == Head(queue[p])
  <2>2. /\ h \in Job /\ Queued(queue[p], h)
        /\ \A j : Queued(Tail(queue[p]), j) => Queued(queue[p], j)
        /\ \A j : Queued(queue[p], j) => j = h \/ Queued(Tail(queue[p]), j)
    BY <1>1, <2>1, TailElements, TailKeeps
  <2>3. h # Idle
    BY <2>2, IdleAssumption
  <2>4. /\ queue'[p] = Tail(queue[p]) /\ \A q \in Pool : q # p => queue'[q] = queue[q]
        /\ run'[p][w] = h
        /\ \A q \in Pool, x \in Worker : <<q, x>> # <<p, w>> => run'[q][x] = run[q][x]
    BY <1>1, <2>1
  <2> HIDE DEF h
  <2>5. ASSUME NEW j, j \in InFlight PROVE j \in InFlight'
    <3>1. CASE \E q \in Pool : Queued(queue[q], j)
      BY <2>2, <2>3, <2>4, <3>1, InFlightMemberNext
    <3>2. CASE \E q \in Pool, x \in Worker : run[q][x] = j /\ j # Idle
      <4>1. PICK q \in Pool, x \in Worker : run[q][x] = j /\ j # Idle
        BY <3>2
      <4>2. run'[q][x] = j
        BY <2>1, <2>4, <4>1
      <4> QED BY <4>1, <4>2, InFlightMemberNext
    <3>3. CASE Queued(posted, j)
      BY <2>1, <3>3, InFlightMemberNext
    <3> QED BY <2>5, <3>1, <3>2, <3>3, InFlightMember
  <2>6. ASSUME NEW j, j \in InFlight' PROVE j \in InFlight
    <3>1. CASE \E q \in Pool : Queued(queue'[q], j)
      BY <2>2, <2>4, <3>1, InFlightMember
    <3>2. CASE \E q \in Pool, x \in Worker : run'[q][x] = j /\ j # Idle
      <4>1. PICK q \in Pool, x \in Worker : run'[q][x] = j /\ j # Idle
        BY <3>2
      <4>2. run[q][x] = j \/ j = h
        BY <2>4, <4>1
      <4> QED BY <2>2, <4>1, <4>2, InFlightMember
    <3>3. CASE Queued(posted', j)
      BY <2>1, <3>3, InFlightMember
    <3> QED BY <2>6, <3>1, <3>2, <3>3, InFlightMemberNext
  <2>7. \A q \in Pool : queue[q] = <<>> => queue'[q] = <<>>
    BY <2>1, <2>4
  <2> QED BY <1>2, <2>5, <2>6, <2>7
<1>4. CASE WorkerPosts(p, w)
  <2>1. /\ run[p][w] # Idle /\ UNCHANGED queue
        /\ posted' = Append(posted, run[p][w])
        /\ run' = [run EXCEPT ![p][w] = Idle]
    BY <1>4 DEF WorkerPosts
  <2> DEFINE h == run[p][w]
  <2>2. /\ h \in Job
        /\ \A j : Queued(posted', j) => Queued(posted, j) \/ j = h
        /\ \A j : Queued(posted, j) => Queued(posted', j)
        /\ Queued(posted', h)
    <3>1. h \in Job
      BY <1>1, <2>1
    <3> HIDE DEF h
    <3>2. posted' = Append(posted, h)
      BY <2>1 DEF h
    <3> QED BY <1>1, <3>1, <3>2, AppendElements, AppendKeeps
  <2>3. /\ run'[p][w] = Idle
        /\ \A q \in Pool, x \in Worker : <<q, x>> # <<p, w>> => run'[q][x] = run[q][x]
    BY <1>1, <2>1
  <2>4. ASSUME NEW j, j \in InFlight PROVE j \in InFlight'
    <3>1. CASE \E q \in Pool, x \in Worker : run[q][x] = j /\ j # Idle
      <4>1. PICK q \in Pool, x \in Worker : run[q][x] = j /\ j # Idle
        BY <3>1
      <4>2. run'[q][x] = j \/ j = h
        BY <2>3, <4>1
      <4> QED BY <2>2, <4>1, <4>2, InFlightMemberNext
    <3> QED BY <2>1, <2>2, <2>4, <3>1, InFlightMember, InFlightMemberNext
  <2>5. ASSUME NEW j, j \in InFlight' PROVE j \in InFlight
    <3>1. CASE \E q \in Pool, x \in Worker : run'[q][x] = j /\ j # Idle
      <4>1. PICK q \in Pool, x \in Worker : run'[q][x] = j /\ j # Idle
        BY <3>1
      <4>2. run[q][x] = j
        BY <2>3, <4>1
      <4> QED BY <4>1, <4>2, InFlightMember
    <3>2. h \in InFlight
      BY <2>1, InFlightMember
    <3> QED BY <2>1, <2>2, <2>5, <3>1, <3>2, InFlightMember, InFlightMemberNext
  <2> QED BY <1>2, <2>1, <2>4, <2>5
<1> QED BY <1>3, <1>4

\* A job that carries what was heard of stream s, and whose result will be used
Carries(j, s, seq) ==
  /\ j.pool = "processing" /\ j.token \in alive /\ j.remote # Undecodable
  /\ seq <= j.remote[s]

\* The handlers of the Face thread.  What they hear is merged or becomes a
\* job, and the result they run is merged if its flag is alive.
HandlerStep ==
  /\ UNCHANGED <<enabled, token, alive, face, dtor, run>>
  /\ HandlerQueues
  /\ \A j : Queued(posted', j) => Queued(posted, j)
  /\ \A j : Queued(posted, j) => Queued(posted', j) \/
       (j.pool = "processing" /\ j.token \in alive /\ j.remote # Undecodable
          => Below(j.remote, vv'))
  /\ \/ UNCHANGED heard
     \/ \E r \in Vector :
          /\ heard' = Join(heard, r)
          /\ \/ Below(r, vv')
             \/ /\ enabled["processing"]
                /\ \E j : /\ Queued(queue'["processing"], j) /\ j \in Job
                          /\ j.pool = "processing" /\ j.token = token["processing"]
                          /\ j.remote = r

\* onSyncInterestValidated is such a handler.
LEMMA ValidatedHandler ==
  ASSUME IInv, NEW remote \in Vector \cup {Undecodable},
         remote # Undecodable => remote[Self] <= sent[Self],
         Validated(remote),
         UNCHANGED <<enabled, token, alive, face, dtor, run, posted>>
  PROVE  HandlerStep
<1>1. HandlerQueues
  BY ValidatedQueues
<1>2. heard' = IF remote = Undecodable THEN heard ELSE Join(heard, remote)
  BY DEF Validated
<1>3. CASE remote = Undecodable
  BY <1>1, <1>2, <1>3 DEF HandlerStep
<1>4. CASE remote # Undecodable
  <2>1. remote \in Vector /\ heard' = Join(heard, remote)
    BY <1>2, <1>4
  <2>2. \/ Below(remote, vv')
        \/ /\ enabled["processing"]
           /\ \E j : /\ Queued(queue'["processing"], j) /\ j \in Job
                     /\ j.pool = "processing" /\ j.token = token["processing"]
                     /\ j.remote = remote
    BY <1>4, ValidatedQueues
  <2> QED BY <1>1, <2>1, <2>2 DEF HandlerStep
<1> QED BY <1>3, <1>4

\* So is a closure that runs the result of a worker.
LEMMA RunPostedHandler ==
  ASSUME IInv, CoreStep, NEW fails, RunPosted(fails)
  PROVE  HandlerStep
<1> DEFINE job == Head(posted)
<1>1. /\ posted # <<>> /\ posted' = Tail(posted)
      /\ UNCHANGED <<enabled, token, alive, face, dtor, run, heard>>
  BY DEF RunPosted, poolVars
<1>2. posted \in Seq(Job) /\ TypeOK
  BY DEF IInv, TypeOK
<1>3. /\ Queued(posted, job)
      /\ \A j : Queued(posted', j) => Queued(posted, j)
      /\ \A j : Queued(posted, j) => j = job \/ Queued(posted', j)
  BY <1>1, <1>2, TailElements, TailKeeps
<1>4. job \in InFlight
  BY <1>3, InFlightMember
<1> HIDE DEF job
<1>5. CASE job.token \notin alive /\ UNCHANGED queue
  BY <1>1, <1>3, <1>5, NoPostQueues DEF HandlerStep
<1>6. CASE job.pool = "processing" /\ ProcessSyncInterestResult(job)
  <2>1. job.remote # Undecodable => Below(job.remote, vv')
    BY <1>4, <1>6, ProcessingResultStep
  <2>2. HandlerQueues
    BY <1>2, <1>6, ReactQueues, SerialQueues DEF ProcessSyncInterestResult
  <2> QED BY <1>1, <1>3, <2>1, <2>2 DEF HandlerStep
<1>7. CASE job.pool = "production" /\ ProcessSyncProductionResult(job, fails)
  BY <1>1, <1>3, <1>7, NoPostQueues DEF HandlerStep, ProcessSyncProductionResult
<1> QED BY <1>5, <1>6, <1>7 DEF RunPosted, job

\* The steps of the specification: a handler, a worker, or the switching of a
\* pool, which touches no job.
LEMMA FlowCases ==
  ASSUME IInv, [Next]_vars
  PROVE  \/ HandlerStep
         \/ \E p \in Pool, w \in Worker : WorkerTakes(p, w) \/ WorkerPosts(p, w)
         \/ /\ (\E p \in Pool : EnablePool(p) \/ DisablePool(p)) \/ Destroy \/ Joined
            /\ UNCHANGED <<vv, queue, run, posted>>
<1>1. CoreStep /\ TypeOK /\ vv \in Vector /\ gen \in Nat
  BY NextSteps DEF IInv, TypeOK
<1>2. vv' \in Vector /\ gen' \in Nat
  BY <1>1 DEF CoreStep
<1>3. ASSUME UNCHANGED <<enabled, token, alive, face, dtor, run, posted, heard>>, HandlerQueues
      PROVE  HandlerStep
  BY <1>3 DEF HandlerStep
<1>4. ASSUME NEW remote \in IncomingInterests, OnSyncInterest(remote)
      PROVE  HandlerStep
  <2>1. UNCHANGED <<enabled, token, alive, face, dtor, run, posted>>
    BY <1>4 DEF OnSyncInterest, poolVars
  <2>2. CASE UNCHANGED <<queue, heard>>
    BY <1>3, <2>1, <2>2, NoPostQueues
  <2>3. CASE Validated(remote)
    BY <1>1, <2>1, <2>3, IncomingFacts, ValidatedHandler
  <2> QED BY <1>4, <2>2, <2>3 DEF OnSyncInterest
<1>5. ASSUME NEW remote \in validating, NEW accepts \in BOOLEAN, ValidatorAnswers(remote, accepts)
      PROVE  HandlerStep
  <2>1. UNCHANGED <<enabled, token, alive, face, dtor, run, posted>>
    BY <1>5 DEF ValidatorAnswers, poolVars
  <2>2. CASE UNCHANGED <<queue, heard>>
    BY <1>3, <2>1, <2>2, NoPostQueues
  <2>3. CASE Validated(remote)
    <3>1. remote \in Vector \cup {Undecodable} /\ (remote # Undecodable => remote[Self] <= sent[Self])
      BY <1>1 DEF TypeOK, IInv, OwnStreamNotAhead
    <3> QED BY <2>1, <2>3, <3>1, ValidatedHandler
  <2> QED BY <1>5, <2>2, <2>3 DEF ValidatorAnswers
<1>6. CASE BatchWindowEnds
  <2>1. UNCHANGED <<enabled, token, alive, face, dtor, run, posted, heard>>
    BY <1>6 DEF BatchWindowEnds, poolVars
  <2>2. PICK fails \in SendFailure : SendUnlessItThrows(TRUE, fails, vv, gen)
    BY <1>6 DEF BatchWindowEnds
  <2>3. HandlerQueues
    BY <1>1, <2>2, SendQueues
  <2> QED BY <1>3, <2>1, <2>3
<1>7. CASE SendInitialInterest \/ RetxTimer
  <2>1. /\ UNCHANGED <<enabled, token, alive, face, dtor, run, posted, heard>> /\ Retransmit
    BY <1>7 DEF SendInitialInterest, RetxTimer, poolVars
  <2>2. SendSyncInterest(vv, gen) \/ SendSyncInterest(vv', gen') \/ UNCHANGED queue
    BY <2>1 DEF Retransmit
  <2>3. HandlerQueues
    BY <1>1, <1>2, <2>2, SendQueues, NoPostQueues
  <2> QED BY <1>3, <2>1, <2>3
<1>8. ASSUME NEW on \in BOOLEAN, SetSyncInterestBatching(on)
      PROVE  HandlerStep
  BY <1>3, <1>8, NoPostQueues DEF SetSyncInterestBatching, poolVars
<1>9. ASSUME NEW seq, UpdateSeqNo(seq)
      PROVE  HandlerStep
  <2>1. UNCHANGED <<enabled, token, alive, face, dtor, run, posted, heard>>
    BY <1>9 DEF UpdateSeqNo, poolVars
  <2>2. PICK sends, fails : SendUnlessItThrows(sends, fails, vv', gen')
    BY <1>9 DEF UpdateSeqNo
  <2>3. HandlerQueues
    BY <1>1, <1>2, <2>2, SendQueues
  <2> QED BY <1>3, <2>1, <2>3
<1>10. ASSUME NEW fails, RunPosted(fails)
       PROVE  HandlerStep
  BY <1>1, <1>10, RunPostedHandler
<1>11. ASSUME (\E p \in Pool : EnablePool(p) \/ DisablePool(p)) \/ Destroy \/ Joined
       PROVE  UNCHANGED <<vv, queue, run, posted>>
  BY <1>11 DEF EnablePool, DisablePool, Destroy, Joined, objVars
<1>12. CASE UNCHANGED vars
  BY <1>3, <1>12, NoPostQueues DEF vars
<1> QED BY <1>4, <1>5, <1>6, <1>7, <1>8, <1>9, <1>10, <1>11, <1>12 DEF Next, Environment, Publish

\* What a handler does to the jobs in flight
LEMMA HandlerInFlight ==
  ASSUME HandlerStep
  PROVE  /\ \A j \in InFlight' : j \in InFlight \/ FreshJob(j)
         /\ \A j \in InFlight : j \in InFlight' \/
              (j.pool = "processing" /\ j.token \in alive /\ j.remote # Undecodable
                 => Below(j.remote, vv'))
<1>1. UNCHANGED run /\ HandlerQueues /\ \A j : Queued(posted', j) => Queued(posted, j)
  BY DEF HandlerStep
<1>2. \A j \in InFlight' : j \in InFlight \/ FreshJob(j)
  BY <1>1, InFlightMember, InFlightMemberNext DEF HandlerQueues
<1>3. \A j \in InFlight : Queued(posted, j) \/ j \in InFlight'
  BY <1>1, InFlightMember, InFlightMemberNext DEF HandlerQueues
<1>4. \A j : Queued(posted', j) => j \in InFlight'
  BY InFlightMemberNext
<1> QED BY <1>2, <1>3, <1>4 DEF HandlerStep

\* Switching a pool moves no job.
LEMMA SwitchInFlight ==
  ASSUME UNCHANGED <<queue, run, posted>>
  PROVE  InFlight' = InFlight
BY DEF InFlight

--------------------------------------------------------------------------------
(***************************************************************************)
(* Nothing that was heard is lost                                          *)
(***************************************************************************)

\* The alive flag of a pool is its own: clearing the production flag leaves
\* the results of the processing pool alone.
TokensApart ==
  /\ \A p \in Pool : enabled[p] => token[p] \in alive
  /\ enabled["processing"] => token["processing"] # token["production"]
  /\ \A j \in InFlight : j.token < NewToken
  /\ \A j \in InFlight : j.pool = "processing" => j.token # token["production"]

\* A new flag is none of the old ones.
LEMMA NewTokenIsNew ==
  ASSUME TypeOK
  PROVE  NewToken \in Nat /\ \A p \in Pool : token[p] < NewToken
<1>1. token["processing"] \in Nat /\ token["production"] \in Nat
  BY DEF TypeOK, Pool
<1> QED BY <1>1 DEF NewToken, Pool

\* Every step keeps the flags apart.
LEMMA NextKeepsTokens ==
  ASSUME IInv, TokensApart, [Next]_vars
  PROVE  TokensApart'
<1>1. TypeOK /\ TypeOK'
  BY NextSteps, StepKeepsIInv DEF IInv
<1>2. NewToken \in Nat /\ \A p \in Pool : token[p] < NewToken
  BY <1>1, NewTokenIsNew
<1>3. CASE HandlerStep
  <2>1. /\ UNCHANGED <<enabled, token, alive>> /\ NewToken' = NewToken
        /\ \A j \in InFlight' : j \in InFlight \/ FreshJob(j)
    BY <1>3, HandlerInFlight DEF HandlerStep, NewToken
  <2> QED BY <1>2, <2>1 DEF TokensApart, FreshJob
<1>4. CASE \E p \in Pool, w \in Worker : WorkerTakes(p, w) \/ WorkerPosts(p, w)
  <2>1. /\ UNCHANGED <<enabled, token, alive>> /\ \A j \in InFlight' : j \in InFlight
    BY <1>4, WorkersMove
  <2>2. NewToken' = NewToken
    BY <2>1 DEF NewToken
  <2> QED BY <2>1, <2>2 DEF TokensApart
<1>5. ASSUME UNCHANGED <<queue, run, posted, token>>, NEW p \in Pool, enabled[p], StopPool(p)
      PROVE  TokensApart'
  <2>1. InFlight' = InFlight /\ NewToken' = NewToken
    BY <1>5, SwitchInFlight DEF NewToken
  <2>2. \A q \in Pool : enabled'[q] => enabled[q] /\ q # p
    BY <1>1, <1>5 DEF StopPool, TypeOK
  <2>3. \A q \in Pool : enabled'[q] => token[q] # token[p]
    BY <1>5, <2>2 DEF TokensApart, Pool
  <2> QED BY <1>5, <2>1, <2>2, <2>3 DEF TokensApart, StopPool, Pool
<1>6. ASSUME UNCHANGED <<queue, run, posted, token, enabled, alive>>
      PROVE  TokensApart'
  BY <1>6, SwitchInFlight DEF TokensApart, NewToken
<1>7. ASSUME UNCHANGED <<queue, run, posted>>, NEW p \in Pool, EnablePool(p)
      PROVE  TokensApart'
  <2>1. /\ token' = [token EXCEPT ![p] = NewToken] /\ alive' = alive \cup {NewToken}
        /\ enabled' = [enabled EXCEPT ![p] = TRUE] /\ InFlight' = InFlight
    BY <1>7, SwitchInFlight DEF EnablePool
  <2>2. /\ token'[p] = NewToken /\ \A q \in Pool : q # p => token'[q] = token[q]
        /\ \A q \in Pool : q # p => enabled'[q] = enabled[q]
    BY <1>1, <2>1 DEF TypeOK
  <2>3. NewToken' \in Nat /\ NewToken < NewToken'
    <3>1. NewToken' \in Nat /\ \A q \in Pool : token'[q] < NewToken'
      <4>1. token'["processing"] \in Nat /\ token'["production"] \in Nat
        BY <1>1 DEF TypeOK, Pool
      <4> QED BY <4>1 DEF NewToken, Pool
    <3> QED BY <2>2, <3>1
  <2>4. \A j \in InFlight : j.token \in Nat
    BY <1>1, InFlightJobs DEF Job
  <2>5. \A q \in Pool : enabled'[q] => token'[q] \in alive'
    BY <2>1, <2>2 DEF TokensApart
  <2>6. token'["processing"] # token'["production"] \/ ~enabled'["processing"]
    BY <1>2, <2>2 DEF TokensApart, Pool
  <2>7. \A j \in InFlight : j.token < NewToken'
    <3>1. \A j \in InFlight : j.token < NewToken
      BY DEF TokensApart
    <3> QED BY <1>2, <2>3, <2>4, <3>1
  <2>8. \A j \in InFlight : j.pool = "processing" => j.token # token'["production"]
    <3>1. \A j \in InFlight : j.token # NewToken
      BY <1>2, <2>4 DEF TokensApart
    <3> QED BY <2>2, <3>1 DEF TokensApart, Pool
  <2> QED BY <2>1, <2>5, <2>6, <2>7, <2>8 DEF TokensApart
<1>8. CASE /\ (\E p \in Pool : EnablePool(p) \/ DisablePool(p)) \/ Destroy \/ Joined
           /\ UNCHANGED <<vv, queue, run, posted>>
  BY <1>5, <1>6, <1>7, <1>8 DEF DisablePool, Destroy, Joined, Pool
<1> QED BY <1>3, <1>4, <1>8, FlowCases

\* Every step keeps what was heard in m_vv or on its way.
LEMMA NextKeepsHeard ==
  ASSUME IInv, TokensApart, NothingHeardIsLost, [Next]_vars
  PROVE  NothingHeardIsLost'
<1>1. TypeOK /\ TypeOK' /\ Below(vv, vv')
  BY NextSteps, StepKeepsIInv DEF IInv, CoreStep
<1>2. vv \in Vector /\ vv' \in Vector /\ heard \in Vector /\ heard' \in Vector
  BY <1>1 DEF TypeOK
<1>3. \A s \in Stream : heard[s] <= vv[s] \/ \E j \in InFlight : Carries(j, s, heard[s])
  BY DEF NothingHeardIsLost, Carries
<1>4. ASSUME UNCHANGED heard, alive \subseteq alive', \A j \in InFlight : j \in InFlight'
      PROVE  NothingHeardIsLost'
  <2>1. \A s \in Stream : heard[s] <= vv[s] => heard'[s] <= vv'[s]
    BY <1>1, <1>2, <1>4 DEF Below, Vector
  <2> QED BY <1>3, <1>4, <2>1 DEF NothingHeardIsLost, Carries
<1>5. CASE HandlerStep
  <2> SUFFICES ASSUME NEW s \in Stream
               PROVE  \/ heard'[s] <= vv'[s]
                      \/ \E j \in InFlight' : Carries(j, s, heard'[s])
    BY <1>5 DEF NothingHeardIsLost, Carries, HandlerStep
  <2>1. vv[s] \in Nat /\ vv'[s] \in Nat /\ heard[s] \in Nat /\ heard'[s] \in Nat /\ vv[s] <= vv'[s]
    BY <1>1, <1>2 DEF Vector, Below
  <2>2. heard[s] <= vv'[s] \/ \E j \in InFlight' : Carries(j, s, heard[s])
    <3>1. CASE heard[s] <= vv[s]
      BY <2>1, <3>1
    <3>2. CASE \E j \in InFlight : Carries(j, s, heard[s])
      <4>1. PICK j \in InFlight : Carries(j, s, heard[s])
        BY <3>2
      <4>2. CASE j \in InFlight'
        BY <4>1, <4>2
      <4>3. CASE Below(j.remote, vv')
        <5>1. j.remote \in Vector
          <6>1. j \in Job /\ j.remote # NoVector /\ j.remote # Undecodable
            BY <1>1, <4>1, InFlightJobs DEF Carries, IInv, OwnStreamNotAhead
          <6> QED BY <6>1 DEF Job
        <5>2. j.remote[s] \in Nat /\ j.remote[s] <= vv'[s] /\ heard[s] <= j.remote[s]
          BY <4>1, <4>3, <5>1 DEF Vector, Below, Carries
        <5> QED BY <2>1, <5>2
      <4> QED BY <1>5, <4>1, <4>2, <4>3, HandlerInFlight DEF Carries
    <3> QED BY <1>3, <3>1, <3>2
  <2>3. CASE heard'[s] = heard[s]
    BY <2>2, <2>3
  <2>4. ASSUME NEW r \in Vector, heard' = Join(heard, r), heard'[s] # heard[s]
        PROVE  heard'[s] = r[s]
    BY <1>2, <2>4 DEF Join, Vector
  <2>5. CASE heard'[s] # heard[s]
    <3>1. PICK r \in Vector :
            /\ heard' = Join(heard, r)
            /\ \/ Below(r, vv')
               \/ /\ enabled["processing"]
                  /\ \E j : /\ Queued(queue'["processing"], j) /\ j \in Job
                            /\ j.pool = "processing" /\ j.token = token["processing"]
                            /\ j.remote = r
      BY <1>5, <2>5 DEF HandlerStep
    <3>2. heard'[s] = r[s]
      BY <2>4, <2>5, <3>1
    <3>3. CASE Below(r, vv')
      BY <3>2, <3>3 DEF Below
    <3>4. CASE /\ enabled["processing"]
               /\ \E j : /\ Queued(queue'["processing"], j) /\ j \in Job
                         /\ j.pool = "processing" /\ j.token = token["processing"]
                         /\ j.remote = r
      <4>1. PICK j : /\ Queued(queue'["processing"], j) /\ j \in Job
                     /\ j.pool = "processing" /\ j.token = token["processing"]
                     /\ j.remote = r
        BY <3>4
      <4>2. j \in InFlight'
        BY <4>1, InFlightMemberNext DEF Pool
      <4>3. j.token \in alive
        BY <3>4, <4>1 DEF TokensApart, Pool
      <4>4. r # Undecodable /\ heard'[s] <= r[s]
        BY <2>1, <3>2, CoreAssumption
      <4> QED BY <4>1, <4>2, <4>3, <4>4 DEF Carries
    <3> QED BY <3>1, <3>3, <3>4
  <2> QED BY <2>3, <2>5
<1>6. CASE \E p \in Pool, w \in Worker : WorkerTakes(p, w) \/ WorkerPosts(p, w)
  <2>1. UNCHANGED <<heard, alive>> /\ \A j \in InFlight : j \in InFlight'
    BY <1>6, WorkersMove
  <2> QED BY <1>4, <2>1
<1>7. ASSUME UNCHANGED <<vv, queue, run, posted>>, NEW p \in Pool, StopPool(p)
      PROVE  NothingHeardIsLost'
  <2>1. InFlight' = InFlight
    BY <1>7, SwitchInFlight
  <2>2. CASE p = "processing"
    <3>1. heard' = vv'
      BY <1>7, <2>2 DEF StopPool
    <3> QED BY <1>2, <3>1 DEF NothingHeardIsLost, Vector
  <2>3. CASE p = "production"
    <3>1. UNCHANGED <<heard, vv>> /\ alive' = alive \ {token["production"]}
      BY <1>7, <2>3 DEF StopPool
    <3>2. \A j \in InFlight : j.pool = "processing" /\ j.token \in alive => j.token \in alive'
      BY <3>1 DEF TokensApart
    <3> QED BY <2>1, <3>1, <3>2 DEF NothingHeardIsLost
  <2> QED BY <2>2, <2>3 DEF Pool
<1>8. CASE /\ (\E p \in Pool : EnablePool(p) \/ DisablePool(p)) \/ Destroy \/ Joined
           /\ UNCHANGED <<vv, queue, run, posted>>
  <2>1. ASSUME NEW p \in Pool, EnablePool(p)
        PROVE  NothingHeardIsLost'
    BY <1>4, <1>8, <2>1, SwitchInFlight DEF EnablePool
  <2>2. CASE UNCHANGED <<alive, heard>>
    BY <1>4, <1>8, <2>2, SwitchInFlight
  <2> QED BY <1>7, <1>8, <2>1, <2>2 DEF DisablePool, Destroy, Joined, Pool
<1> QED BY <1>5, <1>6, <1>8, FlowCases

\* A vector accepted from the network is in m_vv or still on its way through
\* the workers, for any queue size, any number of threads and however the
\* pools are enabled again: neither a full queue nor a stale snapshot loses it.
THEOREM NothingHeardGetsLost == Spec => []NothingHeardIsLost
<1>1. Init => TokensApart /\ NothingHeardIsLost
  <2> SUFFICES ASSUME Init PROVE TokensApart /\ NothingHeardIsLost
    OBVIOUS
  <2>1. \A j : j \notin InFlight
    BY InitNoJobs
  <2>2. \A p \in Pool : ~enabled[p]
    BY DEF Init
  <2>3. heard = EmptyVector /\ vv = EmptyVector
    BY DEF Init
  <2>4. NothingHeardIsLost
    BY <2>3, EmptyIsVector DEF NothingHeardIsLost, Vector
  <2>5. TokensApart
    BY <2>1, <2>2 DEF TokensApart, Pool
  <2> QED BY <2>4, <2>5
<1>2. IInv /\ TokensApart /\ NothingHeardIsLost /\ [Next]_vars
        => TokensApart' /\ NothingHeardIsLost'
  BY NextKeepsTokens, NextKeepsHeard
<1> QED BY <1>1, <1>2, Invariance, PTL DEF Spec

--------------------------------------------------------------------------------
(***************************************************************************)
(* The destructor fences                                                   *)
(***************************************************************************)

\* A pool that is switched off and joined has an empty queue, and the
\* destructor joins every pool that was enabled.
Joining ==
  /\ \A p \in Pool : face = p => ~enabled[p]
  /\ dtor => face # "run"
  /\ dtor /\ face = "processing" => ~enabled["production"]
  /\ face = "destroyed" => \A p \in Pool : ~enabled[p]
  /\ \A p \in Pool : ~enabled[p] /\ face # p => queue[p] = <<>>

\* Only the flags of enabled pools are alive, unless a pool is enabled twice.
AliveIsEnabled == \A t \in alive : \E p \in Pool : enabled[p] /\ t = token[p]

\* Every step of the shutdown keeps them.
LEMMA NextKeepsJoining ==
  ASSUME IInv, Joining, [Next]_vars
  PROVE  Joining'
<1>1. enabled \in [Pool -> BOOLEAN] /\ face \in Pool \cup {"run", "destroyed"}
  BY DEF IInv, TypeOK
<1>2. CASE HandlerStep
  BY <1>2 DEF HandlerStep, HandlerQueues, Joining
<1>3. CASE \E p \in Pool, w \in Worker : WorkerTakes(p, w) \/ WorkerPosts(p, w)
  BY <1>3, WorkersMove DEF Joining
<1>4. ASSUME NEW p \in Pool, EnablePool(p) PROVE Joining'
  <2>1. /\ face = "run" /\ UNCHANGED <<face, dtor, queue>>
        /\ enabled' = [enabled EXCEPT ![p] = TRUE]
    BY <1>4 DEF EnablePool
  <2>2. \A q \in Pool : enabled'[q] = IF q = p THEN TRUE ELSE enabled[q]
    BY <1>1, <2>1
  <2> QED BY <2>1, <2>2 DEF Joining, Pool
<1>5. ASSUME NEW p \in Pool, StopPool(p), UNCHANGED queue,
             face = "run" \/ (face \in Pool /\ queue[face] = <<>>),
             dtor' /\ p = "processing" => ~enabled["production"]
      PROVE  Joining'
  <2>1. face' = p /\ \A q \in Pool : enabled'[q] = IF q = p THEN FALSE ELSE enabled[q]
    BY <1>1, <1>5 DEF StopPool
  <2>2. \A q \in Pool : ~enabled'[q] /\ q # p => queue'[q] = <<>>
    BY <1>5, <2>1 DEF Joining, Pool
  <2> QED BY <1>5, <2>1, <2>2 DEF Joining, Pool
<1>6. ASSUME NEW p \in Pool, DisablePool(p) PROVE Joining'
  BY <1>5, <1>6 DEF DisablePool, Joining
<1>7. CASE Destroy
  <2>1. CASE StopPool("production")
    BY <1>5, <1>7, <2>1 DEF Destroy, Pool
  <2>2. CASE ~enabled["production"] /\ StopPool("processing")
    BY <1>5, <1>7, <2>2 DEF Destroy, Pool
  <2>3. CASE face' = "destroyed" /\ (\A p \in Pool : ~enabled[p]) /\ UNCHANGED enabled
    BY <1>7, <2>3 DEF Destroy, Joining, Pool
  <2> QED BY <1>7, <2>1, <2>2, <2>3 DEF Destroy
<1>8. CASE Joined
  <2>1. face \in Pool /\ queue[face] = <<>> /\ UNCHANGED <<queue, dtor>>
    BY <1>8 DEF Joined
  <2>2. CASE dtor /\ face = "production" /\ StopPool("processing")
    BY <1>5, <2>1, <2>2 DEF Joining, Pool
  <2>3. CASE /\ ~(dtor /\ face = "production" /\ enabled["processing"])
             /\ face' = IF dtor THEN "destroyed" ELSE "run"
             /\ UNCHANGED enabled
    <3>1. dtor => \A p \in Pool : ~enabled[p]
      BY <1>1, <2>1, <2>3 DEF Joining, Pool
    <3>2. \A p \in Pool : ~enabled[p] => queue[p] = <<>>
      BY <2>1 DEF Joining, Pool
    <3> QED BY <2>1, <2>3, <3>1, <3>2 DEF Joining, Pool
  <2> QED BY <1>8, <2>2, <2>3 DEF Joined
<1> QED BY <1>2, <1>3, <1>4, <1>6, <1>7, <1>8, FlowCases

\* and clears the flag of each pool it stops.
LEMMA NextKeepsAlive ==
  ASSUME ~MayReEnable, IInv, AliveIsEnabled, [Next]_vars
  PROVE  AliveIsEnabled'
<1>1. enabled \in [Pool -> BOOLEAN] /\ token \in [Pool -> Nat]
  BY DEF IInv, TypeOK
<1>2. CASE UNCHANGED <<enabled, token, alive>>
  BY <1>2 DEF AliveIsEnabled
<1>3. ASSUME NEW p \in Pool, EnablePool(p) PROVE AliveIsEnabled'
  <2>1. /\ ~enabled[p] /\ alive' = alive \cup {NewToken}
        /\ token' = [token EXCEPT ![p] = NewToken]
        /\ enabled' = [enabled EXCEPT ![p] = TRUE]
    BY <1>3 DEF EnablePool
  <2> HIDE DEF NewToken
  <2>2. /\ enabled'[p] /\ token'[p] = NewToken
        /\ \A q \in Pool : q # p => enabled'[q] = enabled[q] /\ token'[q] = token[q]
    BY <1>1, <2>1
  <2> QED BY <2>1, <2>2 DEF AliveIsEnabled
<1>4. ASSUME NEW p \in Pool, StopPool(p), UNCHANGED token PROVE AliveIsEnabled'
  <2>1. alive' = alive \ {token[p]} /\ \A q \in Pool : q # p => enabled'[q] = enabled[q]
    BY <1>1, <1>4 DEF StopPool
  <2> QED BY <1>4, <2>1 DEF AliveIsEnabled
<1>5. CASE HandlerStep
  BY <1>2, <1>5 DEF HandlerStep
<1>6. CASE \E p \in Pool, w \in Worker : WorkerTakes(p, w) \/ WorkerPosts(p, w)
  BY <1>2, <1>6, WorkersMove
<1>7. CASE (\E p \in Pool : DisablePool(p)) \/ Destroy \/ Joined
  BY <1>2, <1>4, <1>7 DEF DisablePool, Destroy, Joined, Pool
<1> QED BY <1>3, <1>5, <1>6, <1>7, FlowCases

\* After the destructor no step touches the object.
LEMMA DestroyedStays ==
  ASSUME IInv, Joining, AliveIsEnabled, Next, face = "destroyed"
  PROVE  UNCHANGED <<objVars, queue, reported, sent>>
<1>1. alive = {} /\ \A p \in Pool : queue[p] = <<>>
  BY DEF Joining, AliveIsEnabled, Pool
<1>2. ASSUME NEW remote \in validating, NEW accepts \in BOOLEAN, ValidatorAnswers(remote, accepts)
      PROVE  UNCHANGED <<objVars, queue, reported, sent>>
  BY <1>2 DEF ValidatorAnswers, objVars
<1>3. ASSUME NEW fails, RunPosted(fails)
      PROVE  UNCHANGED <<objVars, queue, reported, sent>>
  BY <1>1, <1>3 DEF RunPosted, objVars
<1>4. ASSUME NEW p \in Pool, NEW w \in Worker, WorkerTakes(p, w) \/ WorkerPosts(p, w)
      PROVE  UNCHANGED <<objVars, queue, reported, sent>>
  BY <1>1, <1>4 DEF WorkerTakes, WorkerPosts
<1>5. ~\E remote \in IncomingInterests : OnSyncInterest(remote)
  BY DEF OnSyncInterest
<1>6. ~BatchWindowEnds /\ ~SendInitialInterest /\ ~RetxTimer /\ ~Destroy /\ ~Joined
  BY DEF BatchWindowEnds, SendInitialInterest, RetxTimer, Destroy, Joined, Pool
<1>7. ~(\E on \in BOOLEAN : SetSyncInterestBatching(on)) /\ ~(\E seq : UpdateSeqNo(seq))
  BY DEF SetSyncInterestBatching, UpdateSeqNo
<1>8. ~\E p \in Pool : EnablePool(p) \/ DisablePool(p)
  BY DEF EnablePool, DisablePool
<1> QED BY <1>2, <1>3, <1>4, <1>5, <1>6, <1>7, <1>8 DEF Next, Environment, Publish

\* Once ~SVSyncCore has returned, neither a closure left in the io_context nor
\* a late answer of the validator touches the object, provided no pool was
\* enabled a second time without being disabled: the second call forgets a
\* flag that closures still hold.
THEOREM DestructionFences ==
  ASSUME ~MayReEnable
  PROVE  Spec => FencedAfterDestruction
<1>1. Init => Joining /\ AliveIsEnabled
  BY DEF Init, Joining, AliveIsEnabled, Pool
<1>2. IInv /\ Joining /\ AliveIsEnabled /\ [Next]_vars => Joining' /\ AliveIsEnabled'
  BY NextKeepsJoining, NextKeepsAlive
<1>3. IInv /\ Joining /\ AliveIsEnabled /\ [Next]_vars
        => [face = "destroyed" => UNCHANGED <<objVars, queue, reported, sent>>]_vars
  BY DestroyedStays
<1> QED BY <1>1, <1>2, <1>3, Invariance, PTL DEF Spec, FencedAfterDestruction

--------------------------------------------------------------------------------
(***************************************************************************)
(* A publication is advertised by the Interest sent for it                 *)
(***************************************************************************)

\* With no production pool, no batching and no failing send, the own entry
\* is always advertised, and no vector taken in says more of it.
OwnAdvertised ==
  /\ ~batching /\ ~pubPending /\ ~enabled["production"]
  /\ initialized => vv[Self] = sent[Self]
  /\ recorded # NoVector => recorded[Self] <= sent[Self]
  /\ \A j \in InFlight : j.pool = "processing" /\ j.remote # Undecodable
                           => j.remote[Self] <= sent[Self]

\* What a handler does to the first two parts
AdvertisesOwn ==
  /\ ~pubPending'
  /\ initialized' => vv'[Self] = sent'[Self]
  /\ recorded' # NoVector => recorded'[Self] <= sent'[Self]

\* sendSyncInterest without a production pool expresses the vector at once.
LEMMA SendAdvertises ==
  ASSUME ~enabled["production"], sent \in Vector, NEW v \in Vector, Below(sent, v),
         NEW g, SendSyncInterest(v, g), initialized'
  PROVE  sent'[Self] = v[Self]
<1>1. sent' = Join(sent, v)
  BY DEF SendSyncInterest, CanPost, Express
<1> QED BY <1>1, CoreAssumption DEF Join, Below, Vector

\* An application that publishes from inside the update callback is covered.
LEMMA ReactAdvertises ==
  ASSUME ~MaySendFail, IInv, CoreStep, OwnAdvertised, NEW remote \in Vector,
         remote[Self] <= sent[Self], UNCHANGED initialized,
         React(remote, vv, MergedVector(vv, remote), MergedGeneration(gen, vv, remote))
  PROVE  AdvertisesOwn
<1> DEFINE M == MergedVector(vv, remote)
           G == MergedGeneration(gen, vv, remote)
<1>1. /\ vv \in Vector /\ sent \in Vector /\ recorded \in Vector \cup {NoVector}
      /\ ~batching /\ ~pubPending /\ ~enabled["production"]
      /\ Below(sent, vv)
  BY DEF IInv, TypeOK, OwnAdvertised, SentBelowLocal
<1>2. /\ vv' \in Vector /\ sent' \in Vector /\ Below(vv, vv') /\ Below(sent, sent') /\ Below(sent', vv')
  BY DEF CoreStep
<1>3. M \in Vector /\ M[Self] = vv[Self]
  <2>1. sent[Self] <= vv[Self] /\ sent[Self] \in Nat /\ vv[Self] \in Nat /\ remote[Self] \in Nat
    BY <1>1, CoreAssumption DEF Below, Vector
  <2> QED BY <1>1, <2>1, CoreAssumption DEF MergedVector, Join, Vector
<1> HIDE DEF M, G
<1>4. PICK seq \in CallbackPublishes(M[Self], vv, remote), fails \in SendFailure :
        LET publishes == seq > M[Self]
            sends     == publishes /\ ~batching
            gAfter    == IF publishes THEN G + 1 ELSE G
            vAfter    == Set(M, Self, seq)
        IN  /\ vv' = vAfter
            /\ gen' = gAfter
            /\ pubPending' = (pubPending \/ (publishes /\ batching))
            /\ SendUnlessItThrows(sends, fails, vAfter, gAfter)
            /\ RecordOrSuppress(remote, MyVectorNew(vv, remote),
                                IF sends THEN NoVector ELSE recorded,
                                retxArmed \/ (sends /\ ~fails))
  BY DEF React, M, G
<1>5. seq \in Nat /\ M[Self] \in Nat /\ M[Self] <= seq /\ ~fails
  BY <1>1, <1>3, <1>4, CoreAssumption DEF CallbackPublishes, Vector, SendFailure
<1>6. vv'[Self] = seq
  BY <1>3, <1>4, CoreAssumption DEF Set, Vector
<1>7. initialized' => vv'[Self] = sent'[Self]
  <2>1. CASE seq > M[Self]
    <3>1. SendSyncInterest(vv', gen')
      BY <1>1, <1>4, <1>5, <2>1 DEF SendUnlessItThrows
    <3>2. Below(sent, vv')
      BY <1>1, <1>2, BelowOrder
    <3> QED BY <1>1, <1>2, <3>1, <3>2, SendAdvertises
  <2>2. CASE ~(seq > M[Self])
    <3>1. UNCHANGED sent
      BY <1>4, <2>2 DEF SendUnlessItThrows
    <3>2. seq = vv[Self]
      BY <1>3, <1>5, <2>2
    <3> QED BY <1>6, <3>1, <3>2 DEF OwnAdvertised
  <2> QED BY <2>1, <2>2
<1>8. recorded' # NoVector => recorded'[Self] <= sent'[Self]
  <2>1. sent[Self] \in Nat /\ sent'[Self] \in Nat /\ sent[Self] <= sent'[Self] /\ remote[Self] \in Nat
    BY <1>1, <1>2, CoreAssumption DEF Below, Vector
  <2> DEFINE rec == IF seq > M[Self] /\ ~batching THEN NoVector ELSE recorded
  <2>2. /\ rec # NoVector => rec \in Vector /\ rec[Self] <= sent[Self]
        /\ RecordOrSuppress(remote, MyVectorNew(vv, remote), rec,
                            retxArmed \/ (seq > M[Self] /\ ~batching /\ ~fails))
    BY <1>1, <1>4 DEF OwnAdvertised
  <2> HIDE DEF rec
  <2>3. CASE rec # NoVector /\ recorded' = RecordedWith(rec, remote)
    <3>1. rec[Self] \in Nat /\ recorded'[Self] = IF rec[Self] < remote[Self] THEN remote[Self] ELSE rec[Self]
      BY <2>2, <2>3, CoreAssumption DEF RecordedWith, Join, Vector
    <3> QED BY <2>1, <2>2, <2>3, <3>1
  <2>4. CASE recorded' = NoVector
    BY <2>4
  <2>5. CASE recorded' = remote
    BY <2>1, <2>5
  <2> QED BY <2>2, <2>3, <2>4, <2>5 DEF RecordOrSuppress
<1>9. ~pubPending'
  BY <1>1, <1>4
<1> QED BY <1>7, <1>8, <1>9 DEF AdvertisesOwn

\* A handler that leaves the own entry and the record alone
LEMMA QuietAdvertises ==
  ASSUME OwnAdvertised, UNCHANGED <<vv, recorded, pubPending, sent, initialized>>
  PROVE  AdvertisesOwn
BY DEF OwnAdvertised, AdvertisesOwn

\* onSyncInterestValidatedSerial
LEMMA SerialAdvertises ==
  ASSUME ~MaySendFail, IInv, CoreStep, OwnAdvertised, NEW remote \in Vector \cup {Undecodable},
         remote # Undecodable => remote[Self] <= sent[Self], UNCHANGED initialized,
         ValidatedSerial(remote)
  PROVE  AdvertisesOwn
<1>1. CASE remote = Undecodable
  BY <1>1, QuietAdvertises DEF ValidatedSerial
<1>2. CASE remote # Undecodable
  BY <1>2, ReactAdvertises DEF ValidatedSerial
<1> QED BY <1>1, <1>2

\* onSyncInterestValidated
LEMMA ValidatedAdvertises ==
  ASSUME ~MaySendFail, IInv, CoreStep, OwnAdvertised, NEW remote \in Vector \cup {Undecodable},
         remote # Undecodable => remote[Self] <= sent[Self], UNCHANGED initialized,
         Validated(remote)
  PROVE  AdvertisesOwn
BY QuietAdvertises, SerialAdvertises DEF Validated

\* retxSyncInterest: if it sends nothing, the group knows all of m_vv.
LEMMA RetransmitAdvertises ==
  ASSUME IInv, CoreStep, OwnAdvertised, Retransmit, UNCHANGED <<pubPending, reported, inOrder>>
  PROVE  AdvertisesOwn
<1>1. /\ vv \in Vector /\ sent \in Vector /\ recorded \in Vector \cup {NoVector}
      /\ Below(sent, vv) /\ ~enabled["production"] /\ ~pubPending
  BY DEF IInv, TypeOK, OwnAdvertised, SentBelowLocal
<1>2. UNCHANGED <<vv, gen>> /\ recorded' = NoVector
  BY RetransmitStep DEF Retransmit
<1>3. CASE SendSyncInterest(vv, gen)
  BY <1>1, <1>2, <1>3, SendAdvertises DEF AdvertisesOwn
<1>4. CASE recorded # NoVector /\ ~MyVectorNew(vv, recorded) /\ UNCHANGED sent
  <2>1. /\ recorded \in Vector /\ recorded[Self] \in Nat /\ vv[Self] \in Nat /\ sent[Self] \in Nat
        /\ sent[Self] <= vv[Self]
    BY <1>1, <1>4, CoreAssumption DEF Vector, Below
  <2>2. MergedVector(vv, recorded)[Self] = IF vv[Self] < recorded[Self] THEN recorded[Self] ELSE vv[Self]
    BY CoreAssumption DEF MergedVector, Join
  <2>3. ~(recorded[Self] < MergedVector(vv, recorded)[Self])
    BY <1>4, CoreAssumption DEF MyVectorNew
  <2>4. recorded[Self] <= sent[Self]
    BY <1>4 DEF OwnAdvertised
  <2>5. vv[Self] = sent[Self]
    BY <2>1, <2>2, <2>3, <2>4
  <2> QED BY <1>1, <1>2, <1>4, <2>5 DEF AdvertisesOwn
<1> QED BY <1>2, <1>3, <1>4 DEF Retransmit

\* updateSeqNo sends for the number it sets.
LEMMA UpdateAdvertises ==
  ASSUME ~MaySendFail, IInv, CoreStep, OwnAdvertised,
         NEW seq \in (vv[Self] + 1) .. MaxOwnSeq, UpdateSeqNo(seq)
  PROVE  AdvertisesOwn
<1>1. /\ vv \in Vector /\ sent \in Vector /\ Below(sent, vv) /\ ~batching /\ ~pubPending
      /\ ~enabled["production"] /\ vv' \in Vector /\ Below(vv, vv')
  BY DEF IInv, TypeOK, OwnAdvertised, SentBelowLocal, CoreStep
<1>2. seq > vv[Self]
  BY <1>1, CoreAssumption DEF Vector
<1>3. recorded' = NoVector /\ pubPending' = (pubPending \/ batching)
  BY <1>1, <1>2 DEF UpdateSeqNo
<1>4. SendSyncInterest(vv', gen')
  BY <1>1, <1>2 DEF UpdateSeqNo, SendUnlessItThrows, SendFailure
<1>5. Below(sent, vv')
  BY <1>1, BelowOrder
<1> QED BY <1>1, <1>3, <1>4, <1>5, SendAdvertises DEF AdvertisesOwn

\* Every step keeps the own entry advertised.
LEMMA NextKeepsAdvertised ==
  ASSUME ~MaySendFail, MayEnable \subseteq {"processing"}, IInv, OwnAdvertised, [Next]_vars
  PROVE  OwnAdvertised'
<1>1. /\ CoreStep /\ TypeOK /\ vv \in Vector /\ sent \in Vector /\ sent' \in Vector
      /\ Below(sent, sent') /\ enabled \in [Pool -> BOOLEAN]
  BY NextSteps DEF IInv, TypeOK, CoreStep
<1>2. ~batching /\ ~pubPending /\ ~enabled["production"]
  BY DEF OwnAdvertised
<1>3. \A j \in InFlight' : j.pool = "processing" /\ j.remote # Undecodable
                             => j.remote[Self] <= sent'[Self]
  <2> SUFFICES ASSUME NEW j \in InFlight', j.pool = "processing", j.remote # Undecodable
               PROVE  j.remote[Self] <= sent'[Self]
    OBVIOUS
  <2>1. j \in InFlight \/ FreshJob(j)
    BY FlowCases, HandlerInFlight, WorkersMove, SwitchInFlight
  <2>2. j.remote[Self] <= sent[Self]
    BY <2>1 DEF OwnAdvertised, FreshJob
  <2>3. j \in Job /\ j.remote # NoVector
    BY InFlightJobs, NextSteps, StepKeepsIInv DEF IInv, OwnStreamNotAhead, FrameStep, NewJob
  <2>4. j.remote[Self] \in Nat /\ sent[Self] \in Nat /\ sent'[Self] \in Nat /\ sent[Self] <= sent'[Self]
    BY <1>1, <2>3, CoreAssumption DEF Job, Vector, Below
  <2> QED BY <2>2, <2>4
<1>4. ASSUME UNCHANGED <<batching, enabled>>, AdvertisesOwn
      PROVE  OwnAdvertised'
  BY <1>2, <1>3, <1>4 DEF OwnAdvertised, AdvertisesOwn
<1>5. ASSUME NEW remote \in IncomingInterests, OnSyncInterest(remote)
      PROVE  OwnAdvertised'
  <2>1. UNCHANGED <<initialized, batching, enabled>>
    BY <1>5 DEF OnSyncInterest, poolVars
  <2>2. CASE Validated(remote)
    BY <1>1, <1>4, <2>1, <2>2, IncomingFacts, ValidatedAdvertises
  <2>3. CASE UNCHANGED <<vv, recorded, pubPending, sent>>
    BY <1>4, <2>1, <2>3, QuietAdvertises
  <2> QED BY <1>5, <2>2, <2>3 DEF OnSyncInterest
<1>6. ASSUME NEW remote \in validating, NEW accepts \in BOOLEAN, ValidatorAnswers(remote, accepts)
      PROVE  OwnAdvertised'
  <2>1. UNCHANGED <<initialized, batching, enabled>>
    BY <1>6 DEF ValidatorAnswers, poolVars
  <2>2. CASE Validated(remote)
    <3>1. remote \in Vector \cup {Undecodable} /\ (remote # Undecodable => remote[Self] <= sent[Self])
      BY <1>1 DEF TypeOK, IInv, OwnStreamNotAhead
    <3> QED BY <1>1, <1>4, <2>1, <2>2, <3>1, ValidatedAdvertises
  <2>3. CASE UNCHANGED <<vv, recorded, pubPending, sent>>
    BY <1>4, <2>1, <2>3, QuietAdvertises
  <2> QED BY <1>6, <2>2, <2>3 DEF ValidatorAnswers
<1>7. ~BatchWindowEnds /\ ~\E on \in BOOLEAN : SetSyncInterestBatching(on)
  <2>1. ~BatchWindowEnds
    BY <1>2 DEF BatchWindowEnds
  <2>2. batching = FALSE
    BY <1>1, <1>2 DEF TypeOK
  <2>3. ~SetSyncInterestBatching(FALSE)
    BY <2>2 DEF SetSyncInterestBatching
  <2>4. ~SetSyncInterestBatching(TRUE)
    BY DEF SetSyncInterestBatching
  <2> QED BY <2>1, <2>3, <2>4
<1>8. CASE SendInitialInterest \/ RetxTimer
  <2>1. Retransmit /\ UNCHANGED <<pubPending, reported, inOrder, batching, enabled>>
    BY <1>8 DEF SendInitialInterest, RetxTimer, poolVars
  <2> QED BY <1>1, <1>4, <2>1, RetransmitAdvertises
<1>9. ASSUME NEW seq \in (vv[Self] + 1) .. MaxOwnSeq, UpdateSeqNo(seq)
      PROVE  OwnAdvertised'
  BY <1>1, <1>4, <1>9, UpdateAdvertises DEF UpdateSeqNo, poolVars
<1>10. ASSUME NEW fails, RunPosted(fails)
       PROVE  OwnAdvertised'
  <2> DEFINE job == Head(posted)
  <2>1. UNCHANGED <<initialized, batching, enabled>> /\ posted # <<>>
    BY <1>10 DEF RunPosted, poolVars
  <2>2. posted \in Seq(Job)
    BY <1>1 DEF TypeOK
  <2>3. job \in InFlight
    BY <2>1, <2>2, TailElements, InFlightMember
  <2> HIDE DEF job
  <2>4. job \in Job
    BY <1>1, <2>3, InFlightJobs
  <2>5. CASE job.token \notin alive /\ UNCHANGED <<vv, recorded, pubPending, sent>>
    BY <1>4, <2>1, <2>5, QuietAdvertises
  <2>6. CASE job.pool = "processing" /\ ProcessSyncInterestResult(job)
    <3>1. /\ job.remote \in Vector \cup {Undecodable}
          /\ job.remote # Undecodable => job.remote[Self] <= sent[Self]
          /\ job.gen = gen => job.local = vv
      <4>1. job.remote # NoVector
        BY <2>3, <2>6 DEF IInv, OwnStreamNotAhead
      <4> QED BY <2>3, <2>4, <2>6, <4>1 DEF Job, OwnAdvertised, IInv, SnapshotFresh
    <3>2. CASE ValidatedSerial(job.remote)
      BY <1>1, <1>4, <2>1, <3>1, <3>2, SerialAdvertises
    <3>3. CASE /\ job.remote # Undecodable /\ ~Stale(job)
               /\ React(job.remote, job.local, MergedVector(job.local, job.remote),
                        MergedGeneration(gen, job.local, job.remote))
      BY <1>1, <1>4, <2>1, <3>1, <3>3, ReactAdvertises DEF Stale
    <3> QED BY <2>6, <3>2, <3>3 DEF ProcessSyncInterestResult
  <2>7. CASE ProcessSyncProductionResult(job, fails)
    <3>1. UNCHANGED <<vv, recorded, pubPending>>
      BY <2>7 DEF ProcessSyncProductionResult
    <3>2. /\ vv[Self] \in Nat /\ sent[Self] \in Nat /\ sent'[Self] \in Nat
          /\ sent[Self] <= sent'[Self] /\ sent'[Self] <= vv'[Self]
      BY <1>1, CoreAssumption DEF CoreStep, Below, Vector
    <3>3. AdvertisesOwn
      <4>1. initialized' => vv'[Self] = sent'[Self]
        BY <2>1, <3>1, <3>2 DEF OwnAdvertised
      <4>2. recorded' # NoVector => recorded'[Self] <= sent'[Self]
        <5>1. recorded # NoVector => recorded[Self] \in Nat /\ recorded[Self] <= sent[Self]
          BY <1>1, CoreAssumption DEF TypeOK, OwnAdvertised, Vector
        <5> QED BY <3>1, <3>2, <5>1
      <4> QED BY <1>2, <3>1, <4>1, <4>2 DEF AdvertisesOwn
    <3> QED BY <1>4, <2>1, <3>3
  <2> QED BY <1>10, <2>5, <2>6, <2>7 DEF RunPosted, job
<1>11. ASSUME UNCHANGED <<vv, recorded, pubPending, sent, initialized, batching>>,
              ~enabled'["production"]
       PROVE  OwnAdvertised'
  BY <1>2, <1>3, <1>11 DEF OwnAdvertised
<1>12. ASSUME NEW p \in Pool, EnablePool(p)
       PROVE  OwnAdvertised'
  <2>1. p = "processing" /\ UNCHANGED <<vv, recorded, pubPending, sent, initialized, batching>>
    BY <1>12 DEF EnablePool, objVars
  <2>2. ~enabled'["production"]
    BY <1>1, <1>2, <1>12, <2>1 DEF EnablePool, Pool
  <2> QED BY <1>11, <2>1, <2>2
<1>13. CASE (\E p \in Pool : DisablePool(p)) \/ Destroy \/ Joined
  <2>1. UNCHANGED <<vv, recorded, pubPending, sent, initialized, batching>>
    BY <1>13 DEF DisablePool, Destroy, Joined, objVars
  <2>2. ASSUME NEW p \in Pool, StopPool(p) PROVE ~enabled'["production"]
    BY <1>1, <1>2, <2>2 DEF StopPool, Pool
  <2>3. ~enabled'["production"]
    BY <1>2, <1>13, <2>2 DEF DisablePool, Destroy, Joined, Pool
  <2> QED BY <1>11, <2>1, <2>3
<1>14. ASSUME NEW p \in Pool, NEW w \in Worker, WorkerTakes(p, w) \/ WorkerPosts(p, w)
       PROVE  OwnAdvertised'
  BY <1>2, <1>11, <1>14 DEF WorkerTakes, WorkerPosts, objVars, poolVars
<1>15. CASE UNCHANGED vars
  BY <1>2, <1>11, <1>15 DEF vars
<1> QED BY <1>5, <1>6, <1>7, <1>8, <1>9, <1>10, <1>12, <1>13, <1>14, <1>15
        DEF Next, Environment, Publish

\* Without a production pool, batching or failing sends, the newest own number
\* has been sent as soon as the core is initialized, also when it was published
\* in suppression state or from inside the update callback.
THEOREM PublicationIsAdvertised ==
  ASSUME ~MaySendFail, MayEnable \subseteq {"processing"}
  PROVE  Spec => []PublicationAdvertised
<1>1. Init => OwnAdvertised
  <2> SUFFICES ASSUME Init PROVE OwnAdvertised
    OBVIOUS
  <2>1. \A j : j \notin InFlight
    BY InitNoJobs
  <2> QED BY <2>1 DEF Init, OwnAdvertised, Pool
<1>2. IInv /\ OwnAdvertised /\ [Next]_vars => OwnAdvertised'
  BY NextKeepsAdvertised
<1>3. OwnAdvertised => PublicationAdvertised
  BY DEF OwnAdvertised, PublicationAdvertised
<1> QED BY <1>1, <1>2, <1>3, Invariance, PTL DEF Spec
================================================================================
