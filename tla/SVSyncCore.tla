------------------------------ MODULE SVSyncCore -------------------------------
(***************************************************************************)
(* One participant of a sync group: class SVSyncCore (ndn-svs/core.cpp)    *)
(* with its Face thread, its two worker pools, its timers and the async    *)
(* validator it hands Sync Interests to.                                   *)
(*                                                                         *)
(* The Face/io_context thread runs every handler to completion, so a       *)
(* handler is one action.  The worker threads run beside it: a handler     *)
(* takes a snapshot of m_vv and of m_stateGeneration, a worker computes on *)
(* the snapshot, and the result comes back through the io_context queue    *)
(* when m_vv may have moved on.                                            *)
(***************************************************************************)
EXTENDS StateVector, Sequences, FiniteSets

CONSTANTS
  Self,             \* <<m_id, m_bootstrapTime>>
  Worker,           \* the threads of each SyncWorkerPool
  MaxQueueSize,     \* SyncWorkerPool::m_maxQueueSize
  HasValidator,     \* m_securityOptions.validator is set (asynchronous)
  ExtraInWorker,    \* the production workers call m_getExtraBlocks
  MayMalform,       \* Interests whose state vector does not decode may arrive
  MaySendFail,      \* encoding or signing an own Interest may throw
  MayReEnable,      \* the application may enable a pool that is enabled
  MayEnable,        \* what the application may switch on and off: the pools,
  MayDisable,       \*   "batching", and off: "core" (destroying the object)
  MaxSeq,           \* bound: highest sequence number of another stream
  MaxOwnSeq,        \* bound: highest sequence number this node publishes
  MaxValidating,    \* bound: Interests waiting in the validator
  MaxPosted,        \* bound: worker results waiting while the Face thread runs
  MaxToken,         \* bound: calls that enable a pool
  NoVector,         \* m_recordedVv == nullptr; the remote vector of an own job
  Undecodable,      \* an Interest whose state vector does not decode
  Idle              \* a worker thread that waits for a job

Pool == {"processing", "production"}

ASSUME CoreAssumption ==
  /\ Self \in Stream
  /\ MaxQueueSize \in Nat \ {0}
  /\ MaxSeq \in Nat /\ MaxOwnSeq \in Nat
  /\ MaxValidating \in Nat /\ MaxPosted \in Nat /\ MaxToken \in Nat
  /\ HasValidator \in BOOLEAN /\ ExtraInWorker \in BOOLEAN
  /\ MayMalform \in BOOLEAN /\ MaySendFail \in BOOLEAN /\ MayReEnable \in BOOLEAN
  /\ MayEnable \subseteq Pool \cup {"batching"}
  /\ MayDisable \subseteq Pool \cup {"batching", "core"}
  /\ NoVector \notin Vector /\ Undecodable \notin Vector
  /\ NoVector # Undecodable

VARIABLES
  \* state of the object
  vv,           \* m_vv
  gen,          \* m_stateGeneration
  recorded,     \* m_recordedVv
  initialized,  \* m_initialized
  retxArmed,    \* m_retxEvent is scheduled
  batching,     \* m_syncInterestBatching
  pubPending,   \* m_publicationSyncPending and its event
  enabled,      \* per pool: m_parallelSync* and the pool exists
  token,        \* per pool: identity of the current m_sync*Alive flag
  alive,        \* the *Alive flags that are still true
  \* threads and queues
  face,         \* Face thread: "run", the pool it joins, or "destroyed"
  dtor,         \* the destructor is running
  validating,   \* Interests the validator has not answered
  queue,        \* per pool: m_queue
  run,          \* per pool and worker: the job it computes
  posted,       \* worker results posted to the io_context
  \* history
  heard,        \* join of the vectors accepted from the network
  reported,     \* per stream, the highest number given to m_onUpdate
  inOrder,      \* every reported range began right after the one before
  sent          \* join of the vectors of all expressed Interests

objVars  == <<vv, gen, recorded, initialized, retxArmed, batching, pubPending>>
poolVars == <<enabled, token, alive, face, dtor>>
vars == <<vv, gen, recorded, initialized, retxArmed, batching, pubPending,
          enabled, token, alive, face, dtor, validating, queue, run, posted,
          heard, reported, inOrder, sent>>

\* A SyncProcessingJob or a SyncProductionJob, and the result made from it.
Job == [pool : Pool, remote : Vector \cup {NoVector, Undecodable},
        local : Vector, gen : Nat, token : Nat]

ASSUME IdleAssumption == Idle \notin Job

Init ==
  /\ vv = EmptyVector /\ gen = 0 /\ recorded = NoVector
  /\ initialized = FALSE /\ retxArmed = FALSE
  /\ batching = FALSE /\ pubPending = FALSE
  /\ enabled = [p \in Pool |-> FALSE]
  /\ token = [p \in Pool |-> 0] /\ alive = {}
  /\ face = "run" /\ dtor = FALSE
  /\ validating = {}
  /\ queue = [p \in Pool |-> <<>>]
  /\ run = [p \in Pool |-> [w \in Worker |-> Idle]]
  /\ posted = <<>>
  /\ heard = EmptyVector /\ reported = EmptyVector /\ inOrder = TRUE
  /\ sent = EmptyVector

--------------------------------------------------------------------------------
(***************************************************************************)
(* Sending                                                                 *)
(***************************************************************************)

\* SyncWorkerPool::post succeeds; a full queue makes the caller do the work.
CanPost(p) == enabled[p] /\ Len(queue[p]) < MaxQueueSize

Post(p, remote, local, g) ==
  queue' = [queue EXCEPT ![p] =
    Append(@, [pool |-> p, remote |-> remote, local |-> local,
               gen |-> g, token |-> token[p]])]

\* Faulty variant: the Interest announces a number that is not published yet.
ExpressAhead(v) == sent' = Join(sent, Set(v, Self, v[Self] + 1))

\* m_face.expressInterest with state vector v
Express(v) == sent' = Join(sent, v)

\* sendSyncInterest: v and g are m_vv and m_stateGeneration when it is called
SendSyncInterest(v, g) ==
  \/ ~initialized' /\ UNCHANGED <<queue, sent>>
  \/ initialized' /\ CanPost("production")
     /\ Post("production", NoVector, v, g) /\ UNCHANGED sent
  \/ initialized' /\ ~CanPost("production")
     /\ Express(v) /\ UNCHANGED queue

SendFailure == IF MaySendFail THEN BOOLEAN ELSE {FALSE}

\* Faulty variant: a publication made in suppression state is not advertised.
SendUnlessSuppressed(sends, fails, v, g) ==
  IF sends /\ ~fails /\ recorded = NoVector THEN SendSyncInterest(v, g)
  ELSE UNCHANGED <<queue, sent>>

\* The sending part of updateSeqNo and of sendLocalPublicationSyncInterest:
\* an exception is swallowed, and then the timer is not scheduled again.
SendUnlessItThrows(sends, fails, v, g) ==
  IF sends /\ ~fails THEN SendSyncInterest(v, g) ELSE UNCHANGED <<queue, sent>>

\* Faulty variant: the timer is not scheduled again.
RetransmitOnce ==
  /\ SendSyncInterest(vv, gen)
  /\ recorded' = NoVector
  /\ retxArmed' = FALSE
  /\ UNCHANGED <<vv, gen>>

\* Faulty variant: the recorded vector survives the end of suppression.
RetransmitKeepsRecorded ==
  /\ SendSyncInterest(vv, gen)
  /\ retxArmed' = TRUE
  /\ UNCHANGED <<vv, gen, recorded>>

\* retxSyncInterest(true, 0)
Retransmit ==
  /\ \/ /\ recorded = NoVector
        /\ SendSyncInterest(vv, gen)
        /\ UNCHANGED <<vv, gen>>
     \/ /\ recorded # NoVector
        /\ vv' = MergedVector(vv, recorded)
        /\ gen' = MergedGeneration(gen, vv, recorded)
        /\ IF MyVectorNew(vv, recorded)
           THEN SendSyncInterest(vv', gen')
           ELSE UNCHANGED <<queue, sent>>
  /\ recorded' = NoVector
  /\ retxArmed' = TRUE

--------------------------------------------------------------------------------
(***************************************************************************)
(* Receiving                                                               *)
(***************************************************************************)

\* From recordVector to the end of the handler.  rec and armed are
\* m_recordedVv and the timer as the update callback left them.
RecordOrSuppress(remote, myNew, rec, armed) ==
  \/ /\ rec # NoVector
     /\ recorded' = RecordedWith(rec, remote)
     /\ retxArmed' = armed
  \/ /\ rec = NoVector /\ ~myNew
     /\ recorded' = NoVector
     /\ retxArmed' = TRUE
  \/ /\ rec = NoVector /\ myNew
     /\ recorded' = remote
     /\ retxArmed' \in {TRUE, armed}   \* rescheduled only if that is sooner

\* m_onUpdate(missing)
Report(local, remote) ==
  /\ reported' = [s \in Stream |->
                    IF local[s] < remote[s] THEN remote[s] ELSE reported[s]]
  /\ inOrder' = (inOrder /\ \A m \in MissingData(local, remote) :
                              m.low = reported[m.stream] + 1)

\* What the application may publish from inside m_onUpdate; own is what it
\* has published so far, and stands for "nothing".
CallbackPublishes(own, local, remote) ==
  IF OtherVectorNew(local, remote) THEN own .. MaxOwnSeq ELSE {own}

\* The part of a handler after the vectors are merged: local is the vector
\* the merge was computed against, merged and g what it left in m_vv and
\* m_stateGeneration.
React(remote, local, merged, g) ==
  /\ Report(local, remote)
  /\ \E seq \in CallbackPublishes(merged[Self], local, remote), fails \in SendFailure :
       LET publishes == seq > merged[Self]
           sends     == publishes /\ ~batching
           gAfter    == IF publishes THEN g + 1 ELSE g
           vAfter    == Set(merged, Self, seq)
       IN  /\ vv' = vAfter
           /\ gen' = gAfter
           /\ pubPending' = (pubPending \/ (publishes /\ batching))
           /\ SendUnlessItThrows(sends, fails, vAfter, gAfter)
           /\ RecordOrSuppress(remote, MyVectorNew(local, remote),
                               IF sends THEN NoVector ELSE recorded,
                               retxArmed \/ (sends /\ ~fails))

\* onSyncInterestValidatedSerial
ValidatedSerial(remote) ==
  IF remote = Undecodable
  THEN UNCHANGED <<vv, gen, recorded, retxArmed, pubPending, queue, sent, reported, inOrder>>
  ELSE React(remote, vv, MergedVector(vv, remote), MergedGeneration(gen, vv, remote))

\* onSyncInterestValidated
Validated(remote) ==
  /\ heard' = IF remote = Undecodable THEN heard ELSE Join(heard, remote)
  /\ \/ /\ CanPost("processing")
        /\ Post("processing", remote, vv, gen)
        /\ UNCHANGED <<vv, gen, recorded, retxArmed, pubPending, sent, reported, inOrder>>
     \/ /\ ~CanPost("processing")
        /\ ValidatedSerial(remote)

\* The vectors peers may send: anything about their own streams, and about
\* this one only what it has advertised.
IncomingInterests ==
  { v \in [Stream -> 0 .. MaxSeq] : v[Self] <= sent[Self] }
  \cup (IF MayMalform THEN {Undecodable} ELSE {})

\* onSyncInterest: with a validator the Interest waits for its answer
OnSyncInterest(remote) ==
  /\ face = "run"
  /\ UNCHANGED <<initialized, batching, poolVars, run, posted>>
  /\ \/ /\ HasValidator
        /\ Cardinality(validating) < MaxValidating
        /\ validating' = validating \cup {remote}
        /\ UNCHANGED <<vv, gen, recorded, retxArmed, pubPending, queue,
                       heard, reported, inOrder, sent>>
     \/ /\ ~HasValidator
        /\ Validated(remote)
        /\ UNCHANGED validating

\* The validator's answers: the success and the failure callback.  Both
\* return at once when the destructor has cleared ValidationGate::owner.
ValidatorAnswers(remote, accepts) ==
  /\ remote \in validating
  /\ validating' = validating \ {remote}
  /\ UNCHANGED <<initialized, batching, poolVars, run, posted>>
  /\ \/ /\ face = "run" /\ accepts
        /\ Validated(remote)
     \/ /\ (face = "run" /\ ~accepts) \/ face = "destroyed"
        /\ UNCHANGED <<vv, gen, recorded, retxArmed, pubPending, queue,
                       heard, reported, inOrder, sent>>

--------------------------------------------------------------------------------
(***************************************************************************)
(* Publishing and timers                                                   *)
(***************************************************************************)

\* updateSeqNo(seq): the sequence number is set whatever it was, but only an
\* increase counts as a new generation and is advertised.
UpdateSeqNo(seq) ==
  /\ face = "run"
  /\ LET increases == seq > vv[Self]
         sends     == increases /\ ~batching
         g         == IF increases THEN gen + 1 ELSE gen
         v         == Set(vv, Self, seq)
     IN  /\ vv' = v
         /\ gen' = g
         /\ UNCHANGED initialized
         /\ pubPending' = (pubPending \/ (increases /\ batching))
         /\ recorded' = IF sends THEN NoVector ELSE recorded
         /\ \E fails \in SendFailure :
              /\ SendUnlessItThrows(sends, fails, v, g)
              /\ retxArmed' = (retxArmed \/ (sends /\ ~fails))
  /\ UNCHANGED <<batching, poolVars, validating, run, posted, heard, reported, inOrder>>

\* The event of schedulePublicationSync: sendLocalPublicationSyncInterest
BatchWindowEnds ==
  /\ face = "run" /\ pubPending
  /\ pubPending' = FALSE
  /\ recorded' = NoVector
  /\ UNCHANGED initialized
  /\ \E fails \in SendFailure :
       /\ SendUnlessItThrows(TRUE, fails, vv, gen)
       /\ retxArmed' = (retxArmed \/ ~fails)
  /\ UNCHANGED <<vv, gen, batching, poolVars, validating, run, posted,
                 heard, reported, inOrder>>

\* sendInitialInterest, 100 ms after the prefix is registered
SendInitialInterest ==
  /\ face = "run" /\ ~initialized
  /\ initialized' = TRUE
  /\ Retransmit
  /\ UNCHANGED <<batching, pubPending, poolVars, validating, run, posted,
                 heard, reported, inOrder>>

\* m_retxEvent fires
RetxTimer ==
  /\ face = "run" /\ retxArmed
  /\ UNCHANGED initialized
  /\ Retransmit
  /\ UNCHANGED <<batching, pubPending, poolVars, validating, run, posted,
                 heard, reported, inOrder>>

\* setSyncInterestBatching: switching it off cancels the pending event
SetSyncInterestBatching(on) ==
  /\ face = "run" /\ batching # on
  /\ "batching" \in (IF on THEN MayEnable ELSE MayDisable)
  /\ batching' = on
  /\ pubPending' = (pubPending /\ on)
  /\ UNCHANGED <<vv, gen, recorded, initialized, retxArmed, poolVars, validating,
                 queue, run, posted, heard, reported, inOrder, sent>>

--------------------------------------------------------------------------------
(***************************************************************************)
(* The worker pools                                                        *)
(***************************************************************************)

\* Faulty variant: a stopped pool leaves its queue alone.
WorkerTakesWhileEnabled(p, w) ==
  /\ run[p][w] = Idle /\ queue[p] # <<>> /\ enabled[p]
  /\ run' = [run EXCEPT ![p][w] = Head(queue[p])]
  /\ queue' = [queue EXCEPT ![p] = Tail(@)]
  /\ UNCHANGED <<objVars, poolVars, validating, posted, heard, reported, inOrder, sent>>

\* SyncWorkerPool::run, a free thread takes the first job
WorkerTakes(p, w) ==
  /\ run[p][w] = Idle /\ queue[p] # <<>>
  /\ run' = [run EXCEPT ![p][w] = Head(queue[p])]
  /\ queue' = [queue EXCEPT ![p] = Tail(@)]
  /\ UNCHANGED <<objVars, poolVars, validating, posted, heard, reported, inOrder, sent>>

\* job(): decode and compare, or encode and sign, both on the job's own
\* snapshot; then the result is posted to the io_context.
WorkerPosts(p, w) ==
  /\ run[p][w] # Idle
  /\ face = "run" => Len(posted) < MaxPosted
  /\ posted' = Append(posted, run[p][w])
  /\ run' = [run EXCEPT ![p][w] = Idle]
  /\ UNCHANGED <<objVars, poolVars, validating, queue, heard, reported, inOrder, sent>>

\* Faulty variant: no result is ever recognised as stale.
NeverStale(job) == FALSE

\* The generation has moved on since the job took its snapshot.
Stale(job) == gen # job.gen

\* Faulty variant: a stale result is dropped.
DropStaleResult(job) ==
  \/ /\ Stale(job) \/ job.remote = Undecodable
     /\ UNCHANGED <<vv, gen, recorded, retxArmed, pubPending, queue, sent, reported, inOrder>>
  \/ /\ ~Stale(job) /\ job.remote # Undecodable
     /\ ValidatedSerial(job.remote)

\* Faulty variant: a stale result is merged into the current vector, but the
\* application gets the missing data of the old one.
ReportFromSnapshot(job) ==
  /\ job.remote # Undecodable
  /\ React(job.remote, job.local, MergedVector(vv, job.remote),
           MergedGeneration(gen, vv, job.remote))

\* processSyncInterestResult: a current result replaces m_vv, a stale one is
\* computed again on this thread.
ProcessSyncInterestResult(job) ==
  /\ \/ /\ job.remote = Undecodable \/ Stale(job)
        /\ ValidatedSerial(job.remote)
     \/ /\ job.remote # Undecodable /\ ~Stale(job)
        /\ React(job.remote, job.local, MergedVector(job.local, job.remote),
                 MergedGeneration(gen, job.local, job.remote))

\* processSyncProductionResult: an Interest the worker failed to build is
\* dropped, and so is a stale one unless the worker built its extra blocks.
ProcessSyncProductionResult(job, fails) ==
  /\ \/ fails /\ UNCHANGED sent
     \/ ~fails /\ Stale(job) /\ ~ExtraInWorker /\ UNCHANGED sent
     \/ ~fails /\ (~Stale(job) \/ ExtraInWorker) /\ Express(job.local)
  /\ UNCHANGED <<vv, gen, recorded, retxArmed, pubPending, queue, reported, inOrder>>

\* The io_context runs the next posted closure; it returns at once when the
\* alive flag it captured is false.
RunPosted(fails) ==
  /\ face \in {"run", "destroyed"} /\ posted # <<>>
  /\ posted' = Tail(posted)
  /\ UNCHANGED <<initialized, batching, poolVars, validating, run, heard>>
  /\ LET job == Head(posted) IN
     \/ /\ job.token \notin alive
        /\ UNCHANGED <<vv, gen, recorded, retxArmed, pubPending, queue,
                       reported, inOrder, sent>>
     \/ /\ job.token \in alive /\ job.pool = "processing"
        /\ ProcessSyncInterestResult(job)
     \/ /\ job.token \in alive /\ job.pool = "production"
        /\ ProcessSyncProductionResult(job, fails)

\* std::make_shared<std::atomic<bool>>: a flag no closure has captured yet
NewToken ==
  1 + IF token["processing"] < token["production"]
      THEN token["production"] ELSE token["processing"]

\* setParallelSyncProcessing(true) and setParallelSyncProduction(true): a new
\* alive flag; the pool is created unless there is one.
EnablePool(p) ==
  /\ face = "run" /\ p \in MayEnable
  /\ ~enabled[p] \/ MayReEnable
  /\ NewToken <= MaxToken
  /\ token' = [token EXCEPT ![p] = NewToken]
  /\ alive' = alive \cup {NewToken}
  /\ enabled' = [enabled EXCEPT ![p] = TRUE]
  /\ UNCHANGED <<objVars, face, dtor, validating, queue, run, posted,
                 heard, reported, inOrder, sent>>

\* Faulty variant: the alive flag stays set.
StopPoolKeepsFlag(p) ==
  /\ enabled' = [enabled EXCEPT ![p] = FALSE]
  /\ face' = p
  /\ heard' = IF p = "processing" THEN vv ELSE heard
  /\ UNCHANGED alive

\* The first half of switching a pool off: clear the flags, stop the pool;
\* the Face thread then waits for the workers to drain the queue.  Whatever
\* the processing pool still holds is forgotten.
StopPool(p) ==
  /\ enabled' = [enabled EXCEPT ![p] = FALSE]
  /\ alive' = alive \ {token[p]}
  /\ face' = p
  /\ heard' = IF p = "processing" THEN vv ELSE heard

DisablePool(p) ==
  /\ face = "run" /\ p \in MayDisable /\ enabled[p]
  /\ StopPool(p)
  /\ UNCHANGED <<objVars, token, dtor, validating, queue, run, posted,
                 reported, inOrder, sent>>

\* ~SVSyncCore up to the first join: production before processing
Destroy ==
  /\ face = "run" /\ "core" \in MayDisable
  /\ dtor' = TRUE
  /\ \/ enabled["production"] /\ StopPool("production")
     \/ ~enabled["production"] /\ enabled["processing"] /\ StopPool("processing")
     \/ /\ \A p \in Pool : ~enabled[p]
        /\ face' = "destroyed"
        /\ UNCHANGED <<enabled, alive, heard>>
  /\ UNCHANGED <<objVars, token, validating, queue, run, posted, reported, inOrder, sent>>

\* SyncWorkerPool::shutdown returns: every worker has ended, the queue is
\* drained and the pool is gone.  The destructor goes on to the next pool.
Joined ==
  /\ face \in Pool
  /\ queue[face] = <<>> /\ \A w \in Worker : run[face][w] = Idle
  /\ \/ /\ dtor /\ face = "production" /\ enabled["processing"]
        /\ StopPool("processing")
     \/ /\ ~(dtor /\ face = "production" /\ enabled["processing"])
        /\ face' = IF dtor THEN "destroyed" ELSE "run"
        /\ UNCHANGED <<enabled, alive, heard>>
  /\ UNCHANGED <<objVars, token, dtor, validating, queue, run, posted,
                 reported, inOrder, sent>>

--------------------------------------------------------------------------------
(***************************************************************************)
(* Specifications                                                          *)
(***************************************************************************)

\* Everything but the application's calls of updateSeqNo
Environment ==
  \/ \E remote \in IncomingInterests : OnSyncInterest(remote)
  \/ \E remote \in validating, accepts \in BOOLEAN : ValidatorAnswers(remote, accepts)
  \/ BatchWindowEnds
  \/ SendInitialInterest
  \/ RetxTimer
  \/ \E on \in BOOLEAN : SetSyncInterestBatching(on)
  \/ \E p \in Pool, w \in Worker : WorkerTakes(p, w) \/ WorkerPosts(p, w)
  \/ \E fails \in SendFailure : RunPosted(fails)
  \/ \E p \in Pool : EnablePool(p) \/ DisablePool(p)
  \/ Destroy
  \/ Joined

\* The application's calls of updateSeqNo: publishers pass increasing numbers.
Publish == \E seq \in (vv[Self] + 1) .. MaxOwnSeq : UpdateSeqNo(seq)

Next == Environment \/ Publish

Spec == Init /\ [][Next]_vars

\* The io_context keeps running what is due, the prefix registration
\* succeeds, and the operating system schedules every worker thread.  Posting
\* is strongly fair because only the bound MaxPosted ever disables it, and so
\* is a worker's success: an Interest built again and again is built at last.
Fairness ==
  /\ WF_vars(SendInitialInterest)
  /\ WF_vars(RetxTimer)
  /\ WF_vars(BatchWindowEnds)
  /\ SF_vars(RunPosted(FALSE))
  /\ WF_vars(Joined)
  /\ \A p \in Pool, w \in Worker :
       WF_vars(WorkerTakes(p, w)) /\ SF_vars(WorkerPosts(p, w))

FairSpec == Spec /\ Fairness

--------------------------------------------------------------------------------
(***************************************************************************)
(* Properties                                                              *)
(***************************************************************************)

InFlight ==
  (UNION { { queue[p][i] : i \in 1 .. Len(queue[p]) } : p \in Pool })
  \cup ({ run[p][w] : p \in Pool, w \in Worker } \ {Idle})
  \cup { posted[i] : i \in 1 .. Len(posted) }

\* The shape of the state: what each variable of SVSyncCore may hold.
TypeOK ==
  /\ vv \in Vector /\ gen \in Nat
  /\ recorded \in Vector \cup {NoVector}
  /\ initialized \in BOOLEAN /\ retxArmed \in BOOLEAN
  /\ batching \in BOOLEAN /\ pubPending \in BOOLEAN
  /\ enabled \in [Pool -> BOOLEAN] /\ token \in [Pool -> Nat]
  /\ alive \subseteq Nat
  /\ face \in Pool \cup {"run", "destroyed"} /\ dtor \in BOOLEAN
  /\ validating \subseteq Vector \cup {Undecodable}
  /\ queue \in [Pool -> Seq(Job)]
  /\ run \in [Pool -> [Worker -> Job \cup {Idle}]]
  /\ posted \in Seq(Job)
  /\ heard \in Vector /\ reported \in Vector /\ inOrder \in BOOLEAN
  /\ sent \in Vector

\* processSyncInterestResult overwrites m_vv with a vector computed from an
\* old snapshot.  That is safe only because equal generations mean equal
\* vectors: no step changes m_vv and leaves m_stateGeneration alone.
SnapshotFresh ==
  \A j \in InFlight :
    /\ j.gen <= gen
    /\ j.gen = gen => j.local = vv
    /\ Below(j.local, vv)

\* What was recorded in suppression state is already part of m_vv, so the
\* merge in retxSyncInterest, whose missing data nobody is told about, never
\* learns anything.
RecordedBelowLocal == recorded # NoVector => Below(recorded, vv)

\* Every sequence number of another stream that m_vv covers was reported to
\* the application, exactly once and in order, and its own never was; the
\* stale fallback, the full-queue fallback and the timer's merge included.
ReportedExactlyOnce ==
  /\ inOrder
  /\ reported = [vv EXCEPT ![Self] = 0]

\* A vector accepted from the network is in m_vv or still on its way through
\* the workers: neither a full queue nor a stale snapshot loses it.
NothingHeardIsLost ==
  \A s \in Stream :
    \/ heard[s] <= vv[s]
    \/ \E j \in InFlight : /\ j.pool = "processing" /\ j.token \in alive
                           /\ j.remote # Undecodable
                           /\ heard[s] <= j.remote[s]

\* The remaining parts of the inductive invariant: advertised vectors never
\* run ahead of m_vv, and no vector on its way to a merge knows more of the
\* own stream than m_vv did when the vector was taken in.
SentBelowLocal == Below(sent, vv)

OwnStreamNotAhead ==
  /\ \A r \in validating : r # Undecodable => r[Self] <= sent[Self]
  /\ \A j \in InFlight : j.pool = "processing" =>
       /\ j.remote # NoVector
       /\ j.remote # Undecodable => j.remote[Self] <= j.local[Self]

IInv ==
  /\ TypeOK
  /\ SnapshotFresh
  /\ RecordedBelowLocal
  /\ ReportedExactlyOnce
  /\ SentBelowLocal
  /\ OwnStreamNotAhead

\* Once ~SVSyncCore has returned, neither a closure left in the io_context
\* nor a late answer of the validator touches the object.
FencedAfterDestruction ==
  [][face = "destroyed" => UNCHANGED <<objVars, queue, reported, sent>>]_vars

\* A local publication is advertised by the Interest sent for it: when no
\* batch window is open and the production workers are done, the group has
\* been sent the newest own sequence number.  (The retransmission timer is
\* not needed for it.)
PublicationAdvertised ==
  initialized /\ face = "run" /\ ~pubPending /\ ~(\E j \in InFlight : j.pool = "production")
    => vv[Self] = sent[Self]

\* m_vv never loses an entry and the generation tells every change of it.
StateMonotone == [][Below(vv, vv') /\ (vv' # vv => gen' > gen)]_vars

\* Every publication is advertised in the end, whatever Interests arrive,
\* results go stale and sends fail, until the object is destroyed.
EventuallyAdvertised ==
  \A n \in 1 .. MaxOwnSeq :
    vv[Self] >= n ~> (sent[Self] >= n \/ dtor)

\* Suppression ends: the recorded vector does not silence the node forever.
SuppressionEnds == recorded # NoVector ~> (recorded = NoVector \/ dtor)

\* Switching a pool off or destroying the object does not wait forever.
JoinReturns == face \in Pool ~> face \notin Pool

\* The participant keeps the promise of SyncReplica.  The refinement mapping
\* forgets threads, queues, timers, suppression and the generation.
Replica == INSTANCE SyncReplica WITH vv <- vv, reported <- reported, sent <- sent
ReplicaSpec == Replica!Spec
================================================================================
