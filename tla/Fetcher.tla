-------------------------------- MODULE Fetcher --------------------------------
(***************************************************************************)
(* The windowed Interest queue that fetches publications and mappings:     *)
(* class Fetcher (ndn-svs/fetcher.cpp).  The Face answers a pending        *)
(* Interest once, with Data, a Nack or a timeout, and the validator and    *)
(* the scheduler answer later; all of them run on the Face thread.         *)
(***************************************************************************)
EXTENDS Integers, Sequences, FiniteSets

CONSTANTS
  Request,        \* the calls of expressInterest the application makes
  Retries,        \* per request: the argument nRetries
  ValRetries,     \* m_securityOptions.nRetriesOnValidationFail
  FailCallback,   \* the requests that give a callback for validation failures
  Windows,        \* the arguments of setWindowSize
  InitialWindow,  \* m_windowSize, 10 in the code
  MayDestroy,     \* the Fetcher may be destroyed
  MaxExpressed    \* bound: Interests sent for a request that retries for ever

ASSUME FetcherAssumption ==
  /\ Retries \in [Request -> Int] /\ ValRetries \in Nat
  /\ FailCallback \subseteq Request
  /\ Windows \subseteq Nat /\ InitialWindow \in Nat \ {0}
  /\ MayDestroy \in BOOLEAN /\ MaxExpressed \in Nat

VARIABLES
  queue,       \* m_interestQueue
  pending,     \* m_pendingInterests: the QueuedInterests their closures hold
  validating,  \* QueuedInterests whose Data the validator has not judged
  delayed,     \* QueuedInterests a scheduled event will express again
  window,      \* m_windowSize
  alive,       \* m_alive
  hasValidator,\* m_securityOptions.validator is set
  issued,      \* history: the requests the application has made
  outcome,     \* history: how each request ended for the application
  calls,       \* history: terminal callbacks per request
  expressed    \* history: Interests sent per request

vars == <<queue, pending, validating, delayed, window, alive, hasValidator,
          issued, outcome, calls, expressed>>

\* A QueuedInterest.  A request has one at a time, so it stands for the id.
QueuedInterest == [req : Request, nRetries : Int, nVal : Nat]

Outcome == {"none", "satisfied", "nacked", "timedOut", "invalid", "dropped"}

Init ==
  /\ queue = <<>> /\ pending = {} /\ validating = {} /\ delayed = {}
  /\ window = InitialWindow /\ alive = TRUE /\ hasValidator \in BOOLEAN
  /\ issued = {}
  /\ outcome = [r \in Request |-> "none"]
  /\ calls = [r \in Request |-> 0]
  /\ expressed = [r \in Request |-> 0]

\* m_interestQueue.push and processQueue: with queue q and pending Interests
\* pend, the front of the queue is sent until the window is full.
ProcessQueue(q, pend, win) ==
  LET room  == IF Cardinality(pend) < win THEN win - Cardinality(pend) ELSE 0
      n     == IF Len(q) < room THEN Len(q) ELSE room
      front == { q[i] : i \in 1 .. n }
  IN  /\ queue' = SubSeq(q, n + 1, Len(q))
      /\ pending' = pend \cup front
      /\ expressed' = [r \in Request |->
           expressed[r] + Cardinality({ i \in 1 .. n : q[i].req = r })]

\* The application hears about r for the last time.
Ends(r, how) ==
  /\ outcome' = [outcome EXCEPT ![r] = how]
  /\ calls' = [calls EXCEPT ![r] = IF how = "dropped" THEN @ ELSE @ + 1]

\* expressInterest, called by the application
ExpressInterest(r) ==
  /\ alive /\ r \notin issued
  /\ issued' = issued \cup {r}
  /\ ProcessQueue(Append(queue, [req |-> r, nRetries |-> Retries[r], nVal |-> ValRetries]),
                  pending, window)
  /\ UNCHANGED <<validating, delayed, window, alive, hasValidator, outcome, calls>>

\* Faulty variant: a window of size zero is accepted.
SetAnyWindowSize(n) ==
  /\ alive
  /\ window' = n
  /\ ProcessQueue(queue, pending, window')
  /\ UNCHANGED <<validating, delayed, alive, hasValidator, issued, outcome, calls>>

\* setWindowSize
SetWindowSize(n) ==
  /\ alive
  /\ window' = IF n < 1 THEN 1 ELSE n
  /\ ProcessQueue(queue, pending, window')
  /\ UNCHANGED <<validating, delayed, alive, hasValidator, issued, outcome, calls>>

\* onData: the window moves on before the Data is validated
OnData(qi) ==
  /\ alive /\ qi \in pending
  /\ ProcessQueue(queue, pending \ {qi}, window)
  /\ \/ /\ ~hasValidator
        /\ Ends(qi.req, "satisfied")
        /\ UNCHANGED validating
     \/ /\ hasValidator
        /\ validating' = validating \cup {qi}
        /\ UNCHANGED <<outcome, calls>>
  /\ UNCHANGED <<delayed, window, alive, hasValidator, issued>>

\* Faulty variant: the alive flag is not tested.
ValidatedUnfenced(qi) ==
  /\ qi \in validating
  /\ validating' = validating \ {qi}
  /\ Ends(qi.req, "satisfied")
  /\ UNCHANGED <<queue, pending, delayed, window, alive, hasValidator, issued, expressed>>

\* onDataValidated
Validated(qi) ==
  /\ qi \in validating
  /\ validating' = validating \ {qi}
  /\ \/ alive /\ Ends(qi.req, "satisfied")
     \/ ~alive /\ UNCHANGED <<outcome, calls>>
  /\ UNCHANGED <<queue, pending, delayed, window, alive, hasValidator, issued, expressed>>

\* Faulty variant: without a callback the failure goes unnoticed.
ValidationFailureForgotten(qi) ==
  /\ qi \in validating
  /\ validating' = validating \ {qi}
  /\ delayed' = IF qi.nVal > 0 THEN delayed \cup {qi} ELSE delayed
  /\ UNCHANGED <<queue, pending, window, alive, hasValidator, issued, outcome, calls, expressed>>

\* onValidationFailed: express again later, or give up
ValidationFailed(qi) ==
  /\ qi \in validating
  /\ validating' = validating \ {qi}
  /\ \/ /\ alive /\ qi.nVal > 0
        /\ delayed' = delayed \cup {qi}
        /\ UNCHANGED <<outcome, calls>>
     \/ /\ alive /\ qi.nVal = 0
        /\ Ends(qi.req, IF qi.req \in FailCallback THEN "invalid" ELSE "dropped")
        /\ UNCHANGED delayed
     \/ /\ ~alive
        /\ UNCHANGED <<delayed, outcome, calls>>
  /\ UNCHANGED <<queue, pending, window, alive, hasValidator, issued, expressed>>

\* Faulty variant: the event is not used up.
RetryAgainAndAgain(qi) ==
  /\ alive /\ qi \in delayed
  /\ ProcessQueue(Append(queue, [qi EXCEPT !.nVal = 0]), pending, window)
  /\ UNCHANGED <<validating, delayed, window, alive, hasValidator, issued, outcome, calls>>

\* Faulty variant: the retry starts with a fresh budget of timeouts.
RetryRefilled(qi) ==
  /\ alive /\ qi \in delayed
  /\ delayed' = delayed \ {qi}
  /\ ProcessQueue(Append(queue, [qi EXCEPT !.nVal = @ - 1, !.nRetries = Retries[qi.req]]),
                  pending, window)
  /\ UNCHANGED <<validating, window, alive, hasValidator, issued, outcome, calls>>

\* The scheduled retry: expressInterest(qiNew)
RetryAfterValidation(qi) ==
  /\ alive /\ qi \in delayed
  /\ delayed' = delayed \ {qi}
  /\ ProcessQueue(Append(queue, [qi EXCEPT !.nVal = @ - 1]), pending, window)
  /\ UNCHANGED <<validating, window, alive, hasValidator, issued, outcome, calls>>

\* Faulty variant: a Nack does not let the next Interest out.
OnNackWithoutQueue(qi) ==
  /\ alive /\ qi \in pending
  /\ pending' = pending \ {qi}
  /\ Ends(qi.req, "nacked")
  /\ UNCHANGED <<queue, validating, delayed, window, alive, hasValidator, issued, expressed>>

\* onNack
OnNack(qi) ==
  /\ alive /\ qi \in pending
  /\ ProcessQueue(queue, pending \ {qi}, window)
  /\ Ends(qi.req, "nacked")
  /\ UNCHANGED <<validating, delayed, window, alive, hasValidator, issued>>

\* onTimeout: a retry goes to the end of the queue; a negative nRetries never
\* reaches zero
OnTimeout(qi) ==
  /\ alive /\ qi \in pending
  /\ qi.nRetries < 0 => expressed[qi.req] < MaxExpressed
  /\ \/ /\ qi.nRetries = 0
        /\ ProcessQueue(queue, pending \ {qi}, window)
        /\ Ends(qi.req, "timedOut")
     \/ /\ qi.nRetries # 0
        /\ ProcessQueue(Append(queue, [qi EXCEPT !.nRetries = @ - 1]),
                        pending \ {qi}, window)
        /\ UNCHANGED <<outcome, calls>>
  /\ UNCHANGED <<validating, delayed, window, alive, hasValidator, issued>>

\* ~Fetcher: the scoped handles and the scheduler cancel what they hold; the
\* validator keeps its Data and its closures.
Destroy ==
  /\ alive /\ MayDestroy
  /\ alive' = FALSE
  /\ queue' = <<>> /\ pending' = {} /\ delayed' = {}
  /\ UNCHANGED <<validating, window, hasValidator, issued, outcome, calls, expressed>>

--------------------------------------------------------------------------------
\* The Face answers each pending Interest or lets it time out.
Answered(r) ==
  \E qi \in pending : qi.req = r /\ (OnData(qi) \/ OnNack(qi) \/ OnTimeout(qi))

Judged(r) == \E qi \in validating : qi.req = r /\ (Validated(qi) \/ ValidationFailed(qi))

Retried(r) == \E qi \in delayed : qi.req = r /\ RetryAfterValidation(qi)

Next ==
  \/ \E r \in Request : ExpressInterest(r) \/ Answered(r) \/ Judged(r) \/ Retried(r)
  \/ \E n \in Windows : SetWindowSize(n)
  \/ Destroy

Spec == Init /\ [][Next]_vars

\* Every Interest has a lifetime, the validator answers and the scheduler's
\* events are run.
Fairness ==
  \A r \in Request : WF_vars(Answered(r)) /\ WF_vars(Judged(r)) /\ WF_vars(Retried(r))

FairSpec == Spec /\ Fairness

--------------------------------------------------------------------------------
(***************************************************************************)
(* Properties                                                              *)
(***************************************************************************)

\* The shape of the state of a Fetcher: what each member may hold.
TypeOK ==
  /\ queue \in Seq(QueuedInterest) /\ pending \subseteq QueuedInterest
  /\ validating \subseteq QueuedInterest /\ delayed \subseteq QueuedInterest
  /\ window \in Nat \ {0} /\ alive \in BOOLEAN /\ hasValidator \in BOOLEAN
  /\ issued \subseteq Request
  /\ outcome \in [Request -> Outcome]
  /\ calls \in [Request -> Nat] /\ expressed \in [Request -> Nat]

\* How many QueuedInterests the Fetcher and its helpers hold for r.
Places(r) ==
  Cardinality({ i \in 1 .. Len(queue) : queue[i].req = r })
  + Cardinality({ qi \in pending : qi.req = r })
  + Cardinality({ qi \in validating : qi.req = r })
  + Cardinality({ qi \in delayed : qi.req = r })

\* No retry, window change or late answer loses or doubles a request: it is
\* held in one place until its one terminal callback, and then in none.
NeverLostNorDoubled ==
  alive => \A r \in issued :
    /\ Places(r) = IF outcome[r] = "none" THEN 1 ELSE 0
    /\ calls[r] = IF outcome[r] \in {"none", "dropped"} THEN 0 ELSE 1

\* The window is used and kept: processQueue runs wherever the window gains
\* room, so Interests wait in the queue only while it is full, and nothing is
\* sent beyond the window in force, which may just have been lowered.
WindowUsedAndKept ==
  [][/\ alive' /\ queue' # <<>> => Cardinality(pending') >= window'
     /\ Cardinality(pending') > Cardinality(pending) => Cardinality(pending') <= window']_vars

\* Timeouts and validation failures draw on two budgets that neither refills:
\* a request costs at most one Interest more than their sum.
AttemptsBounded ==
  \A r \in Request : Retries[r] >= 0 => expressed[r] <= 1 + Retries[r] + ValRetries

\* After ~Fetcher the validator's late answers reach nobody.
SilentAfterDestruction == [][~alive => UNCHANGED <<outcome, calls, expressed>>]_vars

\* Every request ends: the application gets one of its callbacks, or, when it
\* gave none for validation failures, the request is dropped.
EveryRequestEnds == \A r \in Request : r \in issued ~> (outcome[r] # "none" \/ ~alive)
================================================================================
