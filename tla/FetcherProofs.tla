----------------------------- MODULE FetcherProofs -----------------------------
(***************************************************************************)
(* Proofs about Fetcher for every set of requests, every budget of         *)
(* retries and every sequence of window sizes.                             *)
(***************************************************************************)
EXTENDS Fetcher, FiniteSetTheorems, TLAPS

--------------------------------------------------------------------------------
(***************************************************************************)
(* The inductive invariant                                                 *)
(***************************************************************************)

Elements(q) == { q[i] : i \in 1 .. Len(q) }

\* All QueuedInterests of a Fetcher with queue q, pending p, in validation v
\* and delayed d.
Held(q, p, v, d) == Elements(q) \cup p \cup v \cup d

\* A request is held at most once.
Apart(q, p, v, d) ==
  /\ \A i, j \in 1 .. Len(q) : q[i].req = q[j].req => i = j
  /\ \A a, b \in Held(q, p, v, d) : a.req = b.req => a = b
  /\ Elements(q) \cap (p \cup v \cup d) = {}
  /\ p \cap (v \cup d) = {} /\ v \cap d = {}

\* The budgets of a that are left, and the Interests already sent for it, are
\* at most what the request began with and extra.
Within(a, exp, extra) ==
  Retries[a.req] >= 0 =>
    /\ a.nRetries >= 0
    /\ exp[a.req] + a.nRetries + a.nVal <= extra + Retries[a.req] + ValRetries

\* The Interest of an element of the queue has not been sent yet, the one of
\* every other QueuedInterest has.
Budgets(q, p, v, d, exp) ==
  /\ \A a \in Elements(q) : Within(a, exp, 0)
  /\ \A a \in p \cup v \cup d : Within(a, exp, 1)
  /\ \A r \in Request : Retries[r] >= 0 => exp[r] <= 1 + Retries[r] + ValRetries

Sound(q, p, v, d, exp) ==
  /\ q \in Seq(QueuedInterest) /\ Held(q, p, v, d) \subseteq QueuedInterest
  /\ exp \in [Request -> Nat]
  /\ IsFiniteSet(p)
  /\ Apart(q, p, v, d)
  /\ Budgets(q, p, v, d, exp)
  /\ \A a \in d : a.nVal > 0

\* The requests that have not ended are the ones that are held, and the
\* terminal callbacks are counted right.
Accounted ==
  LET held == Held(queue, pending, validating, delayed)
  IN  /\ \A a \in held : a.req \in issued /\ outcome[a.req] = "none"
      /\ alive => \A r \in issued : outcome[r] = "none" => \E a \in held : a.req = r
      /\ \A r \in Request : calls[r] = IF outcome[r] \in {"none", "dropped"} THEN 0 ELSE 1
      /\ \A r \in Request \ issued : outcome[r] = "none" /\ expressed[r] = 0

\* Interests wait only while the window is full.
WindowFull == alive /\ queue # <<>> => Cardinality(pending) >= window

IInv ==
  /\ TypeOK
  /\ Sound(queue, pending, validating, delayed, expressed)
  /\ Accounted
  /\ WindowFull

--------------------------------------------------------------------------------
(***************************************************************************)
(* Moving QueuedInterests                                                  *)
(***************************************************************************)

\* Taking QueuedInterests out of the pending, validated and delayed ones.
LEMMA ShrinkSound ==
  ASSUME NEW q, NEW p, NEW v, NEW d, NEW exp, Sound(q, p, v, d, exp),
         NEW p2 \in SUBSET p, NEW v2 \in SUBSET v, NEW d2 \in SUBSET d
  PROVE  Sound(q, p2, v2, d2, exp)
<1>1. Held(q, p2, v2, d2) \subseteq Held(q, p, v, d)
  BY DEF Held
<1>2. IsFiniteSet(p2)
  BY FS_Subset DEF Sound
<1>3. Apart(q, p2, v2, d2)
  BY <1>1 DEF Sound, Apart
<1>4. Budgets(q, p2, v2, d2, exp)
  BY DEF Sound, Budgets
<1> QED BY <1>1, <1>2, <1>3, <1>4 DEF Sound

\* A QueuedInterest that is taken out leaves nothing of its request.
LEMMA TakenIsGone ==
  ASSUME NEW q, NEW p, NEW v, NEW d, NEW exp, Sound(q, p, v, d, exp), NEW a
  PROVE  /\ a \in p => \A b \in Held(q, p \ {a}, v, d) : b.req # a.req
         /\ a \in v => \A b \in Held(q, p, v \ {a}, d) : b.req # a.req
         /\ a \in d => \A b \in Held(q, p, v, d \ {a}) : b.req # a.req
BY DEF Sound, Apart, Held

\* Putting a QueuedInterest with the validator or the scheduler.
LEMMA AddSound ==
  ASSUME NEW q, NEW p, NEW v, NEW d, NEW exp, Sound(q, p, v, d, exp),
         NEW a \in QueuedInterest, Within(a, exp, 1),
         \A b \in Held(q, p, v, d) : b.req # a.req
  PROVE  /\ Sound(q, p, v \cup {a}, d, exp)
         /\ a.nVal > 0 => Sound(q, p, v, d \cup {a}, exp)
<1>1. /\ Held(q, p, v \cup {a}, d) = Held(q, p, v, d) \cup {a}
      /\ Held(q, p, v, d \cup {a}) = Held(q, p, v, d) \cup {a}
  BY DEF Held
<1>2. a \notin Elements(q) \cup p \cup v \cup d
  BY DEF Held
<1>3. Apart(q, p, v \cup {a}, d) /\ Apart(q, p, v, d \cup {a})
  <2>1. \A b, c \in Held(q, p, v, d) \cup {a} : b.req = c.req => b = c
    BY DEF Sound, Apart
  <2>2. /\ Elements(q) \cap (p \cup v \cup d) = {}
        /\ p \cap (v \cup d) = {} /\ v \cap d = {}
        /\ \A i, j \in 1 .. Len(q) : q[i].req = q[j].req => i = j
    BY DEF Sound, Apart
  <2>3. /\ Elements(q) \cap (p \cup (v \cup {a}) \cup d) = {}
        /\ p \cap ((v \cup {a}) \cup d) = {} /\ (v \cup {a}) \cap d = {}
    BY <1>2, <2>2
  <2>4. /\ Elements(q) \cap (p \cup v \cup (d \cup {a})) = {}
        /\ p \cap (v \cup (d \cup {a})) = {} /\ v \cap (d \cup {a}) = {}
    BY <1>2, <2>2
  <2> QED BY <1>1, <2>1, <2>2, <2>3, <2>4 DEF Apart
<1>4. Budgets(q, p, v \cup {a}, d, exp) /\ Budgets(q, p, v, d \cup {a}, exp)
  BY DEF Sound, Budgets
<1> QED BY <1>1, <1>3, <1>4 DEF Sound

\* m_interestQueue.push
LEMMA AppendSound ==
  ASSUME NEW q, NEW p, NEW v, NEW d, NEW exp, Sound(q, p, v, d, exp),
         NEW a \in QueuedInterest, Within(a, exp, 0),
         \A b \in Held(q, p, v, d) : b.req # a.req
  PROVE  /\ Sound(Append(q, a), p, v, d, exp)
         /\ Held(Append(q, a), p, v, d) = Held(q, p, v, d) \cup {a}
<1> DEFINE r == Append(q, a)
<1>1. q \in Seq(QueuedInterest) /\ Len(q) \in Nat
  BY DEF Sound
<1>2. /\ r \in Seq(QueuedInterest) /\ Len(r) = Len(q) + 1 /\ r[Len(q) + 1] = a
      /\ \A i \in 1 .. Len(q) : r[i] = q[i]
  BY <1>1
<1> HIDE DEF r
<1>3. Elements(r) = Elements(q) \cup {a}
  <2>1. \A i \in 1 .. Len(r) : i \in 1 .. Len(q) \/ i = Len(q) + 1
    BY <1>1, <1>2
  <2>2. Len(q) + 1 \in 1 .. Len(r) /\ \A i \in 1 .. Len(q) : i \in 1 .. Len(r)
    BY <1>1, <1>2
  <2> QED BY <1>2, <2>1, <2>2 DEF Elements
<1>4. Held(r, p, v, d) = Held(q, p, v, d) \cup {a}
  BY <1>3 DEF Held
<1>5. \A i, j \in 1 .. Len(r) : r[i].req = r[j].req => i = j
  <2>1. \A i \in 1 .. Len(r) : i \in 1 .. Len(q) \/ i = Len(q) + 1
    BY <1>1, <1>2
  <2>2. \A i \in 1 .. Len(q) : r[i].req # a.req
    BY <1>2 DEF Held, Elements
  <2>3. \A i, j \in 1 .. Len(q) : r[i].req = r[j].req => i = j
    BY <1>2 DEF Sound, Apart
  <2> QED BY <1>2, <2>1, <2>2, <2>3
<1>6. a \notin Elements(q) \cup p \cup v \cup d
  BY DEF Held
<1>7. Apart(r, p, v, d)
  <2>1. \A b, c \in Held(r, p, v, d) : b.req = c.req => b = c
    BY <1>4 DEF Sound, Apart
  <2>2. Elements(r) \cap (p \cup v \cup d) = {}
    BY <1>3, <1>6 DEF Sound, Apart
  <2> QED BY <1>5, <2>1, <2>2 DEF Sound, Apart
<1>8. Budgets(r, p, v, d, exp)
  BY <1>3 DEF Sound, Budgets
<1> QED BY <1>2, <1>4, <1>7, <1>8 DEF Sound, r

\* The front of a queue without repetitions has as many elements as indices.
LEMMA FrontSize ==
  ASSUME NEW q, NEW n \in Nat, n <= Len(q), Len(q) \in Nat,
         \A i, j \in 1 .. Len(q) : q[i].req = q[j].req => i = j
  PROVE  /\ IsFiniteSet({ q[i] : i \in 1 .. n })
         /\ Cardinality({ q[i] : i \in 1 .. n }) = n
<1> DEFINE F == { q[i] : i \in 1 .. n }
           f == [i \in 1 .. n |-> q[i]]
<1>1. IsFiniteSet(1 .. n) /\ Cardinality(1 .. n) = n
  BY FS_Interval
<1>2. \A i, j \in 1 .. n : q[i] = q[j] => i = j
  OBVIOUS
<1>3. f \in Bijection(1 .. n, F)
  BY <1>2 DEF Bijection, Injection, Surjection, IsInjective
<1>4. ExistsBijection(1 .. n, F)
  BY <1>3 DEF ExistsBijection
<1> QED BY <1>1, <1>4, FS_Bijection

\* processQueue: what it sends moves from the queue to the pending Interests;
\* it leaves something in the queue only when the window is full, and it never
\* sends beyond the window.
LEMMA ProcessQueueStep ==
  ASSUME NEW q, NEW p, NEW win \in Nat, NEW v, NEW d,
         Sound(q, p, v, d, expressed), ProcessQueue(q, p, win)
  PROVE  /\ Sound(queue', pending', v, d, expressed')
         /\ Held(queue', pending', v, d) = Held(q, p, v, d)
         /\ queue' # <<>> => Cardinality(pending') >= win
         /\ pending' = p \/ Cardinality(pending') <= win
         /\ \A r \in Request :
              (\A a \in Elements(q) : a.req # r) => expressed'[r] = expressed[r]
<1> DEFINE card == Cardinality(p)
           room == IF card < win THEN win - card ELSE 0
           n    == IF Len(q) < room THEN Len(q) ELSE room
           front == { q[i] : i \in 1 .. n }
<1>1. /\ q \in Seq(QueuedInterest) /\ Len(q) \in Nat /\ IsFiniteSet(p) /\ card \in Nat
      /\ Apart(q, p, v, d) /\ Budgets(q, p, v, d, expressed)
      /\ expressed \in [Request -> Nat]
      /\ Held(q, p, v, d) \subseteq QueuedInterest
  BY FS_CardinalityType DEF Sound
<1>2. /\ queue' = SubSeq(q, n + 1, Len(q))
      /\ pending' = p \cup front
      /\ expressed' = [r \in Request |->
           expressed[r] + Cardinality({ i \in 1 .. n : q[i].req = r })]
  BY DEF ProcessQueue
<1>3. n \in Nat /\ n <= Len(q) /\ (n < Len(q) => card + n >= win) /\ (n = 0 \/ card + n <= win)
  BY <1>1
<1> HIDE DEF n, card
<1>4. \A i, j \in 1 .. Len(q) : q[i].req = q[j].req => i = j
  BY <1>1 DEF Apart
<1>5. /\ queue' \in Seq(QueuedInterest)
      /\ Len(queue') = Len(q) - n
      /\ \A i \in 1 .. Len(q) - n : queue'[i] = q[n + i]
  BY <1>1, <1>2, <1>3
<1>6. front \subseteq Elements(q) /\ \A i \in 1 .. n : i \in 1 .. Len(q)
  BY <1>1, <1>3 DEF Elements
<1>7. \A i \in 1 .. Len(queue') : n + i \in 1 .. Len(q) /\ n + i \notin 1 .. n
  BY <1>1, <1>3, <1>5
<1>8. Elements(queue') = Elements(q) \ front
  <2>1. \A a \in Elements(queue') : a \in Elements(q) /\ a \notin front
    <3> SUFFICES ASSUME NEW i \in 1 .. Len(queue')
                 PROVE  queue'[i] \in Elements(q) /\ queue'[i] \notin front
      BY DEF Elements
    <3>1. queue'[i] = q[n + i]
      BY <1>5
    <3> QED BY <1>4, <1>6, <1>7, <3>1 DEF Elements
  <2>2. ASSUME NEW a \in Elements(q), a \notin front
        PROVE  a \in Elements(queue')
    <3>1. PICK j \in 1 .. Len(q) : a = q[j]
      BY DEF Elements
    <3>2. j \notin 1 .. n
      BY <2>2, <3>1
    <3>3. j - n \in 1 .. Len(queue') /\ j = n + (j - n)
      BY <1>1, <1>3, <1>5, <3>2
    <3>4. queue'[j - n] = a
      BY <1>5, <3>1, <3>3
    <3> QED BY <3>3, <3>4 DEF Elements
  <2> QED BY <2>1, <2>2
<1>9. Held(queue', pending', v, d) = Held(q, p, v, d)
  BY <1>2, <1>6, <1>8 DEF Held
<1>10. Apart(queue', pending', v, d)
  <2>1. \A i, j \in 1 .. Len(queue') : queue'[i].req = queue'[j].req => i = j
    <3> SUFFICES ASSUME NEW i \in 1 .. Len(queue'), NEW j \in 1 .. Len(queue'),
                        queue'[i].req = queue'[j].req
                 PROVE  i = j
      OBVIOUS
    <3>1. queue'[i] = q[n + i] /\ queue'[j] = q[n + j]
      BY <1>5
    <3>2. n + i = n + j
      BY <1>4, <1>7, <3>1
    <3> QED BY <1>3, <3>2
  <2>2. /\ Elements(queue') \cap (pending' \cup v \cup d) = {}
        /\ pending' \cap (v \cup d) = {} /\ v \cap d = {}
    BY <1>1, <1>2, <1>6, <1>8 DEF Apart
  <2>3. \A a, b \in Held(queue', pending', v, d) : a.req = b.req => a = b
    BY <1>1, <1>9 DEF Apart
  <2> QED BY <2>1, <2>2, <2>3 DEF Apart
<1>11. IsFiniteSet(pending') /\ Cardinality(pending') = card + n
  <2>1. IsFiniteSet(front) /\ Cardinality(front) = n
    BY <1>1, <1>3, <1>4, FrontSize
  <2>2. p \cap front = {}
    BY <1>1, <1>6 DEF Apart
  <2>3. Cardinality(p \cap front) = 0
    BY <2>2, FS_EmptySet
  <2> HIDE DEF front
  <2>4. /\ IsFiniteSet(p \cup front)
        /\ Cardinality(p \cup front) =
             Cardinality(p) + Cardinality(front) - Cardinality(p \cap front)
    BY <1>1, <2>1, FS_Union
  <2> QED BY <1>1, <1>2, <1>3, <2>1, <2>3, <2>4 DEF card
<1>12. ASSUME NEW r \in Request
       PROVE  /\ expressed'[r] \in Nat
              /\ expressed'[r] = expressed[r] + IF \E a \in front : a.req = r THEN 1 ELSE 0
  <2> DEFINE I == { i \in 1 .. n : q[i].req = r }
  <2>1. CASE \E a \in front : a.req = r
    <3>1. PICK i \in 1 .. n : q[i].req = r
      BY <2>1
    <3>2. I = {i}
      BY <1>4, <1>6, <3>1
    <3>3. Cardinality(I) = 1
      BY <3>2, FS_Singleton
    <3> QED BY <1>1, <1>2, <2>1, <3>3
  <2>2. CASE ~ \E a \in front : a.req = r
    <3>1. I = {}
      BY <2>2
    <3> QED BY <1>1, <1>2, <2>2, <3>1, FS_EmptySet
  <2> QED BY <2>1, <2>2
<1>13. expressed' \in [Request -> Nat]
  BY <1>2, <1>12
<1>14. Held(q, p, v, d) \subseteq QueuedInterest /\ \A a \in Held(q, p, v, d) : a.req \in Request
  BY <1>1 DEF QueuedInterest
<1> HIDE DEF front
<1>15. Budgets(queue', pending', v, d, expressed')
  <2> USE FetcherAssumption
  <2>1. ASSUME NEW a \in Held(q, p, v, d), a \notin front
        PROVE  expressed'[a.req] = expressed[a.req]
    <3>1. \A b \in front : b.req # a.req
      BY <1>1, <1>6, <2>1 DEF Apart, Held
    <3> QED BY <1>12, <1>14, <3>1, <1>1
  <2>2. ASSUME NEW a \in front
        PROVE  Within(a, expressed', 1)
    <3>1. a \in Elements(q) /\ a \in QueuedInterest /\ Within(a, expressed, 0) /\ a.req \in Request
      BY <1>1, <1>6, <1>14 DEF Budgets, Held
    <3>2. expressed'[a.req] = expressed[a.req] + 1 /\ expressed[a.req] \in Nat
      BY <1>1, <1>12, <3>1
    <3> QED BY <3>1, <3>2 DEF Within, QueuedInterest
  <2>3. \A a \in Elements(queue') : Within(a, expressed', 0)
    BY <1>1, <1>8, <2>1 DEF Budgets, Within, Held
  <2>4. \A a \in p \cup v \cup d : Within(a, expressed', 1)
    <3>1. \A a \in p \cup v \cup d : a \in Held(q, p, v, d) /\ a \notin front
      BY <1>1, <1>6 DEF Held, Apart
    <3> QED BY <1>1, <2>1, <3>1 DEF Budgets, Within
  <2>5. ASSUME NEW r \in Request, Retries[r] >= 0
        PROVE  expressed'[r] <= 1 + Retries[r] + ValRetries
    <3>1. CASE \E a \in front : a.req = r
      <4>1. PICK a \in front : a.req = r
        BY <3>1
      <4>2. a \in QueuedInterest /\ Within(a, expressed', 1)
        BY <1>6, <1>14, <2>2 DEF Held
      <4> QED BY <1>12, <2>5, <4>1, <4>2 DEF Within, QueuedInterest
    <3>2. CASE ~ \E a \in front : a.req = r
      BY <1>1, <1>12, <2>5, <3>2 DEF Budgets
    <3> QED BY <3>1, <3>2
  <2> QED BY <1>2, <2>2, <2>3, <2>4, <2>5 DEF Budgets
<1>16. Sound(queue', pending', v, d, expressed')
  BY <1>1, <1>5, <1>9, <1>10, <1>11, <1>13, <1>15 DEF Sound
<1>17. queue' # <<>> => Cardinality(pending') >= win
  BY <1>1, <1>3, <1>5, <1>11
<1>18. pending' = p \/ Cardinality(pending') <= win
  BY <1>2, <1>3, <1>11 DEF front
<1>19. \A r \in Request : (\A a \in Elements(q) : a.req # r) => expressed'[r] = expressed[r]
  BY <1>1, <1>6, <1>12
<1> QED BY <1>9, <1>16, <1>17, <1>18, <1>19

--------------------------------------------------------------------------------
(***************************************************************************)
(* The steps                                                               *)
(***************************************************************************)

AllHeld == Held(queue, pending, validating, delayed)

HeldReqs == { a.req : a \in AllHeld }

\* What a step keeps: the invariant, and that nothing is sent beyond the
\* window.
StepKeeps == IInv' /\ (pending' \subseteq pending \/ Cardinality(pending') <= window')

\* The types of what is held follow from Sound.
LEMMA TypesOfHeld ==
  ASSUME NEW q, NEW p, NEW v, NEW d, NEW exp, Sound(q, p, v, d, exp)
  PROVE  /\ q \in Seq(QueuedInterest) /\ exp \in [Request -> Nat]
         /\ p \subseteq QueuedInterest /\ v \subseteq QueuedInterest
         /\ d \subseteq QueuedInterest
BY DEF Sound, Held

\* A step that ends no request: the same requests are held, and no Interest
\* is sent for one that was not issued.
LEMMA NothingEnds ==
  ASSUME IInv, UNCHANGED <<issued, outcome, calls>>,
         alive' => alive,
         alive' => HeldReqs \subseteq HeldReqs', HeldReqs' \subseteq HeldReqs,
         \A r \in Request \ issued : expressed'[r] = expressed[r]
  PROVE  Accounted'
BY DEF IInv, Accounted, HeldReqs, AllHeld

\* A step that ends the held request r.
LEMMA OneEnds ==
  ASSUME IInv, NEW r \in HeldReqs, NEW how \in Outcome \ {"none"}, Ends(r, how),
         UNCHANGED <<issued, alive>>,
         HeldReqs' = HeldReqs \ {r},
         \A s \in Request \ issued : expressed'[s] = expressed[s]
  PROVE  Accounted' /\ outcome' \in [Request -> Outcome] /\ calls' \in [Request -> Nat]
<1>1. /\ r \in issued /\ outcome[r] = "none" /\ r \in Request /\ issued \subseteq Request
      /\ outcome \in [Request -> Outcome] /\ calls \in [Request -> Nat]
  BY DEF IInv, Accounted, HeldReqs, AllHeld, TypeOK
<1>2. /\ outcome' = [outcome EXCEPT ![r] = how]
      /\ calls' = [calls EXCEPT ![r] = IF how = "dropped" THEN calls[r] ELSE calls[r] + 1]
  BY DEF Ends
<1>3. \A s \in Request : s # r => outcome'[s] = outcome[s] /\ calls'[s] = calls[s]
  BY <1>1, <1>2
<1>4. outcome'[r] = how /\ calls'[r] = IF how = "dropped" THEN 0 ELSE 1
  BY <1>1, <1>2 DEF IInv, Accounted
<1>5. outcome' \in [Request -> Outcome] /\ calls' \in [Request -> Nat]
  BY <1>1, <1>2
<1>6. \A a \in AllHeld' : a.req \in issued' /\ outcome'[a.req] = "none"
  <2> SUFFICES ASSUME NEW a \in AllHeld' PROVE a.req \in issued /\ outcome'[a.req] = "none"
    OBVIOUS
  <2>1. a.req \in HeldReqs /\ a.req # r
    BY DEF HeldReqs
  <2>2. a.req \in issued /\ outcome[a.req] = "none"
    BY <2>1 DEF IInv, Accounted, HeldReqs, AllHeld
  <2> QED BY <1>1, <1>3, <2>1, <2>2
<1>7. alive' => \A s \in issued' : outcome'[s] = "none" => \E a \in AllHeld' : a.req = s
  <2> SUFFICES ASSUME alive, NEW s \in issued, outcome'[s] = "none"
               PROVE  s \in HeldReqs'
    BY DEF HeldReqs
  <2>1. s # r /\ outcome[s] = "none"
    BY <1>1, <1>3, <1>4
  <2>2. s \in HeldReqs
    BY <2>1 DEF IInv, Accounted, HeldReqs, AllHeld
  <2> QED BY <2>1, <2>2
<1>8. \A s \in Request : calls'[s] = IF outcome'[s] \in {"none", "dropped"} THEN 0 ELSE 1
  BY <1>3, <1>4 DEF IInv, Accounted
<1>9. \A s \in Request \ issued' : outcome'[s] = "none" /\ expressed'[s] = 0
  BY <1>1, <1>3 DEF IInv, Accounted
<1> QED BY <1>5, <1>6, <1>7, <1>8, <1>9 DEF Accounted, AllHeld

\* A step that calls processQueue, with queue q and pending Interests p.
LEMMA ProcessStep ==
  ASSUME IInv, NEW q, NEW p, ProcessQueue(q, p, window'),
         window' \in Nat \ {0}, UNCHANGED <<alive, hasValidator>>,
         Sound(q, p, validating', delayed', expressed),
         p \subseteq pending,
         issued' \subseteq Request,
         outcome' \in [Request -> Outcome], calls' \in [Request -> Nat],
         Accounted'
  PROVE  StepKeeps
<1>1. Sound(queue', pending', validating', delayed', expressed')
  BY ProcessQueueStep
<1>2. TypeOK'
  BY <1>1, TypesOfHeld DEF IInv, TypeOK
<1>3. WindowFull'
  BY ProcessQueueStep DEF WindowFull
<1>4. pending' \subseteq pending \/ Cardinality(pending') <= window'
  BY ProcessQueueStep
<1> QED BY <1>1, <1>2, <1>3, <1>4 DEF IInv, StepKeeps

\* What is held after processQueue, and that it sends nothing for a request
\* that is not in the queue.
LEMMA ProcessHolds ==
  ASSUME NEW q, NEW p, ProcessQueue(q, p, window'), window' \in Nat \ {0},
         Sound(q, p, validating', delayed', expressed)
  PROVE  /\ AllHeld' = Held(q, p, validating', delayed')
         /\ \A r \in Request : (\A a \in Held(q, p, validating', delayed') : a.req # r)
              => expressed'[r] = expressed[r]
BY ProcessQueueStep DEF AllHeld, Held

\* Facts about a held QueuedInterest.
LEMMA HeldFacts ==
  ASSUME IInv, NEW a \in AllHeld
  PROVE  /\ a \in QueuedInterest /\ a.req \in HeldReqs /\ a.req \in Request
         /\ a.req \in issued /\ outcome[a.req] = "none"
BY DEF IInv, Sound, Accounted, AllHeld, HeldReqs, QueuedInterest

\* expressInterest
LEMMA ExpressInterestStep ==
  ASSUME IInv, NEW r \in Request, ExpressInterest(r)
  PROVE  StepKeeps
<1> DEFINE a == [req |-> r, nRetries |-> Retries[r], nVal |-> ValRetries]
           q == Append(queue, a)
<1>1. /\ alive /\ r \notin issued /\ issued' = issued \cup {r}
      /\ ProcessQueue(q, pending, window)
      /\ UNCHANGED <<validating, delayed, window, alive, hasValidator, outcome, calls>>
  BY DEF ExpressInterest
<1>2. a \in QueuedInterest /\ a.req = r
  BY FetcherAssumption DEF QueuedInterest
<1>3. Within(a, expressed, 0)
  <2>1. expressed[r] = 0
    BY <1>1 DEF IInv, Accounted
  <2> QED BY <2>1, FetcherAssumption DEF Within
<1> HIDE DEF a
<1>4. \A b \in AllHeld : b.req # a.req
  BY <1>1, <1>2, HeldFacts
<1>5. /\ Sound(q, pending, validating, delayed, expressed)
      /\ Held(q, pending, validating, delayed) = AllHeld \cup {a}
  BY <1>2, <1>3, <1>4, AppendSound DEF IInv, AllHeld
<1> HIDE DEF q
<1>6. /\ window' \in Nat \ {0} /\ ProcessQueue(q, pending, window')
      /\ issued' \subseteq Request
      /\ outcome' \in [Request -> Outcome] /\ calls' \in [Request -> Nat]
  BY <1>1 DEF IInv, TypeOK
<1>7. /\ AllHeld' = AllHeld \cup {a}
      /\ \A s \in Request \ issued' : expressed'[s] = expressed[s]
  BY <1>1, <1>2, <1>5, <1>6, ProcessHolds, HeldFacts
<1>8. Accounted'
  <2>1. \A b \in AllHeld' : b.req \in issued' /\ outcome'[b.req] = "none"
    <3>1. outcome[r] = "none"
      BY <1>1 DEF IInv, Accounted
    <3> QED BY <1>1, <1>2, <1>7, <3>1, HeldFacts
  <2>2. \A t \in issued' : outcome'[t] = "none" => \E b \in AllHeld' : b.req = t
    BY <1>1, <1>2, <1>7 DEF IInv, Accounted, AllHeld
  <2> QED BY <1>1, <1>7, <2>1, <2>2 DEF IInv, Accounted, AllHeld
<1> QED BY <1>1, <1>5, <1>6, <1>8, ProcessStep

\* setWindowSize
LEMMA SetWindowSizeStep ==
  ASSUME IInv, NEW n \in Windows, SetWindowSize(n)
  PROVE  StepKeeps
<1>1. /\ ProcessQueue(queue, pending, window')
      /\ UNCHANGED <<validating, delayed, alive, hasValidator, issued, outcome, calls>>
      /\ window' = IF n < 1 THEN 1 ELSE n
  BY DEF SetWindowSize
<1>2. window' \in Nat \ {0}
  BY <1>1, FetcherAssumption
<1>3. Sound(queue, pending, validating', delayed', expressed)
  BY <1>1 DEF IInv
<1>4. AllHeld' = AllHeld /\ \A s \in Request \ issued : expressed'[s] = expressed[s]
  BY <1>1, <1>2, <1>3, ProcessHolds, HeldFacts DEF AllHeld
<1>5. Accounted'
  BY <1>1, <1>4, NothingEnds DEF HeldReqs
<1> QED BY <1>1, <1>2, <1>3, <1>5, ProcessStep DEF IInv, TypeOK

\* A pending Interest that is answered leaves the others as they were.
LEMMA PendingTaken ==
  ASSUME IInv, NEW a \in pending
  PROVE  /\ Sound(queue, pending \ {a}, validating, delayed, expressed)
         /\ \A b \in Held(queue, pending \ {a}, validating, delayed) : b.req # a.req
         /\ AllHeld = Held(queue, pending \ {a}, validating, delayed) \cup {a}
         /\ a \in AllHeld /\ Within(a, expressed, 1)
<1>1. Sound(queue, pending, validating, delayed, expressed)
  BY DEF IInv
<1>2. Sound(queue, pending \ {a}, validating, delayed, expressed)
  BY <1>1, ShrinkSound
<1> QED BY <1>1, <1>2, TakenIsGone DEF AllHeld, Held, Sound, Budgets

\* The end of a pending request: onNack, onTimeout without retries, onData
\* without a validator.
LEMMA PendingEnds ==
  ASSUME IInv, NEW a \in pending, NEW how \in Outcome \ {"none"},
         ProcessQueue(queue, pending \ {a}, window), Ends(a.req, how),
         UNCHANGED <<validating, delayed, window, alive, hasValidator, issued>>
  PROVE  StepKeeps
<1> DEFINE p == pending \ {a}
<1>1. /\ Sound(queue, p, validating', delayed', expressed)
      /\ AllHeld = Held(queue, p, validating', delayed') \cup {a} /\ a \in AllHeld
      /\ \A b \in Held(queue, p, validating', delayed') : b.req # a.req
  BY PendingTaken
<1>2. window' \in Nat \ {0} /\ ProcessQueue(queue, p, window')
  BY DEF IInv, TypeOK
<1> HIDE DEF p
<1>3. /\ AllHeld' = Held(queue, p, validating', delayed')
      /\ \A s \in Request \ issued : expressed'[s] = expressed[s]
  BY <1>1, <1>2, ProcessHolds, HeldFacts
<1>4. HeldReqs' = HeldReqs \ {a.req} /\ a.req \in HeldReqs
  BY <1>1, <1>3 DEF HeldReqs
<1>5. Accounted' /\ outcome' \in [Request -> Outcome] /\ calls' \in [Request -> Nat]
  BY <1>3, <1>4, OneEnds
<1>6. p \subseteq pending /\ issued' \subseteq Request
  BY DEF IInv, TypeOK, p
<1> QED BY <1>1, <1>2, <1>5, <1>6, ProcessStep

\* onData
LEMMA OnDataStep ==
  ASSUME IInv, NEW a, OnData(a)
  PROVE  StepKeeps
<1>1. CASE ~hasValidator /\ Ends(a.req, "satisfied") /\ UNCHANGED validating
  BY <1>1, PendingEnds DEF OnData, Outcome
<1>2. CASE hasValidator /\ validating' = validating \cup {a} /\ UNCHANGED <<outcome, calls>>
  <2> DEFINE p == pending \ {a}
  <2>1. /\ a \in pending /\ ProcessQueue(queue, p, window)
        /\ UNCHANGED <<delayed, window, alive, hasValidator, issued>>
    BY DEF OnData
  <2>2. a \in AllHeld /\ AllHeld = Held(queue, p, validating, delayed) \cup {a}
    BY <2>1, PendingTaken
  <2>3. Sound(queue, p, validating \cup {a}, delayed, expressed)
    BY <2>1, <2>2, PendingTaken, AddSound, HeldFacts
  <2>4. Held(queue, p, validating \cup {a}, delayed) = AllHeld
    BY <2>2 DEF Held
  <2>5. window' \in Nat \ {0} /\ ProcessQueue(queue, p, window')
    BY <2>1 DEF IInv, TypeOK
  <2> HIDE DEF p
  <2>6. AllHeld' = AllHeld /\ \A s \in Request \ issued : expressed'[s] = expressed[s]
    BY <1>2, <2>1, <2>3, <2>4, <2>5, ProcessHolds, HeldFacts
  <2>7. Accounted'
    BY <1>2, <2>1, <2>6, NothingEnds DEF HeldReqs
  <2> QED BY <1>2, <2>1, <2>3, <2>5, <2>7, ProcessStep DEF IInv, TypeOK, p
<1> QED BY <1>1, <1>2 DEF OnData

\* onNack
LEMMA OnNackStep ==
  ASSUME IInv, NEW a, OnNack(a)
  PROVE  StepKeeps
BY PendingEnds DEF OnNack, Outcome

\* A QueuedInterest a is taken out of the pending or the delayed ones and
\* replaced by b at the end of the queue: onTimeout with retries left, and the
\* retry after a validation failure.
LEMMA ReplacedStep ==
  ASSUME IInv, NEW a \in AllHeld, NEW b \in QueuedInterest, b.req = a.req,
         NEW p \in SUBSET pending, NEW d \in SUBSET delayed,
         Sound(queue, p, validating, d, expressed), Within(b, expressed, 0),
         AllHeld = Held(queue, p, validating, d) \cup {a},
         \A c \in Held(queue, p, validating, d) : c.req # a.req,
         ProcessQueue(Append(queue, b), p, window), delayed' = d,
         UNCHANGED <<validating, window, alive, hasValidator, issued, outcome, calls>>
  PROVE  StepKeeps
<1> DEFINE q == Append(queue, b)
<1>1. /\ Sound(q, p, validating', delayed', expressed)
      /\ Held(q, p, validating', delayed') = Held(queue, p, validating, d) \cup {b}
  BY AppendSound
<1>2. window' \in Nat \ {0} /\ ProcessQueue(q, p, window')
  BY DEF IInv, TypeOK
<1> HIDE DEF q
<1>3. /\ AllHeld' = Held(queue, p, validating, d) \cup {b}
      /\ \A s \in Request \ issued : expressed'[s] = expressed[s]
  BY <1>1, <1>2, ProcessHolds, HeldFacts
<1>4. HeldReqs' = HeldReqs
  BY <1>3 DEF HeldReqs
<1>5. Accounted'
  BY <1>3, <1>4, NothingEnds
<1>6. /\ issued' \subseteq Request
      /\ outcome' \in [Request -> Outcome] /\ calls' \in [Request -> Nat]
  BY DEF IInv, TypeOK
<1> QED BY <1>1, <1>2, <1>5, <1>6, ProcessStep

\* onTimeout
LEMMA OnTimeoutStep ==
  ASSUME IInv, NEW a, OnTimeout(a)
  PROVE  StepKeeps
<1>1. /\ a \in pending
      /\ UNCHANGED <<validating, delayed, window, alive, hasValidator, issued>>
  BY DEF OnTimeout
<1>2. CASE /\ a.nRetries = 0 /\ ProcessQueue(queue, pending \ {a}, window)
           /\ Ends(a.req, "timedOut")
  BY <1>1, <1>2, PendingEnds DEF Outcome
<1>3. CASE /\ a.nRetries # 0
           /\ ProcessQueue(Append(queue, [a EXCEPT !.nRetries = @ - 1]), pending \ {a}, window)
           /\ UNCHANGED <<outcome, calls>>
  <2> DEFINE b == [a EXCEPT !.nRetries = @ - 1]
  <2>1. a \in AllHeld /\ a \in QueuedInterest /\ Within(a, expressed, 1) /\ a.req \in Request
    BY <1>1, PendingTaken, HeldFacts
  <2>2. /\ b \in QueuedInterest /\ b.req = a.req
        /\ b.nRetries = a.nRetries - 1 /\ b.nVal = a.nVal
    BY <2>1 DEF QueuedInterest
  <2>3. expressed[a.req] \in Nat
    BY <2>1 DEF IInv, TypeOK
  <2>4. Within(b, expressed, 0)
    <3> HIDE DEF b
    <3> QED BY <1>3, <2>1, <2>2, <2>3, FetcherAssumption DEF Within, QueuedInterest
  <2> HIDE DEF b
  <2>5. ProcessQueue(Append(queue, b), pending \ {a}, window)
    BY <1>3 DEF b
  <2>6. /\ Sound(queue, pending \ {a}, validating, delayed, expressed)
        /\ \A c \in Held(queue, pending \ {a}, validating, delayed) : c.req # a.req
        /\ AllHeld = Held(queue, pending \ {a}, validating, delayed) \cup {a}
    BY <1>1, PendingTaken
  <2> QED BY <1>1, <1>3, <2>1, <2>2, <2>4, <2>5, <2>6, ReplacedStep
<1> QED BY <1>2, <1>3 DEF OnTimeout

\* The scheduled retry after a validation failure.
LEMMA RetryAfterValidationStep ==
  ASSUME IInv, NEW a, RetryAfterValidation(a)
  PROVE  StepKeeps
<1> DEFINE b == [a EXCEPT !.nVal = @ - 1]
           d == delayed \ {a}
<1>1. /\ a \in delayed /\ delayed' = d /\ ProcessQueue(Append(queue, b), pending, window)
      /\ UNCHANGED <<validating, window, alive, hasValidator, issued, outcome, calls>>
  BY DEF RetryAfterValidation
<1>2. a \in AllHeld /\ a \in QueuedInterest /\ a.req \in Request
  BY <1>1, HeldFacts DEF AllHeld, Held
<1>3. a.nVal > 0 /\ Within(a, expressed, 1) /\ expressed[a.req] \in Nat
  BY <1>1, <1>2 DEF IInv, Sound, Budgets, TypeOK
<1>4. /\ b \in QueuedInterest /\ b.req = a.req
      /\ b.nRetries = a.nRetries /\ b.nVal = a.nVal - 1
  BY <1>2, <1>3 DEF QueuedInterest
<1> HIDE DEF b
<1>5. Within(b, expressed, 0)
  BY <1>2, <1>3, <1>4, FetcherAssumption DEF Within, QueuedInterest
<1>6. /\ Sound(queue, pending, validating, d, expressed)
      /\ \A c \in Held(queue, pending, validating, d) : c.req # a.req
      /\ AllHeld = Held(queue, pending, validating, d) \cup {a}
  BY <1>1, ShrinkSound, TakenIsGone DEF IInv, AllHeld, Held
<1> QED BY <1>1, <1>2, <1>4, <1>5, <1>6, ReplacedStep

\* A step of the validator that sends nothing: the QueuedInterest leaves the
\* validator and is delayed, or not.
LEMMA JudgedStep ==
  ASSUME IInv, NEW v, NEW d, Sound(queue, pending, v, d, expressed),
         validating' = v, delayed' = d,
         UNCHANGED <<queue, pending, window, alive, hasValidator, issued, expressed>>,
         outcome' \in [Request -> Outcome], calls' \in [Request -> Nat],
         Accounted'
  PROVE  StepKeeps
<1>1. Sound(queue', pending', validating', delayed', expressed')
  OBVIOUS
<1>2. TypeOK'
  BY <1>1, TypesOfHeld DEF IInv, TypeOK
<1>3. WindowFull'
  BY DEF IInv, WindowFull
<1> QED BY <1>1, <1>2, <1>3 DEF IInv, StepKeeps

\* A QueuedInterest that leaves the validator.
LEMMA ValidatingTaken ==
  ASSUME IInv, NEW a \in validating
  PROVE  /\ Sound(queue, pending, validating \ {a}, delayed, expressed)
         /\ \A b \in Held(queue, pending, validating \ {a}, delayed) : b.req # a.req
         /\ AllHeld = Held(queue, pending, validating \ {a}, delayed) \cup {a}
         /\ a \in AllHeld /\ Within(a, expressed, 1)
<1>1. Sound(queue, pending, validating, delayed, expressed)
  BY DEF IInv
<1>2. Sound(queue, pending, validating \ {a}, delayed, expressed)
  BY <1>1, ShrinkSound
<1> QED BY <1>1, <1>2, TakenIsGone DEF AllHeld, Held, Sound, Budgets

\* The validator's answer ends the request, or comes after ~Fetcher.
LEMMA JudgedEnds ==
  ASSUME IInv, NEW a \in validating, validating' = validating \ {a},
         UNCHANGED <<queue, pending, delayed, window, alive, hasValidator, issued, expressed>>,
         \/ \E how \in Outcome \ {"none"} : Ends(a.req, how)
         \/ ~alive /\ UNCHANGED <<outcome, calls>>
  PROVE  StepKeeps
<1> DEFINE v == validating \ {a}
<1>1. /\ Sound(queue, pending, v, delayed, expressed) /\ a \in AllHeld
      /\ \A b \in Held(queue, pending, v, delayed) : b.req # a.req
      /\ AllHeld = Held(queue, pending, v, delayed) \cup {a}
  BY ValidatingTaken
<1>2. AllHeld' = Held(queue, pending, v, delayed)
  BY DEF AllHeld
<1>3. HeldReqs' = HeldReqs \ {a.req} /\ a.req \in HeldReqs
  BY <1>1, <1>2 DEF HeldReqs
<1>4. CASE \E how \in Outcome \ {"none"} : Ends(a.req, how)
  <2>1. Accounted' /\ outcome' \in [Request -> Outcome] /\ calls' \in [Request -> Nat]
    BY <1>3, <1>4, OneEnds
  <2> QED BY <1>1, <2>1, JudgedStep
<1>5. CASE ~alive /\ UNCHANGED <<outcome, calls>>
  <2>1. Accounted'
    BY <1>3, <1>5, NothingEnds
  <2> QED BY <1>1, <1>5, <2>1, JudgedStep DEF IInv, TypeOK
<1> QED BY <1>4, <1>5

\* onDataValidated
LEMMA ValidatedStep ==
  ASSUME IInv, NEW a, Validated(a)
  PROVE  StepKeeps
BY JudgedEnds DEF Validated, Outcome

\* onValidationFailed
LEMMA ValidationFailedStep ==
  ASSUME IInv, NEW a, ValidationFailed(a)
  PROVE  StepKeeps
<1>1. /\ a \in validating /\ validating' = validating \ {a}
      /\ UNCHANGED <<queue, pending, window, alive, hasValidator, issued, expressed>>
  BY DEF ValidationFailed
<1>2. CASE alive /\ a.nVal > 0 /\ delayed' = delayed \cup {a} /\ UNCHANGED <<outcome, calls>>
  <2> DEFINE v == validating \ {a}
             d == delayed \cup {a}
  <2>1. a \in QueuedInterest /\ a \in AllHeld
    BY <1>1, ValidatingTaken, HeldFacts
  <2>2. Sound(queue, pending, v, d, expressed)
    BY <1>1, <1>2, <2>1, ValidatingTaken, AddSound
  <2>3. Held(queue, pending, v, d) = AllHeld
    BY <1>1, ValidatingTaken DEF Held
  <2>4. Accounted'
    BY <1>1, <1>2, <2>3, NothingEnds DEF HeldReqs, AllHeld
  <2> HIDE DEF v, d
  <2>5. validating' = v /\ delayed' = d
    BY <1>1, <1>2 DEF v, d
  <2> QED BY <1>1, <1>2, <2>2, <2>4, <2>5, JudgedStep DEF IInv, TypeOK
<1>3. CASE /\ UNCHANGED delayed
           /\ \/ Ends(a.req, IF a.req \in FailCallback THEN "invalid" ELSE "dropped")
              \/ ~alive /\ UNCHANGED <<outcome, calls>>
  <2>1. (IF a.req \in FailCallback THEN "invalid" ELSE "dropped") \in Outcome \ {"none"}
    BY DEF Outcome
  <2> QED BY <1>1, <1>3, <2>1, JudgedEnds
<1> QED BY <1>2, <1>3 DEF ValidationFailed

\* ~Fetcher
LEMMA DestroyStep ==
  ASSUME IInv, Destroy
  PROVE  StepKeeps
<1>1. /\ ~alive' /\ alive' \in BOOLEAN /\ queue' = <<>> /\ pending' = {} /\ delayed' = {}
      /\ UNCHANGED <<validating, window, hasValidator, issued, outcome, calls, expressed>>
  BY DEF Destroy
<1>2. Elements(<<>>) = {} /\ Len(<<>>) = 0 /\ <<>> \in Seq(QueuedInterest)
  BY DEF Elements
<1>3. Held(<<>>, {}, validating, {}) = validating /\ validating \subseteq AllHeld
  BY <1>2 DEF Held, AllHeld
<1>4. Sound(<<>>, {}, validating, {}, expressed)
  <2>1. Apart(<<>>, {}, validating, {})
    BY <1>2, <1>3 DEF IInv, Sound, Apart, AllHeld
  <2>2. Budgets(<<>>, {}, validating, {}, expressed)
    BY <1>2 DEF IInv, Sound, Budgets
  <2> QED BY <1>2, <1>3, <2>1, <2>2, FS_EmptySet DEF IInv, Sound, TypeOK
<1>5. AllHeld' = validating
  BY <1>1, <1>3 DEF AllHeld
<1>6. Accounted'
  BY <1>1, <1>3, <1>5, NothingEnds DEF HeldReqs
<1>7. TypeOK'
  BY <1>1, <1>2 DEF IInv, TypeOK
<1> QED BY <1>1, <1>4, <1>6, <1>7 DEF IInv, StepKeeps, WindowFull

\* Every step keeps the invariant and the window.
LEMMA NextKeeps == IInv /\ [Next]_vars => StepKeeps
<1> SUFFICES ASSUME IInv, [Next]_vars PROVE StepKeeps
  OBVIOUS
<1>1. CASE \E r \in Request : ExpressInterest(r)
  BY <1>1, ExpressInterestStep
<1>2. CASE \E r \in Request : Answered(r)
  BY <1>2, OnDataStep, OnNackStep, OnTimeoutStep DEF Answered
<1>3. CASE \E r \in Request : Judged(r)
  BY <1>3, ValidatedStep, ValidationFailedStep DEF Judged
<1>4. CASE \E r \in Request : Retried(r)
  BY <1>4, RetryAfterValidationStep DEF Retried
<1>5. CASE \E n \in Windows : SetWindowSize(n)
  BY <1>5, SetWindowSizeStep
<1>6. CASE Destroy
  BY <1>6, DestroyStep
<1>7. CASE UNCHANGED vars
  BY <1>7 DEF vars, StepKeeps, IInv, TypeOK, Accounted, WindowFull
<1> QED BY <1>1, <1>2, <1>3, <1>4, <1>5, <1>6, <1>7 DEF Next

\* A new Fetcher satisfies the invariant.
LEMMA InitIInv == Init => IInv
<1> SUFFICES ASSUME Init PROVE IInv
  OBVIOUS
<1>1. TypeOK
  BY FetcherAssumption DEF Init, TypeOK, Outcome
<1>2. Elements(<<>>) = {} /\ Len(<<>>) = 0
  BY DEF Elements
<1>3. Held(<<>>, {}, {}, {}) = {}
  BY <1>2 DEF Held
<1>4. Sound(<<>>, {}, {}, {}, expressed)
  <2>1. Apart(<<>>, {}, {}, {})
    BY <1>2, <1>3 DEF Apart
  <2>2. Budgets(<<>>, {}, {}, {}, expressed)
    BY <1>2, FetcherAssumption DEF Init, Budgets
  <2> QED BY <1>1, <1>3, <2>1, <2>2, FS_EmptySet DEF Init, Sound, TypeOK
<1>5. Accounted /\ WindowFull
  BY <1>3 DEF Init, Accounted, WindowFull
<1> QED BY <1>1, <1>4, <1>5 DEF Init, IInv

--------------------------------------------------------------------------------
(***************************************************************************)
(* Theorems                                                                *)
(***************************************************************************)

\* The inductive invariant: where requests are held, what is left of their
\* budgets, and that only a full window makes Interests wait.
THEOREM FetcherInvariance == Spec => []IInv
<1>1. IInv /\ [Next]_vars => IInv'
  BY NextKeeps DEF StepKeeps
<1> QED BY <1>1, InitIInv, PTL DEF Spec

\* Every member of the Fetcher keeps its type; in particular the budget for
\* validation failures, an unsigned number in the code, never wraps.
THEOREM FetcherTypeCorrect == Spec => []TypeOK
<1>1. IInv => TypeOK
  BY DEF IInv
<1> QED BY <1>1, FetcherInvariance, PTL

\* No retry, window change or late answer loses or doubles a request.
THEOREM RequestsConserved == Spec => []NeverLostNorDoubled
<1>1. IInv => NeverLostNorDoubled
  <2> SUFFICES ASSUME IInv, alive, NEW r \in issued
               PROVE  /\ Places(r) = IF outcome[r] = "none" THEN 1 ELSE 0
                      /\ calls[r] = IF outcome[r] \in {"none", "dropped"} THEN 0 ELSE 1
    BY DEF NeverLostNorDoubled
  <2> DEFINE Q == { i \in 1 .. Len(queue) : queue[i].req = r }
             P == { a \in pending : a.req = r }
             V == { a \in validating : a.req = r }
             D == { a \in delayed : a.req = r }
  <2>1. calls[r] = IF outcome[r] \in {"none", "dropped"} THEN 0 ELSE 1
    BY DEF IInv, Accounted, TypeOK
  <2>2. /\ Apart(queue, pending, validating, delayed)
        /\ Elements(queue) = { queue[i] : i \in 1 .. Len(queue) }
    BY DEF IInv, Sound, Elements
  <2>3. Cardinality({}) = 0 /\ \A x : Cardinality({x}) = 1
    BY FS_EmptySet, FS_Singleton
  <2> Places(r) = Cardinality(Q) + Cardinality(P) + Cardinality(V) + Cardinality(D)
    BY DEF Places
  <2>4. CASE outcome[r] # "none"
    <3>1. \A a \in AllHeld : a.req # r
      BY <2>4 DEF IInv, Accounted, AllHeld
    <3>2. Q = {} /\ P = {} /\ V = {} /\ D = {}
      BY <2>2, <3>1 DEF AllHeld, Held
    <3> HIDE DEF Q, P, V, D
    <3> QED BY <2>1, <2>3, <2>4, <3>2
  <2>5. CASE outcome[r] = "none"
    <3>1. PICK a \in AllHeld : a.req = r
      BY <2>5 DEF IInv, Accounted, AllHeld
    <3>2. \A b \in AllHeld : b.req = r => b = a
      BY <2>2, <3>1 DEF Apart, AllHeld
    <3>3. CASE a \in Elements(queue)
      <4>1. PICK i \in 1 .. Len(queue) : queue[i] = a
        BY <2>2, <3>3
      <4>2. Q = {i}
        BY <2>2, <3>1, <4>1 DEF Apart
      <4>3. P = {} /\ V = {} /\ D = {}
        BY <2>2, <3>2, <3>3 DEF Apart, AllHeld, Held
      <4> HIDE DEF Q, P, V, D
      <4>4. Cardinality(Q) = 1 /\ Cardinality(P) = 0 /\ Cardinality(V) = 0 /\ Cardinality(D) = 0
        BY <2>3, <4>2, <4>3
      <4> QED BY <2>1, <2>5, <4>4
    <3>4. CASE a \notin Elements(queue)
      <4>1. Q = {}
        BY <2>2, <3>2, <3>4 DEF AllHeld, Held
      <4>2. \/ P = {a} /\ V = {} /\ D = {}
            \/ P = {} /\ V = {a} /\ D = {}
            \/ P = {} /\ V = {} /\ D = {a}
        BY <2>2, <3>1, <3>2, <3>4 DEF Apart, AllHeld, Held
      <4> HIDE DEF Q, P, V, D
      <4>3. /\ Cardinality(Q) = 0
            /\ \/ Cardinality(P) = 1 /\ Cardinality(V) = 0 /\ Cardinality(D) = 0
               \/ Cardinality(P) = 0 /\ Cardinality(V) = 1 /\ Cardinality(D) = 0
               \/ Cardinality(P) = 0 /\ Cardinality(V) = 0 /\ Cardinality(D) = 1
        BY <2>3, <4>1, <4>2
      <4> QED BY <2>1, <2>5, <4>3
    <3> QED BY <3>3, <3>4
  <2> QED BY <2>4, <2>5
<1> QED BY <1>1, FetcherInvariance, PTL

\* Timeouts and validation failures together cost a request no more
\* Interests than its two budgets allow.
THEOREM AttemptsStayBounded == Spec => []AttemptsBounded
<1>1. IInv => AttemptsBounded
  BY DEF IInv, Sound, Budgets, AttemptsBounded
<1> QED BY <1>1, FetcherInvariance, PTL

\* processQueue runs wherever the window gains room, and it keeps to it.
THEOREM WindowDiscipline == Spec => WindowUsedAndKept
<1>1. IInv /\ [Next]_vars =>
        [/\ alive' /\ queue' # <<>> => Cardinality(pending') >= window'
         /\ Cardinality(pending') > Cardinality(pending) => Cardinality(pending') <= window']_vars
  <2> SUFFICES ASSUME IInv, [Next]_vars
               PROVE  /\ alive' /\ queue' # <<>> => Cardinality(pending') >= window'
                      /\ Cardinality(pending') > Cardinality(pending)
                           => Cardinality(pending') <= window'
    OBVIOUS
  <2>1. StepKeeps
    BY NextKeeps
  <2>2. alive' /\ queue' # <<>> => Cardinality(pending') >= window'
    BY <2>1 DEF StepKeeps, IInv, WindowFull
  <2>3. pending' \subseteq pending => ~(Cardinality(pending') > Cardinality(pending))
    <3>1. IsFiniteSet(pending)
      BY DEF IInv, Sound
    <3> QED BY <3>1, FS_Subset, FS_CardinalityType
  <2> QED BY <2>1, <2>2, <2>3 DEF StepKeeps
<1> QED BY <1>1, FetcherInvariance, PTL DEF Spec, WindowUsedAndKept

\* After ~Fetcher the validator's late answers reach nobody.
THEOREM DestroyedIsSilent == Spec => SilentAfterDestruction
<1>1. [Next]_vars => [~alive => UNCHANGED <<outcome, calls, expressed>>]_vars
  BY DEF Next, vars, ExpressInterest, Answered, Judged, Retried, OnData, OnNack, OnTimeout,
     Validated, ValidationFailed, RetryAfterValidation, SetWindowSize, Destroy
<1> QED BY <1>1, PTL DEF Spec, SilentAfterDestruction
================================================================================
