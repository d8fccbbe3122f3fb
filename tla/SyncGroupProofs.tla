---------------------------- MODULE SyncGroupProofs ----------------------------
(***************************************************************************)
(* Proofs about SyncGroup for every set of nodes, every assignment of      *)
(* protocol versions, every bound and every bootstrap time.                *)
(***************************************************************************)
EXTENDS SyncGroup, StateVectorProofs, TLAPS

--------------------------------------------------------------------------------
(***************************************************************************)
(* The codec                                                               *)
(***************************************************************************)

\* A vector without entries under a bootstrap time other than 0: what a node
\* of a V2 group has.
EpochZero(v) == \A s \in Stream : v[s] > 0 => s[2] = 0

\* VersionVector::encode and the decoder are inverse to each other, unless
\* the decoder refuses a bootstrap time.
LEMMA RoundTripV3 ==
  ASSUME NEW v \in Vector, NEW tooFar, DecodeV3(EncodeV3(v), tooFar) # Reject
  PROVE  DecodeV3(EncodeV3(v), tooFar) = v
<1> DEFINE w == EncodeV3(v)
           d == DecodeV3(w, tooFar)
<1>1. \A s \in Stream : s = <<s[1], s[2]>>
  BY CodecAssumption
<1>2. ASSUME NEW s \in Stream
      PROVE  Decoded(w, s) = IF v[s] > 0 THEN {v[s]} ELSE {}
  <2>1. \A e \in w : \E t \in Stream :
          v[t] > 0 /\ e = [node |-> t[1], boot |-> t[2], seq |-> v[t]]
    BY DEF EncodeV3
  <2>2. \A t \in Stream : v[t] > 0 => [node |-> t[1], boot |-> t[2], seq |-> v[t]] \in w
    BY DEF EncodeV3
  <2>3. \A e \in w : e.node = s[1] /\ e.boot = s[2] => e.seq = v[s] /\ v[s] > 0
    BY <1>1, <2>1
  <2>4. v[s] > 0 => \E e \in w : e.node = s[1] /\ e.boot = s[2] /\ e.seq = v[s]
    BY <2>2
  <2> QED BY <2>3, <2>4 DEF Decoded
<1>3. d = [s \in Stream |-> IF Decoded(w, s) = {} THEN 0
                            ELSE CHOOSE n \in Decoded(w, s) : TRUE]
  BY DEF DecodeV3
<1>4. \A s \in Stream : d[s] = v[s]
  <2> HIDE DEF w, d
  <2> SUFFICES ASSUME NEW s \in Stream PROVE d[s] = v[s]
    OBVIOUS
  <2>1. CASE v[s] > 0
    BY <1>2, <1>3, <2>1
  <2>2. CASE ~(v[s] > 0)
    <3>1. v[s] = 0
      BY <2>2 DEF Vector
    <3> QED BY <1>2, <1>3, <2>2, <3>1
  <2> QED BY <2>1, <2>2
<1> QED
  BY <1>3, <1>4 DEF Vector

\* m_latestMap of a V2 vector is the number under bootstrap time 0.
LEMMA LatestOfEpochZero ==
  ASSUME NEW v \in Vector, EpochZero(v), NEW n \in Node
  PROVE  Latest(v, n) = v[<<n, 0>>]
<1> DEFINE S == { v[<<n, b>>] : b \in Boot }
           top == v[<<n, 0>>]
<1>1. \A b \in Boot : <<n, b>> \in Stream /\ v[<<n, b>>] \in Nat
  BY CodecAssumption DEF Vector
<1>2. \A b \in Boot : b = 0 \/ v[<<n, b>>] = 0
  BY <1>1 DEF EpochZero
<1>3. top \in S /\ \A b \in Boot : v[<<n, b>>] <= top
  BY <1>1, <1>2, CodecAssumption
<1>4. ASSUME NEW m \in S, \A b \in Boot : v[<<n, b>>] <= m
      PROVE  m = top
  <2>1. PICK b \in Boot : m = v[<<n, b>>]
    OBVIOUS
  <2>2. top <= m /\ top \in Nat /\ m \in Nat
    BY <1>1, <1>4, <2>1, CodecAssumption
  <2>3. b = 0 \/ m = 0
    BY <1>2, <2>1
  <2> QED BY <2>1, <2>2, <2>3
<1> HIDE DEF S, top
<1>5. (CHOOSE m \in S : \A b \in Boot : v[<<n, b>>] <= m) = top
  BY <1>3, <1>4
<1> QED BY <1>5 DEF Latest, S, top

\* VersionVector::encodeV2 and decodeV2 are inverse to each other on the
\* vectors of a V2 group.
LEMMA RoundTripV2 ==
  ASSUME NEW v \in Vector, EpochZero(v), DecodeV2(EncodeV2(v)) # Reject
  PROVE  DecodeV2(EncodeV2(v)) = v
<1> DEFINE w == EncodeV2(v)
           epoch0 == { [node |-> e.node, boot |-> 0, seq |-> e.seq] : e \in w }
           d == DecodeV2(w)
<1>1. \A s \in Stream : s = <<s[1], s[2]>> /\ s[1] \in Node /\ s[2] \in Boot
  BY CodecAssumption
<1>2. \A n \in Node : <<n, 0>> \in Stream
  BY CodecAssumption
<1>3. w = { [node |-> n, seq |-> v[<<n, 0>>]] : n \in { m \in Node : v[<<m, 0>>] > 0 } }
  BY LatestOfEpochZero DEF EncodeV2
<1> DEFINE entry(n) == [node |-> n, seq |-> v[<<n, 0>>]]
           entry0(n) == [node |-> n, boot |-> 0, seq |-> v[<<n, 0>>]]
<1>4. ASSUME NEW e \in epoch0
      PROVE  \E n \in Node : v[<<n, 0>>] > 0 /\ e = entry0(n)
  <2>1. PICK f \in w : e = [node |-> f.node, boot |-> 0, seq |-> f.seq]
    OBVIOUS
  <2>2. PICK n \in Node : v[<<n, 0>>] > 0 /\ f = entry(n)
    BY <1>3
  <2> QED BY <2>1, <2>2
<1>5. ASSUME NEW n \in Node, v[<<n, 0>>] > 0
      PROVE  entry0(n) \in epoch0
  <2>1. entry(n) \in w
    BY <1>3, <1>5
  <2> HIDE DEF w
  <2> QED BY <2>1
<1>6. d = [s \in Stream |-> IF Decoded(epoch0, s) = {} THEN 0
                            ELSE CHOOSE n \in Decoded(epoch0, s) : TRUE]
  BY DEF DecodeV2
<1> HIDE DEF w, epoch0, d
<1>7. ASSUME NEW s \in Stream
      PROVE  Decoded(epoch0, s) = IF v[s] > 0 THEN {v[s]} ELSE {}
  <2>1. \A e \in epoch0 : e.node = s[1] /\ e.boot = s[2] => e.seq = v[s] /\ v[s] > 0
    <3> SUFFICES ASSUME NEW e \in epoch0, e.node = s[1], e.boot = s[2]
                 PROVE  e.seq = v[s] /\ v[s] > 0
      OBVIOUS
    <3>1. PICK n \in Node : v[<<n, 0>>] > 0 /\ e = entry0(n)
      BY <1>4
    <3>2. s = <<n, 0>>
      BY <1>1, <3>1
    <3> QED BY <3>1, <3>2
  <2>2. v[s] > 0 => \E e \in epoch0 : e.node = s[1] /\ e.boot = s[2] /\ e.seq = v[s]
    <3> SUFFICES ASSUME v[s] > 0
                 PROVE \E e \in epoch0 : e.node = s[1] /\ e.boot = s[2] /\ e.seq = v[s]
      OBVIOUS
    <3>1. s[2] = 0 /\ s = <<s[1], 0>> /\ s[1] \in Node
      BY <1>1 DEF EpochZero
    <3> QED BY <3>1, <1>5
  <2> QED BY <2>1, <2>2 DEF Decoded
<1>8. \A s \in Stream : d[s] = v[s]
  <2> SUFFICES ASSUME NEW s \in Stream PROVE d[s] = v[s]
    OBVIOUS
  <2>1. CASE v[s] > 0
    BY <1>6, <1>7, <2>1
  <2>2. CASE ~(v[s] > 0)
    <3>1. v[s] = 0
      BY <2>2 DEF Vector
    <3> QED BY <1>6, <1>7, <2>2, <3>1
  <2> QED BY <2>1, <2>2
<1> QED
  BY <1>6, <1>8 DEF Vector, d, w

--------------------------------------------------------------------------------
(***************************************************************************)
(* The inductive invariant                                                 *)
(***************************************************************************)

TypeOK ==
  /\ group \in Groups
  /\ vv \in [Node -> Vector]
  /\ recorded \in [Node -> Vector \cup {NoVector}]
  /\ boot \in [Node -> Boot]
  /\ published \in Vector

\* A vector that a node of protocol version k may hold or send when pub was
\* published in group g: it says only what was, by nodes of that version.
HonestIn(g, pub, k, v) ==
  /\ v \in Vector /\ Below(v, pub)
  /\ \A s \in Stream : v[s] > 0 => g.version[s[1]] = k

Honest(k, v) == HonestIn(group, published, k, v)

\* Nothing was published under a bootstrap time that is still to come, and V2
\* nodes only know bootstrap time 0.
NoFutureEpoch ==
  /\ \A n \in Node : version[n] = 2 => boot[n] = 0
  /\ \A s \in Stream : published[s] > 0 => s[2] <= boot[s[1]]

VectorsHonest ==
  \A n \in Node :
    /\ Honest(version[n], vv[n])
    /\ recorded[n] # NoVector => Honest(version[n], recorded[n])

NetHonest ==
  \A interest \in net :
    \E k \in Version, v \in Vector : Honest(k, v) /\ interest = Encode(k, v)

IInv == TypeOK /\ NoFutureEpoch /\ VectorsHonest /\ NetHonest

--------------------------------------------------------------------------------
\* The version of every node is 2 or 3.
LEMMA Versions ==
  ASSUME TypeOK
  PROVE  \A n \in Node : version[n] \in Version
BY GroupAssumption DEF TypeOK, version

\* What a node of any version decodes from an Interest in the network, if it
\* can decode it, is an honest vector of the node's own version.
LEMMA DecodedHonest ==
  ASSUME IInv, NEW n \in Node, NEW interest \in net,
         Decode(version[n], interest, TooFar) # Reject
  PROVE  Honest(version[n], Decode(version[n], interest, TooFar))
<1>1. PICK k \in Version, v \in Vector : Honest(k, v) /\ interest = Encode(k, v)
  BY DEF IInv, NetHonest
<1>2. interest.version = k
  BY <1>1 DEF Encode
<1>3. version[n] = k
  BY <1>2 DEF Decode
<1>4. CASE k = 3
  <2>1. Decode(version[n], interest, TooFar) = DecodeV3(EncodeV3(v), TooFar)
    BY <1>1, <1>3, <1>4 DEF Decode, Encode
  <2> QED BY <1>1, <1>3, <2>1, RoundTripV3
<1>5. CASE k = 2
  <2>1. Decode(version[n], interest, TooFar) = DecodeV2(EncodeV2(v))
    BY <1>1, <1>3, <1>5 DEF Decode, Encode
  <2>2. EpochZero(v)
    <3> SUFFICES ASSUME NEW s \in Stream, v[s] > 0
                 PROVE  s[2] = 0
      BY DEF EpochZero
    <3>1. s[1] \in Node /\ s[2] \in Nat
      BY CodecAssumption
    <3>2. boot[s[1]] = 0
      BY <1>1, <1>5, <3>1 DEF Honest, HonestIn, version, IInv, NoFutureEpoch
    <3>3. v[s] <= published[s] /\ v[s] \in Nat /\ published[s] \in Nat
      BY <1>1 DEF Honest, HonestIn, Below, IInv, TypeOK, Vector
    <3>4. s[2] <= boot[s[1]]
      BY <3>3 DEF IInv, NoFutureEpoch
    <3> QED BY <3>1, <3>2, <3>4
  <2> QED BY <1>1, <1>3, <2>1, <2>2, RoundTripV2
<1> QED BY <1>4, <1>5 DEF Version

\* The maximum of two honest vectors is honest.
LEMMA JoinHonest ==
  ASSUME NEW g, NEW pub \in Vector, NEW k, NEW v, NEW w,
         HonestIn(g, pub, k, v), HonestIn(g, pub, k, w)
  PROVE  HonestIn(g, pub, k, Join(v, w))
<1>1. Join(v, w) \in Vector /\ Below(Join(v, w), pub)
  BY JoinBounds DEF HonestIn
<1>2. \A s \in Stream : Join(v, w)[s] > 0 => v[s] > 0 \/ w[s] > 0
  BY DEF Join, HonestIn, Vector
<1> QED BY <1>1, <1>2 DEF HonestIn

\* An honest vector stays honest when more is published.
LEMMA HonestGrows ==
  ASSUME NEW g, NEW pub \in Vector, NEW more \in Vector, Below(pub, more),
         NEW k, NEW v, HonestIn(g, pub, k, v)
  PROVE  HonestIn(g, more, k, v)
BY BelowOrder DEF HonestIn

\* A vector without entries is honest.
LEMMA EmptyHonest ==
  ASSUME NEW g, NEW pub \in Vector, NEW k
  PROVE  HonestIn(g, pub, k, EmptyVector)
BY EmptyIsVector DEF HonestIn, EmptyVector, Below, Vector

\* Every initial state satisfies the invariant.
LEMMA InitIInv == Init => IInv
<1> SUFFICES ASSUME Init PROVE IInv
  OBVIOUS
<1>1. TypeOK
  BY GroupAssumption, CodecAssumption, EmptyIsVector DEF Init, TypeOK, FirstBoot
<1>2. \A s \in Stream : EmptyVector[s] = 0
  BY DEF EmptyVector
<1>3. NoFutureEpoch
  BY <1>2 DEF Init, NoFutureEpoch, FirstBoot
<1>4. VectorsHonest
  BY <1>1, EmptyHonest DEF Init, VectorsHonest, Honest, TypeOK
<1>5. NetHonest
  BY DEF Init, NetHonest
<1> QED BY <1>1, <1>3, <1>4, <1>5 DEF IInv

\* The parts of the invariant about vectors and Interests survive a step that
\* publishes more, changes no bootstrap time and only adds or removes honest
\* vectors and Interests made of them.
LEMMA HonestStep ==
  ASSUME IInv, TypeOK', group' = group, Below(published, published'),
         \A n \in Node :
           \/ vv'[n] = vv[n]
           \/ HonestIn(group, published', version[n], vv'[n]),
         \A n \in Node :
           \/ recorded'[n] \in {NoVector, recorded[n]}
           \/ HonestIn(group, published', version[n], recorded'[n]),
         \A interest \in net' :
           \/ interest \in net
           \/ \E n \in Node, v \in Vector :
                /\ HonestIn(group, published', version[n], v)
                /\ interest = Encode(version[n], v)
  PROVE  VectorsHonest' /\ NetHonest'
<1>1. published \in Vector /\ published' \in Vector
  BY DEF IInv, TypeOK
<1>2. version' = version
  BY DEF version
<1>3. ASSUME NEW n \in Node
      PROVE  /\ HonestIn(group, published', version[n], vv'[n])
             /\ recorded'[n] # NoVector => HonestIn(group, published', version[n], recorded'[n])
  BY <1>1, <1>3, HonestGrows DEF IInv, VectorsHonest, Honest
<1>4. ASSUME NEW interest \in net'
      PROVE  \E k \in Version, v \in Vector :
               HonestIn(group, published', k, v) /\ interest = Encode(k, v)
  <2>1. CASE interest \in net
    <3>1. PICK k \in Version, v \in Vector :
            HonestIn(group, published, k, v) /\ interest = Encode(k, v)
      BY <2>1 DEF IInv, NetHonest, Honest
    <3>2. HonestIn(group, published', k, v)
      BY <1>1, <3>1, HonestGrows
    <3> QED BY <3>1, <3>2
  <2>2. CASE interest \notin net
    BY <2>2, Versions DEF IInv
  <2> QED BY <2>1, <2>2
<1> QED BY <1>2, <1>3, <1>4 DEF VectorsHonest, NetHonest, Honest

\* The own stream of a node is one of the streams.
LEMMA OwnIsStream ==
  ASSUME TypeOK, NEW n \in Node
  PROVE  Own(n) \in Stream /\ Own(n)[1] = n /\ Own(n)[2] = boot[n]
BY CodecAssumption DEF TypeOK, Own

\* updateSeqNo keeps the invariant.
LEMMA PublishStep ==
  ASSUME IInv, NEW n \in Node, Publish(n)
  PROVE  IInv'
<1> DEFINE own == Own(n)
           seq == vv[n][own] + 1
           v   == Set(vv[n], own, seq)
<1>1. own \in Stream /\ own[1] = n /\ own[2] = boot[n] /\ TypeOK
  BY OwnIsStream DEF IInv
<1>2. /\ vv[n] \in Vector /\ published \in Vector
      /\ vv[n][own] \in Nat /\ seq \in Nat /\ seq > 0
  BY <1>1 DEF TypeOK, Vector
<1>3. /\ group' = group /\ boot' = boot
      /\ vv' = [vv EXCEPT ![n] = v]
      /\ recorded' = [recorded EXCEPT ![n] = NoVector]
      /\ net' = net \cup {Encode(version[n], v)}
      /\ published' = Set(published, own, IF published[own] < seq THEN seq ELSE published[own])
  BY DEF Publish, Express
<1> HIDE DEF own, seq
<1>4. v \in Vector /\ published' \in Vector /\ Below(published, published')
  BY <1>1, <1>2, <1>3 DEF Set, Vector, Below
<1>5. v[own] <= published'[own] /\ published'[own] >= published[own]
  BY <1>1, <1>2, <1>3 DEF Set, Vector
<1>6. \A s \in Stream : s # own => v[s] = vv[n][s] /\ published'[s] = published[s]
  BY <1>1, <1>2, <1>3 DEF Set, Vector
<1>7. TypeOK'
  BY <1>1, <1>3, <1>4 DEF TypeOK
<1>8. HonestIn(group, published', version[n], v)
  <2>1. Below(v, published')
    BY <1>5, <1>6 DEF IInv, VectorsHonest, Honest, HonestIn, Below
  <2>2. \A s \in Stream : v[s] > 0 => group.version[s[1]] = version[n]
    BY <1>1, <1>6 DEF IInv, VectorsHonest, Honest, HonestIn, version
  <2> QED BY <1>4, <2>1, <2>2 DEF HonestIn
<1>9. NoFutureEpoch'
  <2>1. \A s \in Stream : published'[s] > 0 => s[2] <= boot[s[1]]
    <3> SUFFICES ASSUME NEW s \in Stream, published'[s] > 0 PROVE s[2] <= boot[s[1]]
      OBVIOUS
    <3> boot[n] \in Nat
      BY <1>1, CodecAssumption DEF TypeOK
    <3>1. CASE s = own
      BY <1>1, <3>1
    <3>2. CASE s # own
      BY <1>6, <3>2 DEF IInv, NoFutureEpoch
    <3> QED BY <3>1, <3>2
  <2> QED BY <1>3, <2>1 DEF IInv, NoFutureEpoch, version
<1>10. VectorsHonest' /\ NetHonest'
  <2> HIDE DEF v
  <2>1. \A m \in Node : vv'[m] = IF m = n THEN v ELSE vv[m]
    BY <1>1, <1>3 DEF TypeOK
  <2>2. \A m \in Node : recorded'[m] \in {NoVector, recorded[m]}
    BY <1>1, <1>3 DEF TypeOK
  <2> QED BY <1>3, <1>4, <1>7, <1>8, <2>1, <2>2, HonestStep
<1> QED BY <1>7, <1>9, <1>10 DEF IInv

\* A step that publishes nothing and restarts nobody keeps the invariant if
\* what it leaves in the vectors and the network is honest.
LEMMA QuietKeepsEpochs ==
  ASSUME IInv, UNCHANGED <<group, boot, published>>
  PROVE  NoFutureEpoch' /\ Below(published, published')
BY BelowOrder DEF IInv, TypeOK, NoFutureEpoch, version

\* onSyncInterest keeps the invariant.
LEMMA ReceiveStep ==
  ASSUME IInv, NEW n \in Node, NEW interest \in net, Receive(n, interest)
  PROVE  IInv'
<1> DEFINE remote == Decode(version[n], interest, TooFar)
<1>1. HonestIn(group, published, version[n], remote)
  BY DecodedHonest DEF Receive, Honest
<1>2. /\ UNCHANGED <<group, boot, net, published>>
      /\ vv' = [vv EXCEPT ![n] = Join(@, remote)]
      /\ recorded' = [recorded EXCEPT ![n] =
           IF @ # NoVector THEN Join(@, remote)
           ELSE IF MyVectorNew(vv[n], remote) THEN remote ELSE NoVector]
  BY DEF Receive, MergedVector, RecordedWith
<1> HIDE DEF remote
<1>3. TypeOK /\ vv[n] \in Vector /\ published \in Vector
  BY DEF IInv, TypeOK
<1>4. \A m \in Node : vv'[m] = IF m = n THEN Join(vv[n], remote) ELSE vv[m]
  BY <1>2, <1>3 DEF TypeOK
<1>5. \A m \in Node : \/ recorded'[m] \in {NoVector, recorded[m]}
                      \/ m = n /\ recorded'[m] = remote
                      \/ /\ m = n /\ recorded[n] # NoVector
                         /\ recorded'[m] = Join(recorded[n], remote)
  BY <1>2, <1>3 DEF TypeOK
<1>6. HonestIn(group, published, version[n], Join(vv[n], remote))
  BY <1>1, <1>3, JoinHonest DEF IInv, VectorsHonest, Honest
<1>7. recorded[n] # NoVector => HonestIn(group, published, version[n], Join(recorded[n], remote))
  BY <1>1, <1>3, JoinHonest DEF IInv, VectorsHonest, Honest
<1>8. TypeOK'
  <2>1. remote \in Vector /\ Join(vv[n], remote) \in Vector
    BY <1>1, <1>6 DEF HonestIn
  <2>2. recorded[n] # NoVector => Join(recorded[n], remote) \in Vector
    BY <1>7 DEF HonestIn
  <2> QED BY <1>2, <1>3, <2>1, <2>2 DEF TypeOK
<1>9. VectorsHonest' /\ NetHonest'
  BY <1>1, <1>2, <1>4, <1>5, <1>6, <1>7, <1>8, HonestStep, QuietKeepsEpochs
<1> QED BY <1>2, <1>8, <1>9, QuietKeepsEpochs DEF IInv

\* retxSyncInterest keeps the invariant.
LEMMA RetxTimerStep ==
  ASSUME IInv, NEW n \in Node, RetxTimer(n)
  PROVE  IInv'
<1>1. /\ UNCHANGED <<group, boot, published>>
      /\ recorded' = [recorded EXCEPT ![n] = NoVector]
  BY DEF RetxTimer
<1>2. TypeOK /\ vv[n] \in Vector /\ published \in Vector
  BY DEF IInv, TypeOK
<1>3. \A m \in Node : recorded'[m] \in {NoVector, recorded[m]}
  BY <1>1, <1>2 DEF TypeOK
<1>4. HonestIn(group, published, version[n], vv[n])
  BY DEF IInv, VectorsHonest, Honest
<1>5. CASE recorded[n] = NoVector /\ Express(n, vv[n]) /\ UNCHANGED vv
  <2>1. TypeOK'
    BY <1>1, <1>2, <1>5 DEF TypeOK
  <2>2. \A interest \in net' : interest \in net \/ interest = Encode(version[n], vv[n])
    BY <1>5 DEF Express
  <2>3. VectorsHonest' /\ NetHonest'
    BY <1>1, <1>2, <1>3, <1>4, <1>5, <2>1, <2>2, HonestStep, QuietKeepsEpochs
  <2> QED BY <1>1, <2>1, <2>3, QuietKeepsEpochs DEF IInv
<1>6. CASE /\ recorded[n] # NoVector
           /\ vv' = [vv EXCEPT ![n] = MergedVector(@, recorded[n])]
           /\ IF MyVectorNew(vv[n], recorded[n]) THEN Express(n, vv'[n]) ELSE UNCHANGED net
  <2> DEFINE v == Join(vv[n], recorded[n])
  <2>1. HonestIn(group, published, version[n], v)
    BY <1>2, <1>4, <1>6, JoinHonest DEF IInv, VectorsHonest, Honest
  <2>2. v \in Vector
    BY <2>1 DEF HonestIn
  <2>3. vv' = [vv EXCEPT ![n] = v]
    BY <1>6 DEF MergedVector
  <2> HIDE DEF v
  <2>4. \A m \in Node : vv'[m] = IF m = n THEN v ELSE vv[m]
    BY <1>2, <2>3 DEF TypeOK
  <2>5. TypeOK'
    BY <1>1, <1>2, <2>2, <2>3 DEF TypeOK
  <2>6. \A interest \in net' : interest \in net \/ interest = Encode(version[n], v)
    BY <1>6, <2>4 DEF Express
  <2>7. VectorsHonest' /\ NetHonest'
    BY <1>1, <1>2, <1>3, <2>1, <2>2, <2>4, <2>5, <2>6, HonestStep, QuietKeepsEpochs
  <2> QED BY <1>1, <2>5, <2>7, QuietKeepsEpochs DEF IInv
<1> QED BY <1>5, <1>6 DEF RetxTimer

\* A restart keeps the invariant: the new bootstrap time is not before the
\* old one.
LEMMA RestartStep ==
  ASSUME IInv, NEW n \in Node, Restart(n)
  PROVE  IInv'
<1>1. PICK b \in Boot :
        /\ IF version[n] = 2 THEN b = 0 ELSE b > boot[n] \/ (SameEpoch /\ b = boot[n])
        /\ boot' = [boot EXCEPT ![n] = b]
  BY DEF Restart
<1>2. /\ UNCHANGED <<group, net, published>>
      /\ vv' = [vv EXCEPT ![n] = EmptyVector]
      /\ recorded' = [recorded EXCEPT ![n] = NoVector]
  BY DEF Restart
<1>3. TypeOK /\ published \in Vector /\ boot[n] \in Nat /\ b \in Nat
  BY CodecAssumption DEF IInv, TypeOK
<1>4. TypeOK'
  BY <1>1, <1>2, <1>3, EmptyIsVector DEF TypeOK
<1>5. \A m \in Node : boot[m] \in Nat /\ boot'[m] \in Nat /\ boot[m] <= boot'[m]
  <2>1. boot[n] <= b
    BY <1>1, <1>3 DEF IInv, NoFutureEpoch
  <2>2. \A m \in Node : boot[m] \in Nat
    BY <1>3, CodecAssumption DEF TypeOK
  <2> QED BY <1>1, <1>3, <2>1, <2>2 DEF TypeOK
<1>6. NoFutureEpoch'
  <2>1. \A m \in Node : version[m] = 2 => boot'[m] = 0
    BY <1>1, <1>3 DEF IInv, NoFutureEpoch, TypeOK
  <2>2. \A s \in Stream : published[s] > 0 => s[2] <= boot'[s[1]]
    <3> SUFFICES ASSUME NEW s \in Stream, published[s] > 0 PROVE s[2] <= boot'[s[1]]
      OBVIOUS
    <3>1. s[1] \in Node /\ s[2] \in Nat /\ s[2] <= boot[s[1]]
      BY CodecAssumption DEF IInv, NoFutureEpoch
    <3> QED BY <1>5, <3>1
  <2> QED BY <1>2, <2>1, <2>2 DEF NoFutureEpoch, version
<1>7. VectorsHonest' /\ NetHonest'
  <2>1. \A m \in Node : vv'[m] = IF m = n THEN EmptyVector ELSE vv[m]
    BY <1>2, <1>3 DEF TypeOK
  <2>2. \A m \in Node : recorded'[m] \in {NoVector, recorded[m]}
    BY <1>2, <1>3 DEF TypeOK
  <2>3. Below(published, published')
    BY <1>2, <1>3, BelowOrder
  <2> QED BY <1>2, <1>3, <1>4, <2>1, <2>2, <2>3, EmptyHonest, HonestStep
<1> QED BY <1>4, <1>6, <1>7 DEF IInv

\* Losing an Interest keeps the invariant.
LEMMA LoseStep ==
  ASSUME IInv, NEW interest, Lose(interest)
  PROVE  IInv'
<1>1. net' \subseteq net /\ UNCHANGED <<group, vv, recorded, boot, restarts, published>>
  BY DEF Lose
<1>2. TypeOK' /\ NoFutureEpoch' /\ VectorsHonest'
  BY <1>1 DEF IInv, TypeOK, NoFutureEpoch, VectorsHonest, Honest, version
<1>3. NetHonest'
  BY <1>1 DEF IInv, NetHonest, Honest
<1> QED BY <1>2, <1>3 DEF IInv

\* Every step of a group keeps the invariant.
LEMMA NextIInv == IInv /\ [Next]_vars => IInv'
<1> SUFFICES ASSUME IInv, [Next]_vars PROVE IInv'
  OBVIOUS
<1>1. CASE \E n \in Node : Publish(n) \/ RetxTimer(n) \/ Restart(n)
  BY <1>1, PublishStep, RetxTimerStep, RestartStep
<1>2. CASE \E n \in Node, interest \in net : Receive(n, interest)
  BY <1>2, ReceiveStep
<1>3. CASE \E interest \in net : Lose(interest)
  BY <1>3, LoseStep
<1>4. CASE UNCHANGED vars
  BY <1>4 DEF vars, IInv, TypeOK, NoFutureEpoch, VectorsHonest, NetHonest, Honest, version
<1> QED BY <1>1, <1>2, <1>3, <1>4 DEF Next

--------------------------------------------------------------------------------
(***************************************************************************)
(* Theorems                                                                *)
(***************************************************************************)

\* The inductive invariant: vectors and Interests hold only what nodes of
\* their own protocol version have published.
THEOREM GroupInvariance == Spec => []IInv
BY InitIInv, NextIInv, PTL DEF Spec

\* Merging, suppression, restarts, loss, duplication and both codecs invent no
\* sequence number.
THEOREM InventsNothing == Spec => []NothingInvented
<1>1. IInv => NothingInvented
  <2> SUFFICES ASSUME IInv PROVE NothingInvented
    OBVIOUS
  <2>1. \A n \in Node :
          /\ Below(vv[n], published)
          /\ recorded[n] # NoVector => Below(recorded[n], published)
    BY DEF IInv, VectorsHonest, Honest, HonestIn
  <2>2. ASSUME NEW interest \in net, NEW n \in Node,
               Decode(version[n], interest, TooFar) # Reject
        PROVE  Below(Decode(version[n], interest, TooFar), published)
    BY <2>2, DecodedHonest DEF Honest, HonestIn
  <2> QED BY <2>1, <2>2 DEF NothingInvented
<1> QED BY <1>1, GroupInvariance, PTL

\* A V2 and a V3 participant on the same group prefix never put entries of
\* the other's kind in each other's vector.
THEOREM VersionsStayApart == Spec => []VersionsApart
<1>1. IInv => VersionsApart
  BY DEF IInv, VectorsHonest, Honest, HonestIn, VersionsApart, version
<1> QED BY <1>1, GroupInvariance, PTL

\* A running V3 node is never behind on its own stream.
LEMMA OwnerStep ==
  ASSUME ~SameEpoch, IInv, IInv', OwnerLeads, [Next]_vars
  PROVE  OwnerLeads'
<1> TypeOK /\ TypeOK'
  BY DEF IInv
<1> SUFFICES ASSUME NEW n \in Node, version'[n] = 3
             PROVE  vv'[n][Own(n)'] = published'[Own(n)']
  BY DEF OwnerLeads
<1>1. group' = group /\ version' = version
  BY DEF Next, vars, Publish, RetxTimer, Restart, Receive, Lose, version
<1>2. vv[n][Own(n)] = published[Own(n)] /\ Own(n) \in Stream
  BY <1>1, OwnIsStream DEF OwnerLeads
<1>3. /\ published[Own(n)] \in Nat /\ Own(n)' \in Stream
      /\ vv'[n][Own(n)'] \in Nat /\ published'[Own(n)'] \in Nat
  <2>1. Own(n)' \in Stream
    BY CodecAssumption DEF TypeOK, Own
  <2> QED BY <1>2, <2>1 DEF TypeOK, Vector
<1>4. vv'[n][Own(n)'] <= published'[Own(n)']
  BY <1>3 DEF IInv, VectorsHonest, Honest, HonestIn, Below
<1>5. \/ Own(n)' = Own(n) /\ published' = published /\ vv[n][Own(n)] <= vv'[n][Own(n)]
      \/ Own(n)' = Own(n) /\ Publish(n)
      \/ Own(n)' = Own(n) /\ vv'[n] = vv[n] /\ published'[Own(n)] = published[Own(n)]
      \/ published' = published /\ boot[n] < boot'[n]
  <2>1. CASE \E m \in Node : Publish(m)
    <3>1. PICK m \in Node : Publish(m)
      BY <2>1
    <3>2. CASE m = n
      BY <3>1, <3>2 DEF Publish, Own
    <3>3. CASE m # n
      <4>1. Own(m) # Own(n) /\ boot' = boot
        BY <3>1, <3>3 DEF Own, Publish
      <4>2. vv'[n] = vv[n]
        BY <3>1, <3>3 DEF Publish, TypeOK
      <4>3. published'[Own(n)] = published[Own(n)]
        BY <1>2, <3>1, <4>1 DEF Publish, Set, TypeOK, Vector
      <4> QED BY <4>1, <4>2, <4>3 DEF Own
    <3> QED BY <3>2, <3>3
  <2>2. CASE \E m \in Node : Restart(m)
    <3>1. PICK m \in Node : Restart(m)
      BY <2>2
    <3>2. CASE m = n
      <4>1. boot[n] < boot'[n]
        BY <1>1, <3>1, <3>2 DEF Restart, TypeOK
      <4> QED BY <3>1, <4>1 DEF Restart
    <3>3. CASE m # n
      BY <3>1, <3>3 DEF Restart, TypeOK, Own
    <3> QED BY <3>2, <3>3
  <2>3. CASE \E m \in Node : RetxTimer(m) \/ \E interest \in net : Receive(m, interest)
    <3>1. UNCHANGED <<boot, published>>
      BY <2>3 DEF RetxTimer, Receive
    <3>2. Below(vv[n], vv'[n])
      <4>1. vv[n] \in Vector /\ vv'[n] \in Vector
        BY DEF TypeOK
      <4>2. PICK m \in Node : RetxTimer(m) \/ \E interest \in net : Receive(m, interest)
        BY <2>3
      <4>3. CASE RetxTimer(m)
        <5>1. vv' = vv \/ (recorded[m] # NoVector
                           /\ vv' = [vv EXCEPT ![m] = Join(@, recorded[m])])
          BY <4>3 DEF RetxTimer, MergedVector
        <5>2. recorded[m] # NoVector => recorded[m] \in Vector
          BY DEF TypeOK
        <5> QED BY <4>1, <5>1, <5>2, JoinBounds, BelowOrder DEF TypeOK
      <4>4. CASE \E interest \in net : Receive(m, interest)
        <5>1. PICK interest \in net : Receive(m, interest)
          BY <4>4
        <5>2. Decode(version[m], interest, TooFar) \in Vector
          BY <5>1, DecodedHonest DEF Receive, Honest, HonestIn
        <5>3. vv' = [vv EXCEPT ![m] = Join(@, Decode(version[m], interest, TooFar))]
          BY <5>1 DEF Receive, MergedVector
        <5> QED BY <4>1, <5>2, <5>3, JoinBounds, BelowOrder DEF TypeOK
      <4> QED BY <4>2, <4>3, <4>4
    <3> QED BY <1>2, <3>1, <3>2 DEF Own, Below
  <2>4. CASE UNCHANGED <<vv, boot, published>>
    BY <2>4 DEF Own
  <2> QED BY <2>1, <2>2, <2>3, <2>4 DEF Next, vars, Lose
<1>6. CASE Own(n)' = Own(n) /\ published' = published /\ vv[n][Own(n)] <= vv'[n][Own(n)]
  BY <1>2, <1>3, <1>4, <1>6
<1>7. CASE Own(n)' = Own(n) /\ Publish(n)
  <2>1. vv'[n][Own(n)] = vv[n][Own(n)] + 1
    BY <1>2, <1>7 DEF Publish, Set, TypeOK, Vector
  <2>2. published'[Own(n)] = published[Own(n)] + 1
    BY <1>2, <1>3, <1>7 DEF Publish, Set, TypeOK, Vector
  <2> QED BY <1>2, <1>7, <2>1, <2>2
<1>8. CASE Own(n)' = Own(n) /\ vv'[n] = vv[n] /\ published'[Own(n)] = published[Own(n)]
  BY <1>2, <1>8
<1>9. CASE published' = published /\ boot[n] < boot'[n]
  <2>1. Own(n)'[1] = n /\ Own(n)'[2] = boot'[n] /\ boot[n] \in Nat /\ boot'[n] \in Nat
    BY CodecAssumption DEF Own, TypeOK
  <2>2. ~(published[Own(n)'] > 0)
    BY <1>3, <1>9, <2>1 DEF IInv, NoFutureEpoch
  <2> QED BY <1>3, <1>4, <1>9, <2>2
<1> QED BY <1>5, <1>6, <1>7, <1>8, <1>9

\* If no restart finds the clock where it was, the peers of a V3 node never
\* know more of its running stream than it does itself, whatever old
\* Interests the network still delivers.
THEOREM OwnerStaysAhead == ~SameEpoch => (Spec => []OwnerLeads)
<1> SUFFICES ASSUME ~SameEpoch PROVE Spec => []OwnerLeads
  OBVIOUS
<1>1. Init => OwnerLeads
  BY OwnIsStream, InitIInv DEF Init, OwnerLeads, IInv
<1>2. IInv /\ IInv' /\ OwnerLeads /\ [Next]_vars => OwnerLeads'
  BY OwnerStep
<1> QED BY <1>1, <1>2, GroupInvariance, PTL DEF Spec
================================================================================
