------------------------------- MODULE SyncGroup -------------------------------
(***************************************************************************)
(* A sync group: several participants (ndn-svs/core.cpp without worker     *)
(* pools, batching and validator) that exchange Sync Interests over a      *)
(* multicast network which may lose, delay, reorder and duplicate them,    *)
(* and that may stop and come back with nothing but a new bootstrap time.  *)
(***************************************************************************)
EXTENDS SyncCodec

CONSTANTS
  Groups,        \* the groups: the nodes' protocol versions, and who publishes
  MaxSeq,        \* bound: sequence numbers a node publishes in one life
  MaxRestarts,   \* bound: restarts of all nodes together
  SameEpoch,     \* a restart may find the clock (in seconds) where it was
  TooFar,        \* bootstrap times more than a day ahead of the receivers
  NoVector       \* m_recordedVv == nullptr

ASSUME GroupAssumption ==
  /\ Groups \subseteq [version : [Node -> Version], producers : SUBSET Node]
  /\ MaxSeq \in Nat /\ MaxRestarts \in Nat
  /\ SameEpoch \in BOOLEAN /\ TooFar \subseteq Boot
  /\ 1 \in Boot    \* the bootstrap time of a V3 node's first life
  /\ NoVector \notin Vector

VARIABLES
  group,     \* one of Groups
  vv,        \* per node: m_vv
  recorded,  \* per node: m_recordedVv
  boot,      \* per node: m_bootstrapTime
  net,       \* the Interests the network may still deliver
  restarts,  \* how many restarts there were
  published  \* history: per stream, the highest number ever published

vars == <<group, vv, recorded, boot, net, restarts, published>>

\* SyncProtocolOptions::version of each node
version == group.version

\* m_bootstrapTime of a new object; V2 has only 0
FirstBoot(n) == IF version[n] = 2 THEN 0 ELSE 1

Own(n) == <<n, boot[n]>>

Init ==
  /\ group \in Groups
  /\ vv = [n \in Node |-> EmptyVector]
  /\ recorded = [n \in Node |-> NoVector]
  /\ boot = [n \in Node |-> FirstBoot(n)]
  /\ net = {} /\ restarts = 0
  /\ published = EmptyVector

\* sendSyncInterest
Express(n, v) == net' = net \cup {Encode(version[n], v)}

\* updateSeqNo: the next number is getSeqNo() + 1
Publish(n) ==
  /\ n \in group.producers /\ vv[n][Own(n)] < MaxSeq
  /\ LET seq == vv[n][Own(n)] + 1
         v   == Set(vv[n], Own(n), seq)
     IN  /\ vv' = [vv EXCEPT ![n] = v]
         /\ recorded' = [recorded EXCEPT ![n] = NoVector]
         /\ Express(n, v)
         /\ published' = Set(published, Own(n),
                             IF published[Own(n)] < seq THEN seq ELSE published[Own(n)])
  /\ UNCHANGED <<group, boot, restarts>>

\* onSyncInterest: decode, merge, then suppress if this node knows more.  An
\* Interest stays in net, so it may arrive again, and later.
Receive(n, interest) ==
  /\ interest \in net
  /\ LET remote == Decode(version[n], interest, TooFar)
     IN  /\ remote # Reject
         /\ vv' = [vv EXCEPT ![n] = MergedVector(@, remote)]
         /\ recorded' = [recorded EXCEPT ![n] =
              IF @ # NoVector THEN RecordedWith(@, remote)
              ELSE IF MyVectorNew(vv[n], remote) THEN remote
              ELSE NoVector]
  /\ UNCHANGED <<group, boot, net, restarts, published>>

\* Faulty variant: nothing is sent at the end of suppression.
RetxTimerSilent(n) ==
  /\ IF recorded[n] = NoVector THEN Express(n, vv[n]) ELSE UNCHANGED net
  /\ recorded' = [recorded EXCEPT ![n] = NoVector]
  /\ UNCHANGED <<group, vv, boot, restarts, published>>

\* retxSyncInterest, when the timer fires or the prefix is registered: out of
\* suppression it sends only what the recorded Interests did not say.
RetxTimer(n) ==
  /\ \/ /\ recorded[n] = NoVector
        /\ Express(n, vv[n])
        /\ UNCHANGED vv
     \/ /\ recorded[n] # NoVector
        /\ vv' = [vv EXCEPT ![n] = MergedVector(@, recorded[n])]
        /\ IF MyVectorNew(vv[n], recorded[n]) THEN Express(n, vv'[n]) ELSE UNCHANGED net
  /\ recorded' = [recorded EXCEPT ![n] = NoVector]
  /\ UNCHANGED <<group, boot, restarts, published>>

\* Faulty variant: the bootstrap time survives the restart.
RestartKeepsBoot(n) ==
  /\ restarts < MaxRestarts
  /\ restarts' = restarts + 1
  /\ vv' = [vv EXCEPT ![n] = EmptyVector]
  /\ recorded' = [recorded EXCEPT ![n] = NoVector]
  /\ UNCHANGED <<group, boot, net, published>>

\* The process ends and is started again: nothing is kept, and V3 takes the
\* current time, in seconds, as the bootstrap time.
Restart(n) ==
  /\ restarts < MaxRestarts
  /\ restarts' = restarts + 1
  /\ vv' = [vv EXCEPT ![n] = EmptyVector]
  /\ recorded' = [recorded EXCEPT ![n] = NoVector]
  /\ \E b \in Boot :
       /\ IF version[n] = 2 THEN b = 0
          ELSE b > boot[n] \/ (SameEpoch /\ b = boot[n])
       /\ boot' = [boot EXCEPT ![n] = b]
  /\ UNCHANGED <<group, net, published>>

\* The network forgets an Interest that nobody repeats.
Lose(interest) ==
  /\ interest \in net
  /\ \A n \in Node : interest # Encode(version[n], vv[n])
  /\ net' = net \ {interest}
  /\ UNCHANGED <<group, vv, recorded, boot, restarts, published>>

Next ==
  \/ \E n \in Node : Publish(n) \/ RetxTimer(n) \/ Restart(n)
  \/ \E n \in Node, interest \in net : Receive(n, interest)
  \/ \E interest \in net : Lose(interest)

Spec == Init /\ [][Next]_vars

\* Timers fire, an Interest that its sender would repeat on every timer gets
\* through to every node, and copies of an old one do not arrive for ever
\* (Interests have a lifetime).
Fairness ==
  /\ \A n \in Node : WF_vars(RetxTimer(n))
  /\ \A n, m \in Node : SF_vars(\E interest \in net :
       interest = Encode(version[m], vv[m]) /\ Receive(n, interest))
  /\ WF_vars(\E interest \in net : Lose(interest))

FairSpec == Spec /\ Fairness

--------------------------------------------------------------------------------
(***************************************************************************)
(* Properties                                                              *)
(***************************************************************************)

\* No participant, recorded vector or Interest knows a number that was never
\* published: merging, suppression and both codecs invent nothing.
NothingInvented ==
  /\ \A n \in Node : Below(vv[n], published)
  /\ \A n \in Node : recorded[n] # NoVector => Below(recorded[n], published)
  /\ \A interest \in net, n \in Node :
       LET v == Decode(version[n], interest, TooFar)
       IN  v # Reject => Below(v, published)

\* Nobody is ahead of a running V3 node on the stream it publishes: a restart
\* never makes it publish a number again that its peers may know, and no vector
\* it merges brings news of its own stream, which SVSyncCore relies on.
OwnerLeads ==
  \A n \in { m \in Node : version[m] = 3 } : vv[n][Own(n)] = published[Own(n)]

\* Entries of the two protocol versions never mix in one vector.
VersionsApart ==
  \A n \in Node, s \in Stream : vv[n][s] > 0 => version[s[1]] = version[n]

\* When publishing and restarting end, all participants of one version come
\* to know the same vector, in spite of suppression and loss, unless one of
\* them has taken a bootstrap time that its peers refuse.
Converges ==
  <>[](\/ \E n \in Node : boot[n] \in TooFar
       \/ \A n, m \in Node : version[n] = version[m] => vv[n] = vv[m])
================================================================================
