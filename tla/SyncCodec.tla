------------------------------- MODULE SyncCodec -------------------------------
(***************************************************************************)
(* What a Sync Interest carries: SyncProtocolCodec                         *)
(* (ndn-svs/sync-protocol.cpp) and the two wire layouts of VersionVector   *)
(* (ndn-svs/version-vector.cpp).  A state vector travels as a set of       *)
(* entries under a name that ends in the protocol version.  V3 writes one  *)
(* entry per bootstrap time of a node; V2 has no bootstrap time, writes    *)
(* the node's highest number and reads it back under bootstrap time 0.     *)
(***************************************************************************)
EXTENDS StateVector

CONSTANTS
  Node,    \* node prefixes
  Boot,    \* bootstrap times; 0 is the one V2 uses
  Reject   \* the result of a decoder that throws

ASSUME CodecAssumption ==
  /\ Stream = Node \X Boot
  /\ Boot \subseteq Nat /\ 0 \in Boot
  /\ Reject \notin Vector

Version == {2, 3}

\* m_latestMap, which refreshLatest keeps: the highest number of a node over
\* all of its bootstrap times.
Latest(v, node) ==
  CHOOSE n \in { v[<<node, b>>] : b \in Boot } :
    \A b \in Boot : v[<<node, b>>] <= n

\* Faulty variant: the next number is written.
EncodeNext(v) ==
  { [node |-> s[1], boot |-> s[2], seq |-> v[s] + 1] : s \in { t \in Stream : v[t] > 0 } }

\* VersionVector::encode; an entry that is not there has number 0
EncodeV3(v) ==
  { [node |-> s[1], boot |-> s[2], seq |-> v[s]] : s \in { t \in Stream : v[t] > 0 } }

\* VersionVector::encodeV2
EncodeV2(v) ==
  { [node |-> n, seq |-> Latest(v, n)] : n \in { m \in Node : Latest(v, m) > 0 } }

\* The number the decoder leaves for stream s when it has read entries w
Decoded(w, s) == { e.seq : e \in { f \in w : f.node = s[1] /\ f.boot = s[2] } }

\* VersionVector::VersionVector(block): one entry with number 0, or with a
\* bootstrap time too far ahead of the reader's clock, spoils all of it.
DecodeV3(w, tooFar) ==
  IF \E e \in w : e.seq = 0 \/ e.boot \in tooFar
  THEN Reject
  ELSE [s \in Stream |-> IF Decoded(w, s) = {} THEN 0
                         ELSE CHOOSE n \in Decoded(w, s) : TRUE]

\* VersionVector::decodeV2
DecodeV2(w) ==
  IF \E e \in w : e.seq = 0
  THEN Reject
  ELSE LET epoch0 == { [node |-> e.node, boot |-> 0, seq |-> e.seq] : e \in w }
       IN  [s \in Stream |-> IF Decoded(epoch0, s) = {} THEN 0
                             ELSE CHOOSE n \in Decoded(epoch0, s) : TRUE]

\* SyncProtocolCodec::encode and decode: the version is part of the name, and
\* an Interest of the other version is not decoded.
Encode(version, v) ==
  [version |-> version, entries |-> IF version = 3 THEN EncodeV3(v) ELSE EncodeV2(v)]

\* Faulty variant: the version of the Interest decides.
DecodeAnyVersion(version, interest, tooFar) ==
  IF interest.version = 3 THEN DecodeV3(interest.entries, tooFar)
  ELSE DecodeV2(interest.entries)

Decode(version, interest, tooFar) ==
  IF interest.version # version THEN Reject
  ELSE IF version = 3 THEN DecodeV3(interest.entries, tooFar)
  ELSE DecodeV2(interest.entries)
================================================================================
