------------------------------ MODULE StateVector ------------------------------
(***************************************************************************)
(* The state vector of State Vector Sync: VersionVector                    *)
(* (ndn-svs/version-vector.hpp) and the comparisons SVSyncCore makes with  *)
(* it (ndn-svs/core.cpp, computeMergeStateVector and recordVector).        *)
(*                                                                         *)
(* The code keeps m_entries: node -> (bootstrap time -> sequence number).  *)
(* A pair (node, bootstrap time) is a Stream here; a node that restarts    *)
(* gets a new stream.  VersionVector::get returns 0 for an absent entry,   *)
(* set throws on 0 and the decoders reject 0, so an absent entry and the   *)
(* value 0 are the same thing and a vector is a total function.            *)
(***************************************************************************)
EXTENDS Integers

CONSTANT Stream    \* the (node, bootstrap time) pairs of the sync group

Vector == [Stream -> Nat]

\* A default-constructed VersionVector: no entries.
EmptyVector == [s \in Stream |-> 0]

\* VersionVector::set on one entry; it overwrites whatever was there.
Set(v, s, seq) == [v EXCEPT ![s] = seq]

\* v knows nothing that w does not know.
Below(v, w) == \A s \in Stream : v[s] <= w[s]

\* The maximum the two loops of computeMergeStateVector and of recordVector
\* leave in the vector they update.
Join(v, w) == [s \in Stream |-> IF v[s] < w[s] THEN w[s] ELSE v[s]]

(***************************************************************************)
(* computeMergeStateVector(localVector, remoteVector)                      *)
(***************************************************************************)
MergedVector(local, remote) == Join(local, remote)

OtherVectorNew(local, remote) == \E s \in Stream : local[s] < remote[s]

\* The second loop compares the merged vector, not the local one.
MyVectorNew(local, remote) ==
  \E s \in Stream : remote[s] < MergedVector(local, remote)[s]

\* One MissingDataInfo per stream the remote vector is ahead on.
MissingData(local, remote) ==
  { [stream |-> s, low |-> local[s] + 1, high |-> remote[s]] :
      s \in { t \in Stream : local[t] < remote[t] } }

\* Faulty variant: a merge does not count as a change of the state.
GenerationKept(gen, local, remote) == gen

(***************************************************************************)
(* mergeStateVector: the generation counts the merges that changed m_vv.   *)
(***************************************************************************)
MergedGeneration(gen, local, remote) ==
  IF OtherVectorNew(local, remote) THEN gen + 1 ELSE gen

\* Faulty variant: the differences are recorded instead of the numbers.
RecordedDelta(recorded, other) == [s \in Stream |-> other[s] - recorded[s]]

(***************************************************************************)
(* recordVector raises the entries of the vector recorded while in         *)
(* suppression state.                                                      *)
(***************************************************************************)
RecordedWith(recorded, other) == Join(recorded, other)
================================================================================
