------------------------------ MODULE SyncReplica ------------------------------
(***************************************************************************)
(* What one participant of a sync group promises, whatever its threads,    *)
(* timers and worker pools do: SVSyncCore as its application sees it       *)
(* (ndn-svs/core.hpp, the contract of updateSeqNo, of UpdateCallback and   *)
(* of the Sync Interests it expresses).                                    *)
(*                                                                         *)
(* vv only grows.  Whatever a step learns about other streams it reports   *)
(* to the application in that same step.  What has been advertised grows   *)
(* and never runs ahead of vv.                                             *)
(***************************************************************************)
EXTENDS StateVector

CONSTANT Self      \* the stream this participant publishes

VARIABLES
  vv,        \* the participant's state vector
  reported,  \* per stream, the highest sequence number given to UpdateCallback
  sent       \* the join of all vectors it has advertised

replicaVars == <<vv, reported, sent>>

Init ==
  /\ vv = EmptyVector
  /\ reported = EmptyVector
  /\ sent = EmptyVector

\* A step may publish, learn and advertise at once: a handler that merges a
\* vector calls the application, which may publish, which sends an Interest.
Step ==
  /\ Below(vv, vv')
  /\ reported' = [vv' EXCEPT ![Self] = reported[Self]]
  /\ Below(sent, sent')
  /\ Below(sent', vv')

Spec == Init /\ [][Step]_replicaVars
================================================================================
