------------------------------ MODULE MCSyncGroup ------------------------------
(***************************************************************************)
(* Instances of SyncGroup for TLC.                                         *)
(***************************************************************************)
EXTENDS SyncGroup

CONSTANTS a, b, c

Streams == Node \X Boot

\* Three V3 nodes, one of which publishes, and two with a V2 node
MCGroups ==
  {[version |-> [n \in Node |-> 3], producers |-> {a}],
   [version |-> [n \in Node |-> IF n = b THEN 2 ELSE 3], producers |-> {a, b}]}
================================================================================
