---------------------------- MODULE MCSVSyncCore -----------------------------
(***************************************************************************)
(* Instances of SVSyncCore for TLC.                                        *)
(***************************************************************************)
EXTENDS SVSyncCore, TLC

CONSTANTS self, peer, w1, w2

\* The worker threads of a pool are interchangeable.
WorkerSymmetry == Permutations({w1, w2})
================================================================================
