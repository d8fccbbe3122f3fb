----------------------------- MODULE MCExtraBlocks -----------------------------
(***************************************************************************)
(* An instance of ExtraBlocks for TLC.                                     *)
(***************************************************************************)
EXTENDS ExtraBlocks

\* A good request, and one with a malformed entry behind a good one
MCRequests == {<<<<1, 2>>>>, <<<<1, 1>>, <<0, 1>>>>}

MCModes == {"serial", "capture", "worker", "deferred"}
================================================================================
