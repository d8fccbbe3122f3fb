------------------------------- MODULE MCFetcher -------------------------------
(***************************************************************************)
(* An instance of Fetcher for TLC: r1 retries timeouts for ever, r2 once,  *)
(* r3 never.                                                               *)
(***************************************************************************)
EXTENDS Fetcher

CONSTANTS r1, r2, r3

Budgets == [r \in Request |-> IF r = r1 THEN -1 ELSE IF r = r2 THEN 1 ELSE 0]
================================================================================
