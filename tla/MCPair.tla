------------------------------- MODULE MCPair -------------------------------
(* A parent par and one child c1, with at most two runs.                   *)
EXTENDS MinionQueue, TLC

CONSTANTS par, c1, r1, r2

Once == [DefaultOptions EXCEPT !.max_attempts = 1, !.max_stalled = 1]
MCSubmissions ==
  [j \in {par, c1} |->
    {[Once EXCEPT !.parent_job_id = IF j = par THEN NoJob ELSE par]}]
Symmetry == Permutations({r1, r2})
=============================================================================
