------------------------------ MODULE MCFanout ------------------------------
(* An aggregator par, two children of it, and two runs.                    *)
EXTENDS MinionQueue, TLC

CONSTANTS par, c1, c2, r1, r2

Once == [DefaultOptions EXCEPT !.max_attempts = 1, !.max_stalled = 1]
MCSubmissions ==
  [j \in {par, c1, c2} |->
    IF j = par THEN {Once}
    ELSE {[Once EXCEPT !.parent_job_id = par, !.on_child_fail = policy]
            : policy \in {"continue", "remove_dep"}}]
Symmetry == Permutations({r1, r2}) \cup Permutations({c1, c2})
=============================================================================
