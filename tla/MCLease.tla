------------------------------ MODULE MCLease ------------------------------
(* One row without parent and two runs: the claim, the fences, the budgets *)
(* and the clocks of a single job.                                         *)
EXTENDS MinionQueue, TLC

CONSTANTS j1, r1, r2

MCSubmissions ==
  [j \in {j1} |->
    {[DefaultOptions EXCEPT !.max_attempts = 2, !.max_stalled = 2,
                            !.timeout_ms = t, !.remove_on_fail = d]
       : t, d \in BOOLEAN}]
Symmetry == Permutations({r1, r2})
=============================================================================
