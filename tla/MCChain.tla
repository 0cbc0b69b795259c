------------------------------- MODULE MCChain -------------------------------
(* Three generations g, m, c under the default policy fail_parent, one run. *)
EXTENDS MinionQueue

CONSTANTS g, m, c, r1

Once == [DefaultOptions EXCEPT !.max_attempts = 1, !.max_stalled = 1]
MCSubmissions ==
  [j \in {g, m, c} |->
    {[Once EXCEPT !.parent_job_id =
        CASE j = g -> NoJob [] j = m -> g [] j = c -> m]}]
=============================================================================
