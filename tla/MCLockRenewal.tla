--------------------------- MODULE MCLockRenewal ---------------------------
(* Three leases, in units of about 2.5 s. *)
EXTENDS LockRenewal

MCSettings == {
  \* the default of 30 s with the default timeouts
  [lock |-> 12, timeout |-> 4, margin |-> 2, evict |-> 24, grace |-> 6],
  \* the shortest roomy one
  [lock |-> 17, timeout |-> 2, margin |-> 2, evict |-> 34, grace |-> 2],
  \* an environment whose every value is clamped, and no grace
  [lock |-> 6, timeout |-> 5, margin |-> 3, evict |-> 2, grace |-> 0]}
=============================================================================
