----------------------------- MODULE MCDbLock -----------------------------
(* Two callers in one process P of host h1, and one on another host.  P    *)
(* restarts under a new pid, so its callers meet their own dead rows.      *)
EXTENDS DbLock

CONSTANTS a1, a2, b, P, Q, h1, h2

MCProcOf == [c \in Caller |-> IF c = b THEN Q ELSE P]
MCHostOf == [p \in Process |-> IF p = Q THEN h2 ELSE h1]
=============================================================================
