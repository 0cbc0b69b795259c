------------------------------- MODULE Lease -------------------------------
(***************************************************************************)
(* What a named database lock promises its callers, without rows, pids,    *)
(* hosts or clocks.  A caller that holds the lock keeps it as long as it   *)
(* lets itself be heard; only a quiet owner can be dispossessed, and it is *)
(* not told: it stays at work.  DbLock.tla implements this specification   *)
(* and SourceSync.tla is built on it.                                      *)
(***************************************************************************)
CONSTANTS
  Caller,   \* the calls that may hold the lock
  Nobody    \* the owner of a free lock

ASSUME NobodyAssumption == Nobody \notin Caller

VARIABLES
  owner,    \* the caller whose lease is in force, or Nobody
  quiet,    \* the owner has not been heard of for a whole lease
  at_work   \* the callers inside the work the lock protects

leaseVars == <<owner, quiet, at_work>>

LeaseInit == owner = Nobody /\ quiet = FALSE /\ at_work = {}

Take(c) ==
  /\ c \notin at_work
  /\ owner = Nobody \/ quiet
  /\ owner' = c /\ quiet' = FALSE
  /\ at_work' = at_work \cup {c}

Renew ==
  /\ owner # Nobody
  /\ quiet' = FALSE
  /\ UNCHANGED <<owner, at_work>>

GoQuiet ==
  /\ owner # Nobody
  /\ quiet' = TRUE
  /\ UNCHANGED <<owner, at_work>>

\* The lease is withdrawn behind the owner's back.
Revoke ==
  /\ owner # Nobody /\ quiet
  /\ owner' = Nobody /\ quiet' = FALSE
  /\ UNCHANGED at_work

\* The callers C end their work, or die in it; several at once when they share
\* a process.  The lease of one that had lost it is nobody's business.
Leave(C) ==
  /\ C # {} /\ C \subseteq at_work
  /\ at_work' = at_work \ C
  /\ owner' = IF owner \in C THEN Nobody ELSE owner
  /\ quiet' = IF owner \in C THEN FALSE ELSE quiet

LeaseNext ==
  \/ \E c \in Caller : Take(c)
  \/ Renew \/ GoQuiet \/ Revoke
  \/ \E C \in SUBSET Caller : Leave(C)

LeaseSpec == LeaseInit /\ [][LeaseNext]_leaseVars
=============================================================================
