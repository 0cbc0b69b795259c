----------------------------- MODULE SourceSync -----------------------------
(***************************************************************************)
(* gbrain sync of one source: the git history is drained into pages, the   *)
(* bookmark (sources.last_commit) follows, and a run that is killed is     *)
(* resumed from its checkpoint (gbrain/src/commands/sync.ts, op-checkpoint *)
(* .ts, import-checkpoint.ts, sync-anchor.ts, sync-failure-ledger.ts).     *)
(* Every run works under the lock of Lease.tla.                            *)
(*                                                                         *)
(* The history is a line of commits 1..N, an ancestor being a smaller      *)
(* number; Tree[k] is the tree at commit k and 0 stands for no commit.  A  *)
(* run reads files from the working tree, which is the tree at HEAD, while *)
(* its range of work is fixed by commits.  A page is the content that was  *)
(* imported last, or Absent when there is none or it is soft-deleted.      *)
(***************************************************************************)
EXTENDS Naturals, FiniteSets, Lease

CONSTANTS
  File, Content,
  Absent,     \* no such file, no such page
  Bad,        \* the contents that no import accepts
  N, Tree,    \* the history
  Threshold,  \* GBRAIN_SYNC_AUTOSKIP_AFTER; 0 disables the valve
  Fulls,      \* whether syncs may be asked for --full
  Skipping,   \* whether they may be given --skip-failed
  MaxFaults   \* bound: kills, failed writes and timeouts together; a lost lock or
              \* a history rewrite takes all of it

ASSUME HistoryAssumption ==
  /\ Absent \notin Content /\ Bad \subseteq Content
  /\ N \in Nat \ {0}
  /\ Tree \in [1..N -> [File -> Content \cup {Absent}]]
ASSUME BoundsAssumption ==
  /\ Threshold \in Nat /\ MaxFaults \in Nat
  /\ Fulls \subseteq BOOLEAN /\ Skipping \subseteq BOOLEAN

Commit == 1..N
Commits == 0..N

VARIABLES
  head,    \* HEAD of the clone
  pages,   \* the pages of this source
  anchor,  \* sources.last_commit
  target,  \* target[k]: the pin stored by the runs that started at k
  paths,   \* paths[k]: the files they banked
  walked,  \* the completedPaths of import-checkpoint.json
  ledger,  \* the rows of the failure ledger
  run,     \* what each caller's sync is doing
  faults,  \* bound: faults so far
  mishaps  \* history: what the guarantees make an exception for

vars == <<leaseVars, head, pages, anchor, target, paths, walked, ledger, run,
          faults, mishaps>>

\* "skipped" is auto_skipped or acknowledged; the rows differ in what the doctor
\* says of them.
NoEntry == [state |-> "none", attempts |-> 0]
Entry == [state : {"none", "open", "skipped"}, attempts : Nat]

\* done: handled and not yet in the checkpoint; in a full sync, the whole set
\* of completed files.  infra: the failures that are the provider's.  threw:
\* some import raised an exception.  skips: the files to be auto-skipped.
Idle == [pc |-> "idle", full |-> FALSE, from |-> 0, pin |-> 0, todo |-> {},
         done |-> {}, failed |-> {}, infra |-> {}, ok |-> {}, threw |-> FALSE,
         skips |-> {}]
Run ==
  [pc : {"idle", "resolve", "mint", "drain", "advance", "clear", "mark",
         "reconcile"},
   full : BOOLEAN, from : Commits, pin : Commits, todo : SUBSET File,
   done : SUBSET File, failed : SUBSET File, infra : SUBSET File,
   ok : SUBSET File, threw : BOOLEAN, skips : SUBSET File]

Init ==
  /\ LeaseInit
  /\ head = 1
  /\ pages = [f \in File |-> Absent]
  /\ anchor = 0
  /\ target = [k \in Commit |-> 0]
  /\ paths = [k \in Commit |-> {}]
  /\ walked = {}
  /\ ledger = [f \in File |-> NoEntry]
  /\ run = [c \in Caller |-> Idle]
  /\ faults = 0
  /\ mishaps = {}

-----------------------------------------------------------------------------
DiffOf(j, k) == {f \in File : Tree[j][f] # Tree[k][f]}
Tracked(k) == {f \in File : Tree[k][f] # Absent}

\* manifest.deleted of the run's range.
Deleted(r) == DiffOf(r.from, r.pin) \ Tracked(r.pin)

Fault(n) == faults + n <= MaxFaults /\ faults' = faults + n
Mishap(w) == mishaps' = mishaps \cup {w}

checkpoint == <<target, paths, walked>>
brain == <<pages, anchor, ledger>>

Set(c, r) == run' = [run EXCEPT ![c] = r]
Proceed(c, pc) == run' = [run EXCEPT ![c].pc = pc]
Stop(c) == Leave({c}) /\ Set(c, Idle)

-----------------------------------------------------------------------------
(* performSync: the lock and the bookmark *)

\* Mutant: every caller passes skipLock.
StartUnlocked(c, full) ==
  /\ c \notin at_work
  /\ at_work' = at_work \cup {c} /\ owner' = c /\ quiet' = FALSE
  /\ Set(c, [Idle EXCEPT !.pc = "resolve", !.full = full \/ anchor = 0,
                         !.from = IF full THEN 0 ELSE anchor])
  /\ UNCHANGED <<head, brain, checkpoint, faults, mishaps>>

Start(c, full) ==
  /\ Take(c)
  /\ Set(c, [Idle EXCEPT !.pc = "resolve", !.full = full \/ anchor = 0,
                         !.from = IF full THEN 0 ELSE anchor])
  /\ IF at_work = {} THEN UNCHANGED mishaps ELSE Mishap("clash")
  /\ UNCHANGED <<head, brain, checkpoint, faults>>

-----------------------------------------------------------------------------
(* performSyncInner: the pinned target and the range *)

\* A stored pin that HEAD has left behind for another line is of no use.
Resumes(k) == target[k] # 0 /\ target[k] <= head

\* Mutant: a resumed run drains to the live HEAD.
PinHead(k) == head

PinOf(k) == IF Resumes(k) THEN target[k] ELSE head

Banked(k) == IF Resumes(k) THEN paths[k] ELSE {}

Dropped(k) == IF Resumes(k) THEN UNCHANGED <<target, paths>>
              ELSE /\ target' = [target EXCEPT ![k] = 0]
                   /\ paths' = [paths EXCEPT ![k] = IF target[k] = 0 THEN @ ELSE {}]

Resolve(c) ==
  LET r == run[c]  pin == PinOf(r.from)  range == DiffOf(r.from, pin) IN
  /\ r.pc = "resolve" /\ ~r.full
  /\ Dropped(r.from)
  /\ \/ r.from = head /\ Stop(c)
     \/ /\ r.from # head
        /\ Set(c, [r EXCEPT !.pc = IF range = {} THEN "advance" ELSE "mint",
                            !.pin = pin,
                            !.todo = range \ Banked(r.from)])
        /\ UNCHANGED leaseVars
  /\ UNCHANGED <<head, brain, walked, faults, mishaps>>

\* The write of the pin fails: nothing was drained, the run gives up.
Mint(c) ==
  LET r == run[c] IN
  /\ r.pc = "mint"
  /\ \/ /\ target' = [target EXCEPT ![r.from] = r.pin]
        /\ Proceed(c, "drain")
        /\ UNCHANGED <<leaseVars, faults>>
     \/ Fault(1) /\ Stop(c) /\ UNCHANGED target
  /\ UNCHANGED <<head, brain, paths, walked, mishaps>>

-----------------------------------------------------------------------------
(* The drain *)

Handled(r, f) == [r EXCEPT !.todo = @ \ {f}, !.done = @ \cup {f}]
Cleanly(r, f) == [Handled(r, f) EXCEPT !.ok = @ \cup {f}]
Failing(r, f) == [r EXCEPT !.todo = @ \ {f}, !.failed = @ \cup {f}]
Threw(r, f) == [Failing(r, f) EXCEPT !.threw = r.full]
OnInfra(r, f) == [Threw(r, f) EXCEPT !.infra = @ \cup {f}]

Draining(c) == run[c].pc = "drain"

\* softDeletePages; it does not look at the disk.
DeleteFile(c, f) ==
  LET r == run[c] IN
  /\ Draining(c) /\ ~r.full /\ f \in r.todo \cap Deleted(r)
  /\ \/ /\ pages' = [pages EXCEPT ![f] = Absent]
        /\ Set(c, Handled(r, f))
        /\ UNCHANGED faults
     \/ Fault(1) /\ Set(c, Failing(r, f)) /\ UNCHANGED pages
  /\ UNCHANGED <<leaseVars, head, anchor, ledger, checkpoint, mishaps>>

Importable(c, f) ==
  LET r == run[c] IN
  /\ Draining(c) /\ f \in r.todo
  /\ ~r.full => r.todo \cap Deleted(r) = {}

\* Mutant: an import that returns an error falls through to "unchanged".
MisreadImport(c, f) ==
  LET r == run[c]  live == Tree[head][f] IN
  /\ Importable(c, f)
  /\ IF live \in Content \ Bad
       THEN pages' = [pages EXCEPT ![f] = live] /\ Set(c, Cleanly(r, f))
       ELSE Set(c, Handled(r, f)) /\ UNCHANGED pages
  /\ UNCHANGED <<leaseVars, head, anchor, ledger, checkpoint, faults, mishaps>>

\* importOnePath, and processFile of a full sync.  An incremental run takes a
\* file that is gone for done; in a full one reading it throws.
ImportFile(c, f) ==
  LET r == run[c]  live == Tree[head][f] IN
  /\ Importable(c, f)
  /\ \/ /\ live = Absent
        /\ Set(c, IF r.full THEN Threw(r, f) ELSE Cleanly(r, f))
        /\ IF r.full THEN Mishap("rough") ELSE UNCHANGED mishaps
        /\ UNCHANGED <<pages, faults>>
     \/ /\ live \in Bad
        /\ Set(c, Failing(r, f))
        /\ UNCHANGED <<pages, faults, mishaps>>
     \/ /\ live \in Content \ Bad
        /\ pages' = [pages EXCEPT ![f] = live]
        /\ Set(c, IF live = pages[f] THEN Handled(r, f) ELSE Cleanly(r, f))
        /\ UNCHANGED <<faults, mishaps>>
     \/ /\ live \in Content \ Bad /\ live # pages[f]
        /\ Fault(1)  \* the embedding provider is down
        /\ Set(c, OnInfra(r, f))
        /\ IF r.full THEN Mishap("rough") ELSE UNCHANGED mishaps
        /\ UNCHANGED pages
  /\ UNCHANGED <<leaseVars, head, anchor, ledger, checkpoint>>

Bank(r) == paths' = [paths EXCEPT ![r.from] = @ \cup r.done]

\* flushCheckpoint.
Flush(c) ==
  LET r == run[c] IN
  /\ Draining(c) /\ ~r.full /\ r.done # {}
  /\ Bank(r)
  /\ Set(c, [r EXCEPT !.done = {}])
  /\ UNCHANGED <<leaseVars, head, brain, target, walked, faults, mishaps>>

\* A timeout, a stall or a dead checkpoint ends the run before the gate.  Only
\* incremental runs watch for one; what they can, they bank.
Partial(c) ==
  LET r == run[c] IN
  /\ Draining(c) /\ ~r.full
  /\ Fault(1)
  /\ \/ Bank(r)
     \/ UNCHANGED paths
  /\ Stop(c)
  /\ UNCHANGED <<head, brain, target, walked, mishaps>>

-----------------------------------------------------------------------------
(* performFullSync: the walk *)

\* resumeFilter skips what an earlier walk of this directory completed.
Walk(c) ==
  LET r == run[c] IN
  /\ r.pc = "resolve" /\ r.full
  /\ Set(c, [r EXCEPT !.pc = "drain", !.pin = head, !.done = walked,
                      !.todo = Tracked(head) \ walked])
  /\ UNCHANGED <<leaseVars, head, brain, checkpoint, faults, mishaps>>

\* saveCheckpoint, every hundred files and every two minutes.
SaveWalk(c) ==
  /\ Draining(c) /\ run[c].full /\ run[c].done # {}
  /\ walked' = run[c].done
  /\ UNCHANGED <<leaseVars, head, brain, target, paths, run, faults, mishaps>>

\* The pass over the pages whose file is gone, after the bookmark advanced.
Reconcile(c) ==
  /\ run[c].pc = "reconcile"
  /\ pages' = [f \in File |-> IF f \in Tracked(head) THEN pages[f] ELSE Absent]
  /\ Stop(c)
  /\ UNCHANGED <<head, anchor, ledger, checkpoint, faults, mishaps>>

-----------------------------------------------------------------------------
(* applySyncFailureGate *)

Smaller(m, n) == IF m < n THEN m ELSE n

Resolved(r) == IF r.full THEN File \ r.failed ELSE r.ok \cup Deleted(r)

\* Attempts are counted up to Threshold.
Recorded(r) ==
  LET kept(f) == IF f \in Resolved(r) THEN NoEntry ELSE ledger[f]
      again(f) == IF kept(f).state = "open" THEN kept(f).attempts + 1 ELSE 1
  IN [f \in File |->
        IF f \in r.failed
          THEN [state |-> "open", attempts |-> Smaller(again(f), Threshold)]
          ELSE kept(f)]

Rewritten(r) == ~r.full /\ ~(r.pin <= head)

\* Mutant: the valve never opens.
ChronicNever(r, rows) == {}

Chronic(r, rows) == {f \in r.failed \ r.infra :
                       Threshold > 0 /\ rows[f].attempts >= Threshold}

\* decideGateAction.
Passes(r, rows, skip) ==
  /\ ~Rewritten(r)
  /\ skip \/ r.failed = Chronic(r, rows)

\* The rows a blocked full sync cleared without having looked at the page.
Forgotten(r) == {f \in File \ (Tracked(r.pin) \cup r.failed) : ledger[f] # NoEntry}

Gate(c, skip) ==
  LET r == run[c]  rows == Recorded(r) IN
  /\ Draining(c) /\ r.todo = {}
  /\ ledger' = rows
  /\ IF r.full THEN walked' = IF r.threw THEN r.done ELSE {}
               ELSE r.done = {} /\ UNCHANGED walked
  /\ IF Passes(r, rows, skip)
       THEN /\ Set(c, [r EXCEPT !.pc = "advance",
                                !.skips = IF skip THEN File ELSE r.failed])
            /\ UNCHANGED <<leaseVars, mishaps>>
       ELSE /\ Stop(c)
            /\ IF r.full /\ Forgotten(r) # {} THEN Mishap("rough")
                                            ELSE UNCHANGED mishaps
  /\ UNCHANGED <<head, pages, anchor, target, paths, faults>>

\* writeSyncAnchor.
Advance(c) ==
  LET r == run[c] IN
  /\ r.pc = "advance"
  /\ anchor' = r.pin
  /\ Proceed(c, IF r.full THEN "mark" ELSE "clear")
  /\ UNCHANGED <<leaseVars, head, pages, ledger, checkpoint, faults, mishaps>>

\* clearOpCheckpoint, twice; either may fail without the run noticing.
Clear(c) ==
  LET r == run[c] IN
  /\ r.pc = "clear"
  /\ target' \in {target, [target EXCEPT ![r.from] = 0]}
  /\ paths' \in {paths, [paths EXCEPT ![r.from] = {}]}
  /\ \/ target'[r.from] = 0 /\ paths'[r.from] = {} /\ UNCHANGED faults
     \/ Fault(1)
  /\ Proceed(c, "mark")
  /\ UNCHANGED <<leaseVars, head, brain, walked, mishaps>>

\* autoSkipFailures, or acknowledgeFailures under --skip-failed.  The gate's fast
\* path, for a run that failed and resolved nothing, needs no case of its own: an
\* incremental run resolves or fails "<head>", and a full one all rows there are.
Mark(c) ==
  LET r == run[c] IN
  /\ r.pc = "mark"
  /\ ledger' = [f \in File |->
       IF f \in r.skips /\ ledger[f].state = "open"
         THEN [ledger[f] EXCEPT !.state = "skipped"] ELSE ledger[f]]
  /\ IF r.full THEN Proceed(c, "reconcile") /\ UNCHANGED leaseVars ELSE Stop(c)
  /\ UNCHANGED <<head, pages, anchor, checkpoint, faults, mishaps>>

-----------------------------------------------------------------------------
(* Kills, the lock, the repository *)

\* A full sync cut short leaves what later full syncs do not repair.
Rough(c) == IF run[c].full THEN Mishap("rough") ELSE UNCHANGED mishaps

\* SIGKILL banks nothing; the one-shot flush of SIGTERM may still land.
Crash(c) ==
  /\ run[c].pc # "idle"
  /\ Fault(1) /\ Rough(c)
  /\ Stop(c)
  /\ \/ UNCHANGED paths
     \/ Draining(c) /\ ~run[c].full /\ Bank(run[c])
  /\ UNCHANGED <<head, brain, target, walked>>

LockMoves(A) ==
  A /\ UNCHANGED <<head, brain, checkpoint, run, mishaps>>

\* The refresh timer starves, or a lost connection keeps it from the row.
Starve == LockMoves(~quiet /\ GoQuiet /\ Fault(MaxFaults))
Recover == LockMoves(quiet /\ Renew /\ UNCHANGED faults)

\* Somebody commits, or a pull brings commits.
Push ==
  /\ head < N /\ head' = head + 1
  /\ UNCHANGED <<leaseVars, brain, checkpoint, run, faults, mishaps>>

\* git reset, or a force-push that drops commits.
Rewind ==
  /\ head' \in 1..(head - 1)
  /\ Fault(MaxFaults) /\ Mishap("rewound")
  /\ UNCHANGED <<leaseVars, brain, checkpoint, run>>

-----------------------------------------------------------------------------
Step(c) ==
  \/ Resolve(c) \/ Mint(c) \/ Walk(c)
  \/ \E f \in File : DeleteFile(c, f) \/ ImportFile(c, f)
  \/ Flush(c) \/ Partial(c)
  \/ \E skip \in Skipping : Gate(c, skip)
  \/ Advance(c) \/ Clear(c) \/ Mark(c) \/ Reconcile(c)

Next ==
  \/ \E c \in Caller, full \in Fulls : Start(c, full)
  \/ \E c \in Caller : Step(c) \/ SaveWalk(c) \/ Crash(c)
  \/ Starve \/ Recover \/ Push \/ Rewind

Spec == Init /\ [][Next]_vars

\* Syncs are scheduled again and again, and one that runs goes on.
Fairness ==
  /\ \A c \in Caller : WF_vars(Step(c)) /\ WF_vars(Start(c, FALSE))

FairSpec == Spec /\ Fairness

-----------------------------------------------------------------------------
(* Properties *)

\* Types.
TypeOK ==
  /\ owner \in Caller \cup {Nobody} /\ quiet \in BOOLEAN
  /\ at_work = {c \in Caller : run[c].pc # "idle"}
  /\ head \in Commit /\ anchor \in Commits
  /\ pages \in [File -> (Content \ Bad) \cup {Absent}]
  /\ target \in [Commit -> Commits] /\ paths \in [Commit -> SUBSET File]
  /\ walked \subseteq File
  /\ ledger \in [File -> Entry]
  /\ run \in [Caller -> Run]
  /\ faults \in 0..MaxFaults /\ mishaps \subseteq {"clash", "rewound", "rough"}

\* No file returns to a content it had before.  The code does not ask for it,
\* but its incremental runs rely on it: see the README.
NoRevert ==
  \A f \in File, j, k, l \in Commit :
    j <= k /\ k <= l /\ Tree[j][f] = Tree[l][f] => Tree[k][f] = Tree[j][f]

\* The page is what the file holds at commit k, or a diff from k shows the file.
Fresh(f, k) == pages[f] = Tree[k][f] \/ Tree[head][f] # Tree[k][f]

\* A brain that says it is up to date is: every page is what its file holds at
\* HEAD, but for the files whose failure the ledger shows.  Kills and resumes,
\* timeouts, failed writes and commits that land during a run may not break it.
Faithful ==
  NoRevert /\ mishaps = {} /\ at_work = {} /\ anchor = head
    => \A f \in File : pages[f] = Tree[head][f] \/ ledger[f] # NoEntry

\* A resumed run skips only what needs no second look: a banked file is as the
\* pin has it, or the next range, which starts at the pin, shows it (the comment
\* on syncCheckpointKeys).
BankedIsDone ==
  NoRevert /\ mishaps \subseteq {"rough"} /\ anchor # 0 /\ target[anchor] # 0
    => \A f \in paths[anchor] : Fresh(f, target[anchor])

\* The bookmark goes back only with the history, or when a sync that had lost
\* its lock met another (performSync: "last writer wins, bookmark regresses").
BookmarkForward ==
  [][anchor' < anchor => mishaps \cap {"clash", "rewound"} # {}]_vars

\* A file that never parses does not wedge the source: once HEAD stands still,
\* some sync arrives there (decideGateAction's valve).
Converges == <>[](anchor = head)

\* performFullSync: "A full re-import is authoritative for the whole tree".
FullIsAuthoritative ==
  [][\A c \in Caller :
       run[c].pc = "reconcile" /\ run'[c].pc = "idle" /\ run[c].failed = {}
         /\ run[c].pin = head /\ mishaps \subseteq {"rough"} /\ faults' = faults
       => pages' = Tree[head]]_vars
=============================================================================
