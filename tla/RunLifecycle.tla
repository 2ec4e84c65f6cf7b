---------------------------- MODULE RunLifecycle ----------------------------
(***************************************************************************)
(* The life of the runs of the asymmetric committee: those of one LIVE     *)
(* claim key (mode, as_of, config_hash), and backtest runs.  A run is      *)
(* claimed, taken through the agents to a committed book, anchored in      *)
(* public and executed, or it fails, is halted, is reset.                  *)
(*                                                                         *)
(* Postgres is the business truth: status, verdicts, snapshot, commitment, *)
(* anchor, kill-switch events and orders are rows, and each action that    *)
(* changes several of them is one transaction of store/write.py.  Workers  *)
(* are Celery processes (and the operator's command line, which calls the  *)
(* same functions); what a worker holds in memory dies with it.  A task    *)
(* may be delivered at any time and any number of times: the beat, the     *)
(* sweeper, a retry, a redelivery and the command line all do it.          *)
(*                                                                         *)
(* PARTIAL stands for two statuses here.  "HALTED" is PARTIAL whose        *)
(* status_reason carries the kill-switch prefix (it is terminal);          *)
(* "PARTIAL" is any other (a budget or CIO abort).  The statuses INGEST_OK *)
(* to AGENTS_OK and SCORED are declared by the code, but nothing writes    *)
(* them yet.                                                               *)
(***************************************************************************)
EXTENDS Naturals

CONSTANTS
  Workers,     \* worker processes
  NoWorker,    \* a lock nobody holds
  Tasks,       \* agent tasks (agent x entity) of a run
  Opinions,    \* what a model may answer to a task
  CioReplies,  \* what the CIO may decide about a book
  Nil,         \* a row or value that does not exist
  MaxRuns,     \* bound: run ids the model may hand out
  MaxFaults,   \* bound: worker crashes and lost lock sessions
  LiveRuns,    \* the runs of mode LIVE, under the task layer; the others are BACKTEST
  LockLoss,    \* TRUE: a worker may outlive the database session of its lock
  MayReset     \* TRUE: the operator may run reset-run

ASSUME WorkersAssumption == NoWorker \notin Workers
ASSUME NilAssumption == Nil \notin Opinions
ASSUME BoundsAssumption == MaxRuns \in Nat /\ MaxFaults \in Nat
ASSUME FlagAssumption == {LockLoss, MayReset} \subseteq BOOLEAN

Runs == 1 .. MaxRuns          \* in the order of started_at

ASSUME ModeAssumption == LiveRuns \subseteq Runs

Verdicts == [Tasks -> Opinions \cup {Nil}]
Books == [used : Verdicts, cio : CioReplies]
NoVerdicts == [t \in Tasks |-> Nil]

ASSUME BookAssumption == Nil \notin Books

Triggers == {"daily_loss", "stale_feed", "manual"}
Automatic == {"daily_loss", "stale_feed"}

Advanced == {"COMMITTED", "ANCHORED", "EXECUTED"}
Regressive == {"PENDING", "PARTIAL", "FAILED"}
Haltable == {"COMMITTED", "ANCHORED", "EXECUTED"}
Active == {"PENDING", "COMMITTED", "ANCHORED", "EXECUTED"}
Statuses == Advanced \cup Regressive \cup {"HALTED", "none"}

VARIABLES
  claimed,     \* run ids handed out so far
  status,      \* runs.status (with status_reason, see above)
  verdicts,    \* agent_verdicts rows of a run
  snapshot,    \* committee_decisions and portfolio_snapshots rows
  commitment,  \* decision_commitments row: the book it hashes
  remote,      \* the run's manifest on the public git branch
  anchor,      \* commitment_anchors row
  events,      \* kill_switch_events rows: the triggers recorded
  orders,      \* TRUE once an order of the run was sent
  resets,      \* TRUE once a run_resets row exists
  advLock,     \* holder of the advisory lock ("advance", run)
  exeLock,     \* holder of the advisory lock ("execute", run)
  pc,          \* what a worker is doing
  job,         \* the run it works on
  got,         \* the verdicts it holds in memory
  sha,         \* the commitment it read and is publishing
  faults       \* crashes and lost sessions so far

rows == <<claimed, status, verdicts, snapshot, commitment, anchor, events, orders, resets>>
locks == <<advLock, exeLock>>
memory == <<job, got, sha>>
vars == <<rows, remote, locks, pc, memory, faults>>

Idle == {"idle"}
Advancing == {"dispatch", "step", "agents", "flush", "failing", "anchor", "publish", "mark"}
Executing == {"eload", "gate", "submit", "emark"}
Places == Idle \cup {"lock", "elock"} \cup Advancing \cup Executing

TypeOK ==
  /\ claimed \in 0 .. MaxRuns
  /\ status \in [Runs -> Statuses]
  /\ verdicts \in [Runs -> Verdicts]
  /\ snapshot \in [Runs -> Books \cup {Nil}]
  /\ commitment \in [Runs -> Books \cup {Nil}]
  /\ remote \in [Runs -> Books \cup {Nil}]
  /\ anchor \in [Runs -> Books \cup {Nil}]
  /\ events \in [Runs -> SUBSET Triggers]
  /\ orders \in [Runs -> BOOLEAN]
  /\ resets \in [Runs -> BOOLEAN]
  /\ advLock \in [Runs -> Workers \cup {NoWorker}]
  /\ exeLock \in [Runs -> Workers \cup {NoWorker}]
  /\ pc \in [Workers -> Places]
  /\ job \in [Workers -> Runs \cup {Nil}]
  /\ got \in [Workers -> Verdicts]
  /\ sha \in [Workers -> Books \cup {Nil}]
  /\ faults \in 0 .. MaxFaults

Init ==
  /\ claimed = 0
  /\ status = [r \in Runs |-> "none"]
  /\ verdicts = [r \in Runs |-> NoVerdicts]
  /\ snapshot = [r \in Runs |-> Nil]
  /\ commitment = [r \in Runs |-> Nil]
  /\ remote = [r \in Runs |-> Nil]
  /\ anchor = [r \in Runs |-> Nil]
  /\ events = [r \in Runs |-> {}]
  /\ orders = [r \in Runs |-> FALSE]
  /\ resets = [r \in Runs |-> FALSE]
  /\ advLock = [r \in Runs |-> NoWorker]
  /\ exeLock = [r \in Runs |-> NoWorker]
  /\ pc = [w \in Workers |-> "idle"]
  /\ job = [w \in Workers |-> Nil]
  /\ got = [w \in Workers |-> NoVerdicts]
  /\ sha = [w \in Workers |-> Nil]
  /\ faults = 0

-----------------------------------------------------------------------------
(* Workers.                                                                *)

Goto(w, place) == pc' = [pc EXCEPT ![w] = place]

\* Seeded bug: a lock outlives its holder.
NeverReleased(lock, w) == lock
\* The locks left when worker w stops holding its own.
Released(lock, w) == [r \in Runs |-> IF lock[r] = w THEN NoWorker ELSE lock[r]]

\* The end of a task, by a return or by a raise: the lock blocks are left and
\* whatever the worker held in memory is gone.
Finish(w) ==
  /\ Goto(w, "idle")
  /\ advLock' = Released(advLock, w)
  /\ exeLock' = Released(exeLock, w)
  /\ job' = [job EXCEPT ![w] = Nil]
  /\ got' = [got EXCEPT ![w] = NoVerdicts]
  /\ sha' = [sha EXCEPT ![w] = Nil]

Begin(w, r, place) ==
  /\ pc[w] = "idle"
  /\ job' = [job EXCEPT ![w] = r]
  /\ Goto(w, place)
  /\ UNCHANGED <<got, sha, locks>>

Step(w, from, to) ==
  /\ pc[w] = from
  /\ Goto(w, to)
  /\ UNCHANGED locks

-----------------------------------------------------------------------------
(* Transactions of store/write.py.                                         *)

\* Seeded bug: the second guard of the upsert is dropped.
UpsertIgnoresHalt(r, new) ==
  status' = [status EXCEPT ![r] = IF @ \in Advanced /\ new \in Regressive THEN @ ELSE new]
\* upsert_run creates the row or moves it: an advanced run is never demoted
\* by PENDING, PARTIAL or FAILED, and a halted run is never overwritten.
UpsertRun(r, new) ==
  LET kept == \/ status[r] \in Advanced /\ new \in Regressive
              \/ status[r] = "HALTED"
  IN  status' = [status EXCEPT ![r] = IF kept THEN @ ELSE new]

\* insert_agent_verdicts: the first row of a task stands.
InsertVerdicts(r, new) ==
  verdicts' = [verdicts EXCEPT ![r] =
                 [t \in Tasks |-> IF @[t] = Nil THEN new[t] ELSE @[t]]]

\* The decisions and the snapshot of a book: the first rows stand.
InsertBook(r, book) ==
  snapshot' = [snapshot EXCEPT ![r] = IF @ = Nil THEN book ELSE @]

\* Seeded bug: another hash replaces the stored one.
CommitmentAlwaysFits(r, book) == TRUE
\* insert_commitment: replaying the same hash is a no-op, another one raises
\* (so a caller needs CommitmentFits, or rolls back).
CommitmentFits(r, book) == commitment[r] \in {Nil, book}
InsertCommitment(r, book) == commitment' = [commitment EXCEPT ![r] = book]

\* Seeded bug: EXECUTED is not among the states a halt may leave.
RecordHaltLeavesExecuted(r, t) ==
  IF t \in events[r]
  THEN UNCHANGED <<events, status>>
  ELSE /\ events' = [events EXCEPT ![r] = @ \cup {t}]
       /\ status' = [status EXCEPT ![r] =
                       IF @ \in Haltable \ {"EXECUTED"} THEN "HALTED" ELSE @]
\* record_halt: event, reference request and -> PARTIAL in one transaction.
\* The request row is unique per (run, trigger) and immutable: a second halt
\* of the same trigger has another tau, raises, and the transaction is undone.
RecordHalt(r, t) ==
  IF t \in events[r]
  THEN UNCHANGED <<events, status>>
  ELSE /\ events' = [events EXCEPT ![r] = @ \cup {t}]
       /\ status' = [status EXCEPT ![r] = IF @ \in Haltable THEN "HALTED" ELSE @]

\* Seeded bug: reset_run looks for no evidence.
NoRefusal(r) == TRUE
\* The reasons reset_run refuses: any evidence that the run left its worker.
NothingCommitted(r) ==
  /\ commitment[r] = Nil
  /\ anchor[r] = Nil
  /\ ~ orders[r]
  /\ events[r] = {}

-----------------------------------------------------------------------------
(* Claiming a run: weekly_run, and the id a backtest step gives itself.    *)

ActiveRuns == {r \in LiveRuns : status[r] \in Active}

\* A run halted by the kill switch blocks a new one unless the operator asked.
ClaimAllowed(fresh) == fresh \/ \A r \in LiveRuns : status[r] # "HALTED"

\* claim_run returns the newest run in progress or finished...
ClaimFinds(w) ==
  /\ \E r \in ActiveRuns :
       /\ \A s \in ActiveRuns : s <= r
       /\ Begin(w, r, "lock")
  /\ UNCHANGED <<rows, remote, faults>>

\* Seeded bug: the claim does not look for an active run.
ClaimCreatesAlways(w, fresh) ==
  /\ claimed + 1 \in LiveRuns
  /\ ClaimAllowed(fresh)
  /\ claimed' = claimed + 1
  /\ status' = [status EXCEPT ![claimed + 1] = "PENDING"]
  /\ Begin(w, claimed + 1, "lock")
  /\ UNCHANGED <<verdicts, snapshot, commitment, anchor, events, orders, resets, remote, faults>>
\* ... or creates a PENDING one; the advisory lock makes the two one step.
ClaimCreates(w, fresh) ==
  /\ claimed + 1 \in LiveRuns
  /\ ActiveRuns = {}
  /\ ClaimAllowed(fresh)
  /\ claimed' = claimed + 1
  /\ status' = [status EXCEPT ![claimed + 1] = "PENDING"]
  /\ Begin(w, claimed + 1, "lock")
  /\ UNCHANGED <<verdicts, snapshot, commitment, anchor, events, orders, resets, remote, faults>>

\* run_backtest: a fresh step writes its row only with its first flush.
BacktestFresh(w) ==
  /\ claimed + 1 \in Runs \ LiveRuns
  /\ claimed' = claimed + 1
  /\ Begin(w, claimed + 1, "step")
  /\ UNCHANGED <<status, verdicts, snapshot, commitment, anchor, events, orders, resets,
                 remote, faults>>

\* run_backtest with resume: the same run id again, whatever became of it.
BacktestResume(w) ==
  /\ \E r \in (1 .. claimed) \ LiveRuns : Begin(w, r, "step")
  /\ UNCHANGED <<rows, remote, faults>>

-----------------------------------------------------------------------------
(* advance_run: agents -> COMMITTED -> ANCHORED, under the advance lock.   *)

\* A delivery of advance_run (sweeper, retry, redelivery, operator).
DeliverAdvance(w, r) ==
  /\ r \in LiveRuns /\ status[r] # "none"
  /\ Begin(w, r, "lock")
  /\ UNCHANGED <<rows, remote, faults>>

\* Seeded bug: the answer of the advisory lock is ignored.
TryLockIgnored(w) == Step(w, "lock", "dispatch") /\ UNCHANGED <<rows, remote, memory, faults>>
\* pg_try_advisory_lock: the second delivery of a running task just skips.
TryLock(w) ==
  /\ pc[w] = "lock"
  /\ IF advLock[job[w]] = NoWorker
     THEN /\ advLock' = [advLock EXCEPT ![job[w]] = w]
          /\ Goto(w, "dispatch")
          /\ UNCHANGED <<exeLock, memory>>
     ELSE Finish(w)
  /\ UNCHANGED <<rows, remote, faults>>

\* Seeded bug: a redelivery leaves a committed run alone.
DispatchOnlyStarted(w) ==
  /\ pc[w] = "dispatch"
  /\ IF status[job[w]] = "PENDING" THEN Step(w, "dispatch", "step") /\ UNCHANGED memory
                                  ELSE Finish(w)
  /\ UNCHANGED <<rows, remote, faults>>
\* A started run goes through the pipeline, a committed one is anchored, any
\* other is left as it is.
Dispatch(w) ==
  /\ pc[w] = "dispatch"
  /\ CASE status[job[w]] = "PENDING" -> Step(w, "dispatch", "step") /\ UNCHANGED memory
       [] status[job[w]] = "COMMITTED" -> Step(w, "dispatch", "anchor") /\ UNCHANGED memory
       [] OTHER -> Finish(w)
  /\ UNCHANGED <<rows, remote, faults>>

\* _seed_from_store: stored verdicts are completed tasks and are reused.
Seed(w) == got' = [got EXCEPT ![w] = verdicts[job[w]]]

\* run_step: a halted or finished run short-circuits, any other starts from
\* the stored verdicts.
RunStep(w) ==
  /\ pc[w] = "step"
  /\ CASE status[job[w]] = "COMMITTED" -> Step(w, "step", "anchor") /\ UNCHANGED memory
       [] status[job[w]] \in {"HALTED", "ANCHORED", "EXECUTED"} -> Finish(w)
       [] OTHER -> Step(w, "step", "agents") /\ Seed(w) /\ UNCHANGED <<job, sha>>
  /\ UNCHANGED <<rows, remote, faults>>

\* The loader or a read raised: nothing is recorded.
LoadFails(w) ==
  /\ pc[w] \in {"dispatch", "step", "anchor", "eload"}
  /\ Finish(w)
  /\ UNCHANGED <<rows, remote, faults>>

\* What more answers can make of verdicts g.
Extensions(g) == {h \in Verdicts : \A t \in Tasks : g[t] # Nil => h[t] = g[t]}

\* run_agents: tasks not completed yet are asked; some may stay unanswered.
RunAgents(w) ==
  /\ Step(w, "agents", "flush")
  /\ \E g \in Extensions(got[w]) : got' = [got EXCEPT ![w] = g]
  /\ UNCHANGED <<rows, remote, job, sha, faults>>

\* The book pooled from verdicts g and reviewed by the CIO.  Tasks whose replies
\* were discarded as invalid have no verdict and do not stop the book.
BookOf(g, cio) == [used |-> g, cio |-> cio]

\* The committing flush_step.  The red-team stage asks the discarded votes of
\* its candidates again: such a late vote is stored, but the book is pooled
\* already.  Another commitment makes the transaction roll back; a lost
\* acknowledgement looks like a failure after it was applied.
FlushCommit(w) ==
  LET r == job[w] IN
  /\ pc[w] = "flush"
  /\ \E cio \in CioReplies, late \in Extensions(got[w]) :
       LET book == BookOf(got[w], cio) IN
       IF CommitmentFits(r, book)
       THEN /\ UpsertRun(r, "COMMITTED")
            /\ InsertVerdicts(r, late)
            /\ InsertBook(r, book)
            /\ InsertCommitment(r, book)
            /\ \E next \in {"anchor", "failing"} : Goto(w, next)
       ELSE /\ Goto(w, "failing")
            /\ UNCHANGED <<status, verdicts, snapshot, commitment>>
  /\ UNCHANGED <<claimed, anchor, events, orders, resets, remote, locks, memory, faults>>

\* _flush_partial: a budget or CIO abort keeps the verdicts and stops.
FlushPartial(w) ==
  /\ pc[w] = "flush"
  /\ UpsertRun(job[w], "PARTIAL")
  /\ InsertVerdicts(job[w], got[w])
  /\ \/ Finish(w)
     \/ Goto(w, "failing") /\ UNCHANGED <<locks, memory>>
  /\ UNCHANGED <<claimed, snapshot, commitment, anchor, events, orders, resets, remote, faults>>

\* An exception anywhere in _execute, the flush that never reached Postgres
\* included.
StepRaises(w) ==
  /\ \E from \in {"agents", "flush"} : Step(w, from, "failing")
  /\ UNCHANGED <<rows, remote, memory, faults>>

\* _record_failure: best effort, so it may itself fail.
RecordFailure(w) ==
  /\ pc[w] = "failing"
  /\ \/ UpsertRun(job[w], "FAILED") /\ InsertVerdicts(job[w], got[w])
     \/ UNCHANGED <<status, verdicts>>
  /\ Finish(w)
  /\ UNCHANGED <<claimed, snapshot, commitment, anchor, events, orders, resets, remote, faults>>

-----------------------------------------------------------------------------
(* anchor_run.                                                             *)

\* The stored rows must recompute to the stored hash before anything is sent.
Verified(r) == commitment[r] # Nil /\ snapshot[r] = commitment[r]

AnchorLoad(w) ==
  /\ pc[w] = "anchor"
  /\ IF status[job[w]] = "COMMITTED" /\ Verified(job[w])
     THEN /\ Step(w, "anchor", "publish")
          /\ sha' = [sha EXCEPT ![w] = commitment[job[w]]]
          /\ UNCHANGED <<job, got>>
     ELSE Finish(w)
  /\ UNCHANGED <<rows, remote, faults>>

\* Seeded bug: the push is taken for granted.
PublishAssumed(w) ==
  /\ Step(w, "publish", "mark")
  /\ UNCHANGED <<rows, remote, memory, faults>>
\* Stamp and push the manifest.  A file already on the remote is reused when
\* it says the same, refused when it does not; a failure may come after the
\* push was applied.
Publish(w) ==
  LET r == job[w] IN
  /\ pc[w] = "publish"
  /\ \/ /\ remote[r] \in {Nil, sha[w]}
        /\ remote' = [remote EXCEPT ![r] = sha[w]]
        /\ Goto(w, "mark")
        /\ UNCHANGED <<locks, memory>>
     \/ /\ remote[r] \in {Nil, sha[w]}
        /\ remote' \in {remote, [remote EXCEPT ![r] = sha[w]]}
        /\ Finish(w)
     \/ /\ remote[r] \notin {Nil, sha[w]}
        /\ Finish(w)
        /\ UNCHANGED remote
  /\ UNCHANGED <<rows, faults>>

\* Seeded bug: the run row moves whatever its status is.
MarkAnchoredFromAny(w) ==
  LET r == job[w] IN
  /\ pc[w] = "mark"
  /\ IF anchor[r] \in {Nil, sha[w]}
     THEN /\ anchor' = [anchor EXCEPT ![r] = sha[w]]
          /\ status' = [status EXCEPT ![r] = "ANCHORED"]
     ELSE UNCHANGED <<anchor, status>>
  /\ Finish(w)
  /\ UNCHANGED <<claimed, verdicts, snapshot, commitment, events, orders, resets, remote, faults>>
\* advance_to_anchored: the anchor row, and COMMITTED -> ANCHORED if the run
\* is still COMMITTED.
MarkAnchored(w) ==
  LET r == job[w] IN
  /\ pc[w] = "mark"
  /\ IF anchor[r] \in {Nil, sha[w]}
     THEN /\ anchor' = [anchor EXCEPT ![r] = sha[w]]
          /\ status' = [status EXCEPT ![r] = IF @ = "COMMITTED" THEN "ANCHORED" ELSE @]
     ELSE UNCHANGED <<anchor, status>>
  /\ Finish(w)
  /\ UNCHANGED <<claimed, verdicts, snapshot, commitment, events, orders, resets, remote, faults>>

-----------------------------------------------------------------------------
(* execute and execute_run, seen from the run row (OrderExecution holds    *)
(* the orders themselves).                                                 *)

\* The status is read before the lock is taken; the window test decides only
\* whether the delivery goes on, so it is left to the delivery.
DeliverExecute(w, r) ==
  /\ r \in LiveRuns /\ status[r] \in {"HALTED", "ANCHORED", "EXECUTED"}
  /\ Begin(w, r, "elock")
  /\ UNCHANGED <<rows, remote, faults>>

TryExecuteLock(w) ==
  /\ pc[w] = "elock"
  /\ IF exeLock[job[w]] = NoWorker
     THEN /\ exeLock' = [exeLock EXCEPT ![job[w]] = w]
          /\ Goto(w, "eload")
          /\ UNCHANGED <<advLock, memory>>
     ELSE Finish(w)
  /\ UNCHANGED <<rows, remote, faults>>

\* _eligible, for a run that is not EXECUTED yet.
Eligible(r) == status[r] = "ANCHORED" /\ Verified(r) /\ anchor[r] = commitment[r]

\* execute_run up to its first orders.  A halted or executed run only settles.
ExecuteLoad(w) ==
  /\ pc[w] = "eload"
  /\ IF Eligible(job[w]) /\ events[job[w]] = {}
     THEN Step(w, "eload", "gate") /\ UNCHANGED memory
     ELSE Finish(w)
  /\ UNCHANGED <<rows, remote, faults>>

\* The kill switch fires on the live account or on a stale feed.
AutomaticHalt(w) ==
  /\ pc[w] = "gate"
  /\ \E t \in Automatic : RecordHalt(job[w], t)
  /\ Finish(w)
  /\ UNCHANGED <<claimed, verdicts, snapshot, commitment, anchor, orders, resets, remote, faults>>

\* The gate re-reads the durable events before new exposure.
Gate(w) ==
  /\ pc[w] = "gate"
  /\ IF events[job[w]] = {}
     THEN Step(w, "gate", "submit") /\ UNCHANGED memory
     ELSE Finish(w)
  /\ UNCHANGED <<rows, remote, faults>>

\* A batch of orders: another gate follows (the market residuals), or the
\* names are complete, or the batch is not (the run stays ANCHORED).
Submit(w) ==
  /\ pc[w] = "submit"
  /\ \E sent \in BOOLEAN : orders' = [orders EXCEPT ![job[w]] = @ \/ sent]
  /\ \/ \E next \in {"gate", "emark"} : Goto(w, next) /\ UNCHANGED <<locks, memory>>
     \/ Finish(w)
  /\ UNCHANGED <<claimed, status, verdicts, snapshot, commitment, anchor, events, resets,
                 remote, faults>>

\* advance_to_executed: ANCHORED -> EXECUTED as one conditional update.
MarkExecuted(w) ==
  /\ pc[w] = "emark"
  /\ status' = [status EXCEPT ![job[w]] = IF @ = "ANCHORED" THEN "EXECUTED" ELSE @]
  /\ Finish(w)
  /\ UNCHANGED <<claimed, verdicts, snapshot, commitment, anchor, events, orders, resets,
                 remote, faults>>

-----------------------------------------------------------------------------
(* The operator.                                                           *)

\* manual_halt takes no run lock; OrderExecution has the broker side.
ManualHalt(r) ==
  /\ r \in LiveRuns /\ status[r] # "none"
  /\ RecordHalt(r, "manual")
  /\ UNCHANGED <<claimed, verdicts, snapshot, commitment, anchor, orders, resets, remote,
                 locks, pc, memory, faults>>

\* reset_run, refused while a worker holds the advance lock.
ResetRun(r) ==
  /\ MayReset /\ status[r] # "none"
  /\ advLock[r] = NoWorker
  /\ NothingCommitted(r)
  /\ verdicts' = [verdicts EXCEPT ![r] = NoVerdicts]
  /\ snapshot' = [snapshot EXCEPT ![r] = Nil]
  /\ status' = [status EXCEPT ![r] = "PENDING"]
  /\ resets' = [resets EXCEPT ![r] = TRUE]
  /\ UNCHANGED <<claimed, commitment, anchor, events, orders, remote, locks, pc, memory, faults>>

-----------------------------------------------------------------------------
(* Faults.                                                                 *)

\* A worker dies: Postgres frees its locks.
Crash(w) ==
  /\ pc[w] # "idle" /\ faults < MaxFaults
  /\ faults' = faults + 1
  /\ Finish(w)
  /\ UNCHANGED <<rows, remote>>

\* The session that holds a lock ends while the worker goes on.
LoseLock(w) ==
  /\ LockLoss /\ faults < MaxFaults
  /\ \E r \in Runs : w \in {advLock[r], exeLock[r]}
  /\ faults' = faults + 1
  /\ advLock' = Released(advLock, w)
  /\ exeLock' = Released(exeLock, w)
  /\ UNCHANGED <<rows, remote, pc, memory>>

-----------------------------------------------------------------------------

Weekly(w) == ClaimFinds(w) \/ \E fresh \in BOOLEAN : ClaimCreates(w, fresh)
Backtest(w) == BacktestFresh(w) \/ BacktestResume(w)
Pipeline(w) ==
  \/ RunStep(w) \/ RunAgents(w)
  \/ FlushCommit(w) \/ FlushPartial(w) \/ StepRaises(w) \/ RecordFailure(w)
Anchoring(w) == AnchorLoad(w) \/ Publish(w) \/ MarkAnchored(w)
Execution(w) ==
  \/ TryExecuteLock(w) \/ ExecuteLoad(w) \/ AutomaticHalt(w)
  \/ Gate(w) \/ Submit(w) \/ MarkExecuted(w)

Next ==
  \/ \E w \in Workers :
       \/ Weekly(w) \/ Backtest(w)
       \/ \E r \in Runs : DeliverAdvance(w, r) \/ DeliverExecute(w, r)
       \/ TryLock(w) \/ Dispatch(w) \/ LoadFails(w)
       \/ Pipeline(w) \/ Anchoring(w) \/ Execution(w)
       \/ Crash(w) \/ LoseLock(w)
  \/ \E r \in Runs : ManualHalt(r) \/ ResetRun(r)

Spec == Init /\ [][Next]_vars
-----------------------------------------------------------------------------
(* Safety.                                                                 *)

\* A status is never ahead of its evidence: a run that committed (halted ones
\* included) has a commitment that its stored rows still recompute to, and an
\* anchored or executed run is anchored, on the public branch too, to exactly
\* that commitment (upsert_run and the commitment share a transaction,
\* mark_anchored follows the push).
EvidenceBacksStatus ==
  \A r \in Runs :
    /\ status[r] \in Advanced \cup {"HALTED"} => Verified(r)
    /\ status[r] \in {"ANCHORED", "EXECUTED"} =>
         anchor[r] = commitment[r] /\ remote[r] = commitment[r]

\* No order of a run is sent before the book it trades is public, whatever
\* crashes, replays or losses of a lock happen between anchoring and execution.
OrdersFollowPublication ==
  \A r \in Runs : orders[r] => commitment[r] # Nil /\ remote[r] = commitment[r]

\* A run counted as executed has no kill-switch event: a halt recorded at any
\* moment of the execution, before or after the last gate, wins over the final
\* ANCHORED -> EXECUTED update.
ExecutedWasNeverHalted ==
  \A r \in Runs : status[r] = "EXECUTED" => events[r] = {}

\* What makes the three invariants above inductive.  The rows of a run agree
\* with each other, and a worker between two transactions knows: what it
\* publishes is the commitment, what it marks is on the remote, and a run it
\* executes is anchored and either unhalted or already HALTED.
JobsAreRuns == \A w \in Workers : pc[w] # "idle" => job[w] \in Runs
OnlyClaimed ==
  /\ \A r \in Runs : r > claimed => status[r] = "none"
  /\ \A w \in Workers : pc[w] # "idle" => job[w] <= claimed
RowsAgree ==
  \A r \in Runs :
    /\ snapshot[r] = commitment[r]
    /\ commitment[r] # Nil => status[r] \in Advanced \cup {"HALTED"}
    /\ remote[r] # Nil => remote[r] = commitment[r]
    /\ anchor[r] # Nil => anchor[r] = commitment[r] /\ remote[r] = commitment[r]
Knows(w) ==
  /\ pc[w] \in {"publish", "mark"} => sha[w] # Nil /\ sha[w] = commitment[job[w]]
  /\ pc[w] = "mark" => remote[job[w]] = commitment[job[w]]
  /\ pc[w] \in {"gate", "submit", "emark"} =>
       /\ anchor[job[w]] # Nil
       /\ events[job[w]] = {} \/ status[job[w]] = "HALTED"
WorkersKnow == \A w \in Workers : Knows(w)
EvidenceInv ==
  /\ TypeOK /\ JobsAreRuns /\ OnlyClaimed
  /\ EvidenceBacksStatus /\ OrdersFollowPublication /\ ExecutedWasNeverHalted
  /\ RowsAgree /\ WorkersKnow

\* With the locks kept, a worker in the pipeline or in the executor works alone
\* on its run: it has not committed yet when the worker flushes, and is not
\* EXECUTED yet while the worker sends orders.
Alone(w) ==
  /\ pc[w] \in Advancing => advLock[job[w]] = w
  /\ pc[w] \in Executing => exeLock[job[w]] = w
  /\ pc[w] \in {"agents", "flush"} => status[job[w]] \notin Advanced
  /\ pc[w] \in {"gate", "submit", "emark"} => status[job[w]] \in {"ANCHORED", "HALTED"}
MutexInv == \A w \in Workers : Alone(w)

\* Every verdict a committed book was built from is stored as it was used,
\* although a book is computed in memory, attempts overlap with resets and
\* failed attempts leave verdicts of their own behind.  (A late vote is stored
\* without having been used.)
VerdictsBackCommitment ==
  \A r \in LiveRuns : commitment[r] # Nil =>
    \A t \in Tasks : commitment[r].used[t] \in {Nil, verdicts[r][t]}

\* One active run per claim key, as claim_run says: among the runs the operator
\* never reset (reset_run does not look for a newer active run).
OneActiveRunUnlessReset ==
  \A r, s \in ActiveRuns : r = s \/ resets[r] \/ resets[s]

\* Once a run has committed, no transaction of any worker or of reset_run
\* changes or clears its commitment, its decisions or its verdicts.
KeepsEvidence ==
  \A r \in Runs : commitment[r] # Nil =>
    /\ commitment'[r] = commitment[r]
    /\ snapshot'[r] = snapshot[r]
    /\ \A t \in Tasks : verdicts[r][t] # Nil => verdicts'[r][t] = verdicts[r][t]
EvidenceKept == [][KeepsEvidence]_vars

\* A halted run is never brought back: not by a late flush, a late failure
\* report, an anchoring or execution in progress, or a reset.
KeepsHalts == \A r \in Runs : status[r] = "HALTED" => status'[r] = "HALTED"
HaltIsFinal == [][KeepsHalts]_vars

Rank(s) ==
  CASE s = "COMMITTED" -> 1 [] s = "ANCHORED" -> 2 [] s = "EXECUTED" -> 3
    [] s = "HALTED" -> 4 [] OTHER -> 0

\* The run row moves forward: no step takes a committed, anchored or executed
\* run back to an earlier status.
MovesForward == \A r \in Runs : Rank(status'[r]) >= Rank(status[r])
StatusMovesForward == [][MovesForward]_vars

PhaseOf(s) ==
  CASE s = "COMMITTED" -> "committed" [] s = "ANCHORED" -> "anchored"
    [] s = "EXECUTED" -> "executed" [] s = "HALTED" -> "halted" [] OTHER -> "open"

Ledger == INSTANCE RunLedger WITH
  Ids <- Runs, Decisions <- Books, Undecided <- Nil,
  phase <- [r \in Runs |-> PhaseOf(status[r])],
  book <- commitment,
  public <- [r \in Runs |-> remote[r] # Nil],
  traded <- orders

\* The rows implement the public ledger.
ImplementsLedger == Ledger!Spec

-----------------------------------------------------------------------------
(* Liveness.  Workers keep running, the sweeper keeps enqueueing, and a    *)
(* service that is asked again and again answers at last.                  *)

Work(w) ==
  \/ TryLock(w) \/ Dispatch(w) \/ Pipeline(w) \/ Anchoring(w) \/ Execution(w)

\* The sweeper delivers advance_run for stale started and for committed runs.
Swept(w, r) == status[r] \in {"PENDING", "COMMITTED"} /\ DeliverAdvance(w, r)

Fairness ==
  /\ \A w \in Workers :
       /\ WF_vars(Work(w))
       /\ SF_vars(Dispatch(w))
       /\ SF_vars(RunStep(w))
       /\ SF_vars(AnchorLoad(w))
       /\ SF_vars(Publish(w) /\ pc'[w] = "mark")
       /\ SF_vars(RecordFailure(w) /\ status' # status)
  /\ \A w \in Workers, r \in Runs : SF_vars(Swept(w, r))

LiveSpec == Spec /\ Fairness

\* The sweeper and the workers never leave a committed book unpublished: after
\* any crash or lost message it is anchored (or halted) in the end.
CommittedIsAnchored ==
  \A r \in Runs : status[r] = "COMMITTED" ~> status[r] # "COMMITTED"

\* Retries as well: every delivery of advance_run is repeated for ever.
RetrySpec == LiveSpec /\ \A w \in Workers, r \in Runs : SF_vars(DeliverAdvance(w, r))

\* Work that failed runs again when it is retried.
FailedWorkReruns ==
  \A r \in Runs : status[r] = "FAILED" ~> status[r] # "FAILED"

\* A claimed run does not stay in progress for ever: it commits or is given up.
PendingIsDecided ==
  \A r \in Runs : status[r] = "PENDING" ~> status[r] # "PENDING"
=============================================================================
