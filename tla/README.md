# Asymmetric committee: a TLA+ verification project

This directory holds TLA+ models of the asymmetric committee (the repository
beside it), configurations that model-check them with TLC, and theorems about
them that TLAPS checks. Every definition is translated from the source;
`PROJECT.json` (`map`) names the lines each one stands for.

The program runs a weekly portfolio decision: agents backed by language models
vote, their votes are pooled, a CIO reviews the book, the book is committed to
by hash, the commitment is anchored in public before anything trades, and an
executor trades it against a paper broker under a kill switch. Nothing in it is
hard as an algorithm on one thread. What is hard is that every stage is a
Celery task that may be delivered twice, late or after a crash; that locks are
database sessions which can end while their holder goes on; that an operator
can halt or reset at any moment; and that the broker, the git remote and the
model provider lose answers.

## 1. Inventory

State kept in Postgres is written **R**; state that lives in a worker **M**;
state of an outside service **X**.

| component (source) | state | operations | hard behaviour | correct when |
|---|---|---|---|---|
| run ledger (`store/write.py`, `orchestration/sink.py`) | R: `runs`, `agent_verdicts`, `committee_decisions`, `portfolio_snapshots`, `decision_commitments`, `commitment_anchors`, `kill_switch_events`, `orders`, `run_resets` | `claim_run`, `upsert_run`, `insert_*`, `advance_to_anchored`, `advance_to_executed`, `record_halt`, `reset_run` | late writes of a worker that lost its place; rollback of half a flush | a status is never ahead of its evidence; a commitment never changes; a halt is final |
| weekly pipeline (`orchestration/pipeline.py`) | M: verdicts in memory | `run_backtest`, `run_step`, `_seed_from_store`, `_execute`, `_flush_partial`, `_record_failure` | crash between paying and storing; resume to the same book | stored verdicts are the ones the committed book was built from |
| tasks and schedule (`orchestration/tasks.py`, `celery_app.py`) | none (broker queue) | `weekly_run`, `advance_run`, `anchor`, `execute`, `reconcile`, `sweep`, beats | duplicates, redelivery, retry after a recorded failure | work left by a dead task is picked up |
| run locks (`sink.py`) | X: advisory locks per (stage, run) | try, hold to the end of the block | the session ends, the worker lives on | nothing above depends on the lock alone |
| commitment (`contracts/commitment.py`) | - | payload, hash, verification | - | stored rows recompute to the stored hash |
| anchoring (`anchor_stage.py`, `anchor_adapters.py`, `evaluation/anchoring.py`) | R: anchor rows; M: the clone, one proof under upgrade; X: git branch, calendars, block headers | publish, push, reachability, upgrade | push applied, answer lost; a clone shared by workers; an outage ends a pass | what is anchored is public; an anchored run is confirmed in the end |
| order execution (`execution/executor.py`, `orchestration/execution_stage.py`) | R: `orders`; M: legs, targets; X: orders, positions | plan, submit once, wait, cancel, confirm, residual, settle, reconcile | a fill races its cancel; a submission times out and lands; re-planning while orders fill | the target is never exceeded; rows match the broker |
| halts (`execution/halt.py`, `risk/kill_switch.py`) | R: `kill_switch_events`, halt requests; M: engaged switch | check, trigger, cancel-confirm, flatten, record | takes no lock; may fail part-way | a halt stops buying and is on record |
| broker gateway (`execution/gateway.py`, `alpaca.py`) | X | submit, find, cancel, close, positions | lost answers, ids already known | - |
| reference capture (`orchestration/references.py`, `execution/reference_rules.py`, `execution/reference.py`, `execution/halt_symbols.py`) | R: execution and halt references, deferrals | `capture_due`, `capture_live`, `build_backtest`, `sweep_halt_requests` | pollers overlap; grace windows end between two polls | one final reference per key; final means final |
| agent fan-out (`agents/runner.py`, `agents/base.py`) | M: budget, stop event, cache, dead letters | fan out, check budget, call, charge, sink | check-then-act on a budget by concurrent threads | overspend is bounded; a valid reply is paid once unless it was lost before it was cached; nothing is paid after the ceiling is recorded |
| LLM transport (`agents/llm/*`) | X: Redis buckets; R: cache | retry, acquire tokens, cache | retries spend twice | rate is bounded |
| CIO (`agents/cio.py`) | - | review, veto, repair | a malformed reply | vetoes never exceed the floor |
| pooling, stacker, sizing (`committee/*`, `risk/sizing.py`) | - | weights, abstention, caps | a limit is scaled and floored again by later steps | all limits hold at once in the proposed book |
| scheduled ingest and feeds (`ingest/*`) | R: market data, feed health | ingest units in nested transactions | one unit fails after others | a failed feed is never reported fresh |
| point-in-time store (`store/as_of.py`, `aliases.py`, `scoring_read.py`) | R: versioned rows | reads as of a date | corrections that arrive later | nothing from after `as_of` is seen |
| scoring and evaluation (`evaluation/*`) | M: evidence read, e-processes | classify, admit, sequential test | evidence that changes between two requests; a test looked at every week | an admission is never taken back; no edge, no crossing |
| calendar and windows (`orchestration/schedule.py`, `evaluation/*_rules.py`) | R: session versions, coverage rows | sync of a range, status, next session, horizon; day counts | overlapping ranges, revised and cancelled sessions | it answers what was read last, or refuses |
| features, gate, quant baseline, partitioner, universe | R: feature rows, snapshots | functions of rows as of a date | built before or after late rows arrive | no prompt rests on what came later |
| control API and CLI (`api/main.py`, `orchestration/cli.py`) | - | halt, reset, read routes | runs concurrently with workers | see halts and reset |
| startup, wiring, configuration, contracts, schema, prompts, scripts | - | validation, DDL, text | - | - |

How they interact: the beat and the sweeper enqueue tasks; a task claims or
loads a run, takes the run's advisory lock and calls the pipeline, the anchor
stage or the execution stage; each of these changes the rows only through the
transactions of `store/write.py`; the executor and the halt controller share
the broker account and the `kill_switch_events` rows but no lock; the CLI calls
the same functions as the tasks.

The hazards this leads to are listed in `PROJECT.json` (`hazards`), each at the
line where it bites, with the properties that cover it.

## 2. Plan

Done:

1. `RunLifecycle` (with `RunLedger`), its runs and its proofs.
2. `OrderExecution` over `BrokerOrders` (with `Exposure`), its runs and proofs.
3. `AgentFanOut`: the runner, one agent call, the run budget, the cache and the
   CIO inside the attempts of one run, its run and proofs.

4. The components around the lifecycle, each a module with its own `Init`, `Next`
   and specification: `GitAnchor`, `Confirmation`, `ReferenceCapture`,
   `FeedIngest`, `TradeTape`, `MarketCalendar`, `DecisionWeek`, `PointInTime`,
   `SequentialTest`, `RateLimits`. They share no state with each other, so one
   module, `MCComponents`, checks them together, one per behaviour.
5. Proofs about all ten: `GitAnchorProofs`, `FeedIngestProofs`,
   `ReferenceCaptureProofs`, `PointInTimeProofs`, and `ComponentProofs` for the rest.

What could come next: the composition of `GitAnchor` with `RunLifecycle`'s
publishing step as a refinement; the execution window and the conditions that
trip the kill switch; T-bill day counts against a reference definition.

## 3. The modules

### `RunLedger` and `RunLifecycle`

`RunLedger` is what a reader of the public record may rely on: a run decides at
most one book, announces only a book it has decided, trades only a book it has
announced, and moves forward until it is halted for good.

`RunLifecycle` is the code. Its row variables are the tables (`status`,
`verdicts`, `snapshot`, `commitment`, `anchor`, `events`, `orders`, `resets`);
`remote` is the public git branch; `pc`, `job`, `got` and `sha` are what a
worker holds and a crash takes away. One action is one transaction or one call
between two of them: the operators of the section "Transactions of
store/write.py" are the functions of that file, and the actions that use them
are the callers.

| actions | code |
|---|---|
| `ClaimFinds`, `ClaimCreates` | `weekly_run` and `claim_run` (one step: the claim holds its own lock) |
| `BacktestFresh`, `BacktestResume` | `run_backtest`, which takes no advance lock |
| `DeliverAdvance`, `TryLock`, `Dispatch` | `advance_run` |
| `RunStep`, `RunAgents`, `FlushCommit`, `FlushPartial`, `StepRaises`, `RecordFailure` | `run_step`, `_execute`, `flush_step`, `_flush_partial`, `_record_failure` |
| `AnchorLoad`, `Publish`, `MarkAnchored` | `anchor_run` |
| `DeliverExecute`, `TryExecuteLock`, `ExecuteLoad`, `AutomaticHalt`, `Gate`, `Submit`, `MarkExecuted` | `execute` and `execute_run` seen from the run row |
| `ManualHalt`, `ResetRun` | the CLI |
| `Crash`, `LoseLock` | a worker dies; its database session ends while it goes on |

What is abstracted: a book is the verdicts it was built from together with the
CIO's decision, and a hash is the book itself; `HALTED` is the status PARTIAL
with the kill switch's reason; INGEST_OK to AGENTS_OK and SCORED are declared
by the code but written by nothing; runs are ordered by `started_at`; the live
runs share one claim key, backtest runs have keys of their own.

### `BrokerOrders`, `Exposure` and `OrderExecution`

`BrokerOrders` is the paper broker as the code uses it (external): at most one
order per client order id, fills share by share also while a cancel is pending,
cancels that are only requests, day orders that expire, `close_position`, and
submissions whose answer is lost and that may land later. A cancel whose answer is
lost may have been taken (`CancelFails`).

`Exposure` is the promise seen from outside: a name trades share by share,
never past the largest quantity some attempt asked for; the run is executed at
most once; a halt is final.

`OrderExecution` is `execute_book`, the stage around it, the halts, and the
rows both write. `pc` is the phase of an attempt (the gates, the plan, the
submission of limits, the shared wait, cancel, close, the market residual,
close), `todo` the names the phase has left, `target` and `seen` the
`ExecutionTarget` and `_Leg` objects. `halt[p]` is the progress of a
settlement or halt, of a worker or of the operator's command; the latter runs
beside the attempt and takes no lock. One action is one broker call with the
store write that follows it. `reconcile_orders` is two steps, because its reads and its
write are far apart: `ReadOpenRows` reads the working orders of the rows,
`WriteFresh` stores what was read, whatever the rows say by then.

What is abstracted: quantities are whole shares (as `plan_targets` makes them);
prices, collars and slippage are left out; the automatic triggers are one
nondeterministic trigger; a submission, its recovery by id and its row are one
step with every outcome (accepted, known, rejected, lost and landed, lost, late,
the write failed); a wait, and the reads of a reconciliation, see all orders of
their phase at one moment.

### `AgentFanOut`

One run seen from inside `_execute`: what `RunLifecycle` takes as one step with
any outcome. A *job* is a call of one agent about one name, or the CIO's.
`call[j]` is where it is: `queued` before the semaphore, `ask1`/`ask2` before the
first request and the repair, `sent1`/`sent2` in flight, `paid` when a valid reply is
charged and not yet cached, `valid` or `raised` when its thread is done and the
event loop has not seen it yet, then `held`, `invalid`, `dead` or `aborted`.
`spent`, `stop`, `held`, `accounted` and `dlq` are `RunBudget`, the stop event, the verdicts sunk, the telemetry and the dead
letters of one attempt; `cached` outlives attempts; `status`, `ledger` and
`stored` are the row and its verdicts. `billed`, `unbooked`, `exact`, `answered` and
`dropped` (valid replies that were lost before they were cached) are history.

| actions | code |
|---|---|
| `Check`, `Unaccountable`, `ReplyOverBudget`, `ReplyValid`, `Keep`, `ReplyInvalid`, `CacheRefuses` | `run_agent_call` and `run_cio`, in a thread |
| `Unheard`, `Transient`, `HardError` | `complete`: a post that was served and not heard, the last one given up, a request that is refused |
| `Take`, `CacheUnreadable`, `Skip`, `Sink`, `HandleAbort` | `run_agents.one`, in the event loop |
| `Start` | `run_step`, `_seed_from_store` |
| `EndVotes`, `EndReviews`, `EndCio` | the three stages of `_execute`, with `size_committee_book` (`Propose`) and `apply_cio_decision` (`Review`) |
| `FlushPartial`, `FlushCommit`, `FlushFails`, `RecordFailure`, `Crash`, `Reset` | the ends of an attempt |

What is abstracted: what a model says (a reply is valid, invalid, unaccountable
or an error), which names get a pool and a position, prices (a cost is a small
number), the rate limiter, and a dead-letter queue that fails itself. The transport
posts again after an error: a post that was served is paid for whether its answer
arrives or not (`Unheard`), the others only make a request slower. A
stage that fails cancels its tasks while threads go on;
`asyncio.run` waits for them, but no longer than its limit (300 s), after which
what they do is not modelled and `exact` is given up.

### `GitAnchor`

What `RunLifecycle` takes as one publishing step, command by command. `remote`
is the branch, a sequence of the manifest sets its commits added, so that a commit
is its own ancestry; `clone` has the head, the index and the files of each
local repository; `task` is where a worker is; `published` is the commit stored
with an anchored run. `SharedClone` says whether workers use one directory.

| actions | code |
|---|---|
| `Take` | the run lock of `AnchorStage.anchor_run` |
| `ListRemote`, `Fetch`, `Checkout` | `GitAnchorRepo._sync` |
| `WriteManifest`, `AddManifest`, `Commit`, `ParseHead`, `Push`, `LogManifest` | `GitAnchorRepo.anchor` |
| `AskReachable`, `MarkAnchored` | `is_reachable` and the end of `anchor_run` |
| `PushUnheard`, `Refuse`, `GiveUp` | a push that landed unheard, a command that refuses, one that times out or a worker that dies |

### `Confirmation`

A run after its anchor: `proof` is the calendars it still waits for and the heights
it attests, `mined` what the calendars have, `pass` the rows an upgrader loaded,
`evidence` the rows an admission read. Height 0 is an attestation that does not
verify.

| actions | code |
|---|---|
| `Anchor`, `Execute`, `Halt` | `OtsCalendars.stamp` with the status writes of `store/write.py` |
| `StartPass`, `UpgradeOne`, `StoreProof`, `PassDies` | `AnchorUpgrader.upgrade_all`, `upgrade`, `confirm_bitcoin`, `upsert_anchor` |
| `ReadEvidence`, `AdmitRun` | `load_scoring_evidence`, `admit_run` with its refusals in order |
| `Mine`, `GoDown`, `ComeBack`, `Tick` | calendars, services and the clock |

`ticket` is history: the lowest block a ticket was ever issued for.

### `ReferenceCapture`

One committed run (`kind` live or backtest) or one halt request (`kind` halt).
`job[w]` is what a worker has read: its clock, the reference time the calendar gave,
the missing symbols; `marks` are the stored rows, `symbolSet` the stored halt set.

| actions | code |
|---|---|
| `ReadReferences`, `WriteReferences` | `capture_live`, `build_backtest` between reading and the one batch |
| `Sweep`, `ReadHaltReferences`, `WriteHaltReferences` | `sweep_halt_requests`, `_resolve_halt` |
| `StoreCommitment`, `RequestHalt` | `insert_commitment`, the request that `record_halt` stores |
| `PublishRange`, `Enlist`, `Advance`, `JobFails` | calendar sync, a new symbol, time, failures |

`Insert` is `_insert_immutable`: a replay adds nothing, one contradicting row takes
the batch back. With `LosesLock` workers overlap freely. `capture_due` looks at the runs
of the last 21 days only (references.py:302); the run modelled is always one of them.

### `FeedIngest`

`StartPoll`/`EndPoll` are `run_feed` (the clock and the names are read once, then
savepoints and one commit), `Backfill` commits name by name, `Record` is
`record_feed_run`, `Stale` is `feed_staleness`. `health` keeps, besides the
row's `last_success_at`, who wrote it and for which names.

### `TradeTape`

`Evaluate` is `evaluate_conditions`, `Verdict` and `Seen` are `sequence_verdicts`,
`DecideGroup`, `ReconstructHalt` and `ResolveBacktest` the rules over them. Trades
are printed one by one (`Trade`, `NextInstant`) while `ResolveHalt` may already read
the finished instants. The reference definition is independent of the algorithm: an
order of the trades and a meaning of every unknown code is a *world*, and `Sets` says
which trades set the last sale price in it.

### `MarketCalendar`

`Sync` is `insert_calendar_range` over what the provider says now: new session
versions, and a coverage row whose digest is the set of sessions it vouches for.
`ExchangeChanges` revises, adds or cancels. `Consistent` is the refusals of
`build_calendar`; `Status`, `IsNextSession` and `IsHorizon` its answers.

### `DecisionWeek`

One action per stage of a week: `SnapshotUniverse`, `PassGate`, `PoolVerdicts`,
`Forecast`, `SizeBook`. What history, the models and the stacker compute is any value;
`ApplyFloor` (with fractions kept as numerator and denominator), `CommitteeBook`
and `BaselineBook` are the code's steps in its order, in whole parts rounded down.

### `PointInTime`

Sources revise documents (`SourceRevises`); units fetch, date and store them
(`StartFetch`, `StoreFetched`, `FetchFails`, with `Bars`, `Fundamentals`,
`InsiderTxns`, `News` for what each parser says about `available_at`);
`BuildSnapshot` and `BuildFeatures` compute from what `AsOf` (`store.as_of._latest`)
finds; `Partition` is what each agent is shown. The content of a row is the set of
revisions it rests on.

### `SequentialTest`

`Bet`, `NextLambda`, `Outcome` and `Observe` are `evaluation/sequential.py` in rounded
parts of `One`, which are more than the test has weeks, so that no variance is rounded
to nothing. `Crossings` counts, from a state, the paths of fair weeks that ever cross
the threshold. A fair week wins or loses an amount with the same probability; the
amount may be chosen anew every week by all that went before, and the count is that of
the worst choice.

### `RateLimits`

The Lua scripts as single steps: `Admit`/`WindowFull` for the SEC's sliding window,
`Grant`/`Short` for the request and token buckets, with `Ask` and the sleeps of
the clients between them.

### MC modules and proofs

`MCRunLifecycle` adds model values and the symmetry of workers and opinions;
`MCOrderExecution` names the securities, `MCAgentFanOut` the agents and names,
which are symmetric. `MCComponents` extends the ten component modules: its
variable `part` picks the component that moves in a behaviour, and every other one
rests in one of its initial states. `RunLifecycleProofs`, `OrderExecutionProofs`,
`AgentFanOutProofs`, `GitAnchorProofs`, `FeedIngestProofs`,
`ReferenceCaptureProofs` and `PointInTimeProofs` hold the theorems of one module each,
`ComponentProofs` those of `Confirmation`, `MarketCalendar`, `TradeTape`, `RateLimits`,
`DecisionWeek` and `SequentialTest`.

## 4. What the runs check

| run | instance | question |
|---|---|---|
| `lifecycle_safety` | 2 workers, 2 live runs of one key, 2 opinions, failing steps, resets | do the rows stay consistent, is evidence kept, is there one active run per key, do the rows implement `RunLedger`? |
| `lifecycle_lock_loss` | 2 workers, 1 live and 1 backtest run, 1 crash or lost session | do the conditional updates alone keep the evidence, the halts and "publish, then trade" when locks protect nothing? |
| `lifecycle_liveness` | 2 workers, 1 run, 1 crash, resets | is a claimed run decided and a committed one anchored? |
| `lifecycle_retry` (finding) | as above, retries for ever | does failed work run again? |
| `orders_safety` | 1 worker, 1 name of up to 2 shares, 3 failures | no short, EXECUTED is backed, a halt stops buying, `Exposure` is implemented; rows catch up and no order stays working |
| `orders_book` | 1 worker, 2 names of 1 share, the operator's halt concurrently, 1 failure | does a residual always wait for a final limit order, and does a stored row ever claim more than the broker reported, while one name fails or a halt runs beside? |
| `orders_lock_loss` | 2 workers at once, 1 name of 2 shares, 1 failure: a submission that is lost or lands late, a failed call, or a crash | do stable order ids alone bound the exposure? |
| `orders_short` (finding) | 1 worker, the operator's flatten | does a halted attempt only reduce what is held? |
| `orders_lost_halt` (finding) | 1 worker, 2 halt commands | is every completed flatten on record? |
| `fanout_safety` | 2 agents, the red team and the CIO, 2 names, 2 calls at once, budget 7, 2 attempts, 1 failure | is the budget overrun only by the calls in flight, is recorded spend, with what nobody could report, what was paid, is a valid reply paid for again only if it was lost before it was cached, and nothing at all once the recorded cost has reached the ceiling, is every verdict accounted for and aborted work dead-lettered, does no unreviewed book commit, and can an attempt always go on? |
| `components` | ten components, one per behaviour, each with an instance of its own | the thirteen properties below |
| `components_shared_clone` (finding) | `GitAnchor` with one clone for two workers | is the commit stored with a run really its manifest's? |

The properties of `components`:

| property | component | hazard |
|---|---|---|
| `PublishedManifest` | `GitAnchor` | a commit dropped, a push unheard, a retry that finds its own leftovers |
| `AdmissionIsStable` | `Confirmation` | proofs upgraded, halts and outages between two admissions of one run |
| `AnchoredIsConfirmed` (liveness) | `Confirmation` | an outage or a death that ends every pass before it reaches a run |
| `NothingIsGivenUpEarly` | `ReferenceCapture` | a final "no price" written by a poll with an old clock or calendar |
| `CompleteMeansMarked` | `ReferenceCapture` | a pending request is found by counting rows while the symbols change |
| `ReferencesArrive` (liveness) | `ReferenceCapture` | failed tasks, late calendars, contradicting batches |
| `FreshMeansStored` | `FeedIngest` | failed names, overlapping or dead polls that still make a feed fresh |
| `MarkIsTheTape` | `TradeTape` | undecidable conditions, ties, a session that is still printing |
| `AnswersAreCurrent` | `MarketCalendar` | overlapping ranges synced around revisions and cancellations |
| `LimitsHold` | `DecisionWeek` | caps and floors undone by later scaling |
| `NoLookAhead` | `PointInTime` | partial bars, amendments, edits and backfills in any order |
| `CrossingsAreRare` | `SequentialTest` | a bet that peeks or is clipped wrongly |
| `LimitsAreKept` | `RateLimits` | windows and buckets shared by retrying clients |

Bounds. Two workers are enough for every race the code has: locks, conditional
updates and unique keys are pairwise. Two runs are needed for claims and for a
backtest beside a live run; nothing relates three. One task with two possible
answers (with lost locks: answered or discarded) lets a second attempt build
another book, the only thing the evidence properties tell apart. Two shares are the
smallest quantity with a partial fill and a residual; two names are needed for one
to fail while the other goes on.
`MaxFaults` bounds crashes, failed calls and failed writes; it stays at or below
the task's `MAX_RETRIES` (3). The bounds differ between runs so that each keeps only
what its properties can tell apart: crashes are left to the liveness and lock-loss
runs, commands of the operator to `orders_book`. `MaxHalts` bounds the operator's commands,
`MaxRuns` the run ids. In the fan-out, two names and a red team of one are the
least with a name that is reviewed and one that is not; two agents let a name
have a pool while one of its votes was discarded; a budget of 7 is the least
that lets both names be voted on, one reviewed, and the book approved by six
calls of cost 1, while repairs and the second attempt's calls exhaust it in every
stage; two attempts are one that fails and one that resumes. `CHECK_DEADLOCK FALSE` in
the order, fan-out and component runs: once a run is executed and settled, its
attempts are over or a clock has reached its bound, nothing is left to do.

Bounds of `components`. Two manifests and workers in `GitAnchor`, because one clone
misleads another only about a second run; one fault, so that the retry after it is
seen. One run with two calendars in `Confirmation`: a later proof must be able to
add a lower height than the one admitted, and two ticks make heights differ. A
missing header source is combined with backtest runs only. Two
symbols and workers in `ReferenceCapture`, and instants that keep the deadlines of a
halt apart: its live window ends at 2, trades may be looked at and a calendar may be
given up from 4, the session's tape is final only at 5, so that each guard alone
decides at some instant; two candidate reference times for a revision. In `FeedIngest` two
names and two polls; facts of two days. Three trades over two instants with one code
of each kind on `TradeTape`, the least with a tie and an earlier history. Three dates
with two overlapping ranges and three syncs in `MarketCalendar`: a covered gap, a
revision and a newer read. Three voters and names, two sectors in `DecisionWeek`:
pinning one voter can push a second below the floor; all splits of ten parts. One
kind of document per behaviour in `PointInTime`, of two revisions. Six weeks of a test with the
smallest and the largest clipped outcome: all 4096 paths of the two comparisons.
`OverlappingPasses`, `HoursReturn` and `SilentEdits` are FALSE: what happens
otherwise is under the observations.

What they show. Safety of the run row does not depend on the advisory locks:
with locks lost, evidence, halts and the order of publication and trading still
hold, because each transaction re-reads the row it changes. What does depend on
the lock is that the status never moves back (`StatusMovesForward`, a theorem): a worker
whose lock is lost may overwrite ANCHORED by COMMITTED, since
`upsert_run` (write.py:293) refuses only PENDING, PARTIAL and FAILED. The
exposure bound does not depend on the execute lock either: the broker's client
order ids carry it. The run budget is a soft ceiling with a hard bound: less than
the budget plus the price of `concurrency` calls, over all attempts.

Around the run, the components rely on immutability more than on locks: references
and halt marks keep their promises with every lock lost, because rows are inserted once
and a contradicting batch is refused as a whole; admission can be repeated because a
proof only gains heights; the calendar is safe because it refuses whenever a coverage
row and the versions it vouches for disagree. Where a component does rely on exclusion
that nothing provides, the model shows it (`components_shared_clone`).

### Findings

* `lifecycle_retry`: a transient failure is recorded as FAILED before Celery
  retries; the retry finds FAILED and does nothing. `docs/PROGRESS.md:160` says
  that failed work reruns.
* `orders_lost_halt`: the event of a second manual halt is rolled back, because
  its halt reference request conflicts with the first one's. `execution/halt.py:6`
  says a halt is never lost.
* `orders_short`: after the operator's flatten, the residual sell of the halted
  attempt is still allowed and opens a short. `risk/kill_switch.py:114` says the
  book is long-only and a SELL reduces risk.
* `components_shared_clone`: all processes of the worker use the one clone
  `ANCHOR_GIT_DIR` names (`orchestration/bootstrap.py:85`), and only the run is
  locked. After `git commit` of one, `git checkout -f -B` of another drops the commit;
  `git rev-parse HEAD` then returns the old head, the push has nothing to send, the
  old head is reachable, and the run is ANCHORED without a public manifest.
  `orchestration/anchor_stage.py:9` says the manifest's commit is confirmed
  reachable. With a clone per worker, `AnchorsArePublic` proves it.

Observations met while modelling the core, without a run of their own: a reply is
charged before it is cached, so that when the process dies in between, or the cache
refuses it, which fails the step, the resumed run sends the same call again, although
the docstring (base.py:253) says it is never billed twice (hence `dropped` in
`RebilledOnlyIfDropped`); an upsert of order rows takes whatever was read, so that
a worker that outlived its execute lock stores an older read over another worker's
newer, even final, row until the next reconciliation (write.py:829, whose docstring at
806 says that the state moves forward); a backtest
holds no advance lock, so `reset_run` is not refused while one flushes
(sink.py:170-171 says it is; `VerdictsBackCommitment` is therefore stated for
live runs); `reset_run` does not look for a newer active run of the key
(hence `OneActiveRunUnlessReset`); the red-team stage asks the discarded votes
of its candidates again and stores the answers, but the pool is formed already
(runner.py:119, pipeline.py:389), so `VerdictsBackCommitment` says that what was
used is stored, not the converse; a call that waits in the rate limiter or in a
backoff when the ceiling is reached is still sent, because the budget is looked
at before `complete` and not in it (base.py:310,315); the spend of an attempt
that crashes is not recorded, hence `exact` in `LedgerIsTrue`; a run whose budget
is exhausted stays so after a reset, which keeps the cost (write.py:731).

Observations about the components:

* A manifest written but not committed when a worker dies stays in the clone as an
  untracked file: every retry finds it present, finds no commit of it and raises
  (anchor_adapters.py:249,263). The run stays COMMITTED until someone cleans the clone.
* With passes of the upgrader that overlap (`OverlappingPasses`), a slow pass stores the
  older proof over a newer one, and an admitted run may lose its height
  (anchor_stage.py:222; `verified_at` is coalesced, the proof is not).
* Without a header source the upgrader completes proofs but never confirms one;
  admission verifies them again with a source of its own.
* A long `capture_due` writes with the clock it was started with
  (references.py:297): rows may carry an `available_at` before they existed.
* A feed's success is recorded per name by the backfill (backfill.py:109), so the
  last good name makes the feed fresh; and a feed that was down longer than the
  lookback is fresh again although the gap stays (scheduled.py:67). `FreshMeansStored`
  therefore speaks of polls and of their window.
* If a session's hours change and change back (`HoursReturn`), the version of the
  first time is not stored again and the calendar answers with the middle one; a
  session cancelled after it was stored makes every later view refuse for good.
* A news text edited under its old stamp (`SilentEdits`) is stored once, with the
  stamp of the old text: a backfill that comes later shows the new text as of then.
* The current sector and listing of a security are read for past dates too.
* Agents that are not to see prices or insiders still depend on them: the size tier
  rests on price (partitions.py:453), masking on Form 4 filers.
* Nothing outside the tests calls `build_as_of` or `insert_features`.
* `conflicting_evidence` of the sequential test is not reached at the checked size.
* The token bucket has no queue: a large request may wait as long as small ones keep
  coming; in the first minute up to twice the rate passes (burst and refill), which
  is what `LimitsAreKept` allows.

## 5. Fairness

`RunLifecycle`: workers keep taking steps (WF on `Work`). An answer that is
asked for again and again arrives at last: SF on the non-failing `Dispatch`,
`RunStep`, `AnchorLoad`, the effect of `Publish` and the effect of
`RecordFailure`, each of which may lose to a raise or to a failing call a
number of times but not for ever. The beat runs `sweep` for ever, and it
enqueues `advance_run` for every run that is stale PENDING or COMMITTED: SF on
`Swept`, because a worker may be busy in between. No fairness is given to the
agents answering well, to the operator, to execution, or to faults.
`RetrySpec` adds that every delivery is repeated for ever, the most generous
reading of a retry; even so FAILED stays FAILED.

`OrderExecution`: a failed task is retried (three times, at least `MaxFaults`)
and a dead worker's task is redelivered (`acks_late`), so WF on `Start` and on
an attempt's steps; a halt under way goes on; `sweep` enqueues `reconcile` as
long as a stored order looks working: SF, because it needs the lock. Of the
broker only that it answers a cancel and fills a market order in the end; limit
orders may rest for ever.

Liveness is checked with locks kept.

`Confirmation`: outages end (WF on `ComeBack`) and beat starts a pass every hour, whose
steps go on (WF on `UpgradeStep`, per upgrader); nothing is assumed of the calendars,
`AnchoredIsConfirmed` asks only for runs one of whose calendars has reached the
chain. `ReferenceCapture`: time passes, and beat starts polls and sweeps every few
minutes (WF on `Advance` and on the steps of live and halt kinds); nothing starts the
references of a backtest but an operator, so none is promised. Faults are bounded in
both. The other components state no fairness.

`AgentFanOut` states no fairness. `AttemptsGoOn` says that an attempt under way
always has a step that is not a fault, and that the guards written out in `CanGoOn`
are met; each of these steps moves a job or the attempt forward.

## 6. Proofs

The type invariants (`TypeCorrect`) are left to the proofs, which need no instance; the
runs check the properties above.

All theorems are listed in `PROJECT.json` (`theorems`); they hold for every
number of workers, runs, names, quantities, faults and halts. The assumptions
are the named ASSUMEs of the modules (a non-worker, a non-value, naturals for
the bounds, targets within `MaxQty`); theorems that need more say so in their
ASSUME: a clone per worker (`SharedClone = FALSE`), stamps that follow the text
(`SilentEdits = FALSE`), finitely many symbols, passes of the upgrader that do not
overlap, hours that do not return, and for three theorems of `OrderExecution` what
the run `orders_safety` fixes too.

`RunLifecycleProofs`. The invariants `EvidenceBacksStatus`,
`OrdersFollowPublication` and `ExecutedWasNeverHalted` are not inductive: that a
run marked anchored is really public depends on what the marking worker saw
before. `EvidenceInv` adds `RowsAgree` (the evidence rows of a run are absent or
equal), `OnlyClaimed` (nothing exists of a run id not handed out) and
`WorkersKnow`: a worker that publishes holds the stored commitment, one that
marks has it on the remote, one that executes has an anchored run that is
unhalted or already HALTED. The key lemma, `RowsStep`, shows besides that what a
worker knows is stable under every step of the others; this is why no lock
appears in the argument. `EvidenceKept` and `HaltIsFinal` follow from it.
`StatusMovesForward` and `ImplementsLedger` need `MutexInv` (a worker inside the
pipeline holds the advance lock, one inside the executor the execute lock), and
are proved for `LiveRuns = Runs` and no lost lock. So are two invariants about the
*builder* of a run, the worker between the start of a step and its flush.
`OneActiveRunUnlessReset` rests on `BuiltIsActive`: a run is built only while it is
active, halted or was reset meanwhile, so that no flush makes an abandoned run active
beside a newer one. `VerdictsBackCommitment` rests on `BuilderHas`: whatever is stored
of the run is what its builder holds, so that the first-row-stands rule never keeps a
verdict other than the one the book used.

`OrderExecutionProofs`. `NoOverfill` speaks of fills, which the broker makes.
`ExposureInv` moves the bound to where the code decides it: every order, and
every submission still under way, is *backed* by a target some attempt asked
for; a residual is backed together with the final fills of its limit order;
a read that said an order is final stays true (`SeenIsFinal`), and a leg that
reaches the market phase has read its limit as final (`LimitsAreClosed`). With
that, `NoOverfill`, `SecondLegWaits`, `RowsNeverOverstate`, `EndsAreFinal` and
the implementation of `Exposure` are proved, with or without lost locks and
late submissions.

Three more properties of the orders are true only in a narrower world, and their
theorems say which. `BuyingStops` (`HaltStopsBuying`), `ExecutedRunsAreBacked`
(`ExecutedIsBacked`) and `NeverShort` (`LongOnly`) assume that the execute lock is
kept and no submission lands late; the first and the last also that no operator
commands run beside (`Operators = {}`). Without these the properties are false, for
reasons the code does not hide: an operator's event falls between the check of the
switch and the submission, a flatten sells what an attempt still counts on
(`orders_short`), a submission taken for failed arrives after the books were closed,
two attempts sell the same shares. `Alone` says that one attempt works at a time and
none after EXECUTED. On it rests what an attempt *knows* (`BookInv`): the orders
of the run are those of its targets, what it has seen of one is no more than what the
broker has, and a row it wrote says what it has seen; so an attempt that ends
well leaves final orders and equal rows. For `BuyingStops`, `EngagedInTime` says that
an event on record has closed the switch by the time any attempt looks at it, and
`HaltedSubmitsSell` that a submission under way after that sells. For `NeverShort`,
`HoldInv` carries an account: for every name, what the run's limit and market orders
may still sell is held, whether a target was planned from those holdings or found
stored by a retry.

`AgentFanOutProofs`. `SpendBounded` is not inductive: a reply adds to the spend
whatever it is. `InFlightInv` says that no more calls are inside the semaphore
than it has places, and that the spend plus the price of all calls in flight is
within the bound; a call joins the flight only while the spend is below the
ceiling. `SpendSteps` reduces every step to five kinds, and the bound is
arithmetic about those, for any number of agents, names, places and attempts.
`LedgerIsTrue` follows from `LedgerInv` (while the step runs the counter is right,
between attempts the row is), `RebilledOnlyIfDropped` from `CacheInv` (a task that had
a valid reply is cached, or about to be, or its reply was lost; a cached one is
never at work), `VerdictsAreAccounted` from `AccountInv`. `AbortsAreDeadLettered`
looks at the moment of the flush only; `DeadLetterInv` says that a task that was given
up has its letter from that step on, and that past its stages a step has no task
waiting or at work. `BooksAreReviewed` speaks of the stored book; `BookInv` says when
the book in memory becomes `Fit` to be stored (after the review, or without
positions), and `FloorIsWithin` is the arithmetic of the veto budget. `CeilingIsFinal`
is about a run, not about one attempt; `CeilingInv` carries it through attempts and
resets: once the recorded cost has reached the ceiling there is no call in flight, and
an attempt under way counts at least that much, so all a thread can do is to find its
budget exceeded (`ThreadsStop`). `NoAttemptIsStuck` is the part of `AttemptsGoOn` without
ENABLED: a stage in which nobody is at work has a place for its queue, because all that
holds a place is one of its own tasks (`CioInv` keeps the CIO's call out of the stages),
and what is flushed is complete (`AccountInv`).

`GitAnchorProofs`. `PublishedManifest` speaks of the end of a task; the invariant
`GitInv` says for every place of a task what its clone carries (`Carries`): from the
`git add` on, the index or the head of the worker's own clone holds its manifest, from
`rev-parse` on the commit it remembers does, and at the end that commit is reachable;
it stays so because the branch only grows (`ReachableStays`). `OwnStep`
uses that no other worker touches the clone, which is exactly what a shared clone breaks.

`FeedIngestProofs`. `FreshMeansStored` holds only while the feed is fresh;
`ClaimHolds` drops that condition and is inductive: facts appear at today's date,
outside every window already claimed, and stored facts are never deleted.

`ReferenceCaptureProofs`. `CaptureInv` has two halves: what a worker read is `Honest`
(its clock is not ahead, its symbols are those of the stored set), and what is stored
is `Final` (a reason is stored only after its deadline). `InsertKeeps` shows that a
batch adds sound rows only to missing symbols, so neither lost locks nor
contradicting batches matter. `SweptMeansMarked` adds that marked symbols belong to
the set, so that counting rows is as good as comparing sets.

`PointInTimeProofs`. A stored row is `Dated` (its revision is published by its
`available_at`, and a bar is stored only when its session can no longer change it), a
fetch in progress is honest, and what was built as of t rests on revisions up to t; the
look-ahead property then follows for every agent from the same lemma about `AsOf`.

`ComponentProofs` starts from a lemma about numbers: that a set of them has a least
member follows from the library's well-foundedness of `<`, used on sets, so that an
argument by a smallest counterexample needs no induction rule.

* `AdmissionsAreStable`. An admission decides from what it read; the property asks what
  it would decide now. `ConfInv` says that a pass that is running holds, for each run it
  has not stored yet, no less than the stored proof (this is where overlapping passes
  are excluded), that evidence being read is no later than the stored, and that a ticket
  is *backed*: the stored proof still has the heights, the status is still scored and the
  outcome still later than the block. `MergeGrows` and `LowestIsLeast` then say that an
  upgraded proof never attests a later block.
* `CalendarAnswersAreCurrent`. `CalendarInv` relates rows, versions and reads: a stored
  row was read by the fetch it names, every version was, a fetch that covered a date
  left its rows, and, as hours do not return, a date that was read the same twice was
  the same in between. `RowSaysLastRead` and `CoveredIsCurrent` follow the rules of the
  answer through these. The proof shows besides that then a clause of `Consistent`
  (`Vouched`) is implied: it protects only against hours that return.
* `StoredPricesAreTrue`. A world is an order of the trades of the whole tape and a
  meaning for every code that cannot be read. `SeenIsHonest` says that what the rules
  carry from one instant to the next (a trade qualified, one is unknown) is so in every
  world: a qualifying trade did set the price, and if nothing qualified and nothing is
  unknown, nothing did. Then every verdict that decides is right (`GroupIsJudged`),
  instants that decide nothing have no trade that sets the price (`NothingDecided`), and
  the first or last decisive instant is the first or last in every world (`HaltIsFirst`,
  `EntryIsLast`). A halt may be resolved from a part of the tape: `TapeInv` keeps what
  was read then. That the recursions of `Seen` and `Sets` define what they say is shown
  by a shortest counterexample.
* `EveryLimitIsKept`. For the window the invariant counts the members of the log window
  ending at *any* time, past ends included; a window of the server, delays included, lies
  inside one of those (`WindowIsKept`). For a bucket it says that, since any time, what
  went through together with what is left is within the burst and the refill
  (`BucketInv`, preserved by every use: `UseKeeps`). The lemmas on sums (`Total`) show
  that the fold of the community modules does not depend on the order in which it
  chooses members.
* `EveryBookKeepsItsLimits`. The steps of sizing are lemmas about any weights: capping
  positions, capping sectors (`SectorsAreCapped`) and scaling (`ScaledFits`) each bring
  in a limit, rounding down included, and every later step only makes positions smaller,
  which keeps the limits already met (`WithinKeeps`); the last step brings in the minimum.
  `RawBooks` shows that neither mode divides by 0. For the weights of the pool,
  `PinnedIsStable` shows that the recursion of the floor ends for every finite set of
  voters, where nobody is below the floor, and `FloorIsKept` that the weights then are
  a whole. The assumptions are that the universe is finite and that a volatility is
  no more than the whole, without which an inverse volatility is rounded to nothing.
* `CrossingsStayRare`. Of a state with n weeks to come, `RareFrom(n)` says that the
  crossing paths times the threshold are no more than the wealth times all paths.
  `BetIsFair` shows that what a bet makes of an amount won and of the same amount lost
  is together no more than twice the wealth, since both divisions round down and the
  fraction bet is between 0 and the cap whatever the moments are (`LambdaIsAFraction`);
  so the bound goes from n weeks to n + 1 (`RareWithOneMore`), and the least n for which
  it fails does not exist. That the functions `Paths` and `Crossings` satisfy their
  equations is shown in the same way.

Only model-checked: that a guard of `CanGoOn` means a step (the ENABLED of `AttemptsGoOn`),
and all liveness (liveness under fairness and ENABLED are beyond this prover).

## 7. Not modelled

Startup checks, wiring and data loading; contracts, schemas and configuration;
migrations; prompts, scripts and the placeholder dashboard: validation, data types,
DDL and text, without protocol state of their own. Of the components that are
modelled in part: HTTP, field mapping and the condition probe of the feeds; the
real-valued core of pooling, stacker, features, gate and the walk-forward; the
execution window and the T-bill day counts, which are arithmetic of one date; the
conditions that trip the kill switch; rendering, tokens and masking of a partition;
authentication and read routes of the API. Inside the modelled components,
alerting, logging and the classification of HTTP errors are abstracted as described
above.
