---------------------------- MODULE AgentFanOut ----------------------------
(***************************************************************************)
(* One run's agent work: the fan-out of model calls (src/agents/runner.py, *)
(* src/agents/base.py), the CIO's review (src/agents/cio.py) and the step  *)
(* that drives both and flushes the result (_execute of                    *)
(* src/orchestration/pipeline.py), over the attempts the run takes.        *)
(*                                                                         *)
(* Calls run in threads; they share the run budget, the verdict cache and  *)
(* the dead-letter queue.  What a thread returns or raises is handled by   *)
(* the event loop, which also holds the stop event and the semaphore.  A   *)
(* failed stage cancels its tasks, but threads that started run on.        *)
(*                                                                         *)
(* One attempt runs at a time (the run lock of RunLifecycle).  What a      *)
(* model says is left out: a reply is valid, invalid, unaccountable (no    *)
(* usable model or usage) or an error.  The shared rate limiter is part of *)
(* a request's latency.                                                    *)
(***************************************************************************)
EXTENDS Integers, FiniteSets

CONSTANTS
  Voters,       \* the voting agents
  Red,          \* the red-team agent
  Names,        \* securities of the snapshot
  TopN,         \* RED_TEAM_TOP_N: how many candidates the red team reviews
  VetoPct,      \* cio_veto_budget, in percent
  Costs,        \* what one call may cost
  MaxCost,      \* the most a call costs
  Ceiling,      \* run_budget_usd
  Concurrency,  \* concurrency: calls running at once
  MaxAttempts,  \* bound: attempts of the run
  MaxFaults     \* bound: crashes and failed writes

ASSUME FanOutAssumption ==
  /\ IsFiniteSet(Voters) /\ IsFiniteSet(Names)
  /\ Costs \subseteq Nat /\ MaxCost \in Nat /\ \A c \in Costs : c <= MaxCost
  /\ Ceiling \in Nat \ {0} /\ Concurrency \in Nat \ {0}
  /\ TopN \in Nat /\ VetoPct \in 0 .. 100
  /\ MaxAttempts \in Nat /\ MaxFaults \in Nat

Votes == Voters \X Names
Reviews == {Red} \X Names
Tasks == Votes \cup Reviews
Cio == <<"CIO", "*">>
Jobs == Tasks \cup {Cio}

ASSUME CioIsNoTask == Cio \notin Tasks

VARIABLES
  status,     \* runs.status
  ledger,     \* runs.total_cost_usd
  stored,     \* tasks with an agent_verdicts row
  decision,   \* the committed book: proposed and final names, and whether it was reviewed
  cached,     \* tasks with a reply in the verdict cache
  phase,      \* where the attempt is
  call,       \* call[j]: where the call of job j is
  stop,       \* the stop event of the stage
  spent,      \* RunBudget._spent
  held,       \* verdicts in memory: seeds and what was sunk
  accounted,  \* tasks with telemetry
  pooled,     \* names with a pooled forecast
  book,       \* the book: proposed and final names
  dlq,        \* jobs dead-lettered by this attempt
  billed,     \* what the provider was paid so far (history)
  unbooked,   \* the part no usage was reported for (history)
  exact,      \* every attempt wrote its whole spend (history)
  answered,   \* tasks with a valid reply (history)
  dropped,    \* of these, the ones whose reply was lost before it was cached (history)
  attempts,
  faults

run == <<status, ledger, stored, decision>>
budget == <<spent, billed, unbooked>>
memory == <<stop, held, accounted, pooled, book>>
replies == <<answered, dropped>>
ghosts == <<exact, attempts, faults>>
vars == <<run, cached, phase, call, memory, dlq, budget, replies, ghosts>>

NoBook == [proposed |-> {}, final |-> {}, reviewed |-> FALSE]

Asking == {"ask1", "ask2"}
Sent == {"sent1", "sent2"}
Running == Asking \cup Sent \cup {"paid"}       \* the thread is at work
Busy == Running \cup {"valid", "raised"}        \* the job is inside the semaphore
CallStates == Busy \cup {"out", "queued", "held", "invalid", "dead", "aborted"}
Phases == {"idle", "votes", "reviews", "cio", "partial", "commit", "failing", "record"}

Books == [proposed : SUBSET Names, final : SUBSET Names, reviewed : BOOLEAN]

TypeOK ==
  /\ status \in {"PENDING", "PARTIAL", "FAILED", "COMMITTED"}
  /\ ledger \in Nat
  /\ stored \subseteq Tasks
  /\ {decision, book} \subseteq Books
  /\ cached \subseteq Tasks
  /\ phase \in Phases
  /\ call \in [Jobs -> CallStates]
  /\ stop \in BOOLEAN
  /\ {spent, billed, unbooked} \subseteq Nat
  /\ held \subseteq Tasks
  /\ accounted \subseteq Tasks
  /\ pooled \subseteq Names
  /\ dlq \subseteq Jobs
  /\ exact \in BOOLEAN
  /\ answered \subseteq Tasks /\ dropped \subseteq Tasks
  /\ attempts \in 0 .. MaxAttempts
  /\ faults \in 0 .. MaxFaults

Init ==
  /\ status = "PENDING" /\ ledger = 0 /\ stored = {} /\ decision = NoBook
  /\ cached = {} /\ answered = {} /\ dropped = {} /\ dlq = {}
  /\ phase = "idle"
  /\ call = [j \in Jobs |-> "out"]
  /\ stop = FALSE /\ held = {} /\ accounted = {} /\ pooled = {} /\ book = NoBook
  /\ spent = 0 /\ billed = 0 /\ unbooked = 0
  /\ exact = TRUE /\ attempts = 0 /\ faults = 0

-----------------------------------------------------------------------------
(* One call, in a thread.                                                  *)

At(j, states) == call[j] \in states
To(j, state) == call' = [call EXCEPT ![j] = state]
DeadLetter(j) == dlq' = dlq \cup {j}

Flight == {j \in Jobs : At(j, Sent)}
InGate == {j \in Jobs : At(j, Busy)}

Fault == faults < MaxFaults /\ faults' = faults + 1

\* Seeded bug: the budget is not looked at before a request.
CheckNothing(j) ==
  /\ At(j, Asking)
  /\ To(j, IF call[j] = "ask1" THEN "sent1" ELSE "sent2")
  /\ UNCHANGED <<run, cached, phase, memory, dlq, budget, replies, ghosts>>
\* The budget is looked at before every request, the repair included.
Check(j) ==
  /\ At(j, Asking)
  /\ IF spent >= Ceiling
     THEN To(j, "raised") /\ DeadLetter(j)
     ELSE To(j, IF call[j] = "ask1" THEN "sent1" ELSE "sent2") /\ UNCHANGED dlq
  /\ UNCHANGED <<run, cached, phase, memory, budget, replies, ghosts>>

\* The provider served a request, and the client cannot use its answer: it was
\* read too late, or broken.  The transport posts again, or gives up.
Unheard(j, cost) ==
  /\ At(j, Sent)
  /\ Fault
  /\ billed' = billed + cost /\ unbooked' = unbooked + cost
  /\ UNCHANGED <<run, cached, phase, call, memory, dlq, spent, replies, exact, attempts>>

\* The transport gives up after its retries.
Transient(j) ==
  /\ At(j, Sent)
  /\ To(j, "dead") /\ DeadLetter(j)
  /\ UNCHANGED <<run, cached, phase, memory, budget, replies, ghosts>>

\* The reply cannot be priced, or the CIO was answered by the wrong tier: it
\* is paid for, but nothing is booked.
Unaccountable(j, cost) ==
  /\ At(j, Sent)
  /\ To(j, "raised")
  /\ billed' = billed + cost /\ unbooked' = unbooked + cost
  /\ UNCHANGED <<run, cached, phase, memory, dlq, spent, replies, ghosts>>

\* budget.charge: the cost is booked in any case.
Charge(cost) ==
  /\ billed' = billed + cost
  /\ spent' = spent + cost
  /\ UNCHANGED unbooked

\* The reply that reaches the ceiling is paid for and dropped.
ReplyOverBudget(j, cost) ==
  /\ At(j, Sent) /\ spent + cost >= Ceiling
  /\ Charge(cost)
  /\ To(j, "raised") /\ DeadLetter(j)
  /\ UNCHANGED <<run, cached, phase, memory, replies, ghosts>>

\* A valid reply is paid for first.
ReplyValid(j, cost) ==
  /\ At(j, Sent) /\ spent + cost < Ceiling
  /\ Charge(cost)
  /\ To(j, "paid")
  /\ answered' = answered \cup ({j} \cap Tasks)
  /\ UNCHANGED <<run, cached, phase, memory, dlq, dropped, ghosts>>

\* Seeded bug: the reply is left to the event loop, which caches nothing.
ReturnUncached(j) ==
  /\ At(j, {"paid"})
  /\ To(j, "valid")
  /\ UNCHANGED <<run, cached, phase, memory, dlq, budget, replies, ghosts>>
\* What was paid for is cached before the thread returns it; the CIO's reply is
\* never cached.
Keep(j) ==
  /\ At(j, {"paid"})
  /\ To(j, "valid")
  /\ cached' = cached \cup ({j} \cap Tasks)
  /\ dropped' = dropped \ {j}
  /\ UNCHANGED <<run, phase, memory, dlq, budget, answered, ghosts>>

\* An invalid reply is repaired once, then discarded; the CIO's second one is
\* dead-lettered.
ReplyInvalid(j, cost) ==
  /\ At(j, Sent) /\ spent + cost < Ceiling
  /\ Charge(cost)
  /\ To(j, IF call[j] = "sent1" THEN "ask2" ELSE IF j = Cio THEN "dead" ELSE "invalid")
  /\ dlq' = IF call[j] = "sent2" /\ j = Cio THEN dlq \cup {j} ELSE dlq
  /\ UNCHANGED <<run, cached, phase, memory, replies, ghosts>>

\* The thread raises what nobody handles: the whole step fails.  Tasks that
\* wait are cancelled, and so are threads that did not start; others run on.
Fail(j) ==
  /\ phase' = "failing"
  /\ \E unstarted \in SUBSET {i \in Jobs : At(i, {"ask1"})} :
       call' = [i \in Jobs |-> IF i \notin unstarted \cup {j} /\ At(i, Running)
                                THEN call[i] ELSE "out"]

\* A rejected request is an error of the configuration.
HardError(j) ==
  /\ At(j, Sent)
  /\ Fail(j)
  /\ UNCHANGED <<run, cached, memory, dlq, budget, replies, ghosts>>

\* The cache refuses a reply that is paid for.
CacheRefuses(j) ==
  /\ At(j, {"paid"}) /\ j # Cio
  /\ Fault
  /\ Fail(j)
  /\ dropped' = dropped \cup {j}
  /\ UNCHANGED <<run, cached, memory, dlq, budget, answered, exact, attempts>>

Thread(j) ==
  \/ Check(j) \/ Transient(j) \/ HardError(j) \/ Keep(j) \/ CacheRefuses(j)
  \/ \E cost \in Costs :
       \/ Unheard(j, cost) \/ Unaccountable(j, cost)
       \/ ReplyOverBudget(j, cost) \/ ReplyValid(j, cost) \/ ReplyInvalid(j, cost)

-----------------------------------------------------------------------------
(* The event loop of a stage.                                              *)

InStage == phase \in {"votes", "reviews"}

\* Seeded bug: one job too many.
PlaceAndOne == Cardinality(InGate) <= Concurrency
\* A place in the semaphore.
Place == Cardinality(InGate) < Concurrency

\* The job gets its place; a cached reply answers at once.
Take(j) ==
  /\ InStage /\ At(j, {"queued"}) /\ ~ stop /\ Place
  /\ To(j, IF j \in cached THEN "valid" ELSE "ask1")
  /\ UNCHANGED <<run, cached, phase, memory, dlq, budget, replies, ghosts>>

\* The cache cannot be read: the step fails, and no request was sent.
CacheUnreadable(j) ==
  /\ InStage /\ At(j, {"queued"}) /\ ~ stop /\ Place
  /\ Fault
  /\ Fail(j)
  /\ UNCHANGED <<run, cached, memory, dlq, budget, replies, exact, attempts>>

\* Seeded bug: a job that finds the stop event set leaves without a trace.
SkipSilently(j) ==
  /\ InStage /\ At(j, {"queued"}) /\ stop /\ Place
  /\ To(j, "aborted")
  /\ UNCHANGED <<run, cached, phase, memory, dlq, budget, replies, ghosts>>
\* After an abort what was not called yet is dead-lettered, once it has a place.
Skip(j) ==
  /\ InStage /\ At(j, {"queued"}) /\ stop /\ Place
  /\ To(j, "aborted") /\ DeadLetter(j)
  /\ UNCHANGED <<run, cached, phase, memory, budget, replies, ghosts>>

\* A verdict goes to the sink, also after the stop event was set.
Sink(j) ==
  /\ InStage /\ At(j, {"valid"})
  /\ To(j, "held")
  /\ held' = held \cup {j}
  /\ UNCHANGED <<run, cached, phase, stop, accounted, pooled, book, dlq, budget, replies, ghosts>>

\* Seeded bug: the aborting error leaves the semaphore taken.
HandleAbortHoldsPlace(j) ==
  /\ InStage /\ At(j, {"raised"}) /\ ~ stop
  /\ stop' = TRUE /\ DeadLetter(j)
  /\ UNCHANGED <<run, cached, phase, call, held, accounted, pooled, book, budget, replies, ghosts>>
\* An aborting error stops the stage.
HandleAbort(j) ==
  /\ InStage /\ At(j, {"raised"})
  /\ To(j, "aborted") /\ stop' = TRUE /\ DeadLetter(j)
  /\ UNCHANGED <<run, cached, phase, held, accounted, pooled, book, budget, replies, ghosts>>

Loop(j) == Take(j) \/ CacheUnreadable(j) \/ Skip(j) \/ Sink(j) \/ HandleAbort(j)

-----------------------------------------------------------------------------
(* The step around the stages.                                             *)

\* Jobs of a stage that are not completed yet.
Fan(jobs) == [j \in Jobs |-> IF j \in jobs THEN "queued" ELSE "out"]

Forget == stop' = FALSE /\ accounted' = {} /\ pooled' = {} /\ book' = NoBook

\* run_step: the budget starts from the recorded cost, the verdicts from the
\* stored ones.
Opening(carried) ==
  /\ phase = "idle" /\ status # "COMMITTED" /\ attempts < MaxAttempts
  /\ phase' = "votes"
  /\ call' = Fan(Votes \ stored)
  /\ held' = stored /\ spent' = carried /\ dlq' = {}
  /\ Forget
  /\ attempts' = attempts + 1
  /\ UNCHANGED <<run, cached, billed, unbooked, replies, exact, faults>>
\* Seeded bug: a resumed run starts with a fresh budget.
StartFromZero == Opening(0)
Start == Opening(ledger)

StageOver == \A j \in Tasks : ~ At(j, Busy \cup {"queued"})
Aborted == \E j \in Tasks : At(j, {"aborted", "dead"})

\* Seeded bug: an aborted stage leaves its telemetry behind.
TelemetryOfGoodStages == IF Aborted THEN {} ELSE {j \in Tasks : At(j, {"held"})}
\* What the stage measured, complete or not.
NewTelemetry == {j \in Tasks : At(j, {"held"})}

\* size_committee_book: some of the names with a pool are proposed; a book
\* without positions needs no review.
Propose(names) ==
  \E proposed \in SUBSET names :
    /\ book' = [NoBook EXCEPT !.proposed = proposed, !.final = proposed]
    /\ phase' = IF proposed = {} THEN "commit" ELSE "cio"
    /\ call' = [Fan({}) EXCEPT ![Cio] = IF proposed = {} THEN "out" ELSE "ask1"]

\* The RED_TEAM_TOP_N names that rank first.
Candidates(names) ==
  {top \in SUBSET names :
     Cardinality(top) = TopN \/ (top = names /\ Cardinality(top) < TopN)}

\* The votes are in: pool them and choose the candidates of the red team.  A
\* name whose votes are all invalid or insufficient has no pool.  The red-team
\* stage also asks its candidates' discarded votes again.
PoolVotes ==
  \E names \in SUBSET {v[2] : v \in held \cap Votes} :
    /\ pooled' = names
    /\ \E top \in Candidates(names) :
         IF top = {} THEN Propose(names)
         ELSE /\ phase' = "reviews"
              /\ call' = Fan(((Voters \cup {Red}) \X top) \ held)
              /\ UNCHANGED book

EndVotes ==
  /\ phase = "votes" /\ StageOver
  /\ accounted' = accounted \cup NewTelemetry
  /\ IF Aborted THEN phase' = "partial" /\ UNCHANGED <<call, pooled, book>>
                ELSE PoolVotes
  /\ stop' = FALSE
  /\ UNCHANGED <<run, cached, held, dlq, budget, replies, ghosts>>

EndReviews ==
  /\ phase = "reviews" /\ StageOver
  /\ accounted' = accounted \cup NewTelemetry
  /\ IF Aborted THEN phase' = "partial" /\ UNCHANGED <<call, book>>
                ELSE Propose(pooled)
  /\ UNCHANGED <<run, cached, stop, held, pooled, dlq, budget, replies, ghosts>>

\* Seeded bug: one veto is always allowed.
MaxVetoesAtLeastOne(n) == IF n > 0 /\ n * VetoPct < 100 THEN 1 ELSE (n * VetoPct) \div 100
\* max_vetoes: the floor.
MaxVetoes(n) == (n * VetoPct) \div 100

\* apply_cio_decision: vetoed names leave the book.  More vetoes than the
\* budget allows are a miscalibration: the proposed book stands, and the
\* decision is dead-lettered.
Review ==
  \E vetoed \in SUBSET book.proposed :
    LET over == Cardinality(vetoed) > MaxVetoes(Cardinality(book.proposed)) IN
    /\ book' = [book EXCEPT !.final = IF over THEN @ ELSE @ \ vetoed, !.reviewed = TRUE]
    /\ dlq' = IF over THEN dlq \cup {Cio} ELSE dlq

\* Seeded bug: without a usable reply the proposed book stands.
EndCioFallback ==
  /\ phase = "cio" /\ At(Cio, {"valid", "dead", "raised"})
  /\ phase' = IF At(Cio, {"raised"}) THEN "partial" ELSE "commit"
  /\ IF At(Cio, {"valid"}) THEN Review ELSE UNCHANGED <<book, dlq>>
  /\ UNCHANGED <<run, cached, call, stop, held, accounted, pooled, budget, replies, ghosts>>
\* No valid reply is not an approval.
EndCio ==
  /\ phase = "cio" /\ At(Cio, {"valid", "dead", "raised"})
  /\ IF At(Cio, {"valid"}) THEN phase' = "commit" /\ Review
                           ELSE phase' = "partial" /\ UNCHANGED <<book, dlq>>
  /\ UNCHANGED <<run, cached, call, stop, held, accounted, pooled, budget, replies, ghosts>>

-----------------------------------------------------------------------------
(* The end of an attempt.                                                  *)

\* What the attempt held in memory is gone, replies that were not cached yet
\* among it.
End ==
  /\ phase' = "idle"
  /\ call' = Fan({})
  /\ spent' = 0 /\ held' = {}
  /\ Forget
  /\ dropped' = dropped \cup {j \in Tasks : At(j, {"paid"})}
  /\ UNCHANGED <<billed, unbooked, dlq, cached, answered, attempts>>

\* _new_verdict_records: a new verdict without telemetry is an error.
Complete == held \ stored \subseteq accounted

Record(new, verdicts) ==
  /\ status' = new
  /\ ledger' = spent
  /\ stored' = stored \cup verdicts

FlushPartial ==
  /\ phase = "partial" /\ Complete
  /\ Record("PARTIAL", held) /\ End
  /\ UNCHANGED <<decision, exact, faults>>

FlushCommit ==
  /\ phase = "commit" /\ Complete
  /\ Record("COMMITTED", held) /\ decision' = book
  /\ End
  /\ UNCHANGED <<exact, faults>>

\* The records are incomplete, or the store refuses the transaction.
FlushFails ==
  /\ phase \in {"partial", "commit"}
  /\ IF Complete THEN Fault ELSE UNCHANGED faults
  /\ phase' = "record"
  /\ UNCHANGED <<run, cached, call, memory, dlq, budget, replies, exact, attempts>>

ThreadsDone == \A j \in Jobs : ~ At(j, Running)

\* _record_failure keeps the verdicts whose telemetry is complete; it may fail
\* as well.  asyncio.run waits for threads at work, but not for ever: what a
\* thread does after the step left it behind is not modelled.
RecordFailure ==
  /\ phase \in {"record", "failing"}
  /\ \/ /\ Record("FAILED", held \cap (stored \cup accounted))
        /\ exact' = (exact /\ ThreadsDone)
        /\ UNCHANGED faults
     \/ Fault /\ exact' = FALSE /\ UNCHANGED <<status, ledger, stored>>
  /\ End
  /\ UNCHANGED decision

Crash ==
  /\ phase # "idle"
  /\ Fault /\ exact' = FALSE
  /\ End
  /\ UNCHANGED run

\* reset_run: the verdicts go, the accumulated cost stays.
Reset ==
  /\ phase = "idle" /\ status \in {"PARTIAL", "FAILED"}
  /\ status' = "PENDING" /\ stored' = {}
  /\ UNCHANGED <<ledger, decision, cached, phase, call, memory, dlq, budget, replies, ghosts>>

-----------------------------------------------------------------------------

Conclude == EndVotes \/ EndReviews \/ EndCio \/ FlushPartial \/ FlushCommit \/ RecordFailure

Work ==
  \/ \E j \in Jobs : Thread(j)
  \/ \E j \in Tasks : Loop(j)
  \/ Conclude

Next == Start \/ Work \/ FlushFails \/ Crash \/ Reset

Spec == Init /\ [][Next]_vars

-----------------------------------------------------------------------------
(* Properties.                                                             *)

(* The budget is checked before a call and charged after it, by up to      *)
(* Concurrency threads (base.py:310,327): a run overspends by less than    *)
(* what the calls in flight cost, over all its attempts together.          *)
Overspend == Ceiling - 1 + MaxCost * Concurrency
SpendBounded == spent <= Overspend /\ ledger <= Overspend

(* What makes it inductive: every call in flight is within the bound too.  *)
InFlightInv ==
  /\ Cardinality(InGate) <= Concurrency
  /\ Flight # {} => spent + MaxCost * Cardinality(Flight) <= Overspend

(* The recorded cost of a run is what the provider was paid, but for       *)
(* posts whose answer was not heard, replies without usage, and attempts   *)
(* that died before they could write or left threads behind: a failed step *)
(* waits for its calls in flight, a resumed one starts from the recorded   *)
(* cost, and a reset keeps it (pipeline.py:287-298, write.py:731).         *)
LedgerIsTrue == phase = "idle" /\ exact => ledger + unbooked = billed

(* The docstring of run_agent_call says that an identical call is never    *)
(* billed again (base.py:253-254).  Between the charge (base.py:329) and   *)
(* the write to the cache (base.py:340) the code may fail, so what holds   *)
(* is this: a task that had a valid reply is sent again only if that reply *)
(* was lost before it was cached - the cache refused it, or the attempt    *)
(* ended first - by no attempt otherwise, whatever failed, crashed or was  *)
(* reset in between.                                                       *)
RebilledOnlyIfDropped == Flight \cap answered \subseteq dropped

(* A run whose recorded cost reached the ceiling is never billed again, by *)
(* no resume and after no reset, although the reply that reached it was    *)
(* dropped and its task is open (base.py:310,329, pipeline.py:287-290).    *)
CeilingIsFinal == [][ledger >= Ceiling => UNCHANGED billed]_vars

(* No flush meets a verdict without accounting (runner.py:160,             *)
(* pipeline.py:493): the telemetry of every verdict sunk by a stage is     *)
(* there when the step ends regularly, after an abort too.                 *)
VerdictsAreAccounted == phase \in {"partial", "commit"} => Complete

(* "everything not yet called goes to the DLQ" (runner.py:40): when a      *)
(* stage was aborted, each of its tasks has a verdict, was discarded as    *)
(* invalid, or is dead-lettered.                                           *)
AbortsAreDeadLettered ==
  phase = "partial" /\ Aborted =>
    \A j \in Tasks : At(j, {"out", "held", "invalid"}) \/ j \in dlq

(* "No valid CIO reply is not an approval" (pipeline.py:434): a committed  *)
(* book with positions was reviewed, and lost at most the vetoes the       *)
(* budget allows.                                                          *)
BooksAreReviewed ==
  LET lost == Cardinality(decision.proposed \ decision.final) IN
  /\ decision.proposed # {} => decision.reviewed
  /\ lost * 100 <= Cardinality(decision.proposed) * VetoPct

\* The guards of Work: a thread, the event loop or the step around them has something to do.
CanGoOn ==
  \/ \E j \in Jobs : At(j, Running)
  \/ InStage /\ \E j \in Tasks : At(j, {"valid", "raised"}) \/ (At(j, {"queued"}) /\ Place)
  \/ InStage /\ StageOver
  \/ phase = "cio" /\ At(Cio, {"valid", "dead", "raised"})
  \/ phase \in {"partial", "commit"} /\ Complete
  \/ phase \in {"record", "failing"}

(* No attempt waits for ever (runner.py:126,166): as long as it is not     *)
(* over, a thread, the event loop or the step around them can go on, and   *)
(* its guard is enough for a step.                                         *)
AttemptsGoOn == phase # "idle" => CanGoOn /\ ENABLED Work
=============================================================================
