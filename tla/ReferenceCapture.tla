-------------------------- MODULE ReferenceCapture --------------------------
(***************************************************************************)
(* Who writes the prices a run is scored at, and when.  Pollers capture    *)
(* the execution references of one committed run; sweepers resolve the     *)
(* halt references of its halt request.  Each works under an advisory lock *)
(* that is lost when its session dies, reads rows, calendar and quotes in  *)
(* separate transactions and writes one immutable batch at the end, with   *)
(* the clock reading it was started with.  Time is in coarse ticks: only   *)
(* the order of the deadlines matters.                                     *)
(***************************************************************************)
EXTENDS Naturals, FiniteSets

CONSTANTS
    Symbols,        \* every symbol that may need a mark
    Capturers,      \* processes that run the capture and sweep tasks
    Kinds,          \* the tasks explored: a subset of {"live", "backtest", "halt"}
    RefTimes,       \* D0 open + delay under the calendar versions to come
    Grace,          \* live_capture_grace_minutes
    HaltGrace,      \* halt_live_grace_minutes
    SipDelay,       \* 15 minutes before SIP history may be read
    Close,          \* close of the session the trigger falls in
    CoverageWait,   \* calendar_coverage_wait_minutes
    BeginBy,        \* bound on when the run commits or halts: its deadlines fit the clock
    MaxInstant,     \* bound on the clock
    CaptureFaults,  \* bound on deaths and failed tasks
    LosesLock       \* may a lock be lost under a running worker

ASSUME CaptureAssumption ==
    /\ Kinds \subseteq {"live", "backtest", "halt"}
    /\ RefTimes \subseteq Nat
    /\ {Grace, HaltGrace, SipDelay, Close, CoverageWait, BeginBy, MaxInstant, CaptureFaults} \subseteq Nat
    /\ LosesLock \in BOOLEAN

VARIABLES
    instant,    \* the clock
    kind,       \* what this behaviour is about
    began,      \* when the run committed, or the halt was requested; Later before
    required,   \* the canonical symbols as the store knows them now
    calendar,   \* reference time the stored calendar gives; Uncovered without one
    mapped,     \* is a provider condition map validated
    symbolSet,  \* the stored halt symbol set; {} before it is stored
    marks,      \* the stored reference of each symbol
    job,        \* what each worker has read
    captureFaults

captureVars == <<instant, kind, began, required, calendar, mapped, symbolSet, marks, job,
                 captureFaults>>
facts == <<kind, began, required, calendar, mapped>>

Later == MaxInstant + 1
Uncovered == 0
NoRow == [state |-> "none", ref |-> 0]
Price(ref) == [state |-> "resolved", ref |-> ref]
Unresolved(reason, ref) == [state |-> reason, ref |-> ref]
NoJob == [at |-> "idle"]
Free == ~LosesLock => \A w \in Capturers : job[w] = NoJob

CaptureInit ==
    /\ instant = 1
    /\ kind \in Kinds
    /\ began = Later
    /\ required \in SUBSET Symbols
    /\ calendar \in {Uncovered} \cup RefTimes
    /\ mapped \in IF kind = "live" THEN {FALSE} ELSE BOOLEAN     \* the live rules read quotes
    /\ symbolSet = {}
    /\ marks = [s \in Symbols |-> NoRow]
    /\ job = [w \in Capturers |-> NoJob]
    /\ captureFaults = 0

-----------------------------------------------------------------------------
(* The surroundings.                                                       *)

Advance ==
    /\ instant < MaxInstant /\ instant' = instant + 1
    /\ UNCHANGED <<facts, symbolSet, marks, job, captureFaults>>

BeginNow ==
    /\ began = Later /\ instant <= BeginBy /\ began' = instant
    /\ UNCHANGED <<instant, kind, required, calendar, mapped, symbolSet, marks, job, captureFaults>>

\* The commitment of the run is stored.
StoreCommitment == kind # "halt" /\ BeginNow
\* record_halt stores the request with its event.
RequestHalt == kind = "halt" /\ BeginNow
Begin == StoreCommitment \/ RequestHalt

\* A calendar range is published, or a changed session revises it before its day.
PublishRange ==
    \E ref \in RefTimes :
        /\ ref > instant /\ calendar # ref
        /\ calendar' = ref
        /\ UNCHANGED <<instant, kind, began, required, mapped, symbolSet, marks, job, captureFaults>>

\* A reference instrument or a name of the universe is added to the store.
Enlist ==
    \E s \in Symbols \ required :
        /\ required' = required \cup {s}
        /\ UNCHANGED <<instant, kind, began, calendar, mapped, symbolSet, marks, job, captureFaults>>

-----------------------------------------------------------------------------
(* _insert_immutable: an exact replay adds nothing, one contradicting row  *)
(* takes back the whole batch.                                             *)

Compatible(stored, row) == stored = NoRow \/ stored = row
Insert(stored, batch) ==
    IF \A s \in DOMAIN batch : Compatible(stored[s], batch[s])
    THEN [s \in Symbols |-> IF s \in DOMAIN batch THEN batch[s] ELSE stored[s]]
    ELSE stored

Missing(symbols) == {s \in symbols : marks[s] = NoRow}

(* Execution references: capture_live and build_backtest.                  *)

\* The clock, the rows and the calendar as this poll sees them.
ReadReferences(w) ==
    /\ kind \in {"live", "backtest"} /\ began # Later
    /\ job[w] = NoJob /\ Free /\ Missing(required) # {}
    /\ job' = [job EXCEPT ![w] = [at |-> "capture", instant |-> instant, ref |-> calendar,
                                  missing |-> Missing(required)]]
    /\ UNCHANGED <<instant, facts, symbolSet, marks, captureFaults>>

\* A mutant: the window is counted from the commitment.
ExpiredFromCommit(j) ==
    IF j.instant > began + Grace
    THEN {[s \in j.missing |-> Unresolved("no_reference_price", j.ref)]}
    ELSE {[s \in found |-> Price(j.ref)] : found \in SUBSET j.missing}

\* What the poll may write, over every answer of the quote and trade sources.
ReferenceBatches(j) ==
    LET all(row) == {[s \in j.missing |-> row]}
        some(row) == {[s \in found |-> row] : found \in SUBSET j.missing}
        none == {[s \in {} |-> NoRow]}
    IN  IF j.ref = Uncovered
        THEN IF j.instant < began + CoverageWait THEN none
             ELSE all(Unresolved("calendar_uncovered", 0))
        ELSE IF j.instant < j.ref THEN none
        ELSE IF kind = "backtest"
        THEN [j.missing -> IF mapped THEN {Price(j.ref), Unresolved("no_trade", j.ref)}
                           ELSE {Unresolved("no_trade", j.ref)}]
        ELSE IF j.instant > j.ref + Grace THEN all(Unresolved("no_reference_price", j.ref))
        ELSE some(Price(j.ref))

WriteReferences(w) ==
    /\ job[w].at = "capture"
    /\ \E batch \in ReferenceBatches(job[w]) : marks' = Insert(marks, batch)
    /\ job' = [job EXCEPT ![w] = NoJob]
    /\ UNCHANGED <<instant, facts, symbolSet, captureFaults>>

(* Halt references: sweep_halt_requests.                                   *)

\* pending_halt_requests: no symbol set yet, or fewer marks than its count.
HaltPending ==
    /\ kind = "halt" /\ began # Later
    /\ \/ symbolSet = {}
       \/ Cardinality({s \in Symbols : marks[s] # NoRow}) < Cardinality(symbolSet)

\* The set is stored once and reused; an empty reconstruction stores nothing.
StoredSet == IF symbolSet # {} THEN symbolSet ELSE required

\* A mutant: the stored set is not reused, every sweep marks what is canonical now.
SweepTheMoment(w) ==
    /\ HaltPending /\ job[w] = NoJob /\ Free /\ StoredSet # {}
    /\ symbolSet' = StoredSet
    /\ job' = [job EXCEPT ![w] = [at |-> "set", instant |-> instant, symbols |-> required]]
    /\ UNCHANGED <<instant, facts, marks, captureFaults>>

Sweep(w) ==
    /\ HaltPending /\ job[w] = NoJob /\ Free /\ StoredSet # {}
    /\ symbolSet' = StoredSet
    /\ job' = [job EXCEPT ![w] = [at |-> "set", instant |-> instant, symbols |-> StoredSet]]
    /\ UNCHANGED <<instant, facts, marks, captureFaults>>

ReadHaltReferences(w) ==
    /\ job[w].at = "set"
    /\ job' = [job EXCEPT ![w] = [at |-> "mark", instant |-> @.instant, ref |-> calendar,
                                  missing |-> Missing(@.symbols)]]
    /\ UNCHANGED <<instant, facts, symbolSet, marks, captureFaults>>

\* A mutant: after the live window nothing more is written.
ExpiredSweeps(j) ==
    IF j.instant - began <= HaltGrace THEN {[s \in found |-> Price(1)] : found \in SUBSET j.missing}
    ELSE {[s \in {} |-> NoRow]}

\* A mutant: what an unfinished session has printed is taken for all of it.
UnfinishedSessions(j) ==
    IF j.ref # Uncovered /\ j.instant >= began + SipDelay
    THEN [j.missing -> {Price(1), Unresolved("no_trade", 0)}]
    ELSE {[s \in {} |-> NoRow]}

\* Close to the trigger the live rule, and only its prices; later the first eligible
\* trade, and a reason only once the deadline has passed.
HaltBatches(j) ==
    LET final == j.instant >= Close + SipDelay
        some == {[s \in found |-> Price(1)] : found \in SUBSET j.missing}
        none == {[s \in {} |-> NoRow]}
        all(reason) == {[s \in j.missing |-> Unresolved(reason, 0)]}
    IN  IF j.instant - began <= HaltGrace THEN some
        ELSE IF j.ref = Uncovered
        THEN IF j.instant < began + CoverageWait THEN none ELSE all("calendar_uncovered")
        ELSE IF j.instant < began + SipDelay THEN none
        ELSE IF ~mapped THEN IF final THEN all("provider_mapping_unvalidated") ELSE none
        ELSE IF final THEN [j.missing -> {Price(1), Unresolved("no_trade", 0)}]
        ELSE some

WriteHaltReferences(w) ==
    /\ job[w].at = "mark"
    /\ \E batch \in HaltBatches(job[w]) : marks' = Insert(marks, batch)
    /\ job' = [job EXCEPT ![w] = NoJob]
    /\ UNCHANGED <<instant, facts, symbolSet, captureFaults>>

\* A source raises, or the worker dies: nothing of its batch is stored.
JobFails(w) ==
    /\ job[w] # NoJob /\ captureFaults < CaptureFaults
    /\ job' = [job EXCEPT ![w] = NoJob] /\ captureFaults' = captureFaults + 1
    /\ UNCHANGED <<instant, facts, symbolSet, marks>>

CaptureStep(w) ==
    \/ ReadReferences(w) \/ WriteReferences(w)
    \/ Sweep(w) \/ ReadHaltReferences(w) \/ WriteHaltReferences(w)

CaptureNext ==
    \/ Advance \/ Begin \/ PublishRange \/ Enlist
    \/ \E w \in Capturers : CaptureStep(w) \/ JobFails(w)

\* Time passes and beat starts a poll and a sweep every few minutes.  Nothing starts a
\* backtest's references but an operator.
CaptureFairness ==
    /\ WF_captureVars(Advance)
    /\ WF_captureVars(kind # "backtest" /\ \E w \in Capturers : CaptureStep(w))

CaptureSpec == CaptureInit /\ [][CaptureNext]_captureVars
FairCaptureSpec == CaptureSpec /\ CaptureFairness

-----------------------------------------------------------------------------
(* store.as_of.pending_halt_requests counts rows where the sweeper looks    *)
(* for missing symbols.  A request that is no longer pending really has a  *)
(* mark for every symbol of its set, whatever was enlisted between sweeps. *)
CompleteMeansMarked ==
    (kind = "halt" /\ symbolSet # {} /\ ~HaltPending)
        => \A s \in symbolSet : marks[s] # NoRow

(* orchestration/references.py: absence is final evidence, never an early  *)
(* guess.  A row without a price is stored only when no later poll could   *)
(* have observed the rule: its window had closed, or coverage had waited.  *)
NothingIsGivenUpEarly ==
    \A s \in Symbols :
        /\ marks[s].state = "no_reference_price" => instant > marks[s].ref + Grace
        /\ marks[s].state = "calendar_uncovered" => instant >= began + CoverageWait
        /\ kind = "halt" /\ marks[s].state \in {"no_trade", "provider_mapping_unvalidated"}
               => instant >= Close + SipDelay

\* Symbols something waits for: of a committed LIVE run, or of a stored halt symbol set.
Owed(s) == began # Later /\ ((kind = "live" /\ s \in required) \/ s \in symbolSet)

(* Every symbol a committed LIVE run needs, and every symbol of a halt     *)
(* request, gets its row in the end: a price or the reason there is none.  *)
ReferencesArrive == \A s \in Symbols : Owed(s) ~> (marks[s] # NoRow)
=============================================================================
