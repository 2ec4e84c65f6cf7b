------------------------- MODULE RunLifecycleProofs -------------------------
(* What TLAPS proves of RunLifecycle, for every value of its constants.    *)
EXTENDS RunLifecycle, TLAPS

-----------------------------------------------------------------------------
(* Types.                                                                  *)

TypeInv == TypeOK /\ JobsAreRuns

\* The end of a task (a return, a raise or a crash) keeps the worker's memory
\* and the locks well typed.
LEMMA FinishTypes ==
  ASSUME TypeInv, NEW w \in Workers, Finish(w)
  PROVE  /\ pc' \in [Workers -> Places]
         /\ job' \in [Workers -> Runs \cup {Nil}]
         /\ got' \in [Workers -> Verdicts]
         /\ sha' \in [Workers -> Books \cup {Nil}]
         /\ advLock' \in [Runs -> Workers \cup {NoWorker}]
         /\ exeLock' \in [Runs -> Workers \cup {NoWorker}]
         /\ JobsAreRuns'
  BY DEF TypeInv, TypeOK, JobsAreRuns, Finish, Goto, Released, Places, Idle,
         Verdicts, NoVerdicts

\* Moving a busy worker to another place keeps its job.
LEMMA GotoTypes ==
  ASSUME TypeInv, NEW w \in Workers, NEW place \in Places, Goto(w, place),
         pc[w] # "idle", UNCHANGED job
  PROVE  pc' \in [Workers -> Places] /\ JobsAreRuns'
  BY DEF TypeInv, TypeOK, JobsAreRuns, Goto

LEMMA BeginTypes ==
  ASSUME TypeInv, NEW w \in Workers, NEW r \in Runs, NEW place \in Places, Begin(w, r, place)
  PROVE  /\ pc' \in [Workers -> Places] /\ job' \in [Workers -> Runs \cup {Nil}]
         /\ UNCHANGED <<got, sha, advLock, exeLock>> /\ JobsAreRuns'
  BY DEF TypeInv, TypeOK, JobsAreRuns, Begin, Goto, locks

LEMMA UpsertTypes ==
  ASSUME TypeOK, NEW r \in Runs, NEW new \in Statuses, UpsertRun(r, new)
  PROVE  status' \in [Runs -> Statuses]
  BY DEF TypeOK, UpsertRun

LEMMA InsertVerdictsTypes ==
  ASSUME TypeOK, NEW r \in Runs, NEW g \in Verdicts, InsertVerdicts(r, g)
  PROVE  verdicts' \in [Runs -> Verdicts]
  BY DEF TypeOK, InsertVerdicts, Verdicts

LEMMA RecordHaltTypes ==
  ASSUME TypeOK, NEW r \in Runs, NEW t \in Triggers, RecordHalt(r, t)
  PROVE  status' \in [Runs -> Statuses] /\ events' \in [Runs -> SUBSET Triggers]
  BY DEF TypeOK, RecordHalt, Statuses, Haltable

\* Every step keeps the types; the only claim of the shape of the worker's
\* memory that is not a set membership is that a busy worker has a run.
LEMMA TypeStep == TypeInv /\ [Next]_vars => TypeInv'
<1> SUFFICES ASSUME TypeInv, [Next]_vars PROVE TypeInv'
  OBVIOUS
<1> USE DEF Statuses, Advanced, Regressive
<1>1. ASSUME NEW w \in Workers, Weekly(w) PROVE TypeInv'
  <2>1. CASE ClaimFinds(w)
    BY <2>1, BeginTypes, ModeAssumption DEF ClaimFinds, ActiveRuns, TypeInv, TypeOK, rows, Places
  <2>2. ASSUME NEW fresh \in BOOLEAN, ClaimCreates(w, fresh) PROVE TypeInv'
    <3>1. claimed + 1 \in Runs /\ claimed + 1 \in 0 .. MaxRuns
      BY <2>2, BoundsAssumption, ModeAssumption DEF ClaimCreates, TypeInv, TypeOK, Runs
    <3> QED
      BY <2>2, <3>1, BeginTypes DEF ClaimCreates, TypeInv, TypeOK, Places
  <2> QED BY <1>1, <2>1, <2>2 DEF Weekly
<1>2. ASSUME NEW w \in Workers, Backtest(w) PROVE TypeInv'
  <2>1. CASE BacktestFresh(w)
    <3>1. claimed + 1 \in Runs /\ claimed + 1 \in 0 .. MaxRuns
      BY <2>1, BoundsAssumption DEF BacktestFresh, TypeInv, TypeOK, Runs
    <3> QED
      BY <2>1, <3>1, BeginTypes DEF BacktestFresh, TypeInv, TypeOK, Places, Advancing
  <2>2. CASE BacktestResume(w)
    <3>1. PICK r \in (1 .. claimed) \ LiveRuns : Begin(w, r, "step")
      BY <2>2 DEF BacktestResume
    <3>2. r \in Runs
      BY <3>1, BoundsAssumption DEF TypeInv, TypeOK, Runs
    <3> QED
      BY <2>2, <3>1, <3>2, BeginTypes DEF BacktestResume, TypeInv, TypeOK, rows, Places, Advancing
  <2> QED BY <1>2, <2>1, <2>2 DEF Backtest
<1>3. ASSUME NEW w \in Workers, NEW r \in Runs, DeliverAdvance(w, r) \/ DeliverExecute(w, r)
      PROVE  TypeInv'
  BY <1>3, BeginTypes DEF DeliverAdvance, DeliverExecute, TypeInv, TypeOK, rows, Places
<1>4. ASSUME NEW w \in Workers, TryLock(w) PROVE TypeInv'
  <2> job[w] \in Runs
    BY <1>4 DEF TryLock, TypeInv, JobsAreRuns
  <2>1. CASE Finish(w)
    BY <1>4, <2>1, FinishTypes DEF TryLock, TypeInv, TypeOK, rows
  <2>2. CASE ~ Finish(w)
    BY <1>4, <2>2, GotoTypes DEF TryLock, TypeInv, TypeOK, rows, memory, Places, Advancing
  <2> QED BY <2>1, <2>2
<1>5. ASSUME NEW w \in Workers, Dispatch(w) PROVE TypeInv'
  <2>1. CASE Finish(w)
    BY <1>5, <2>1, FinishTypes DEF Dispatch, TypeInv, TypeOK, rows
  <2>2. CASE ~ Finish(w)
    BY <1>5, <2>2, GotoTypes
    DEF Dispatch, Step, TypeInv, TypeOK, rows, memory, locks, Places, Advancing
  <2> QED BY <2>1, <2>2
<1>6. ASSUME NEW w \in Workers, LoadFails(w) PROVE TypeInv'
  BY <1>6, FinishTypes DEF LoadFails, TypeInv, TypeOK, rows
<1>7. ASSUME NEW w \in Workers, Pipeline(w) PROVE TypeInv'
  <2> pc[w] # "idle" /\ job[w] \in Runs /\ got[w] \in Verdicts /\ verdicts[job[w]] \in Verdicts
    BY <1>7 DEF Pipeline, RunStep, RunAgents, FlushCommit, FlushPartial, StepRaises, RecordFailure,
                Step, TypeInv, TypeOK, JobsAreRuns
  <2>1. CASE RunStep(w)
    <3>1. CASE Finish(w)
      BY <2>1, <3>1, FinishTypes DEF RunStep, TypeInv, TypeOK, rows
    <3>2. CASE ~ Finish(w)
      BY <2>1, <3>2, GotoTypes
      DEF RunStep, Step, Seed, TypeInv, TypeOK, rows, memory, locks, Places, Advancing
    <3> QED BY <3>1, <3>2
  <2>2. CASE RunAgents(w)
    BY <2>2, GotoTypes DEF RunAgents, Extensions, Step, TypeInv, TypeOK, rows, locks, Places, Advancing
  <2>3. CASE FlushCommit(w)
    <3>1. PICK cio \in CioReplies, late \in Extensions(got[w]) :
            LET book == BookOf(got[w], cio) IN
            IF CommitmentFits(job[w], book)
            THEN /\ UpsertRun(job[w], "COMMITTED")
                 /\ InsertVerdicts(job[w], late)
                 /\ InsertBook(job[w], book)
                 /\ InsertCommitment(job[w], book)
                 /\ \E next \in {"anchor", "failing"} : Goto(w, next)
            ELSE /\ Goto(w, "failing")
                 /\ UNCHANGED <<status, verdicts, snapshot, commitment>>
      BY <2>3 DEF FlushCommit
    <3>2. BookOf(got[w], cio) \in Books /\ late \in Verdicts
      BY DEF BookOf, Books, Extensions
    <3>3. pc' \in [Workers -> Places] /\ JobsAreRuns'
      BY <2>3, <3>1, GotoTypes DEF FlushCommit, memory, Places, Advancing
    <3>4. CASE CommitmentFits(job[w], BookOf(got[w], cio))
      <4>1. status' \in [Runs -> Statuses] /\ verdicts' \in [Runs -> Verdicts]
        BY <3>1, <3>2, <3>4, UpsertTypes, InsertVerdictsTypes DEF TypeInv
      <4>2. /\ snapshot' \in [Runs -> Books \cup {Nil}]
            /\ commitment' \in [Runs -> Books \cup {Nil}]
        BY <3>1, <3>2, <3>4 DEF InsertBook, InsertCommitment, TypeInv, TypeOK
      <4> QED
        BY <2>3, <3>3, <4>1, <4>2 DEF FlushCommit, TypeInv, TypeOK, memory, locks
    <3>5. CASE ~ CommitmentFits(job[w], BookOf(got[w], cio))
      BY <2>3, <3>1, <3>3, <3>5 DEF FlushCommit, TypeInv, TypeOK, memory, locks
    <3> QED BY <3>4, <3>5
  <2>4. CASE FlushPartial(w)
    <3>1. status' \in [Runs -> Statuses] /\ verdicts' \in [Runs -> Verdicts]
      BY <2>4, UpsertTypes, InsertVerdictsTypes DEF FlushPartial, TypeInv
    <3>2. CASE Finish(w)
      BY <2>4, <3>1, <3>2, FinishTypes DEF FlushPartial, TypeInv, TypeOK
    <3>3. CASE ~ Finish(w)
      BY <2>4, <3>1, <3>3, GotoTypes
      DEF FlushPartial, TypeInv, TypeOK, locks, memory, Places, Advancing
    <3> QED BY <3>2, <3>3
  <2>5. CASE StepRaises(w)
    BY <2>5, GotoTypes DEF StepRaises, Step, TypeInv, TypeOK, rows, locks, memory, Places, Advancing
  <2>6. CASE RecordFailure(w)
    <3>1. status' \in [Runs -> Statuses] /\ verdicts' \in [Runs -> Verdicts]
      BY <2>6, UpsertTypes, InsertVerdictsTypes DEF RecordFailure, TypeInv, TypeOK
    <3> QED
      BY <2>6, <3>1, FinishTypes DEF RecordFailure, TypeInv, TypeOK
  <2> QED BY <1>7, <2>1, <2>2, <2>3, <2>4, <2>5, <2>6 DEF Pipeline
<1>8. ASSUME NEW w \in Workers, Anchoring(w) PROVE TypeInv'
  <2> pc[w] # "idle" /\ job[w] \in Runs
    BY <1>8 DEF Anchoring, AnchorLoad, Publish, MarkAnchored, TypeInv, JobsAreRuns
  <2>1. CASE AnchorLoad(w)
    <3>1. CASE Finish(w)
      BY <2>1, <3>1, FinishTypes DEF AnchorLoad, TypeInv, TypeOK, rows
    <3>2. CASE ~ Finish(w)
      BY <2>1, <3>2, GotoTypes DEF AnchorLoad, Step, TypeInv, TypeOK, rows, locks, Places, Advancing
    <3> QED BY <3>1, <3>2
  <2>2. CASE Publish(w)
    <3>1. remote' \in [Runs -> Books \cup {Nil}]
      BY <2>2 DEF Publish, TypeInv, TypeOK
    <3>2. CASE Finish(w)
      BY <2>2, <3>1, <3>2, FinishTypes DEF Publish, TypeInv, TypeOK, rows
    <3>3. CASE ~ Finish(w)
      BY <2>2, <3>1, <3>3, GotoTypes
      DEF Publish, TypeInv, TypeOK, rows, locks, memory, Places, Advancing
    <3> QED BY <3>2, <3>3
  <2>3. CASE MarkAnchored(w)
    <3>1. anchor' \in [Runs -> Books \cup {Nil}] /\ status' \in [Runs -> Statuses]
      BY <2>3 DEF MarkAnchored, TypeInv, TypeOK
    <3> QED
      BY <2>3, <3>1, FinishTypes DEF MarkAnchored, TypeInv, TypeOK
  <2> QED BY <1>8, <2>1, <2>2, <2>3 DEF Anchoring
<1>9. ASSUME NEW w \in Workers, Execution(w) PROVE TypeInv'
  <2> pc[w] # "idle" /\ job[w] \in Runs
    BY <1>9 DEF Execution, TryExecuteLock, ExecuteLoad, AutomaticHalt, Gate, Submit, MarkExecuted,
                Step, TypeInv, JobsAreRuns
  <2>1. CASE TryExecuteLock(w) \/ ExecuteLoad(w) \/ Gate(w)
    <3>1. CASE Finish(w)
      BY <2>1, <3>1, FinishTypes DEF TryExecuteLock, ExecuteLoad, Gate, Step, TypeInv, TypeOK, rows
    <3>2. CASE ~ Finish(w)
      BY <2>1, <3>2, GotoTypes
      DEF TryExecuteLock, ExecuteLoad, Gate, Step, TypeInv, TypeOK, rows, locks, memory,
          Places, Executing
    <3> QED BY <3>1, <3>2
  <2>2. CASE AutomaticHalt(w)
    <3>1. status' \in [Runs -> Statuses] /\ events' \in [Runs -> SUBSET Triggers]
      BY <2>2, RecordHaltTypes DEF AutomaticHalt, Automatic, Triggers, TypeInv
    <3> QED
      BY <2>2, <3>1, FinishTypes DEF AutomaticHalt, TypeInv, TypeOK
  <2>3. CASE Submit(w)
    <3>1. orders' \in [Runs -> BOOLEAN]
      BY <2>3 DEF Submit, TypeInv, TypeOK
    <3>2. CASE Finish(w)
      BY <2>3, <3>1, <3>2, FinishTypes DEF Submit, TypeInv, TypeOK
    <3>3. CASE ~ Finish(w)
      BY <2>3, <3>1, <3>3, GotoTypes DEF Submit, TypeInv, TypeOK, locks, memory, Places, Executing
    <3> QED BY <3>2, <3>3
  <2>4. CASE MarkExecuted(w)
    <3>1. status' \in [Runs -> Statuses]
      BY <2>4 DEF MarkExecuted, TypeInv, TypeOK
    <3> QED
      BY <2>4, <3>1, FinishTypes DEF MarkExecuted, TypeInv, TypeOK
  <2> QED BY <1>9, <2>1, <2>2, <2>3, <2>4 DEF Execution
<1>10. ASSUME NEW w \in Workers, Crash(w) \/ LoseLock(w) PROVE TypeInv'
  <2>0. (Crash(w) \/ LoseLock(w)) => faults' \in 0 .. MaxFaults
    BY BoundsAssumption DEF Crash, LoseLock, TypeInv, TypeOK
  <2>1. CASE Crash(w)
    BY <2>0, <2>1, FinishTypes DEF Crash, TypeInv, TypeOK, rows
  <2>2. CASE LoseLock(w)
    BY <2>0, <2>2 DEF LoseLock, Released, TypeInv, TypeOK, JobsAreRuns, rows, memory
  <2> QED BY <1>10, <2>1, <2>2
<1>11. ASSUME NEW r \in Runs, ManualHalt(r) PROVE TypeInv'
  <2>1. status' \in [Runs -> Statuses] /\ events' \in [Runs -> SUBSET Triggers]
    BY <1>11, RecordHaltTypes DEF ManualHalt, Triggers, TypeInv
  <2> QED
    BY <1>11, <2>1 DEF ManualHalt, TypeInv, TypeOK, JobsAreRuns, locks, memory
<1>12. ASSUME NEW r \in Runs, ResetRun(r) PROVE TypeInv'
  BY <1>12 DEF ResetRun, NoVerdicts, Verdicts, TypeInv, TypeOK, JobsAreRuns, locks, memory
<1>13. CASE UNCHANGED vars
  BY <1>13 DEF vars, rows, locks, memory, TypeInv, TypeOK, JobsAreRuns
<1> QED
  BY <1>1, <1>2, <1>3, <1>4, <1>5, <1>6, <1>7, <1>8, <1>9, <1>10, <1>11, <1>12, <1>13 DEF Next

LEMMA TypeInit == Init => TypeInv
  BY BoundsAssumption
  DEF Init, TypeInv, TypeOK, JobsAreRuns, Runs, Statuses, NoVerdicts, Verdicts, Places, Idle

\* Rows, locks and worker memory stay within their types (TypeOK), and a worker
\* that is not idle always works on an existing run.
THEOREM TypeCorrect == Spec => []TypeOK
<1>1. Spec => []TypeInv
  BY TypeInit, TypeStep, PTL DEF Spec
<1>2. TypeInv => TypeOK
  BY DEF TypeInv
<1> QED BY <1>1, <1>2, PTL

-----------------------------------------------------------------------------
(* Ids are handed out in order, so a claim never lands on a run in use.    *)

LEMMA FinishClaimed ==
  ASSUME TypeInv, OnlyClaimed, NEW w \in Workers, Finish(w), UNCHANGED claimed
  PROVE  \A v \in Workers : pc'[v] # "idle" => job'[v] <= claimed'
  BY DEF TypeInv, TypeOK, OnlyClaimed, Finish, Goto

LEMMA BeginClaimed ==
  ASSUME TypeInv, OnlyClaimed, NEW w \in Workers, NEW r \in Runs, NEW place \in Places,
         Begin(w, r, place), claimed' \in Nat, claimed <= claimed', r <= claimed'
  PROVE  \A v \in Workers : pc'[v] # "idle" => job'[v] <= claimed'
<1> SUFFICES ASSUME NEW v \in Workers, pc'[v] # "idle" PROVE job'[v] <= claimed'
  OBVIOUS
<1>1. CASE v = w
  BY <1>1 DEF TypeInv, TypeOK, Begin
<1>2. CASE v # w
  <2>1. pc[v] # "idle" /\ job'[v] = job[v]
    BY <1>2 DEF TypeInv, TypeOK, Begin, Goto
  <2>2. job[v] \in Nat /\ job[v] <= claimed
    BY <2>1, BoundsAssumption DEF TypeInv, JobsAreRuns, OnlyClaimed, Runs
  <2> QED BY <2>1, <2>2, BoundsAssumption DEF TypeInv, TypeOK
<1> QED BY <1>1, <1>2

LEMMA OnlyClaimedStep == TypeInv /\ OnlyClaimed /\ [Next]_vars => OnlyClaimed'
<1> SUFFICES ASSUME TypeInv, OnlyClaimed, [Next]_vars PROVE OnlyClaimed'
  OBVIOUS
<1> TypeOK /\ claimed \in Nat
  BY BoundsAssumption DEF TypeInv, TypeOK
<1>1. ASSUME NEW w \in Workers, Weekly(w) \/ Backtest(w) PROVE OnlyClaimed'
  <2>1. CASE ClaimFinds(w)
    <3>1. PICK r \in ActiveRuns : Begin(w, r, "lock")
      BY <2>1 DEF ClaimFinds
    <3>2. r \in Runs /\ status[r] # "none"
      BY ModeAssumption DEF ActiveRuns, Active
    <3>3. r <= claimed
      BY <3>2, BoundsAssumption DEF OnlyClaimed, Runs
    <3> QED
      BY <2>1, <3>1, <3>2, <3>3, BeginClaimed DEF ClaimFinds, rows, Places, OnlyClaimed
  <2>2. CASE BacktestResume(w)
    <3>1. PICK r \in (1 .. claimed) \ LiveRuns : Begin(w, r, "step")
      BY <2>2 DEF BacktestResume
    <3>2. r \in Runs
      BY <3>1, BoundsAssumption DEF TypeOK, Runs
    <3> QED
      BY <2>2, <3>1, <3>2, BeginClaimed DEF BacktestResume, rows, Places, Advancing, OnlyClaimed
  <2>3. ASSUME BacktestFresh(w) \/ \E fresh \in BOOLEAN : ClaimCreates(w, fresh) PROVE OnlyClaimed'
    <3>1. claimed' = claimed + 1 /\ claimed + 1 \in Runs
      BY <2>3, BoundsAssumption, ModeAssumption DEF BacktestFresh, ClaimCreates, Runs
    <3>2. \A v \in Workers : pc'[v] # "idle" => job'[v] <= claimed'
      BY <2>3, <3>1, BeginClaimed DEF BacktestFresh, ClaimCreates, Places, Advancing
    <3>3. ASSUME NEW s \in Runs, s > claimed' PROVE status'[s] = "none"
      <4>1. s \in Nat /\ s > claimed /\ s # claimed + 1
        BY <3>1, <3>3, BoundsAssumption DEF Runs
      <4> QED BY <2>3, <4>1 DEF BacktestFresh, ClaimCreates, OnlyClaimed, TypeOK
    <3> QED BY <3>2, <3>3 DEF OnlyClaimed
  <2> QED BY <1>1, <2>1, <2>2, <2>3 DEF Weekly, Backtest
<1>2. ASSUME NEW w \in Workers, NEW r \in Runs, DeliverAdvance(w, r) \/ DeliverExecute(w, r)
      PROVE  OnlyClaimed'
  <2>1. r <= claimed
    BY <1>2, BoundsAssumption DEF DeliverAdvance, DeliverExecute, OnlyClaimed, Runs
  <2> QED
    BY <1>2, <2>1, BeginClaimed DEF DeliverAdvance, DeliverExecute, rows, Places, OnlyClaimed
<1>3. ASSUME NEW w \in Workers, pc[w] # "idle", UNCHANGED claimed,
             \A s \in Runs : s # job[w] => status'[s] = status[s],
             Finish(w) \/ (UNCHANGED job /\ \E place \in Places : Goto(w, place))
      PROVE  OnlyClaimed'
  <2>1. job[w] \in Runs /\ job[w] <= claimed
    BY <1>3 DEF TypeInv, JobsAreRuns, OnlyClaimed
  <2>2. \A s \in Runs : s > claimed => status'[s] = "none"
    BY <1>3, <2>1, BoundsAssumption DEF OnlyClaimed, Runs
  <2>3. \A v \in Workers : pc'[v] # "idle" => job'[v] <= claimed'
    BY <1>3, FinishClaimed DEF Goto, OnlyClaimed, TypeOK
  <2> QED BY <1>3, <2>2, <2>3 DEF OnlyClaimed
<1>4. ASSUME NEW w \in Workers, TryLock(w) \/ Dispatch(w) \/ LoadFails(w) PROVE OnlyClaimed'
  BY <1>3, <1>4 DEF TryLock, Dispatch, LoadFails, Step, rows, memory, Places, Advancing
<1>5. ASSUME NEW w \in Workers, Pipeline(w) PROVE OnlyClaimed'
  <2> job[w] \in Runs /\ got[w] \in Verdicts /\ pc[w] # "idle"
    BY <1>5 DEF Pipeline, RunStep, RunAgents, FlushCommit, FlushPartial, StepRaises, RecordFailure,
                Step, TypeInv, TypeOK, JobsAreRuns
  <2>1. CASE RunStep(w)
    BY <1>3, <2>1 DEF RunStep, Step, rows, memory, Places, Advancing
  <2>2. CASE RunAgents(w) \/ StepRaises(w)
    BY <1>3, <2>2 DEF RunAgents, StepRaises, Step, rows, memory, Places, Advancing
  <2>3. CASE FlushCommit(w)
    BY <1>3, <2>3 DEF FlushCommit, UpsertRun, memory, Places, Advancing, TypeOK
  <2>4. CASE FlushPartial(w)
    BY <1>3, <2>4 DEF FlushPartial, UpsertRun, memory, Places, Advancing, TypeOK
  <2>5. CASE RecordFailure(w)
    BY <1>3, <2>5 DEF RecordFailure, UpsertRun, TypeOK
  <2> QED BY <1>5, <2>1, <2>2, <2>3, <2>4, <2>5 DEF Pipeline
<1>6. ASSUME NEW w \in Workers, Anchoring(w) PROVE OnlyClaimed'
  <2>1. CASE AnchorLoad(w)
    BY <1>3, <2>1 DEF AnchorLoad, Step, rows, Places, Advancing
  <2>2. CASE Publish(w)
    BY <1>3, <2>2 DEF Publish, rows, memory, Places, Advancing
  <2>3. CASE MarkAnchored(w)
    BY <1>3, <2>3 DEF MarkAnchored, TypeOK
  <2> QED BY <1>6, <2>1, <2>2, <2>3 DEF Anchoring
<1>7. ASSUME NEW w \in Workers, Execution(w) PROVE OnlyClaimed'
  <2>1. CASE TryExecuteLock(w) \/ ExecuteLoad(w) \/ Gate(w)
    BY <1>3, <2>1 DEF TryExecuteLock, ExecuteLoad, Gate, Step, rows, memory, Places, Executing
  <2>2. CASE AutomaticHalt(w)
    BY <1>3, <2>2 DEF AutomaticHalt, RecordHalt, TypeOK
  <2>3. CASE Submit(w)
    BY <1>3, <2>3 DEF Submit, memory, Places, Executing
  <2>4. CASE MarkExecuted(w)
    BY <1>3, <2>4 DEF MarkExecuted, TypeOK
  <2> QED BY <1>7, <2>1, <2>2, <2>3, <2>4 DEF Execution
<1>8. ASSUME NEW w \in Workers, Crash(w) \/ LoseLock(w) PROVE OnlyClaimed'
  BY <1>3, <1>8 DEF Crash, LoseLock, rows, memory, OnlyClaimed
<1>9. ASSUME NEW r \in Runs, ManualHalt(r) \/ ResetRun(r) PROVE OnlyClaimed'
  <2>1. \A s \in Runs : s > claimed => s # r
    BY <1>9 DEF ManualHalt, ResetRun, OnlyClaimed
  <2> QED
    BY <1>9, <2>1 DEF ManualHalt, ResetRun, RecordHalt, OnlyClaimed, TypeOK, memory
<1>10. CASE UNCHANGED vars
  BY <1>10 DEF vars, rows, memory, OnlyClaimed
<1> QED
  BY <1>1, <1>2, <1>4, <1>5, <1>6, <1>7, <1>8, <1>9, <1>10 DEF Next

-----------------------------------------------------------------------------
(* Evidence.  Every step keeps what the rows of a run already say           *)
(* (RowsStable), so that what another worker read of them stays true.      *)

RowsInv ==
  EvidenceBacksStatus /\ OrdersFollowPublication /\ ExecutedWasNeverHalted /\ RowsAgree

RowsStable ==
  /\ KeepsEvidence /\ KeepsHalts
  /\ \A r \in Runs :
       /\ remote[r] # Nil => remote'[r] = remote[r]
       /\ anchor[r] # Nil => anchor'[r] = anchor[r]
       /\ commitment[r] # Nil /\ events[r] = {} => events'[r] = {} \/ status'[r] = "HALTED"

\* A step that changes no row changes nothing the invariants of rows are about.
LEMMA RowsUnchanged == RowsInv /\ UNCHANGED <<rows, remote>> => RowsInv' /\ RowsStable
  BY DEF RowsInv, RowsStable, rows, EvidenceBacksStatus, OrdersFollowPublication,
         ExecutedWasNeverHalted, RowsAgree, Verified, KeepsEvidence, KeepsHalts

\* An upsert never brings back a halted run, and leaves the status of every
\* other run alone.
LEMMA UpsertEffect ==
  ASSUME TypeOK, NEW r \in Runs, NEW new \in Statuses, UpsertRun(r, new)
  PROVE  /\ \A s \in Runs : s # r => status'[s] = status[s]
         /\ status'[r] \in {status[r], new}
         /\ status[r] = "HALTED" => status'[r] = "HALTED"
         /\ status[r] \in Advanced /\ new \in Regressive => status'[r] = status[r]
         /\ status[r] # "HALTED" /\ new = "COMMITTED" => status'[r] = "COMMITTED"
  BY DEF TypeOK, UpsertRun, Advanced, Regressive

\* Stored verdicts are never replaced.
LEMMA InsertVerdictsEffect ==
  ASSUME TypeOK, NEW r \in Runs, NEW g \in Verdicts, InsertVerdicts(r, g)
  PROVE  \A s \in Runs, t \in Tasks : verdicts[s][t] # Nil => verdicts'[s][t] = verdicts[s][t]
  BY DEF TypeOK, InsertVerdicts, Verdicts

\* A halt of a run that committed leaves it HALTED or finds the event already there.
LEMMA RecordHaltEffect ==
  ASSUME TypeOK, NEW r \in Runs, NEW t \in Triggers, RecordHalt(r, t)
  PROVE  /\ \A s \in Runs : s # r => status'[s] = status[s] /\ events'[s] = events[s]
         /\ \/ status'[r] = status[r] /\ events'[r] = events[r]
            \/ /\ events'[r] # {}
               /\ status'[r] = IF status[r] \in Haltable THEN "HALTED" ELSE status[r]
  BY DEF TypeOK, RecordHalt

\* The rows of a run keep agreeing with each other, and nothing that has been
\* recorded of a committed run is lost, whatever step is taken.
LEMMA RowsStep == EvidenceInv /\ [Next]_vars => RowsInv' /\ RowsStable
<1> SUFFICES ASSUME EvidenceInv, [Next]_vars PROVE RowsInv' /\ RowsStable
  OBVIOUS
<1> TypeOK /\ RowsInv
  BY DEF EvidenceInv, RowsInv
<1>1. ASSUME NEW w \in Workers,
             \/ ClaimFinds(w) \/ BacktestResume(w) \/ TryLock(w) \/ Dispatch(w) \/ LoadFails(w)
             \/ RunStep(w) \/ RunAgents(w) \/ StepRaises(w) \/ AnchorLoad(w)
             \/ TryExecuteLock(w) \/ ExecuteLoad(w) \/ Gate(w) \/ Crash(w) \/ LoseLock(w)
      PROVE  RowsInv' /\ RowsStable
  BY <1>1, RowsUnchanged
  DEF ClaimFinds, BacktestResume, TryLock, Dispatch, LoadFails, RunStep, RunAgents, StepRaises,
      AnchorLoad, TryExecuteLock, ExecuteLoad, Gate, Crash, LoseLock
<1>2. ASSUME NEW w \in Workers, NEW r \in Runs, DeliverAdvance(w, r) \/ DeliverExecute(w, r)
      PROVE  RowsInv' /\ RowsStable
  BY <1>2, RowsUnchanged DEF DeliverAdvance, DeliverExecute
<1> USE DEF RowsInv, RowsStable, EvidenceBacksStatus, OrdersFollowPublication,
            ExecutedWasNeverHalted, RowsAgree, Verified, KeepsEvidence, KeepsHalts
<1>3. ASSUME NEW w \in Workers, NEW fresh \in BOOLEAN, ClaimCreates(w, fresh)
      PROVE  RowsInv' /\ RowsStable
  <2>1. claimed + 1 \in Runs /\ status[claimed + 1] = "none"
    BY <1>3, BoundsAssumption, ModeAssumption DEF ClaimCreates, EvidenceInv, OnlyClaimed, TypeOK, Runs
  <2> QED
    BY <1>3, <2>1 DEF ClaimCreates, TypeOK, Advanced
<1>4. ASSUME NEW w \in Workers, BacktestFresh(w) PROVE RowsInv' /\ RowsStable
  BY <1>4 DEF BacktestFresh
<1>5. ASSUME NEW w \in Workers, FlushCommit(w) PROVE RowsInv' /\ RowsStable
  <2> DEFINE r == job[w]
  <2>1. r \in Runs /\ got[w] \in Verdicts
    BY <1>5 DEF FlushCommit, EvidenceInv, TypeOK, JobsAreRuns
  <2>2. PICK cio \in CioReplies, late \in Extensions(got[w]) :
          LET book == BookOf(got[w], cio) IN
          IF CommitmentFits(r, book)
          THEN /\ UpsertRun(r, "COMMITTED")
               /\ InsertVerdicts(r, late)
               /\ InsertBook(r, book)
               /\ InsertCommitment(r, book)
               /\ \E next \in {"anchor", "failing"} : Goto(w, next)
          ELSE /\ Goto(w, "failing")
               /\ UNCHANGED <<status, verdicts, snapshot, commitment>>
    BY <1>5 DEF FlushCommit
  <2> DEFINE book == BookOf(got[w], cio)
  <2>3. book # Nil /\ late \in Verdicts
    BY <2>1, BookAssumption DEF BookOf, Books, Extensions
  <2>4. CASE CommitmentFits(r, book)
    <3>1. UpsertRun(r, "COMMITTED") /\ InsertVerdicts(r, late)
      BY <2>2, <2>4
    <3>2. /\ \A s \in Runs, t \in Tasks : verdicts[s][t] # Nil => verdicts'[s][t] = verdicts[s][t]
          /\ \A s \in Runs : s # r => status'[s] = status[s]
          /\ status'[r] = IF status[r] = "HALTED" THEN "HALTED" ELSE "COMMITTED"
      <4>1. "COMMITTED" \in Statuses
        BY DEF Statuses, Advanced
      <4> HIDE DEF r
      <4> QED BY <2>1, <2>3, <3>1, <4>1, InsertVerdictsEffect, UpsertEffect
    <3>3. /\ snapshot' = [snapshot EXCEPT ![r] = book]
          /\ commitment' = [commitment EXCEPT ![r] = book]
      BY <2>1, <2>2, <2>4 DEF InsertBook, InsertCommitment, CommitmentFits, TypeOK
    <3>4. commitment[r] \in {Nil, book} /\ UNCHANGED <<anchor, events, orders, remote>>
      BY <1>5, <2>4 DEF FlushCommit, CommitmentFits
    <3> HIDE DEF r, book
    <3> QED BY <2>1, <2>3, <3>2, <3>3, <3>4 DEF TypeOK, Advanced
  <2>5. CASE ~ CommitmentFits(r, book)
    BY <1>5, <2>2, <2>5 DEF FlushCommit
  <2> QED BY <2>4, <2>5
<1>6. ASSUME NEW w \in Workers, FlushPartial(w) \/ RecordFailure(w) PROVE RowsInv' /\ RowsStable
  <2>1. job[w] \in Runs /\ got[w] \in Verdicts
    BY <1>6 DEF FlushPartial, RecordFailure, EvidenceInv, TypeOK, JobsAreRuns
  <2>2. UNCHANGED <<snapshot, commitment, anchor, events, orders, remote>>
    BY <1>6 DEF FlushPartial, RecordFailure
  <2>3. \A s \in Runs, t \in Tasks : verdicts[s][t] # Nil => verdicts'[s][t] = verdicts[s][t]
    BY <1>6, <2>1, InsertVerdictsEffect DEF FlushPartial, RecordFailure
  <2>4. \A s \in Runs : \/ status'[s] = status[s]
                        \/ /\ status[s] \notin Advanced \cup {"HALTED"}
                           /\ status'[s] \in {"PARTIAL", "FAILED"}
    BY <1>6, <2>1 DEF FlushPartial, RecordFailure, UpsertRun, TypeOK, Regressive
  <2> QED BY <2>2, <2>3, <2>4 DEF Advanced
<1>7. ASSUME NEW w \in Workers, Publish(w) PROVE RowsInv' /\ RowsStable
  BY <1>7 DEF Publish, rows, EvidenceInv, TypeOK, WorkersKnow, Knows, JobsAreRuns
<1>8. ASSUME NEW w \in Workers, MarkAnchored(w) PROVE RowsInv' /\ RowsStable
  BY <1>8 DEF MarkAnchored, EvidenceInv, TypeOK, WorkersKnow, Knows, JobsAreRuns, Advanced
<1>h. ASSUME NEW r \in Runs, NEW t \in Triggers, RecordHalt(r, t),
             UNCHANGED <<verdicts, snapshot, commitment, anchor, orders, remote>>
      PROVE  RowsInv' /\ RowsStable
  BY <1>h, RecordHaltEffect DEF Haltable, Advanced
<1>9. ASSUME NEW w \in Workers, AutomaticHalt(w) PROVE RowsInv' /\ RowsStable
  <2>1. job[w] \in Runs
    BY <1>9 DEF AutomaticHalt, EvidenceInv, JobsAreRuns
  <2> QED BY <1>9, <1>h, <2>1 DEF AutomaticHalt, Automatic, Triggers
<1>10. ASSUME NEW w \in Workers, Submit(w) PROVE RowsInv' /\ RowsStable
  BY <1>10 DEF Submit, EvidenceInv, TypeOK, WorkersKnow, Knows, JobsAreRuns
<1>11. ASSUME NEW w \in Workers, MarkExecuted(w) PROVE RowsInv' /\ RowsStable
  BY <1>11 DEF MarkExecuted, EvidenceInv, TypeOK, WorkersKnow, Knows, JobsAreRuns, Advanced
<1>12. ASSUME NEW r \in Runs, ManualHalt(r) PROVE RowsInv' /\ RowsStable
  BY <1>12, <1>h DEF ManualHalt, Triggers
<1>13. ASSUME NEW r \in Runs, ResetRun(r) PROVE RowsInv' /\ RowsStable
  BY <1>13 DEF ResetRun, NothingCommitted, EvidenceInv, TypeOK, Advanced
<1>14. CASE UNCHANGED vars
  BY <1>14, RowsUnchanged DEF vars
<1> QED
  BY <1>1, <1>2, <1>3, <1>4, <1>5, <1>6, <1>7, <1>8, <1>9, <1>10, <1>11, <1>12, <1>13, <1>14
  DEF Next, Weekly, Backtest, Pipeline, Anchoring, Execution

\* What a worker knows stays true while it does not move.
LEMMA KnowledgeKept ==
  ASSUME EvidenceInv, RowsStable, NEW v \in Workers,
         pc'[v] = pc[v], job'[v] = job[v], sha'[v] = sha[v]
  PROVE  Knows(v)'
<1>1. CASE pc[v] = "idle"
  BY <1>1 DEF Knows
<1>2. CASE pc[v] # "idle"
  <2>1. job[v] \in Runs /\ Knows(v)
    BY <1>2 DEF EvidenceInv, JobsAreRuns, WorkersKnow
  <2>2. /\ snapshot[job[v]] = commitment[job[v]]
        /\ anchor[job[v]] # Nil => commitment[job[v]] # Nil
    BY <2>1 DEF EvidenceInv, RowsAgree
  <2> QED
    BY <2>1, <2>2 DEF Knows, RowsStable, KeepsEvidence, KeepsHalts
<1> QED BY <1>1, <1>2

Hot == {"publish", "mark", "gate", "submit", "emark"}

\* A step of worker w that ends outside the places where it relies on rows.
LEMMA KnowsNothing ==
  ASSUME EvidenceInv, RowsStable, NEW w \in Workers, pc'[w] \notin Hot,
         \A v \in Workers \ {w} : pc'[v] = pc[v] /\ job'[v] = job[v] /\ sha'[v] = sha[v]
  PROVE  WorkersKnow'
<1>1. Knows(w)'
  BY DEF Knows, Hot
<1>2. \A v \in Workers \ {w} : Knows(v)'
  BY KnowledgeKept
<1> QED BY <1>1, <1>2 DEF WorkersKnow

LEMMA FinishKnows ==
  ASSUME EvidenceInv, RowsStable, NEW w \in Workers, Finish(w)
  PROVE  WorkersKnow'
<1>1. pc'[w] = "idle" /\ \A v \in Workers \ {w} : pc'[v] = pc[v] /\ job'[v] = job[v] /\ sha'[v] = sha[v]
  BY DEF EvidenceInv, TypeOK, Finish, Goto
<1> QED BY <1>1, KnowsNothing DEF Hot

\* A worker that moves on with the same run and memory.
LEMMA GotoKnows ==
  ASSUME EvidenceInv, RowsStable, NEW w \in Workers, NEW place, Goto(w, place),
         UNCHANGED <<job, sha>>, place \in Hot => Knows(w)'
  PROVE  WorkersKnow'
<1>1. pc'[w] = place /\ \A v \in Workers \ {w} : pc'[v] = pc[v] /\ job'[v] = job[v] /\ sha'[v] = sha[v]
  BY DEF EvidenceInv, TypeOK, Goto
<1>2. \A v \in Workers \ {w} : Knows(v)'
  BY <1>1, KnowledgeKept
<1>3. Knows(w)'
  BY <1>1 DEF Knows, Hot
<1> QED BY <1>2, <1>3 DEF WorkersKnow

LEMMA BeginKnows ==
  ASSUME EvidenceInv, RowsStable, NEW w \in Workers, NEW r, NEW place \in Places \ Hot,
         Begin(w, r, place)
  PROVE  WorkersKnow'
<1>1. pc'[w] = place /\ \A v \in Workers \ {w} : pc'[v] = pc[v] /\ job'[v] = job[v] /\ sha'[v] = sha[v]
  BY DEF EvidenceInv, TypeOK, Begin, Goto
<1> QED BY <1>1, KnowsNothing

LEMMA KnowsStep == EvidenceInv /\ RowsStable /\ [Next]_vars => WorkersKnow'
<1> SUFFICES ASSUME EvidenceInv, RowsStable, [Next]_vars PROVE WorkersKnow'
  OBVIOUS
<1> TypeOK
  BY DEF EvidenceInv
<1>1. ASSUME NEW w \in Workers, Weekly(w) \/ Backtest(w) PROVE WorkersKnow'
  BY <1>1, BeginKnows
  DEF Weekly, ClaimFinds, ClaimCreates, Backtest, BacktestFresh, BacktestResume, Places, Advancing, Hot
<1>2. ASSUME NEW w \in Workers, NEW r \in Runs, DeliverAdvance(w, r) \/ DeliverExecute(w, r)
      PROVE  WorkersKnow'
  BY <1>2, BeginKnows DEF DeliverAdvance, DeliverExecute, Places, Hot
<1>3. ASSUME NEW w \in Workers, TryLock(w) \/ Dispatch(w) \/ LoadFails(w) PROVE WorkersKnow'
  BY <1>3, FinishKnows, GotoKnows DEF TryLock, Dispatch, LoadFails, Step, memory, Hot
<1>4. ASSUME NEW w \in Workers, Pipeline(w) PROVE WorkersKnow'
  <2>1. CASE RunStep(w)
    BY <2>1, FinishKnows, GotoKnows DEF RunStep, Step, memory, Hot
  <2>2. CASE RunAgents(w) \/ StepRaises(w)
    BY <2>2, GotoKnows DEF RunAgents, StepRaises, Step, memory, Hot
  <2>3. CASE FlushCommit(w)
    BY <2>3, GotoKnows DEF FlushCommit, memory, Hot
  <2>4. CASE FlushPartial(w) \/ RecordFailure(w)
    BY <2>4, FinishKnows, GotoKnows DEF FlushPartial, RecordFailure, memory, Hot
  <2> QED BY <1>4, <2>1, <2>2, <2>3, <2>4 DEF Pipeline
<1>5. ASSUME NEW w \in Workers, Anchoring(w) PROVE WorkersKnow'
  <2>1. CASE AnchorLoad(w)
    <3>1. CASE Finish(w)
      BY <3>1, FinishKnows
    <3>2. CASE ~ Finish(w)
      <4>1. /\ Goto(w, "publish") /\ UNCHANGED <<job, rows>>
            /\ sha' = [sha EXCEPT ![w] = commitment[job[w]]]
            /\ commitment[job[w]] # Nil
        BY <2>1, <3>2 DEF AnchorLoad, Step, Verified
      <4>2. Knows(w)'
        BY <4>1 DEF Knows, TypeOK, Goto, rows
      <4>3. \A v \in Workers \ {w} : Knows(v)'
        BY <4>1, KnowledgeKept DEF TypeOK, Goto
      <4> QED BY <4>2, <4>3 DEF WorkersKnow
    <3> QED BY <3>1, <3>2
  <2>2. CASE Publish(w)
    <3>1. CASE Finish(w)
      BY <3>1, FinishKnows
    <3>2. CASE ~ Finish(w)
      <4>1. /\ pc[w] = "publish" /\ Goto(w, "mark") /\ UNCHANGED <<job, sha, rows>>
            /\ remote' = [remote EXCEPT ![job[w]] = sha[w]]
        BY <2>2, <3>2 DEF Publish, memory
      <4>2. job[w] \in Runs /\ Knows(w)
        BY <4>1 DEF EvidenceInv, JobsAreRuns, WorkersKnow
      <4>3. Knows(w)'
        BY <4>1, <4>2 DEF Knows, TypeOK, Goto, rows
      <4> QED BY <4>1, <4>3, GotoKnows
    <3> QED BY <3>1, <3>2
  <2>3. CASE MarkAnchored(w)
    BY <2>3, FinishKnows DEF MarkAnchored
  <2> QED BY <1>5, <2>1, <2>2, <2>3 DEF Anchoring
<1>6. ASSUME NEW w \in Workers, Execution(w) PROVE WorkersKnow'
  <2>1. CASE TryExecuteLock(w)
    BY <2>1, FinishKnows, GotoKnows DEF TryExecuteLock, memory, Hot
  <2>2. CASE ExecuteLoad(w)
    <3>1. CASE Finish(w)
      BY <3>1, FinishKnows
    <3>2. CASE ~ Finish(w)
      <4>1. /\ Goto(w, "gate") /\ UNCHANGED <<job, sha, rows, remote>>
            /\ anchor[job[w]] # Nil /\ events[job[w]] = {}
        BY <2>2, <3>2 DEF ExecuteLoad, Step, Eligible, Verified, memory
      <4>2. Knows(w)'
        BY <4>1 DEF Knows, TypeOK, Goto, rows
      <4> QED BY <4>1, <4>2, GotoKnows
    <3> QED BY <3>1, <3>2
  <2>3. CASE AutomaticHalt(w) \/ MarkExecuted(w)
    BY <2>3, FinishKnows DEF AutomaticHalt, MarkExecuted
  <2>4. CASE Gate(w) \/ Submit(w)
    <3>1. CASE Finish(w)
      BY <3>1, FinishKnows
    <3>2. CASE ~ Finish(w)
      <4>1. /\ pc[w] \in {"gate", "submit"} /\ UNCHANGED <<job, sha, anchor, events, status>>
            /\ \E place \in {"gate", "submit", "emark"} : Goto(w, place)
        BY <2>4, <3>2 DEF Gate, Submit, Step, rows, memory
      <4>2. Knows(w)
        BY DEF EvidenceInv, WorkersKnow
      <4>3. Knows(w)'
        BY <4>1, <4>2 DEF Knows, TypeOK, Goto
      <4> QED BY <4>1, <4>3, GotoKnows
    <3> QED BY <3>1, <3>2
  <2> QED BY <1>6, <2>1, <2>2, <2>3, <2>4 DEF Execution
<1>7. ASSUME NEW w \in Workers, Crash(w) PROVE WorkersKnow'
  BY <1>7, FinishKnows DEF Crash
<1>8. ASSUME UNCHANGED <<pc, memory>> PROVE WorkersKnow'
  BY <1>8, KnowledgeKept DEF memory, WorkersKnow
<1> QED
  BY <1>1, <1>2, <1>3, <1>4, <1>5, <1>6, <1>7, <1>8 DEF Next, LoseLock, ManualHalt, ResetRun, vars

-----------------------------------------------------------------------------

LEMMA EvidenceInit == Init => EvidenceInv
<1> SUFFICES ASSUME Init PROVE EvidenceInv
  OBVIOUS
<1>1. TypeOK /\ JobsAreRuns
  BY TypeInit DEF TypeInv
<1>2. /\ EvidenceBacksStatus /\ OrdersFollowPublication /\ ExecutedWasNeverHalted
      /\ RowsAgree /\ WorkersKnow /\ OnlyClaimed
  BY DEF Init, EvidenceBacksStatus, OrdersFollowPublication, ExecutedWasNeverHalted, RowsAgree,
         WorkersKnow, Knows, OnlyClaimed, Advanced
<1> QED BY <1>1, <1>2 DEF EvidenceInv

LEMMA EvidenceStep == EvidenceInv /\ [Next]_vars => EvidenceInv' /\ RowsStable
<1> SUFFICES ASSUME EvidenceInv, [Next]_vars PROVE EvidenceInv' /\ RowsStable
  OBVIOUS
<1>1. TypeInv' /\ OnlyClaimed'
  BY TypeStep, OnlyClaimedStep DEF EvidenceInv, TypeInv
<1>2. RowsInv' /\ RowsStable
  BY RowsStep
<1>3. WorkersKnow'
  BY <1>2, KnowsStep
<1> QED BY <1>1, <1>2, <1>3 DEF EvidenceInv, TypeInv, RowsInv

LEMMA EvidenceAlways == Spec => []EvidenceInv
  BY EvidenceInit, EvidenceStep, PTL DEF Spec

\* Whatever crashes, replays or lost locks happen, a run's status is backed by
\* stored evidence that recomputes, and by the public record once anchored.
THEOREM StatusIsBacked == Spec => []EvidenceBacksStatus
<1>1. EvidenceInv => EvidenceBacksStatus
  BY DEF EvidenceInv
<1> QED BY <1>1, EvidenceAlways, PTL

\* No order precedes the publication of the book it trades (anchor_run before
\* execute_run), however many workers run either.
THEOREM NoTradeBeforePublication == Spec => []OrdersFollowPublication
<1>1. EvidenceInv => OrdersFollowPublication
  BY DEF EvidenceInv
<1> QED BY <1>1, EvidenceAlways, PTL

\* A run with a kill-switch event is never counted as executed.
THEOREM HaltsWinOverExecution == Spec => []ExecutedWasNeverHalted
<1>1. EvidenceInv => ExecutedWasNeverHalted
  BY DEF EvidenceInv
<1> QED BY <1>1, EvidenceAlways, PTL

\* No transaction of any worker or of reset_run changes what a run committed to.
THEOREM EvidenceIsImmutable == Spec => EvidenceKept
<1>1. EvidenceInv /\ [Next]_vars => [KeepsEvidence]_vars
  BY EvidenceStep DEF RowsStable
<1> QED BY <1>1, EvidenceAlways, PTL DEF Spec, EvidenceKept

\* A halt is terminal: recovery is a new run.
THEOREM HaltsAreTerminal == Spec => HaltIsFinal
<1>1. EvidenceInv /\ [Next]_vars => [KeepsHalts]_vars
  BY EvidenceStep DEF RowsStable
<1> QED BY <1>1, EvidenceAlways, PTL DEF Spec, HaltIsFinal

-----------------------------------------------------------------------------
(* Exclusion.  With the task layer's locks in place, and kept, two workers *)
(* never advance or execute one run at a time.                             *)

\* The workers outside W keep their places and their locks.
OthersStay(W) ==
  \A v \in Workers \ W :
    /\ pc'[v] = pc[v] /\ job'[v] = job[v]
    /\ \A r \in Runs : advLock[r] = v => advLock'[r] = v
    /\ \A r \in Runs : exeLock[r] = v => exeLock'[r] = v

LEMMA FinishAlone ==
  ASSUME EvidenceInv, NEW w \in Workers, Finish(w)
  PROVE  OthersStay({w}) /\ Alone(w)'
  BY DEF EvidenceInv, TypeOK, Finish, Goto, Released, OthersStay, Alone, Advancing, Executing

LEMMA GotoAlone ==
  ASSUME EvidenceInv, NEW w \in Workers, NEW place, Goto(w, place), UNCHANGED <<job, locks>>
  PROVE  OthersStay({w}) /\ pc'[w] = place
  BY DEF EvidenceInv, TypeOK, Goto, locks, OthersStay

LEMMA BeginAlone ==
  ASSUME EvidenceInv, NEW w \in Workers, NEW r, NEW place, Begin(w, r, place)
  PROVE  OthersStay({w}) /\ pc'[w] = place
  BY DEF EvidenceInv, TypeOK, Begin, Goto, locks, OthersStay

Exclusive == MutexInv' /\ MovesForward

\* A step of the workers W that changes at most the status of run r, forward,
\* and not under a worker that relies on it.
LEMMA StatusStep ==
  ASSUME EvidenceInv, MutexInv, NEW W \in SUBSET Workers, OthersStay(W), NEW r \in Runs,
         \A w \in W : Alone(w)',
         \A s \in Runs \ {r} : status'[s] = status[s],
         Rank(status'[r]) >= Rank(status[r]),
         \/ status'[r] \in {status[r], "HALTED"}
         \/ \A v \in Workers \ W : job[v] = r =>
              /\ pc[v] \in {"agents", "flush"} => status'[r] \notin Advanced
              /\ pc[v] \in {"gate", "submit", "emark"} => status'[r] \in {"ANCHORED", "HALTED"}
  PROVE  Exclusive
<1>1. ASSUME NEW v \in Workers \ W PROVE Alone(v)'
  <2>1. CASE pc[v] = "idle"
    BY <2>1 DEF Alone, OthersStay, Advancing, Executing
  <2>2. CASE pc[v] # "idle"
    <3>1. job[v] \in Runs /\ Alone(v)
      BY <2>2 DEF EvidenceInv, JobsAreRuns, MutexInv
    <3> QED BY <3>1 DEF Alone, Advanced, OthersStay
  <2> QED BY <2>1, <2>2
<1>2. MovesForward
  BY DEF MovesForward, Rank
<1> QED BY <1>1, <1>2 DEF MutexInv, Exclusive

\* A step of the workers W that changes no status.
LEMMA QuietStep ==
  ASSUME EvidenceInv, MutexInv, NEW W \in SUBSET Workers, OthersStay(W), UNCHANGED status,
         \A w \in W : Alone(w)'
  PROVE  Exclusive
<1>1. ASSUME NEW v \in Workers \ W PROVE Alone(v)'
  BY DEF Alone, OthersStay, MutexInv, EvidenceInv, JobsAreRuns, Advancing, Executing
<1>2. MovesForward
  BY DEF MovesForward, Rank
<1> QED BY <1>1, <1>2 DEF MutexInv, Exclusive

\* When every run is LIVE there is no backtest process.
LEMMA NoBacktest ==
  ASSUME LiveRuns = Runs, TypeOK, NEW w \in Workers
  PROVE  ~ Backtest(w)
<1>1. ~ BacktestFresh(w)
  BY DEF BacktestFresh
<1>2. (1 .. claimed) \ LiveRuns = {}
  BY BoundsAssumption DEF TypeOK, Runs
<1> QED BY <1>1, <1>2 DEF Backtest, BacktestResume

LEMMA ExclusionStep ==
  ASSUME LiveRuns = Runs, ~ LockLoss, EvidenceInv, MutexInv, [Next]_vars
  PROVE  Exclusive
<1> TypeOK /\ EvidenceInv' /\ RowsStable
  BY EvidenceStep DEF EvidenceInv
<1>1. ASSUME NEW w \in Workers, NEW r, NEW place \in {"lock", "elock"}, Begin(w, r, place),
             UNCHANGED status
      PROVE  Exclusive
  <2>1. Alone(w)'
    BY <1>1, BeginAlone DEF Alone, Advancing, Executing
  <2> QED BY <1>1, <2>1, BeginAlone, QuietStep
<1>2. ASSUME NEW w \in Workers, Finish(w), UNCHANGED status PROVE Exclusive
  BY <1>2, FinishAlone, QuietStep
<1>3. ASSUME NEW w \in Workers, NEW place, pc[w] \in Advancing, Goto(w, place),
             UNCHANGED <<job, locks, status>>,
             place \in Advancing, place \in {"agents", "flush"} => status[job[w]] \notin Advanced
      PROVE  Exclusive
  <2>1. Alone(w)'
    BY <1>3, GotoAlone DEF Alone, MutexInv, locks, Advancing, Executing
  <2> QED BY <1>3, <2>1, GotoAlone, QuietStep
<1>4. ASSUME NEW w \in Workers, NEW place, pc[w] \in Executing, Goto(w, place),
             UNCHANGED <<job, locks, status>>,
             place \in Executing, status[job[w]] \in {"ANCHORED", "HALTED"}
      PROVE  Exclusive
  <2>1. Alone(w)'
    BY <1>4, GotoAlone DEF Alone, MutexInv, locks, Advancing, Executing
  <2> QED BY <1>4, <2>1, GotoAlone, QuietStep
<1>5. ASSUME NEW w \in Workers, Weekly(w) PROVE Exclusive
  <2>1. CASE ClaimFinds(w)
    BY <1>1, <2>1 DEF ClaimFinds, rows
  <2>2. ASSUME NEW fresh \in BOOLEAN, ClaimCreates(w, fresh) PROVE Exclusive
    <3>1. claimed + 1 \in Runs /\ status[claimed + 1] = "none"
      BY <2>2, BoundsAssumption DEF ClaimCreates, EvidenceInv, OnlyClaimed, TypeOK, Runs
    <3>2. OthersStay({w}) /\ Alone(w)'
      BY <2>2, BeginAlone DEF ClaimCreates, Alone, Advancing, Executing
    <3>3. \A v \in Workers : pc[v] # "idle" => job[v] # claimed + 1
      BY BoundsAssumption DEF EvidenceInv, OnlyClaimed, TypeOK
    <3>4. status'[claimed + 1] = "PENDING" /\ \A s \in Runs \ {claimed + 1} : status'[s] = status[s]
      BY <2>2, <3>1 DEF ClaimCreates, TypeOK
    <3> QED
      BY <3>1, <3>2, <3>3, <3>4, StatusStep DEF Rank
  <2> QED BY <1>5, <2>1, <2>2 DEF Weekly
<1>6. ASSUME NEW w \in Workers, NEW r \in Runs, DeliverAdvance(w, r) \/ DeliverExecute(w, r)
      PROVE  Exclusive
  BY <1>1, <1>6 DEF DeliverAdvance, DeliverExecute, rows
<1>7. ASSUME NEW w \in Workers, TryLock(w) \/ TryExecuteLock(w) PROVE Exclusive
  <2>1. CASE Finish(w)
    BY <1>2, <1>7, <2>1 DEF TryLock, TryExecuteLock, rows
  <2>2. CASE ~ Finish(w)
    <3>1. job[w] \in Runs
      BY <1>7 DEF TryLock, TryExecuteLock, EvidenceInv, JobsAreRuns
    <3>2. OthersStay({w}) /\ Alone(w)'
      BY <1>7, <2>2, <3>1, WorkersAssumption
      DEF TryLock, TryExecuteLock, Goto, memory, TypeOK, OthersStay, Alone, Advancing, Executing
    <3> QED BY <1>7, <3>2, QuietStep DEF TryLock, TryExecuteLock, rows
  <2> QED BY <2>1, <2>2
<1>8. ASSUME NEW w \in Workers, Dispatch(w) \/ LoadFails(w) PROVE Exclusive
  <2>1. CASE Finish(w)
    BY <1>2, <1>8, <2>1 DEF Dispatch, LoadFails, rows
  <2>2. CASE ~ Finish(w)
    BY <1>3, <1>8, <2>2 DEF Dispatch, LoadFails, Step, rows, memory, Advancing
  <2> QED BY <2>1, <2>2
<1>9. ASSUME NEW w \in Workers, Pipeline(w) PROVE Exclusive
  <2> job[w] \in Runs /\ pc[w] \in Advancing /\ advLock[job[w]] = w /\ Alone(w) /\ w # NoWorker
    BY <1>9, WorkersAssumption
    DEF Pipeline, RunStep, RunAgents, FlushCommit, FlushPartial, StepRaises, RecordFailure,
        Step, EvidenceInv, JobsAreRuns, MutexInv, Alone, Advancing
  <2>0. \A v \in Workers \ {w} : job[v] = job[w] => pc[v] \notin Advancing
    BY DEF MutexInv, Alone
  <2>1. CASE RunStep(w)
    <3>1. CASE Finish(w)
      BY <1>2, <2>1, <3>1 DEF RunStep, rows
    <3>2. CASE ~ Finish(w)
      BY <1>3, <2>1, <3>2 DEF RunStep, Step, rows, memory, Advancing, Advanced
    <3> QED BY <3>1, <3>2
  <2>2. CASE RunAgents(w) \/ StepRaises(w)
    BY <1>3, <2>2 DEF RunAgents, StepRaises, Step, rows, memory, Advancing, Alone
  <2>3. CASE FlushCommit(w)
    <3>1. OthersStay({w}) /\ Alone(w)'
      BY <2>3, GotoAlone DEF FlushCommit, Alone, memory, locks, Advancing, Executing
    <3>2. /\ \A s \in Runs \ {job[w]} : status'[s] = status[s]
          /\ status'[job[w]] \in {status[job[w]], "COMMITTED"}
          /\ status[job[w]] = "HALTED" => status'[job[w]] = "HALTED"
      BY <2>3 DEF FlushCommit, UpsertRun, TypeOK
    <3>3. status[job[w]] \notin Advanced
      BY <2>3 DEF FlushCommit, Alone
    <3>4. Rank(status'[job[w]]) >= Rank(status[job[w]])
      BY <3>2, <3>3 DEF Rank, Advanced
    <3>5. \A v \in Workers \ {w} : job[v] = job[w] /\ pc[v] \in {"gate", "submit", "emark"} =>
            status'[job[w]] = "HALTED"
      BY <3>2, <3>3 DEF MutexInv, Alone, Advanced
    <3> QED BY <2>0, <3>1, <3>2, <3>4, <3>5, StatusStep DEF Advancing
  <2>4. CASE FlushPartial(w) \/ RecordFailure(w)
    <3>1. OthersStay({w}) /\ Alone(w)'
      <4>1. CASE Finish(w)
        BY <4>1, FinishAlone
      <4>2. CASE ~ Finish(w)
        <5>1. Goto(w, "failing") /\ UNCHANGED <<job, locks>>
          BY <2>4, <4>2 DEF FlushPartial, RecordFailure, memory
        <5> QED BY <5>1, GotoAlone DEF Alone, locks, Advancing, Executing
      <4> QED BY <4>1, <4>2
    <3>2. /\ \A s \in Runs \ {job[w]} : status'[s] = status[s]
          /\ status'[job[w]] \in {status[job[w]], "PARTIAL", "FAILED"}
          /\ status[job[w]] \in Advanced \cup {"HALTED"} => status'[job[w]] = status[job[w]]
      BY <2>4 DEF FlushPartial, RecordFailure, UpsertRun, TypeOK, Regressive
    <3>3. Rank(status'[job[w]]) >= Rank(status[job[w]])
      BY <3>2 DEF Rank, Advanced
    <3>4. \A v \in Workers \ {w} : job[v] = job[w] /\ pc[v] \in {"gate", "submit", "emark"} =>
            status'[job[w]] \in {"ANCHORED", "HALTED"}
      BY <3>2 DEF MutexInv, Alone, Advanced
    <3> QED BY <2>0, <3>1, <3>2, <3>3, <3>4, StatusStep DEF Advancing
  <2> QED BY <1>9, <2>1, <2>2, <2>3, <2>4 DEF Pipeline
<1>10. ASSUME NEW w \in Workers, Anchoring(w) PROVE Exclusive
  <2>1. CASE AnchorLoad(w)
    <3>1. CASE Finish(w)
      BY <1>2, <2>1, <3>1 DEF AnchorLoad, rows
    <3>2. CASE ~ Finish(w)
      BY <1>3, <2>1, <3>2 DEF AnchorLoad, Step, rows, Advancing
    <3> QED BY <3>1, <3>2
  <2>2. CASE Publish(w)
    <3>1. CASE Finish(w)
      BY <1>2, <2>2, <3>1 DEF Publish, rows
    <3>2. CASE ~ Finish(w)
      BY <1>3, <2>2, <3>2 DEF Publish, rows, memory, Advancing
    <3> QED BY <3>1, <3>2
  <2>3. CASE MarkAnchored(w)
    <3>1. job[w] \in Runs /\ advLock[job[w]] = w
      BY <2>3 DEF MarkAnchored, EvidenceInv, JobsAreRuns, MutexInv, Alone, Advancing
    <3>2. \A v \in Workers \ {w} : job[v] = job[w] => pc[v] \notin Advancing
      BY <3>1 DEF MutexInv, Alone
    <3>3. /\ \A s \in Runs \ {job[w]} : status'[s] = status[s]
          /\ \/ status'[job[w]] = status[job[w]]
             \/ status[job[w]] = "COMMITTED" /\ status'[job[w]] = "ANCHORED"
      BY <2>3, <3>1 DEF MarkAnchored, TypeOK
    <3>4. Rank(status'[job[w]]) >= Rank(status[job[w]])
      BY <3>3 DEF Rank
    <3>5. OthersStay({w}) /\ Alone(w)'
      BY <2>3, FinishAlone DEF MarkAnchored
    <3> QED BY <3>1, <3>2, <3>3, <3>4, <3>5, StatusStep DEF Advancing
  <2> QED BY <1>10, <2>1, <2>2, <2>3 DEF Anchoring
<1>h. ASSUME NEW r \in Runs, NEW t \in Triggers, RecordHalt(r, t), NEW W \in SUBSET Workers,
             OthersStay(W), \A w \in W : Alone(w)'
      PROVE  Exclusive
  <2>1. /\ \A s \in Runs \ {r} : status'[s] = status[s]
        /\ status'[r] \in {status[r], "HALTED"}
    BY <1>h, RecordHaltEffect
  <2>2. Rank(status'[r]) >= Rank(status[r])
    BY <2>1 DEF Rank
  <2> QED BY <1>h, <2>1, <2>2, StatusStep
<1>11. ASSUME NEW w \in Workers, Execution(w) PROVE Exclusive
  <2> job[w] \in Runs /\ Alone(w)
    BY <1>11 DEF Execution, TryExecuteLock, ExecuteLoad, AutomaticHalt, Gate, Submit, MarkExecuted,
                 Step, EvidenceInv, JobsAreRuns, MutexInv
  <2>1. CASE TryExecuteLock(w)
    BY <1>7, <2>1
  <2>2. CASE ExecuteLoad(w) \/ Gate(w) \/ Submit(w)
    <3>1. CASE Finish(w)
      BY <1>2, <2>2, <3>1 DEF ExecuteLoad, Gate, Submit, rows
    <3>2. CASE ~ Finish(w)
      BY <1>4, <2>2, <3>2
      DEF ExecuteLoad, Gate, Submit, Step, Eligible, rows, memory, Executing, Alone
    <3> QED BY <3>1, <3>2
  <2>3. CASE AutomaticHalt(w)
    BY <1>h, <2>3, FinishAlone DEF AutomaticHalt, Automatic, Triggers
  <2>4. CASE MarkExecuted(w)
    <3>1. exeLock[job[w]] = w
      BY <2>4 DEF MarkExecuted, Alone, Executing
    <3>2. \A v \in Workers \ {w} : job[v] = job[w] => pc[v] \notin Executing
      BY <3>1 DEF MutexInv, Alone
    <3>3. \A v \in Workers \ {w} : job[v] = job[w] /\ pc[v] \in {"agents", "flush"} =>
            status[job[w]] # "ANCHORED"
      BY DEF MutexInv, Alone, Advanced
    <3>4. /\ \A s \in Runs \ {job[w]} : status'[s] = status[s]
          /\ \/ status'[job[w]] = status[job[w]]
             \/ status[job[w]] = "ANCHORED" /\ status'[job[w]] = "EXECUTED"
      BY <2>4 DEF MarkExecuted, TypeOK
    <3>5. Rank(status'[job[w]]) >= Rank(status[job[w]])
      BY <3>4 DEF Rank
    <3>6. OthersStay({w}) /\ Alone(w)'
      BY <2>4, FinishAlone DEF MarkExecuted
    <3> QED BY <3>2, <3>3, <3>4, <3>5, <3>6, StatusStep DEF Executing
  <2> QED BY <1>11, <2>1, <2>2, <2>3, <2>4 DEF Execution
<1>12. ASSUME NEW w \in Workers, Crash(w) PROVE Exclusive
  BY <1>2, <1>12 DEF Crash, rows
<1> OthersStay({}) <=> \A v \in Workers :
      /\ pc'[v] = pc[v] /\ job'[v] = job[v]
      /\ \A r \in Runs : advLock[r] = v => advLock'[r] = v
      /\ \A r \in Runs : exeLock[r] = v => exeLock'[r] = v
  BY DEF OthersStay
<1>13. ASSUME NEW r \in Runs, ManualHalt(r) PROVE Exclusive
  BY <1>h, <1>13 DEF ManualHalt, Triggers, locks, memory
<1>14. ASSUME NEW r \in Runs, ResetRun(r) PROVE Exclusive
  <2>1. status[r] \notin Advanced \cup {"HALTED"}
    BY <1>14 DEF ResetRun, NothingCommitted, EvidenceInv, EvidenceBacksStatus, Verified
  <2>2. status'[r] = "PENDING" /\ \A s \in Runs \ {r} : status'[s] = status[s]
    BY <1>14 DEF ResetRun, TypeOK
  <2>3. Rank(status'[r]) >= Rank(status[r])
    BY <2>1, <2>2 DEF Rank, Advanced
  <2>4. \A v \in Workers : job[v] = r => pc[v] \notin {"gate", "submit", "emark"}
    BY <2>1 DEF MutexInv, Alone, Advanced
  <2>5. OthersStay({})
    BY <1>14 DEF ResetRun, locks, memory
  <2> QED BY <2>2, <2>3, <2>4, <2>5, StatusStep DEF Advanced
<1>15. CASE UNCHANGED vars
  <2>1. OthersStay({}) /\ UNCHANGED status
    BY <1>15 DEF vars, rows, locks, memory
  <2> QED BY <2>1, QuietStep
<1> QED
  BY <1>5, <1>6, <1>7, <1>8, <1>9, <1>10, <1>11, <1>12, <1>13, <1>14, <1>15, NoBacktest
  DEF Next, LoseLock

LEMMA ExclusionAlways ==
  ASSUME LiveRuns = Runs, ~ LockLoss
  PROVE  Spec => [](EvidenceInv /\ MutexInv)
<1>1. Init => EvidenceInv /\ MutexInv
  <2>1. Init => MutexInv
    BY DEF Init, MutexInv, Alone, Advancing, Executing
  <2> QED BY <2>1, EvidenceInit
<1>2. EvidenceInv /\ MutexInv /\ [Next]_vars => (EvidenceInv /\ MutexInv)'
  BY EvidenceStep, ExclusionStep DEF Exclusive
<1> QED BY <1>1, <1>2, PTL DEF Spec

\* Under the task layer, and while no worker outlives the session of its lock,
\* the run row only moves forward (upsert_run, advance_to_anchored,
\* advance_to_executed, record_halt and reset_run interleaved at will).
THEOREM RunMovesForward ==
  ASSUME LiveRuns = Runs, ~ LockLoss
  PROVE  Spec => StatusMovesForward
<1>1. EvidenceInv /\ MutexInv /\ [Next]_vars => [MovesForward]_vars
  BY ExclusionStep DEF Exclusive
<1> QED BY <1>1, ExclusionAlways, PTL DEF Spec, StatusMovesForward

-----------------------------------------------------------------------------
(* Builders: workers between the start of a pipeline step and its flush.   *)
(* Under the same assumptions nobody but the builder of a run writes its   *)
(* status and verdicts, except a halt and a reset.                         *)

Building == {"step", "agents", "flush"}

\* What a worker that is building after a step did in it.
Builds(v) ==
  /\ job'[v] = job[v]
  /\ \/ pc[v] = pc'[v] /\ got'[v] = got[v]
     \/ UNCHANGED rows /\ pc[v] = "dispatch" /\ pc'[v] = "step" /\ status[job[v]] = "PENDING"
     \/ UNCHANGED rows /\ pc[v] = "step" /\ pc'[v] = "agents" /\ got'[v] = verdicts[job[v]]
     \/ UNCHANGED rows /\ pc[v] = "agents" /\ pc'[v] = "flush" /\ got'[v] \in Extensions(got[v])

LEMMA BuilderMoves ==
  ASSUME LiveRuns = Runs, ~ LockLoss, EvidenceInv, [Next]_vars,
         NEW v \in Workers, pc'[v] \in Building
  PROVE  Builds(v)
<1> TypeOK
  BY DEF EvidenceInv
<1> USE DEF TypeOK, Goto, Step, Begin, Finish, memory, Building
<1>1. ASSUME NEW w \in Workers, NEW place, Begin(w, job'[w], place), place \in {"lock", "elock"}
      PROVE  Builds(v)
  BY <1>1 DEF Builds
<1>2. ASSUME NEW w \in Workers, Finish(w) PROVE Builds(v)
  BY <1>2 DEF Builds
<1>3. ASSUME NEW w \in Workers, NEW place, Goto(w, place), UNCHANGED memory,
             place \notin Building
      PROVE  Builds(v)
  BY <1>3 DEF Builds
<1>4. ASSUME NEW w \in Workers,
             \/ Weekly(w)
             \/ \E r \in Runs : DeliverAdvance(w, r) \/ DeliverExecute(w, r)
      PROVE  Builds(v)
  BY <1>4
  DEF Weekly, ClaimFinds, ClaimCreates, DeliverAdvance, DeliverExecute, Builds
<1>5. ASSUME NEW w \in Workers, Dispatch(w) \/ RunStep(w) \/ RunAgents(w) PROVE Builds(v)
  <2>1. CASE Finish(w)
    BY <1>2, <2>1
  <2>2. CASE Dispatch(w) /\ ~ Finish(w)
    BY <2>2 DEF Dispatch, Builds
  <2>3. CASE RunStep(w) /\ ~ Finish(w)
    BY <2>3 DEF RunStep, Seed, Builds
  <2>4. CASE RunAgents(w)
    BY <2>4 DEF RunAgents, Builds
  <2> QED BY <1>5, <2>1, <2>2, <2>3, <2>4
<1>6. ASSUME NEW w \in Workers,
             \/ TryLock(w) \/ LoadFails(w) \/ FlushCommit(w) \/ FlushPartial(w) \/ StepRaises(w)
             \/ RecordFailure(w) \/ Anchoring(w) \/ Execution(w) \/ Crash(w)
      PROVE  Builds(v)
  <2>1. CASE Finish(w)
    BY <1>2, <2>1
  <2>2. CASE ~ Finish(w)
    <3>1. CASE AnchorLoad(w)
      BY <2>2, <3>1 DEF AnchorLoad, Builds
    <3>2. CASE ~ AnchorLoad(w)
      <4>1. \E place : Goto(w, place) /\ UNCHANGED memory /\ place \notin Building
        BY <1>6, <2>2, <3>2
        DEF TryLock, LoadFails, FlushCommit, FlushPartial, StepRaises, RecordFailure, Anchoring,
            Publish, MarkAnchored, Execution, TryExecuteLock, ExecuteLoad, AutomaticHalt, Gate,
            Submit, MarkExecuted, Crash
      <4> QED BY <1>3, <4>1
    <3> QED BY <3>1, <3>2
  <2> QED BY <2>1, <2>2
<1>7. ASSUME NEW r \in Runs, ManualHalt(r) \/ ResetRun(r) PROVE Builds(v)
  BY <1>7 DEF ManualHalt, ResetRun, Builds
<1>8. CASE UNCHANGED vars
  BY <1>8 DEF vars, Builds
<1> QED
  BY <1>4, <1>5, <1>6, <1>7, <1>8, NoBacktest DEF Next, Pipeline, LoseLock

\* What a step does to a run.
Spared(r) ==
  /\ resets'[r] = resets[r] /\ verdicts'[r] = verdicts[r]
  /\ status'[r] \in {status[r], "HALTED"} \/ {status[r], status'[r]} \subseteq Active
WasReset(r) == resets'[r] /\ verdicts'[r] = NoVerdicts
WasClaimed(r) ==
  /\ resets'[r] = resets[r] /\ verdicts'[r] = verdicts[r]
  /\ status[r] = "none" /\ ActiveRuns = {} /\ \A s \in Runs \ {r} : status'[s] = status[s]
Wrote(w, r) ==
  /\ resets'[r] = resets[r]
  /\ job[w] = r /\ pc[w] \in {"flush", "failing"} /\ pc'[w] \notin Building
  /\ status'[r] \in Active => status[r] \in Active \/ pc[w] = "flush"

LEMMA RunMoves ==
  ASSUME LiveRuns = Runs, ~ LockLoss, EvidenceInv, [Next]_vars, NEW r \in Runs
  PROVE  Spared(r) \/ WasReset(r) \/ WasClaimed(r) \/ \E w \in Workers : Wrote(w, r)
<1> DEFINE Moved == Spared(r) \/ WasReset(r) \/ WasClaimed(r) \/ \E w \in Workers : Wrote(w, r)
<1> TypeOK
  BY DEF EvidenceInv
<1>1. ASSUME UNCHANGED <<status, verdicts, resets>> PROVE Moved
  BY <1>1 DEF Spared
<1>2. ASSUME NEW w \in Workers,
             \/ ClaimFinds(w) \/ TryLock(w) \/ Dispatch(w) \/ LoadFails(w) \/ RunStep(w)
             \/ RunAgents(w) \/ StepRaises(w) \/ AnchorLoad(w) \/ Publish(w) \/ TryExecuteLock(w)
             \/ ExecuteLoad(w) \/ Gate(w) \/ Submit(w) \/ Crash(w)
             \/ \E s \in Runs : DeliverAdvance(w, s) \/ DeliverExecute(w, s)
      PROVE  Moved
  BY <1>1, <1>2
  DEF ClaimFinds, TryLock, Dispatch, LoadFails, RunStep, RunAgents, StepRaises, AnchorLoad, Publish,
      TryExecuteLock, ExecuteLoad, Gate, Submit, Crash, DeliverAdvance, DeliverExecute, rows
<1>3. ASSUME NEW w \in Workers, NEW fresh \in BOOLEAN, ClaimCreates(w, fresh) PROVE Moved
  <2>1. claimed + 1 \in Runs /\ status[claimed + 1] = "none"
    BY <1>3, BoundsAssumption DEF ClaimCreates, EvidenceInv, OnlyClaimed, TypeOK, Runs
  <2>2. CASE r = claimed + 1
    BY <1>3, <2>1, <2>2 DEF ClaimCreates, TypeOK, WasClaimed
  <2>3. CASE r # claimed + 1
    BY <1>3, <2>1, <2>3 DEF ClaimCreates, TypeOK, Spared
  <2> QED BY <2>2, <2>3
<1>4. ASSUME NEW w \in Workers, FlushCommit(w) \/ FlushPartial(w) \/ RecordFailure(w) PROVE Moved
  <2>1. job[w] \in Runs /\ pc[w] \in {"flush", "failing"} /\ UNCHANGED resets
    BY <1>4 DEF FlushCommit, FlushPartial, RecordFailure, EvidenceInv, JobsAreRuns
  <2>2. pc'[w] \notin Building
    BY <1>4 DEF FlushCommit, FlushPartial, RecordFailure, Goto, Finish, TypeOK, Building
  <2>3. /\ r # job[w] => status'[r] = status[r] /\ verdicts'[r] = verdicts[r]
        /\ FlushCommit(w) \/ status'[job[w]] \in {status[job[w]], "PARTIAL", "FAILED"}
    BY <1>4, <2>1
    DEF FlushCommit, FlushPartial, RecordFailure, UpsertRun, InsertVerdicts, TypeOK
  <2>4. CASE r # job[w]
    BY <2>1, <2>3, <2>4 DEF Spared
  <2>5. CASE r = job[w]
    <3>1. status'[r] \in Active => status[r] \in Active \/ pc[w] = "flush"
      BY <2>3, <2>5 DEF FlushCommit, Active
    <3> QED BY <2>1, <2>2, <2>5, <3>1 DEF Wrote
  <2> QED BY <2>4, <2>5
<1>5. ASSUME NEW w \in Workers, MarkAnchored(w) \/ MarkExecuted(w) PROVE Moved
  BY <1>5 DEF MarkAnchored, MarkExecuted, TypeOK, Spared, Active
<1>6. ASSUME NEW s \in Runs, NEW t \in Triggers, RecordHalt(s, t), UNCHANGED <<verdicts, resets>>
      PROVE  Moved
  BY <1>6, RecordHaltEffect DEF Spared
<1>7. ASSUME NEW w \in Workers, AutomaticHalt(w) PROVE Moved
  <2>1. job[w] \in Runs
    BY <1>7 DEF AutomaticHalt, EvidenceInv, JobsAreRuns
  <2> QED BY <1>6, <1>7, <2>1 DEF AutomaticHalt, Automatic, Triggers
<1>8. ASSUME NEW s \in Runs, ManualHalt(s) PROVE Moved
  BY <1>6, <1>8 DEF ManualHalt, Triggers
<1>9. ASSUME NEW s \in Runs, ResetRun(s) PROVE Moved
  <2>1. CASE r = s
    <3>1. resets'[r] /\ verdicts'[r] = NoVerdicts
      BY <1>9, <2>1 DEF ResetRun, TypeOK
    <3> QED BY <3>1 DEF WasReset
  <2>2. CASE r # s
    BY <1>9, <2>2 DEF ResetRun, TypeOK, Spared
  <2> QED BY <2>1, <2>2
<1>10. CASE UNCHANGED vars
  BY <1>1, <1>10 DEF vars, rows
<1> QED
  BY <1>2, <1>3, <1>4, <1>5, <1>7, <1>8, <1>9, <1>10, NoBacktest
  DEF Next, Weekly, Pipeline, Anchoring, Execution, LoseLock

\* A run is written by its builder only.
LEMMA OneBuilder ==
  ASSUME EvidenceInv, MutexInv, NEW v \in Workers, NEW w \in Workers, job[v] = job[w],
         pc[v] \in Advancing, pc[w] \in Advancing
  PROVE  v = w
  BY DEF MutexInv, Alone

\* A run is built only while it is active, halted, or was reset meanwhile.
BuiltIsActive ==
  \A w \in Workers :
    pc[w] \in Building /\ ~ resets[job[w]] => status[job[w]] \in Active \cup {"HALTED"}

LEMMA ActiveStep ==
  ASSUME LiveRuns = Runs, ~ LockLoss, EvidenceInv, MutexInv, BuiltIsActive,
         OneActiveRunUnlessReset, [Next]_vars
  PROVE  BuiltIsActive' /\ OneActiveRunUnlessReset'
<1>1. BuiltIsActive'
  <2> SUFFICES ASSUME NEW v \in Workers, pc'[v] \in Building, ~ resets'[job'[v]]
               PROVE  status'[job'[v]] \in Active \cup {"HALTED"}
    BY DEF BuiltIsActive
  <2> DEFINE r == job[v]
  <2>1. Builds(v) /\ job'[v] = r
    BY BuilderMoves DEF Builds
  <2>2. pc[v] \in Building \cup {"dispatch"} /\ r \in Runs
    BY <2>1 DEF Builds, Building, EvidenceInv, JobsAreRuns
  <2>3. ASSUME ~ resets[r] PROVE status[r] \in Active \cup {"HALTED"}
    BY <2>1, <2>3 DEF Builds, Building, BuiltIsActive, Active
  <2>4. ASSUME NEW w \in Workers, Wrote(w, r) PROVE FALSE
    <3>1. v = w
      BY <2>2, <2>4, OneBuilder DEF Wrote, Building, Advancing
    <3> QED BY <2>4, <3>1 DEF Wrote
  <2>5. Spared(r) \/ WasClaimed(r)
    BY <2>1, <2>2, <2>4, RunMoves DEF WasReset
  <2>6. ~ resets[r]
    BY <2>1, <2>5 DEF Spared, WasClaimed
  <2> QED BY <2>1, <2>3, <2>5, <2>6 DEF Spared, WasClaimed, Active
<1>2. ASSUME NEW r \in Runs, status'[r] \in Active, ~ resets'[r]
      PROVE  ~ resets[r] /\ (status[r] \in Active \/ WasClaimed(r))
  <2>1. CASE Spared(r)
    BY <1>2, <2>1 DEF Spared, Active
  <2>2. ASSUME NEW w \in Workers, Wrote(w, r) PROVE ~ resets[r] /\ status[r] \in Active
    <3>1. status[r] # "HALTED"
      BY <1>2, EvidenceStep DEF RowsStable, KeepsHalts, Active
    <3> QED BY <1>2, <2>2, <3>1 DEF Wrote, BuiltIsActive, Building
  <2> QED BY <1>2, <2>1, <2>2, RunMoves DEF WasReset, WasClaimed
<1>3. OneActiveRunUnlessReset'
  <2> SUFFICES ASSUME NEW r \in ActiveRuns', NEW s \in ActiveRuns', r # s,
                      ~ resets'[r], ~ resets'[s]
               PROVE  FALSE
    BY DEF OneActiveRunUnlessReset
  <2>1. r \in Runs /\ s \in Runs /\ status'[r] \in Active /\ status'[s] \in Active
    BY DEF ActiveRuns
  <2>2. ASSUME NEW a \in Runs, NEW b \in Runs, a # b, WasClaimed(a), status'[b] \in Active
        PROVE  FALSE
    <3>1. status[b] \in Active /\ ActiveRuns = {}
      BY <2>2 DEF WasClaimed
    <3> QED BY <3>1 DEF ActiveRuns
  <2>3. ~ WasClaimed(r) /\ ~ WasClaimed(s)
    BY <2>1, <2>2
  <2>4. {r, s} \subseteq ActiveRuns /\ ~ resets[r] /\ ~ resets[s]
    BY <1>2, <2>1, <2>3 DEF ActiveRuns
  <2> QED BY <2>4 DEF OneActiveRunUnlessReset
<1> QED BY <1>1, <1>3

\* One run per claim key (claim_run, write.py:653): a halted, failed or partial
\* run that the operator did not reset is never active again beside a newer
\* one, whatever tasks, halts and crashes are still under way for it.
THEOREM OneRunPerKey ==
  ASSUME LiveRuns = Runs, ~ LockLoss
  PROVE  Spec => []OneActiveRunUnlessReset
<1>1. Init => BuiltIsActive /\ OneActiveRunUnlessReset
  BY DEF Init, BuiltIsActive, OneActiveRunUnlessReset, ActiveRuns, Active, Building
<1>2. /\ EvidenceInv /\ MutexInv /\ BuiltIsActive /\ OneActiveRunUnlessReset /\ [Next]_vars
      => (BuiltIsActive /\ OneActiveRunUnlessReset)'
  BY ActiveStep
<1> QED BY <1>1, <1>2, ExclusionAlways, PTL DEF Spec

-----------------------------------------------------------------------------
(* The verdicts of a book.                                                 *)

\* What is stored of a run while its book is built is what the builder has.
BuilderHas ==
  \A w \in Workers : pc[w] \in {"agents", "flush"} =>
    \A t \in Tasks : verdicts[job[w]][t] \in {Nil, got[w][t]}

\* A commitment appears in a flush, with the verdicts in the builder's hands.
LEMMA CommitMoves ==
  ASSUME LiveRuns = Runs, ~ LockLoss, EvidenceInv, [Next]_vars, NEW r \in Runs,
         commitment'[r] # commitment[r]
  PROVE  \E w \in Workers :
           /\ pc[w] = "flush" /\ job[w] = r
           /\ commitment'[r].used = got[w]
           /\ \E late \in Extensions(got[w]) :
                verdicts'[r] = [t \in Tasks |-> IF verdicts[r][t] = Nil THEN late[t]
                                                ELSE verdicts[r][t]]
<1> TypeOK
  BY DEF EvidenceInv
<1>1. PICK w \in Workers : FlushCommit(w)
  BY NoBacktest
  DEF Next, Weekly, ClaimFinds, ClaimCreates, DeliverAdvance, DeliverExecute, TryLock, Dispatch,
      LoadFails, Pipeline, RunStep, RunAgents, FlushPartial, StepRaises, RecordFailure, Anchoring,
      AnchorLoad, Publish, MarkAnchored, Execution, TryExecuteLock, ExecuteLoad, AutomaticHalt,
      Gate, Submit, MarkExecuted, ManualHalt, ResetRun, Crash, LoseLock, rows, vars
<1>2. job[w] \in Runs /\ pc[w] = "flush"
  BY <1>1 DEF FlushCommit, EvidenceInv, JobsAreRuns
<1>3. PICK cio \in CioReplies, late \in Extensions(got[w]) :
        /\ InsertVerdicts(job[w], late)
        /\ InsertCommitment(job[w], BookOf(got[w], cio))
  BY <1>1 DEF FlushCommit
<1>4. r = job[w] /\ commitment'[r] = BookOf(got[w], cio)
  BY <1>2, <1>3 DEF InsertCommitment, TypeOK
<1>5. verdicts'[r] = [t \in Tasks |-> IF verdicts[r][t] = Nil THEN late[t] ELSE verdicts[r][t]]
  BY <1>3, <1>4 DEF InsertVerdicts, TypeOK
<1> QED BY <1>2, <1>4, <1>5 DEF BookOf

LEMMA VerdictStep ==
  ASSUME LiveRuns = Runs, ~ LockLoss, EvidenceInv, MutexInv, BuilderHas,
         VerdictsBackCommitment, [Next]_vars
  PROVE  BuilderHas' /\ VerdictsBackCommitment'
<1> TypeOK
  BY DEF EvidenceInv
<1>1. BuilderHas'
  <2> SUFFICES ASSUME NEW v \in Workers, pc'[v] \in {"agents", "flush"}, NEW t \in Tasks
               PROVE  verdicts'[job'[v]][t] \in {Nil, got'[v][t]}
    BY DEF BuilderHas
  <2> DEFINE r == job[v]
  <2>1. Builds(v) /\ job'[v] = r
    BY BuilderMoves DEF Builds, Building
  <2>2. pc[v] \in Building /\ r \in Runs
    BY <2>1 DEF Builds, Building, EvidenceInv, JobsAreRuns
  <2>3. verdicts'[r] \in {verdicts[r], NoVerdicts}
    <3>1. ASSUME NEW w \in Workers, Wrote(w, r) PROVE FALSE
      <4>1. v = w
        BY <2>2, <3>1, OneBuilder DEF Wrote, Building, Advancing
      <4> QED BY <3>1, <4>1 DEF Wrote, Building
    <3> QED BY <2>2, <3>1, RunMoves DEF Spared, WasReset, WasClaimed
  <2>4. verdicts[r][t] \in {Nil, got'[v][t]}
    BY <2>1 DEF Builds, BuilderHas, Extensions
  <2> QED BY <2>1, <2>3, <2>4 DEF NoVerdicts
<1>2. VerdictsBackCommitment'
  <2> SUFFICES ASSUME NEW r \in Runs, commitment'[r] # Nil, NEW t \in Tasks
               PROVE  commitment'[r].used[t] \in {Nil, verdicts'[r][t]}
    BY DEF VerdictsBackCommitment
  <2>1. CASE commitment'[r] = commitment[r]
    <3>1. commitment[r].used[t] \in {Nil, verdicts[r][t]}
      BY <2>1 DEF VerdictsBackCommitment
    <3>2. verdicts[r][t] # Nil => verdicts'[r][t] = verdicts[r][t]
      BY <2>1, EvidenceStep DEF RowsStable, KeepsEvidence
    <3> QED BY <2>1, <3>1, <3>2
  <2>2. CASE commitment'[r] # commitment[r]
    <3>1. PICK w \in Workers :
            /\ pc[w] = "flush" /\ job[w] = r
            /\ commitment'[r].used = got[w]
            /\ \E late \in Extensions(got[w]) :
                 verdicts'[r] = [s \in Tasks |-> IF verdicts[r][s] = Nil THEN late[s]
                                                 ELSE verdicts[r][s]]
      BY <2>2, CommitMoves
    <3>0. PICK late \in Extensions(got[w]) :
            verdicts'[r] = [s \in Tasks |-> IF verdicts[r][s] = Nil THEN late[s]
                                            ELSE verdicts[r][s]]
      BY <3>1
    <3>2. verdicts[r][t] \in {Nil, got[w][t]}
      BY <3>1 DEF BuilderHas
    <3>3. got[w][t] # Nil => late[t] = got[w][t]
      BY DEF Extensions
    <3> QED BY <3>0, <3>1, <3>2, <3>3
  <2> QED BY <2>1, <2>2
<1> QED BY <1>1, <1>2

\* A committed book can be recomputed from what is stored: each verdict it was
\* built from is the stored one (insert_agent_verdicts, write.py:363, and
\* _seed_from_store, pipeline.py:336), also when earlier attempts left verdicts
\* behind or the run was reset meanwhile.
THEOREM BooksRestOnStoredVerdicts ==
  ASSUME LiveRuns = Runs, ~ LockLoss
  PROVE  Spec => []VerdictsBackCommitment
<1>1. Init => BuilderHas /\ VerdictsBackCommitment
  BY DEF Init, BuilderHas, VerdictsBackCommitment
<1>2. /\ EvidenceInv /\ MutexInv /\ BuilderHas /\ VerdictsBackCommitment /\ [Next]_vars
      => (BuilderHas /\ VerdictsBackCommitment)'
  BY VerdictStep
<1> QED BY <1>1, <1>2, ExclusionAlways, PTL DEF Spec

-----------------------------------------------------------------------------
(* Refinement.  Under the same assumptions the rows implement RunLedger:   *)
(* somebody who reads only the public record sees one book per run, decided *)
(* before it is announced and announced before it is traded.               *)

LEMMA PhaseIs ==
  ASSUME NEW s
  PROVE  /\ s = "COMMITTED" <=> PhaseOf(s) = "committed"
         /\ s = "ANCHORED" <=> PhaseOf(s) = "anchored"
         /\ s = "EXECUTED" <=> PhaseOf(s) = "executed"
         /\ s = "HALTED" <=> PhaseOf(s) = "halted"
         /\ s \notin Advanced \cup {"HALTED"} <=> PhaseOf(s) = "open"
  BY DEF PhaseOf, Advanced

phases == [r \in Runs |-> PhaseOf(status[r])]
publics == [r \in Runs |-> remote[r] # Nil]

LEMMA LedgerInit == Init => Ledger!Init
<1> SUFFICES ASSUME Init PROVE Ledger!Init
  OBVIOUS
<1>1. phases = [r \in Runs |-> "open"]
  BY PhaseIs DEF Init, phases, Advanced
<1>2. publics = [r \in Runs |-> FALSE]
  BY DEF Init, publics
<1> QED BY <1>1, <1>2 DEF Init, Ledger!Init, phases, publics

\* A status change of one run, seen as a change of its phase.
LEMMA PhaseMoves ==
  ASSUME TypeOK, TypeOK', NEW r \in Runs, \A s \in Runs \ {r} : status'[s] = status[s]
  PROVE  phases' = [phases EXCEPT ![r] = PhaseOf(status'[r])]
  BY DEF phases, TypeOK

LEMMA LedgerStutter ==
  ASSUME phases' = phases, UNCHANGED <<commitment, orders, remote>>
  PROVE  UNCHANGED Ledger!ledger
  BY DEF Ledger!ledger, phases

\* Each action of the runs is a step of the ledger, or not one it can see.
LEMMA LedgerStep ==
  ASSUME LiveRuns = Runs, ~ LockLoss, EvidenceInv, MutexInv, [Next]_vars
  PROVE  [Ledger!Next]_(Ledger!ledger)
<1> DEFINE Seen == [Ledger!Next]_(Ledger!ledger)
<1> TypeOK /\ TypeOK' /\ EvidenceInv'
  BY EvidenceStep DEF EvidenceInv
<1>1. ASSUME UNCHANGED <<status, commitment, orders, remote>> PROVE Seen
  BY <1>1, LedgerStutter DEF phases
<1>2. ASSUME NEW r \in Runs, \A s \in Runs \ {r} : status'[s] = status[s],
             PhaseOf(status'[r]) = PhaseOf(status[r]), UNCHANGED <<commitment, orders, remote>>
      PROVE  Seen
  BY <1>2, PhaseMoves, LedgerStutter DEF phases
<1>h. ASSUME NEW r \in Runs, NEW t \in Triggers, RecordHalt(r, t),
             UNCHANGED <<commitment, orders, remote>>
      PROVE  Seen
  <2>1. \A s \in Runs \ {r} : status'[s] = status[s]
    BY <1>h, RecordHaltEffect
  <2>2. CASE status'[r] = status[r]
    BY <1>2, <1>h, <2>1, <2>2
  <2>3. CASE status'[r] # status[r]
    <3>1. status[r] \in {"COMMITTED", "ANCHORED", "EXECUTED"} /\ status'[r] = "HALTED"
      BY <1>h, <2>3, RecordHaltEffect DEF Haltable
    <3>2. phases[r] \in {"committed", "anchored", "executed"} /\ phases' = [phases EXCEPT ![r] = "halted"]
      BY <2>1, <3>1, PhaseIs, PhaseMoves DEF phases
    <3>3. Ledger!Halt(r)
      BY <1>h, <3>2 DEF Ledger!Halt, Ledger!Move, phases
    <3> QED BY <3>3 DEF Ledger!Next
  <2> QED BY <2>2, <2>3
<1>3. ASSUME NEW w \in Workers,
             \/ Weekly(w) \/ TryLock(w) \/ Dispatch(w) \/ LoadFails(w) \/ RunStep(w) \/ RunAgents(w)
             \/ StepRaises(w) \/ AnchorLoad(w) \/ TryExecuteLock(w) \/ ExecuteLoad(w)
             \/ Gate(w) \/ Crash(w)
      PROVE  Seen
  <2>1. CASE \E fresh \in BOOLEAN : ClaimCreates(w, fresh)
    <3>1. claimed + 1 \in Runs /\ status[claimed + 1] = "none"
      BY <2>1, BoundsAssumption DEF ClaimCreates, EvidenceInv, OnlyClaimed, TypeOK, Runs
    <3>2. status'[claimed + 1] = "PENDING" /\ \A s \in Runs \ {claimed + 1} : status'[s] = status[s]
      BY <2>1, <3>1 DEF ClaimCreates, TypeOK
    <3>3. PhaseOf(status'[claimed + 1]) = PhaseOf(status[claimed + 1])
      BY <3>1, <3>2 DEF PhaseOf
    <3> QED BY <1>2, <2>1, <3>1, <3>2, <3>3 DEF ClaimCreates
  <2>2. CASE ~ \E fresh \in BOOLEAN : ClaimCreates(w, fresh)
    BY <1>1, <1>3, <2>2
    DEF Weekly, ClaimFinds, TryLock, Dispatch, LoadFails, RunStep, RunAgents, StepRaises, AnchorLoad,
        TryExecuteLock, ExecuteLoad, Gate, Crash, rows
  <2> QED BY <2>1, <2>2
<1>4. ASSUME NEW w \in Workers, NEW r \in Runs, DeliverAdvance(w, r) \/ DeliverExecute(w, r)
      PROVE  Seen
  BY <1>1, <1>4 DEF DeliverAdvance, DeliverExecute, rows
<1>5. ASSUME NEW w \in Workers, FlushCommit(w) PROVE Seen
  <2> DEFINE r == job[w]
  <2>1. r \in Runs /\ got[w] \in Verdicts /\ Alone(w)
    BY <1>5 DEF FlushCommit, EvidenceInv, TypeOK, JobsAreRuns, MutexInv
  <2>2. status[r] \notin Advanced
    BY <1>5, <2>1 DEF FlushCommit, Alone
  <2>3. PICK cio \in CioReplies :
          \/ /\ CommitmentFits(r, BookOf(got[w], cio))
             /\ UpsertRun(r, "COMMITTED")
             /\ InsertCommitment(r, BookOf(got[w], cio))
          \/ UNCHANGED <<status, commitment>>
    BY <1>5 DEF FlushCommit
  <2> DEFINE book == BookOf(got[w], cio)
  <2>4. book \in Books
    BY <2>1 DEF BookOf, Books
  <2>5. UNCHANGED <<orders, remote>>
    BY <1>5 DEF FlushCommit
  <2>6. CASE UNCHANGED <<status, commitment>>
    BY <1>1, <2>5, <2>6
  <2>7. CASE status[r] = "HALTED" /\ ~ UNCHANGED <<status, commitment>>
    <3>1. commitment[r] # Nil
      BY <2>1, <2>7 DEF EvidenceInv, EvidenceBacksStatus, Verified
    <3>2. UNCHANGED <<status, commitment>>
      BY <2>1, <2>3, <2>7, <3>1 DEF CommitmentFits, UpsertRun, InsertCommitment, TypeOK
    <3> QED BY <2>7, <3>2
  <2>8. CASE status[r] # "HALTED" /\ ~ UNCHANGED <<status, commitment>>
    <3>1. commitment' = [commitment EXCEPT ![r] = book]
      BY <2>3, <2>8 DEF InsertCommitment
    <3>2. status'[r] = "COMMITTED" /\ \A s \in Runs \ {r} : status'[s] = status[s]
      BY <2>1, <2>2, <2>3, <2>8 DEF UpsertRun, TypeOK, Advanced
    <3>3. phases[r] = "open" /\ phases' = [phases EXCEPT ![r] = "committed"]
      BY <2>1, <2>2, <2>8, <3>2, PhaseIs, PhaseMoves DEF phases
    <3> HIDE DEF r, book
    <3>4. Ledger!Commit(r)
      BY <2>1, <2>4, <2>5, <3>1, <3>3 DEF Ledger!Commit, Ledger!Move, phases
    <3> QED BY <2>1, <3>4 DEF Ledger!Next
  <2> QED BY <2>6, <2>7, <2>8
<1>6. ASSUME NEW w \in Workers, FlushPartial(w) \/ RecordFailure(w) PROVE Seen
  <2>1. job[w] \in Runs
    BY <1>6 DEF FlushPartial, RecordFailure, EvidenceInv, JobsAreRuns
  <2>2. /\ \A s \in Runs \ {job[w]} : status'[s] = status[s]
        /\ \/ status'[job[w]] = status[job[w]]
           \/ /\ status[job[w]] \notin Advanced \cup {"HALTED"}
              /\ status'[job[w]] \in {"PARTIAL", "FAILED"}
    BY <1>6, <2>1 DEF FlushPartial, RecordFailure, UpsertRun, TypeOK, Regressive
  <2>3. PhaseOf(status'[job[w]]) = PhaseOf(status[job[w]])
    BY <2>2, PhaseIs DEF Advanced
  <2> QED BY <1>2, <1>6, <2>1, <2>2, <2>3 DEF FlushPartial, RecordFailure
<1>7. ASSUME NEW w \in Workers, Publish(w) PROVE Seen
  <2>1. job[w] \in Runs /\ sha[w] # Nil /\ commitment[job[w]] # Nil
    BY <1>7 DEF Publish, EvidenceInv, JobsAreRuns, WorkersKnow, Knows
  <2>2. UNCHANGED <<status, commitment, orders>>
    BY <1>7 DEF Publish, rows
  <2>3. CASE remote' = remote
    BY <1>1, <2>2, <2>3
  <2>4. CASE remote' # remote
    <3>1. remote' = [remote EXCEPT ![job[w]] = sha[w]]
      BY <1>7, <2>4 DEF Publish
    <3>2. publics' = [publics EXCEPT ![job[w]] = TRUE]
      BY <2>1, <3>1 DEF publics, TypeOK
    <3>3. PICK r \in Runs : r = job[w]
      BY <2>1
    <3>4. Ledger!Announce(r)
      BY <2>1, <2>2, <3>2, <3>3 DEF Ledger!Announce, publics
    <3> QED BY <3>4 DEF Ledger!Next
  <2> QED BY <2>3, <2>4
<1>8. ASSUME NEW w \in Workers, MarkAnchored(w) PROVE Seen
  <2>1. job[w] \in Runs /\ remote[job[w]] # Nil
    BY <1>8 DEF MarkAnchored, EvidenceInv, JobsAreRuns, WorkersKnow, Knows
  <2>2. UNCHANGED <<commitment, orders, remote>>
    BY <1>8 DEF MarkAnchored
  <2>3. CASE UNCHANGED status
    BY <1>1, <2>2, <2>3
  <2>4. CASE status' # status
    <3>1. /\ \A s \in Runs \ {job[w]} : status'[s] = status[s]
          /\ status[job[w]] = "COMMITTED" /\ status'[job[w]] = "ANCHORED"
      BY <1>8, <2>1, <2>4 DEF MarkAnchored, TypeOK
    <3>2. phases[job[w]] = "committed" /\ phases' = [phases EXCEPT ![job[w]] = "anchored"]
      BY <2>1, <3>1, PhaseIs, PhaseMoves DEF phases
    <3>3. Ledger!Anchor(job[w])
      BY <2>1, <2>2, <3>2 DEF Ledger!Anchor, Ledger!Move, phases
    <3> QED BY <2>1, <3>3 DEF Ledger!Next
  <2> QED BY <2>3, <2>4
<1>9. ASSUME NEW w \in Workers, AutomaticHalt(w) PROVE Seen
  <2>1. job[w] \in Runs
    BY <1>9 DEF AutomaticHalt, EvidenceInv, JobsAreRuns
  <2> QED BY <1>h, <1>9, <2>1 DEF AutomaticHalt, Automatic, Triggers
<1>10. ASSUME NEW w \in Workers, Submit(w) PROVE Seen
  <2>1. /\ job[w] \in Runs /\ anchor[job[w]] # Nil
        /\ status[job[w]] \in {"ANCHORED", "HALTED"}
    BY <1>10 DEF Submit, EvidenceInv, JobsAreRuns, WorkersKnow, Knows, MutexInv, Alone
  <2>2. remote[job[w]] # Nil
    BY <2>1 DEF EvidenceInv, EvidenceBacksStatus, RowsAgree, Verified
  <2>3. UNCHANGED <<status, commitment, remote>>
    BY <1>10 DEF Submit
  <2>4. orders' = orders \/ orders' = [orders EXCEPT ![job[w]] = TRUE]
    <3>1. PICK sent \in BOOLEAN : orders' = [orders EXCEPT ![job[w]] = @ \/ sent]
      BY <1>10 DEF Submit
    <3>2. CASE sent = TRUE
      BY <3>1, <3>2
    <3>3. CASE sent = FALSE
      BY <2>1, <3>1, <3>3 DEF TypeOK
    <3> QED BY <3>2, <3>3
  <2>5. phases[job[w]] \in {"anchored", "halted"} /\ phases' = phases
    BY <2>1, <2>3, PhaseIs DEF phases
  <2>6. CASE orders' = orders
    BY <1>1, <2>3, <2>6
  <2>7. CASE orders' = [orders EXCEPT ![job[w]] = TRUE]
    <3>1. Ledger!Trade(job[w])
      BY <2>1, <2>2, <2>3, <2>5, <2>7 DEF Ledger!Trade, phases
    <3> QED BY <2>1, <3>1 DEF Ledger!Next
  <2> QED BY <2>4, <2>6, <2>7
<1>11. ASSUME NEW w \in Workers, MarkExecuted(w) PROVE Seen
  <2>1. job[w] \in Runs
    BY <1>11 DEF MarkExecuted, EvidenceInv, JobsAreRuns
  <2>2. UNCHANGED <<commitment, orders, remote>>
    BY <1>11 DEF MarkExecuted
  <2>3. CASE UNCHANGED status
    BY <1>1, <2>2, <2>3
  <2>4. CASE status' # status
    <3>1. /\ \A s \in Runs \ {job[w]} : status'[s] = status[s]
          /\ status[job[w]] = "ANCHORED" /\ status'[job[w]] = "EXECUTED"
      BY <1>11, <2>1, <2>4 DEF MarkExecuted, TypeOK
    <3>2. phases[job[w]] = "anchored" /\ phases' = [phases EXCEPT ![job[w]] = "executed"]
      BY <2>1, <3>1, PhaseIs, PhaseMoves DEF phases
    <3>3. Ledger!Execute(job[w])
      BY <2>1, <2>2, <3>2 DEF Ledger!Execute, Ledger!Move, phases
    <3> QED BY <2>1, <3>3 DEF Ledger!Next
  <2> QED BY <2>3, <2>4
<1>12. ASSUME NEW r \in Runs, ManualHalt(r) PROVE Seen
  BY <1>h, <1>12 DEF ManualHalt, Triggers
<1>13. ASSUME NEW r \in Runs, ResetRun(r) PROVE Seen
  <2>1. status[r] \notin Advanced \cup {"HALTED"}
    BY <1>13 DEF ResetRun, NothingCommitted, EvidenceInv, EvidenceBacksStatus, Verified
  <2>2. status'[r] = "PENDING" /\ \A s \in Runs \ {r} : status'[s] = status[s]
    BY <1>13 DEF ResetRun, TypeOK
  <2>3. PhaseOf(status'[r]) = PhaseOf(status[r])
    BY <2>1, <2>2, PhaseIs DEF Advanced
  <2> QED BY <1>2, <1>13, <2>2, <2>3 DEF ResetRun
<1>14. CASE UNCHANGED vars
  BY <1>1, <1>14 DEF vars, rows
<1> QED
  BY <1>3, <1>4, <1>5, <1>6, <1>7, <1>8, <1>9, <1>10, <1>11, <1>12, <1>13, <1>14, NoBacktest
  DEF Next, Pipeline, Anchoring, Execution, LoseLock

\* Under the task layer, and while no worker outlives the session of its lock,
\* the run rows, the public branch and the orders implement the ledger.
THEOREM RunsImplementLedger ==
  ASSUME LiveRuns = Runs, ~ LockLoss
  PROVE  Spec => ImplementsLedger
<1>1. EvidenceInv /\ MutexInv /\ [Next]_vars => [Ledger!Next]_(Ledger!ledger)
  BY LedgerStep
<1> QED
  BY <1>1, LedgerInit, ExclusionAlways, PTL DEF Spec, ImplementsLedger, Ledger!Spec

=============================================================================
