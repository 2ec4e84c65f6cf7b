------------------------- MODULE AgentFanOutProofs -------------------------
(* What TLAPS proves of AgentFanOut, for every value of its constants.     *)
EXTENDS AgentFanOut, FiniteSetTheorems, TLAPS

-----------------------------------------------------------------------------
(* Types.                                                                  *)

\* One call moves, or all of them start anew.
LEMMA ToTypes ==
  ASSUME TypeOK, NEW j \in Jobs, NEW state \in CallStates, To(j, state)
  PROVE  call' \in [Jobs -> CallStates]
  BY DEF TypeOK, To

LEMMA FanTypes ==
  ASSUME NEW jobs PROVE Fan(jobs) \in [Jobs -> CallStates]
  BY DEF Fan, CallStates

LEMMA NoBookTypes == NoBook \in Books
  BY DEF NoBook, Books

LEMMA ForgetTypes ==
  ASSUME Forget
  PROVE  stop' \in BOOLEAN /\ accounted' \subseteq Tasks /\ pooled' \subseteq Names /\ book' \in Books
  <1>1. stop' = FALSE /\ accounted' = {} /\ pooled' = {} /\ book' = NoBook
    BY DEF Forget
  <1>2. stop' \in BOOLEAN
    BY <1>1, Zenon
  <1> QED BY <1>1, <1>2, NoBookTypes

LEMMA EndTypes ==
  ASSUME TypeOK, End
  PROVE  /\ phase' \in Phases /\ call' \in [Jobs -> CallStates]
         /\ {spent', billed', unbooked'} \subseteq Nat
         /\ stop' \in BOOLEAN /\ held' \subseteq Tasks /\ accounted' \subseteq Tasks
         /\ pooled' \subseteq Names /\ book' \in Books /\ dlq' \subseteq Jobs
         /\ cached' \subseteq Tasks /\ answered' \subseteq Tasks /\ dropped' \subseteq Tasks
         /\ attempts' \in 0 .. MaxAttempts
  <1>1. call' \in [Jobs -> CallStates]
    BY FanTypes DEF End
  <1> QED BY <1>1, ForgetTypes DEF End, TypeOK, Phases

LEMMA ProposeTypes ==
  ASSUME TypeOK, NEW names \in SUBSET Names, Propose(names)
  PROVE  /\ book' \in Books /\ phase' \in Phases
         /\ call' \in [Jobs -> CallStates]
  <1>1. Fan({}) \in [Jobs -> CallStates]
    BY FanTypes
  <1> QED BY <1>1 DEF Propose, Books, NoBook, Phases, CallStates, Busy, Running, Asking

LEMMA FailTypes ==
  ASSUME TypeOK, NEW j \in Jobs, Fail(j)
  PROVE  phase' \in Phases /\ call' \in [Jobs -> CallStates]
  BY DEF Fail, TypeOK, Phases, CallStates

LEMMA TypeStep == TypeOK /\ [Next]_vars => TypeOK'
<1> SUFFICES ASSUME TypeOK, [Next]_vars PROVE TypeOK'
  OBVIOUS
<1> USE DEF run, budget, memory, replies, ghosts
<1>1. ASSUME NEW j \in Jobs, Thread(j) PROVE TypeOK'
  <2> DEFINE Reached == {"sent1", "sent2", "ask2", "paid", "valid", "raised", "dead", "invalid"}
  <2>1. Reached \subseteq CallStates
    BY DEF CallStates, Busy, Running, Asking, Sent
  <2>2. CASE Check(j)
    BY <2>1, <2>2, ToTypes DEF Check, TypeOK, DeadLetter
  <2>3. CASE Transient(j)
    BY <2>1, <2>3, ToTypes DEF Transient, TypeOK, DeadLetter
  <2>4. CASE HardError(j)
    BY <2>4, FailTypes DEF HardError, TypeOK
  <2>5. ASSUME NEW cost \in Costs, Unaccountable(j, cost) PROVE TypeOK'
    BY <2>1, <2>5, ToTypes, FanOutAssumption DEF Unaccountable, TypeOK
  <2>6. ASSUME NEW cost \in Costs, ReplyOverBudget(j, cost) PROVE TypeOK'
    BY <2>1, <2>6, ToTypes, FanOutAssumption DEF ReplyOverBudget, Charge, TypeOK, DeadLetter
  <2>7. ASSUME NEW cost \in Costs, ReplyValid(j, cost) PROVE TypeOK'
    BY <2>1, <2>7, ToTypes, FanOutAssumption DEF ReplyValid, Charge, TypeOK
  <2>8. ASSUME NEW cost \in Costs, ReplyInvalid(j, cost) PROVE TypeOK'
    BY <2>1, <2>8, ToTypes, FanOutAssumption DEF ReplyInvalid, Charge, TypeOK
  <2>9. ASSUME NEW cost \in Costs, Unheard(j, cost) PROVE TypeOK'
    BY <2>9, FanOutAssumption DEF Unheard, Fault, TypeOK
  <2>10. CASE Keep(j)
    BY <2>1, <2>10, ToTypes DEF Keep, TypeOK
  <2>11. CASE CacheRefuses(j)
    BY <2>11, FailTypes, FanOutAssumption DEF CacheRefuses, Fault, TypeOK, Jobs
  <2> QED BY <1>1, <2>2, <2>3, <2>4, <2>5, <2>6, <2>7, <2>8, <2>9, <2>10, <2>11 DEF Thread
<1>2. ASSUME NEW j \in Tasks, Loop(j) PROVE TypeOK'
  <2>1. {"valid", "ask1", "aborted", "held"} \subseteq CallStates /\ j \in Jobs
    BY DEF CallStates, Busy, Running, Asking, Jobs
  <2>2. CASE CacheUnreadable(j)
    BY <2>1, <2>2, FailTypes, FanOutAssumption DEF CacheUnreadable, Fault, TypeOK
  <2> QED BY <1>2, <2>1, <2>2, ToTypes DEF Loop, Take, Skip, Sink, HandleAbort, DeadLetter, TypeOK
<1>3. CASE Start
  BY <1>3, FanTypes, ForgetTypes, FanOutAssumption DEF Start, Opening, TypeOK, Phases
<1>4. CASE EndVotes
  <2>1. \A v \in Votes : v[2] \in Names
    BY DEF Votes
  <2>2. CASE Aborted
    BY <1>4, <2>2 DEF EndVotes, NewTelemetry, TypeOK, Phases
  <2>3. CASE ~ Aborted
    <3>1. PICK names \in SUBSET Names, top \in SUBSET Names :
             /\ pooled' = names
             /\ \/ Propose(names)
                \/ /\ phase' = "reviews" /\ UNCHANGED book
                   /\ call' = Fan(((Voters \cup {Red}) \X top) \ held)
      BY <1>4, <2>1, <2>3 DEF EndVotes, PoolVotes, Candidates
    <3> QED BY <1>4, <2>3, <3>1, ProposeTypes, FanTypes DEF EndVotes, NewTelemetry, TypeOK, Phases
  <2> QED BY <2>2, <2>3
<1>5. CASE EndReviews
  BY <1>5, ProposeTypes DEF EndReviews, NewTelemetry, TypeOK, Phases
<1>6. CASE EndCio
  <2>1. Review => book' \in Books /\ dlq' \subseteq Jobs
    BY DEF Review, TypeOK, Books, Jobs
  <2> QED BY <1>6, <2>1 DEF EndCio, TypeOK, Phases
<1>7. CASE FlushPartial
  BY <1>7, EndTypes DEF FlushPartial, Record, TypeOK
<1>8. CASE FlushCommit
  BY <1>8, EndTypes DEF FlushCommit, Record, TypeOK
<1>9. CASE FlushFails
  BY <1>9, FanOutAssumption DEF FlushFails, Fault, TypeOK, Phases
<1>10. CASE RecordFailure
  <2>1. exact' \in BOOLEAN
    <3>1. exact' = FALSE \/ exact' = (exact /\ ThreadsDone)
      BY <1>10 DEF RecordFailure
    <3> QED BY <3>1, Zenon
  <2> QED BY <1>10, <2>1, EndTypes, FanOutAssumption DEF RecordFailure, Record, Fault, TypeOK
<1>11. CASE Crash
  <2>1. exact' \in BOOLEAN
    BY <1>11, Zenon DEF Crash
  <2> QED BY <1>11, <2>1, EndTypes, FanOutAssumption DEF Crash, Fault, TypeOK
<1>12. CASE Reset
  BY <1>12 DEF Reset, TypeOK
<1>13. CASE UNCHANGED vars
  BY <1>13 DEF vars, TypeOK
<1> QED
  BY <1>1, <1>2, <1>3, <1>4, <1>5, <1>6, <1>7, <1>8, <1>9, <1>10, <1>11, <1>12, <1>13
  DEF Next, Work, Conclude

LEMMA InitTypes == Init => TypeOK
  <1> SUFFICES ASSUME Init PROVE TypeOK
    OBVIOUS
  <1>1. stop \in BOOLEAN /\ exact \in BOOLEAN
    BY Zenon DEF Init
  <1> QED BY <1>1, NoBookTypes, FanOutAssumption DEF Init, TypeOK, Phases, CallStates

(* A run's rows, the cache and what an attempt holds in memory stay well   *)
(* typed: in particular no spend is ever negative.                         *)
THEOREM TypeCorrect == Spec => []TypeOK
  BY InitTypes, TypeStep, PTL DEF Spec

-----------------------------------------------------------------------------
(* The budget.  What a step does to the calls in flight, to the places in  *)
(* the semaphore and to the spend is one of five things.                   *)

Leave == Flight' \subseteq Flight /\ InGate' \subseteq InGate /\ spent' = spent
Answer(j, cost) ==
  Flight' \subseteq Flight \ {j} /\ InGate' \subseteq InGate /\ spent' = spent + cost
Enter(j) == Place /\ Flight' \subseteq Flight /\ InGate' \subseteq InGate \cup {j} /\ spent' = spent
Send(j) ==
  spent < Ceiling /\ Flight' \subseteq Flight \cup {j} /\ InGate' \subseteq InGate /\ spent' = spent
Clear == Flight' = {} /\ InGate' \subseteq {Cio} /\ spent' \in {0, spent, ledger}

SpendStep ==
  \/ Leave \/ Clear
  \/ \E j \in Jobs : Enter(j) \/ Send(j)
  \/ \E j \in Flight, cost \in 0 .. MaxCost : Answer(j, cost)

\* A call that moves to a state outside the thread leaves the flight.
LEMMA ToLeaves ==
  ASSUME TypeOK, NEW j \in Jobs, NEW state, To(j, state)
  PROVE  /\ Flight' = IF state \in Sent THEN Flight \cup {j} ELSE Flight \ {j}
         /\ InGate' = IF state \in Busy THEN InGate \cup {j} ELSE InGate \ {j}
  BY DEF TypeOK, To, Flight, InGate, At

LEMMA FailLeaves ==
  ASSUME TypeOK, NEW j \in Jobs, Fail(j)
  PROVE  Flight' \subseteq Flight \ {j} /\ InGate' \subseteq InGate
  BY DEF TypeOK, Fail, Flight, InGate, At, Sent, Asking, Running, Busy

LEMMA FanClears ==
  ASSUME NEW jobs, call' = Fan(jobs)
  PROVE  Flight' = {} /\ InGate' = {}
  BY DEF Fan, Flight, InGate, At, Sent, Asking, Running, Busy

LEMMA ProposeClears ==
  ASSUME NEW names, Propose(names)
  PROVE  Flight' = {} /\ InGate' \subseteq {Cio}
  BY DEF Propose, Fan, Flight, InGate, At, Sent, Asking, Running, Busy

LEMMA SpendSteps == TypeOK /\ [Next]_vars => SpendStep /\ ledger' \in {ledger, spent}
<1> SUFFICES ASSUME TypeOK, [Next]_vars PROVE SpendStep /\ ledger' \in {ledger, spent}
  OBVIOUS
<1> USE DEF run, budget, memory, replies, ghosts
<1>1. ASSUME NEW j \in Jobs, Thread(j) PROVE SpendStep /\ ledger' = ledger
  <2> USE DEF Sent, Asking, Running, Busy, At
  <2>1. CASE Check(j)
    <3>1. CASE spent >= Ceiling
      <4>1. Leave
        BY <2>1, <3>1, ToLeaves DEF Check, Leave, InGate, Flight
      <4> QED BY <2>1, <4>1 DEF Check, SpendStep
    <3>2. CASE ~ (spent >= Ceiling)
      <4>1. spent < Ceiling
        BY <3>2, FanOutAssumption DEF TypeOK
      <4>2. Send(j)
        BY <2>1, <3>2, <4>1, ToLeaves DEF Check, Send, InGate, Flight
      <4> QED BY <2>1, <4>2 DEF Check, SpendStep
    <3> QED BY <3>1, <3>2
  <2>2. CASE Transient(j)
    <3>1. Leave
      BY <2>2, ToLeaves DEF Transient, Leave
    <3> QED BY <2>2, <3>1 DEF Transient, SpendStep
  <2>3. CASE HardError(j)
    <3>1. Leave
      BY <2>3, FailLeaves DEF HardError, Leave
    <3> QED BY <2>3, <3>1 DEF HardError, SpendStep
  <2>4. ASSUME NEW cost \in Costs, Unaccountable(j, cost) PROVE SpendStep /\ ledger' = ledger
    <3>1. Leave
      BY <2>4, ToLeaves DEF Unaccountable, Leave, InGate
    <3> QED BY <2>4, <3>1 DEF Unaccountable, SpendStep
  <2>5. ASSUME NEW cost \in Costs,
               ReplyOverBudget(j, cost) \/ ReplyValid(j, cost) \/ ReplyInvalid(j, cost)
        PROVE  SpendStep /\ ledger' = ledger
    <3>1. j \in Flight /\ j \in InGate /\ cost \in 0 .. MaxCost
      BY <2>5, FanOutAssumption
      DEF ReplyOverBudget, ReplyValid, ReplyInvalid, Flight, InGate
    <3>2. spent' = spent + cost /\ ledger' = ledger
      BY <2>5 DEF ReplyOverBudget, ReplyValid, ReplyInvalid, Charge
    <3>3. \/ To(j, "raised") \/ To(j, "paid") \/ To(j, "ask2") \/ To(j, "dead") \/ To(j, "invalid")
      BY <2>5 DEF ReplyOverBudget, ReplyValid, ReplyInvalid
    <3>4. Flight' \subseteq Flight \ {j} /\ InGate' \subseteq InGate
      BY <3>1, <3>3, ToLeaves
    <3> QED BY <3>1, <3>2, <3>4 DEF SpendStep, Answer
  <2>6. ASSUME NEW cost \in Costs, Unheard(j, cost) PROVE SpendStep /\ ledger' = ledger
    <3>1. Leave
      BY <2>6 DEF Unheard, Leave, Flight, InGate
    <3> QED BY <2>6, <3>1 DEF Unheard, SpendStep
  <2>7. CASE Keep(j)
    <3>1. Leave
      BY <2>7, ToLeaves DEF Keep, Leave, InGate
    <3> QED BY <2>7, <3>1 DEF Keep, SpendStep
  <2>8. CASE CacheRefuses(j)
    <3>1. Leave
      BY <2>8, FailLeaves DEF CacheRefuses, Leave
    <3> QED BY <2>8, <3>1 DEF CacheRefuses, SpendStep
  <2> QED BY <1>1, <2>1, <2>2, <2>3, <2>4, <2>5, <2>6, <2>7, <2>8 DEF Thread
<1>2. ASSUME NEW j \in Tasks, Loop(j) PROVE SpendStep /\ ledger' = ledger
  <2> USE DEF Sent, Asking, Running, Busy
  <2>0. j \in Jobs /\ ledger' = ledger
    BY <1>2 DEF Jobs, Loop, Take, CacheUnreadable, Skip, Sink, HandleAbort
  <2>1. CASE Take(j)
    <3>1. Enter(j)
      BY <2>0, <2>1, ToLeaves DEF Take, Enter
    <3> QED BY <2>0, <3>1 DEF SpendStep
  <2>2. CASE ~ Take(j)
    <3>1. Leave
      BY <1>2, <2>0, <2>2, ToLeaves, FailLeaves
      DEF Loop, CacheUnreadable, Skip, Sink, HandleAbort, Leave
    <3> QED BY <2>0, <3>1 DEF SpendStep
  <2> QED BY <2>1, <2>2
<1>3. CASE EndVotes \/ EndReviews
  <2>1. ledger' = ledger /\ spent' = spent
    BY <1>3 DEF EndVotes, EndReviews
  <2>2. UNCHANGED call \/ (\E jobs : call' = Fan(jobs)) \/ (\E names : Propose(names))
    BY <1>3 DEF EndVotes, EndReviews, PoolVotes
  <2>3. UNCHANGED call => Leave
    BY <2>1 DEF Leave, Flight, InGate, At
  <2>4. (\E jobs : call' = Fan(jobs)) \/ (\E names : Propose(names)) => Clear
    BY <2>1, FanClears, ProposeClears DEF Clear
  <2> QED BY <2>1, <2>2, <2>3, <2>4 DEF SpendStep
<1>4. CASE Start \/ FlushPartial \/ FlushCommit \/ RecordFailure \/ Crash
  <2>1. spent' \in {0, ledger} /\ ledger' \in {ledger, spent} /\ \E jobs : call' = Fan(jobs)
    BY <1>4 DEF Start, Opening, FlushPartial, FlushCommit, RecordFailure, Crash, Record, End
  <2>2. Clear
    BY <2>1, FanClears DEF Clear
  <2> QED BY <2>1, <2>2 DEF SpendStep
<1>5. CASE EndCio \/ FlushFails \/ Reset \/ UNCHANGED vars
  <2>1. UNCHANGED <<call, spent, ledger>>
    BY <1>5 DEF EndCio, FlushFails, Reset, vars
  <2>2. Leave
    BY <2>1 DEF Leave, Flight, InGate, At
  <2> QED BY <2>1, <2>2 DEF SpendStep
<1> QED BY <1>1, <1>2, <1>3, <1>4, <1>5 DEF Next, Work, Conclude

LEMMA JobsFinite == IsFiniteSet(Jobs)
  <1>1. IsFiniteSet(Voters) /\ IsFiniteSet(Names) /\ IsFiniteSet({Red}) /\ IsFiniteSet({Cio})
    BY FanOutAssumption, FS_Singleton
  <1>2. IsFiniteSet(Votes) /\ IsFiniteSet(Reviews)
    BY <1>1, FS_Product DEF Votes, Reviews
  <1>3. IsFiniteSet(Tasks)
    BY <1>2, FS_Union DEF Tasks
  <1> QED BY <1>1, <1>3, FS_Union DEF Jobs

\* Fewer calls are not more, and one call more is at most one more.
LEMMA FewerCalls ==
  ASSUME NEW S \in SUBSET Jobs, NEW T \in SUBSET S
  PROVE  /\ Cardinality(S) \in Nat /\ Cardinality(T) \in Nat
         /\ Cardinality(T) <= Cardinality(S)
  BY JobsFinite, FS_Subset, FS_CardinalityType

LEMMA OneCallMore ==
  ASSUME NEW S \in SUBSET Jobs, NEW j \in Jobs
  PROVE  Cardinality(S \cup {j}) <= Cardinality(S) + 1
  BY JobsFinite, FS_Subset, FS_CardinalityType, FS_AddElement

LEMMA OneCallLess ==
  ASSUME NEW S \in SUBSET Jobs, NEW j \in S
  PROVE  Cardinality(S \ {j}) = Cardinality(S) - 1
  BY JobsFinite, FS_Subset, FS_RemoveElement

SpendInv == TypeOK /\ InFlightInv /\ SpendBounded

LEMMA SpendBounds == SpendInv /\ [Next]_vars => SpendInv'
<1> SUFFICES ASSUME SpendInv, [Next]_vars PROVE InFlightInv' /\ SpendBounded'
  BY TypeStep DEF SpendInv
<1>1. /\ Flight \subseteq InGate /\ InGate \subseteq Jobs
      /\ Flight' \subseteq InGate' /\ InGate' \subseteq Jobs
  BY DEF Flight, InGate, At, Busy, Running
<1>2. SpendStep /\ ledger' \in {ledger, spent} /\ spent \in Nat /\ ledger \in Nat
  BY SpendSteps DEF SpendInv, TypeOK
<1>3. /\ Cardinality(InGate) \in Nat /\ Cardinality(InGate') \in Nat
      /\ Cardinality(Flight) \in Nat /\ Cardinality(Flight') \in Nat
      /\ Cardinality(Flight') <= Cardinality(InGate')
  BY <1>1, FewerCalls
<1>4. ledger' <= Overspend' /\ spent <= Overspend /\ Overspend \in Int /\ Overspend' = Overspend
  BY <1>2, FanOutAssumption DEF SpendInv, SpendBounded, Overspend
<1>5. ASSUME NEW n \in Nat, NEW k \in Nat, k <= n
      PROVE  MaxCost * k <= MaxCost * n /\ MaxCost * k \in Nat
  <2>1. PICK d \in Nat : n = k + d
    BY <1>5
  <2>2. MaxCost * n = MaxCost * k + MaxCost * d /\ MaxCost * d \in Nat /\ MaxCost * k \in Nat
    BY <2>1, FanOutAssumption
  <2> QED BY <2>2
<1>6. CASE Leave
  <2>1. Cardinality(InGate') <= Cardinality(InGate) /\ Cardinality(Flight') <= Cardinality(Flight)
    BY <1>1, <1>6, FewerCalls DEF Leave
  <2>2. MaxCost * Cardinality(Flight') <= MaxCost * Cardinality(Flight)
    BY <1>3, <1>5, <2>1
  <2>3. Flight' # {} => Flight # {}
    BY <1>6 DEF Leave
  <2> QED
    BY <1>2, <1>3, <1>4, <1>5, <1>6, <2>1, <2>2, <2>3, FanOutAssumption
    DEF Leave, SpendInv, InFlightInv, SpendBounded
<1>7. CASE Clear
  <2>1. Cardinality(InGate') <= 1
    <3>1. Cardinality({Cio}) = 1
      BY FS_Singleton
    <3> QED BY <1>7, <3>1, FewerCalls DEF Clear, Jobs
  <2> QED
    BY <1>2, <1>3, <1>4, <1>7, <2>1, FanOutAssumption
    DEF Clear, SpendInv, InFlightInv, SpendBounded
<1>8. ASSUME NEW j \in Jobs, Enter(j) PROVE InFlightInv' /\ SpendBounded'
  <2>1. /\ Cardinality(InGate') <= Cardinality(InGate) + 1
        /\ Cardinality(Flight') <= Cardinality(Flight)
    <3>1. InGate \cup {j} \in SUBSET Jobs /\ InGate' \in SUBSET (InGate \cup {j})
      BY <1>1, <1>8 DEF Enter
    <3>2. /\ Cardinality(InGate \cup {j}) \in Nat
          /\ Cardinality(InGate') <= Cardinality(InGate \cup {j})
          /\ Cardinality(InGate \cup {j}) <= Cardinality(InGate) + 1
      BY <1>1, <3>1, FewerCalls, OneCallMore
    <3>3. Cardinality(Flight') <= Cardinality(Flight)
      BY <1>1, <1>8, FewerCalls DEF Enter
    <3> QED BY <1>3, <3>2, <3>3
  <2>2. MaxCost * Cardinality(Flight') <= MaxCost * Cardinality(Flight)
    BY <1>3, <1>5, <2>1
  <2>3. (Flight' # {} => Flight # {}) /\ Cardinality(InGate) < Concurrency
    BY <1>8 DEF Enter, Place
  <2> QED
    BY <1>2, <1>3, <1>4, <1>5, <1>8, <2>1, <2>2, <2>3, FanOutAssumption
    DEF Enter, SpendInv, InFlightInv, SpendBounded
<1>9. ASSUME NEW j \in Jobs, Send(j) PROVE InFlightInv' /\ SpendBounded'
  <2>1. Cardinality(InGate') <= Cardinality(InGate)
    BY <1>1, <1>9, FewerCalls DEF Send
  <2>2. Cardinality(Flight') <= Concurrency /\ Cardinality(InGate') <= Concurrency
    BY <1>3, <2>1, FanOutAssumption DEF SpendInv, InFlightInv
  <2>3. MaxCost * Cardinality(Flight') <= MaxCost * Concurrency
    BY <1>3, <1>5, <2>2, FanOutAssumption
  <2>4. spent' = spent /\ spent <= Ceiling - 1 /\ Ceiling \in Nat
    BY <1>2, <1>9, FanOutAssumption DEF Send
  <2>5. MaxCost * Cardinality(Flight') \in Nat /\ MaxCost * Concurrency \in Nat
    BY <1>3, <1>5, FanOutAssumption
  <2>6. spent' + MaxCost * Cardinality(Flight') <= Overspend
    BY <1>2, <2>3, <2>4, <2>5 DEF Overspend
  <2>7. InFlightInv'
    BY <1>4, <2>2, <2>6, Zenon DEF InFlightInv
  <2>8. SpendBounded'
    BY <1>4, <2>4 DEF SpendBounded
  <2> QED BY <2>7, <2>8
<1>10. ASSUME NEW j \in Flight, NEW cost \in 0 .. MaxCost, Answer(j, cost)
       PROVE  InFlightInv' /\ SpendBounded'
  <2> DEFINE n == Cardinality(Flight)
  <2>1. /\ Cardinality(InGate') <= Cardinality(InGate)
        /\ Cardinality(Flight') <= n - 1
    <3>1. Flight \in SUBSET Jobs /\ Flight \ {j} \in SUBSET Jobs
      BY <1>1
    <3>2. Flight' \in SUBSET (Flight \ {j}) /\ InGate' \in SUBSET InGate
      BY <1>10 DEF Answer
    <3>3. Cardinality(Flight \ {j}) = n - 1
      BY <1>10, <3>1, OneCallLess
    <3>4. Cardinality(Flight') <= Cardinality(Flight \ {j})
      BY <3>1, <3>2, FewerCalls
    <3>5. Cardinality(InGate') <= Cardinality(InGate)
      BY <1>1, <3>2, FewerCalls
    <3> QED BY <3>3, <3>4, <3>5
  <2>2. n - 1 \in Nat /\ MaxCost * n = MaxCost * (n - 1) + MaxCost
    BY <1>3, <2>1, FanOutAssumption
  <2>3. /\ MaxCost * Cardinality(Flight') <= MaxCost * (n - 1)
        /\ MaxCost * (n - 1) \in Nat /\ MaxCost * Cardinality(Flight') \in Nat
    BY <1>3, <1>5, <2>1, <2>2
  <2>4. spent + MaxCost * n <= Overspend
    BY <1>10 DEF SpendInv, InFlightInv
  <2>5. spent' + MaxCost * Cardinality(Flight') <= Overspend /\ spent' <= Overspend
    <3> HIDE DEF n
    <3> QED BY <1>2, <1>4, <1>10, <2>2, <2>3, <2>4, FanOutAssumption DEF Answer
  <2> QED
    BY <1>3, <1>4, <2>1, <2>5, FanOutAssumption
    DEF Answer, SpendInv, InFlightInv, SpendBounded
<1> QED BY <1>2, <1>6, <1>7, <1>8, <1>9, <1>10 DEF SpendStep

LEMMA SpendInvariant == Spec => []SpendInv
<1>1. Init => SpendInv
  <2> SUFFICES ASSUME Init PROVE InFlightInv /\ SpendBounded
    BY InitTypes DEF SpendInv
  <2>1. Flight = {} /\ InGate = {}
    BY DEF Init, Flight, InGate, At, Sent, Asking, Running, Busy
  <2>2. MaxCost * Concurrency \in Nat /\ Cardinality({}) = 0
    BY FanOutAssumption, FS_EmptySet
  <2> QED BY <2>1, <2>2, FanOutAssumption DEF Init, InFlightInv, SpendBounded, Overspend
<1> QED BY <1>1, SpendBounds, PTL DEF Spec

(* A run, over all its attempts, spends less than its budget plus what the *)
(* calls in flight may cost: base.py:310 checks before, base.py:329        *)
(* charges after.                                                          *)
THEOREM SpendIsBounded == Spec => []SpendBounded
  BY SpendInvariant, PTL DEF SpendInv

(* What the bound rests on: no more calls in flight than the semaphore has *)
(* places (runner.py:92), and each of them within the bound.               *)
THEOREM CallsInFlight == Spec => []InFlightInv
  BY SpendInvariant, PTL DEF SpendInv

-----------------------------------------------------------------------------
(* The recorded cost.                                                      *)

\* Between attempts no call is anywhere.
Quiet == phase = "idle" => \A j \in Jobs : call[j] = "out"

\* While the step runs its counter is right, afterwards the row is.
LedgerInv ==
  /\ TypeOK /\ Quiet
  /\ exact => IF phase = "idle" THEN ledger + unbooked = billed ELSE spent + unbooked = billed

LEMMA ThreadsWork ==
  ASSUME Quiet, NEW j \in Jobs, Thread(j)
  PROVE  phase # "idle" /\ phase' # "idle" /\ UNCHANGED <<ledger, exact>>
<1>1. At(j, Running) /\ UNCHANGED <<ledger, exact>> /\ phase' \in {phase, "failing"}
  BY DEF Thread, Check, Transient, HardError, Unheard, Unaccountable, ReplyOverBudget, ReplyValid,
         ReplyInvalid, Keep, CacheRefuses, Fail, At, Running, run, memory, ghosts, replies, budget
<1> QED BY <1>1 DEF Quiet, At, Running, Asking, Sent

LEMMA LedgerStep == LedgerInv /\ [Next]_vars => LedgerInv'
<1> SUFFICES ASSUME LedgerInv, [Next]_vars
             PROVE  /\ Quiet'
                    /\ exact' => IF phase' = "idle" THEN ledger' + unbooked' = billed'
                                                    ELSE spent' + unbooked' = billed'
  BY TypeStep DEF LedgerInv
<1> DEFINE Right == exact' => IF phase' = "idle" THEN ledger' + unbooked' = billed'
                                                  ELSE spent' + unbooked' = billed'
<1> USE DEF run, budget, memory, replies, ghosts
<1>0. {ledger, spent, billed, unbooked} \subseteq Nat /\ Quiet
  BY DEF LedgerInv, TypeOK
<1>1. ASSUME NEW j \in Jobs, Thread(j) PROVE Quiet' /\ Right
  <2>1. phase # "idle" /\ phase' # "idle" /\ UNCHANGED <<ledger, exact>>
    BY <1>0, <1>1, ThreadsWork
  <2>2. CASE Check(j) \/ Transient(j) \/ HardError(j) \/ Keep(j) \/ CacheRefuses(j)
    BY <2>1, <2>2 DEF Check, Transient, HardError, Keep, CacheRefuses, LedgerInv, Quiet
  <2>3. ASSUME NEW cost \in Costs,
               \/ Unheard(j, cost) \/ Unaccountable(j, cost)
               \/ ReplyOverBudget(j, cost) \/ ReplyValid(j, cost) \/ ReplyInvalid(j, cost)
        PROVE  Quiet' /\ Right
    BY <1>0, <2>1, <2>3, FanOutAssumption
    DEF Unheard, Unaccountable, ReplyOverBudget, ReplyValid, ReplyInvalid, Charge,
        LedgerInv, Quiet
  <2> QED BY <1>1, <2>2, <2>3 DEF Thread
<1>2. ASSUME NEW j \in Tasks, Loop(j) PROVE Quiet' /\ Right
  BY <1>2
  DEF Loop, Take, CacheUnreadable, Fail, Skip, Sink, HandleAbort, InStage, LedgerInv, Quiet
<1>3. CASE Start
  BY <1>3 DEF Start, Opening, LedgerInv, Quiet
<1>4. CASE EndVotes \/ EndReviews \/ EndCio
  <2>1. phase # "idle" /\ phase' # "idle" /\ UNCHANGED <<ledger, spent, billed, unbooked, exact>>
    BY <1>4 DEF EndVotes, EndReviews, EndCio, PoolVotes, Propose
  <2> QED BY <2>1 DEF LedgerInv, Quiet
<1>5. CASE FlushPartial \/ FlushCommit \/ RecordFailure \/ Crash
  <2>1. End /\ phase # "idle"
    BY <1>5 DEF FlushPartial, FlushCommit, RecordFailure, Crash
  <2>2. Quiet'
    BY <2>1 DEF End, Fan, Quiet
  <2>3. exact' => exact /\ ledger' = spent
    BY <1>5 DEF FlushPartial, FlushCommit, RecordFailure, Crash, Record
  <2> QED BY <2>1, <2>2, <2>3 DEF End, LedgerInv
<1>6. CASE FlushFails
  BY <1>6 DEF FlushFails, LedgerInv, Quiet
<1>7. CASE Reset \/ UNCHANGED vars
  BY <1>7 DEF Reset, vars, LedgerInv, Quiet
<1> QED BY <1>1, <1>2, <1>3, <1>4, <1>5, <1>6, <1>7 DEF Next, Work, Conclude

(* What a run records as its cost is what was paid for it, but for posts   *)
(* whose answer was not heard, replies without usage, and attempts that    *)
(* died before they could write or left threads behind: resuming and       *)
(* resetting a run forget nothing (pipeline.py:289, write.py:765).         *)
THEOREM RecordedCostIsTrue == Spec => []LedgerIsTrue
<1>1. Init => LedgerInv
  BY InitTypes DEF Init, LedgerInv, Quiet
<1>2. LedgerInv => LedgerIsTrue
  BY DEF LedgerInv, LedgerIsTrue
<1> QED BY <1>1, <1>2, LedgerStep, PTL DEF Spec

-----------------------------------------------------------------------------
(* The ceiling.                                                            *)

\* A run that recorded the ceiling has no call in flight, and an attempt of it has nothing
\* left to spend.
CeilingInv ==
  /\ LedgerInv
  /\ ledger >= Ceiling => Flight = {} /\ (phase # "idle" => spent >= Ceiling)

\* All that a thread can do then is to return what it has, or to find the budget exceeded.
LEMMA ThreadsStop ==
  ASSUME CeilingInv, ledger >= Ceiling, NEW j \in Jobs, Thread(j)
  PROVE  /\ spent >= Ceiling /\ UNCHANGED <<spent, billed>>
         /\ To(j, "raised") \/ To(j, "valid") \/ Fail(j)
<1>1. j \notin Flight /\ phase # "idle"
  BY ThreadsWork DEF CeilingInv, LedgerInv
<1>2. ~ At(j, Sent)
  BY <1>1 DEF Flight
<1>3. Check(j) \/ Keep(j) \/ CacheRefuses(j)
  BY <1>2
  DEF Thread, Transient, HardError, Unheard, Unaccountable, ReplyOverBudget, ReplyValid,
      ReplyInvalid
<1> QED BY <1>1, <1>3 DEF CeilingInv, Check, Keep, CacheRefuses, budget

LEMMA CeilingStep ==
  CeilingInv /\ [Next]_vars => CeilingInv' /\ (ledger >= Ceiling => UNCHANGED billed)
<1> SUFFICES ASSUME CeilingInv, [Next]_vars
             PROVE  /\ ledger' >= Ceiling => Flight' = {} /\ (phase' # "idle" => spent' >= Ceiling)
                    /\ ledger >= Ceiling => UNCHANGED billed
  BY LedgerStep DEF CeilingInv
<1> DEFINE Kept ==
      /\ ledger' >= Ceiling => Flight' = {} /\ (phase' # "idle" => spent' >= Ceiling)
      /\ ledger >= Ceiling => UNCHANGED billed
<1> USE DEF run, budget, memory, replies, ghosts
<1>0. TypeOK
  BY DEF CeilingInv, LedgerInv
<1>1. ASSUME NEW j \in Jobs, Thread(j) PROVE Kept
  <2>1. ledger' = ledger
    BY <1>1, ThreadsWork DEF CeilingInv, LedgerInv
  <2>2. CASE ledger >= Ceiling
    <3>1. /\ spent >= Ceiling /\ UNCHANGED <<spent, billed>>
          /\ To(j, "raised") \/ To(j, "valid") \/ Fail(j)
      BY <1>1, <2>2, ThreadsStop
    <3>2. Flight' \subseteq Flight
      BY <1>0, <3>1, ToLeaves, FailLeaves DEF Sent
    <3> QED BY <2>1, <2>2, <3>1, <3>2 DEF CeilingInv
  <2> QED BY <2>1, <2>2
<1>2. ASSUME NEW j \in Tasks, Loop(j) PROVE Kept
  <2>1. /\ j \in Jobs /\ UNCHANGED <<ledger, spent, billed>> /\ phase # "idle"
        /\ \/ To(j, "valid") \/ To(j, "ask1") \/ To(j, "aborted") \/ To(j, "held")
           \/ Fail(j)
    BY <1>2 DEF Jobs, Loop, Take, CacheUnreadable, Skip, Sink, HandleAbort, InStage
  <2>2. Flight' \subseteq Flight
    BY <1>0, <2>1, ToLeaves, FailLeaves DEF Sent
  <2> QED BY <2>1, <2>2 DEF CeilingInv
<1>3. CASE Start
  <2>1. Flight' = {}
    BY <1>3, FanClears DEF Start, Opening
  <2> QED BY <1>3, <2>1 DEF Start, Opening
<1>4. CASE EndVotes \/ EndReviews
  <2>1. UNCHANGED <<ledger, spent, billed>> /\ phase # "idle"
    BY <1>4 DEF EndVotes, EndReviews
  <2>2. UNCHANGED call \/ (\E jobs : call' = Fan(jobs)) \/ (\E names : Propose(names))
    BY <1>4 DEF EndVotes, EndReviews, PoolVotes
  <2>3. Flight' = Flight \/ Flight' = {}
    BY <2>2, FanClears, ProposeClears DEF Flight, At
  <2> QED BY <2>1, <2>3 DEF CeilingInv
<1>5. CASE FlushPartial \/ FlushCommit \/ RecordFailure \/ Crash
  <2>1. End
    BY <1>5 DEF FlushPartial, FlushCommit, RecordFailure, Crash
  <2>2. Flight' = {} /\ phase' = "idle" /\ UNCHANGED billed
    BY <2>1, FanClears DEF End
  <2> QED BY <2>2
<1>6. CASE EndCio \/ FlushFails \/ Reset \/ UNCHANGED vars
  <2>1. UNCHANGED <<call, ledger, spent, billed>> /\ (phase' # "idle" => phase # "idle")
    BY <1>6 DEF EndCio, FlushFails, Reset, vars
  <2>2. Flight' = Flight
    BY <2>1 DEF Flight, At
  <2> QED BY <2>1, <2>2 DEF CeilingInv
<1> QED BY <1>1, <1>2, <1>3, <1>4, <1>5, <1>6 DEF Next, Work, Conclude

(* Once a run has recorded its ceiling, nothing is paid for it any more:   *)
(* base.py:310 looks at the budget before every request, and a resumed or  *)
(* reset run starts from what was recorded (pipeline.py:287-290).          *)
THEOREM ExhaustedRunsAreNotBilled == Spec => CeilingIsFinal
<1>1. Init => CeilingInv
  <2> SUFFICES ASSUME Init PROVE CeilingInv
    OBVIOUS
  <2>1. LedgerInv
    BY InitTypes DEF Init, LedgerInv, Quiet
  <2>2. ~ (ledger >= Ceiling)
    BY FanOutAssumption DEF Init
  <2> QED BY <2>1, <2>2 DEF CeilingInv
<1>2. CeilingInv /\ [Next]_vars => [ledger >= Ceiling => UNCHANGED billed]_vars
  BY CeilingStep
<1> QED BY <1>1, <1>2, CeilingStep, PTL DEF Spec, CeilingIsFinal

-----------------------------------------------------------------------------
(* The cache.                                                              *)

\* A cached task is never at work again, and a valid reply is cached, about to
\* be, or was dropped.
Pending == {j \in Tasks : At(j, {"paid"})}
CacheInv ==
  /\ TypeOK /\ LedgerInv
  /\ answered \subseteq cached \cup Pending \cup dropped
  /\ \A j \in cached : ~ At(j, Running)

LEMMA CacheStep == CacheInv /\ [Next]_vars => CacheInv'
<1> SUFFICES ASSUME CacheInv, [Next]_vars
             PROVE  /\ answered' \subseteq cached' \cup Pending' \cup dropped'
                    /\ \A j \in cached' : ~ At(j, Running)'
  BY TypeStep, LedgerStep DEF CacheInv
<1> DEFINE Kept == /\ answered' \subseteq cached' \cup Pending' \cup dropped'
                   /\ \A j \in cached' : ~ At(j, Running)'
<1> USE DEF run, budget, memory, replies, ghosts, CacheInv, Pending
<1>0. /\ cached \subseteq Jobs /\ Cio \notin cached /\ call \in [Jobs -> CallStates]
      /\ Tasks \subseteq Jobs
  BY CioIsNoTask DEF TypeOK, Jobs
<1>1. ASSUME NEW j \in Jobs, Thread(j) PROVE Kept
  <2> USE DEF At, Running, Asking, Sent, To
  <2>1. CASE Check(j) \/ Transient(j)
    BY <1>0, <2>1 DEF Check, Transient
  <2>2. ASSUME NEW cost \in Costs,
               \/ Unheard(j, cost) \/ Unaccountable(j, cost)
               \/ ReplyOverBudget(j, cost) \/ ReplyInvalid(j, cost)
        PROVE  Kept
    BY <1>0, <2>2 DEF Unheard, Unaccountable, ReplyOverBudget, ReplyInvalid
  <2>3. ASSUME NEW cost \in Costs, ReplyValid(j, cost) PROVE Kept
    BY <1>0, <2>3 DEF ReplyValid
  <2>4. CASE Keep(j)
    <3>1. /\ answered' = answered /\ answered \subseteq Tasks
          /\ cached' = cached \cup ({j} \cap Tasks) /\ dropped' = dropped \ {j}
          /\ \A i \in Jobs : call'[i] = IF i = j THEN "valid" ELSE call[i]
      BY <1>0, <2>4 DEF Keep, TypeOK
    <3>2. Pending \ {j} \subseteq Pending'
      BY <1>0, <3>1
    <3>3. \A i \in cached' : ~ At(i, Running)'
      BY <1>0, <3>1
    <3> QED BY <3>1, <3>2, <3>3
  <2>5. CASE HardError(j)
    BY <1>0, <2>5 DEF HardError, Fail
  <2>6. CASE CacheRefuses(j)
    BY <1>0, <2>6 DEF CacheRefuses, Fail
  <2> QED BY <1>1, <2>1, <2>2, <2>3, <2>4, <2>5, <2>6 DEF Thread
<1>2. ASSUME NEW j \in Tasks, Loop(j) PROVE Kept
  <2> USE DEF At, Running, Asking, Sent, To
  <2>1. CASE CacheUnreadable(j)
    BY <1>0, <2>1 DEF CacheUnreadable, Fail
  <2> QED BY <1>0, <1>2, <2>1 DEF Loop, Take, Skip, Sink, HandleAbort
<1>3. CASE EndVotes \/ EndReviews
  <2>1. Pending = {}
    BY <1>3 DEF EndVotes, EndReviews, StageOver, At, Busy, Running
  <2>2. UNCHANGED <<cached, replies>>
    BY <1>3 DEF EndVotes, EndReviews
  <2>3. UNCHANGED call \/ (\E jobs : call' = Fan(jobs)) \/ (\E names : Propose(names))
    BY <1>3 DEF EndVotes, EndReviews, PoolVotes
  <2> QED BY <1>0, <2>1, <2>2, <2>3 DEF Fan, Propose, At, Running, Asking, Sent
<1>4. CASE Start
  <2>1. Pending = {}
    BY <1>0, <1>4 DEF Start, Opening, LedgerInv, Quiet, At
  <2> QED BY <1>0, <1>4, <2>1 DEF Start, Opening, Fan, At, Running, Asking, Sent
<1>5. CASE FlushPartial \/ FlushCommit \/ RecordFailure \/ Crash
  <2>1. End
    BY <1>5 DEF FlushPartial, FlushCommit, RecordFailure, Crash
  <2>2. /\ dropped' = dropped \cup Pending /\ UNCHANGED <<cached, answered>>
        /\ call' = Fan({})
    BY <2>1 DEF End
  <2> QED BY <1>0, <2>2 DEF Fan, At, Running, Asking, Sent
<1>6. CASE EndCio \/ FlushFails \/ Reset \/ UNCHANGED vars
  <2>1. UNCHANGED <<call, cached, replies>>
    BY <1>6 DEF EndCio, FlushFails, Reset, vars
  <2> QED BY <2>1 DEF At
<1> QED BY <1>1, <1>2, <1>3, <1>4, <1>5, <1>6 DEF Next, Work, Conclude

(* A task that had a valid reply is sent again only if that reply was lost *)
(* before the cache had it: a reply is in the cache before its thread      *)
(* returns it (base.py:340), the cache is asked before the model           *)
(* (base.py:273), and nothing takes a reply out of it (store.py:23).       *)
THEOREM OnlyDroppedRepliesAreRebilled == Spec => []RebilledOnlyIfDropped
<1>1. Init => CacheInv
  BY InitTypes DEF Init, CacheInv, LedgerInv, Quiet
<1>2. CacheInv => RebilledOnlyIfDropped
  BY DEF CacheInv, Pending, RebilledOnlyIfDropped, Flight, At, Running, Sent
<1> QED BY <1>1, <1>2, CacheStep, PTL DEF Spec

-----------------------------------------------------------------------------
(* Accounting.                                                             *)

\* A new verdict has its telemetry, or is one the running stage has sunk.
AccountInv ==
  /\ TypeOK
  /\ InStage => held \ stored \subseteq accounted \cup NewTelemetry
  /\ phase \in {"cio", "partial", "commit"} => Complete

LEMMA AccountStep == AccountInv /\ [Next]_vars => AccountInv'
<1> SUFFICES ASSUME AccountInv, [Next]_vars
             PROVE  /\ InStage' => held' \ stored' \subseteq accounted' \cup NewTelemetry'
                    /\ phase' \in {"cio", "partial", "commit"} => Complete'
  BY TypeStep DEF AccountInv
<1> DEFINE Kept == /\ InStage' => held' \ stored' \subseteq accounted' \cup NewTelemetry'
                   /\ phase' \in {"cio", "partial", "commit"} => Complete'
<1> USE DEF run, budget, memory, replies, ghosts, InStage, Complete
<1>0. call \in [Jobs -> CallStates] /\ Tasks \subseteq Jobs
  BY DEF AccountInv, TypeOK, Jobs
<1>1. ASSUME NEW j \in Jobs, Thread(j) PROVE Kept
  <2>1. At(j, Running) /\ UNCHANGED <<held, stored, accounted>>
    BY <1>1
    DEF Thread, Check, Transient, HardError, Unheard, Unaccountable, ReplyOverBudget, ReplyValid,
        ReplyInvalid, Keep, CacheRefuses, At, Running
  <2>2. \/ phase' = "failing"
        \/ phase' = phase /\ (UNCHANGED call \/ \E state : To(j, state))
    BY <1>1
    DEF Thread, Check, Transient, HardError, Unheard, Unaccountable, ReplyOverBudget, ReplyValid,
        ReplyInvalid, Keep, CacheRefuses, Fail
  <2>3. UNCHANGED call \/ (\E state : To(j, state)) => NewTelemetry \subseteq NewTelemetry'
    BY <1>0, <2>1 DEF To, At, NewTelemetry, Running, Asking, Sent
  <2> QED BY <2>1, <2>2, <2>3 DEF AccountInv
<1>2. ASSUME NEW j \in Tasks, Loop(j) PROVE Kept
  <2>1. CASE Sink(j)
    <3>1. NewTelemetry' = NewTelemetry \cup {j}
      BY <1>0, <2>1 DEF Sink, To, At, NewTelemetry
    <3> QED BY <2>1, <3>1 DEF Sink, AccountInv
  <2>2. CASE Take(j) \/ Skip(j) \/ HandleAbort(j)
    <3>1. NewTelemetry \subseteq NewTelemetry'
      BY <1>0, <2>2 DEF Take, Skip, HandleAbort, To, At, NewTelemetry
    <3> QED BY <2>2, <3>1 DEF Take, Skip, HandleAbort, AccountInv
  <2>3. CASE CacheUnreadable(j)
    BY <2>3 DEF CacheUnreadable, Fail
  <2> QED BY <1>2, <2>1, <2>2, <2>3 DEF Loop
<1>3. CASE Start
  BY <1>3 DEF Start, Opening
<1>4. CASE EndVotes \/ EndReviews
  <2>1. InStage /\ accounted' = accounted \cup NewTelemetry /\ UNCHANGED <<held, stored>>
    BY <1>4 DEF EndVotes, EndReviews
  <2> QED BY <2>1 DEF AccountInv
<1>5. CASE EndCio
  BY <1>5 DEF EndCio, AccountInv
<1>6. CASE FlushFails
  BY <1>6 DEF FlushFails
<1>7. CASE FlushPartial \/ FlushCommit \/ RecordFailure \/ Crash
  BY <1>7 DEF FlushPartial, FlushCommit, RecordFailure, Crash, End
<1>8. CASE Reset
  BY <1>8 DEF Reset
<1>9. CASE UNCHANGED vars
  BY <1>9 DEF vars, AccountInv, NewTelemetry, At
<1> QED BY <1>1, <1>2, <1>3, <1>4, <1>5, <1>6, <1>7, <1>8, <1>9 DEF Next, Work, Conclude

(* _new_verdict_records never raises (pipeline.py:492): a step that ends   *)
(* with a flush has the telemetry of every verdict it is about to store.   *)
THEOREM FlushesAreComplete == Spec => []VerdictsAreAccounted
<1>1. Init => AccountInv
  BY InitTypes DEF Init, AccountInv, InStage
<1>2. AccountInv => VerdictsAreAccounted
  BY DEF AccountInv, VerdictsAreAccounted
<1> QED BY <1>1, <1>2, AccountStep, PTL DEF Spec

-----------------------------------------------------------------------------
(* Dead letters.                                                           *)

\* A task that was given up has its letter, and a step that is past its
\* stages has left no task of theirs behind.
DeadLetterInv ==
  /\ TypeOK
  /\ \A j \in Tasks : At(j, {"aborted", "dead"}) => j \in dlq
  /\ phase \in {"cio", "partial"} => StageOver

LEMMA DeadLetterStep == DeadLetterInv /\ [Next]_vars => DeadLetterInv'
<1> SUFFICES ASSUME DeadLetterInv, [Next]_vars
             PROVE  /\ \A j \in Tasks : At(j, {"aborted", "dead"})' => j \in dlq'
                    /\ phase' \in {"cio", "partial"} => StageOver'
  BY TypeStep DEF DeadLetterInv
<1> DEFINE Kept == /\ \A j \in Tasks : At(j, {"aborted", "dead"})' => j \in dlq'
                   /\ phase' \in {"cio", "partial"} => StageOver'
<1> USE DEF run, budget, memory, replies, ghosts, At, To, DeadLetter
<1>0. call \in [Jobs -> CallStates] /\ Tasks \subseteq Jobs /\ Cio \notin Tasks
  BY CioIsNoTask DEF DeadLetterInv, TypeOK, Jobs
<1>1. ASSUME NEW j \in Jobs, Thread(j) PROVE Kept
  <2> USE DEF Running, Asking, Sent
  <2>1. dlq \subseteq dlq' /\ phase' \in {phase, "failing"} /\ call[j] \in Running
    BY <1>1
    DEF Thread, Check, Transient, HardError, Unheard, Unaccountable, ReplyOverBudget, ReplyValid,
        ReplyInvalid, Keep, CacheRefuses, Fail
  <2>2. \/ \A i \in Jobs : call'[i] \in {call[i], "out"}
        \/ /\ \A i \in Jobs \ {j} : call'[i] = call[i]
           /\ j \in Tasks /\ call'[j] \in {"aborted", "dead"} => j \in dlq'
    <3>1. CASE Check(j) \/ Transient(j)
      BY <1>0, <3>1 DEF Check, Transient
    <3>2. ASSUME Fail(j) PROVE \A i \in Jobs : call'[i] \in {call[i], "out"}
      BY <1>0, <3>2 DEF Fail
    <3>3. ASSUME NEW cost \in Costs,
                 \/ Unaccountable(j, cost) \/ ReplyOverBudget(j, cost) \/ ReplyValid(j, cost)
          PROVE  /\ \A i \in Jobs \ {j} : call'[i] = call[i]
                 /\ call'[j] \in {"raised", "paid"}
      BY <1>0, <3>3 DEF Unaccountable, ReplyOverBudget, ReplyValid
    <3>4. ASSUME NEW cost \in Costs, ReplyInvalid(j, cost)
          PROVE  /\ \A i \in Jobs \ {j} : call'[i] = call[i]
                 /\ call'[j] \in {"ask2", "invalid"} \/ j = Cio
      BY <1>0, <3>4 DEF ReplyInvalid
    <3>5. ASSUME Keep(j) \/ \E cost \in Costs : Unheard(j, cost)
          PROVE  /\ \A i \in Jobs \ {j} : call'[i] = call[i]
                 /\ call'[j] \in {"valid", call[j]}
      BY <1>0, <3>5 DEF Keep, Unheard
    <3> QED BY <1>0, <1>1, <2>1, <3>1, <3>2, <3>3, <3>4, <3>5 DEF Thread, HardError, CacheRefuses
  <2>3. phase' \in {"cio", "partial"} => phase' = phase /\ j \notin Tasks
    BY <2>1 DEF DeadLetterInv, StageOver, Busy
  <2> QED BY <1>0, <2>1, <2>2, <2>3 DEF DeadLetterInv, StageOver, Busy
<1>2. ASSUME NEW j \in Tasks, Loop(j) PROVE Kept
  <2>1. CASE CacheUnreadable(j)
    BY <1>0, <2>1 DEF CacheUnreadable, Fail, InStage, DeadLetterInv
  <2> QED BY <1>0, <1>2, <2>1 DEF Loop, Take, Skip, Sink, HandleAbort, InStage, DeadLetterInv
<1>3. ASSUME (\E jobs : call' = Fan(jobs)), phase' \notin {"cio", "partial"} PROVE Kept
  BY <1>0, <1>3 DEF Fan
<1>4. ASSUME NEW names, Propose(names) PROVE Kept
  BY <1>0, <1>4 DEF Propose, Fan, StageOver, Busy, Running, Asking, Sent
<1>5. CASE EndVotes \/ EndReviews
  <2>1. CASE Aborted
    BY <1>5, <2>1 DEF EndVotes, EndReviews, StageOver, DeadLetterInv
  <2>2. CASE ~ Aborted
    <3>1. \/ \E names : Propose(names)
          \/ phase' = "reviews" /\ \E jobs : call' = Fan(jobs)
      BY <1>5, <2>2 DEF EndVotes, EndReviews, PoolVotes
    <3> QED BY <1>3, <1>4, <3>1
  <2> QED BY <2>1, <2>2
<1>6. CASE EndCio
  BY <1>6 DEF EndCio, Review, StageOver, DeadLetterInv
<1>7. CASE Start \/ FlushPartial \/ FlushCommit \/ RecordFailure \/ Crash
  <2>1. phase' \in {"votes", "idle"} /\ \E jobs : call' = Fan(jobs)
    BY <1>7 DEF Start, Opening, FlushPartial, FlushCommit, RecordFailure, Crash, End
  <2> QED BY <1>3, <2>1
<1>8. CASE FlushFails \/ Reset \/ UNCHANGED vars
  BY <1>8 DEF FlushFails, Reset, vars, StageOver, DeadLetterInv
<1> QED BY <1>1, <1>2, <1>5, <1>6, <1>7, <1>8 DEF Next, Work, Conclude

(* Whatever a stage had not answered when it was aborted is in the         *)
(* dead-letter queue by the time its step flushes what it has: the calls   *)
(* that failed (base.py:317), those that aborted it (runner.py:152) and    *)
(* those that found the stop event set (runner.py:128).                    *)
THEOREM NothingIsDroppedSilently == Spec => []AbortsAreDeadLettered
<1>1. Init => DeadLetterInv
  BY InitTypes DEF Init, DeadLetterInv, At, Jobs
<1>2. DeadLetterInv => AbortsAreDeadLettered
  BY DEF DeadLetterInv, AbortsAreDeadLettered, StageOver, At, TypeOK, CallStates, Jobs
<1> QED BY <1>1, <1>2, DeadLetterStep, PTL DEF Spec

-----------------------------------------------------------------------------
(* The CIO's review.                                                       *)

\* A book that may be committed.
Fit(b) ==
  /\ b.proposed # {} => b.reviewed
  /\ Cardinality(b.proposed \ b.final) * 100 <= Cardinality(b.proposed) * VetoPct

BookInv ==
  /\ TypeOK
  /\ Fit(decision)
  /\ phase = "commit" => Fit(book)
  /\ phase = "cio" => book.final = book.proposed

\* The floor never allows more than the budget.
LEMMA FloorIsWithin ==
  ASSUME NEW n \in Nat, NEW k \in Nat, k <= MaxVetoes(n)
  PROVE  k * 100 <= n * VetoPct
<1> DEFINE m == n * VetoPct
<1>1. m \in Nat /\ k <= m \div 100
  BY FanOutAssumption DEF MaxVetoes
<1> HIDE DEF m
<1>2. k * 100 <= m
  BY <1>1
<1> QED BY <1>2 DEF m

LEMMA EmptyBookFits == Fit(NoBook)
  BY FS_EmptySet, FanOutAssumption DEF Fit, NoBook

LEMMA ReviewedBookFits ==
  ASSUME TypeOK, book.final = book.proposed, Review
  PROVE  Fit(book')
<1>1. PICK vetoed \in SUBSET book.proposed :
         LET over == Cardinality(vetoed) > MaxVetoes(Cardinality(book.proposed)) IN
         book' = [book EXCEPT !.final = IF over THEN @ ELSE @ \ vetoed, !.reviewed = TRUE]
  BY DEF Review
<1> DEFINE n == Cardinality(book.proposed)
<1>2. book \in Books /\ IsFiniteSet(book.proposed) /\ n \in Nat /\ Cardinality(vetoed) \in Nat
  BY FanOutAssumption, FS_Subset, FS_CardinalityType DEF TypeOK, Books
<1>3. book'.proposed = book.proposed /\ book'.reviewed = TRUE
  BY <1>1, <1>2 DEF Books
<1>4. CASE Cardinality(vetoed) > MaxVetoes(n)
  <2>1. book'.proposed \ book'.final = {}
    BY <1>1, <1>2, <1>4 DEF Books
  <2>2. Cardinality(book'.proposed \ book'.final) = 0
    BY <2>1, FS_EmptySet
  <2>3. 0 * 100 <= n * VetoPct
    BY <1>2, FanOutAssumption
  <2> QED BY <1>3, <2>2, <2>3 DEF Fit
<1>5. CASE ~ (Cardinality(vetoed) > MaxVetoes(n))
  <2>1. book'.proposed \ book'.final = vetoed
    BY <1>1, <1>2, <1>5 DEF Books
  <2>2. MaxVetoes(n) \in Nat
    BY <1>2, FanOutAssumption DEF MaxVetoes
  <2>3. Cardinality(vetoed) <= MaxVetoes(n)
    BY <1>2, <1>5, <2>2
  <2>4. Cardinality(vetoed) * 100 <= n * VetoPct
    BY <1>2, <2>3, FloorIsWithin
  <2> QED BY <1>3, <2>1, <2>4 DEF Fit
<1> QED BY <1>4, <1>5

LEMMA BookStep == BookInv /\ [Next]_vars => BookInv'
<1> SUFFICES ASSUME BookInv, [Next]_vars
             PROVE  /\ Fit(decision')
                    /\ phase' = "commit" => Fit(book')
                    /\ phase' = "cio" => book'.final = book'.proposed
  BY TypeStep DEF BookInv, Fit
<1> DEFINE Kept == /\ Fit(decision')
                   /\ phase' = "commit" => Fit(book')
                   /\ phase' = "cio" => book'.final = book'.proposed
<1> USE DEF run, budget, memory, replies, ghosts
<1>1. ASSUME NEW j \in Jobs, Thread(j) PROVE Kept
  <2>1. UNCHANGED <<decision, book>> /\ phase' \in {phase, "failing"}
    BY <1>1
    DEF Thread, Check, Transient, HardError, Unheard, Unaccountable, ReplyOverBudget, ReplyValid,
        ReplyInvalid, Keep, CacheRefuses, Fail
  <2> QED BY <2>1 DEF BookInv
<1>2. ASSUME NEW j \in Tasks, Loop(j) PROVE Kept
  <2>1. UNCHANGED <<decision, book>> /\ phase' \in {phase, "failing"}
    BY <1>2 DEF Loop, Take, CacheUnreadable, Fail, Skip, Sink, HandleAbort
  <2> QED BY <2>1 DEF BookInv
<1>3. ASSUME NEW names, Propose(names), UNCHANGED decision PROVE Kept
  <2>1. PICK proposed \in SUBSET names :
           /\ book' = [NoBook EXCEPT !.proposed = proposed, !.final = proposed]
           /\ phase' = IF proposed = {} THEN "commit" ELSE "cio"
    BY <1>3 DEF Propose
  <2>2. book'.final = book'.proposed
    BY <2>1 DEF NoBook
  <2>3. proposed = {} => book' = NoBook
    BY <2>1 DEF NoBook
  <2> QED BY <1>3, <2>1, <2>2, <2>3, EmptyBookFits DEF BookInv
<1>4. CASE EndVotes \/ EndReviews
  <2>1. /\ UNCHANGED decision
        /\ phase' \in {"partial", "reviews"} \/ \E names : Propose(names)
    BY <1>4 DEF EndVotes, EndReviews, PoolVotes
  <2> QED BY <1>3, <2>1 DEF BookInv
<1>5. CASE EndCio
  <2>1. UNCHANGED decision /\ book.final = book.proposed
    BY <1>5 DEF EndCio, BookInv
  <2>2. phase' = "partial" \/ (phase' = "commit" /\ Review)
    BY <1>5 DEF EndCio
  <2> QED BY <2>1, <2>2, ReviewedBookFits DEF BookInv
<1>6. CASE FlushCommit
  BY <1>6 DEF FlushCommit, End, BookInv
<1>7. CASE Start \/ FlushPartial \/ FlushFails \/ RecordFailure \/ Crash
  <2>1. UNCHANGED decision /\ phase' \in {"votes", "idle", "record"}
    BY <1>7 DEF Start, Opening, FlushPartial, FlushFails, RecordFailure, Crash, End
  <2> QED BY <2>1 DEF BookInv
<1>8. CASE Reset \/ UNCHANGED vars
  BY <1>8 DEF Reset, vars, BookInv
<1> QED BY <1>1, <1>2, <1>4, <1>5, <1>6, <1>7, <1>8 DEF Next, Work, Conclude

(* No book with positions is committed without a valid CIO reply, and      *)
(* no review takes more of it than the veto budget (cio.py:53,76),         *)
(* for every budget and every size of the book.                            *)
THEOREM CommittedBooksAreReviewed == Spec => []BooksAreReviewed
<1>1. Init => BookInv
  BY InitTypes, EmptyBookFits DEF Init, BookInv
<1>2. BookInv => BooksAreReviewed
  BY DEF BookInv, Fit, BooksAreReviewed
<1> QED BY <1>1, <1>2, BookStep, PTL DEF Spec

-----------------------------------------------------------------------------
(* Going on.  That a step is ENABLED is beyond the prover: this is about   *)
(* the guards.                                                             *)

\* The CIO is asked in its own phase only, and what comes back then is an end of it.
CioInv ==
  /\ TypeOK
  /\ InStage => call[Cio] = "out"
  /\ phase = "cio" => call[Cio] \in Running \cup {"valid", "dead", "raised"}

LEMMA CioStep == CioInv /\ [Next]_vars => CioInv'
<1> SUFFICES ASSUME CioInv, [Next]_vars
             PROVE  /\ InStage' => call'[Cio] = "out"
                    /\ phase' = "cio" => call'[Cio] \in Running \cup {"valid", "dead", "raised"}
  BY TypeStep DEF CioInv
<1> DEFINE Kept == /\ InStage' => call'[Cio] = "out"
                   /\ phase' = "cio" => call'[Cio] \in Running \cup {"valid", "dead", "raised"}
<1> USE DEF run, budget, memory, replies, ghosts, InStage
<1>0. call \in [Jobs -> CallStates] /\ Cio \in Jobs /\ Tasks \subseteq Jobs /\ Cio \notin Tasks
  BY CioIsNoTask DEF CioInv, TypeOK, Jobs
<1>1. ASSUME NEW j \in Jobs, Thread(j) PROVE Kept
  <2> USE DEF Running, Asking, Sent, At, To
  <2>1. CASE phase' = "failing"
    BY <2>1
  <2>2. CASE phase' # "failing"
    <3>1. /\ call[j] \in Running /\ phase' = phase
          /\ \/ To(j, "raised") \/ To(j, "sent1") \/ To(j, "sent2") \/ To(j, "dead")
             \/ To(j, "paid") \/ To(j, "valid") \/ To(j, "ask2") \/ UNCHANGED call
             \/ j # Cio /\ To(j, "invalid")
      BY <1>1, <2>2
      DEF Thread, Check, Transient, HardError, Unheard, Unaccountable, ReplyOverBudget, ReplyValid,
          ReplyInvalid, Keep, CacheRefuses, Fail
    <3>2. CASE j = Cio
      <4>1. ~ InStage
        BY <3>1, <3>2 DEF CioInv
      <4>2. call'[Cio] \in Running \cup {"valid", "dead", "raised"}
        BY <1>0, <3>1, <3>2
      <4> QED BY <3>1, <4>1, <4>2
    <3>3. CASE j # Cio
      <4>1. call'[Cio] = call[Cio]
        BY <1>0, <3>1, <3>3
      <4> QED BY <3>1, <4>1 DEF CioInv
    <3> QED BY <3>2, <3>3
  <2> QED BY <2>1, <2>2
<1>2. ASSUME NEW j \in Tasks, Loop(j) PROVE Kept
  BY <1>0, <1>2 DEF Loop, Take, CacheUnreadable, Fail, Skip, Sink, HandleAbort, To, CioInv
<1>3. ASSUME NEW jobs, Cio \notin jobs, call' = Fan(jobs), phase' # "cio" PROVE Kept
  BY <1>0, <1>3 DEF Fan
<1>4. ASSUME NEW names, Propose(names) PROVE Kept
  BY <1>0, <1>4 DEF Propose, Fan, Running, Asking
<1>5. CASE EndVotes \/ EndReviews
  <2>1. CASE Aborted
    BY <1>5, <2>1 DEF EndVotes, EndReviews
  <2>2. CASE ~ Aborted
    <3>1. \/ \E names : Propose(names)
          \/ /\ phase' = "reviews"
             /\ \E top \in SUBSET Names : call' = Fan(((Voters \cup {Red}) \X top) \ held)
      <4>1. CASE EndReviews
        BY <2>2, <4>1 DEF EndReviews
      <4>2. CASE EndVotes
        <5>1. PICK names, top :
                 /\ top \subseteq names /\ names \subseteq {v[2] : v \in held \cap Votes}
                 /\ \/ Propose(names)
                    \/ /\ phase' = "reviews"
                       /\ call' = Fan(((Voters \cup {Red}) \X top) \ held)
          BY <2>2, <4>2 DEF EndVotes, PoolVotes, Candidates
        <5>2. top \in SUBSET Names
          BY <5>1 DEF Votes
        <5> QED BY <5>1, <5>2
      <4> QED BY <1>5, <4>1, <4>2
    <3>2. \A top \in SUBSET Names : (Voters \cup {Red}) \X top \subseteq Tasks
      BY DEF Tasks, Votes, Reviews
    <3> QED BY <1>0, <1>3, <1>4, <3>1, <3>2
  <2> QED BY <2>1, <2>2
<1>6. CASE Start
  <2>1. Cio \notin Votes \ stored
    BY <1>0 DEF Tasks
  <2> QED BY <1>3, <1>6, <2>1 DEF Start, Opening
<1>7. CASE EndCio \/ FlushPartial \/ FlushCommit \/ RecordFailure \/ Crash \/ FlushFails
  <2>1. phase' \in {"partial", "commit", "idle", "record"}
    BY <1>7 DEF EndCio, FlushPartial, FlushCommit, RecordFailure, Crash, FlushFails, End
  <2> QED BY <2>1
<1>8. CASE Reset \/ UNCHANGED vars
  BY <1>8 DEF Reset, vars, CioInv
<1> QED BY <1>1, <1>2, <1>5, <1>6, <1>7, <1>8 DEF Next, Work, Conclude

\* A stage in which no thread is at work and no answer waits has a place for its queue.
LEMMA IdleStagesHavePlaces ==
  ASSUME CioInv, InStage, \A j \in Jobs : ~ At(j, Busy)
  PROVE  Place
<1>1. InGate = {}
  BY DEF InGate
<1>2. Cardinality(InGate) = 0
  BY <1>1, FS_EmptySet
<1> QED BY <1>2, FanOutAssumption DEF Place

(* An attempt is never stuck, for any number of agents and places: in a    *)
(* stage a thread is at work, an answer waits, the queue has a place or    *)
(* the stop event is set, or the stage is over (runner.py:126,166); the    *)
(* CIO's call comes back with an end; what is flushed is complete.         *)
THEOREM NoAttemptIsStuck == Spec => [](phase # "idle" => CanGoOn)
<1>1. Init => CioInv /\ AccountInv
  BY InitTypes DEF Init, CioInv, AccountInv, InStage
<1>2. CioInv /\ AccountInv => (phase # "idle" => CanGoOn)
  <2> SUFFICES ASSUME CioInv, AccountInv, phase # "idle" PROVE CanGoOn
    OBVIOUS
  <2>1. phase \in Phases /\ Tasks \subseteq Jobs /\ Jobs = Tasks \cup {Cio}
    BY DEF CioInv, TypeOK, Jobs
  <2>2. CASE InStage
    <3>1. call[Cio] = "out"
      BY <2>2 DEF CioInv
    <3>2. CASE \E j \in Jobs : At(j, Busy)
      <4>1. PICK j \in Tasks : At(j, Busy)
        BY <2>1, <3>1, <3>2 DEF At, Busy, Running, Asking, Sent
      <4>2. At(j, Running) \/ At(j, {"valid", "raised"})
        BY <4>1 DEF At, Busy
      <4> QED BY <2>1, <2>2, <4>2 DEF CanGoOn
    <3>3. CASE \A j \in Jobs : ~ At(j, Busy)
      <4>1. Place
        BY <2>2, <3>3, IdleStagesHavePlaces
      <4>2. StageOver \/ \E j \in Tasks : At(j, {"queued"})
        BY <2>1, <3>3 DEF StageOver, At
      <4> QED BY <2>2, <4>1, <4>2 DEF CanGoOn
    <3> QED BY <3>2, <3>3
  <2>3. CASE phase = "cio"
    <3>1. At(Cio, Running) \/ At(Cio, {"valid", "dead", "raised"})
      BY <2>3 DEF CioInv, At
    <3> QED BY <2>1, <2>3, <3>1 DEF CanGoOn
  <2>4. CASE phase \in {"partial", "commit", "record", "failing"}
    BY <2>4 DEF AccountInv, CanGoOn
  <2> QED BY <2>1, <2>2, <2>3, <2>4 DEF Phases, InStage
<1> QED BY <1>1, <1>2, CioStep, AccountStep, PTL DEF Spec
=============================================================================
