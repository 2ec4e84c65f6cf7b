----------------------- MODULE ReferenceCaptureProofs -----------------------
(* What TLAPS proves of ReferenceCapture, for every value of its constants: *)
(* any grace, delay and deadline, any number of workers, faults and symbols. *)
EXTENDS ReferenceCapture, FiniteSetTheorems, TLAPS

-----------------------------------------------------------------------------
(* The invariant.                                                          *)

Reasons == {"no_reference_price", "calendar_uncovered", "no_trade", "provider_mapping_unvalidated"}
Rows == [state : {"none", "resolved"} \cup Reasons, ref : Nat]
CaptureJobs == [at : {"capture"}, instant : Nat, ref : Nat, missing : SUBSET Symbols]
SetJobs == [at : {"set"}, instant : Nat, symbols : SUBSET Symbols]
MarkJobs == [at : {"mark"}, instant : Nat, ref : Nat, missing : SUBSET Symbols]

CaptureTypes ==
    /\ instant \in Nat /\ began \in Nat /\ calendar \in Nat
    /\ kind \in {"live", "backtest", "halt"}
    /\ required \subseteq Symbols /\ symbolSet \subseteq Symbols
    /\ marks \in [Symbols -> Rows]
    /\ job \in [Capturers -> {NoJob} \cup CaptureJobs \cup SetJobs \cup MarkJobs]

\* A worker's clock is not ahead, and it works for the request it belongs to.
Honest(j, now, set) ==
    /\ j # NoJob => began # Later /\ j.instant <= now
    /\ j.at = "capture" => kind # "halt"
    /\ j.at = "set" => kind = "halt" /\ set # {} /\ j.symbols = set
    /\ j.at = "mark" => kind = "halt" /\ j.missing \subseteq set

\* Absence that is stored can no longer turn into a price.
Final(row) ==
    /\ row.state = "no_reference_price" => instant > row.ref + Grace
    /\ row.state = "calendar_uncovered" => instant >= began + CoverageWait
    /\ kind = "halt" /\ row.state \in {"no_trade", "provider_mapping_unvalidated"}
           => instant >= Close + SipDelay

CaptureInv ==
    /\ CaptureTypes
    /\ \A w \in Capturers : Honest(job[w], instant, symbolSet)
    /\ began = Later => symbolSet = {} /\ \A s \in Symbols : marks[s] = NoRow
    /\ \A s \in Symbols : Final(marks[s])
    /\ kind = "halt" => \A s \in Symbols : marks[s] # NoRow => s \in symbolSet

LEMMA CaptureInitially == CaptureInit => CaptureInv
  BY CaptureAssumption
  DEF CaptureInit, CaptureInv, CaptureTypes, Honest, Final, Later, Uncovered, NoRow, NoJob, Rows

-----------------------------------------------------------------------------
(* Batches.                                                                *)

\* Every row a batch adds is final, and only symbols that were missing get one.
SoundBatch(batch, missing) ==
    /\ DOMAIN batch \subseteq missing
    /\ \A s \in DOMAIN batch : batch[s] \in Rows /\ Final(batch[s])

LEMMA ReferencesAreSound ==
  ASSUME CaptureInv, NEW j \in CaptureJobs, Honest(j, instant, symbolSet), NEW batch \in ReferenceBatches(j)
  PROVE  SoundBatch(batch, j.missing)
<1> USE CaptureAssumption DEF CaptureInv, CaptureTypes, CaptureJobs
<1>0. j.instant <= instant /\ kind # "halt" /\ j.instant \in Nat /\ j.ref \in Nat
  BY DEF Honest, NoJob
<1>1. ASSUME NEW row \in Rows, Final(row), NEW found \in SUBSET j.missing, batch = [s \in found |-> row]
      PROVE  SoundBatch(batch, j.missing)
  BY <1>1 DEF SoundBatch
<1>2. Price(j.ref) \in Rows /\ Final(Price(j.ref)) /\ NoRow \in Rows /\ Final(NoRow)
  BY <1>0 DEF Price, NoRow, Rows, Final
<1>3. CASE j.ref = Uncovered /\ ~(j.instant < began + CoverageWait)
  <2>1. Unresolved("calendar_uncovered", 0) \in Rows /\ Final(Unresolved("calendar_uncovered", 0))
    BY <1>0, <1>3 DEF Unresolved, Rows, Reasons, Final
  <2> QED BY <1>1, <1>3, <2>1 DEF ReferenceBatches
<1>4. CASE (j.ref = Uncovered /\ j.instant < began + CoverageWait) \/ (j.ref # Uncovered /\ j.instant < j.ref)
  BY <1>1, <1>2, <1>4 DEF ReferenceBatches
<1>5. CASE j.ref # Uncovered /\ ~(j.instant < j.ref) /\ kind = "backtest"
  <2>1. Unresolved("no_trade", j.ref) \in Rows /\ Final(Unresolved("no_trade", j.ref))
    BY <1>0 DEF Unresolved, Rows, Reasons, Final
  <2>2. batch \in [j.missing -> {Price(j.ref), Unresolved("no_trade", j.ref)}]
    BY <1>5 DEF ReferenceBatches
  <2> QED BY <1>2, <2>1, <2>2 DEF SoundBatch
<1>6. CASE j.ref # Uncovered /\ ~(j.instant < j.ref) /\ kind # "backtest" /\ j.instant > j.ref + Grace
  <2>1. Unresolved("no_reference_price", j.ref) \in Rows /\ Final(Unresolved("no_reference_price", j.ref))
    BY <1>0, <1>6 DEF Unresolved, Rows, Reasons, Final
  <2> QED BY <1>1, <1>6, <2>1 DEF ReferenceBatches
<1>7. CASE j.ref # Uncovered /\ ~(j.instant < j.ref) /\ kind # "backtest" /\ ~(j.instant > j.ref + Grace)
  BY <1>1, <1>2, <1>7 DEF ReferenceBatches
<1> QED BY <1>3, <1>4, <1>5, <1>6, <1>7

LEMMA HaltMarksAreSound ==
  ASSUME CaptureInv, NEW j \in MarkJobs, Honest(j, instant, symbolSet), NEW batch \in HaltBatches(j)
  PROVE  SoundBatch(batch, j.missing)
<1> USE CaptureAssumption DEF CaptureInv, CaptureTypes, MarkJobs
<1>0. j.instant <= instant /\ j.instant \in Nat /\ j.ref \in Nat
  BY DEF Honest, NoJob
<1>1. ASSUME NEW row \in Rows, Final(row), NEW found \in SUBSET j.missing, batch = [s \in found |-> row]
      PROVE  SoundBatch(batch, j.missing)
  BY <1>1 DEF SoundBatch
<1>2. Price(1) \in Rows /\ Final(Price(1)) /\ NoRow \in Rows /\ Final(NoRow)
  BY DEF Price, NoRow, Rows, Final
<1>3. ASSUME NEW reason \in {"no_trade", "provider_mapping_unvalidated"}, j.instant >= Close + SipDelay
      PROVE  Unresolved(reason, 0) \in Rows /\ Final(Unresolved(reason, 0))
  BY <1>0, <1>3 DEF Unresolved, Rows, Reasons, Final
<1>4. ASSUME ~(j.instant < began + CoverageWait)
      PROVE  Unresolved("calendar_uncovered", 0) \in Rows /\ Final(Unresolved("calendar_uncovered", 0))
  BY <1>0, <1>4 DEF Unresolved, Rows, Reasons, Final
<1>5. CASE j.instant - began <= HaltGrace
  BY <1>1, <1>2, <1>5 DEF HaltBatches
<1>6. CASE ~(j.instant - began <= HaltGrace) /\ j.ref = Uncovered
  BY <1>1, <1>2, <1>4, <1>6 DEF HaltBatches
<1>7. CASE ~(j.instant - began <= HaltGrace) /\ j.ref # Uncovered /\ ~mapped
  BY <1>1, <1>2, <1>3, <1>7 DEF HaltBatches
<1>8. CASE ~(j.instant - began <= HaltGrace) /\ j.ref # Uncovered /\ mapped
  <2>1. CASE j.instant >= Close + SipDelay /\ ~(j.instant < began + SipDelay)
    <3>1. batch \in [j.missing -> {Price(1), Unresolved("no_trade", 0)}]
      BY <1>8, <2>1 DEF HaltBatches
    <3> QED BY <1>2, <1>3, <2>1, <3>1 DEF SoundBatch
  <2>2. CASE ~(j.instant >= Close + SipDelay) \/ j.instant < began + SipDelay
    BY <1>1, <1>2, <1>8, <2>2 DEF HaltBatches
  <2> QED BY <2>1, <2>2
<1> QED BY <1>5, <1>6, <1>7, <1>8

\* A stored row is never replaced, a new one comes from the batch.
LEMMA InsertKeeps ==
  ASSUME CaptureInv, NEW missing \in SUBSET Symbols, NEW batch, SoundBatch(batch, missing)
  PROVE  /\ Insert(marks, batch) \in [Symbols -> Rows]
         /\ \A s \in Symbols : Final(Insert(marks, batch)[s])
         /\ \A s \in Symbols : Insert(marks, batch)[s] # NoRow => marks[s] # NoRow \/ s \in missing
  BY DEF CaptureInv, CaptureTypes, SoundBatch, Insert

-----------------------------------------------------------------------------
(* Steps.                                                                  *)

\* The clock moves on, the marks stay.
LEMMA LaterStillFinal ==
  ASSUME CaptureInv, instant' \in Nat, instant <= instant', UNCHANGED <<began, kind>>,
         NEW row \in Rows, Final(row)
  PROVE  Final(row)'
  BY CaptureAssumption DEF CaptureInv, CaptureTypes, Final, Rows

LEMMA SurroundingsStep ==
  ASSUME CaptureInv, Advance \/ Begin \/ PublishRange \/ Enlist
  PROVE  CaptureInv'
<1>1. CASE Advance
  <2>1. /\ instant' = instant + 1 /\ instant \in Nat
        /\ UNCHANGED <<facts, symbolSet, marks, job>>
    BY <1>1 DEF Advance, CaptureInv, CaptureTypes
  <2>2. \A s \in Symbols : Final(marks[s])'
    BY <2>1, LaterStillFinal DEF facts, CaptureInv, CaptureTypes
  <2>3. ASSUME NEW w \in Capturers PROVE Honest(job[w], instant, symbolSet)'
    BY <2>1 DEF facts, CaptureInv, CaptureTypes, Honest, CaptureJobs, SetJobs, MarkJobs, Later
  <2> QED BY <2>1, <2>2, <2>3 DEF facts, CaptureInv, CaptureTypes, Later
<1>2. CASE Begin
  <2>1. /\ began = Later /\ began' = instant
        /\ UNCHANGED <<instant, kind, required, calendar, mapped, symbolSet, marks, job>>
    BY <1>2 DEF Begin, StoreCommitment, RequestHalt, BeginNow
  <2>2. \A w \in Capturers : job[w] = NoJob
    BY <2>1 DEF CaptureInv, Honest
  <2>3. \A s \in Symbols : marks[s] = NoRow
    BY <2>1 DEF CaptureInv
  <2> QED BY <2>1, <2>2, <2>3 DEF CaptureInv, CaptureTypes, Honest, Final, NoJob, NoRow, Later
<1>3. CASE PublishRange \/ Enlist
  BY <1>3, CaptureAssumption
  DEF PublishRange, Enlist, CaptureInv, CaptureTypes, Honest, Final, Later
<1> QED BY <1>1, <1>2, <1>3

\* A worker's job changes, no mark does; a set that was stored stays.
LEMMA JobChanges ==
  ASSUME CaptureInv, NEW w \in Capturers,
         NEW j \in {NoJob} \cup CaptureJobs \cup SetJobs \cup MarkJobs,
         job' = [job EXCEPT ![w] = j], UNCHANGED <<instant, facts, marks>>,
         symbolSet' = symbolSet \/ (symbolSet = {} /\ symbolSet' \subseteq Symbols /\ began # Later),
         Honest(j, instant, symbolSet')
  PROVE  CaptureInv'
<1>1. job' \in [Capturers -> {NoJob} \cup CaptureJobs \cup SetJobs \cup MarkJobs] /\ job'[w] = j
  BY DEF CaptureInv, CaptureTypes
<1>2. symbolSet' \subseteq Symbols /\ symbolSet \subseteq symbolSet' /\ UNCHANGED <<kind, began, required, calendar>>
  BY DEF CaptureInv, CaptureTypes, facts
<1>3. ASSUME NEW v \in Capturers PROVE Honest(job'[v], instant, symbolSet')
  <2>1. CASE v = w
    BY <1>1, <2>1
  <2>2. CASE v # w
    <3>1. job'[v] = job[v] /\ Honest(job[v], instant, symbolSet)
      BY <2>2 DEF CaptureInv, CaptureTypes
    <3> QED BY <1>2, <3>1 DEF Honest
  <2> QED BY <2>1, <2>2
<1>4. \A v \in Capturers : Honest(job[v], instant, symbolSet)'
  BY <1>2, <1>3 DEF Honest, Later
<1>5. \A s \in Symbols : Final(marks[s])'
  BY <1>2 DEF CaptureInv, Final
<1>6. CaptureTypes'
  BY <1>1, <1>2 DEF CaptureInv, CaptureTypes
<1>7. (began = Later => symbolSet = {} /\ \A s \in Symbols : marks[s] = NoRow)'
  BY <1>2 DEF CaptureInv, Later
<1>8. (kind = "halt" => \A s \in Symbols : marks[s] # NoRow => s \in symbolSet)'
  BY <1>2 DEF CaptureInv
<1> QED BY <1>4, <1>5, <1>6, <1>7, <1>8 DEF CaptureInv

LEMMA ReadStep ==
  ASSUME CaptureInv, NEW w \in Capturers,
         ReadReferences(w) \/ Sweep(w) \/ ReadHaltReferences(w) \/ JobFails(w)
  PROVE  CaptureInv'
<1>1. CASE ReadReferences(w)
  <2> DEFINE j == [at |-> "capture", instant |-> instant, ref |-> calendar, missing |-> Missing(required)]
  <2>1. /\ kind # "halt" /\ began # Later /\ job' = [job EXCEPT ![w] = j]
        /\ UNCHANGED <<instant, facts, symbolSet, marks>>
    BY <1>1 DEF ReadReferences
  <2>2. j \in CaptureJobs
    BY DEF CaptureInv, CaptureTypes, CaptureJobs, Missing
  <2>3. Honest(j, instant, symbolSet')
    BY <2>1 DEF Honest, CaptureInv, CaptureTypes
  <2> HIDE DEF j
  <2> QED BY <2>1, <2>2, <2>3, JobChanges
<1>2. CASE Sweep(w)
  <2> DEFINE j == [at |-> "set", instant |-> instant, symbols |-> StoredSet]
  <2>1. /\ kind = "halt" /\ began # Later /\ StoredSet # {} /\ job' = [job EXCEPT ![w] = j]
        /\ symbolSet' = StoredSet /\ UNCHANGED <<instant, facts, marks>>
    BY <1>2 DEF Sweep, HaltPending
  <2>2. StoredSet \subseteq Symbols /\ (symbolSet # {} => StoredSet = symbolSet)
    BY DEF StoredSet, CaptureInv, CaptureTypes
  <2>3. j \in SetJobs
    BY <2>2 DEF SetJobs, CaptureInv, CaptureTypes
  <2>4. Honest(j, instant, symbolSet')
    BY <2>1 DEF Honest, CaptureInv, CaptureTypes
  <2> HIDE DEF j
  <2> QED BY <2>1, <2>2, <2>3, <2>4, JobChanges
<1>3. CASE ReadHaltReferences(w)
  <2> DEFINE j == [at |-> "mark", instant |-> job[w].instant, ref |-> calendar, missing |-> Missing(job[w].symbols)]
  <2>1. /\ job[w].at = "set" /\ job' = [job EXCEPT ![w] = j]
        /\ UNCHANGED <<instant, facts, symbolSet, marks>>
    BY <1>3 DEF ReadHaltReferences
  <2>2. job[w] \in SetJobs /\ Honest(job[w], instant, symbolSet) /\ job[w] # NoJob
    BY <2>1 DEF CaptureInv, CaptureTypes, NoJob, CaptureJobs, MarkJobs
  <2>3. j \in MarkJobs
    BY <2>2 DEF SetJobs, MarkJobs, CaptureInv, CaptureTypes, Missing
  <2>4. Honest(j, instant, symbolSet')
    BY <2>1, <2>2 DEF Honest, Missing
  <2> HIDE DEF j
  <2> QED BY <2>1, <2>3, <2>4, JobChanges
<1>4. CASE JobFails(w)
  <2>1. job' = [job EXCEPT ![w] = NoJob] /\ UNCHANGED <<instant, facts, symbolSet, marks>>
    BY <1>4 DEF JobFails
  <2>2. Honest(NoJob, instant, symbolSet')
    BY DEF Honest, NoJob
  <2> QED BY <2>1, <2>2, JobChanges
<1> QED BY <1>1, <1>2, <1>3, <1>4

LEMMA WriteStep ==
  ASSUME CaptureInv, NEW w \in Capturers, WriteReferences(w) \/ WriteHaltReferences(w)
  PROVE  CaptureInv'
<1> USE DEF facts
<1>1. /\ job' = [job EXCEPT ![w] = NoJob] /\ UNCHANGED <<instant, facts, symbolSet>>
      /\ Honest(job[w], instant, symbolSet) /\ job[w].at \in {"capture", "mark"}
  BY DEF WriteReferences, WriteHaltReferences, CaptureInv
<1>2. \E missing \in SUBSET Symbols : \E batch :
         /\ SoundBatch(batch, missing) /\ marks' = Insert(marks, batch)
         /\ kind = "halt" => missing \subseteq symbolSet
  <2>1. CASE WriteReferences(w)
    <3>1. job[w] \in CaptureJobs
      BY <2>1 DEF WriteReferences, CaptureInv, CaptureTypes, NoJob, SetJobs, MarkJobs
    <3>2. PICK batch \in ReferenceBatches(job[w]) : marks' = Insert(marks, batch)
      BY <2>1 DEF WriteReferences
    <3>3. SoundBatch(batch, job[w].missing)
      BY <1>1, <3>1, ReferencesAreSound
    <3>4. kind # "halt" /\ job[w].missing \in SUBSET Symbols
      BY <1>1, <2>1, <3>1 DEF WriteReferences, Honest, CaptureJobs
    <3> QED BY <3>2, <3>3, <3>4
  <2>2. CASE WriteHaltReferences(w)
    <3>1. job[w] \in MarkJobs
      BY <2>2 DEF WriteHaltReferences, CaptureInv, CaptureTypes, NoJob, SetJobs, CaptureJobs
    <3>2. PICK batch \in HaltBatches(job[w]) : marks' = Insert(marks, batch)
      BY <2>2 DEF WriteHaltReferences
    <3>3. SoundBatch(batch, job[w].missing)
      BY <1>1, <3>1, HaltMarksAreSound
    <3>4. job[w].missing \subseteq symbolSet /\ job[w].missing \in SUBSET Symbols
      BY <1>1, <2>2, <3>1 DEF WriteHaltReferences, Honest, MarkJobs
    <3> QED BY <3>2, <3>3, <3>4
  <2> QED BY <2>1, <2>2
<1>3. PICK missing \in SUBSET Symbols : \E batch :
         /\ SoundBatch(batch, missing) /\ marks' = Insert(marks, batch)
         /\ kind = "halt" => missing \subseteq symbolSet
  BY <1>2
<1>4. /\ marks' \in [Symbols -> Rows] /\ \A s \in Symbols : Final(marks'[s])
      /\ \A s \in Symbols : marks'[s] # NoRow => marks[s] # NoRow \/ s \in missing
  BY <1>3, InsertKeeps
<1>5. \A s \in Symbols : Final(marks[s])'
  BY <1>1, <1>4 DEF Final
<1>6. \A v \in Capturers : Honest(job[v], instant, symbolSet)'
  BY <1>1 DEF CaptureInv, CaptureTypes, Honest, NoJob, Later
<1>7. began' # Later'
  BY <1>1 DEF Honest, NoJob, Later
<1>8. job' \in [Capturers -> {NoJob} \cup CaptureJobs \cup SetJobs \cup MarkJobs]
  BY <1>1 DEF CaptureInv, CaptureTypes
<1> QED BY <1>1, <1>3, <1>4, <1>5, <1>6, <1>7, <1>8 DEF CaptureInv, CaptureTypes

LEMMA CaptureStays == CaptureInv /\ [CaptureNext]_captureVars => CaptureInv'
<1> SUFFICES ASSUME CaptureInv, [CaptureNext]_captureVars PROVE CaptureInv'
  OBVIOUS
<1>1. CASE UNCHANGED captureVars
  BY <1>1 DEF captureVars, CaptureInv, CaptureTypes, Honest, Final, Later
<1> QED BY <1>1, SurroundingsStep, ReadStep, WriteStep DEF CaptureNext, CaptureStep

-----------------------------------------------------------------------------
(* Results.                                                                *)

(* Absence is final evidence (orchestration/references.py:213): whichever  *)
(* of several polls writes it, with whatever old clock, the window of the  *)
(* rule is over when it is stored.                                         *)
THEOREM AbsenceIsFinal == CaptureSpec => []NothingIsGivenUpEarly
<1>1. CaptureInv => NothingIsGivenUpEarly
  BY DEF CaptureInv, Final, NothingIsGivenUpEarly
<1> QED BY <1>1, CaptureInitially, CaptureStays, PTL DEF CaptureSpec

(* A halt request leaves the sweeper's list only with a mark for every     *)
(* symbol of its set (store.as_of.pending_halt_requests counts rows).      *)
THEOREM SweptMeansMarked ==
  ASSUME IsFiniteSet(Symbols) PROVE CaptureSpec => []CompleteMeansMarked
<1>1. CaptureInv => CompleteMeansMarked
  <2> SUFFICES ASSUME CaptureInv, kind = "halt", symbolSet # {}, ~HaltPending
               PROVE  \A s \in symbolSet : marks[s] # NoRow
    BY DEF CompleteMeansMarked
  <2> DEFINE Marked == {s \in Symbols : marks[s] # NoRow}
  <2>1. Marked \subseteq symbolSet /\ symbolSet \subseteq Symbols /\ began # Later
    BY DEF CaptureInv, CaptureTypes
  <2>2. IsFiniteSet(symbolSet) /\ IsFiniteSet(Marked) /\ Cardinality(Marked) <= Cardinality(symbolSet)
    BY <2>1, FS_Subset
  <2>3. Cardinality(Marked) \in Nat /\ Cardinality(symbolSet) \in Nat
    BY <2>2, FS_CardinalityType
  <2>4. Cardinality(Marked) = Cardinality(symbolSet)
    BY <2>1, <2>2, <2>3 DEF HaltPending
  <2>5. Marked = symbolSet
    BY <2>1, <2>2, <2>4, FS_Subset
  <2> QED BY <2>5
<1> QED BY <1>1, CaptureInitially, CaptureStays, PTL DEF CaptureSpec
=============================================================================
