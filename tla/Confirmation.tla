---------------------------- MODULE Confirmation ----------------------------
(***************************************************************************)
(* After a run is ANCHORED: the hourly upgrader fetches what its calendars *)
(* have completed, verifies it against block headers and stores the proof, *)
(* and the evaluator asks, again and again, whether the run may be scored. *)
(*                                                                         *)
(* A proof is the calendars it still waits for and the Bitcoin heights it  *)
(* attests.  A block's height doubles as its time; height 0 stands for an  *)
(* attestation that does not verify against its header.                    *)
(***************************************************************************)
EXTENDS Naturals, Sequences, FiniteSets, SequencesExt

CONSTANTS
    Runs,
    Calendars,          \* the configured OpenTimestamps calendars
    MinCalendars,       \* how many must accept a digest
    Upgraders,          \* passes of upgrade_all
    HeaderSources,      \* may a block header source be configured, or not: some of BOOLEAN
    OverlappingPasses,  \* may a pass start while another one runs
    MaxTime,            \* bound on the clock
    Resolves,           \* when the first outcome of a LIVE run resolves
    OtsFaults           \* bound on outages

ASSUME ConfirmationAssumption ==
    /\ IsFiniteSet(Runs)
    /\ MinCalendars \in 1..Cardinality(Calendars)
    /\ HeaderSources \subseteq BOOLEAN
    /\ MaxTime \in Nat /\ Resolves \in Nat /\ OtsFaults \in Nat

VARIABLES
    hour,       \* the clock
    status,     \* status of each run, from COMMITTED on
    halted,     \* runs with a kill-switch event
    proof,      \* stored proof of an anchored run
    verified,   \* runs whose anchor row has verified_at
    mined,      \* what a calendar has for a run: Pending, or a height
    live,       \* runs whose mode is LIVE; the others are BACKTEST or ABLATION
    headers,    \* is a header source configured
    outage,     \* services that do not answer
    otsFaults,
    pass,       \* what each upgrader is doing
    evidence,   \* the rows an admission in progress has read
    verdict,    \* outcome of the last admission of a run that had a ticket
    ticket      \* lowest height a ticket of the run was issued for

confVars == <<hour, status, halted, proof, verified, mined, live, headers, outage, otsFaults,
              pass, evidence, verdict, ticket>>
store == <<status, halted, proof, verified>>
world == <<hour, mined, live, headers, outage, otsFaults>>
scoring == <<evidence, verdict, ticket>>

Pending == MaxTime + 1
NoTicket == MaxTime + 1
Services == Calendars \cup {"headers", "git"}
NoProof == [waits |-> {}, heights |-> {}]
NoPass == [todo |-> <<>>, result |-> <<>>]
NotRead == [read |-> FALSE]
Tickets == {"complete", "halted"}

ConfInit ==
    /\ hour = 1
    /\ status = [r \in Runs |-> "COMMITTED"] /\ halted = {}
    /\ proof = [r \in Runs |-> NoProof] /\ verified = {}
    /\ mined = [r \in Runs |-> [c \in Calendars |-> Pending]]
    /\ headers \in HeaderSources /\ live \in SUBSET Runs
    /\ outage = {} /\ otsFaults = 0
    /\ pass = [u \in Upgraders |-> NoPass]
    /\ evidence = [r \in Runs |-> NotRead]
    /\ verdict = [r \in Runs |-> "none"] /\ ticket = [r \in Runs |-> NoTicket]

-----------------------------------------------------------------------------
(* The world: time, outages, and calendars that get into a block.          *)

Tick ==
    /\ hour < MaxTime
    /\ hour' = hour + 1
    /\ UNCHANGED <<store, mined, live, headers, outage, otsFaults, pass, scoring>>

Mine(r, c) ==
    /\ status[r] # "COMMITTED" /\ mined[r][c] = Pending
    /\ \E height \in {0, hour} : mined' = [mined EXCEPT ![r][c] = height]
    /\ UNCHANGED <<store, hour, live, headers, outage, otsFaults, pass, scoring>>

GoDown ==
    /\ outage = {} /\ otsFaults < OtsFaults
    /\ \E s \in Services : outage' = {s}
    /\ otsFaults' = otsFaults + 1
    /\ UNCHANGED <<store, hour, mined, live, headers, pass, scoring>>

ComeBack ==
    /\ outage # {} /\ outage' = {}
    /\ UNCHANGED <<store, hour, mined, live, headers, otsFaults, pass, scoring>>

-----------------------------------------------------------------------------
(* The run's own transitions, as far as scoring sees them.                 *)

\* stamp() needs MinCalendars acceptances; the row and the status are one transaction.
Anchor(r) ==
    /\ status[r] = "COMMITTED"
    /\ \E accepted \in SUBSET (Calendars \ outage) :
          /\ Cardinality(accepted) >= MinCalendars
          /\ proof' = [proof EXCEPT ![r] = [waits |-> accepted, heights |-> {}]]
    /\ status' = [status EXCEPT ![r] = "ANCHORED"]
    /\ UNCHANGED <<halted, verified, world, pass, scoring>>

Execute(r) ==
    /\ r \in live /\ status[r] = "ANCHORED"
    /\ status' = [status EXCEPT ![r] = "EXECUTED"]
    /\ UNCHANGED <<halted, proof, verified, world, pass, scoring>>

Halt(r) ==
    /\ status[r] \in {"ANCHORED", "EXECUTED"}
    /\ status' = [status EXCEPT ![r] = "PARTIAL"]
    /\ halted' = halted \cup {r}
    /\ UNCHANGED <<proof, verified, world, pass, scoring>>

-----------------------------------------------------------------------------
(* AnchorUpgrader.upgrade_all over the rows it loaded at its start.        *)

Awaiting == {r \in Runs : status[r] # "COMMITTED" /\ r \notin verified}
Todo(u) == pass[u].todo
Loaded(u) == Head(Todo(u)).proof

\* anchors_awaiting_confirmation, oldest first (any order of a set of rows).
StartPass(u) ==
    /\ pass[u] = NoPass /\ Awaiting # {}
    /\ OverlappingPasses \/ \A v \in Upgraders : pass[v] = NoPass
    /\ \E order \in SetToSeqs(Awaiting) :
          pass' = [pass EXCEPT ![u].todo =
                     [i \in DOMAIN order |-> [run |-> order[i], proof |-> proof[order[i]]]]]
    /\ UNCHANGED <<store, world, scoring>>

\* An unavailable calendar or header source ends the whole pass.
Blocked(u, heights) ==
    \/ Loaded(u).waits \cap outage # {}
    \/ heights # {} /\ headers /\ "headers" \in outage

\* A mutant: what the first completed calendar says replaces the other waits.
MergeLosesWait(old, run) ==
    LET ready == {c \in old.waits : mined[run][c] # Pending}
    IN  [waits |-> IF ready # {} THEN {} ELSE old.waits,
         heights |-> IF ready = old.waits THEN {mined[run][c] : c \in ready} ELSE old.heights]

\* What upgrade() makes of the loaded proof: a completed timestamp replaces the wait
\* for its calendar; a reply without a Bitcoin attestation only counts as a change.
Merge(old, run) ==
    LET ready == {c \in old.waits : mined[run][c] # Pending}
    IN  [waits |-> old.waits \ ready,
         heights |-> old.heights \cup {mined[run][c] : c \in ready}]

Confirms(heights) == headers /\ heights \ {0} # {}

UpgradeOne(u) ==
    /\ Todo(u) # <<>> /\ pass[u].result = <<>>
    /\ LET run == Head(Todo(u)).run
           new == Merge(Loaded(u), run)
           rest == Tail(Todo(u))
       IN  IF Blocked(u, new.heights) THEN pass' = [pass EXCEPT ![u] = NoPass]
           ELSE \E partial \in BOOLEAN :
                  LET changed == new # Loaded(u) \/ (partial /\ Loaded(u).waits # {})
                      refused == headers /\ new.heights # {} /\ ~Confirms(new.heights)
                  IN  pass' = [pass EXCEPT ![u] =
                        [todo |-> rest,
                         result |-> IF ~refused /\ (changed \/ Confirms(new.heights))
                                    THEN <<[run |-> run, proof |-> new,
                                            verified |-> Confirms(new.heights)]>>
                                    ELSE <<>>]]
    /\ UNCHANGED <<store, world, scoring>>

\* upsert_anchor: the proof replaces the stored one, verified_at is coalesced.
StoreProof(u) ==
    /\ pass[u].result # <<>>
    /\ LET row == Head(pass[u].result)
       IN  /\ proof' = [proof EXCEPT ![row.run] = row.proof]
           /\ verified' = IF row.verified THEN verified \cup {row.run} ELSE verified
    /\ pass' = [pass EXCEPT ![u].result = <<>>]
    /\ UNCHANGED <<status, halted, world, scoring>>

PassDies(u) ==
    /\ pass[u] # NoPass /\ otsFaults < OtsFaults
    /\ pass' = [pass EXCEPT ![u] = NoPass] /\ otsFaults' = otsFaults + 1
    /\ UNCHANGED <<store, hour, mined, live, headers, outage, scoring>>

-----------------------------------------------------------------------------
(* admit_run: one snapshot of the rows, then the public evidence.          *)

Classify(r) ==
    IF status[r] = (IF r \in live THEN "EXECUTED" ELSE "ANCHORED") THEN "complete"
    ELSE IF status[r] # "PARTIAL" THEN "not_scorable_status"
    ELSE IF r \in halted THEN "halted" ELSE "halt_evidence_missing"

\* The class of the run is a function of the rows read; its proof matters to a ticket only.
ReadEvidence(r) ==
    /\ evidence[r] = NotRead
    /\ evidence' = [evidence EXCEPT ![r] =
          [read |-> TRUE, kind |-> Classify(r),
           proof |-> IF Classify(r) \in Tickets THEN proof[r] ELSE NoProof]]
    /\ UNCHANGED <<store, world, pass, verdict, ticket>>

Lowest(heights) == CHOOSE h \in heights : \A k \in heights : h <= k

\* A mutant: the newest block counts.
ConfirmNewest(heights) == CHOOSE h \in heights \ {0} : \A k \in heights : k <= h

BestHeight(heights) == Lowest(heights \ {0})

\* The first refusal that applies, in the order of the code, or the kind of ticket.
Admission(r, row) ==
    LET heights == row.proof.heights
        best == BestHeight(heights)
    IN  IF row.kind \notin Tickets THEN row.kind
        ELSE IF row.proof = NoProof THEN "anchor_missing"
        ELSE IF heights = {} THEN "ots_not_confirmed"
        ELSE IF "headers" \in outage THEN "evidence_unavailable"
        ELSE IF heights = {0} THEN "header_verification_failed"
        ELSE IF "git" \in outage THEN "evidence_unavailable"
        ELSE IF r \in live /\ best >= Resolves THEN "anchor_timing"
        ELSE row.kind

AdmitRun(r) ==
    /\ evidence[r].read
    /\ LET outcome == Admission(r, evidence[r])
       IN  /\ ticket' = IF outcome \in Tickets
                        THEN [ticket EXCEPT ![r] =
                                Lowest({@, BestHeight(evidence[r].proof.heights)})]
                        ELSE ticket
           /\ verdict' = IF ticket'[r] = NoTicket THEN verdict
                         ELSE [verdict EXCEPT ![r] = outcome]
    /\ evidence' = [evidence EXCEPT ![r] = NotRead]
    /\ UNCHANGED <<store, world, pass>>

UpgradeStep(u) == StartPass(u) \/ UpgradeOne(u) \/ StoreProof(u)

ConfNext ==
    \/ Tick \/ GoDown \/ ComeBack
    \/ \E r \in Runs : \/ \E c \in Calendars : Mine(r, c)
                       \/ Anchor(r) \/ Execute(r) \/ Halt(r)
                       \/ ReadEvidence(r) \/ AdmitRun(r)
    \/ \E u \in Upgraders : UpgradeStep(u) \/ PassDies(u)

\* Outages end, and beat starts a pass every hour.
ConfFairness ==
    /\ WF_confVars(ComeBack)
    /\ \A u \in Upgraders : WF_confVars(UpgradeStep(u))

ConfSpec == ConfInit /\ [][ConfNext]_confVars
FairConfSpec == ConfSpec /\ ConfFairness

-----------------------------------------------------------------------------
(* evaluation/scorable.py: an admission reads its evidence anew every time. *)
(* Once a run was admitted, later evidence (an upgraded proof, a halt, more *)
(* time) never turns it into a run that may not be scored: a later request  *)
(* is refused only when evidence cannot be fetched, and its block is never  *)
(* a later one.                                                             *)
AdmissionIsStable ==
    \A r \in Runs : ticket[r] # NoTicket =>
        /\ verdict[r] \in Tickets \cup {"evidence_unavailable"}
        /\ proof[r].heights \ {0} # {} /\ BestHeight(proof[r].heights) <= ticket[r]

(* orchestration/anchor_stage.py upgrade_all: with a header source, every   *)
(* anchored run is confirmed in the end if one of its calendars reached the *)
(* chain, whatever outages and deaths ended passes on the way.              *)
AnchoredIsConfirmed ==
    \A r \in Runs :
        (headers /\ status[r] # "COMMITTED" /\ (\E c \in proof[r].waits : mined[r][c] \in 1..MaxTime))
            ~> (r \in verified)
=============================================================================
