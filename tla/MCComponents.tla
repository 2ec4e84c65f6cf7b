---------------------------- MODULE MCComponents ----------------------------
(***************************************************************************)
(* The components around the lifecycle of a run, one per behaviour: they   *)
(* share no state, so `part` picks the one that moves and the others rest  *)
(* in an initial state.                                                    *)
(***************************************************************************)
EXTENDS GitAnchor, Confirmation, ReferenceCapture, FeedIngest, TradeTape,
        MarketCalendar, DecisionWeek, PointInTime, SequentialTest, RateLimits

CONSTANT Parts
VARIABLE part

\* Values a configuration file cannot write.
OneDocument == {{d} : d \in Docs}
LosingAndWinning == {-(One \div 2), One}
CodeSets == {{"yes"}, {"first_only"}, {"note3"}, {"tbd"}}
TwoOverlappingRanges == {<<1, 2>>, <<2, 3>>}

Rests(p, state) == part # p => state

Init ==
    /\ part \in Parts
    /\ GitInit
    \* A bound: the header source is missing only where no run is LIVE.
    /\ ConfInit /\ (headers \/ live = {}) /\ Rests("confirm", headers /\ live = {})
    /\ CaptureInit /\ Rests("capture", kind = "live" /\ required = {} /\ calendar = Uncovered /\ ~mapped)
    /\ FeedInit /\ Rests("feed", listed = {})
    /\ TapeInit /\ Rests("tape", trigger = 1)
    /\ CalendarInit /\ Rests("calendar", exchange[1] = Holiday)
    /\ WeekInit
    /\ PitInit /\ Rests("pit", docs = {"bar"})
    /\ SeqInit
    /\ LimitInit /\ Rests("limits", limiter = "window")

GitPart == /\ part = "git" /\ GitNext
           /\ UNCHANGED <<part, confVars, captureVars, feedVars, tapeVars, calendarVars,
                          weekVars, pitVars, seqVars, limitVars>>
ConfirmPart == /\ part = "confirm" /\ ConfNext
               /\ UNCHANGED <<part, gitVars, captureVars, feedVars, tapeVars, calendarVars,
                              weekVars, pitVars, seqVars, limitVars>>
CapturePart == /\ part = "capture" /\ CaptureNext
               /\ UNCHANGED <<part, gitVars, confVars, feedVars, tapeVars, calendarVars,
                              weekVars, pitVars, seqVars, limitVars>>
FeedPart == /\ part = "feed" /\ FeedNext
            /\ UNCHANGED <<part, gitVars, confVars, captureVars, tapeVars, calendarVars,
                           weekVars, pitVars, seqVars, limitVars>>
TapePart == /\ part = "tape" /\ TapeNext
            /\ UNCHANGED <<part, gitVars, confVars, captureVars, feedVars, calendarVars,
                           weekVars, pitVars, seqVars, limitVars>>
CalendarPart == /\ part = "calendar" /\ CalendarNext
                /\ UNCHANGED <<part, gitVars, confVars, captureVars, feedVars, tapeVars,
                               weekVars, pitVars, seqVars, limitVars>>
WeekPart == /\ part = "week" /\ WeekNext
            /\ UNCHANGED <<part, gitVars, confVars, captureVars, feedVars, tapeVars,
                           calendarVars, pitVars, seqVars, limitVars>>
PitPart == /\ part = "pit" /\ PitNext
           /\ UNCHANGED <<part, gitVars, confVars, captureVars, feedVars, tapeVars,
                          calendarVars, weekVars, seqVars, limitVars>>
TestPart == /\ part = "test" /\ SeqNext
            /\ UNCHANGED <<part, gitVars, confVars, captureVars, feedVars, tapeVars,
                           calendarVars, weekVars, pitVars, limitVars>>
LimitsPart == /\ part = "limits" /\ LimitNext
              /\ UNCHANGED <<part, gitVars, confVars, captureVars, feedVars, tapeVars,
                             calendarVars, weekVars, pitVars, seqVars>>

Next == \/ GitPart \/ ConfirmPart \/ CapturePart \/ FeedPart \/ TapePart
        \/ CalendarPart \/ WeekPart \/ PitPart \/ TestPart \/ LimitsPart

vars == <<part, gitVars, confVars, captureVars, feedVars, tapeVars, calendarVars, weekVars,
          pitVars, seqVars, limitVars>>

\* ConfFairness and CaptureFairness, for the part that moves.
Fairness ==
    /\ WF_confVars(part = "confirm" /\ ComeBack)
    /\ \A u \in Upgraders : WF_confVars(part = "confirm" /\ UpgradeStep(u))
    /\ WF_captureVars(part = "capture" /\ Advance)
    /\ WF_captureVars(part = "capture" /\ kind # "backtest" /\ \E w \in Capturers : CaptureStep(w))

Spec == Init /\ [][Next]_vars
FairSpec == Spec /\ Fairness
=============================================================================
