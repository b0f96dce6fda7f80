--------------------------- MODULE PositionFilter ---------------------------
(* Which position of a bus is believed: the tracker's capture reference        *)
(* (hardware/include/telemetry_policy.h, src/main.cpp) and, behind it, the     *)
(* live record's anchor (backend deviceTelemetryService.ts, telemetryMotion.ts)*)
(* each reject jumps, and each takes a new place after three coherent fixes.   *)
(* A place is a number; the time since a fix is short (up to 60 s), an outage  *)
(* (up to 5 min) or long. The order of samples is TelemetryDelivery's.         *)
EXTENDS Integers

CONSTANTS
    MaxPlace,   \* places 0 .. MaxPlace
    MaxOutliers \* wrong fixes (bound)

ASSUME PlaceAssumption == MaxPlace \in Nat /\ MaxOutliers \in Nat

VARIABLES
    bus,        \* where it is, the ends of where it has been, wrong fixes so far
    capture,    \* the device: reference and its age, chain of rejected fixes
    record,     \* the live record: position shown, anchor and its age, evidence
    raw,        \* the fix received last, usable as evidence
    longest     \* some reference or anchor was replaced for its age

filterVars == <<bus, capture, record, raw, longest>>

Places == 0 .. MaxPlace
Nowhere == -1
Unusable == [at |-> Nowhere, usable |-> FALSE]
Distance(a, b) == IF a >= b THEN a - b ELSE b - a

\* How far a bus gets, receiver error included, at its reported speed; at the
\* 200 km/h cap twice as far.
Reach(age) == CASE age = "short" -> 1 [] age = "outage" -> 2 [] age = "long" -> MaxPlace
TopReach(age) == 2 * Reach(age)
Older(age) == IF age = "short" THEN "outage" ELSE "long"

FilterInit ==
    \E p \in Places :
        /\ bus = [at |-> p, low |-> p, high |-> p, outliers |-> 0]
        /\ capture = [at |-> p, age |-> "short", chain |-> 0, last |-> Nowhere]
        /\ record = [shown |-> p, anchor |-> p, age |-> "short", evidence |-> 0]
        /\ raw = Unusable
        /\ longest = FALSE

-----------------------------------------------------------------------------
(* The live record: nextTelemetryValue().                                      *)

\* isPlausibleTelemetryTransition(): travel is allowed for 60 s at most, until
\* the anchor is so old that any place will do.
Plausible(p) == record.age = "long" \/ Distance(record.anchor, p) <= Reach("short")

\* evaluateOutageReacquisition(): the count of coherent fixes, this one included;
\* coherent with the one received before it, which must have been evidence.
Coherent(p) == raw.usable /\ record.evidence > 0 /\ Distance(raw.at, p) <= Reach("short")

Evidence(p) == IF Coherent(p) THEN record.evidence + 1 ELSE 1

Reacquired(p, quality) ==
    /\ quality = "good" /\ record.age = "outage"
    /\ Distance(record.anchor, p) <= Reach("outage")

\* Faulty: a fix that was held renews the age of the anchor.
HeldRenews == [record EXCEPT !.shown = record.anchor, !.evidence = 0, !.age = "short"]
Held == [record EXCEPT !.shown = record.anchor, !.evidence = 0]

\* The fix is shown, or the anchor is, as uncertain. A packet that reports the
\* loss of the receiver is shown and does not become the anchor.
Receive(p, quality) ==
    /\ \/ /\ Plausible(p)
          /\ record' = IF quality = "loss" THEN [record EXCEPT !.shown = p, !.evidence = 0]
                       ELSE [shown |-> p, anchor |-> p, age |-> "short", evidence |-> 0]
          /\ longest' = (longest \/ record.age = "long")
       \/ /\ ~Plausible(p)
          /\ record' = IF ~Reacquired(p, quality) THEN Held
                       ELSE IF Evidence(p) >= 3
                       THEN [shown |-> p, anchor |-> p, age |-> "short", evidence |-> 0]
                       ELSE [record EXCEPT !.shown = record.anchor, !.evidence = Evidence(p)]
          /\ UNCHANGED longest
    /\ raw' = IF quality = "good" THEN [at |-> p, usable |-> TRUE] ELSE Unusable

\* The sample reaches the live record, or not.
Send(p, quality) == Receive(p, quality) \/ UNCHANGED <<record, raw, longest>>

-----------------------------------------------------------------------------
(* The tracker: evaluateTelemetry(), shouldCapture(), rememberCapturedFix().   *)

\* What the receiver reports: the bus, or another place. Outliers are bounded.
Fix(p, quality) ==
    /\ quality \in {"good", "poor"}
    /\ bus' = IF p = bus.at THEN bus ELSE [bus EXCEPT !.outliers = @ + 1]
    /\ bus'.outliers <= MaxOutliers

\* locationTransitionIsPlausible().
Follows(p) == capture.at = Nowhere \/ Distance(capture.at, p) <= Reach(capture.age)

\* ReacquisitionCandidate.observeRejected(): the chain with this rejected fix.
Chain(p, quality) ==
    IF quality = "poor" \/ Distance(capture.at, p) > TopReach(capture.age) THEN 0
    ELSE IF capture.chain > 0 /\ Distance(capture.last, p) <= Reach("short")
         THEN capture.chain + 1 ELSE 1

\* An accepted fix, or the third of a chain, is captured, and sent.
CaptureFix(p, quality) ==
    /\ Fix(p, quality)
    /\ Follows(p) \/ Chain(p, quality) >= 3
    /\ capture' = [at |-> p, age |-> "short", chain |-> 0, last |-> Nowhere]
    /\ Send(p, quality)

RejectFix(p, quality) ==
    /\ Fix(p, quality)
    /\ ~Follows(p) /\ Chain(p, quality) < 3
    /\ capture' = IF Chain(p, quality) = 0 THEN [capture EXCEPT !.chain = 0, !.last = Nowhere]
                  ELSE [capture EXCEPT !.chain = Chain(p, quality), !.last = p]
    /\ UNCHANGED <<record, raw, longest>>

\* No valid fix: the last captured place is sent once, as uncertain.
LoseFix ==
    /\ capture.at # Nowhere
    /\ Send(capture.at, "loss")
    /\ UNCHANGED <<bus, capture>>

\* setup(): the reference is lost with the memory.
RestartTracker ==
    /\ capture' = [at |-> Nowhere, age |-> "short", chain |-> 0, last |-> Nowhere]
    /\ UNCHANGED <<bus, record, raw, longest>>

-----------------------------------------------------------------------------
(* Time.                                                                       *)

AgeCapture ==
    /\ capture.age # "long" /\ capture.at # Nowhere
    /\ capture' = [capture EXCEPT !.age = Older(@)]
    /\ UNCHANGED <<bus, record, raw, longest>>
AgeAnchor ==
    /\ record.age # "long"
    /\ record' = [record EXCEPT !.age = Older(@)]
    /\ UNCHANGED <<bus, capture, raw, longest>>

\* More than 5 s since the last rejected fix, or since the last one received.
ChainBreaks ==
    /\ capture' \in {capture, [capture EXCEPT !.chain = 0, !.last = Nowhere]}
    /\ raw' = Unusable
    /\ UNCHANGED <<bus, record, longest>>

Drive ==
    /\ \E p \in Places :
           /\ Distance(bus.at, p) = 1
           /\ bus' = [bus EXCEPT !.at = p, !.low = IF p < @ THEN p ELSE @, !.high = IF p > @ THEN p ELSE @]
    /\ UNCHANGED <<capture, record, raw, longest>>

TrueFix == CaptureFix(bus.at, "good") \/ RejectFix(bus.at, "good")
Disturbance ==
    \/ \E p \in Places, quality \in {"good", "poor"} :
          (p # bus.at \/ quality = "poor") /\ (CaptureFix(p, quality) \/ RejectFix(p, quality))
    \/ LoseFix \/ RestartTracker \/ ChainBreaks \/ Drive
FilterNext == TrueFix \/ Disturbance \/ AgeCapture \/ AgeAnchor

-----------------------------------------------------------------------------
\* A single wrong fix, before or after a restart of the tracker, never shows the
\* bus where it has not been, within the reach of one short transition, unless
\* five minutes went by without an accepted fix ("never one outlier",
\* telemetryMotion.ts:110).
OutlierIsHeld ==
    bus.outliers <= 1 /\ ~longest => \E p \in bus.low .. bus.high : Distance(p, record.shown) <= Reach("short")

\* The reference and the anchor never shut out the truth: however they were
\* lost, led astray or overtaken, once the bus stands and its receiver is right
\* the passengers see it where it is.
FollowsBus == <>[][~Disturbance]_filterVars => <>[](record.shown = bus.at)

\* Both: the filters refuse the wrong fix and never the right ones for good
\* (telemetryMotion.ts:110).
TruthIsShown == []OutlierIsHeld /\ FollowsBus
=============================================================================
