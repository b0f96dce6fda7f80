---------------------------- MODULE StopProgress ----------------------------
(***************************************************************************)
(* How far along its stops a ride is.  The bus drives a road out and back  *)
(* (or one way); its receiver reports fixes that may be uncertain or never *)
(* arrive; the trip engine reduces one fix after another, with the fix     *)
(* before it as the segment's start, to the next stop expected, the open   *)
(* GNSS gap, the terminal's arrival evidence and the stop the bus is at.   *)
(* The checkpoint in active_rides goes first, the live node second; either *)
(* write may fail, and a restart forgets the fix before.                   *)
(*                                                                         *)
(* A position is a place of the road numbered along the ride; PlaceOf folds *)
(* the way back onto the way out.  Two places are further apart than every *)
(* corridor and radius of the reducer (15, 8, 30 and 50 m), stops stand on *)
(* the road and not across it, and a tick is the time a bus at 90 km/h     *)
(* needs for Pace places.                                                  *)
(***************************************************************************)
EXTENDS Integers, Sequences, FiniteSets

CONSTANTS Stops,       \* the position of each stop, <<origin, ..., terminal>>
          Turn,        \* the place where the road turns back
          Pace,        \* places in a tick at MAX_REVISIT_SPEED_MPS
          GapAfter,    \* GNSS_GAP_MS
          MaxSegment,  \* MAX_TELEMETRY_SEGMENT_M
          Recovery,    \* MAX_UNOBSERVED_RECOVERY_STOPS
          StaleAfter,  \* 60 s: an older fix tells nothing of the present
          MaxTime,     \* bound: ticks
          MaxQueued,   \* bound: snapshots that wait while fixes arrive
          MaxQuiet,    \* bound: ticks a standing bus is not heard reliably
          MaxSlips     \* bound: failed writes and restarts

ASSUME RouteAssumption ==
  /\ Stops \in Seq(Int) /\ Len(Stops) > 1 /\ Stops[1] = 0
  /\ \A i, j \in DOMAIN Stops : i < j => Stops[i] < Stops[j]
  /\ Recovery \in Nat /\ Turn \in Nat \ {0}
  /\ (Turn >= Stops[Len(Stops)] \/ \E i \in DOMAIN Stops : Stops[i] = Turn)

VARIABLES at,          \* where the bus is along the ride
          clock,
          sample,      \* the newest fix of the live node
          shownStage,  \* the lifecycle fields of the live node
          savedStage,  \* active_rides and stopsReached of the session
          lastFix,     \* processedTelemetry of this engine
          events,      \* snapshots of the node that wait for the engine
          hushed,      \* ticks the bus stands with no reliable fix heard
          slips

stopVars == <<at, clock, sample, shownStage, savedStage, lastFix, events, hushed, slips>>

NoFix == [time |-> -1, place |-> 0, motion |-> "none"]
NoGap == -1
NoArrival == [from |-> -1, last |-> -1]
Untold == [phase |-> "pre_departure", index |-> 0, departed |-> FALSE, arrival |-> NoArrival,
           gap |-> NoGap, unobserved |-> {}, atStop |-> -1]
\* A replayed item reads the node when its turn comes.
Replayed == [fix |-> NoFix, live |-> Untold]

Terminus == Len(Stops) - 1
Indices == 0 .. Terminus
PlaceOf(p) == IF p <= Turn THEN p ELSE 2 * Turn - p
Spot(i) == PlaceOf(Stops[i + 1])
Path(i, j) == Stops[j + 1] - Stops[i + 1]
Abs(n) == IF n < 0 THEN -n ELSE n
Larger(m, n) == IF m > n THEN m ELSE n
Smaller(m, n) == IF m < n THEN m ELSE n
Between(x, a, b) == (a <= x /\ x <= b) \/ (b <= x /\ x <= a)
Away(x, a, b) == IF Between(x, a, b) THEN 0 ELSE Smaller(Abs(x - a), Abs(x - b))

Reliable(f) == f # NoFix /\ f.motion # "uncertain"

(***************************************************************************)
(* The evidence of one fix f with the fix p before it.                     *)
(***************************************************************************)
Joined(f, p) == p # NoFix /\ f.time - p.time <= GapAfter
FromReliable(f, p) == Joined(f, p) /\ Reliable(p)

ReachedStop(i, f, p) ==
  \/ f.place = Spot(i)
  \/ /\ FromReliable(f, p)
     /\ Abs(f.place - p.place) <= MaxSegment
     /\ Between(Spot(i), p.place, f.place)

\* The travel from one fix to the next runs along a leg at this stop.
RunsWay(i, f, p) ==
  /\ f.place # p.place
  /\ \E leg \in {<<i - 1, i>>, <<i, i + 1>>} :
        /\ leg[1] \in Indices /\ leg[2] \in Indices
        /\ (f.place - p.place) * (Spot(leg[2]) - Spot(leg[1])) > 0

DrivenThrough(i, f, p) ==
  /\ FromReliable(f, p)
  /\ f.motion = "moving" /\ p.motion = "moving"
  /\ RunsWay(i, f, p)

\* What the fixes around a shared place tell of the two passes through it.
Side(earlier, later, x, arriving) ==
  LET To(i) == IF arriving THEN Away(x, Spot(i - 1), Spot(i))
                           ELSE Away(x, Spot(i), Spot(i + 1))
  IN  IF ~arriving /\ later = Terminus THEN "earlier"
      ELSE IF To(earlier) < To(later) THEN "earlier"
      ELSE IF To(later) < To(earlier) THEN "later" ELSE "unknown"

SharedPass(earlier, later, f, p) ==
  LET seen == FromReliable(f, p)
      fits(i) == seen /\ RunsWay(i, f, p)
      far(g) == Abs(g.place - Spot(earlier))
      came == IF seen /\ far(p) > 0 THEN Side(earlier, later, p.place, TRUE) ELSE "unknown"
      goes == IF far(f) > 0 THEN Side(earlier, later, f.place, FALSE) ELSE "unknown"
      first  == IF seen /\ far(p) >= far(f) THEN came ELSE goes
      second == IF seen /\ far(p) >= far(f) THEN goes ELSE came
  IN  IF fits(earlier) # fits(later) THEN (IF fits(earlier) THEN "earlier" ELSE "later")
      ELSE IF first # "unknown" THEN first ELSE second

\* The sample time before the gap this fix opens.
DetectedGap(f, p) ==
  IF \/ ~Reliable(f)
     \/ p # NoFix /\ (\/ ~Reliable(p)
                     \/ Abs(p.place - f.place) > MaxSegment
                     \/ f.time - p.time > GapAfter)
  THEN IF p # NoFix THEN p.time ELSE f.time
  ELSE NoGap

(***************************************************************************)
(* Which stop an open gap of this length, or a missed corridor, lets the   *)
(* bus be at when `next` is the stop expected.                             *)
(***************************************************************************)
AtPassed(i, next) == \E k \in 0 .. next - 1 : Spot(k) = Spot(i)
DrivenIn(elapsed, i, j) == elapsed >= GapAfter /\ elapsed * Pace >= Path(i, j)

\* The copy of a shared stop the bus is at; Unknown while nothing tells.
Unknown == -1
Resolved(i, f, p, elapsed, limit) ==
  LET copies == {c \in i + 2 .. limit : Spot(c) = Spot(i)}
      copy == CHOOSE c \in copies : \A d \in copies : c <= d
      pass == SharedPass(i, copy, f, p)
  IN  IF copies = {} \/ ~DrivenIn(elapsed, i, copy) \/ pass = "earlier" THEN i
      ELSE IF pass = "later" \/ copy = Terminus THEN copy
      ELSE Unknown

\* Faulty: a dwell leaves the gap where it began.
NeverStillThere(next, f, elapsed, limit) == FALSE
\* A dwell at a passed stop the route revisits moves the gap's start.
StillThere(next, f, elapsed, limit) ==
  \E i \in next + 1 .. limit :
     /\ f.place = Spot(i) /\ AtPassed(i, next)
     /\ DrivenIn(2 * elapsed, next - 1, i) /\ ~DrivenIn(elapsed, next - 1, i)

AfterGap(next, f, p, elapsed, limit) ==
  LET seen == {i \in next + 1 .. limit :
                 /\ Path(next, i) <= elapsed * Pace
                 /\ f.place = Spot(i) \/ (ReachedStop(i, f, p) /\ DrivenThrough(i, f, p))
                 /\ AtPassed(i, next) => DrivenIn(elapsed, next - 1, i)}
  IN  IF ReachedStop(next, f, p) THEN Resolved(next, f, p, elapsed, limit)
      ELSE IF seen = {} THEN next
      ELSE Resolved(CHOOSE i \in seen : \A j \in seen : i <= j, f, p, elapsed, limit)

PastMissed(next, f, p, limit) ==
  LET ahead == {i \in next + 1 .. Smaller(next + Recovery, limit) :
                  ReachedStop(i, f, p) /\ DrivenThrough(i, f, p)}
      first == CHOOSE i \in ahead : \A j \in ahead : i <= j
  IN  IF ReachedStop(next, f, p) \/ ahead = {} \/ AtPassed(first, next) THEN next ELSE first

(***************************************************************************)
(* Ordered consumption: stops reached, in the order the segment crosses    *)
(* them, each at least as near as the one before.                          *)
(***************************************************************************)
Crossing(i, f, p) == IF Joined(f, p) THEN (Spot(i) - p.place) * (f.place - p.place) ELSE 0
Consumable(i, f, p) ==
  ReachedStop(i, f, p) /\ Abs(f.place - Spot(i)) <= Abs(f.place - Spot(i - 1))
Run(from, to, f, p) ==
  \A i \in from .. to : /\ Consumable(i, f, p)
                        /\ i > from => Crossing(i, f, p) >= Crossing(i - 1, f, p)
Consumed(from, f, p) ==
  CHOOSE n \in from .. Terminus :
     /\ Run(from, n - 1, f, p)
     /\ n = Terminus \/ ~Run(from, n, f, p)

(***************************************************************************)
(* reduceTripState.                                                        *)
(***************************************************************************)
Reduction(l, gap, skipped, missed) ==
  [live |-> [l EXCEPT !.gap = gap], skipped |-> skipped, missed |-> missed]

\* The bus came from stop base to target, the stop expected of it now.
Advance(f, p, l, gap, leaving, base, target, anchored) ==
  LET limit == IF leaving THEN Terminus - 1 ELSE Terminus
      next == IF target = 0 THEN 0 ELSE Consumed(target, f, p)
      observed == target > 0 /\ target <= limit /\ Consumable(target, f, p)
      credited == base .. target - 1
      skipped == IF gap # NoGap THEN credited ELSE {}
      open == IF observed THEN NoGap ELSE IF skipped = {} THEN anchored ELSE gap
      there == /\ ~leaving /\ next = Terminus /\ Run(target, Terminus, f, p)
      standing == there /\ l.departed /\ f.motion = "stopped" /\ f.place = Spot(Terminus)
      prior == l.arrival # NoArrival /\ f.time - l.arrival.last <= StaleAfter
      evidence == [from |-> IF prior THEN l.arrival.from ELSE f.time, last |-> f.time]
      moved == [l EXCEPT !.phase = IF standing /\ prior /\ f.time > l.arrival.last
                                   THEN "completed" ELSE "in_service",
                         !.index = next, !.departed = l.departed \/ leaving,
                         !.arrival = IF standing THEN evidence ELSE NoArrival]
  IN  IF target = Unknown
      THEN Reduction([l EXCEPT !.phase = "in_service", !.index = base, !.arrival = NoArrival,
                            !.departed = l.departed \/ leaving], anchored, {}, {})
      ELSE Reduction(moved, open, skipped, credited \ skipped)

\* A ride under way: l already holds hasDepartedOrigin of this fix.
Progress(f, p, l, gap, leaving) ==
  LET base == IF leaving THEN Larger(1, l.index) ELSE l.index
      limit == IF leaving THEN Terminus - 1 ELSE Terminus
      elapsed == IF gap = NoGap THEN 0 ELSE f.time - gap
  IN  Advance(f, p, l, gap, leaving, base,
              IF base = 0 THEN 0
              ELSE IF gap # NoGap THEN AfterGap(base, f, p, elapsed, limit)
              ELSE PastMissed(base, f, p, limit),
              IF gap # NoGap /\ base > 0 /\ StillThere(base, f, elapsed, limit) THEN f.time ELSE gap)

Reduce(f, p, l) ==
  LET prior == IF l.gap = NoGap /\ p = NoFix /\ l.phase = "in_service" THEN f.time ELSE l.gap
      stale == clock - f.time > StaleAfter
      gap == IF prior # NoGap \/ stale THEN prior ELSE DetectedGap(f, p)
      away == f.place # Spot(0)
      inService == [l EXCEPT !.departed = @ \/ (l.phase = "in_service" /\ away)]
  IN  IF stale \/ ~Reliable(f)
        \/ (l.phase = "pre_departure" /\ ~(away /\ f.motion = "moving"))
      THEN Reduction([l EXCEPT !.arrival = NoArrival], gap, {}, {})
      ELSE Progress(f, p, inService, gap,
                    l.phase = "pre_departure" \/ (l.index = 0 /\ inService.departed))

\* visitedStopIndex: the stop the bus is at now, -1 for none.
Visited(f, l) ==
  LET observedAt(i) == i \notin l.unobserved /\ f.place = Spot(i)
  IN  IF l.phase = "completed" THEN Terminus
      ELSE IF ~Reliable(f) \/ clock - f.time > StaleAfter THEN -1
      ELSE IF l.index = 0 THEN (IF ~l.departed /\ f.place = Spot(0) THEN 0 ELSE -1)
      ELSE IF l.index = Terminus /\ l.departed /\ observedAt(Terminus) THEN Terminus
      ELSE IF observedAt(l.index - 1) THEN l.index - 1 ELSE -1

(***************************************************************************)
(* persistActiveRideLifecycle: nothing durable goes back, and every stop      *)
(* passed gets its evidence once.                                          *)
(***************************************************************************)
History(before, l, shown, skipped, missed) ==
  LET reached == IF l.phase = "completed" THEN Terminus ELSE Larger(0, l.index - 1)
  IN  [i \in Indices |->
         IF before[i] # "none" \/ l.phase = "pre_departure" \/ i > reached THEN before[i]
         ELSE IF i \in skipped THEN "skipped_gnss_gap"
         ELSE IF i \in missed THEN "passed_unobserved"
         ELSE IF i < shown THEN "recovered_checkpoint" ELSE "gnss_progress"]

Checkpointed(f, l, shown, skipped, missed) ==
  LET c == [l EXCEPT !.phase = IF @ = "pre_departure" THEN savedStage.phase ELSE @,
                     !.index = Larger(@, savedStage.index),
                     !.departed = @ \/ savedStage.departed,
                     !.arrival = IF savedStage.arrival.last > f.time THEN savedStage.arrival ELSE @]
  IN  [savedStage EXCEPT !.phase = c.phase, !.index = c.index, !.departed = c.departed,
                      !.arrival = c.arrival,
                      !.history = History(@, c, shown, skipped, missed)]

StopInit ==
  /\ at = 0 /\ clock = 0
  /\ sample = [time |-> 0, place |-> 0, motion |-> "stopped"]
  /\ shownStage = Untold
  /\ savedStage = [phase |-> "pre_departure", index |-> 0, departed |-> FALSE,
                arrival |-> NoArrival, history |-> [i \in Indices |-> "none"]]
  /\ lastFix = NoFix
  /\ events = <<[fix |-> sample, live |-> shownStage]>>
  /\ hushed = 0 /\ slips = 0

\* A tick of the road and the heartbeat at its end, when one arrives: the
\* ingestion writes the sample and the engine's listener queues the node.
Heartbeat(step, motion) ==
  /\ clock < MaxTime /\ shownStage.phase # "completed"
  /\ at + step <= Stops[Terminus + 1]
  /\ clock' = clock + 1 /\ at' = at + step
  /\ hushed' = IF step > 0 \/ motion \in {"moving", "stopped"} THEN 0 ELSE hushed + 1
  /\ hushed' <= MaxQuiet
  /\ IF motion = "lost" THEN UNCHANGED <<sample, events>>
     ELSE /\ Len(events) < MaxQueued
          /\ sample' = [time |-> clock', place |-> PlaceOf(at'), motion |-> motion]
          /\ events' = Append(events, [fix |-> sample', live |-> shownStage])
  /\ UNCHANGED <<shownStage, savedStage, lastFix, slips>>

\* The event's checkpoint, then its live record, as far as the writes succeed:
\* r is the reduction of its fix. A ride that is over has no checkpoint left.
Write(outcome, event, r) ==
  LET f == event.fix
      over == savedStage.phase = "completed"
      saved == IF over THEN savedStage
               ELSE Checkpointed(f, r.live, event.live.index, r.skipped, r.missed)
      told == IF over THEN r.live ELSE saved
      l == [r.live EXCEPT !.phase = told.phase, !.index = told.index,
                          !.departed = told.departed, !.arrival = told.arrival,
                          !.unobserved = {i \in @ \cup r.skipped \cup r.missed : i < told.index}]
      seen == [l EXCEPT !.atStop = Visited(f, l)]
      idle == event.live.phase = "completed"
  IN  /\ savedStage' = IF idle \/ outcome = "not_saved" THEN savedStage ELSE saved
      /\ shownStage' = IF idle \/ outcome # "done" \/ shownStage.phase = "completed"
                          \/ seen = event.live
                       THEN shownStage ELSE seen
      /\ lastFix' = IF ~idle /\ outcome = "done" /\ f.time > lastFix.time THEN f ELSE lastFix

\* processLiveSnapshot for the event at the head of its queue; a failed
\* write leaves the fix to a replay.
HandleEvent(outcome) ==
  /\ events # <<>> /\ (outcome # "done" => slips < MaxSlips)
  /\ LET event == IF Head(events) = Replayed THEN [fix |-> sample, live |-> shownStage] ELSE Head(events)
     IN  Write(outcome, event,
               IF event.fix.time > lastFix.time THEN Reduce(event.fix, lastFix, event.live)
               ELSE [live |-> event.live, skipped |-> {}, missed |-> {}])
  /\ events' = IF outcome = "done" THEN Tail(events) ELSE Append(Tail(events), Replayed)
  /\ slips' = IF outcome = "done" THEN slips ELSE slips + 1
  /\ UNCHANGED <<at, clock, sample, hushed>>

\* A new leader's engine knows no fix and reads the node it finds.
RestartEngine ==
  /\ slips < MaxSlips /\ shownStage.phase # "completed"
  /\ slips' = slips + 1
  /\ lastFix' = NoFix /\ events' = <<Replayed>>
  /\ UNCHANGED <<at, clock, sample, hushed, shownStage, savedStage>>

StopNext ==
  \/ \E step \in 0 .. Pace, motion \in {"lost", "uncertain", "moving", "stopped"} :
        Heartbeat(step, motion)
  \/ \E outcome \in {"done", "not_saved", "not_shown"} : HandleEvent(outcome)
  \/ RestartEngine

StopSpec == StopInit /\ [][StopNext]_stopVars

-----------------------------------------------------------------------------
\* A stop is credited, to passengers or durably, once the bus came to it.
CreditIsEarned ==
  \A i \in Indices : i < Larger(shownStage.index, savedStage.index) => at >= Stops[i + 1]

\* A ride completes at its terminal.
EndsAtTerminal == "completed" \in {shownStage.phase, savedStage.phase} => at = Stops[Terminus + 1]

\* A stop credited without being observed is not shown as the one the bus is at.
UnobservedIsNotShown ==
  shownStage.atStop # -1 =>
    savedStage.history[shownStage.atStop] \notin {"skipped_gnss_gap", "passed_unobserved"}

\* No stop is credited before the bus came to it, in particular no return pass
\* through a place while the bus still stands there on its way out, whatever was
\* lost, uncertain, failed or forgotten; no ride completes away from its terminal;
\* and a stop credited without being observed is never shown as the stop the bus
\* is at (tripStateReducer.ts:380-397, 616).
ProgressIsTrue == CreditIsEarned /\ EndsAtTerminal /\ UnobservedIsNotShown
=============================================================================
