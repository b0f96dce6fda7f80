------------------------------- MODULE PassengerRide -------------------------------
(* A passenger's ride as the page follows it: boarding (routes/sessions.ts and      *)
(* PassengerBoardingView.tsx), the ride the page tracks, what the live feed and      *)
(* the status endpoint tell it about its end, and the question for feedback          *)
(* (PassengerWorkspace.tsx). One passenger, one bus, its rides one after the         *)
(* other. The passenger's page may be reloaded, lose answers and its feed.           *)
EXTENDS Integers, FiniteSets

CONSTANTS
    MaxFollowed,   \* bound: rides of the bus
    MaxMishaps     \* bound: reloads, lost answers, interruptions of the feed, clicks on Retry

ASSUME FollowAssumption == MaxFollowed \in Nat /\ MaxMishaps \in Nat

NoFollowed == 0
Followed == 1 .. MaxFollowed

VARIABLES
    service,    \* Firestore: status of each ride, the passenger's place in its manifest; is its
                \* history deleted
    shownBus,   \* the bus's live node: ride, trip, lastCompletedSessionId, online
    rider,       \* the workspace: what it heard, tracks, shows and will ask
    hint,       \* localStorage: joinedRidePointer
    restoring,  \* the request that restores a boarding
    inquiry,    \* the loop that asks for the status of a ride that is not shown
    boarding,   \* joinRide
    mishaps,
    told, owed  \* rides the page asked feedback for; rides whose end it has still to tell

passengerVars == <<service, shownBus, rider, hint, restoring, inquiry, boarding, mishaps, told, owed>>
server == <<service, shownBus>>

NoTrip == "none"
NotRunning == [ride |-> NoFollowed, trip |-> NoTrip, last |-> NoFollowed, online |-> TRUE]
\* overtaken: a boarding was heard since the request was sent.
NoCall == [at |-> "no", ride |-> NoFollowed, says |-> "none", overtaken |-> FALSE]
NoBoarding == [at |-> "no", ride |-> NoFollowed, near |-> FALSE, checked |-> FALSE]

\* reset: the next delivery of the feed replaces what was heard.
NewView ==
    [heard |-> NotRunning, reset |-> TRUE, tracked |-> NoFollowed, trips |-> [r \in Followed |-> NoTrip], shown |-> NoFollowed,
     pending |-> NoFollowed, done |-> NoFollowed, error |-> FALSE, boarded |-> NoFollowed]

PassengerInit ==
    /\ service = [r \in Followed |-> [status |-> "none", place |-> FALSE, gone |-> FALSE]]
    /\ shownBus = NotRunning
    /\ rider = NewView /\ hint = NoFollowed
    /\ restoring = NoCall /\ inquiry = NoCall /\ boarding = NoBoarding
    /\ mishaps = 0 /\ told = {} /\ owed = {}

Boards(r) == service[r].status \in {"armed", "active"}
IsOver(r) == service[r].status \in {"completed", "interrupted", "failed"}
Mishap == mishaps < MaxMishaps /\ mishaps' = mishaps + 1
PageRest == UNCHANGED <<rider, hint, restoring, inquiry, boarding, mishaps, told, owed>>

-----------------------------------------------------------------------------
\* The backend, as RideLifecycle specifies it: durable first, then the node.

Arm(r) ==
    /\ service[r].status = "none" /\ shownBus.ride = NoFollowed
    /\ \A p \in Followed : p < r => IsOver(p)
    /\ service' = [service EXCEPT ![r].status = "armed"]
    /\ shownBus' = [shownBus EXCEPT !.ride = r, !.trip = "pre_departure"]
    /\ PageRest
DepartRide(r) ==
    /\ service[r].status = "armed" /\ shownBus.ride = r
    /\ service' = [service EXCEPT ![r].status = "active"] /\ shownBus' = [shownBus EXCEPT !.trip = "in_service"]
    /\ PageRest
\* No ride is completed within ten seconds of what the page told of the one before.
EndService(r) ==
    /\ Boards(r)
    /\ \E s \in {"interrupted", "failed"} \union
             (IF service[r].status = "active" /\ rider.done = NoFollowed THEN {"completed"} ELSE {}) :
          service' = [service EXCEPT ![r].status = s]
    /\ UNCHANGED shownBus /\ PageRest
\* A completion names the ride on the node; later starts keep the name.
ShowEnd ==
    /\ shownBus.ride # NoFollowed /\ IsOver(shownBus.ride)
    /\ shownBus' = [shownBus EXCEPT !.ride = NoFollowed, !.trip = NoTrip,
                                !.last = IF service[shownBus.ride].status = "completed" THEN shownBus.ride ELSE @]
    /\ UNCHANGED service /\ PageRest
DeviceBlinks ==
    /\ Mishap /\ shownBus' = [shownBus EXCEPT !.online = ~@]
    /\ UNCHANGED <<service, rider, hint, restoring, inquiry, boarding, told, owed>>
\* An administrator deletes the history of a ride that is over, later than the
\* seconds that a boarding of it, sent while it ran, can take.
DeleteHistory(r) ==
    /\ IsOver(r) /\ ~service[r].gone /\ boarding.ride # r
    /\ service' = [service EXCEPT ![r].gone = TRUE]
    /\ UNCHANGED <<shownBus, rider, hint, restoring, inquiry, boarding, mishaps, told, owed>>

-----------------------------------------------------------------------------
\* The ride the page tracks.

\* passengerLiveBuses: a ride under way whose device is online.
ShownOf(n) == IF n.trip \in {"pre_departure", "in_service"} /\ n.online THEN n.ride ELSE NoFollowed
\* passengerTripStates.
TripsOf(n) == [r \in Followed |-> IF r = n.ride THEN n.trip ELSE IF r = n.last THEN "completed" ELSE NoTrip]

\* Faulty: a ride whose completion waits for its question is not kept.
KeepsTracked(v) == v.tracked
\* The ride whose state survives a delivery that does not name it.
Kept(v) == IF v.tracked # NoFollowed THEN v.tracked ELSE v.pending

Delivered(v, n) ==
    LET fresh == TripsOf(n)
        merged == [r \in Followed |-> IF fresh[r] # NoTrip THEN fresh[r]
                                      ELSE IF v.reset \/ r = v.heard.ride THEN NoTrip ELSE v.trips[r]]
        k == Kept(v) IN
    [v EXCEPT !.heard = n, !.reset = FALSE, !.shown = ShownOf(n),
              !.trips = IF k # NoFollowed /\ merged[k] = NoTrip THEN [merged EXCEPT ![k] = v.trips[k]] ELSE merged,
              !.boarded = IF n.ride # v.heard.ride THEN NoFollowed ELSE @]

\* A change of the tracked ride subscribes anew.
Tracks(v, r) == [v EXCEPT !.tracked = r, !.reset = @ \/ v.tracked # r]

\* Faulty: a ride that vanished is taken for the one that is shown.
Rebound(v) ==
    IF v.done # NoFollowed \/ v.tracked = NoFollowed \/ v.shown = v.tracked THEN v
    ELSE IF v.trips[v.tracked] = "completed"
         THEN [Tracks(v, NoFollowed) EXCEPT !.pending = v.tracked, !.done = v.tracked]
         ELSE IF v.shown # NoFollowed THEN Tracks(v, v.shown) ELSE v
\* decideRideTracking: what is tracked and shown goes on; what vanished after its
\* completion ends; what vanished otherwise is kept as it is.
Decided(v) ==
    IF v.done = NoFollowed /\ v.tracked # NoFollowed /\ v.shown # v.tracked /\ v.trips[v.tracked] = "completed"
    THEN [Tracks(v, NoFollowed) EXCEPT !.pending = v.tracked, !.done = v.tracked]
    ELSE v

\* The status loop runs for a tracked ride that is not shown, nor known to be
\* completed; it starts anew when that, or the subscription, changes.
Wanted(v) == v.tracked # NoFollowed /\ v.shown # v.tracked /\ v.trips[v.tracked] # "completed"
SameLoop(v, w) == v.tracked = w.tracked /\ (v.shown = v.tracked) = (w.shown = w.tracked)
Looped(w) == IF SameLoop(rider, w) THEN inquiry ELSE NoCall

\* The card of a ride unmounts, and its request is dropped, when another is heard.
Carded(w) == IF w.heard.ride = rider.heard.ride THEN boarding ELSE NoBoarding

Hear ==
    /\ rider.heard # shownBus \/ rider.reset
    /\ rider' = Decided(Delivered(rider, shownBus))
    /\ inquiry' = Looped(rider') /\ boarding' = Carded(rider')
    /\ UNCHANGED <<service, shownBus, hint, restoring, mishaps, told, owed>>

\* The connection restarts, or another route is browsed.
Resubscribe ==
    /\ Mishap /\ ~rider.reset
    /\ rider' = [rider EXCEPT !.reset = TRUE]
    /\ inquiry' = NoCall
    /\ UNCHANGED <<server, hint, restoring, boarding, told, owed>>

\* Ten seconds after a completion. The feed is not that far behind: what it said
\* of the ride before, over what the status endpoint said, is gone again.
AskFeedback ==
    /\ rider.done # NoFollowed
    /\ rider.trips[rider.done] # "completed" => rider.heard = shownBus /\ ~rider.reset /\ shownBus.ride # rider.done
    /\ LET r == rider.done IN
       /\ told' = IF rider.trips[r] = "completed" THEN told \union {r} ELSE told
       /\ rider' = Decided([rider EXCEPT !.trips[r] = NoTrip, !.pending = NoFollowed, !.done = NoFollowed])
       /\ owed' = IF rider.trips[r] = "completed" THEN owed \ {r} ELSE owed
    /\ inquiry' = Looped(rider')
    /\ UNCHANGED <<server, hint, restoring, boarding, mishaps>>

-----------------------------------------------------------------------------
\* GET /api/sessions/:sessionId/status, for those in the manifest.

StatusOf(r) == IF service[r].place /\ ~service[r].gone THEN service[r].status ELSE "refused"

AskStatus ==
    /\ Wanted(rider) /\ inquiry.at = "no"
    /\ inquiry' = [NoCall EXCEPT !.at = "asked", !.ride = rider.tracked]
    /\ UNCHANGED <<server, rider, hint, restoring, boarding, mishaps, told, owed>>
ReadStatus ==
    /\ inquiry.at = "asked" /\ inquiry' = [inquiry EXCEPT !.at = "answered", !.says = StatusOf(inquiry.ride)]
    /\ UNCHANGED <<server, rider, hint, restoring, boarding, mishaps, told, owed>>

\* A failure stops the loop, until Retry or a change starts it again.
LoopFails == inquiry' = [inquiry EXCEPT !.at = "failed"] /\ rider' = [rider EXCEPT !.error = TRUE]
HearStatus ==
    /\ inquiry.at = "answered"
    /\ LET r == inquiry.ride IN
       CASE inquiry.says = "completed" ->
              /\ rider' = Decided([rider EXCEPT !.trips[r] = "completed", !.error = FALSE])
              /\ inquiry' = NoCall /\ UNCHANGED <<told, owed>>
         [] inquiry.says \in {"interrupted", "failed"} ->
              /\ rider' = Tracks([rider EXCEPT !.error = FALSE], NoFollowed)
              /\ inquiry' = NoCall /\ owed' = owed \ {r} /\ UNCHANGED told
         [] inquiry.says = "refused" -> LoopFails /\ UNCHANGED <<told, owed>>
         [] OTHER -> rider' = [rider EXCEPT !.error = FALSE] /\ inquiry' = NoCall /\ UNCHANGED <<told, owed>>
    /\ UNCHANGED <<server, hint, restoring, boarding, mishaps>>
LoseStatus ==
    /\ Mishap /\ inquiry.at \in {"asked", "answered"} /\ LoopFails
    /\ UNCHANGED <<server, hint, restoring, boarding, told, owed>>

-----------------------------------------------------------------------------
\* A boarding restored from the pointer, at the start and by Retry.

BeginsRestore(v) == v.tracked = NoFollowed /\ hint # NoFollowed
AskRestore(v) == IF BeginsRestore(v) THEN [NoCall EXCEPT !.at = "asked", !.ride = hint] ELSE NoCall

Reload ==
    /\ Mishap
    /\ rider' = NewView /\ inquiry' = NoCall /\ boarding' = NoBoarding
    /\ restoring' = AskRestore(NewView)
    /\ owed' = {}
    /\ UNCHANGED <<server, hint, told>>
RetryRide ==
    /\ Mishap /\ rider.error
    /\ restoring' = AskRestore(rider) /\ inquiry' = NoCall
    /\ UNCHANGED <<server, rider, hint, boarding, told, owed>>
ReadRestore ==
    /\ restoring.at = "asked" /\ restoring' = [restoring EXCEPT !.at = "answered", !.says = StatusOf(restoring.ride)]
    /\ UNCHANGED <<server, rider, hint, inquiry, boarding, mishaps, told, owed>>

StillRestores == ~restoring.overtaken /\ hint = restoring.ride
HearRestore ==
    /\ restoring.at = "answered" /\ restoring' = NoCall
    /\ LET r == restoring.ride IN
       IF ~StillRestores THEN UNCHANGED <<rider, hint, inquiry, told, owed>>
       ELSE CASE restoring.says = "refused" ->
                   rider' = [rider EXCEPT !.error = TRUE] /\ hint' = NoFollowed /\ UNCHANGED <<inquiry, told, owed>>
              [] restoring.says \in {"completed", "interrupted", "failed"} ->
                   hint' = NoFollowed /\ UNCHANGED <<rider, inquiry, told, owed>>
              [] OTHER ->
                   /\ rider' = [Tracks(rider, r) EXCEPT !.error = FALSE, !.boarded = r]
                   /\ inquiry' = Looped(rider') /\ owed' = {r} /\ UNCHANGED <<hint, told>>
    /\ UNCHANGED <<server, boarding, mishaps>>
LoseRestore ==
    /\ Mishap /\ restoring.at # "no" /\ restoring' = NoCall
    /\ rider' = IF StillRestores THEN [rider EXCEPT !.error = TRUE] ELSE rider
    /\ UNCHANGED <<server, hint, inquiry, boarding, told, owed>>

-----------------------------------------------------------------------------
\* joinRide and POST /api/sessions/:sessionId/join. near: a position was sent,
\* and asked for again when the backend has no place for the passenger.

Board ==
    /\ ShownOf(rider.heard) # NoFollowed /\ boarding.at = "no"
    /\ boarding' = [NoBoarding EXCEPT !.at = "sent", !.ride = rider.heard.ride, !.near = rider.boarded # rider.heard.ride]
    /\ UNCHANGED <<server, rider, hint, restoring, inquiry, mishaps, told, owed>>

JoinFails == /\ boarding' = NoBoarding /\ rider' = [rider EXCEPT !.boarded = NoFollowed]
             /\ UNCHANGED <<hint, restoring, inquiry, mishaps, told, owed>>

\* checked: the first read found no place, and the position near the bus.
ReadJoin ==
    /\ boarding.at = "sent"
    /\ LET s == service[boarding.ride] IN
       \/ /\ Boards(boarding.ride) /\ (s.place \/ boarding.near)
          /\ boarding' = [boarding EXCEPT !.at = "read", !.checked = ~s.place]
          /\ UNCHANGED <<rider, hint, restoring, inquiry, mishaps, told, owed>>
       \/ (~Boards(boarding.ride) \/ ~s.place) /\ JoinFails
    /\ UNCHANGED server

\* The transaction checks the place again.
PlaceAgain == boarding.checked \/ service[boarding.ride].place
CommitJoin ==
    /\ boarding.at = "read"
    /\ IF Boards(boarding.ride) /\ PlaceAgain
       THEN /\ service' = [service EXCEPT ![boarding.ride].place = TRUE]
            /\ boarding' = [boarding EXCEPT !.at = "joined"]
            /\ UNCHANGED <<rider, hint, restoring, inquiry, mishaps, told, owed>>
       ELSE JoinFails /\ UNCHANGED service
    /\ UNCHANGED shownBus

\* onJoined.
HearJoin ==
    /\ boarding.at = "joined"
    /\ rider' = [Tracks(rider, boarding.ride) EXCEPT !.error = FALSE, !.boarded = boarding.ride]
    /\ hint' = boarding.ride /\ owed' = {boarding.ride}
    /\ inquiry' = Looped(rider') /\ boarding' = NoBoarding
    /\ restoring' = [restoring EXCEPT !.overtaken = restoring.at # "no"]
    /\ UNCHANGED <<server, mishaps, told>>
LoseJoin ==
    /\ Mishap /\ boarding.at # "no"
    /\ \/ boarding.at = "read" /\ Boards(boarding.ride) /\ PlaceAgain
          /\ service' = [service EXCEPT ![boarding.ride].place = TRUE]
       \/ UNCHANGED service
    /\ boarding' = NoBoarding /\ rider' = [rider EXCEPT !.boarded = NoFollowed]
    /\ UNCHANGED <<shownBus, hint, restoring, inquiry, told, owed>>

-----------------------------------------------------------------------------
ServiceStep == \E r \in Followed : Arm(r) \/ DepartRide(r) \/ EndService(r) \/ DeleteHistory(r)
StatusStep == AskStatus \/ ReadStatus \/ HearStatus
RestoringStep == ReadRestore \/ HearRestore
JoinStep == ReadJoin \/ CommitJoin \/ HearJoin

PassengerNext ==
    \/ ServiceStep \/ ShowEnd \/ DeviceBlinks
    \/ Hear \/ Resubscribe \/ AskFeedback
    \/ StatusStep \/ LoseStatus
    \/ Reload \/ RetryRide \/ RestoringStep \/ LoseRestore
    \/ Board \/ JoinStep \/ LoseJoin

-----------------------------------------------------------------------------
\* Feedback is asked for rides that the passenger boarded and that completed,
\* never for one that broke off, only vanished from the feed, or came after it on
\* the same bus (rideFeedbackEligibility.ts:61, PassengerWorkspace.tsx:528-596).
RideIsEarned == \A r \in told : service[r].status = "completed" /\ service[r].place

\* Once a ride the passenger boarded is over, the page asks for feedback, says
\* that it ended, or says that it cannot tell, however the feed, the status
\* endpoint, a reload and another boarding interleave (PassengerWorkspace.tsx:366).
RiderIsTold == <>[](\A r \in owed : IsOver(r) => rider.error)
=============================================================================
