--------------------------------- MODULE LiveProofs ---------------------------------
(* Proofs about the parts of LiveParts, for every set of tasks, replicas,        *)
(* requests, sessions, messages and forms.                                       *)
EXTENDS LiveParts, FiniteSetTheorems, SequenceTheorems, TLAPS

-----------------------------------------------------------------------------
\* RideDirection.

Trips == {"pre_departure", "in_service", "completed"}
LiveNodes == [ride : {0} \cup Shifts, trip : Trips, direction : Inferred, synced : BOOLEAN, path : Inferred]
Sessions == [state : {"none", "open", "failed", "ended"}, direction : Inferred, departed : BOOLEAN]
Resolutions == [at : {"idle", "persist", "mark", "reset", "match"}, ride : {0} \cup Shifts,
                direction : Inferred, current : BOOLEAN]
Claims == [at : {"idle", "claim", "project"}, ride : {0} \cup Shifts, direction : Inferred, created : BOOLEAN]

DirectionTypeOK ==
    /\ node \in LiveNodes
    /\ sessions \in [Shifts -> Sessions]
    /\ lockedBy \in {0} \cup Shifts
    /\ resolver \in [Resolvers -> Resolutions]
    /\ starter \in [Starts -> Claims]
    /\ departing \in [ride : {0} \cup Shifts, direction : Inferred]

\* The session n has the direction d, which it never changes again.
Confirmed(n, d) == n \in Shifts /\ d \in Directions /\ sessions[n].direction = d

\* What a replica has written to the session, and what a start gives to the
\* node, is the direction of the session.
DirectionInv ==
    /\ DirectionTypeOK
    /\ DirectionIsConfirmed
    /\ \A m \in Resolvers : LET r == resolver[m] IN
          /\ r.at = "persist" => r.ride # 0 /\ r.direction # Unresolved
          /\ r.at = "mark" => Confirmed(r.ride, r.direction)
    /\ \A s \in Starts : LET c == starter[s] IN
          c.at # "idle" => c.ride # 0 /\ (c.direction # Unresolved => Confirmed(c.ride, c.direction))

-----------------------------------------------------------------------------
\* RouteReroute.

Paths == [ride : Nat, config : Nat, found : BOOLEAN]
Numbers == {0} \cup Versions
Phases == {Nothing, "ready", "departure"}
Sources == {Nothing, "configured", "dynamic-reroute"}
Adherences == {Nothing, "ON_ROUTE", "ON_NEW_ROUTE", "POSSIBLE_OFF_ROUTE", "OFF_ROUTE", "REROUTING"}
Departures == [state : {Nothing, "pending", "ready", "failed"}, phase : Phases, by : Replicas \cup {Nothing},
               tries : Nat, waits : BOOLEAN]
Lives == [ride : Nat, trip : Trips, version : Numbers, source : Sources, owner : Nat, config : Nat,
          state : Adherences, request : Replicas \cup {Nothing}, aged : BOOLEAN, waits : BOOLEAN,
          departure : Departures]
Matches == [by : Replicas \cup {Nothing}, ride : Nat, config : Nat, version : Numbers, source : Sources,
            previous : Adherences, changed : BOOLEAN, reuse : BOOLEAN]
Demands == [kind : {Nothing, "reroute", "departure"}, ride : Nat, version : Numbers, config : Nat]
Calls == [at : {"idle", "provider", "publish", "release"}, task : Demands, phase : Phases, version : Numbers,
          late : BOOLEAN]

RouteTypeOK ==
    /\ live \in Lives
    /\ matching \in Matches
    /\ queued \in [Replicas -> Demands]
    /\ call \in [Replicas -> Calls]
    /\ known \in [Replicas -> Nat]
    /\ config \in Nat
    /\ geometry \in [Versions -> Paths]
    /\ paid \in BOOLEAN

\* A request is for the context of the ride and version it names.
OwnContext(t) ==
    /\ t.ride <= live.ride
    /\ t.ride # 0 => t.version # 0
    /\ t.ride = live.ride => live.version # 0
    /\ SameContext(t) => live.owner = live.ride /\ live.config = t.config

\* While the node has the version that the fix was matched to, it has its context.
MatchOwn ==
    matching # NoMatch =>
        /\ matching.by \in Replicas /\ matching.ride # 0 /\ matching.ride <= live.ride
        /\ matching.ride = live.ride /\ live.version = 0 => matching.version = 0
        /\ ~matching.changed =>
              /\ matching.version # 0
              /\ matching.ride = live.ride /\ matching.version = live.version =>
                    live.owner = live.ride /\ live.config = matching.config /\ live.source = matching.source

\* A stored path that may still be shown is the one that was asked for, and its
\* version names nothing else.
AnswerOwn(r) ==
    /\ call[r].at # "publish" => call[r].version = 0
    /\ call[r].at = "publish" =>
        /\ call[r].version \notin {0, 1, live.version, matching.version}
        /\ \A s \in Replicas : /\ call[r].version # queued[s].version /\ call[r].version # call[s].task.version
                               /\ s # r => call[r].version # call[s].version
        /\ ~call[r].late => /\ geometry[call[r].version].ride = call[r].task.ride
                            /\ geometry[call[r].version].config = call[r].task.config
                            /\ ~geometry[call[r].version].found

\* No path is kept that nothing names.
PathsNamed == \A v \in Versions : geometry[v] # NoPath => v = live.version \/ \E r \in Replicas : call[r].version = v

LiveOwn ==
    /\ ShownPathIsRides
    /\ live.ride # 0
    /\ live.version = 0 => live.owner = 0 /\ live.source # "dynamic-reroute"
    /\ live.source = "dynamic-reroute" => ~geometry[live.version].found
    /\ paid => live.waits

RouteInv ==
    /\ RouteTypeOK /\ LiveOwn /\ MatchOwn /\ PathsNamed
    /\ \A r \in Replicas : OwnContext(queued[r]) /\ OwnContext(call[r].task) /\ AnswerOwn(r)

-----------------------------------------------------------------------------
\* SerializedChangeWriter on KeyedExecutor.

\* Task t was admitted for key k, and none later.
LastOf(k, t) ==
    /\ t \in Tasks /\ stage[t] # "new" /\ key[t] = k
    /\ \A u \in Tasks : stage[u] # "new" /\ key[u] = k => u <= t

QueueInv ==
    /\ admitted \in Nat /\ admitted <= MaxTasks
    /\ key \in [Tasks -> Keys] /\ stage \in [Tasks -> Stages] /\ holder \in [Keys -> {0} \cup Tasks]
    /\ \A t \in Tasks : stage[t] = "new" <=> t > admitted
    /\ \A t \in Tasks : stage[t] \in {"dispatched", "running"} => holder[key[t]] = t
    /\ InOrder

Working == {t \in Tasks : stage[t] \in {"dispatched", "running"}}
Queued == {t \in Tasks : stage[t] = "waiting"}

\* Keys wait in turn without repetition.
Once(s) == \A i, j \in DOMAIN s : s[i] = s[j] => i = j
KeysOf(s) == {s[i] : i \in DOMAIN s}

\* A task admitted over the limit is dispatched before anything else happens.
QueueBounded ==
    waiting <= MaxPending \/ (pumping /\ waiting = MaxPending + 1 /\ ready # <<>> /\ active < MaxConcurrent)

ExecutorInv ==
    /\ ExecInv /\ InOrder /\ QueueBounded
    /\ \A k \in Keys : Cardinality(Pending(k)) <= MaxPendingPerKey

ChangeInv ==
    /\ QueueInv /\ WriterTypeOK
    /\ \A k \in Keys : queues[k] # 0 => LastOf(k, queues[k])
    /\ \A k \in Keys : storedBy[k] # 0 => storedBy[k] \in landed /\ key[storedBy[k]] = k
    /\ \A t \in landed : stage[t] \in {"running", "done", "failed"} /\ t <= storedBy[key[t]]
    /\ \A k \in Keys : print[k] # NoPrint /\ queues[k] = 0 => LastOf(k, storedBy[k])
    /\ SkipLosesNothing

-----------------------------------------------------------------------------
\* RideMessages.

Messages == [request : Requests, text : Texts]
Retaining == messages \cup archived
\* What a page still names was retained when it was read.
Sent == executing \cup Retaining \cup clearing.page

Rides == [open : BOOLEAN, history : {"kept", "job", "gone"}, swept : SUBSET {"messages", "archived"},
          rate : [sentAt : SUBSET Nat, last : Nat \cup {-1}]]
Panels == [text : Nat, pending : {NotAsked} \cup Requests, asked : Nat, waits : {NotAsked} \cup Requests,
           answer : {"none", "sent", "wait", "closed"}]

ChatTypeOK ==
    /\ chatTime \in Nat
    /\ Sent \subseteq Messages
    /\ clearing \in [at : {"no", "read"}, page : SUBSET Messages]
    /\ rideChat \in Rides
    /\ IsFiniteSet(rideChat.rate.sentAt)
    /\ panel \in Panels
    /\ written \in [times : [Requests -> Nat], at : SUBSET Nat, for : [Texts -> Nat]]

\* While the ride is open, a text has one request and a request one text.
TextsOwn ==
    /\ panel.pending < panel.asked
    /\ \A q \in Sent : q.request < panel.asked /\ q.text <= panel.text
    /\ \A q \in Sent : q.text = panel.text <=> q.request = panel.pending
    /\ \A p, q \in Sent : p.request = q.request <=> p.text = q.text

\* What was stored while the ride is open is still retained, and the rate of the
\* ride knows it as long as a window does.
StoredIsKnown ==
    /\ \A r \in Requests : written.times[r] # 0 => Retained(r)
    /\ \A t \in Texts : written.for[t] # 0 => \E q \in Retaining : q.text = t
    /\ \A u \in written.at : chatTime - u < HourSpan => u \in Previous(rideChat.rate)

StoredOnce == (\A r \in Requests : written.times[r] <= 1) /\ (\A t \in Texts : written.for[t] <= 1)

\* What a deletion has swept stays empty.
SweptIsEmpty ==
    /\ rideChat.open => rideChat.history = "kept"
    /\ rideChat.history = "kept" => rideChat.swept = {}
    /\ rideChat.history = "gone" => rideChat.swept = {"messages", "archived"}
    /\ "messages" \in rideChat.swept => messages = {}
    /\ "archived" \in rideChat.swept => archived = {}

ChatInv ==
    /\ ChatTypeOK /\ StoredOnce /\ RateKept /\ SweptIsEmpty
    /\ \A u \in written.at : u <= chatTime
    /\ rideChat.open => panel.answer # "closed" /\ TextsOwn /\ StoredIsKnown

Forms == [pending : {NoFeedback} \cup Feedbacks, at : {"no", "asked", "read", "stored"},
          read : Nat \cup {NoStamp}, until : Int]

FeedbackTypeOK ==
    /\ dayTime \in Nat /\ ahead \in Int /\ stored \in Int
    /\ given \in [Feedbacks -> Nat \cup {NoStamp}] /\ cooldown \in Nat \cup {NoStamp}
    /\ form \in [Tabs -> Forms]
    /\ thanked \subseteq Feedbacks

\* The cooldown is the last feedback's time.
FeedbackInv ==
    /\ FeedbackTypeOK /\ FeedbackIsKept
    /\ cooldown <= dayTime /\ \A r \in Feedbacks : given[r] <= cooldown
    /\ \A t \in Tabs : form[t].at # "no" => form[t].pending # NoFeedback
    /\ \A t \in Tabs : form[t].at = "stored" => given[form[t].pending] # NoStamp
    /\ \A c \in lateCommits : c.request \in Feedbacks

-----------------------------------------------------------------------------
\* The direction of a ride.

LEMMA DirectionConstants ==
    /\ 0 \notin Shifts /\ Unresolved \notin Directions /\ Inferred = Directions \cup {Unresolved}
    /\ DeviceOnly \in LiveNodes /\ NoSession \in Sessions /\ AtRest \in Resolutions /\ NoStart \in Claims
    /\ DeviceOnly.ride = 0 /\ AtRest.at = "idle" /\ NoStart.at = "idle" /\ NoSession.direction = Unresolved
BY ShiftAssumption DEF Shifts, Unresolved, Directions, Inferred, DeviceOnly, LiveNodes, Trips, NoSession, Sessions,
   AtRest, Resolutions, NoStart, Claims

LEMMA DirectionStarts == DirectionInit => DirectionInv
BY DirectionConstants DEF DirectionInit, DirectionInv, DirectionTypeOK, DirectionIsConfirmed, NoCheckpoint

\* No write takes the direction of a session away.
DirectionsStay == \A n \in Shifts, d \in Directions : sessions[n].direction = d => sessions'[n].direction = d

LEMMA ConfirmedStays ==
    ASSUME DirectionsStay, NEW n, NEW d, Confirmed(n, d)
    PROVE  (Confirmed(n, d))'
BY DEF DirectionsStay, Confirmed

\* A step that changes one replica at most, and the node as its guard allows.
LEMMA ResolverKeeps ==
    ASSUME DirectionInv, NEW m \in Resolvers, NEW r \in Resolutions,
           resolver' = [resolver EXCEPT ![m] = r],
           r.at = "persist" => r.ride # 0 /\ r.direction # Unresolved,
           r.at = "mark" => (Confirmed(r.ride, r.direction))',
           DirectionsStay, sessions' \in [Shifts -> Sessions],
           node' \in LiveNodes, DirectionIsConfirmed',
           UNCHANGED <<lockedBy, starter, departing>>
    PROVE  DirectionInv'
<1>1. DirectionTypeOK'
  BY DEF DirectionInv, DirectionTypeOK
<1>2. ASSUME NEW x \in Resolvers
      PROVE  /\ resolver'[x].at = "persist" => resolver'[x].ride # 0 /\ resolver'[x].direction # Unresolved
             /\ resolver'[x].at = "mark" => (Confirmed(resolver[x].ride, resolver[x].direction))'
  <2>1. CASE x = m
    BY <2>1 DEF DirectionInv, DirectionTypeOK, Confirmed
  <2>2. CASE x # m
    <3>1. resolver'[x] = resolver[x]
      BY <2>2 DEF DirectionInv, DirectionTypeOK
    <3> QED
      BY <3>1, ConfirmedStays DEF DirectionInv, Confirmed
  <2> QED
    BY <2>1, <2>2
<1>3. ASSUME NEW s \in Starts
      PROVE  starter'[s].at # "idle" =>
                /\ starter'[s].ride # 0
                /\ starter'[s].direction # Unresolved => (Confirmed(starter[s].ride, starter[s].direction))'
  BY ConfirmedStays DEF DirectionInv, Confirmed
<1> QED
  BY <1>1, <1>2, <1>3 DEF DirectionInv

LEMMA StarterKeeps ==
    ASSUME DirectionInv, NEW s \in Starts, NEW c \in Claims,
           starter' = [starter EXCEPT ![s] = c],
           c.at # "idle" => c.ride # 0 /\ (c.direction # Unresolved => (Confirmed(c.ride, c.direction))'),
           DirectionsStay, sessions' \in [Shifts -> Sessions], lockedBy' \in {0} \cup Shifts,
           node' \in LiveNodes, DirectionIsConfirmed',
           UNCHANGED <<resolver, departing>>
    PROVE  DirectionInv'
<1>1. DirectionTypeOK'
  BY DEF DirectionInv, DirectionTypeOK
<1>2. ASSUME NEW x \in Starts
      PROVE  starter'[x].at # "idle" =>
                /\ starter'[x].ride # 0
                /\ starter'[x].direction # Unresolved => (Confirmed(starter[x].ride, starter[x].direction))'
  <2>1. CASE x = s
    BY <2>1 DEF DirectionInv, DirectionTypeOK, Confirmed
  <2>2. CASE x # s
    <3>1. starter'[x] = starter[x]
      BY <2>2 DEF DirectionInv, DirectionTypeOK
    <3> QED
      BY <3>1, ConfirmedStays DEF DirectionInv, Confirmed
  <2> QED
    BY <2>1, <2>2
<1>3. ASSUME NEW m \in Resolvers
      PROVE  /\ resolver'[m].at = "persist" => resolver'[m].ride # 0 /\ resolver'[m].direction # Unresolved
             /\ resolver'[m].at = "mark" => (Confirmed(resolver[m].ride, resolver[m].direction))'
  BY ConfirmedStays DEF DirectionInv, Confirmed
<1> QED
  BY <1>1, <1>2, <1>3 DEF DirectionInv

\* A step of the engine, or another fix.
LEMMA EngineKeeps ==
    ASSUME DirectionInv, DirectionsStay, sessions' \in [Shifts -> Sessions], lockedBy' \in {0} \cup Shifts,
           node' \in LiveNodes, DirectionIsConfirmed', departing' \in [ride : {0} \cup Shifts, direction : Inferred],
           UNCHANGED <<resolver, starter>>
    PROVE  DirectionInv'
<1>1. DirectionTypeOK'
  BY DEF DirectionInv, DirectionTypeOK
<1>2. ASSUME NEW x \in Starts
      PROVE  starter'[x].at # "idle" =>
                /\ starter'[x].ride # 0
                /\ starter'[x].direction # Unresolved => (Confirmed(starter[x].ride, starter[x].direction))'
  BY ConfirmedStays DEF DirectionInv, Confirmed
<1>3. ASSUME NEW m \in Resolvers
      PROVE  /\ resolver'[m].at = "persist" => resolver'[m].ride # 0 /\ resolver'[m].direction # Unresolved
             /\ resolver'[m].at = "mark" => (Confirmed(resolver[m].ride, resolver[m].direction))'
  BY ConfirmedStays DEF DirectionInv, Confirmed
<1> QED
  BY <1>1, <1>2, <1>3 DEF DirectionInv

\* Whose node and direction stay shows what it showed.
LEMMA ShownStays ==
    ASSUME DirectionInv, DirectionsStay, node' \in LiveNodes,
           \/ node'.ride = 0
           \/ /\ node'.ride = node.ride /\ node'.direction = node.direction /\ node'.synced = node.synced
              /\ node'.path \in {Unresolved, node.direction, node.path}
           \/ node'.ride # 0 /\ node'.path = Unresolved
              /\ (node'.direction # Unresolved => ~node'.synced \/ (Confirmed(node.ride, node.direction))')
    PROVE  DirectionIsConfirmed'
<1>1. CASE node'.ride = 0
  BY <1>1 DEF DirectionIsConfirmed
<1>2. CASE node'.ride # 0 /\ node'.path = Unresolved
           /\ (node'.direction # Unresolved => ~node'.synced \/ (Confirmed(node.ride, node.direction))')
  BY <1>2 DEF DirectionIsConfirmed, Confirmed
<1>3. CASE /\ node'.ride # 0
           /\ node'.ride = node.ride /\ node'.direction = node.direction /\ node'.synced = node.synced
           /\ node'.path \in {Unresolved, node.direction, node.path}
  <2>1. node.ride \in Shifts /\ node.direction \in Inferred
    BY <1>3, DirectionConstants DEF DirectionInv, DirectionTypeOK, LiveNodes
  <2> QED
    BY <1>3, <2>1, DirectionConstants DEF DirectionInv, DirectionIsConfirmed, DirectionsStay
<1> QED
  BY <1>1, <1>2, <1>3

LEMMA Stays == UNCHANGED sessions => DirectionsStay
BY DEF DirectionsStay

LEMMA ResolverTypes ==
    ASSUME DirectionInv, NEW m \in Resolvers
    PROVE  /\ resolver[m] \in Resolutions /\ node \in LiveNodes /\ sessions \in [Shifts -> Sessions]
           /\ resolver[m].at = "persist" => resolver[m].ride \in Shifts /\ resolver[m].direction \in Directions
           /\ resolver[m].at = "mark" => Confirmed(resolver[m].ride, resolver[m].direction)
BY DirectionConstants DEF DirectionInv, DirectionTypeOK, Resolutions

LEMMA ResolveKeeps ==
    ASSUME DirectionInv, NEW m \in Resolvers, Resolve(m) PROVE DirectionInv'
<1>1. PICK d \in Inferred : node' = Provisional(d)
  BY DEF Resolve
<1>2. node' \in LiveNodes
  BY <1>1, ResolverTypes DEF Provisional, LiveNodes, Inferred
<1>3. DirectionsStay /\ UNCHANGED <<sessions, lockedBy, starter, departing>>
  BY Stays DEF Resolve
<1>4. DirectionIsConfirmed'
  <2>1. CASE node' = node
    BY <1>2, <1>3, <2>1, ShownStays
  <2>2. CASE Eligible /\ node.ride = 0
    <3>1. node'.ride = 0
      BY <1>1, <2>2, ResolverTypes DEF Provisional, LiveNodes
    <3> QED
      BY <1>2, <1>3, <3>1, ShownStays
  <2>3. CASE Eligible /\ node.ride # 0 /\ node' # node
    <3>1. node.direction = Unresolved /\ node.path = Unresolved
      BY <2>3 DEF Eligible, DirectionInv, DirectionIsConfirmed
    <3>2. node'.ride = node.ride /\ node'.path = Unresolved /\ (node'.direction # Unresolved => ~node'.synced)
      BY <1>1, <2>3, <3>1, ResolverTypes DEF Provisional, LiveNodes
    <3> QED
      BY <1>2, <1>3, <2>3, <3>2, ShownStays
  <2> QED
    BY <1>1, <2>1, <2>2, <2>3 DEF Provisional
<1> DEFINE r == IF node'.direction = Unresolved THEN AtRest
                ELSE [at |-> IF node'.ride # 0 /\ ~node'.synced THEN "persist" ELSE "match",
                      ride |-> node'.ride, direction |-> node'.direction, current |-> TRUE]
<1>5. r \in Resolutions /\ (r.at = "persist" => r.ride # 0 /\ r.direction # Unresolved) /\ r.at # "mark"
  BY <1>2, DirectionConstants DEF Resolutions, LiveNodes
<1>6. resolver' = [resolver EXCEPT ![m] = r]
  BY DEF Resolve
<1> HIDE DEF r
<1>7. sessions' \in [Shifts -> Sessions]
  BY <1>3, ResolverTypes
<1> QED
  BY <1>2, <1>3, <1>4, <1>5, <1>6, <1>7, ResolverKeeps

\* A step that leaves the node and the sessions, with the replica going on to
\* a place other than the mark, or resting.
LEMMA ReplicaGoesOn ==
    ASSUME DirectionInv, NEW m \in Resolvers, NEW place \in {"mark", "reset", "match"},
           Goes(m, place) \/ Rests(m),
           place = "mark" => Rests(m) \/ (Confirmed(resolver[m].ride, resolver[m].direction))',
           DirectionsStay, sessions' \in [Shifts -> Sessions],
           node' \in LiveNodes, DirectionIsConfirmed',
           UNCHANGED <<lockedBy, starter, departing>>
    PROVE  DirectionInv'
<1>1. CASE Rests(m)
  BY <1>1, ResolverKeeps, DirectionConstants DEF Rests
<1>2. CASE Goes(m, place) /\ ~Rests(m)
  <2>0. PICK r : r = [resolver[m] EXCEPT !.at = place]
    OBVIOUS
  <2>1. resolver' = [resolver EXCEPT ![m] = r]
    BY <1>2, <2>0 DEF Goes
  <2>2. r \in Resolutions /\ r.at = place /\ r.ride = resolver[m].ride /\ r.direction = resolver[m].direction
    BY <2>0, ResolverTypes DEF Resolutions
  <2>3. place = "mark" => (Confirmed(r.ride, r.direction))'
    <3>1. resolver'[m] = r
      BY <2>1 DEF DirectionInv, DirectionTypeOK
    <3> QED
      BY <1>2, <2>2, <3>1 DEF Confirmed
  <2> QED
    BY <2>1, <2>2, <2>3, ResolverKeeps
<1> QED
  BY <1>1, <1>2

LEMMA PersistKeeps ==
    ASSUME DirectionInv, NEW m \in Resolvers, Persist(m) PROVE DirectionInv'
<1> DEFINE n == resolver[m].ride
           d == resolver[m].direction
<1>1. n \in Shifts /\ d \in Directions /\ UNCHANGED <<node, lockedBy, starter, departing>>
  BY ResolverTypes DEF Persist
<1>2. node' \in LiveNodes
  BY <1>1, ResolverTypes
<1>3. CASE Accepts(resolver[m]) /\ sessions' = [sessions EXCEPT ![n].direction = d] /\ (Goes(m, "mark") \/ Rests(m))
  <2>1. sessions' \in [Shifts -> Sessions]
    BY <1>1, <1>3, ResolverTypes, DirectionConstants DEF Sessions
  <2>2. sessions'[n].direction = d /\ \A x \in Shifts \ {n} : sessions'[x] = sessions[x]
    BY <1>1, <1>3, ResolverTypes DEF Sessions
  <2>3. DirectionsStay
    BY <1>1, <1>3, <2>2, DirectionConstants DEF Accepts, DirectionsStay
  <2>4. DirectionIsConfirmed'
    BY <1>1, <1>2, <2>3, ShownStays
  <2>5. Rests(m) \/ (Confirmed(resolver[m].ride, resolver[m].direction))'
    <3>1. ~Rests(m) => resolver'[m].ride = n /\ resolver'[m].direction = d
      BY <1>3, ResolverTypes DEF Goes, DirectionInv, DirectionTypeOK, Resolutions
    <3> QED
      BY <1>1, <2>2, <3>1 DEF Confirmed
  <2> QED
    BY <1>1, <1>2, <1>3, <2>1, <2>3, <2>4, <2>5, ReplicaGoesOn
<1>4. CASE UNCHANGED sessions /\ (Goes(m, "reset") \/ Rests(m))
  <2>1. sessions' \in [Shifts -> Sessions] /\ DirectionsStay
    BY <1>4, ResolverTypes, Stays
  <2>2. DirectionIsConfirmed'
    BY <1>1, <1>2, <2>1, ShownStays
  <2> QED
    BY <1>1, <1>2, <1>4, <2>1, <2>2, ReplicaGoesOn
<1> QED
  BY <1>3, <1>4 DEF Persist

LEMMA MarkKeeps ==
    ASSUME DirectionInv, NEW m \in Resolvers, Mark(m) PROVE DirectionInv'
<1>1. Confirmed(resolver[m].ride, resolver[m].direction) /\ UNCHANGED <<sessions, lockedBy, starter, departing>>
  BY ResolverTypes DEF Mark
<1>2. \/ node' = node
      \/ /\ StillProvisional(resolver[m])
         /\ node' \in LiveNodes /\ node'.ride = node.ride /\ node'.direction = node.direction
         /\ node'.path = node.path
  BY ResolverTypes DEF Mark, LiveNodes
<1>3. node' \in LiveNodes /\ sessions' \in [Shifts -> Sessions] /\ DirectionsStay
  BY <1>1, <1>2, ResolverTypes, Stays
<1>4. DirectionIsConfirmed'
  <2>1. CASE node' = node
    BY <1>1, <1>3, <2>1, ShownStays
  <2>2. CASE node' # node
    BY <1>1, <1>2, <2>2 DEF StillProvisional, Confirmed, DirectionInv, DirectionIsConfirmed
  <2> QED
    BY <2>1, <2>2
<1> QED
  BY <1>1, <1>3, <1>4, ReplicaGoesOn DEF Mark

LEMMA ResetKeeps ==
    ASSUME DirectionInv, NEW m \in Resolvers, Reset(m) PROVE DirectionInv'
<1>1. UNCHANGED <<sessions, lockedBy, starter, departing>> /\ Rests(m)
  BY DEF Reset
<1>2. \/ node' = node
      \/ node' \in LiveNodes /\ node'.ride = node.ride /\ node'.direction = Unresolved /\ node'.path = Unresolved
  BY ResolverTypes, DirectionConstants DEF Reset, LiveNodes
<1>3. node' \in LiveNodes /\ sessions' \in [Shifts -> Sessions] /\ DirectionsStay
  BY <1>1, <1>2, ResolverTypes, Stays
<1>4. DirectionIsConfirmed'
  BY <1>2, <1>3, ShownStays
<1> QED
  BY <1>1, <1>3, <1>4, ReplicaGoesOn

LEMMA MatchFixKeeps ==
    ASSUME DirectionInv, NEW m \in Resolvers, MatchFix(m) PROVE DirectionInv'
<1>1. UNCHANGED <<sessions, lockedBy, starter, departing>> /\ Rests(m)
  BY DEF MatchFix
<1>2. \/ node' = node
      \/ /\ node' \in LiveNodes /\ node'.ride = node.ride /\ node'.direction = node.direction
         /\ node'.synced = node.synced /\ node'.path = node.direction
  BY ResolverTypes DEF MatchFix, LiveNodes, Resolutions
<1>3. node' \in LiveNodes /\ sessions' \in [Shifts -> Sessions] /\ DirectionsStay
  BY <1>1, <1>2, ResolverTypes, Stays
<1>4. DirectionIsConfirmed'
  BY <1>2, <1>3, ShownStays
<1> QED
  BY <1>1, <1>3, <1>4, ReplicaGoesOn

LEMMA StarterTypes ==
    ASSUME DirectionInv, NEW s \in Starts
    PROVE  /\ starter[s] \in Claims /\ node \in LiveNodes /\ sessions \in [Shifts -> Sessions]
           /\ lockedBy \in {0} \cup Shifts
           /\ starter[s].at # "idle" => /\ starter[s].ride \in Shifts
                                        /\ starter[s].direction # Unresolved
                                              => Confirmed(starter[s].ride, starter[s].direction)
BY DEF DirectionInv, DirectionTypeOK, Claims

\* The session that a start creates is one that nothing names.
LEMMA NextShiftIsNew ==
    ASSUME \E n \in Shifts : sessions[n] = NoSession
    PROVE  NextShift \in Shifts /\ sessions[NextShift] = NoSession
BY DEF NextShift

LEMMA ClaimLockKeeps ==
    ASSUME DirectionInv, NEW s \in Starts, ClaimLock(s) PROVE DirectionInv'
<1>1. PICK d \in Inferred :
          \/ /\ lockedBy = 0 /\ \E n \in Shifts : sessions[n] = NoSession
             /\ sessions' = [sessions EXCEPT ![NextShift] = [NoSession EXCEPT !.state = "open", !.direction = d]]
             /\ lockedBy' = NextShift
             /\ starter' = [starter EXCEPT ![s] =
                              [at |-> "claim", ride |-> NextShift, direction |-> d, created |-> TRUE]]
          \/ /\ lockedBy # 0
             /\ d = Unresolved \/ sessions[lockedBy].direction \in {Unresolved, d}
             /\ sessions' = [sessions EXCEPT ![lockedBy].direction = Kept(lockedBy, d)]
             /\ starter' = [starter EXCEPT ![s] =
                              [at |-> "claim", ride |-> lockedBy, direction |-> Kept(lockedBy, d), created |-> FALSE]]
             /\ UNCHANGED lockedBy
  BY DEF ClaimLock
<1>2. UNCHANGED <<node, resolver, departing>> /\ node' \in LiveNodes
  BY StarterTypes DEF ClaimLock
<1>3. PICK n, g, b :
          /\ n \in Shifts /\ g \in Inferred /\ b \in BOOLEAN /\ lockedBy' = n
          /\ sessions[n].direction \in {Unresolved, g}
          /\ sessions' \in [Shifts -> Sessions] /\ sessions'[n].direction = g
          /\ \A x \in Shifts \ {n} : sessions'[x] = sessions[x]
          /\ starter' = [starter EXCEPT ![s] = [at |-> "claim", ride |-> n, direction |-> g, created |-> b]]
  <2>1. CASE lockedBy = 0 /\ \E n \in Shifts : sessions[n] = NoSession
    <3>1. NextShift \in Shifts /\ sessions[NextShift] = NoSession
      BY <2>1, NextShiftIsNew
    <3>2. PICK y : y = [NoSession EXCEPT !.state = "open", !.direction = d]
      OBVIOUS
    <3>3. y \in Sessions /\ y.direction = d
      BY <3>2 DEF NoSession, Sessions
    <3>4. sessions' = [sessions EXCEPT ![NextShift] = y] /\ lockedBy' = NextShift
          /\ starter' = [starter EXCEPT ![s] =
                           [at |-> "claim", ride |-> NextShift, direction |-> d, created |-> TRUE]]
      BY <1>1, <2>1, <3>2
    <3>5. /\ sessions' \in [Shifts -> Sessions] /\ sessions'[NextShift].direction = d
          /\ \A x \in Shifts \ {NextShift} : sessions'[x] = sessions[x]
      BY <3>1, <3>3, <3>4, StarterTypes
    <3>6. sessions[NextShift].direction = Unresolved
      BY <3>1, DirectionConstants
    <3> QED
      BY <3>1, <3>4, <3>5, <3>6
  <2>2. CASE lockedBy # 0 /\ (d = Unresolved \/ sessions[lockedBy].direction \in {Unresolved, d})
    <3>1. lockedBy \in Shifts /\ Kept(lockedBy, d) \in Inferred
          /\ sessions[lockedBy].direction \in {Unresolved, Kept(lockedBy, d)}
      BY <2>2, StarterTypes DEF Kept, Sessions
    <3>2. sessions' \in [Shifts -> Sessions] /\ sessions'[lockedBy].direction = Kept(lockedBy, d)
          /\ \A x \in Shifts \ {lockedBy} : sessions'[x] = sessions[x]
      BY <1>1, <2>2, <3>1, StarterTypes DEF Sessions
    <3>3. UNCHANGED lockedBy
          /\ starter' = [starter EXCEPT ![s] =
                           [at |-> "claim", ride |-> lockedBy, direction |-> Kept(lockedBy, d), created |-> FALSE]]
      BY <1>1, <2>2
    <3> QED
      BY <3>1, <3>2, <3>3
  <2> QED
    BY <1>1, <2>1, <2>2
<1>4. DirectionsStay
  BY <1>3, DirectionConstants DEF DirectionsStay
<1>5. PICK c : c = [at |-> "claim", ride |-> n, direction |-> g, created |-> b]
  OBVIOUS
<1>6. c \in Claims /\ c.ride # 0 /\ (c.direction # Unresolved => (Confirmed(c.ride, c.direction))')
  BY <1>3, <1>5, DirectionConstants DEF Claims, Confirmed
<1>7. DirectionIsConfirmed'
  BY <1>2, <1>4, ShownStays
<1> QED
  BY <1>2, <1>3, <1>4, <1>5, <1>6, <1>7, StarterKeeps

LEMMA ClaimNodeKeeps ==
    ASSUME DirectionInv, NEW s \in Starts, ClaimNode(s) PROVE DirectionInv'
<1>1. starter[s].ride \in Shifts /\ starter[s].at = "claim" /\ UNCHANGED <<resolver, departing>>
  BY StarterTypes DEF ClaimNode
<1>2. CASE /\ \E trip \in Trips :
                 node' = [node EXCEPT !.ride = starter[s].ride, !.trip = trip,
                                      !.direction = starter[s].direction, !.path = Unresolved]
           /\ starter' = [starter EXCEPT ![s].at = "project"]
           /\ UNCHANGED <<sessions, lockedBy>>
  <2>1. /\ node' \in LiveNodes /\ node'.ride = starter[s].ride /\ node'.direction = starter[s].direction
        /\ node'.path = Unresolved
    BY <1>1, <1>2, StarterTypes, DirectionConstants DEF LiveNodes, Claims
  <2>2. DirectionsStay /\ sessions' \in [Shifts -> Sessions] /\ lockedBy' \in {0} \cup Shifts
    BY <1>2, Stays, StarterTypes
  <2>3. PICK c : c = [starter[s] EXCEPT !.at = "project"]
    OBVIOUS
  <2>4. c \in Claims /\ c.ride = starter[s].ride /\ c.direction = starter[s].direction
        /\ starter' = [starter EXCEPT ![s] = c]
    BY <1>2, <2>3, StarterTypes DEF Claims
  <2>5. c.direction # Unresolved => (Confirmed(c.ride, c.direction))'
    BY <1>1, <1>2, <2>4, StarterTypes DEF Confirmed
  <2>6. DirectionIsConfirmed'
    BY <1>1, <2>1, <2>4, <2>5, DirectionConstants DEF DirectionIsConfirmed, Confirmed
  <2> QED
    BY <1>1, <2>1, <2>2, <2>4, <2>5, <2>6, StarterKeeps, DirectionConstants
<1>3. CASE /\ Ends(s) /\ UNCHANGED node
           /\ \/ UNCHANGED <<sessions, lockedBy>>
              \/ /\ sessions' = [sessions EXCEPT ![starter[s].ride].state = "failed"]
                 /\ lockedBy' \in {0, lockedBy}
  <2>1. sessions' \in [Shifts -> Sessions] /\ DirectionsStay /\ lockedBy' \in {0} \cup Shifts
    <3>1. CASE UNCHANGED <<sessions, lockedBy>>
      BY <3>1, Stays, StarterTypes
    <3>2. CASE sessions' = [sessions EXCEPT ![starter[s].ride].state = "failed"] /\ lockedBy' \in {0, lockedBy}
      <4>1. /\ sessions' \in [Shifts -> Sessions]
            /\ \A x \in Shifts : sessions'[x].direction = sessions[x].direction
        BY <1>1, <3>2, StarterTypes DEF Sessions
      <4> QED
        BY <3>2, <4>1, StarterTypes DEF DirectionsStay
    <3> QED
      BY <1>3, <3>1, <3>2
  <2>2. DirectionIsConfirmed' /\ node' \in LiveNodes
    BY <1>3, <2>1, ShownStays, StarterTypes
  <2> QED
    BY <1>1, <1>3, <2>1, <2>2, StarterKeeps, DirectionConstants DEF Ends
<1> QED
  BY <1>2, <1>3 DEF ClaimNode, Trips

LEMMA ProjectKeeps ==
    ASSUME DirectionInv, NEW s \in Starts, Project(s) PROVE DirectionInv'
<1>1. starter[s].ride \in Shifts /\ Ends(s) /\ UNCHANGED <<node, lockedBy, resolver, departing>>
  BY StarterTypes DEF Project
<1>2. sessions' \in [Shifts -> Sessions] /\ DirectionsStay
  <2>1. CASE UNCHANGED sessions
    BY <2>1, Stays, StarterTypes
  <2>2. CASE sessions' = [sessions EXCEPT ![starter[s].ride].direction = Projected(starter[s])]
    <3>1. Projected(starter[s]) \in Inferred
          /\ sessions[starter[s].ride].direction \in {Unresolved, Projected(starter[s])}
      BY <1>1, StarterTypes DEF Projected, Kept, Sessions, Claims
    <3>2. /\ sessions' \in [Shifts -> Sessions]
          /\ sessions'[starter[s].ride].direction = Projected(starter[s])
          /\ \A x \in Shifts \ {starter[s].ride} : sessions'[x] = sessions[x]
      BY <1>1, <2>2, <3>1, StarterTypes DEF Sessions
    <3> QED
      BY <1>1, <3>1, <3>2, DirectionConstants DEF DirectionsStay
  <2> QED
    BY <2>1, <2>2 DEF Project
<1>3. DirectionIsConfirmed' /\ node' \in LiveNodes /\ lockedBy' \in {0} \cup Shifts
  BY <1>1, <1>2, ShownStays, StarterTypes
<1> QED
  BY <1>1, <1>2, <1>3, StarterKeeps, DirectionConstants DEF Ends

LEMMA EngineTypes ==
    ASSUME DirectionInv
    PROVE  /\ node \in LiveNodes /\ sessions \in [Shifts -> Sessions] /\ lockedBy \in {0} \cup Shifts
           /\ departing \in [ride : {0} \cup Shifts, direction : Inferred]
           /\ node.ride # 0 => node.ride \in Shifts
BY DEF DirectionInv, DirectionTypeOK, LiveNodes

\* A write to a session that leaves its direction.
LEMMA SessionWrite ==
    ASSUME DirectionInv, NEW n \in Shifts, NEW y \in Sessions, y.direction = sessions[n].direction,
           sessions' = [sessions EXCEPT ![n] = y]
    PROVE  sessions' \in [Shifts -> Sessions] /\ DirectionsStay
BY EngineTypes DEF DirectionsStay

LEMMA EngineStepKeeps ==
    ASSUME DirectionInv, Checkpointed \/ Depart \/ CompleteRide \/ ClearNode PROVE DirectionInv'
<1>1. CASE Checkpointed
  <2>1. node.ride \in Shifts /\ node.direction \in Inferred
    BY <1>1, EngineTypes DEF Checkpointed, LiveNodes
  <2>2. PICK y : y = [sessions[node.ride] EXCEPT !.departed = TRUE]
    OBVIOUS
  <2>3. y \in Sessions /\ y.direction = sessions[node.ride].direction
    BY <2>1, <2>2, EngineTypes, ZenonT(60) DEF Sessions
  <2>4. sessions' = [sessions EXCEPT ![node.ride] = y] /\ UNCHANGED <<node, lockedBy, resolver, starter>>
        /\ departing' = [ride |-> node.ride, direction |-> node.direction]
    BY <1>1, <2>2 DEF Checkpointed
  <2>5. sessions' \in [Shifts -> Sessions] /\ DirectionsStay
    BY <2>1, <2>3, <2>4, SessionWrite
  <2>6. DirectionIsConfirmed'
    BY <2>4, <2>5, ShownStays, EngineTypes
  <2> QED
    BY <2>1, <2>4, <2>5, <2>6, EngineKeeps, EngineTypes
<1>2. CASE Depart
  <2>1. /\ node' \in LiveNodes /\ node'.ride = node.ride /\ node'.direction = node.direction
        /\ node'.synced = node.synced /\ node'.path = node.path
    BY <1>2, EngineTypes DEF Depart, LiveNodes, Trips
  <2>2. sessions' \in [Shifts -> Sessions] /\ DirectionsStay /\ lockedBy' \in {0} \cup Shifts
        /\ UNCHANGED <<resolver, starter>> /\ departing' \in [ride : {0} \cup Shifts, direction : Inferred]
    BY <1>2, Stays, EngineTypes, DirectionConstants DEF Depart, NoCheckpoint
  <2>3. DirectionIsConfirmed'
    BY <2>1, <2>2, ShownStays
  <2> QED
    BY <2>1, <2>2, <2>3, EngineKeeps
<1>3. CASE CompleteRide
  <2>1. node.ride \in Shifts
    BY <1>3, EngineTypes DEF CompleteRide
  <2>2. PICK y : y = [sessions[node.ride] EXCEPT !.state = "ended"]
    OBVIOUS
  <2>3. y \in Sessions /\ y.direction = sessions[node.ride].direction
    BY <2>1, <2>2, EngineTypes DEF Sessions
  <2>4. sessions' = [sessions EXCEPT ![node.ride] = y] /\ lockedBy' = 0 /\ UNCHANGED <<resolver, starter, departing>>
    BY <1>3, <2>2 DEF CompleteRide
  <2>5. /\ node' \in LiveNodes /\ node'.ride = node.ride /\ node'.direction = node.direction
        /\ node'.synced = node.synced /\ node'.path = node.path
    BY <1>3, EngineTypes DEF CompleteRide, LiveNodes, Trips
  <2>6. sessions' \in [Shifts -> Sessions] /\ DirectionsStay
    BY <2>1, <2>3, <2>4, SessionWrite
  <2>7. DirectionIsConfirmed'
    BY <2>5, <2>6, ShownStays
  <2> QED
    BY <2>4, <2>5, <2>6, <2>7, EngineKeeps, EngineTypes
<1>4. CASE ClearNode
  <2>1. node' = DeviceOnly /\ UNCHANGED <<sessions, lockedBy, resolver, starter, departing>>
    BY <1>4 DEF ClearNode
  <2>2. sessions' \in [Shifts -> Sessions] /\ DirectionsStay /\ node' \in LiveNodes /\ node'.ride = 0
    BY <2>1, Stays, EngineTypes, DirectionConstants
  <2>3. DirectionIsConfirmed'
    BY <2>2, ShownStays
  <2> QED
    BY <2>1, <2>2, <2>3, EngineKeeps, EngineTypes
<1> QED
  BY <1>1, <1>2, <1>3, <1>4

LEMMA NewFixKeeps == ASSUME DirectionInv, NewFix PROVE DirectionInv'
<1>1. UNCHANGED <<node, sessions, lockedBy, starter, departing>>
  BY DEF NewFix
<1>2. ASSUME NEW m \in Resolvers
      PROVE  /\ resolver'[m] \in Resolutions /\ resolver'[m].at = resolver[m].at
             /\ resolver'[m].ride = resolver[m].ride /\ resolver'[m].direction = resolver[m].direction
  BY ResolverTypes DEF NewFix, Resolutions
<1>3. resolver' \in [Resolvers -> Resolutions]
  BY <1>2 DEF NewFix
<1>4. DirectionTypeOK'
  BY <1>1, <1>3 DEF DirectionInv, DirectionTypeOK
<1>5. DirectionIsConfirmed'
  BY <1>1 DEF DirectionInv, DirectionIsConfirmed
<1>6. ASSUME NEW m \in Resolvers
      PROVE  /\ resolver'[m].at = "persist" => resolver'[m].ride # 0 /\ resolver'[m].direction # Unresolved
             /\ resolver'[m].at = "mark" => (Confirmed(resolver[m].ride, resolver[m].direction))'
  BY <1>1, <1>2 DEF DirectionInv, Confirmed
<1>7. ASSUME NEW s \in Starts
      PROVE  starter'[s].at # "idle" =>
                /\ starter'[s].ride # 0
                /\ starter'[s].direction # Unresolved => (Confirmed(starter[s].ride, starter[s].direction))'
  BY <1>1 DEF DirectionInv, Confirmed
<1> QED
  BY <1>4, <1>5, <1>6, <1>7 DEF DirectionInv

LEMMA DirectionStep == DirectionInv /\ [DirectionNext]_directionVars => DirectionInv'
<1> SUFFICES ASSUME DirectionInv, [DirectionNext]_directionVars PROVE DirectionInv'
  OBVIOUS
<1>1. CASE UNCHANGED directionVars
  BY <1>1 DEF directionVars, DirectionInv, DirectionTypeOK, DirectionIsConfirmed, Confirmed
<1>2. CASE DirectionNext
  BY <1>2, NewFixKeeps, ResolveKeeps, PersistKeeps, MarkKeeps, ResetKeeps, MatchFixKeeps, ClaimLockKeeps,
     ClaimNodeKeeps, ProjectKeeps, EngineStepKeeps DEF DirectionNext
<1> QED
  BY <1>1, <1>2

\* What replicas have written, starts have claimed and the node shows of a ride
\* is the direction of its session, once that is known.
THEOREM DirectionInvariant == DirectionSpec => []DirectionInv
BY DirectionStarts, DirectionStep, PTL DEF DirectionSpec

\* However many replicas resolve the direction of a bus and requests start its
\* shift, a confirmed direction is that of the session, and no ride is matched
\* to the path of the other one (processTelemetryRoute(), startRideSession()).
THEOREM DirectionIsConfirmedAlways == DirectionSpec => []DirectionIsConfirmed
BY DirectionInvariant, PTL DEF DirectionInv

-----------------------------------------------------------------------------
\* The path of a live bus.

LEMMA VersionFacts ==
    /\ Cardinality(Replicas) \in Nat /\ Versions = 1 .. 3 * Cardinality(Replicas) + 4
    /\ 1 \in Versions /\ 0 \notin Versions
BY ReplicaAssumption, FS_CardinalityType DEF Versions

LEMMA RouteConstants ==
    /\ NoDeparture \in Departures /\ NoRequest \in Demands /\ NoCall \in Calls /\ NoMatch \in Matches
    /\ NoPath \in Paths /\ NoPath.ride = 0 /\ ~NoPath.found
    /\ NoCall.at = "idle" /\ NoCall.task = NoRequest /\ NoCall.version = 0 /\ ~NoCall.late
    /\ NoRequest.ride = 0 /\ NoRequest.version = 0 /\ NoMatch.ride = 0 /\ NoMatch.version = 0
    /\ \A phase \in Phases : Preview(phase) \in Departures
BY VersionFacts DEF NoDeparture, Departures, Phases, NoRequest, Demands, NoCall, Calls, NoMatch, Matches, NoPath,
   Paths, Numbers, Sources, Adherences, Nothing, Preview

\* The node of a ride that has no context yet.
LEMMA NewLiveFacts ==
    ASSUME NEW n \in Nat
    PROVE  /\ NewLive(n) \in Lives /\ NewLive(n).ride = n /\ NewLive(n).version = 0 /\ NewLive(n).owner = 0
           /\ NewLive(n).source = "none" /\ NewLive(n).request = Nothing
BY RouteConstants DEF NewLive, Lives, Trips, Numbers, Sources, Adherences, Nothing

LEMMA RouteStarts == RouteInit => RouteInv
<1> SUFFICES ASSUME RouteInit PROVE RouteInv
  OBVIOUS
<1>1. RouteTypeOK
  BY RouteConstants, NewLiveFacts DEF RouteInit, RouteTypeOK
<1>2. LiveOwn
  BY NewLiveFacts DEF RouteInit, LiveOwn, ShownPathIsRides
<1>3. MatchOwn /\ PathsNamed
  BY DEF RouteInit, MatchOwn, PathsNamed
<1>4. ASSUME NEW r \in Replicas PROVE OwnContext(queued[r]) /\ OwnContext(call[r].task) /\ AnswerOwn(r)
  BY RouteConstants, NewLiveFacts DEF RouteInit, OwnContext, SameContext, AnswerOwn
<1> QED
  BY <1>1, <1>2, <1>3, <1>4 DEF RouteInv

LEMMA RouteTypes ==
    ASSUME RouteInv
    PROVE  /\ live \in Lives /\ live.ride \in Nat /\ live.owner \in Nat /\ live.config \in Nat /\ live.version \in Numbers
           /\ matching \in Matches /\ matching.ride \in Nat /\ matching.version \in Numbers
           /\ matching.config \in Nat
           /\ \A r \in Replicas :
                 /\ queued[r] \in Demands /\ call[r] \in Calls /\ call[r].task \in Demands /\ known[r] \in Nat
                 /\ queued[r].ride \in Nat /\ queued[r].version \in Numbers /\ queued[r].config \in Nat
                 /\ call[r].task.ride \in Nat /\ call[r].task.version \in Numbers /\ call[r].task.config \in Nat
                 /\ call[r].version \in Numbers
           /\ \A v \in Versions : geometry[v] \in Paths
           /\ live.ride # 0
<1>1. live \in Lives /\ matching \in Matches /\ live.ride # 0
  BY DEF RouteInv, RouteTypeOK, LiveOwn
<1>2. /\ live.ride \in Nat /\ live.owner \in Nat /\ live.config \in Nat /\ live.version \in Numbers
  BY <1>1 DEF Lives
<1>3. matching.ride \in Nat /\ matching.version \in Numbers /\ matching.config \in Nat
  BY <1>1 DEF Matches
<1>4. ASSUME NEW r \in Replicas
      PROVE  /\ queued[r] \in Demands /\ call[r] \in Calls /\ known[r] \in Nat
             /\ call[r].task \in Demands /\ call[r].version \in Numbers
  BY DEF RouteInv, RouteTypeOK, Calls
<1>5. \A t \in Demands : t.ride \in Nat /\ t.version \in Numbers /\ t.config \in Nat
  BY DEF Demands
<1>6. \A v \in Versions : geometry[v] \in Paths
  BY DEF RouteInv, RouteTypeOK
<1> QED
  BY <1>1, <1>2, <1>3, <1>4, <1>5, <1>6

\* The values of a record's field, over the replicas.
LEMMA OneEach ==
    ASSUME NEW f, f \in [Replicas -> Numbers]
    PROVE  LET S == {f[r] : r \in Replicas} IN IsFiniteSet(S) /\ Cardinality(S) <= Cardinality(Replicas)
<1> DEFINE S == {f[r] : r \in Replicas}
<1>1. f \in Surjection(Replicas, S)
  BY DEF Surjection
<1>2. IsFiniteSet(S) /\ Cardinality(S) <= Cardinality(Replicas)
  BY <1>1, ReplicaAssumption, FS_Surjection
<1> QED
  BY <1>2

LEMMA UnionBound ==
    ASSUME NEW S, NEW T, IsFiniteSet(S), IsFiniteSet(T)
    PROVE  /\ IsFiniteSet(S \cup T) /\ Cardinality(S \cup T) <= Cardinality(S) + Cardinality(T)
           /\ Cardinality(S) \in Nat /\ Cardinality(T) \in Nat /\ Cardinality(S \cup T) \in Nat
<1>1. IsFiniteSet(S \cup T) /\ Cardinality(S \cup T) = Cardinality(S) + Cardinality(T) - Cardinality(S \cap T)
  BY FS_Union
<1>2. IsFiniteSet(S \cap T)
  BY FS_Intersection
<1>3. Cardinality(S) \in Nat /\ Cardinality(T) \in Nat /\ Cardinality(S \cap T) \in Nat
  BY <1>2, FS_CardinalityType
<1> QED
  BY <1>1, <1>3, FS_CardinalityType

\* There are more versions than anything refers to.
LEMMA FreshVersionExists ==
    ASSUME RouteInv PROVE FreshVersion \in Versions /\ FreshVersion \notin InUse
<1> DEFINE n == Cardinality(Replicas)
           F == [r \in Replicas |-> queued[r].version]
           G == [r \in Replicas |-> call[r].task.version]
           H == [r \in Replicas |-> call[r].version]
           A == {F[r] : r \in Replicas}
           B == {G[r] : r \in Replicas}
           C == {H[r] : r \in Replicas}
           D == {1, live.version, matching.version}
<1>1. F \in [Replicas -> Numbers] /\ G \in [Replicas -> Numbers] /\ H \in [Replicas -> Numbers]
  BY RouteTypes
<1>2. /\ IsFiniteSet(A) /\ Cardinality(A) <= n
      /\ IsFiniteSet(B) /\ Cardinality(B) <= n
      /\ IsFiniteSet(C) /\ Cardinality(C) <= n
  <2> HIDE DEF F, G, H
  <2> QED
    BY <1>1, OneEach
<1>3. IsFiniteSet(D) /\ Cardinality(D) <= 3
  <2> DEFINE u == live.version
             w == matching.version
  <2>1. IsFiniteSet({}) /\ Cardinality({}) = 0
    BY FS_EmptySet
  <2>2. IsFiniteSet({1}) /\ Cardinality({1}) = 1
    BY FS_Singleton
  <2>3. IsFiniteSet({u}) /\ Cardinality({u}) = 1 /\ IsFiniteSet({w}) /\ Cardinality({w}) = 1
    BY FS_Singleton
  <2> HIDE DEF u, w
  <2>4. IsFiniteSet({1} \cup {u}) /\ Cardinality({1} \cup {u}) <= 2 /\ Cardinality({1} \cup {u}) \in Nat
    BY <2>2, <2>3, UnionBound
  <2>5. IsFiniteSet(({1} \cup {u}) \cup {w}) /\ Cardinality(({1} \cup {u}) \cup {w}) <= 3
    BY <2>3, <2>4, UnionBound
  <2>6. ({1} \cup {u}) \cup {w} = {1, u, w}
    OBVIOUS
  <2> QED
    BY <2>5, <2>6 DEF u, w
<1>4. InUse \subseteq ((A \cup B) \cup C) \cup D
  <2>1. A = {queued[r].version : r \in Replicas} /\ B = {call[r].task.version : r \in Replicas}
        /\ C = {call[r].version : r \in Replicas}
    OBVIOUS
  <2>2. \A v \in Versions : geometry[v] # NoPath => v \in D \cup C
    BY <2>1 DEF RouteInv, PathsNamed
  <2> HIDE DEF A, B, C
  <2> QED
    BY <2>1, <2>2 DEF InUse
<1> HIDE DEF A, B, C, D
<1>5. IsFiniteSet(((A \cup B) \cup C) \cup D) /\ Cardinality(((A \cup B) \cup C) \cup D) <= 3 * n + 3
  <2>1. IsFiniteSet(A \cup B) /\ Cardinality(A \cup B) <= Cardinality(A) + Cardinality(B)
        /\ Cardinality(A) \in Nat /\ Cardinality(B) \in Nat /\ Cardinality(A \cup B) \in Nat
    BY <1>2, UnionBound
  <2>2. IsFiniteSet((A \cup B) \cup C) /\ Cardinality((A \cup B) \cup C) <= Cardinality(A \cup B) + Cardinality(C)
        /\ Cardinality(C) \in Nat /\ Cardinality((A \cup B) \cup C) \in Nat
    BY <1>2, <2>1, UnionBound
  <2>3. IsFiniteSet(((A \cup B) \cup C) \cup D) /\ Cardinality(D) \in Nat
        /\ Cardinality(((A \cup B) \cup C) \cup D) <= Cardinality((A \cup B) \cup C) + Cardinality(D)
        /\ Cardinality(((A \cup B) \cup C) \cup D) \in Nat
    BY <1>3, <2>2, UnionBound
  <2> QED
    BY <1>2, <1>3, <2>1, <2>2, <2>3, VersionFacts
<1>6. Versions \ InUse # {}
  <2> SUFFICES ASSUME Versions \subseteq InUse PROVE FALSE
    OBVIOUS
  <2>1. Versions \in SUBSET (((A \cup B) \cup C) \cup D)
    BY <1>4
  <2>2. Cardinality(Versions) <= Cardinality(((A \cup B) \cup C) \cup D)
    BY <1>5, <2>1, FS_Subset
  <2>3. Cardinality(Versions) = 3 * n + 4
    <3>1. 3 * n + 4 \in Int /\ 1 \in Int /\ (IF 1 > 3 * n + 4 THEN 0 ELSE 3 * n + 4 - 1 + 1) = 3 * n + 4
      BY VersionFacts
    <3> QED
      BY <3>1, VersionFacts, FS_Interval
  <2> QED
    BY <1>5, <2>2, <2>3, VersionFacts, FS_CardinalityType
<1> QED
  BY <1>6 DEF FreshVersion

\* The ride and its context stay, whatever else of the node is written.
ContextKept ==
    /\ live'.ride = live.ride /\ live'.version = live.version /\ live'.source = live.source
    /\ live'.owner = live.owner /\ live'.config = live.config

\* The requests there are.
Asked(t) == t = NoRequest \/ \E x \in Replicas : t = queued[x] \/ t = call[x].task

LEMMA ContextKeepsRequests ==
    ASSUME ContextKept, NEW t, OwnContext(t) PROVE (OwnContext(t))'
BY DEF ContextKept, OwnContext, SameContext

LEMMA NoRequestOwn == ASSUME RouteInv PROVE OwnContext(NoRequest)
BY RouteTypes, RouteConstants DEF OwnContext, SameContext

\* What a replica asked for, and what it was answered, goes on as it is or is
\* given up; new is what may have been asked for now.
LEMMA RequestStays ==
    ASSUME RouteInv, NEW x \in Replicas, NEW new,
           queued'[x] \in {queued[x], NoRequest, new}, (OwnContext(new))',
           call'[x].task \in {call[x].task, queued[x], NoRequest},
           \A t : Asked(t) /\ OwnContext(t) => (OwnContext(t))'
    PROVE  (OwnContext(queued[x]))' /\ (OwnContext(call[x].task))'
<1>1. OwnContext(queued[x]) /\ OwnContext(call[x].task) /\ OwnContext(NoRequest)
  BY NoRequestOwn DEF RouteInv
<1>2. Asked(queued[x]) /\ Asked(call[x].task) /\ Asked(NoRequest)
  BY DEF Asked
<1>3. \A t : t \in {queued[x], call[x].task, NoRequest, new} => (OwnContext(t))'
  BY <1>1, <1>2
<1>4. PICK a, b : a = queued'[x] /\ b = call'[x].task
  OBVIOUS
<1>5. (OwnContext(a))' /\ (OwnContext(b))'
  BY <1>3, <1>4
<1> QED
  BY <1>4, <1>5 DEF OwnContext, SameContext

LEMMA AnswerStays ==
    ASSUME RouteInv, NEW x \in Replicas,
           \/ call'[x].at # "publish" /\ call'[x].version = 0
           \/ /\ call'[x].at = call[x].at /\ call'[x].version = call[x].version /\ call'[x].task = call[x].task
              /\ call[x].late => call'[x].late
              /\ call[x].at = "publish" =>
                    /\ call[x].version \notin {live'.version, matching'.version}
                    /\ \A y \in Replicas :
                          /\ queued'[y].version \in {queued[y].version, 0, live'.version}
                          /\ call'[y].task.version \in {call[y].task.version, queued[y].version, 0}
                          /\ y # x => call'[y].version # call[x].version
                    /\ ~call'[x].late => geometry'[call[x].version] = geometry[call[x].version]
    PROVE  AnswerOwn(x)'
<1>1. AnswerOwn(x)
  BY DEF RouteInv
<1>2. CASE call'[x].at # "publish"
  BY <1>1, <1>2 DEF AnswerOwn
<1>3. CASE call'[x].at = "publish"
  BY <1>1, <1>3 DEF AnswerOwn
<1> QED
  BY <1>2, <1>3

LEMMA MatchStays == ASSUME RouteInv, UNCHANGED matching \/ matching' = NoMatch, ContextKept PROVE MatchOwn'
BY DEF RouteInv, MatchOwn, ContextKept

LEMMA LiveStays ==
    ASSUME RouteInv, ContextKept, paid' => live'.waits,
           live.source = "dynamic-reroute" => geometry'[live.version] = geometry[live.version]
    PROVE  LiveOwn'
BY DEF RouteInv, LiveOwn, ShownPathIsRides, ContextKept

\* A step that keeps the context and the paths: replicas take up, give up or end
\* requests, and matches begin and end.
LEMMA RouteGoesOn ==
    ASSUME RouteInv, ContextKept, live' \in Lives, paid' \in BOOLEAN, paid' => live'.waits,
           UNCHANGED geometry, config' \in Nat, known' \in [Replicas -> Nat],
           matching' \in Matches, matching'.version \in {0, live.version, matching.version}, MatchOwn',
           queued' \in [Replicas -> Demands], call' \in [Replicas -> Calls],
           \A x \in Replicas :
              /\ queued'[x] \in {queued[x], NoRequest}
              /\ \/ call'[x] = call[x]
                 \/ /\ call[x].at # "publish" /\ call'[x].at # "publish" /\ call'[x].version = 0
                    /\ call'[x].task \in {call[x].task, queued[x], NoRequest}
    PROVE  RouteInv'
<1>1. RouteTypeOK'
  BY DEF RouteInv, RouteTypeOK
<1>2. LiveOwn'
  BY LiveStays
<1>3. PathsNamed'
  BY DEF RouteInv, PathsNamed, ContextKept, AnswerOwn
<1>4. \A t : Asked(t) /\ OwnContext(t) => (OwnContext(t))'
  BY ContextKeepsRequests
<1>5. ASSUME NEW x \in Replicas
      PROVE  (OwnContext(queued[x]))' /\ (OwnContext(call[x].task))' /\ AnswerOwn(x)'
  <2>1. (OwnContext(NoRequest))'
    BY NoRequestOwn, ContextKeepsRequests
  <2>2. call'[x].task \in {call[x].task, queued[x], NoRequest} /\ queued'[x] \in {queued[x], NoRequest}
    OBVIOUS
  <2>3. (OwnContext(queued[x]))' /\ (OwnContext(call[x].task))'
    BY <1>4, <2>1, <2>2, RequestStays
  <2>4. AnswerOwn(x)'
    <3>1. CASE call'[x] # call[x]
      BY <3>1, AnswerStays
    <3>2. CASE call'[x] = call[x] /\ call[x].at # "publish"
      BY <3>2, AnswerStays DEF RouteInv, AnswerOwn
    <3>3. CASE call'[x] = call[x] /\ call[x].at = "publish"
      <4>1. call[x].version \notin {0, live.version, matching.version}
            /\ \A y \in Replicas : y # x => call[x].version # call[y].version
        BY <3>3 DEF RouteInv, AnswerOwn
      <4>2. call[x].version \notin {live'.version, matching'.version}
        BY <4>1 DEF ContextKept
      <4>3. ASSUME NEW y \in Replicas
            PROVE  /\ queued'[y].version \in {queued[y].version, 0, live'.version}
                   /\ call'[y].task.version \in {call[y].task.version, queued[y].version, 0}
                   /\ y # x => call'[y].version # call[x].version
        BY <4>1, RouteConstants
      <4> QED
        BY <3>3, <4>2, <4>3, AnswerStays
    <3> QED
      BY <3>1, <3>2, <3>3
  <2> QED
    BY <2>3, <2>4
<1> QED
  BY <1>1, <1>2, <1>3, <1>5 DEF RouteInv

LEMMA FixKeeps == ASSUME RouteInv, NEW r \in Replicas, Fix(r) PROVE RouteInv'
<1> DEFINE changed == live.owner # live.ride \/ live.config # known[r]
           m == [by |-> r, ride |-> live.ride, config |-> known[r],
                 version |-> live.version, source |-> live.source, previous |-> PreviousState,
                 changed |-> changed, reuse |-> ~changed /\ Reusable(live)]
<1>1. matching' = m /\ UNCHANGED <<live, queued, call, known, config, geometry, paid>>
  BY DEF Fix
<1>2. PreviousState \in Adherences
  BY RouteTypes DEF PreviousState, Lives, Adherences
<1>3. m \in Matches
  BY <1>2, RouteTypes DEF Matches, Lives
<1>4. m.by = r /\ m.ride = live.ride /\ m.version = live.version /\ m.source = live.source /\ m.config = known[r]
      /\ (~m.changed => live.owner = live.ride /\ live.config = known[r])
  OBVIOUS
<1> HIDE DEF m
<1>5. MatchOwn'
  <2>1. live.version = 0 => live.owner # live.ride
    BY DEF RouteInv, LiveOwn
  <2> QED
    BY <1>1, <1>4, <2>1, RouteTypes DEF MatchOwn
<1> QED
  BY <1>1, <1>3, <1>4, <1>5, RouteGoesOn DEF RouteInv, RouteTypeOK, LiveOwn, ContextKept

LEMMA OutdatedKeeps == ASSUME RouteInv, Outdated PROVE RouteInv'
<1>1. ContextKept /\ matching' = NoMatch /\ UNCHANGED <<live, queued, call, known, config, geometry, paid>>
  BY DEF Outdated, ContextKept
<1> QED
  BY <1>1, RouteGoesOn, MatchStays, RouteConstants DEF RouteInv, RouteTypeOK, LiveOwn

LEMMA ClaimsFacts ==
    ASSUME RouteInv, NEW r \in Replicas
    PROVE  /\ ClaimsReroute(r) \in Lives /\ ClaimsDeparture(r) \in Lives
           /\ \A l \in {ClaimsReroute(r), ClaimsDeparture(r)} :
                 /\ l.ride = live.ride /\ l.version = live.version /\ l.source = live.source
                 /\ l.owner = live.owner /\ l.config = live.config
           /\ ClaimsReroute(r).waits /\ ClaimsReroute(r).request = r
           /\ ClaimsDeparture(r).waits = live.waits /\ ClaimsDeparture(r).request = live.request
<1>1. live.departure \in Departures /\ live.departure.tries \in Nat
  BY RouteTypes DEF Lives, Departures
<1> DEFINE tries == IF live.departure.phase = Phase(live) THEN live.departure.tries ELSE 0
           d == [state |-> "pending", phase |-> Phase(live), by |-> r, tries |-> tries + 1, waits |-> TRUE]
<1>2. tries + 1 \in Nat
  BY <1>1
<1>3. d \in Departures
  BY <1>2 DEF Departures, Phase, Phases
<1>4. ClaimsDeparture(r) = [live EXCEPT !.departure = d]
  BY DEF ClaimsDeparture
<1> HIDE DEF d
<1>5. /\ ClaimsDeparture(r) \in Lives
      /\ ClaimsDeparture(r).ride = live.ride /\ ClaimsDeparture(r).version = live.version
      /\ ClaimsDeparture(r).source = live.source
      /\ ClaimsDeparture(r).owner = live.owner /\ ClaimsDeparture(r).config = live.config
      /\ ClaimsDeparture(r).waits = live.waits /\ ClaimsDeparture(r).request = live.request
  BY <1>3, <1>4, RouteTypes DEF Lives
<1>6. /\ ClaimsReroute(r) \in Lives
      /\ ClaimsReroute(r).ride = live.ride /\ ClaimsReroute(r).version = live.version
      /\ ClaimsReroute(r).source = live.source
      /\ ClaimsReroute(r).owner = live.owner /\ ClaimsReroute(r).config = live.config
      /\ ClaimsReroute(r).waits /\ ClaimsReroute(r).request = r
  BY RouteTypes DEF ClaimsReroute, Lives, Adherences
<1> QED
  BY <1>5, <1>6

LEMMA ClaimKeeps == ASSUME RouteInv, NEW r \in Replicas, Claim(r) PROVE RouteInv'
<1>1. /\ queued' = [queued EXCEPT ![r] = NoRequest] /\ UNCHANGED <<matching, known, config, geometry>>
      /\ call[r].at = "idle"
  BY DEF Claim
<1>2. ContextKept /\ live' \in Lives /\ (paid' => live'.waits) /\ paid' \in BOOLEAN
  <2>1. paid \in BOOLEAN /\ (paid => live.waits)
    BY DEF RouteInv, RouteTypeOK, LiveOwn
  <2>2. CASE live' = ClaimsReroute(r) /\ paid' = (paid \/ queued[r].kind = "reroute")
    <3>1. paid' \in BOOLEAN
      BY <2>2
    <3> QED
      BY <2>2, <3>1, ClaimsFacts DEF ContextKept
  <2>3. CASE live' = ClaimsDeparture(r) /\ paid' = paid
    BY <2>1, <2>3, ClaimsFacts DEF ContextKept
  <2>4. CASE UNCHANGED <<live, paid>>
    BY <2>1, <2>4, RouteTypes DEF ContextKept
  <2>5. queued[r].kind # "reroute" => (paid \/ queued[r].kind = "reroute") = paid
    BY <2>1
  <2> QED
    BY <2>2, <2>3, <2>4, <2>5 DEF Claim
<1>3. \/ UNCHANGED call
      \/ \E c \in Calls : /\ call' = [call EXCEPT ![r] = c] /\ c.at = "provider" /\ c.version = 0
                          /\ c.task = queued[r]
  <2>1. PICK phase, c : phase = Phase(live) /\ c = [NoCall EXCEPT !.at = "provider", !.task = queued[r], !.phase = phase]
    OBVIOUS
  <2>2. c \in Calls /\ c.at = "provider" /\ c.version = 0 /\ c.task = queued[r]
    BY <2>1, RouteTypes, VersionFacts DEF NoCall, Calls, Phase, Phases, Numbers
  <2>3. UNCHANGED call \/ call' = [call EXCEPT ![r] = c]
    BY <2>1 DEF Claim, Fetches
  <2> QED
    BY <2>2, <2>3
<1>4. queued' \in [Replicas -> Demands] /\ call' \in [Replicas -> Calls] /\ matching' \in Matches /\ matching'.version = matching.version
  BY <1>1, <1>3, RouteConstants, RouteTypes DEF RouteInv, RouteTypeOK
<1>5. \A x \in Replicas :
         /\ queued'[x] \in {queued[x], NoRequest}
         /\ \/ call'[x] = call[x]
            \/ /\ call[x].at # "publish" /\ call'[x].at # "publish" /\ call'[x].version = 0
               /\ call'[x].task \in {call[x].task, queued[x], NoRequest}
  BY <1>1, <1>3 DEF RouteInv, RouteTypeOK
<1>6. MatchOwn'
  BY <1>1, <1>2, MatchStays
<1> QED
  BY <1>1, <1>2, <1>4, <1>5, <1>6, RouteGoesOn DEF RouteInv, RouteTypeOK

LEMMA ReleaseKeeps == ASSUME RouteInv, NEW r \in Replicas, Release(r) PROVE RouteInv'
<1>1. /\ call' = [call EXCEPT ![r] = NoCall] /\ call[r].at = "release"
      /\ UNCHANGED <<matching, queued, known, config, geometry, paid>>
  BY DEF Release, Released
<1>2. ContextKept /\ live' \in Lives /\ (live.waits => live'.waits)
  <2>1. CASE live' = live
    BY <2>1, RouteTypes DEF ContextKept
  <2>2. CASE live' = [live EXCEPT !.departure.state = "failed", !.departure.by = Nothing, !.departure.waits = TRUE]
    <3>1. live.departure \in Departures
      BY RouteTypes DEF Lives
    <3> QED
      BY <2>2, <3>1, RouteTypes DEF ContextKept, Lives, Departures
  <2>3. CASE live' = [live EXCEPT !.state = "OFF_ROUTE", !.request = Nothing, !.aged = FALSE, !.waits = TRUE]
    BY <2>3, RouteTypes DEF ContextKept, Lives, Adherences
  <2> QED
    BY <2>1, <2>2, <2>3 DEF Release
<1>3. call' \in [Replicas -> Calls] /\ \A x \in Replicas : call'[x] = call[x] \/ (x = r /\ call'[x] = NoCall)
  BY <1>1, RouteConstants DEF RouteInv, RouteTypeOK
<1>4. MatchOwn'
  BY <1>1, <1>2, MatchStays
<1>5. paid' \in BOOLEAN /\ (paid' => live'.waits)
  BY <1>1, <1>2 DEF RouteInv, RouteTypeOK, LiveOwn
<1>6. \A x \in Replicas :
         \/ call'[x] = call[x]
         \/ /\ call[x].at # "publish" /\ call'[x].at # "publish" /\ call'[x].version = 0
            /\ call'[x].task \in {call[x].task, queued[x], NoRequest}
  BY <1>1, <1>3, RouteConstants
<1> QED
  BY <1>1, <1>2, <1>3, <1>4, <1>5, <1>6, RouteGoesOn DEF RouteInv, RouteTypeOK

LEMMA ElapseKeeps == ASSUME RouteInv, Elapse PROVE RouteInv'
<1>1. UNCHANGED <<matching, queued, call, known, config, geometry>>
  BY DEF Elapse
<1>2. ContextKept /\ live' \in Lives /\ paid' \in BOOLEAN /\ (paid' => live'.waits)
  <2>1. paid \in BOOLEAN /\ (paid => live.waits) /\ live.departure \in Departures
    BY RouteTypes DEF RouteInv, RouteTypeOK, LiveOwn, Lives
  <2>2. CASE live' = [live EXCEPT !.aged = TRUE] /\ UNCHANGED paid
    BY <2>1, <2>2, RouteTypes DEF ContextKept, Lives
  <2>3. CASE live' = [live EXCEPT !.waits = FALSE] /\ paid' = FALSE
    BY <2>3, RouteTypes DEF ContextKept, Lives
  <2>4. CASE live' = [live EXCEPT !.departure.waits = FALSE] /\ UNCHANGED paid
    <3>1. ContextKept /\ live'.waits = live.waits
      BY <2>4, RouteTypes DEF ContextKept, Lives
    <3>2. live' \in Lives
      BY <2>1, <2>4, RouteTypes DEF Lives, Departures
    <3> QED
      BY <2>1, <2>4, <3>1, <3>2
  <2> QED
    BY <2>2, <2>3, <2>4 DEF Elapse
<1>3. MatchOwn'
  BY <1>1, <1>2, MatchStays
<1> QED
  BY <1>1, <1>2, <1>3, RouteGoesOn DEF RouteInv, RouteTypeOK

LEMMA LearnKeeps ==
    ASSUME RouteInv, Edit \/ \E r \in Replicas : Learn(r) PROVE RouteInv'
<1>1. UNCHANGED <<live, matching, queued, call, geometry, paid>>
  BY DEF Edit, Learn
<1>2. config' \in Nat /\ known' \in [Replicas -> Nat]
  BY DEF Edit, Learn, RouteInv, RouteTypeOK
<1>3. MatchOwn' /\ ContextKept
  BY <1>1, MatchStays DEF ContextKept
<1> QED
  BY <1>1, <1>2, <1>3, RouteGoesOn DEF RouteInv, RouteTypeOK, LiveOwn

LEMMA AnswerKeeps == ASSUME RouteInv, NEW r \in Replicas, Answer(r) PROVE RouteInv'
<1>1. call[r].at = "provider" /\ UNCHANGED <<live, matching, queued, known, config, paid>> /\ ContextKept
  BY DEF Answer, ContextKept
<1>2. CASE call' = [call EXCEPT ![r].at = "release"] /\ UNCHANGED geometry
  <2>1. call' \in [Replicas -> Calls]
    BY <1>2, RouteTypes DEF RouteInv, RouteTypeOK, Calls
  <2>2. call[r].version = 0
    BY <1>1 DEF RouteInv, AnswerOwn
  <2>3. call'[r].at = "release" /\ call'[r].task = call[r].task /\ call'[r].version = 0
        /\ \A x \in Replicas \ {r} : call'[x] = call[x]
    BY <1>2, <2>2, RouteTypes DEF RouteInv, RouteTypeOK, Calls
  <2>4. \A x \in Replicas :
         \/ call'[x] = call[x]
         \/ /\ call[x].at # "publish" /\ call'[x].at # "publish" /\ call'[x].version = 0
            /\ call'[x].task \in {call[x].task, queued[x], NoRequest}
    BY <1>1, <2>3
  <2> QED
    BY <1>1, <1>2, <2>1, <2>4, MatchStays, RouteGoesOn DEF RouteInv, RouteTypeOK, LiveOwn
<1>3. CASE /\ geometry' = [geometry EXCEPT ![FreshVersion] =
                             [ride |-> call[r].task.ride, config |-> call[r].task.config, found |-> FALSE]]
           /\ call' = [call EXCEPT ![r].at = "publish", ![r].version = FreshVersion]
  <2>1. PICK v, p : v = FreshVersion /\ p = [ride |-> call[r].task.ride, config |-> call[r].task.config, found |-> FALSE]
    OBVIOUS
  <2>2. v \in Versions /\ v \notin InUse /\ p \in Paths
    BY <2>1, FreshVersionExists, RouteTypes DEF Paths
  <2>3. geometry' = [geometry EXCEPT ![v] = p] /\ geometry' \in [Versions -> Paths]
    BY <1>3, <2>1, <2>2 DEF RouteInv, RouteTypeOK
  <2>4. /\ call'[r] \in Calls /\ call'[r].at = "publish" /\ call'[r].version = v /\ call'[r].task = call[r].task
        /\ \A x \in Replicas \ {r} : call'[x] = call[x]
    BY <1>3, <2>1, <2>2, RouteTypes DEF RouteInv, RouteTypeOK, Calls, Numbers
  <2>5. call' \in [Replicas -> Calls]
    <3>1. DOMAIN call' = Replicas /\ call' = [x \in Replicas |-> call'[x]]
      BY <1>3 DEF RouteInv, RouteTypeOK
    <3>2. \A x \in Replicas : call'[x] \in Calls
      BY <2>4, RouteTypes
    <3> QED
      BY <3>1, <3>2
  <2>6. v \notin {0, 1, live.version, matching.version} /\ geometry[v] = NoPath
        /\ \A x \in Replicas : v # queued[x].version /\ v # call[x].task.version /\ v # call[x].version
    BY <2>2, VersionFacts DEF InUse
  <2>7. RouteTypeOK'
    BY <1>1, <2>3, <2>5 DEF RouteInv, RouteTypeOK
  <2>8. LiveOwn' /\ MatchOwn'
    BY <1>1, <2>3, <2>6, LiveStays, MatchStays DEF RouteInv, LiveOwn, RouteTypeOK
  <2>9. PathsNamed'
    <3> SUFFICES ASSUME NEW w \in Versions, geometry'[w] # NoPath
                 PROVE  w = live'.version \/ \E x \in Replicas : call'[x].version = w
      BY DEF PathsNamed
    <3>1. CASE w = v
      BY <2>4, <3>1
    <3>2. CASE w # v
      <4>1. geometry'[w] = geometry[w]
        BY <2>3, <3>2 DEF RouteInv, RouteTypeOK
      <4>2. w = live.version \/ \E x \in Replicas : call[x].version = w
        BY <4>1 DEF RouteInv, PathsNamed
      <4>3. call[r].version = 0 /\ w # 0
        BY <1>1, VersionFacts DEF RouteInv, AnswerOwn
      <4> QED
        BY <1>1, <2>4, <4>2, <4>3
    <3> QED
      BY <3>1, <3>2
  <2>10. ASSUME NEW x \in Replicas
         PROVE  (OwnContext(queued[x]))' /\ (OwnContext(call[x].task))' /\ AnswerOwn(x)'
    <3>1. call'[x].task = call[x].task /\ queued'[x] = queued[x]
      BY <1>1, <2>4
    <3>2. (OwnContext(queued[x]))' /\ (OwnContext(call[x].task))'
      BY <1>1, <3>1 DEF RouteInv, OwnContext, SameContext
    <3>3. CASE x = r
      <4>1. call'[x].at = "publish" /\ call'[x].version = v /\ call'[x].task = call[x].task /\ p = geometry'[v]
        BY <2>2, <2>3, <2>4, <3>3 DEF RouteInv, RouteTypeOK
      <4>2. p.ride = call[x].task.ride /\ p.config = call[x].task.config /\ ~p.found
        BY <2>1, <3>3
      <4>3. \A y \in Replicas : /\ v # queued'[y].version /\ v # call'[y].task.version
                                /\ y # x => v # call'[y].version
        BY <1>1, <2>4, <2>6, <3>3
      <4>4. /\ call'[x].version \notin {0, 1, live'.version, matching'.version}
            /\ \A y \in Replicas :
                  /\ call'[x].version # queued'[y].version /\ call'[x].version # call'[y].task.version
                  /\ y # x => call'[x].version # call'[y].version
        BY <1>1, <2>6, <4>1, <4>3
      <4>5. /\ geometry'[call'[x].version].ride = call'[x].task.ride
            /\ geometry'[call'[x].version].config = call'[x].task.config
            /\ ~geometry'[call'[x].version].found
        BY <4>1, <4>2
      <4> QED
        BY <3>2, <4>1, <4>4, <4>5 DEF AnswerOwn
    <3>4. CASE x # r
      <4>1. call'[x] = call[x]
        BY <2>4, <3>4
      <4>2. CASE call[x].at # "publish"
        <5>1. call[x].version = 0
          BY <4>2 DEF RouteInv, AnswerOwn
        <5>2. call'[x].at # "publish" /\ call'[x].version = 0
          BY <4>1, <4>2, <5>1
        <5> QED
          BY <3>2, <5>2, AnswerStays
      <4>3. CASE call[x].at = "publish"
        <5>1. \A y \in Replicas : y # x => call'[y].version # call[x].version
          BY <2>4, <2>6, <4>3 DEF RouteInv, AnswerOwn
        <5>2. \A y \in Replicas : call'[y].task = call[y].task
          BY <2>4
        <5>3. geometry'[call[x].version] = geometry[call[x].version]
          BY <2>3, <2>6 DEF RouteInv, RouteTypeOK
        <5>4. call[x].version \notin {live'.version, matching'.version}
          BY <1>1, <4>3 DEF RouteInv, AnswerOwn
        <5>5. \A y \in Replicas :
                 /\ queued'[y].version \in {queued[y].version, 0, live'.version}
                 /\ call'[y].task.version \in {call[y].task.version, queued[y].version, 0}
                 /\ y # x => call'[y].version # call[x].version
          BY <1>1, <5>1, <5>2
        <5> QED
          BY <3>2, <4>1, <5>3, <5>4, <5>5, AnswerStays
      <4> QED
        BY <4>2, <4>3
    <3> QED
      BY <3>2, <3>3, <3>4
  <2> QED
    BY <2>7, <2>8, <2>9, <2>10 DEF RouteInv
<1> QED
  BY <1>2, <1>3 DEF Answer

LEMMA ForgetFacts ==
    ASSUME RouteInv, ForgetPaths
    PROVE  /\ geometry' \in [Versions -> Paths] /\ PathsNamed'
           /\ \A v \in Versions : v = live'.version \/ (\E r \in Replicas : call'[r].version = v)
                => geometry'[v] = geometry[v]
BY RouteTypes, RouteConstants DEF ForgetPaths, PathsNamed

\* A step after which the node may have another context or path; new is what is
\* asked for now.
LEMMA RouteTurns ==
    ASSUME RouteInv, ForgetPaths, live' \in Lives, LiveOwn', matching' \in Matches, MatchOwn',
           matching'.version \in {0, matching.version},
           queued' \in [Replicas -> Demands], call' \in [Replicas -> Calls], UNCHANGED <<known, config>>,
           paid' \in BOOLEAN,
           NEW new, (OwnContext(new))', new.version \in {0, live'.version},
           \A t : Asked(t) /\ OwnContext(t) => (OwnContext(t))',
           \A x \in Replicas :
              /\ queued'[x] \in {queued[x], NoRequest, new}
              /\ \/ call'[x] = call[x]
                 \/ call'[x].at # "publish" /\ call'[x].version = 0 /\ call'[x].task \in {call[x].task, NoRequest}
              /\ call'[x].at = "publish" => call[x].version # live'.version
    PROVE  RouteInv'
<1>1. RouteTypeOK' /\ PathsNamed'
  BY ForgetFacts DEF RouteInv, RouteTypeOK
<1>2. ASSUME NEW x \in Replicas
      PROVE  (OwnContext(queued[x]))' /\ (OwnContext(call[x].task))' /\ AnswerOwn(x)'
  <2>1. (OwnContext(queued[x]))' /\ (OwnContext(call[x].task))'
    <3>1. call'[x].task \in {call[x].task, queued[x], NoRequest} /\ queued'[x] \in {queued[x], NoRequest, new}
      BY RouteConstants
    <3> QED
      BY <3>1, RequestStays
  <2>2. CASE call'[x].at # "publish" /\ call'[x].version = 0
    BY <2>1, <2>2, AnswerStays
  <2>3. CASE call'[x] = call[x]
    <3>1. CASE call[x].at # "publish"
      <4>1. call'[x].at # "publish" /\ call'[x].version = 0
        BY <2>3, <3>1 DEF RouteInv, AnswerOwn
      <4> QED
        BY <2>1, <4>1, AnswerStays
    <3>2. CASE call[x].at = "publish"
      <4>1. call[x].version \notin {0, live.version, matching.version}
            /\ \A y \in Replicas : y # x => call[x].version # call[y].version
        BY <3>2 DEF RouteInv, AnswerOwn
      <4>2. call[x].version \notin {live'.version, matching'.version}
        BY <2>3, <3>2, <4>1
      <4>3. ASSUME NEW y \in Replicas
            PROVE  /\ queued'[y].version \in {queued[y].version, 0, live'.version}
                   /\ call'[y].task.version \in {call[y].task.version, queued[y].version, 0}
                   /\ y # x => call'[y].version # call[x].version
        BY <4>1, RouteConstants
      <4>4. geometry'[call[x].version] = geometry[call[x].version]
        <5>1. call[x].version \in Versions
          BY <4>1, RouteTypes DEF Numbers
        <5> QED
          BY <2>3, <5>1, ForgetFacts
      <4> QED
        BY <2>1, <2>3, <3>2, <4>2, <4>3, <4>4, AnswerStays
    <3> QED
      BY <3>1, <3>2
  <2> QED
    BY <2>2, <2>3
<1> QED
  BY <1>1, <1>2 DEF RouteInv

\* The path that the node points to stays while it does.
LEMMA KeptPath ==
    ASSUME RouteInv, ForgetPaths, live'.version = live.version, live.source = "dynamic-reroute"
    PROVE  geometry'[live.version] = geometry[live.version]
<1>1. live.version \in Versions
  BY RouteTypes DEF RouteInv, LiveOwn, Numbers
<1> QED
  BY <1>1, ForgetFacts

LEMMA RideKeeps == ASSUME RouteInv, Ride PROVE RouteInv'
<1>1. UNCHANGED <<matching, queued, call, known, config>> /\ ForgetPaths
  BY DEF Ride
<1>2. /\ matching' \in Matches /\ queued' \in [Replicas -> Demands] /\ call' \in [Replicas -> Calls]
      /\ paid \in BOOLEAN
  BY <1>1 DEF RouteInv, RouteTypeOK
<1>3. CASE live' \in {[live EXCEPT !.trip = "in_service"], [live EXCEPT !.trip = "completed"]} /\ UNCHANGED paid
  <2>1. ContextKept /\ live' \in Lives /\ live'.waits = live.waits
    BY <1>3, RouteTypes DEF ContextKept, Lives, Trips
  <2>2. LiveOwn' /\ MatchOwn'
    <3>1. live.source = "dynamic-reroute" => geometry'[live.version] = geometry[live.version]
      BY <1>1, <2>1, KeptPath DEF ContextKept
    <3>2. paid' => live'.waits
      BY <1>3, <2>1 DEF RouteInv, LiveOwn
    <3> QED
      BY <1>1, <2>1, <3>1, <3>2, LiveStays, MatchStays
  <2>3. \A t : Asked(t) /\ OwnContext(t) => (OwnContext(t))'
    BY <2>1, ContextKeepsRequests
  <2>4. (OwnContext(NoRequest))' /\ NoRequest.version = 0
    BY <2>1, NoRequestOwn, ContextKeepsRequests, RouteConstants
  <2>5. \A x \in Replicas : call'[x].at = "publish" => call[x].version # live'.version
    BY <1>1, <2>1 DEF RouteInv, AnswerOwn, ContextKept
  <2> QED
    BY <1>1, <1>2, <1>3, <2>1, <2>2, <2>3, <2>4, <2>5, RouteTurns
<1>4. CASE live' = NewLive(live.ride + 1) /\ paid' = FALSE
  <2>1. live.ride + 1 \in Nat
    BY RouteTypes
  <2>2. live' \in Lives /\ live'.ride = live.ride + 1 /\ live'.version = 0 /\ live'.owner = 0
        /\ live'.source # "dynamic-reroute"
    BY <1>4, <2>1, NewLiveFacts
  <2>3. LiveOwn'
    BY <1>4, <2>2, RouteTypes DEF LiveOwn, ShownPathIsRides
  <2>4. MatchOwn'
    BY <1>1, <2>2, RouteTypes DEF RouteInv, MatchOwn
  <2>5. ASSUME NEW t, Asked(t), OwnContext(t) PROVE (OwnContext(t))'
    <3>1. t.ride \in Nat
      BY <2>5, RouteTypes, RouteConstants DEF Asked
    <3> QED
      BY <2>2, <2>5, <3>1, RouteTypes DEF OwnContext, SameContext
  <2>6. (OwnContext(NoRequest))' /\ NoRequest.version = 0
    BY <2>5, NoRequestOwn, RouteConstants DEF Asked
  <2>7. \A x \in Replicas : call'[x].at = "publish" => call[x].version # live'.version
    BY <1>1, <2>2 DEF RouteInv, AnswerOwn
  <2> QED
    BY <1>1, <1>2, <1>4, <2>2, <2>3, <2>4, <2>5, <2>6, <2>7, RouteTurns
<1> QED
  BY <1>3, <1>4 DEF Ride

LEMMA PublishKeeps == ASSUME RouteInv, NEW r \in Replicas, PublishPath(r) PROVE RouteInv'
<1>1. UNCHANGED <<matching, queued, known, config>> /\ ForgetPaths /\ call[r].at = "publish"
  BY DEF PublishPath
<1>2. /\ matching' \in Matches /\ queued' \in [Replicas -> Demands] /\ paid \in BOOLEAN
  BY <1>1 DEF RouteInv, RouteTypeOK
<1>3. PICK v : v = call[r].version
  OBVIOUS
<1>4. v \in Versions /\ v # 0
  BY <1>1, <1>3, RouteTypes DEF RouteInv, AnswerOwn, Numbers
<1>5. CASE /\ RequestCurrent(r) /\ PublicationFresh(r)
           /\ live' = Shown(r) /\ paid' = FALSE
           /\ Released(r)
  <2>1. call' = [call EXCEPT ![r] = NoCall] /\ call' \in [Replicas -> Calls]
    BY <1>5, RouteConstants DEF Released, RouteInv, RouteTypeOK
  <2>2. PICK d \in Departures : live' = [live EXCEPT !.version = v, !.source = "dynamic-reroute", !.state = "ON_NEW_ROUTE",
                 !.request = Nothing, !.aged = FALSE, !.waits = FALSE, !.departure = d]
    <3>1. live.departure \in Departures /\ call[r].phase \in Phases
      BY RouteTypes DEF Lives, Calls
    <3>2. PICK d : d = IF call[r].task.kind = "departure" THEN Preview(call[r].phase) ELSE live.departure
      OBVIOUS
    <3>3. d \in Departures
      BY <3>1, <3>2, RouteConstants
    <3> QED
      BY <1>3, <1>5, <3>2, <3>3 DEF Shown
  <2>3. /\ live' \in Lives /\ live'.ride = live.ride /\ live'.version = v /\ live'.source = "dynamic-reroute"
        /\ live'.owner = live.owner /\ live'.config = live.config
    BY <1>4, <2>2, RouteTypes DEF Lives, Numbers, Sources, Adherences
  <2>4. /\ call[r].task.ride = live.ride /\ live.owner = live.ride /\ live.config = call[r].task.config
        /\ live.version # 0
    BY <1>5, RouteTypes DEF RequestCurrent, SameContext, RouteInv, OwnContext
  <2>5. /\ geometry[v].ride = call[r].task.ride /\ geometry[v].config = call[r].task.config /\ ~geometry[v].found
    BY <1>1, <1>3, <1>5 DEF RouteInv, AnswerOwn, PublicationFresh
  <2>6. geometry'[v] = geometry[v]
    BY <1>1, <1>4, <2>3, ForgetFacts
  <2>7. LiveOwn'
    BY <1>4, <1>5, <2>3, <2>4, <2>5, <2>6, RouteTypes DEF LiveOwn, ShownPathIsRides
  <2>8. MatchOwn'
    <3>1. matching.version # v
      BY <1>1, <1>3 DEF RouteInv, AnswerOwn
    <3> QED
      BY <1>1, <1>4, <2>3, <3>1 DEF RouteInv, MatchOwn
  <2>9. ASSUME NEW t, Asked(t), OwnContext(t) PROVE (OwnContext(t))'
    <3>1. t.version # v
      BY <1>1, <1>3, <1>4, <2>9, RouteConstants DEF RouteInv, AnswerOwn, Asked
    <3> QED
      BY <1>4, <2>3, <2>9, <3>1 DEF OwnContext, SameContext
  <2>10. (OwnContext(NoRequest))' /\ NoRequest.version = 0
    BY <2>9, NoRequestOwn, RouteConstants DEF Asked
  <2>11. ASSUME NEW x \in Replicas
         PROVE  /\ \/ call'[x] = call[x]
                   \/ call'[x].at # "publish" /\ call'[x].version = 0 /\ call'[x].task \in {call[x].task, NoRequest}
                /\ call'[x].at = "publish" => call[x].version # live'.version
    <3>1. CASE x = r
      BY <2>1, <3>1, RouteConstants DEF RouteInv, RouteTypeOK
    <3>2. CASE x # r
      BY <1>1, <1>3, <2>1, <2>3, <3>2 DEF RouteInv, RouteTypeOK, AnswerOwn
    <3> QED
      BY <3>1, <3>2
  <2> QED
    BY <1>1, <1>2, <1>5, <2>1, <2>3, <2>7, <2>8, <2>9, <2>10, <2>11, RouteTurns
<1>6. CASE call' = [call EXCEPT ![r].at = "release", ![r].version = 0] /\ UNCHANGED <<live, paid>>
  <2>1. /\ call'[r] \in Calls /\ call'[r].at = "release" /\ call'[r].version = 0 /\ call'[r].task = call[r].task
        /\ \A x \in Replicas \ {r} : call'[x] = call[x]
    BY <1>6, RouteTypes DEF RouteInv, RouteTypeOK, Calls, Numbers
  <2>2. call' \in [Replicas -> Calls]
    <3>1. DOMAIN call' = Replicas /\ call' = [x \in Replicas |-> call'[x]]
      BY <1>6 DEF RouteInv, RouteTypeOK
    <3>2. \A x \in Replicas : call'[x] \in Calls
      BY <2>1, RouteTypes
    <3> QED
      BY <3>1, <3>2
  <2>3. ContextKept /\ live' \in Lives
    BY <1>6, RouteTypes DEF ContextKept
  <2>4. LiveOwn' /\ MatchOwn'
    <3>1. live.source = "dynamic-reroute" => geometry'[live.version] = geometry[live.version]
      BY <1>1, <2>3, KeptPath DEF ContextKept
    <3>2. paid' => live'.waits
      BY <1>6 DEF RouteInv, LiveOwn
    <3> QED
      BY <1>1, <2>3, <3>1, <3>2, LiveStays, MatchStays
  <2>5. \A t : Asked(t) /\ OwnContext(t) => (OwnContext(t))'
    BY <2>3, ContextKeepsRequests
  <2>6. (OwnContext(NoRequest))' /\ NoRequest.version = 0
    BY <2>3, NoRequestOwn, ContextKeepsRequests, RouteConstants
  <2>7. ASSUME NEW x \in Replicas
         PROVE  /\ \/ call'[x] = call[x]
                   \/ call'[x].at # "publish" /\ call'[x].version = 0 /\ call'[x].task \in {call[x].task, NoRequest}
                /\ call'[x].at = "publish" => call[x].version # live'.version
    <3>1. CASE x = r
      BY <2>1, <3>1
    <3>2. CASE x # r
      BY <2>1, <2>3, <3>2 DEF RouteInv, AnswerOwn, ContextKept
    <3> QED
      BY <3>1, <3>2
  <2> QED
    BY <1>1, <1>2, <1>6, <2>2, <2>3, <2>4, <2>5, <2>6, <2>7, RouteTurns
<1> QED
  BY <1>1, <1>5, <1>6 DEF PublishPath

\* What a match writes: of the path it was matched to, or of the configured one
\* under the version v.
LEMMA MatchedFacts ==
    ASSUME RouteInv, matching # NoMatch, NEW reset \in BOOLEAN, NEW state \in Adherences,
           NEW v \in Numbers, v = IF ~reset THEN live.version ELSE IF matching.version = 0 THEN 1 ELSE FreshVersion,
           NEW l, l = Matched(matching, reset, state)
    PROVE  /\ l \in Lives /\ l.ride = live.ride /\ l.version = v
           /\ l.source = IF reset THEN "configured" ELSE matching.source
           /\ l.owner = matching.ride /\ l.config = matching.config
           /\ l.waits = (live.waits /\ ~Settles(reset, state))
           /\ l.request \in {live.request, Nothing}
<1>1. PICK q, a, w, d :
          /\ q = IF state = "REROUTING" THEN live.request ELSE Nothing
          /\ a = (live.aged /\ state = "REROUTING")
          /\ w = (live.waits /\ ~Settles(reset, state))
          /\ d = IF reset THEN NoDeparture ELSE IF matching.reuse THEN Preview("departure") ELSE live.departure
  OBVIOUS
<1>2. q \in Replicas \cup {Nothing} /\ q \in {live.request, Nothing} /\ d \in Departures
  BY <1>1, RouteTypes, RouteConstants DEF Lives, Phases
<1>3. a \in BOOLEAN /\ w \in BOOLEAN
  BY <1>1
<1>4. PICK s : s = IF reset THEN "configured" ELSE matching.source
  OBVIOUS
<1>5. s \in Sources
  BY <1>4, RouteTypes DEF Matches, Sources
<1>6. l = [live EXCEPT !.version = v, !.source = s, !.owner = matching.ride, !.config = matching.config,
                       !.state = state, !.request = q, !.aged = a, !.waits = w, !.departure = d]
  BY <1>1, <1>4 DEF Matched
<1>7. l \in Lives /\ l.ride = live.ride /\ l.version = v /\ l.source = s /\ l.owner = matching.ride
      /\ l.config = matching.config /\ l.waits = w /\ l.request = q
  BY <1>2, <1>3, <1>5, <1>6, RouteTypes, ZenonT(60) DEF Lives
<1> QED
  BY <1>1, <1>2, <1>4, <1>7

LEMMA CommitKeeps == ASSUME RouteInv, Commit PROVE RouteInv'
<1>1. /\ matching # NoMatch /\ StillMatched /\ matching' = NoMatch /\ UNCHANGED <<call, known, config>> /\ ForgetPaths
  BY DEF Commit
<1>2. /\ matching.by \in Replicas /\ matching.ride = live.ride /\ matching.version = live.version
      /\ (~matching.changed =>
             /\ live.version # 0
             /\ live.owner = live.ride /\ live.config = matching.config /\ live.source = matching.source)
  BY <1>1 DEF RouteInv, MatchOwn, StillMatched
<1>3. PICK reset, state, l, task :
          /\ reset \in BOOLEAN /\ (matching.changed => reset)
          /\ state \in Adherences /\ l = Matched(matching, reset, state) /\ live' = l
          /\ paid' = (paid /\ ~Settles(reset, state))
          /\ task \in [kind : {"reroute", "departure"}, ride : {l.ride}, version : {l.version}, config : {matching.config}]
          /\ queued' = queued \/ queued' = [queued EXCEPT ![matching.by] = task]
  <2>1. PICK missing : missing = (matching.source = "dynamic-reroute" /\ geometry[matching.version].ride # matching.ride)
    OBVIOUS
  <2>2. PICK reset : reset = (matching.changed \/ missing)
    OBVIOUS
  <2>3. reset \in BOOLEAN /\ (matching.changed => reset)
    BY <2>1, <2>2
  <2>4. PICK state \in Adherence(IF reset THEN Nothing ELSE matching.previous) :
             LET l == Matched(matching, reset, state)
                 reroute == state = "OFF_ROUTE" /\ l.trip = "in_service"
                 task == [kind |-> IF reroute THEN "reroute" ELSE "departure",
                          ride |-> l.ride, version |-> l.version, config |-> matching.config]
             IN /\ live' = l
                /\ paid' = (paid /\ ~Settles(reset, state))
                /\ queued' = IF reroute \/ DepartureDue(l) THEN [queued EXCEPT ![matching.by] = task] ELSE queued
    BY <2>1, <2>2 DEF Commit
  <2>5. state \in Adherences
    BY <2>4 DEF Adherence, Adherences
  <2>6. PICK l : l = Matched(matching, reset, state)
    OBVIOUS
  <2>7. PICK kind : kind = IF state = "OFF_ROUTE" /\ l.trip = "in_service" THEN "reroute" ELSE "departure"
    OBVIOUS
  <2>8. PICK task : task = [kind |-> kind, ride |-> l.ride, version |-> l.version, config |-> matching.config]
    OBVIOUS
  <2>9. task \in [kind : {"reroute", "departure"}, ride : {l.ride}, version : {l.version}, config : {matching.config}]
    BY <2>7, <2>8
  <2>10. live' = l /\ paid' = (paid /\ ~Settles(reset, state))
         /\ (queued' = queued \/ queued' = [queued EXCEPT ![matching.by] = task])
    BY <2>4, <2>6, <2>7, <2>8
  <2> QED
    BY <2>3, <2>5, <2>6, <2>9, <2>10
<1>4. PICK v : v = IF ~reset THEN live.version ELSE IF matching.version = 0 THEN 1 ELSE FreshVersion
  OBVIOUS
<1>5. v \in Numbers /\ v # 0
  <2>1. FreshVersion \in Versions
    BY FreshVersionExists
  <2> QED
    BY <1>2, <1>3, <1>4, <2>1, RouteTypes, VersionFacts DEF Numbers
<1>6. /\ l \in Lives /\ l.ride = live.ride /\ l.version = v
      /\ l.source = (IF reset THEN "configured" ELSE matching.source)
      /\ l.owner = live.ride /\ l.config = matching.config
      /\ l.waits = (live.waits /\ ~Settles(reset, state))
  BY <1>1, <1>2, <1>3, <1>4, <1>5, MatchedFacts
<1>7. task \in Demands /\ task.ride = live.ride /\ task.version = v /\ task.config = matching.config
  BY <1>3, <1>5, <1>6, RouteTypes DEF Demands, Lives
<1>8. \A t : Asked(t) /\ OwnContext(t) => (OwnContext(t))'
  <2> SUFFICES ASSUME NEW t, Asked(t), OwnContext(t) PROVE (OwnContext(t))'
    OBVIOUS
  <2>1. CASE ~reset
    BY <1>2, <1>3, <1>4, <1>6, <2>1, ContextKeepsRequests DEF ContextKept
  <2>2. CASE reset /\ matching.version = 0
    BY <1>2, <1>3, <1>4, <1>5, <1>6, <2>2 DEF OwnContext, SameContext
  <2>3. CASE reset /\ matching.version # 0
    <3>1. v \notin InUse
      BY <1>4, <2>3, FreshVersionExists
    <3>2. t.version # v
      BY <1>5, <3>1, RouteConstants DEF Asked, InUse
    <3> QED
      BY <1>3, <1>5, <1>6, <3>2 DEF OwnContext, SameContext
  <2> QED
    BY <2>1, <2>2, <2>3
<1>9. (OwnContext(task))'
  <2>1. task.ride <= live'.ride
    BY <1>3, <1>6, <1>7, RouteTypes
  <2> QED
    BY <1>3, <1>5, <1>6, <1>7, <2>1 DEF OwnContext, SameContext
<1>10. \A x \in Replicas : call[x].at = "publish" => call[x].version # v
  <2>1. CASE reset /\ matching.version # 0
    <3>1. v \notin InUse
      BY <1>4, <2>1, FreshVersionExists
    <3> QED
      BY <3>1 DEF InUse
  <2>2. CASE ~(reset /\ matching.version # 0)
    BY <1>3, <1>4, <2>2 DEF RouteInv, AnswerOwn
  <2> QED
    BY <2>1, <2>2
<1>11. LiveOwn'
  <2>1. paid' \in BOOLEAN /\ (paid' => live'.waits)
    <3>1. paid \in BOOLEAN /\ (paid => live.waits)
      BY DEF RouteInv, RouteTypeOK, LiveOwn
    <3> QED
      BY <1>3, <1>6, <3>1
  <2>2. CASE reset
    BY <1>3, <1>5, <1>6, <2>1, <2>2, RouteTypes DEF LiveOwn, ShownPathIsRides
  <2>3. CASE ~reset
    <3>1. ContextKept
      BY <1>2, <1>3, <1>4, <1>6, <2>3 DEF ContextKept
    <3> QED
      BY <1>1, <2>1, <3>1, KeptPath, LiveStays DEF ContextKept
  <2> QED
    BY <1>3, <2>2, <2>3
<1>12. MatchOwn' /\ matching' \in Matches /\ matching'.version = 0 /\ paid' \in BOOLEAN
  <2>1. paid' \in BOOLEAN
    BY <1>3
  <2> QED
    BY <1>1, <2>1, RouteConstants DEF MatchOwn
<1>13. queued' \in [Replicas -> Demands] /\ call' \in [Replicas -> Calls]
       /\ \A x \in Replicas : queued'[x] \in {queued[x], task}
  BY <1>1, <1>2, <1>3, <1>7 DEF RouteInv, RouteTypeOK
<1> QED
  BY <1>1, <1>3, <1>6, <1>7, <1>8, <1>9, <1>10, <1>11, <1>12, <1>13, RouteTurns

\* A version that the sweep looks at or removes.
LEMMA SweepKeeps == ASSUME RouteInv, NEW v \in Versions, Inspect(v) \/ Collect(v) PROVE RouteInv'
<1>1. UNCHANGED <<live, matching, queued, known, config, paid>> /\ ContextKept
  BY DEF Inspect, Collect, ContextKept
<1>2. /\ geometry' \in [Versions -> Paths] /\ call' \in [Replicas -> Calls]
      /\ \A x \in Replicas : /\ call'[x].at = call[x].at /\ call'[x].version = call[x].version
                             /\ call'[x].task = call[x].task /\ (call[x].late => call'[x].late)
      /\ \A w \in Versions \ {v} : geometry'[w] = geometry[w]
      /\ geometry'[v] # NoPath => geometry[v] # NoPath
      /\ live.source = "dynamic-reroute" => v # live.version
      /\ \A x \in Replicas : call[x].at = "publish" /\ call[x].version = v => call'[x].late
  <2>1. CASE Inspect(v)
    <3>1. \A x \in Replicas : /\ call'[x] \in Calls /\ call'[x].at = call[x].at /\ call'[x].version = call[x].version
                              /\ call'[x].task = call[x].task
                              /\ (call'[x].late <=> (call[x].late \/ call[x].version = v))
      <4> SUFFICES ASSUME NEW x \in Replicas
                   PROVE  /\ call'[x] \in Calls /\ call'[x].at = call[x].at /\ call'[x].version = call[x].version
                          /\ call'[x].task = call[x].task
                          /\ (call'[x].late <=> (call[x].late \/ call[x].version = v))
        OBVIOUS
      <4>1. PICK b : b = (call[x].late \/ call[x].version = v)
        OBVIOUS
      <4>2. b \in BOOLEAN
        BY <4>1
      <4>3. call'[x] = [call[x] EXCEPT !.late = b]
        BY <2>1, <4>1 DEF Inspect
      <4>4. call'[x] \in Calls /\ call'[x].at = call[x].at /\ call'[x].version = call[x].version
            /\ call'[x].task = call[x].task /\ call'[x].late = b
        BY <4>2, <4>3, RouteTypes DEF Calls
      <4> QED
        BY <4>1, <4>4
    <3>2. call' \in [Replicas -> Calls]
      <4>1. call' = [x \in Replicas |-> call'[x]]
        BY <2>1 DEF Inspect
      <4> QED
        BY <3>1, <4>1
    <3>3. geometry' \in [Versions -> Paths] /\ geometry[v] # NoPath /\ v # live.version
          /\ \A w \in Versions \ {v} : geometry'[w] = geometry[w]
      BY <2>1, RouteTypes DEF Inspect, RouteInv, RouteTypeOK, Paths
    <3> QED
      BY <3>1, <3>2, <3>3
  <2>2. CASE Collect(v)
    <3>1. geometry' \in [Versions -> Paths] /\ geometry'[v] = NoPath /\ geometry[v].found /\ UNCHANGED call
          /\ \A w \in Versions \ {v} : geometry'[w] = geometry[w]
      BY <2>2, RouteConstants DEF Collect, RouteInv, RouteTypeOK
    <3>2. live.source = "dynamic-reroute" => v # live.version
      BY <3>1 DEF RouteInv, LiveOwn
    <3>3. ASSUME NEW x \in Replicas, call[x].at = "publish", call[x].version = v PROVE call'[x].late
      BY <3>1, <3>3 DEF RouteInv, AnswerOwn
    <3> QED
      BY <3>1, <3>2, <3>3 DEF RouteInv, RouteTypeOK
  <2> QED
    BY <2>1, <2>2
<1>3. RouteTypeOK'
  BY <1>1, <1>2 DEF RouteInv, RouteTypeOK
<1>4. LiveOwn' /\ MatchOwn'
  <2>1. live.source = "dynamic-reroute" => geometry'[live.version] = geometry[live.version]
    BY <1>2, RouteTypes DEF RouteInv, LiveOwn, Numbers
  <2> QED
    BY <1>1, <2>1, LiveStays, MatchStays DEF RouteInv, LiveOwn
<1>5. PathsNamed'
  <2> SUFFICES ASSUME NEW w \in Versions, geometry'[w] # NoPath
               PROVE  w = live'.version \/ \E x \in Replicas : call'[x].version = w
    BY DEF PathsNamed
  <2>1. geometry[w] # NoPath
    BY <1>2
  <2> QED
    BY <1>1, <1>2, <2>1 DEF RouteInv, PathsNamed
<1>6. ASSUME NEW x \in Replicas
      PROVE  (OwnContext(queued[x]))' /\ (OwnContext(call[x].task))' /\ AnswerOwn(x)'
  <2>1. (OwnContext(queued[x]))' /\ (OwnContext(call[x].task))'
    BY <1>1, <1>2 DEF RouteInv, OwnContext, SameContext
  <2>2. CASE call[x].at # "publish"
    <3>1. call'[x].at # "publish" /\ call'[x].version = 0
      BY <1>2, <2>2 DEF RouteInv, AnswerOwn
    <3> QED
      BY <2>1, <3>1, AnswerStays
  <2>3. CASE call[x].at = "publish"
    <3>1. call[x].version \notin {0, live'.version, matching'.version}
          /\ \A y \in Replicas : y # x => call'[y].version # call[x].version
      BY <1>1, <1>2, <2>3 DEF RouteInv, AnswerOwn
    <3>2. ~call'[x].late => geometry'[call[x].version] = geometry[call[x].version]
      BY <1>2, <2>3, <3>1, RouteTypes DEF Numbers
    <3>3. \A y \in Replicas : queued'[y].version = queued[y].version /\ call'[y].task.version = call[y].task.version
      BY <1>1, <1>2
    <3> QED
      BY <1>2, <2>1, <2>3, <3>1, <3>2, <3>3, AnswerStays
  <2> QED
    BY <2>2, <2>3
<1> QED
  BY <1>3, <1>4, <1>5, <1>6 DEF RouteInv

LEMMA RouteStep == RouteInv /\ [RouteNext]_routeVars => RouteInv'
<1> SUFFICES ASSUME RouteInv, [RouteNext]_routeVars PROVE RouteInv'
  OBVIOUS
<1>1. CASE UNCHANGED routeVars
  BY <1>1 DEF routeVars, RouteInv, RouteTypeOK, LiveOwn, ShownPathIsRides, MatchOwn, PathsNamed, OwnContext,
     SameContext, AnswerOwn
<1>2. CASE RouteNext
  BY <1>2, CommitKeeps, OutdatedKeeps, FixKeeps, ClaimKeeps, AnswerKeeps, PublishKeeps, ReleaseKeeps, LearnKeeps,
     ElapseKeeps, RideKeeps, SweepKeeps DEF RouteNext, CallStep
<1> QED
  BY <1>1, <1>2

\* What replicas read, asked for and were answered is of the context whose version
\* it names, and what they may still show exists.
THEOREM RouteInvariant == RouteSpec => []RouteInv
BY RouteStarts, RouteStep, PTL DEF RouteSpec

\* However late a match or an answer is and whatever the sweep removes, a node
\* that points to a computed path points to one that exists and was computed for
\* its ride from the route its context names (requestReroute(), activateReroute()).
THEOREM ShownPathIsRidesAlways == RouteSpec => []ShownPathIsRides
BY RouteInvariant, PTL DEF RouteInv, LiveOwn

\* A step that makes a request leaves a context whose delay was not paid for yet.
LEMMA RequestStep ==
    RouteInv /\ [RouteNext]_routeVars => (live'.request # Nothing /\ live.request # live'.request => ~paid)
<1> SUFFICES ASSUME RouteInv, [RouteNext]_routeVars, live'.request # Nothing, live.request # live'.request
             PROVE  ~paid
  OBVIOUS
<1>1. PICK r \in Replicas : Claim(r) /\ CanClaim(r) /\ queued[r].kind = "reroute"
  <2>1. live' # live
    OBVIOUS
  <2>2. CASE Commit
    <3>1. PICK reset \in BOOLEAN, state \in Adherences : live' = Matched(matching, reset, state)
      <4>1. \A previous : Adherence(previous) \subseteq Adherences
        BY DEF Adherence, Adherences
      <4> QED
        BY <2>2, <4>1 DEF Commit
    <3>2. matching # NoMatch
      BY <2>2 DEF Commit
    <3>3. PICK v : v = IF ~reset THEN live.version ELSE IF matching.version = 0 THEN 1 ELSE FreshVersion
      OBVIOUS
    <3>4. v \in Numbers
      BY <3>3, FreshVersionExists, RouteTypes, VersionFacts DEF Numbers
    <3> QED
      BY <3>1, <3>2, <3>3, <3>4, MatchedFacts
  <2>3. CASE Ride
    BY <2>3, RouteTypes, NewLiveFacts DEF Ride, Lives
  <2>4. CASE Elapse
    BY <2>4, RouteTypes DEF Elapse, Lives
  <2>5. ASSUME NEW r \in Replicas, PublishPath(r) PROVE FALSE
    BY <2>1, <2>5, RouteTypes DEF PublishPath, Shown, Lives
  <2>6. ASSUME NEW r \in Replicas, Release(r) PROVE FALSE
    BY <2>1, <2>6, RouteTypes DEF Release, Lives
  <2>7. ASSUME NEW r \in Replicas, Claim(r) PROVE CanClaim(r) /\ queued[r].kind = "reroute"
    BY <2>1, <2>7, ClaimsFacts DEF Claim
  <2> QED
    BY <2>1, <2>2, <2>3, <2>4, <2>5, <2>6, <2>7
       DEF RouteNext, CallStep, routeVars, Outdated, Fix, Answer, Learn, Edit, Inspect, Collect
<1> QED
  BY <1>1 DEF CanClaim, RouteInv, LiveOwn

\* Whatever is lost or restarted, two requests for one context are the delay of
\* the first apart (rerouteRetry, reserved with the claim).
THEOREM DelayIsKeptAlways == RouteSpec => DelayIsKept
<1>1. RouteInv /\ [RouteNext]_routeVars =>
         [live'.request # Nothing /\ live.request # live'.request => ~paid]_routeVars
  BY RequestStep
<1> QED
  BY <1>1, RouteInvariant, PTL DEF RouteSpec, DelayIsKept

-----------------------------------------------------------------------------
\* The writer of a live bus's records.

LEMMA WriterStarts == WriterInit => ChangeInv
<1> SUFFICES ASSUME WriterInit PROVE ChangeInv
  OBVIOUS
<1>1. QueueInv
  BY BudgetAssumption DEF WriterInit, ExecInit, QueueInv, InOrder, Tasks, Stages
<1>2. WriterTypeOK
  BY DEF WriterInit, WriterTypeOK
<1> QED
  BY <1>1, <1>2 DEF WriterInit, ChangeInv, SkipLosesNothing

LEMMA QueueTypes ==
    ASSUME QueueInv
    PROVE  /\ admitted \in Nat /\ MaxTasks \in Nat /\ Tasks \subseteq Nat
           /\ key \in [Tasks -> Keys] /\ stage \in [Tasks -> Stages] /\ holder \in [Keys -> {0} \cup Tasks]
           /\ \A t \in Tasks : key[t] \in Keys /\ t # 0
BY BudgetAssumption DEF QueueInv, Tasks

\* Admission.
LEMMA RunKeepsQueue ==
    ASSUME QueueInv, NEW k \in Keys, Run(k)
    PROVE  /\ QueueInv' /\ admitted + 1 \in Tasks /\ stage[admitted + 1] = "new" /\ stage'[admitted + 1] = "waiting"
           /\ key'[admitted + 1] = k
           /\ \A t \in Tasks \ {admitted + 1} : stage'[t] = stage[t] /\ key'[t] = key[t]
           /\ \A t \in Tasks : stage[t] # "new" => t < admitted + 1
<1> DEFINE n == admitted + 1
<1>1. /\ admitted < MaxTasks /\ admitted' = n /\ key' = [key EXCEPT ![n] = k]
      /\ stage' = [stage EXCEPT ![n] = "waiting"] /\ UNCHANGED holder
  BY DEF Run
<1>2. n \in Tasks /\ n \in Nat /\ n <= MaxTasks
  BY <1>1, QueueTypes DEF Tasks
<1>3. stage[n] = "new"
  BY <1>2, QueueTypes DEF QueueInv
<1>4. \A t \in Tasks : stage[t] # "new" => t < n
  BY QueueTypes DEF QueueInv
<1>5. /\ key' \in [Tasks -> Keys] /\ stage' \in [Tasks -> Stages] /\ holder' \in [Keys -> {0} \cup Tasks]
      /\ stage'[n] = "waiting" /\ key'[n] = k
      /\ \A t \in Tasks \ {n} : stage'[t] = stage[t] /\ key'[t] = key[t]
  BY <1>1, <1>2, QueueTypes DEF Stages
<1>6. \A t \in Tasks : stage'[t] = "new" <=> t > admitted'
  <2> SUFFICES ASSUME NEW t \in Tasks PROVE stage'[t] = "new" <=> t > admitted'
    OBVIOUS
  <2>1. stage[t] = "new" <=> t > admitted
    BY DEF QueueInv
  <2>2. t \in Nat
    BY QueueTypes
  <2>3. CASE t = n
    BY <1>1, <1>2, <1>5, <2>3
  <2>4. CASE t # n
    <3>1. t > admitted <=> t > n
      BY <1>2, <2>2, <2>4, QueueTypes
    <3> QED
      BY <1>1, <1>5, <2>1, <2>4, <3>1
  <2> QED
    BY <2>3, <2>4
<1>7. \A t \in Tasks : stage'[t] \in {"dispatched", "running"} => holder'[key'[t]] = t
  BY <1>1, <1>5 DEF QueueInv
<1>8. InOrder'
  <2> SUFFICES ASSUME NEW t \in Tasks, NEW u \in Tasks, t < u, stage'[t] # "new", key'[t] = key'[u],
                      stage'[u] \in {"dispatched", "running", "done", "failed"}
               PROVE  stage'[t] \in Settled
    BY DEF InOrder
  <2>1. u # n
    BY <1>5
  <2>2. u < n /\ stage'[u] = stage[u]
    BY <1>4, <1>5, <2>1
  <2>3. t # n
    BY <1>2, <2>2, QueueTypes
  <2> QED
    BY <1>5, <2>1, <2>3 DEF QueueInv, InOrder
<1> HIDE DEF n
<1>9. QueueInv'
  BY <1>1, <1>2, <1>5, <1>6, <1>7, <1>8 DEF QueueInv
<1> QED
  BY <1>2, <1>3, <1>4, <1>5, <1>9 DEF n

\* The head of a key without work under way is dispatched.
LEMMA DispatchKeepsQueue ==
    ASSUME QueueInv, Dispatch
    PROVE  /\ QueueInv' /\ UNCHANGED <<admitted, key>>
           /\ \E t \in Tasks : stage[t] = "waiting" /\ stage' = [stage EXCEPT ![t] = "dispatched"]
<1>1. PICK k, t : /\ t \in Oldest(k) /\ holder[k] = 0 /\ holder' = [holder EXCEPT ![k] = t]
                  /\ stage' = [stage EXCEPT ![t] = "dispatched"]
  BY DEF Dispatch
<1>2. t \in Tasks /\ stage[t] = "waiting" /\ key[t] = k /\ k \in Keys
      /\ \A u \in Tasks : stage[u] = "waiting" /\ key[u] = k => t <= u
  BY <1>1, QueueTypes DEF Oldest, Pending
<1>3. UNCHANGED <<admitted, key>>
  BY DEF Dispatch
<1>4. stage' \in [Tasks -> Stages] /\ holder' \in [Keys -> {0} \cup Tasks] /\ stage'[t] = "dispatched" /\ holder'[k] = t
      /\ (\A u \in Tasks \ {t} : stage'[u] = stage[u]) /\ (\A c \in Keys \ {k} : holder'[c] = holder[c])
  BY <1>1, <1>2, QueueTypes DEF Stages
<1>5. \A u \in Tasks : stage[u] \in {"dispatched", "running"} => key[u] # k
  BY <1>1, <1>2, QueueTypes DEF QueueInv
<1>6. \A u \in Tasks : stage'[u] = "new" <=> u > admitted'
  BY <1>2, <1>3, <1>4 DEF QueueInv
<1>7. \A u \in Tasks : stage'[u] \in {"dispatched", "running"} => holder'[key'[u]] = u
  <2> SUFFICES ASSUME NEW u \in Tasks, stage'[u] \in {"dispatched", "running"} PROVE holder'[key[u]] = u
    BY <1>3
  <2>1. CASE u = t
    BY <1>2, <1>4, <2>1
  <2>2. CASE u # t
    BY <1>4, <1>5, <2>2, QueueTypes DEF QueueInv
  <2> QED
    BY <2>1, <2>2
<1>8. InOrder'
  <2> SUFFICES ASSUME NEW a \in Tasks, NEW b \in Tasks, a < b, stage'[a] # "new", key[a] = key[b],
                      stage'[b] \in {"dispatched", "running", "done", "failed"}
               PROVE  stage'[a] \in Settled
    BY <1>3 DEF InOrder
  <2>1. CASE b = t
    <3>1. a # t /\ stage'[a] = stage[a]
      BY <1>4, <2>1, QueueTypes
    <3>2. stage[a] # "waiting"
      BY <1>2, <2>1, QueueTypes
    <3>3. stage[a] \notin {"dispatched", "running"}
      BY <1>2, <1>5, <2>1
    <3>4. stage[a] \in Stages
      BY QueueTypes
    <3> QED
      BY <3>1, <3>2, <3>3, <3>4 DEF Stages
  <2>2. CASE b # t
    <3>1. a # t
      <4>1. stage'[b] = stage[b]
        BY <1>4, <2>2
      <4>2. a = t => stage[t] \in Settled
        BY <1>2, <4>1 DEF QueueInv, InOrder
      <4> QED
        BY <1>2, <4>2 DEF Settled
    <3> QED
      BY <1>4, <2>2, <3>1 DEF QueueInv, InOrder
  <2> QED
    BY <2>1, <2>2
<1>9. QueueInv'
  BY <1>3, <1>4, <1>6, <1>7, <1>8 DEF QueueInv
<1> QED
  BY <1>1, <1>2, <1>3, <1>9

\* A task goes on or settles; its permit is given back with that.
LEMMA TaskKeepsQueue ==
    ASSUME QueueInv, NEW t \in Tasks, NEW c, UNCHANGED <<admitted, key>>,
           stage' = [stage EXCEPT ![t] = c],
           \/ stage[t] = "waiting" /\ c = "expired" /\ UNCHANGED holder
           \/ stage[t] = "dispatched" /\ c = "running" /\ UNCHANGED holder
           \/ /\ stage[t] \in {"dispatched", "running"} /\ c \in Settled
              /\ holder' = [holder EXCEPT ![key[t]] = 0]
              /\ c \in {"done", "failed"} => stage[t] = "running"
    PROVE  QueueInv'
<1>1. stage' \in [Tasks -> Stages] /\ stage'[t] = c /\ (\A u \in Tasks \ {t} : stage'[u] = stage[u])
      /\ c # "new" /\ stage[t] # "new"
  BY QueueTypes DEF Stages, Settled
<1>2. holder' \in [Keys -> {0} \cup Tasks]
  BY QueueTypes
<1>3. \A u \in Tasks : stage'[u] = "new" <=> u > admitted'
  BY <1>1 DEF QueueInv
<1>4. \A u \in Tasks : stage'[u] \in {"dispatched", "running"} => holder'[key'[u]] = u
  <2> SUFFICES ASSUME NEW u \in Tasks, stage'[u] \in {"dispatched", "running"} PROVE holder'[key[u]] = u
    OBVIOUS
  <2>1. CASE u = t
    <3>1. c = "running" /\ stage[t] = "dispatched" /\ UNCHANGED holder
      BY <1>1, <2>1 DEF Settled
    <3> QED
      BY <2>1, <3>1 DEF QueueInv
  <2>2. CASE u # t
    <3>1. holder[key[u]] = u
      BY <1>1, <2>2 DEF QueueInv
    <3>2. stage[t] \in {"dispatched", "running"} => key[u] # key[t]
      BY <2>2, <3>1 DEF QueueInv
    <3> QED
      BY <3>1, <3>2, QueueTypes
  <2> QED
    BY <2>1, <2>2
<1>5. InOrder'
  <2> SUFFICES ASSUME NEW a \in Tasks, NEW b \in Tasks, a < b, stage'[a] # "new", key[a] = key[b],
                      stage'[b] \in {"dispatched", "running", "done", "failed"}
               PROVE  stage'[a] \in Settled
    BY DEF InOrder
  <2>1. stage[b] \in {"dispatched", "running", "done", "failed"} /\ stage[a] # "new"
    BY <1>1 DEF Settled
  <2>2. stage[a] \in Settled
    BY <2>1 DEF QueueInv, InOrder
  <2>3. a # t
    BY <2>2 DEF Settled
  <2> QED
    BY <1>1, <2>2, <2>3
<1> QED
  BY <1>1, <1>2, <1>3, <1>4, <1>5, QueueTypes DEF QueueInv

\* Tasks are admitted once, and one that ran may have ended since.
StagesGoOn ==
    \A t \in Tasks : /\ stage'[t] = "new" <=> stage[t] = "new"
                     /\ stage[t] \in {"running", "done", "failed"} => stage'[t] \in {"running", "done", "failed"}

LEMMA ExecuteKeepsQueue ==
    ASSUME QueueInv, Dispatch \/ PumpEnds \/ \E t \in Tasks : TaskStep(t)
    PROVE  QueueInv' /\ StagesGoOn /\ UNCHANGED <<admitted, key>>
<1>1. CASE Dispatch
  <2>1. PICK t \in Tasks : stage[t] = "waiting" /\ stage' = [stage EXCEPT ![t] = "dispatched"]
    BY <1>1, DispatchKeepsQueue
  <2>2. StagesGoOn
    BY <2>1, QueueTypes DEF StagesGoOn
  <2> QED
    BY <1>1, <2>2, DispatchKeepsQueue
<1>2. CASE PumpEnds
  BY <1>2 DEF PumpEnds, QueueInv, InOrder, StagesGoOn
<1>3. ASSUME NEW t \in Tasks, TaskStep(t) PROVE QueueInv' /\ StagesGoOn /\ UNCHANGED <<admitted, key>>
  <2>1. UNCHANGED <<admitted, key>>
    BY <1>3 DEF TaskStep, Start, StartsTooLate, Finish, Complete, Age, Expire, Refresh
  <2>2. \/ UNCHANGED <<stage, holder>>
        \/ \E c \in {"running", "expired", "done", "failed"} :
              /\ stage' = [stage EXCEPT ![t] = c]
              /\ \/ stage[t] = "waiting" /\ c = "expired" /\ UNCHANGED holder
                 \/ stage[t] = "dispatched" /\ c = "running" /\ UNCHANGED holder
                 \/ /\ stage[t] \in {"dispatched", "running"} /\ c \in Settled
                    /\ holder' = [holder EXCEPT ![key[t]] = 0]
                    /\ c \in {"done", "failed"} => stage[t] = "running"
                    /\ c = "expired" => stage[t] = "dispatched"
    BY <1>3 DEF TaskStep, Start, StartsTooLate, Finish, Complete, Age, Expire, Refresh, Settled
  <2>3. CASE UNCHANGED <<stage, holder>>
    BY <2>1, <2>3 DEF QueueInv, InOrder, StagesGoOn
  <2>4. ASSUME NEW c \in {"running", "expired", "done", "failed"},
               stage' = [stage EXCEPT ![t] = c],
               \/ stage[t] = "waiting" /\ c = "expired" /\ UNCHANGED holder
               \/ stage[t] = "dispatched" /\ c = "running" /\ UNCHANGED holder
               \/ /\ stage[t] \in {"dispatched", "running"} /\ c \in Settled
                  /\ holder' = [holder EXCEPT ![key[t]] = 0]
                  /\ c \in {"done", "failed"} => stage[t] = "running"
                  /\ c = "expired" => stage[t] = "dispatched"
        PROVE  QueueInv' /\ StagesGoOn
    <3>1. QueueInv'
      BY <2>1, <2>4, TaskKeepsQueue
    <3>2. StagesGoOn
      BY <2>4, QueueTypes DEF StagesGoOn, Settled
    <3> QED
      BY <3>1, <3>2
  <2> QED
    BY <2>1, <2>2, <2>3, <2>4
<1> QED
  BY <1>1, <1>2, <1>3

\* Turns: what appending, taking and dropping a key does to the keys in turn.
LEMMA TurnAdded ==
    ASSUME NEW s \in Seq(Keys), Once(s), NEW k \in Keys, k \notin KeysOf(s)
    PROVE  LET e == Append(s, k) IN e \in Seq(Keys) /\ e # <<>> /\ Once(e) /\ KeysOf(e) = KeysOf(s) \cup {k}
<1> DEFINE e == Append(s, k)
<1>1. /\ e \in Seq(Keys) /\ e # <<>> /\ Len(e) = Len(s) + 1 /\ e[Len(s) + 1] = k
      /\ \A i \in 1 .. Len(s) : e[i] = s[i]
  BY AppendProperties
<1>2. Len(s) \in Nat /\ DOMAIN s = 1 .. Len(s) /\ DOMAIN e = 1 .. Len(s) + 1
  BY <1>1, LenProperties
<1> HIDE DEF e
<1>3. DOMAIN e = DOMAIN s \cup {Len(s) + 1} /\ Len(s) + 1 \notin DOMAIN s
  BY <1>2
<1>4. KeysOf(e) = KeysOf(s) \cup {k}
  BY <1>1, <1>2, <1>3 DEF KeysOf
<1>5. Once(e)
  BY <1>1, <1>2, <1>3 DEF Once, KeysOf
<1> QED BY <1>1, <1>4, <1>5 DEF e

LEMMA TurnTaken ==
    ASSUME NEW s \in Seq(Keys), Once(s), s # <<>>
    PROVE  Head(s) \in Keys /\ Head(s) \in KeysOf(s) /\ Tail(s) \in Seq(Keys) /\ Once(Tail(s)) /\ KeysOf(Tail(s)) = KeysOf(s) \ {Head(s)}
<1> DEFINE e == Tail(s)
<1>1. /\ Len(s) \in Nat \ {0} /\ DOMAIN s = 1 .. Len(s)
  BY EmptySeq, LenProperties
<1>2. /\ Head(s) = s[1] /\ e \in Seq(Keys) /\ Len(e) = Len(s) - 1
      /\ \A i \in 1 .. Len(e) : e[i] = s[i + 1]
  BY HeadTailProperties
<1>3. DOMAIN e = 1 .. Len(s) - 1
  BY <1>2, LenProperties
<1> HIDE DEF e
<1>4. \A i \in 1 .. Len(s) : i = 1 \/ (i - 1 \in DOMAIN e /\ e[i - 1] = s[i])
  BY <1>1, <1>2, <1>3
<1>5. \A i \in DOMAIN e : i + 1 \in DOMAIN s /\ i + 1 # 1 /\ 1 \in DOMAIN s
  BY <1>1, <1>3
<1>6. KeysOf(e) = KeysOf(s) \ {s[1]}
  <2>1. KeysOf(e) \subseteq KeysOf(s) \ {s[1]}
    BY <1>2, <1>3, <1>5 DEF KeysOf, Once
  <2>2. KeysOf(s) \ {s[1]} \subseteq KeysOf(e)
    BY <1>1, <1>4 DEF KeysOf
  <2> QED BY <2>1, <2>2
<1>7. Once(e)
  BY <1>1, <1>2, <1>3, <1>5 DEF Once
<1>8. s[1] \in KeysOf(s) /\ s[1] \in Keys
  BY <1>1, ElementOfSeq DEF KeysOf
<1> QED BY <1>2, <1>6, <1>7, <1>8 DEF e

LEMMA TurnDropped ==
    ASSUME ready \in Seq(Keys), Once(ready), NEW k \in Keys
    PROVE  LET e == DropTurn(k) IN e \in Seq(Keys) /\ Once(e) /\ KeysOf(e) = KeysOf(ready) \ {k} /\ (ready = <<>> => e = <<>>)
<1> DEFINE e == DropTurn(k)
<1>0. InTurn = KeysOf(ready)
  BY DEF InTurn, KeysOf
<1>1. CASE k \notin KeysOf(ready)
  BY <1>0, <1>1 DEF DropTurn
<1>2. CASE k \in KeysOf(ready)
  <2>1. PICK at \in DOMAIN ready : at = CHOOSE i \in DOMAIN ready : ready[i] = k
    BY <1>2 DEF KeysOf
  <2>2. ready[at] = k
    BY <1>2, <2>1 DEF KeysOf
  <2>3. Len(ready) \in Nat /\ DOMAIN ready = 1 .. Len(ready) /\ at \in 1 .. Len(ready)
    BY <2>1, LenProperties
  <2>4. \A i \in 1 .. Len(ready) : ready[i] \in Keys
    BY ElementOfSeq
  <2>5. PICK a, b : a = SubSeq(ready, 1, at - 1) /\ b = SubSeq(ready, at + 1, Len(ready))
    OBVIOUS
  <2>6. e = a \o b
    BY <1>0, <1>2, <2>1, <2>5 DEF DropTurn
  <2> HIDE DEF e
  <2>7. a \in Seq(Keys) /\ Len(a) = at - 1 /\ \A i \in 1 .. at - 1 : a[i] = ready[i]
    <3>1. at - 1 \in Int /\ \A i \in 1 .. at - 1 : ready[i] \in Keys
      BY <2>3, <2>4
    <3> QED BY <2>3, <2>5, <3>1, SubSeqProperties
  <2>8. b \in Seq(Keys) /\ Len(b) = Len(ready) - at /\ \A i \in 1 .. Len(ready) - at : b[i] = ready[at + i]
    <3>1. at + 1 \in Int /\ Len(ready) \in Int /\ \A i \in at + 1 .. Len(ready) : ready[i] \in Keys
      BY <2>3, <2>4
    <3>2. /\ SubSeq(ready, at + 1, Len(ready)) \in Seq(Keys)
          /\ Len(SubSeq(ready, at + 1, Len(ready))) = IF at + 1 <= Len(ready) THEN Len(ready) - (at + 1) + 1 ELSE 0
          /\ \A i \in 1 .. Len(ready) - (at + 1) + 1 : SubSeq(ready, at + 1, Len(ready))[i] = ready[at + 1 + i - 1]
      BY <3>1, SubSeqProperties
    <3> QED BY <2>3, <2>5, <3>2
  <2>9. /\ e \in Seq(Keys) /\ Len(e) = Len(ready) - 1
        /\ \A i \in 1 .. Len(ready) - 1 : e[i] = IF i < at THEN ready[i] ELSE ready[i + 1]
    <3>1. /\ a \o b \in Seq(Keys) /\ Len(a \o b) = Len(a) + Len(b)
          /\ \A i \in 1 .. Len(a) + Len(b) : (a \o b)[i] = IF i <= Len(a) THEN a[i] ELSE b[i - Len(a)]
      BY <2>7, <2>8, ConcatProperties
    <3>2. ASSUME NEW i \in 1 .. Len(ready) - 1 PROVE e[i] = IF i < at THEN ready[i] ELSE ready[i + 1]
      <4>1. CASE i < at
        BY <2>3, <2>6, <2>7, <2>8, <3>1, <4>1
      <4>2. CASE ~(i < at)
        <5>1. i - (at - 1) \in 1 .. Len(ready) - at /\ at + (i - (at - 1)) = i + 1
          BY <2>3, <4>2
        <5>2. e[i] = b[i - (at - 1)]
          <6>1. i \in 1 .. Len(a) + Len(b) /\ ~(i <= Len(a)) /\ Len(a) = at - 1
            BY <2>3, <2>7, <2>8, <4>2
          <6> QED BY <2>6, <3>1, <6>1
        <5>3. b[i - (at - 1)] = ready[at + (i - (at - 1))]
          BY <2>8, <5>1
        <5> QED BY <4>2, <5>1, <5>2, <5>3
      <4> QED BY <4>1, <4>2
    <3> QED BY <2>3, <2>6, <2>7, <2>8, <3>1, <3>2
  <2>10. DOMAIN e = 1 .. Len(ready) - 1
    BY <2>9, LenProperties
  <2>11. \A i \in DOMAIN e : \E j \in DOMAIN ready : j # at /\ e[i] = ready[j] /\ j = IF i < at THEN i ELSE i + 1
    BY <2>3, <2>9, <2>10
  <2>12. \A j \in DOMAIN ready : j # at => \E i \in DOMAIN e : e[i] = ready[j]
    <3> SUFFICES ASSUME NEW j \in DOMAIN ready, j # at PROVE \E i \in DOMAIN e : e[i] = ready[j]
      OBVIOUS
    <3>1. CASE j < at
      <4>1. j \in DOMAIN e /\ e[j] = ready[j]
        BY <2>3, <2>9, <2>10, <3>1
      <4> QED BY <4>1
    <3>2. CASE j > at
      <4>1. j - 1 \in DOMAIN e /\ ~(j - 1 < at) /\ (j - 1) + 1 = j
        BY <2>3, <2>10, <3>2
      <4>2. e[j - 1] = ready[j]
        BY <2>9, <2>10, <4>1
      <4> QED BY <4>1, <4>2
    <3> QED BY <2>3, <3>1, <3>2
  <2>13. KeysOf(e) = KeysOf(ready) \ {k}
    <3>1. KeysOf(e) \subseteq KeysOf(ready) \ {k}
      BY <2>1, <2>2, <2>11 DEF KeysOf, Once
    <3>2. KeysOf(ready) \ {k} \subseteq KeysOf(e)
      BY <2>2, <2>12 DEF KeysOf
    <3> QED BY <3>1, <3>2
  <2>14. Once(e)
    <3> SUFFICES ASSUME NEW i \in DOMAIN e, NEW j \in DOMAIN e, e[i] = e[j] PROVE i = j
      BY DEF Once
    <3>1. (IF i < at THEN i ELSE i + 1) = (IF j < at THEN j ELSE j + 1)
      BY <2>11 DEF Once
    <3> QED BY <2>3, <2>10, <3>1
  <2>15. ready # <<>>
    BY <2>3, EmptySeq
  <2> QED BY <2>9, <2>13, <2>14, <2>15 DEF e
<1> QED BY <1>1, <1>2

LEMMA ExecutorFacts ==
    ASSUME ExecutorInv
    PROVE  /\ QueueInv /\ IsFiniteSet(Tasks)
           /\ IsFiniteSet(Queued) /\ IsFiniteSet(Working) /\ \A k \in Keys : IsFiniteSet(Pending(k))
           /\ waiting = Cardinality(Queued) /\ active = Cardinality(Working)
           /\ waiting \in Nat /\ active \in Nat /\ MaxConcurrent \in Nat /\ MaxPending \in Nat /\ MaxPendingPerKey \in Nat
           /\ InTurn = KeysOf(ready) /\ Once(ready) /\ ready \in Seq(Keys)
<1>1. QueueInv
  BY BudgetAssumption DEF ExecutorInv, ExecInv, ExecTypeOK, CountsExact, QueueInv
<1>2. IsFiniteSet(Tasks)
  BY BudgetAssumption, FS_Interval DEF Tasks
<1>3. IsFiniteSet(Queued) /\ IsFiniteSet(Working) /\ \A k \in Keys : IsFiniteSet(Pending(k))
  <2>1. Queued \in SUBSET Tasks /\ Working \in SUBSET Tasks /\ \A k \in Keys : Pending(k) \in SUBSET Tasks
    BY DEF Queued, Working, Pending
  <2> QED BY <1>2, <2>1, FS_Subset
<1>4. waiting = Cardinality(Queued) /\ active = Cardinality(Working)
  BY DEF ExecutorInv, ExecInv, CountsExact, Queued, Working
<1>5. InTurn = KeysOf(ready) /\ Once(ready) /\ ready \in Seq(Keys)
  BY DEF ExecutorInv, ExecInv, ExecTypeOK, ReadyKeysWait, InTurn, KeysOf, Once
<1> QED BY <1>1, <1>2, <1>3, <1>4, <1>5, FS_CardinalityType, BudgetAssumption

\* What the move of a task to another stage does to the counts.
LEMMA Moved ==
    ASSUME ExecutorInv, NEW t \in Tasks, NEW c \in Stages, stage' = [stage EXCEPT ![t] = c]
    PROVE  /\ Cardinality(Queued') = waiting + (IF c = "waiting" THEN 1 ELSE 0) - (IF stage[t] = "waiting" THEN 1 ELSE 0)
           /\ Cardinality(Working') = active + (IF c \in {"dispatched", "running"} THEN 1 ELSE 0)
                                             - (IF stage[t] \in {"dispatched", "running"} THEN 1 ELSE 0)
<1>1. stage'[t] = c /\ \A u \in Tasks \ {t} : stage'[u] = stage[u]
  BY ExecutorFacts DEF QueueInv
<1>2. Queued' = (IF c = "waiting" THEN (Queued \ {t}) \cup {t} ELSE Queued \ {t})
  BY <1>1 DEF Queued
<1>3. Working' = (IF c \in {"dispatched", "running"} THEN (Working \ {t}) \cup {t} ELSE Working \ {t})
  BY <1>1 DEF Working
<1>4. /\ t \in Queued <=> stage[t] = "waiting"
      /\ t \in Working <=> stage[t] \in {"dispatched", "running"}
  BY DEF Queued, Working
<1>5. /\ IsFiniteSet(Queued \ {t})
      /\ Cardinality(Queued \ {t}) = IF t \in Queued THEN waiting - 1 ELSE waiting
      /\ Cardinality((Queued \ {t}) \cup {t}) = Cardinality(Queued \ {t}) + 1
  BY ExecutorFacts, FS_RemoveElement, FS_AddElement
<1>6. /\ IsFiniteSet(Working \ {t})
      /\ Cardinality(Working \ {t}) = IF t \in Working THEN active - 1 ELSE active
      /\ Cardinality((Working \ {t}) \cup {t}) = Cardinality(Working \ {t}) + 1
  BY ExecutorFacts, FS_RemoveElement, FS_AddElement
<1>7. waiting \in Nat /\ active \in Nat
  BY ExecutorFacts
<1> QED BY <1>2, <1>3, <1>4, <1>5, <1>6, <1>7

\* The invariant after a step, from what the step does to the counts and turns.
LEMMA ExecutorNext ==
    ASSUME ExecutorInv, QueueInv', key' \in [Tasks -> Keys], aged' \in [Tasks -> BOOLEAN], pumping' \in BOOLEAN,
           active' = Cardinality(Working'), waiting' = Cardinality(Queued'),
           \A t \in Tasks : stage'[t] \in {"dispatched", "running"} <=> holder'[key'[t]] = t,
           \A k \in Keys : holder'[k] # 0 => key'[holder'[k]] = k,
           ready' \in Seq(Keys), Once(ready'), KeysOf(ready') = {k \in Keys : holder'[k] = 0 /\ Pending(k)' # {}},
           states' = {k \in Keys : holder'[k] # 0 \/ Pending(k)' # {}},
           active' <= MaxConcurrent, ~pumping' => active' = MaxConcurrent \/ ready' = <<>>, QueueBounded',
           \A k \in Keys : Cardinality(Pending(k)') <= MaxPendingPerKey
    PROVE  ExecutorInv'
<1>1. active' \in Int /\ waiting' \in Int
  <2>1. Queued' \in SUBSET Tasks /\ Working' \in SUBSET Tasks
    BY DEF Queued, Working
  <2> QED BY <2>1, ExecutorFacts, FS_Subset, FS_CardinalityType
<1>2. admitted' \in 0 .. MaxTasks
  BY BudgetAssumption DEF QueueInv
<1>3. ExecTypeOK'
  BY <1>1, <1>2 DEF ExecTypeOK, QueueInv
<1>4. CountsExact'
  BY DEF CountsExact, Working, Queued
<1>5. ReadyKeysWait' /\ NoStaleState'
  BY DEF ReadyKeysWait, NoStaleState, InTurn, KeysOf, Once
<1>6. InOrder' /\ \A t \in Tasks : stage'[t] = "new" <=> t > admitted'
  BY DEF QueueInv
<1> QED BY <1>3, <1>4, <1>5, <1>6 DEF ExecutorInv, ExecInv

LEMMA RunKeepsExecutor ==
    ASSUME ExecutorInv, NEW k \in Keys, Run(k) PROVE ExecutorInv'
<1> DEFINE n == admitted + 1
<1>1. /\ QueueInv' /\ n \in Tasks /\ stage[n] = "new" /\ stage'[n] = "waiting" /\ key'[n] = k
      /\ \A t \in Tasks \ {n} : stage'[t] = stage[t] /\ key'[t] = key[t]
  BY ExecutorFacts, RunKeepsQueue
<1>2. /\ ~pumping /\ CanRun(k) /\ stage' = [stage EXCEPT ![n] = "waiting"] /\ states' = states \cup {k}
      /\ waiting' = waiting + 1 /\ ready' = (IF holder[k] = 0 THEN MarkReady(k) ELSE ready)
      /\ pumping' = TRUE /\ UNCHANGED <<holder, active, aged>>
  BY DEF Run
<1> HIDE DEF n
<1>3. active' = Cardinality(Working') /\ waiting' = Cardinality(Queued')
  <2>1. "waiting" \in Stages
    BY DEF Stages
  <2>2. Cardinality(Queued') = waiting + 1 - 0 /\ Cardinality(Working') = active + 0 - 0
    BY <1>1, <1>2, <2>1, Moved
  <2> QED BY <1>2, <2>2, ExecutorFacts
<1>4. Pending(k)' = Pending(k) \cup {n} /\ n \notin Pending(k) /\ \A c \in Keys \ {k} : Pending(c)' = Pending(c)
  BY <1>1 DEF Pending
<1>5. \A c \in Keys : holder[c] # n
  <2> SUFFICES ASSUME NEW c \in Keys, holder[c] = n PROVE FALSE
    OBVIOUS
  <2>1. n # 0
    BY <1>1, ExecutorFacts, QueueTypes
  <2>2. key[n] = c
    BY <2>1 DEF ExecutorInv, ExecInv, CountsExact
  <2> QED BY <1>1, <2>2 DEF ExecutorInv, ExecInv, CountsExact
<1>6. \A t \in Tasks : stage'[t] \in {"dispatched", "running"} <=> holder'[key'[t]] = t
  BY <1>1, <1>2, <1>5 DEF ExecutorInv, ExecInv, CountsExact
<1>7. \A c \in Keys : holder'[c] # 0 => key'[holder'[c]] = c
  BY <1>1, <1>2, <1>5 DEF ExecutorInv, ExecInv, CountsExact, ExecTypeOK
<1>8. ready' \in Seq(Keys) /\ Once(ready') /\ KeysOf(ready') = (IF holder[k] = 0 THEN KeysOf(ready) \cup {k} ELSE KeysOf(ready))
      /\ (holder[k] = 0 => ready' # <<>>)
  <2>1. CASE holder[k] = 0 /\ k \notin KeysOf(ready)
    BY <1>2, <2>1, ExecutorFacts, TurnAdded DEF MarkReady
  <2>2. CASE holder[k] = 0 /\ k \in KeysOf(ready)
    <3>1. ready # <<>>
      BY <2>2, EmptySeq DEF KeysOf
    <3> QED BY <1>2, <2>2, <3>1, ExecutorFacts DEF MarkReady
  <2>3. CASE holder[k] # 0
    BY <1>2, <2>3, ExecutorFacts
  <2> QED BY <2>1, <2>2, <2>3
<1>9. KeysOf(ready') = {c \in Keys : holder'[c] = 0 /\ Pending(c)' # {}}
  BY <1>2, <1>4, <1>8, ExecutorFacts DEF ExecutorInv, ExecInv, ReadyKeysWait
<1>10. states' = {c \in Keys : holder'[c] # 0 \/ Pending(c)' # {}}
  BY <1>2, <1>4 DEF ExecutorInv, ExecInv, NoStaleState
<1>11. QueueBounded'
  <2>1. waiting \in Nat /\ MaxPending \in Nat /\ waiting <= MaxPending
    BY <1>2, ExecutorFacts DEF ExecutorInv, QueueBounded
  <2>2. waiting < MaxPending \/ (holder[k] = 0 /\ active < MaxConcurrent)
    BY <1>2 DEF CanRun
  <2> QED BY <1>2, <1>8, <2>1, <2>2 DEF QueueBounded
<1>12. \A c \in Keys : Cardinality(Pending(c)') <= MaxPendingPerKey
  <2>1. Cardinality(Pending(k)') = Cardinality(Pending(k)) + 1 /\ Cardinality(Pending(k)) \in Nat
    BY <1>4, ExecutorFacts, FS_AddElement, FS_CardinalityType
  <2>2. Cardinality(Pending(k)) < MaxPendingPerKey /\ MaxPendingPerKey \in Nat
    BY <1>2, ExecutorFacts DEF CanRun
  <2>3. Cardinality(Pending(k)') <= MaxPendingPerKey
    BY <2>1, <2>2
  <2> QED BY <1>4, <2>3 DEF ExecutorInv
<1>13. key' \in [Tasks -> Keys] /\ aged' \in [Tasks -> BOOLEAN] /\ active' <= MaxConcurrent
  BY <1>1, <1>2 DEF QueueInv, ExecutorInv, ExecInv, ExecTypeOK
<1> QED BY <1>1, <1>2, <1>3, <1>6, <1>7, <1>8, <1>9, <1>10, <1>11, <1>12, <1>13, ExecutorNext

LEMMA DispatchKeepsExecutor ==
    ASSUME ExecutorInv, Dispatch PROVE ExecutorInv'
<1>1. PICK k, t : /\ k = Head(ready) /\ t \in Oldest(k) /\ holder' = [holder EXCEPT ![k] = t]
                  /\ stage' = [stage EXCEPT ![t] = "dispatched"]
  BY DEF Dispatch
<1>2. /\ pumping /\ active < MaxConcurrent /\ ready # <<>> /\ ready' = Tail(ready) /\ waiting' = waiting - 1
      /\ active' = active + 1 /\ UNCHANGED <<states, pumping, admitted, key, aged>>
  BY DEF Dispatch
<1>3. k \in Keys /\ ready' \in Seq(Keys) /\ Once(ready') /\ KeysOf(ready') = KeysOf(ready) \ {k} /\ k \in KeysOf(ready)
  BY <1>1, <1>2, ExecutorFacts, TurnTaken
<1>4. holder[k] = 0 /\ t \in Tasks /\ t # 0 /\ stage[t] = "waiting" /\ key[t] = k
  BY <1>1, <1>3, ExecutorFacts, QueueTypes DEF Oldest, Pending, ExecutorInv, ExecInv, ReadyKeysWait
<1>5. QueueInv'
  BY ExecutorFacts, DispatchKeepsQueue
<1>6. active' = Cardinality(Working') /\ waiting' = Cardinality(Queued')
  <2>1. "dispatched" \in Stages
    BY DEF Stages
  <2>2. Cardinality(Queued') = waiting + 0 - 1 /\ Cardinality(Working') = active + 1 - 0
    BY <1>1, <1>4, <2>1, Moved
  <2> QED BY <1>2, <2>2, ExecutorFacts
<1>7. /\ stage'[t] = "dispatched" /\ holder'[k] = t /\ \A u \in Tasks \ {t} : stage'[u] = stage[u]
      /\ \A c \in Keys \ {k} : holder'[c] = holder[c]
  BY <1>1, <1>3, <1>4, ExecutorFacts DEF QueueInv
<1>8. Pending(k)' = Pending(k) \ {t} /\ \A c \in Keys \ {k} : Pending(c)' = Pending(c)
  BY <1>2, <1>4, <1>7 DEF Pending
<1>9. \A u \in Tasks : stage'[u] \in {"dispatched", "running"} <=> holder'[key'[u]] = u
  <2> SUFFICES ASSUME NEW u \in Tasks PROVE stage'[u] \in {"dispatched", "running"} <=> holder'[key[u]] = u
    BY <1>2
  <2>1. CASE u = t
    BY <1>4, <1>7, <2>1
  <2>2. CASE u # t
    <3>1. stage[u] \in {"dispatched", "running"} <=> holder[key[u]] = u
      BY DEF ExecutorInv, ExecInv, CountsExact
    <3>2. u # 0 /\ key[u] \in Keys
      BY ExecutorFacts, QueueTypes
    <3> QED BY <1>4, <1>7, <2>2, <3>1, <3>2
  <2> QED BY <2>1, <2>2
<1>10. \A c \in Keys : holder'[c] # 0 => key'[holder'[c]] = c
  BY <1>2, <1>4, <1>7 DEF ExecutorInv, ExecInv, CountsExact
<1>11. KeysOf(ready') = {c \in Keys : holder'[c] = 0 /\ Pending(c)' # {}}
  BY <1>3, <1>4, <1>7, <1>8, ExecutorFacts DEF ExecutorInv, ExecInv, ReadyKeysWait
<1>12. states' = {c \in Keys : holder'[c] # 0 \/ Pending(c)' # {}}
  <2>1. Pending(k) # {}
    BY <1>4 DEF Pending
  <2> QED BY <1>2, <1>4, <1>7, <1>8, <2>1 DEF ExecutorInv, ExecInv, NoStaleState
<1>13. QueueBounded' /\ active' <= MaxConcurrent
  BY <1>2, ExecutorFacts DEF ExecutorInv, QueueBounded
<1>14. \A c \in Keys : Cardinality(Pending(c)') <= MaxPendingPerKey
  <2>1. Cardinality(Pending(k)') <= Cardinality(Pending(k)) /\ Cardinality(Pending(k)') \in Nat
        /\ Cardinality(Pending(k)) \in Nat
    <3>1. Pending(k)' \in SUBSET Pending(k)
      BY <1>8
    <3> QED BY <1>3, <3>1, ExecutorFacts, FS_Subset, FS_CardinalityType
  <2>2. Cardinality(Pending(k)) <= MaxPendingPerKey /\ MaxPendingPerKey \in Nat
    BY <1>3, ExecutorFacts DEF ExecutorInv
  <2>3. Cardinality(Pending(k)') <= MaxPendingPerKey
    BY <2>1, <2>2
  <2> QED BY <1>8, <2>3 DEF ExecutorInv
<1>15. key' \in [Tasks -> Keys] /\ aged' \in [Tasks -> BOOLEAN] /\ pumping' = TRUE
  BY <1>2 DEF ExecutorInv, ExecInv, ExecTypeOK
<1> QED BY <1>3, <1>5, <1>6, <1>9, <1>10, <1>11, <1>12, <1>13, <1>14, <1>15, ExecutorNext

\* A settled task gives its permit back, and its key waits its turn again.
LEMMA CompleteKeepsExecutor ==
    ASSUME ExecutorInv, NEW t \in Tasks, NEW c \in Settled, stage[t] \in {"dispatched", "running"},
           c \in {"done", "failed"} => stage[t] = "running", Complete(t, c)
    PROVE  ExecutorInv'
<1>1. PICK k \in Keys : k = key[t]
  BY ExecutorFacts, QueueTypes
<1>2. /\ holder' = [holder EXCEPT ![k] = 0] /\ active' = active - 1 /\ stage' = [stage EXCEPT ![t] = c]
      /\ IF Pending(k) # {} THEN ready' = MarkReady(k) /\ UNCHANGED states ELSE states' = states \ {k} /\ UNCHANGED ready
      /\ pumping' = TRUE /\ UNCHANGED <<waiting, admitted, key, aged>>
  BY <1>1 DEF Complete
<1>3. QueueInv'
  BY <1>1, <1>2, ExecutorFacts, TaskKeepsQueue
<1>4. holder[k] = t /\ t # 0
  BY <1>1, ExecutorFacts, QueueTypes DEF QueueInv
<1>5. c \in Stages /\ c \notin {"waiting", "dispatched", "running"}
  BY DEF Settled, Stages
<1>6. active' = Cardinality(Working') /\ waiting' = Cardinality(Queued')
  <2>1. Cardinality(Queued') = waiting + 0 - 0 /\ Cardinality(Working') = active + 0 - 1
    BY <1>2, <1>5, Moved
  <2> QED BY <1>2, <2>1, ExecutorFacts
<1>7. /\ stage'[t] = c /\ holder'[k] = 0 /\ \A u \in Tasks \ {t} : stage'[u] = stage[u]
      /\ \A d \in Keys \ {k} : holder'[d] = holder[d]
  BY <1>2, ExecutorFacts DEF QueueInv
<1>8. \A d \in Keys : Pending(d)' = Pending(d)
  BY <1>2, <1>5, <1>7 DEF Pending
<1>9. \A u \in Tasks : stage'[u] \in {"dispatched", "running"} <=> holder'[key'[u]] = u
  <2> SUFFICES ASSUME NEW u \in Tasks PROVE stage'[u] \in {"dispatched", "running"} <=> holder'[key[u]] = u
    BY <1>2
  <2>1. (stage[u] \in {"dispatched", "running"} <=> holder[key[u]] = u) /\ u # 0 /\ key[u] \in Keys
    BY ExecutorFacts, QueueTypes DEF ExecutorInv, ExecInv, CountsExact
  <2>2. CASE u = t
    BY <1>1, <1>5, <1>7, <2>1, <2>2
  <2>3. CASE u # t
    BY <1>4, <1>7, <2>1, <2>3
  <2> QED BY <2>2, <2>3
<1>10. \A d \in Keys : holder'[d] # 0 => key'[holder'[d]] = d
  BY <1>2, <1>7 DEF ExecutorInv, ExecInv, CountsExact
<1>11. k \notin KeysOf(ready)
  BY <1>4, ExecutorFacts DEF ExecutorInv, ExecInv, ReadyKeysWait
<1>12. /\ ready' \in Seq(Keys) /\ Once(ready') /\ KeysOf(ready') = (IF Pending(k) # {} THEN KeysOf(ready) \cup {k} ELSE KeysOf(ready))
       /\ ready # <<>> => ready' # <<>>
  <2>1. CASE Pending(k) # {}
    BY <1>2, <1>11, <2>1, ExecutorFacts, TurnAdded DEF MarkReady
  <2>2. CASE Pending(k) = {}
    BY <1>2, <2>2, ExecutorFacts
  <2> QED BY <2>1, <2>2
<1>13. KeysOf(ready') = {d \in Keys : holder'[d] = 0 /\ Pending(d)' # {}}
  BY <1>4, <1>7, <1>8, <1>12, ExecutorFacts DEF ExecutorInv, ExecInv, ReadyKeysWait
<1>14. states' = {d \in Keys : holder'[d] # 0 \/ Pending(d)' # {}}
  BY <1>2, <1>4, <1>7, <1>8 DEF ExecutorInv, ExecInv, NoStaleState
<1>15. QueueBounded' /\ active' <= MaxConcurrent
  BY <1>2, <1>12, ExecutorFacts DEF ExecutorInv, ExecInv, QueueBounded
<1>16. key' \in [Tasks -> Keys] /\ aged' \in [Tasks -> BOOLEAN] /\ \A d \in Keys : Cardinality(Pending(d)') <= MaxPendingPerKey
  BY <1>2, <1>8 DEF ExecutorInv, ExecInv, ExecTypeOK
<1> QED BY <1>2, <1>3, <1>6, <1>9, <1>10, <1>12, <1>13, <1>14, <1>15, <1>16, ExecutorNext

\* The last waiting task of a key takes the key's turn with it.
LEMMA ExpireKeepsExecutor ==
    ASSUME ExecutorInv, NEW t \in Tasks, Expire(t) PROVE ExecutorInv'
<1>1. PICK k \in Keys : k = key[t]
  BY ExecutorFacts, QueueTypes
<1>2. /\ ~pumping /\ stage[t] = "waiting" /\ stage' = [stage EXCEPT ![t] = "expired"] /\ waiting' = waiting - 1
      /\ IF holder[k] = 0 /\ Pending(k) = {t}
         THEN states' = states \ {k} /\ ready' = DropTurn(k) ELSE UNCHANGED <<states, ready>>
      /\ UNCHANGED <<holder, active, pumping, admitted, key, aged>>
  BY <1>1 DEF Expire
<1>3. QueueInv'
  BY <1>2, ExecutorFacts, TaskKeepsQueue
<1>4. active' = Cardinality(Working') /\ waiting' = Cardinality(Queued')
  <2>1. "expired" \in Stages
    BY DEF Stages, Settled
  <2>2. Cardinality(Queued') = waiting + 0 - 1 /\ Cardinality(Working') = active + 0 - 0
    BY <1>2, <2>1, Moved
  <2> QED BY <1>2, <2>2, ExecutorFacts
<1>5. stage'[t] = "expired" /\ \A u \in Tasks \ {t} : stage'[u] = stage[u]
  BY <1>2, ExecutorFacts DEF QueueInv
<1>6. t \in Pending(k) /\ Pending(k)' = Pending(k) \ {t} /\ \A d \in Keys \ {k} : Pending(d)' = Pending(d)
  BY <1>1, <1>2, <1>5 DEF Pending
<1>7. \A u \in Tasks : stage'[u] \in {"dispatched", "running"} <=> holder'[key'[u]] = u
  BY <1>2, <1>5 DEF ExecutorInv, ExecInv, CountsExact
<1>8. \A d \in Keys : holder'[d] # 0 => key'[holder'[d]] = d
  BY <1>2 DEF ExecutorInv, ExecInv, CountsExact
<1>9. /\ ready' \in Seq(Keys) /\ Once(ready') /\ (ready = <<>> => ready' = <<>>)
      /\ KeysOf(ready') = IF holder[k] = 0 /\ Pending(k) = {t} THEN KeysOf(ready) \ {k} ELSE KeysOf(ready)
  BY <1>2, ExecutorFacts, TurnDropped
<1>10. KeysOf(ready') = {d \in Keys : holder'[d] = 0 /\ Pending(d)' # {}}
  BY <1>2, <1>6, <1>9, ExecutorFacts DEF ExecutorInv, ExecInv, ReadyKeysWait
<1>11. states' = {d \in Keys : holder'[d] # 0 \/ Pending(d)' # {}}
  BY <1>2, <1>6 DEF ExecutorInv, ExecInv, NoStaleState
<1>12. QueueBounded' /\ active' <= MaxConcurrent /\ (~pumping' => active' = MaxConcurrent \/ ready' = <<>>)
  BY <1>2, <1>9, ExecutorFacts DEF ExecutorInv, ExecInv, QueueBounded
<1>13. \A d \in Keys : Cardinality(Pending(d)') <= MaxPendingPerKey
  <2>1. Cardinality(Pending(k)') <= Cardinality(Pending(k)) /\ Cardinality(Pending(k)') \in Nat
        /\ Cardinality(Pending(k)) \in Nat
    <3>1. Pending(k)' \in SUBSET Pending(k)
      BY <1>6
    <3> QED BY <3>1, ExecutorFacts, FS_Subset, FS_CardinalityType
  <2>2. Cardinality(Pending(k)) <= MaxPendingPerKey /\ MaxPendingPerKey \in Nat
    BY ExecutorFacts DEF ExecutorInv
  <2>3. Cardinality(Pending(k)') <= MaxPendingPerKey
    BY <2>1, <2>2
  <2> QED BY <1>6, <2>3 DEF ExecutorInv
<1>14. key' \in [Tasks -> Keys] /\ aged' \in [Tasks -> BOOLEAN] /\ pumping' \in BOOLEAN
  BY <1>2 DEF ExecutorInv, ExecInv, ExecTypeOK
<1> QED BY <1>3, <1>4, <1>7, <1>8, <1>9, <1>10, <1>11, <1>12, <1>13, <1>14, ExecutorNext

\* Starting, ageing, a refresh and the end of pump() leave counts and turns alone.
LEMMA RestKeepsExecutor ==
    ASSUME ExecutorInv, QueueInv', UNCHANGED <<states, holder, ready, active, waiting, admitted, key>>,
           aged' \in [Tasks -> BOOLEAN],
           \/ UNCHANGED <<stage, pumping>>
           \/ UNCHANGED pumping /\ \E t \in Tasks : stage[t] = "dispatched" /\ stage' = [stage EXCEPT ![t] = "running"]
           \/ UNCHANGED stage /\ pumping' = FALSE /\ (active >= MaxConcurrent \/ ready = <<>>)
    PROVE  ExecutorInv'
<1>1. \A t \in Tasks : /\ stage'[t] = "waiting" <=> stage[t] = "waiting"
                       /\ stage'[t] \in {"dispatched", "running"} <=> stage[t] \in {"dispatched", "running"}
  BY ExecutorFacts DEF QueueInv
<1>2. Working' = Working /\ Queued' = Queued /\ \A k \in Keys : Pending(k)' = Pending(k)
  BY <1>1 DEF Working, Queued, Pending
<1>3. active' = Cardinality(Working') /\ waiting' = Cardinality(Queued')
  BY <1>2, ExecutorFacts
<1>4. \A t \in Tasks : stage'[t] \in {"dispatched", "running"} <=> holder'[key'[t]] = t
  BY <1>1 DEF ExecutorInv, ExecInv, CountsExact
<1>5. \A k \in Keys : holder'[k] # 0 => key'[holder'[k]] = k
  BY DEF ExecutorInv, ExecInv, CountsExact
<1>6. ready' \in Seq(Keys) /\ Once(ready') /\ KeysOf(ready') = {k \in Keys : holder'[k] = 0 /\ Pending(k)' # {}}
  BY <1>2, ExecutorFacts DEF ExecutorInv, ExecInv, ReadyKeysWait
<1>7. states' = {k \in Keys : holder'[k] # 0 \/ Pending(k)' # {}}
  BY <1>2 DEF ExecutorInv, ExecInv, NoStaleState
<1>8. pumping' \in BOOLEAN /\ active' <= MaxConcurrent /\ (~pumping' => active' = MaxConcurrent \/ ready' = <<>>) /\ QueueBounded'
  <2>1. active \in Nat /\ MaxConcurrent \in Nat /\ active <= MaxConcurrent /\ pumping \in BOOLEAN
    BY ExecutorFacts DEF ExecutorInv, ExecInv, ExecTypeOK
  <2>2. (~pumping => active = MaxConcurrent \/ ready = <<>>) /\ QueueBounded
    BY DEF ExecutorInv, ExecInv
  <2>3. CASE UNCHANGED pumping
    BY <2>1, <2>2, <2>3 DEF QueueBounded
  <2>4. CASE pumping' = FALSE /\ (active >= MaxConcurrent \/ ready = <<>>)
    <3>1. active = MaxConcurrent \/ ready = <<>>
      BY <2>1, <2>4
    <3>2. waiting <= MaxPending
      BY <2>1, <2>2, <3>1 DEF QueueBounded
    <3>3. QueueBounded' /\ active' <= MaxConcurrent
      BY <2>1, <3>2 DEF QueueBounded
    <3> QED BY <2>4, <3>1, <3>3
  <2> QED BY <2>3, <2>4
<1>9. key' \in [Tasks -> Keys] /\ \A k \in Keys : Cardinality(Pending(k)') <= MaxPendingPerKey
  BY <1>2 DEF ExecutorInv, ExecInv, ExecTypeOK
<1> QED BY <1>3, <1>4, <1>5, <1>6, <1>7, <1>8, <1>9, ExecutorNext

LEMMA ExecutorStarts == ExecInit => ExecutorInv
<1> SUFFICES ASSUME ExecInit PROVE ExecutorInv
  OBVIOUS
<1>0. states = {} /\ active = 0 /\ waiting = 0 /\ pumping = FALSE /\ admitted = 0 /\ ready = <<>>
  BY DEF ExecInit
<1>1. Queued = {} /\ Working = {} /\ \A k \in Keys : Pending(k) = {}
  BY DEF ExecInit, Queued, Working, Pending
<1>2. Cardinality({}) = 0
  BY FS_EmptySet
<1>3. ExecTypeOK
  <2>1. key \in [Tasks -> Keys] /\ holder \in [Keys -> {0} \cup Tasks] /\ aged \in [Tasks -> BOOLEAN]
    BY DEF ExecInit
  <2>2. stage \in [Tasks -> Stages] /\ ready \in Seq(Keys)
    BY EmptySeq DEF ExecInit, Stages
  <2>3. 0 \in 0 .. MaxTasks
    BY BudgetAssumption
  <2>4. states \subseteq Keys /\ active \in Int /\ waiting \in Int /\ admitted \in 0 .. MaxTasks
    BY <1>0, <2>3
  <2>5. pumping \in BOOLEAN
    BY <1>0
  <2> QED BY <2>1, <2>2, <2>4, <2>5 DEF ExecTypeOK
<1>4. CountsExact
  <2>1. \A t \in Tasks : t # 0 /\ holder[key[t]] = 0
    BY BudgetAssumption DEF ExecInit, Tasks
  <2> QED BY <1>1, <1>2, <2>1 DEF ExecInit, CountsExact, Queued, Working
<1>5. ReadyKeysWait /\ NoStaleState
  BY <1>1 DEF ExecInit, ReadyKeysWait, NoStaleState, InTurn
<1>6. InOrder /\ \A t \in Tasks : stage[t] = "new" <=> t > admitted
  BY BudgetAssumption DEF ExecInit, InOrder, Tasks
<1>7. QueueBounded /\ (\A k \in Keys : Cardinality(Pending(k)) <= MaxPendingPerKey) /\ active <= MaxConcurrent /\ ready = <<>>
  <2>1. 0 <= MaxPending /\ 0 <= MaxPendingPerKey /\ 0 <= MaxConcurrent
    BY BudgetAssumption
  <2>2. waiting <= MaxPending /\ active <= MaxConcurrent
    BY <1>0, <2>1
  <2>3. \A k \in Keys : Cardinality(Pending(k)) <= MaxPendingPerKey
    BY <1>1, <1>2, <2>1
  <2> QED BY <1>0, <2>2, <2>3 DEF QueueBounded
<1> QED BY <1>3, <1>4, <1>5, <1>6, <1>7 DEF ExecutorInv, ExecInv

LEMMA ExecutorStep == ExecutorInv /\ [ExecNext]_execVars => ExecutorInv'
<1> SUFFICES ASSUME ExecutorInv, [ExecNext]_execVars PROVE ExecutorInv'
  OBVIOUS
<1>1. ASSUME NEW k \in Keys, Run(k) PROVE ExecutorInv'
  BY <1>1, RunKeepsExecutor
<1>2. CASE Dispatch
  BY <1>2, DispatchKeepsExecutor
<1>3. CASE PumpEnds
  <2>1. QueueInv'
    BY <1>3, ExecutorFacts, ExecuteKeepsQueue
  <2>2. aged' \in [Tasks -> BOOLEAN]
    BY <1>3 DEF PumpEnds, ExecutorInv, ExecInv, ExecTypeOK
  <2> QED BY <1>3, <2>1, <2>2, RestKeepsExecutor DEF PumpEnds
<1>4. ASSUME NEW t \in Tasks, TaskStep(t) PROVE ExecutorInv'
  <2>1. QueueInv'
    BY <1>4, ExecutorFacts, ExecuteKeepsQueue
  <2>2. aged \in [Tasks -> BOOLEAN]
    BY DEF ExecutorInv, ExecInv, ExecTypeOK
  <2>3. CASE Start(t)
    <3>1. aged' \in [Tasks -> BOOLEAN]
      BY <2>2, <2>3 DEF Start
    <3> QED BY <2>1, <2>3, <3>1, RestKeepsExecutor DEF Start
  <2>4. CASE Age(t) \/ Refresh(t)
    <3>1. aged' \in [Tasks -> BOOLEAN]
      BY <2>2, <2>4 DEF Age, Refresh
    <3> QED BY <2>1, <2>4, <3>1, RestKeepsExecutor DEF Age, Refresh
  <2>5. CASE StartsTooLate(t) \/ \E c \in {"done", "failed"} : Finish(t, c)
    BY <2>5, CompleteKeepsExecutor DEF StartsTooLate, Finish, Settled
  <2>6. CASE Expire(t)
    BY <2>6, ExpireKeepsExecutor
  <2> QED BY <1>4, <2>3, <2>4, <2>5, <2>6 DEF TaskStep
<1>5. CASE UNCHANGED execVars
  <2>1. QueueInv' /\ aged' \in [Tasks -> BOOLEAN]
    BY <1>5, ExecutorFacts DEF execVars, QueueInv, InOrder, ExecutorInv, ExecInv, ExecTypeOK
  <2> QED BY <1>5, <2>1, RestKeepsExecutor DEF execVars
<1> QED BY <1>1, <1>2, <1>3, <1>4, <1>5 DEF ExecNext

\* The executor's counters count, its turns are the keys that wait for nothing but
\* a permit, and a key without work has no state (boundedKeyedExecutor.ts:54-119).
THEOREM ExecutorInvariant == ExecSpec => []ExecutorInv
<1> QED BY ExecutorStarts, ExecutorStep, PTL DEF ExecSpec

LEMMA PermitsAreUsed == ExecutorInv => NoIdlePermit
BY DEF ExecutorInv, ExecInv, ReadyKeysWait, NoIdlePermit, InTurn

\* Whatever is held at once: a state belongs to a task at work or waiting.
LEMMA BudgetsHold == ExecutorInv => WithinBudgets
<1> SUFFICES ASSUME ExecutorInv PROVE WithinBudgets
  OBVIOUS
<1>1. Cardinality(Working) <= MaxConcurrent
  BY ExecutorFacts DEF ExecutorInv, ExecInv
<1>2. ~pumping => Cardinality(Queued) <= MaxPending
  BY ExecutorFacts DEF ExecutorInv, QueueBounded
<1>3. ASSUME ~pumping PROVE Cardinality(states) <= MaxConcurrent + MaxPending
  <2> DEFINE Held == Working \cup Queued
             f == [t \in Held |-> key[t]]
  <2>1. IsFiniteSet(Held) /\ Cardinality(Held) = Cardinality(Working) + Cardinality(Queued)
    <3>1. Working \cap Queued = {}
      BY DEF Working, Queued
    <3>2. /\ IsFiniteSet(Held)
          /\ Cardinality(Held) = Cardinality(Working) + Cardinality(Queued) - Cardinality(Working \cap Queued)
      BY ExecutorFacts, FS_Union
    <3>3. Cardinality(Working \cap Queued) = 0
      BY <3>1, FS_EmptySet
    <3>4. Cardinality(Working) \in Nat /\ Cardinality(Queued) \in Nat
      BY ExecutorFacts
    <3> QED BY <3>2, <3>3, <3>4
  <2>2. \A t \in Held : key[t] \in states
    <3> SUFFICES ASSUME NEW t \in Held PROVE key[t] \in states
      OBVIOUS
    <3>1. t \in Tasks /\ t # 0 /\ key[t] \in Keys
      BY ExecutorFacts, QueueTypes DEF Working, Queued
    <3>2. t \in Working => holder[key[t]] = t
      BY <3>1 DEF Working, ExecutorInv, ExecInv, CountsExact
    <3>3. t \in Queued => t \in Pending(key[t])
      BY <3>1 DEF Queued, Pending
    <3> QED BY <3>1, <3>2, <3>3 DEF ExecutorInv, ExecInv, NoStaleState
  <2>3. ASSUME NEW k \in states PROVE \E t \in Held : f[t] = k
    <3>1. k \in Keys /\ (holder[k] # 0 \/ Pending(k) # {})
      BY <2>3 DEF ExecutorInv, ExecInv, NoStaleState
    <3>2. CASE holder[k] # 0
      <4>1. holder[k] \in Tasks /\ key[holder[k]] = k
        BY <3>1, <3>2, ExecutorFacts DEF ExecutorInv, ExecInv, CountsExact, QueueInv
      <4>2. holder[k] \in Working
        BY <4>1 DEF Working, ExecutorInv, ExecInv, CountsExact
      <4> QED BY <4>1, <4>2
    <3>3. CASE Pending(k) # {}
      <4>1. PICK t \in Pending(k) : TRUE
        BY <3>3
      <4>2. t \in Queued /\ key[t] = k
        BY <4>1 DEF Pending, Queued
      <4> QED BY <4>2
    <3> QED BY <3>1, <3>2, <3>3
  <2>4. f \in Surjection(Held, states)
    <3>1. f \in [Held -> states]
      BY <2>2
    <3> HIDE DEF f, Held
    <3> QED BY <2>3, <3>1 DEF Surjection
  <2> HIDE DEF f, Held
  <2>5. Cardinality(states) <= Cardinality(Held)
    BY <2>1, <2>4, FS_Surjection
  <2>6. IsFiniteSet(states)
    BY <2>1, <2>4, FS_Surjection
  <2>7. Cardinality(states) \in Nat
    BY <2>6, FS_CardinalityType
  <2> QED BY <1>1, <1>2, <1>3, <2>1, <2>5, <2>7, ExecutorFacts
<1> QED BY <1>1, <1>2, <1>3 DEF WithinBudgets, ExecutorInv, Working, Queued

\* A permit is never idle beside work that could run, at every rest of the executor;
\* what waits and runs stays within the limits; and the work of a key is dispatched
\* in the order of its admission, one at a time, whatever expires or fails
\* (boundedKeyedExecutor.ts:26, 54-119).
THEOREM ExecutorKeepsItsPromises == ExecSpec => [](NoIdlePermit /\ WithinBudgets /\ InOrder)
<1>1. ExecutorInv => NoIdlePermit /\ WithinBudgets /\ InOrder
  BY PermitsAreUsed, BudgetsHold DEF ExecutorInv
<1> QED BY <1>1, ExecutorInvariant, PTL

\* Every step of the writer is one of the executor or leaves it alone.
LEMMA WriterRunsExecutor == WriterSpec => ExecSpec
<1>1. WriterInit => ExecInit
  BY DEF WriterInit
<1>2. [WriterNext]_writerVars => [ExecNext]_execVars
  BY DEF WriterNext, ExecNext, Enqueue, Land, Notice, Forget, Execute, writerVars
<1> QED
  BY <1>1, <1>2, PTL DEF WriterSpec, ExecSpec

LEMMA ChangeTypes ==
    ASSUME ChangeInv
    PROVE  /\ QueueInv
           /\ print \in [Keys -> Prints \cup {NoPrint}] /\ queues \in [Keys -> {0} \cup Tasks]
           /\ content \in [Tasks -> Prints \cup {NoPrint}] /\ storedBy \in [Keys -> {0} \cup Tasks]
           /\ landed \subseteq Tasks
BY DEF ChangeInv, WriterTypeOK

\* A step after which no task is newer, and that writes nothing.
LEMMA LastStays ==
    ASSUME StagesGoOn, UNCHANGED key PROVE \A k \in Keys, t \in Tasks : LastOf(k, t) => (LastOf(k, t))'
BY DEF StagesGoOn, LastOf

LEMMA ExecuteKeeps ==
    ASSUME ChangeInv, Execute PROVE ChangeInv' /\ UNCHANGED storedBy
<1>1. UNCHANGED <<print, queues, content, landed, storedBy, noticed>>
  BY DEF Execute
<1>2. QueueInv' /\ StagesGoOn /\ UNCHANGED <<admitted, key>>
  BY ExecuteKeepsQueue DEF ChangeInv, Execute
<1>3. WriterTypeOK' /\ SkipLosesNothing'
  BY <1>1 DEF ChangeInv, WriterTypeOK, SkipLosesNothing
<1>4. \A k \in Keys : queues'[k] # 0 => (LastOf(k, queues[k]))'
  BY <1>1, <1>2, ChangeTypes DEF ChangeInv, LastOf, StagesGoOn
<1>5. \A k \in Keys : print'[k] # NoPrint /\ queues'[k] = 0 => (LastOf(k, storedBy[k]))'
  BY <1>1, <1>2, ChangeTypes DEF ChangeInv, LastOf, StagesGoOn
<1>6. \A t \in landed' : stage'[t] \in {"running", "done", "failed"} /\ t <= storedBy'[key'[t]]
  BY <1>1, <1>2, ChangeTypes DEF ChangeInv, StagesGoOn
<1> QED
  BY <1>1, <1>2, <1>3, <1>4, <1>5, <1>6 DEF ChangeInv

LEMMA ForgetKeeps ==
    ASSUME ChangeInv, NEW k \in Keys, Forget(k) PROVE ChangeInv' /\ UNCHANGED storedBy
<1>1. print' = [print EXCEPT ![k] = NoPrint] /\ UNCHANGED <<execVars, queues, content, landed, storedBy, noticed>>
  BY DEF Forget
<1>2. QueueInv'
  BY <1>1, ChangeTypes DEF QueueInv, InOrder, execVars
<1>3. print' \in [Keys -> Prints \cup {NoPrint}] /\ \A c \in Keys : print'[c] # NoPrint => print[c] = print'[c]
  BY <1>1, ChangeTypes
<1>4. WriterTypeOK' /\ SkipLosesNothing'
  BY <1>1, <1>3 DEF ChangeInv, WriterTypeOK, SkipLosesNothing
<1> QED
  BY <1>1, <1>2, <1>3, <1>4 DEF ChangeInv, LastOf, execVars

\* The newest of a key that was stored is what the key's document says.
LEMMA LandedLast ==
    ASSUME ChangeInv, NEW k \in Keys, NEW t \in Tasks, LastOf(k, t), t \in landed
    PROVE  storedBy[k] = t
<1>1. key[t] = k /\ t <= storedBy[k] /\ t # 0 /\ t \in Nat /\ storedBy[k] \in Nat
  BY ChangeTypes, QueueTypes DEF ChangeInv, LastOf
<1>2. storedBy[k] # 0
  BY <1>1
<1>3. storedBy[k] \in Tasks /\ storedBy[k] \in landed /\ key[storedBy[k]] = k
  BY <1>2, ChangeTypes DEF ChangeInv
<1>4. storedBy[k] <= t
  BY <1>3, ChangeTypes DEF ChangeInv, LastOf
<1> QED
  BY <1>1, <1>4

LEMMA LandKeeps ==
    ASSUME ChangeInv, NEW t \in Tasks, Land(t)
    PROVE  ChangeInv' /\ \A k \in Keys : storedBy'[k] >= storedBy[k]
<1> PICK k : k = key[t]
  OBVIOUS
<1>1. /\ stage[t] = "running" /\ t \notin landed /\ landed' = landed \cup {t}
      /\ storedBy' = [storedBy EXCEPT ![k] = t]
      /\ UNCHANGED <<execVars, print, queues, content, noticed>>
  BY DEF Land
<1>2. k \in Keys /\ t \in Nat /\ t # 0
  BY ChangeTypes, QueueTypes
<1>3. QueueInv'
  BY <1>1, ChangeTypes DEF QueueInv, InOrder, execVars
<1>4. storedBy' \in [Keys -> {0} \cup Tasks] /\ storedBy'[k] = t /\ \A c \in Keys \ {k} : storedBy'[c] = storedBy[c]
  BY <1>1, <1>2, ChangeTypes
<1>5. storedBy[k] < t
  <2>1. CASE storedBy[k] = 0
    BY <1>2, <2>1
  <2>2. CASE storedBy[k] # 0
    <3>1. storedBy[k] \in Tasks /\ storedBy[k] \in landed /\ key[storedBy[k]] = k
          /\ stage[storedBy[k]] \in {"running", "done", "failed"}
      BY <1>2, <2>2, ChangeTypes DEF ChangeInv
    <3>2. ~(t < storedBy[k])
      BY <1>1, <3>1, ChangeTypes DEF QueueInv, InOrder, Settled
    <3>3. t # storedBy[k] /\ storedBy[k] \in Nat
      BY <1>1, <3>1, ChangeTypes, QueueTypes
    <3> QED
      BY <1>2, <3>2, <3>3
  <2> QED
    BY <2>1, <2>2
<1>6. print[k] # NoPrint => queues[k] # 0
  <2> SUFFICES ASSUME print[k] # NoPrint, queues[k] = 0 PROVE FALSE
    OBVIOUS
  <2>1. LastOf(k, storedBy[k])
    BY <1>2 DEF ChangeInv
  <2>2. storedBy[k] \in Tasks /\ t <= storedBy[k]
    BY <1>1, <2>1 DEF LastOf
  <2>3. storedBy[k] \in Nat
    BY <2>2, QueueTypes, ChangeTypes
  <2> QED
    BY <1>2, <1>5, <2>2, <2>3
<1>7. WriterTypeOK'
  BY <1>1, <1>4 DEF ChangeInv, WriterTypeOK
<1>8. SkipLosesNothing'
  BY <1>1, <1>4, <1>6 DEF ChangeInv, SkipLosesNothing
<1>9. \A c \in Keys : queues'[c] # 0 => (LastOf(c, queues[c]))'
  BY <1>1 DEF ChangeInv, LastOf, execVars
<1>10. \A c \in Keys : print'[c] # NoPrint /\ queues'[c] = 0 => (LastOf(c, storedBy[c]))'
  BY <1>1, <1>4, <1>6 DEF ChangeInv, LastOf, execVars
<1>11. \A c \in Keys : storedBy'[c] # 0 => storedBy'[c] \in landed' /\ key'[storedBy'[c]] = c
  <2> SUFFICES ASSUME NEW c \in Keys, storedBy'[c] # 0 PROVE storedBy'[c] \in landed' /\ key[storedBy'[c]] = c
    BY <1>1 DEF execVars
  <2>1. CASE c = k
    BY <1>1, <1>4, <2>1
  <2>2. CASE c # k
    BY <1>1, <1>4, <2>2 DEF ChangeInv
  <2> QED
    BY <2>1, <2>2
<1>14. storedBy[k] \in Nat
  BY <1>2, ChangeTypes, QueueTypes
<1>12. \A u \in landed' : stage'[u] \in {"running", "done", "failed"} /\ u <= storedBy'[key'[u]]
  <2> SUFFICES ASSUME NEW u \in landed' PROVE stage[u] \in {"running", "done", "failed"} /\ u <= storedBy'[key[u]]
    BY <1>1 DEF execVars
  <2>1. CASE u = t
    BY <1>1, <1>2, <1>4, <2>1
  <2>2. CASE u # t
    <3>1. u \in landed /\ u \in Tasks /\ u \in Nat /\ u <= storedBy[key[u]] /\ key[u] \in Keys
          /\ stage[u] \in {"running", "done", "failed"}
      BY <1>1, <2>2, ChangeTypes, QueueTypes DEF ChangeInv
    <3>3. CASE key[u] = k
      BY <1>2, <1>4, <1>5, <1>14, <3>1, <3>3
    <3>4. CASE key[u] # k
      BY <1>4, <3>1, <3>4
    <3> QED
      BY <3>1, <3>3, <3>4
  <2> QED
    BY <2>1, <2>2
<1>13. \A c \in Keys : storedBy'[c] >= storedBy[c]
  <2> SUFFICES ASSUME NEW c \in Keys PROVE storedBy'[c] >= storedBy[c]
    OBVIOUS
  <2>1. storedBy[c] \in Nat
    BY ChangeTypes, QueueTypes
  <2> QED
    BY <1>2, <1>4, <1>5, <2>1
<1> QED
  BY <1>3, <1>7, <1>8, <1>9, <1>10, <1>11, <1>12, <1>13 DEF ChangeInv

LEMMA NoticeKeeps ==
    ASSUME ChangeInv, NEW t \in Tasks, Notice(t) PROVE ChangeInv' /\ UNCHANGED storedBy
<1> DEFINE k == key[t]
<1>1. /\ stage[t] \in Settled /\ noticed' = noticed \cup {t}
      /\ UNCHANGED <<execVars, content, landed, storedBy>>
      /\ queues' = IF queues[k] = t THEN [queues EXCEPT ![k] = 0] ELSE queues
      /\ \/ print' = [print EXCEPT ![k] = NoPrint]
         \/ UNCHANGED print /\ ~(print[k] = content[t] /\ (stage[t] # "done" \/ t \notin landed))
  BY DEF Notice, ForgetIfLost, LeaveQueue
<1>2. k \in Keys
  BY ChangeTypes, QueueTypes
<1> HIDE DEF k
<1>3. QueueInv'
  BY <1>1, ChangeTypes DEF QueueInv, InOrder, execVars
<1>4. /\ print' \in [Keys -> Prints \cup {NoPrint}] /\ queues' \in [Keys -> {0} \cup Tasks]
      /\ \A c \in Keys : print'[c] # NoPrint => print'[c] = print[c]
      /\ \A c \in Keys : queues'[c] = queues[c] \/ (c = k /\ queues[c] = t /\ queues'[c] = 0)
  BY <1>1, <1>2, ChangeTypes
<1>5. WriterTypeOK'
  BY <1>1, <1>4 DEF ChangeInv, WriterTypeOK
\* A write that is forgotten without its fingerprint is the newest, and stored.
<1>6. print'[k] # NoPrint /\ queues[k] = t => LastOf(k, storedBy[k]) /\ storedBy[k] = t /\ content[t] = print[k]
  <2> SUFFICES ASSUME print'[k] # NoPrint, queues[k] = t
               PROVE  LastOf(k, storedBy[k]) /\ storedBy[k] = t /\ content[t] = print[k]
    OBVIOUS
  <2>1. LastOf(k, t) /\ content[t] = print[k]
    BY <1>2, <1>4, ChangeTypes, QueueTypes DEF ChangeInv, SkipLosesNothing
  <2>2. t \in landed
    BY <1>1, <1>2, <2>1, ChangeTypes
  <2> QED
    BY <1>2, <2>1, <2>2, LandedLast
<1>7. t # 0
  BY ChangeTypes, QueueTypes
<1>8. SkipLosesNothing'
  <2> SUFFICES ASSUME NEW c \in Keys, print'[c] # NoPrint
               PROVE  IF queues'[c] = 0 THEN storedBy[c] # 0 /\ content[storedBy[c]] = print'[c]
                      ELSE content[queues'[c]] = print'[c]
    BY <1>1 DEF SkipLosesNothing
  <2>1. CASE queues'[c] = queues[c]
    BY <1>4, <2>1 DEF ChangeInv, SkipLosesNothing
  <2>2. CASE c = k /\ queues[c] = t /\ queues'[c] = 0
    BY <1>4, <1>6, <1>7, <2>2
  <2> QED
    BY <1>4, <2>1, <2>2
<1>9. \A c \in Keys : queues'[c] # 0 => (LastOf(c, queues[c]))'
  BY <1>1, <1>4 DEF ChangeInv, LastOf, execVars
<1>10. \A c \in Keys : print'[c] # NoPrint /\ queues'[c] = 0 => (LastOf(c, storedBy[c]))'
  BY <1>1, <1>4, <1>6 DEF ChangeInv, LastOf, execVars
<1> QED
  BY <1>1, <1>3, <1>5, <1>8, <1>9, <1>10 DEF ChangeInv, execVars

LEMMA EnqueueKeeps ==
    ASSUME ChangeInv, NEW k \in Keys, NEW v \in Prints, Enqueue(k, v) PROVE ChangeInv' /\ UNCHANGED storedBy
<1> PICK n : n = admitted + 1
  OBVIOUS
<1>1. /\ Run(k) /\ print' = [print EXCEPT ![k] = v] /\ queues' = [queues EXCEPT ![k] = n]
      /\ content' = [content EXCEPT ![n] = v] /\ UNCHANGED <<landed, storedBy, noticed>>
  BY DEF Enqueue
<1>2. /\ QueueInv' /\ n \in Tasks /\ stage[n] = "new" /\ stage'[n] = "waiting" /\ key'[n] = k
      /\ \A t \in Tasks \ {n} : stage'[t] = stage[t] /\ key'[t] = key[t]
      /\ \A t \in Tasks : stage[t] # "new" => t < n
  BY <1>1, RunKeepsQueue DEF ChangeInv
<1>3. n \in Nat /\ n # 0 /\ v # NoPrint
  BY <1>2, ChangeTypes, QueueTypes, PrintAssumption
<1>4. /\ print' \in [Keys -> Prints \cup {NoPrint}] /\ print'[k] = v /\ (\A c \in Keys \ {k} : print'[c] = print[c])
      /\ queues' \in [Keys -> {0} \cup Tasks] /\ queues'[k] = n /\ (\A c \in Keys \ {k} : queues'[c] = queues[c])
      /\ content' \in [Tasks -> Prints \cup {NoPrint}] /\ content'[n] = v
      /\ (\A t \in Tasks \ {n} : content'[t] = content[t])
  BY <1>1, <1>2, ChangeTypes
<1>5. WriterTypeOK'
  BY <1>1, <1>4 DEF ChangeInv, WriterTypeOK
<1>6. \A c \in Keys \ {k}, t \in Tasks : LastOf(c, t) => (LastOf(c, t))' /\ t # n
  BY <1>2 DEF LastOf
<1>7. (LastOf(k, n))'
  <2>1. \A u \in Tasks : stage'[u] # "new" => u <= n
    BY <1>2, <1>3, ChangeTypes, QueueTypes
  <2> QED
    BY <1>2, <2>1 DEF LastOf
<1>8. \A c \in Keys : queues'[c] # 0 => (LastOf(c, queues[c]))'
  <2> SUFFICES ASSUME NEW c \in Keys, queues'[c] # 0 PROVE (LastOf(c, queues[c]))'
    OBVIOUS
  <2>1. CASE c = k
    BY <1>4, <1>7, <2>1 DEF LastOf
  <2>2. CASE c # k
    <3>1. LastOf(c, queues[c]) /\ queues[c] = queues'[c] /\ queues[c] \in Tasks
      BY <1>4, <2>2 DEF ChangeInv, LastOf
    <3> QED
      BY <1>6, <2>2, <3>1 DEF LastOf
  <2> QED
    BY <2>1, <2>2
<1>9. \A c \in Keys : print'[c] # NoPrint /\ queues'[c] = 0 => (LastOf(c, storedBy[c]))'
  <2> SUFFICES ASSUME NEW c \in Keys, print'[c] # NoPrint, queues'[c] = 0 PROVE (LastOf(c, storedBy[c]))'
    OBVIOUS
  <2>1. c # k
    BY <1>3, <1>4
  <2>2. LastOf(c, storedBy[c]) /\ storedBy[c] \in Tasks
    BY <1>4, <2>1 DEF ChangeInv, LastOf
  <2> QED
    BY <1>1, <1>6, <2>1, <2>2 DEF LastOf
<1>10. SkipLosesNothing'
  <2> SUFFICES ASSUME NEW c \in Keys, print'[c] # NoPrint
               PROVE  IF queues'[c] = 0 THEN storedBy[c] # 0 /\ content'[storedBy[c]] = print'[c]
                      ELSE content'[queues'[c]] = print'[c]
    BY <1>1 DEF SkipLosesNothing
  <2>1. CASE c = k
    BY <1>3, <1>4, <2>1
  <2>2. CASE c # k /\ queues[c] = 0
    <3>1. storedBy[c] # 0 /\ content[storedBy[c]] = print[c] /\ LastOf(c, storedBy[c]) /\ storedBy[c] \in Tasks
      BY <1>4, <2>2 DEF ChangeInv, SkipLosesNothing, LastOf
    <3> QED
      BY <1>4, <1>6, <2>2, <3>1
  <2>3. CASE c # k /\ queues[c] # 0
    <3>1. content[queues[c]] = print[c] /\ LastOf(c, queues[c]) /\ queues[c] \in Tasks
      BY <1>4, <2>3 DEF ChangeInv, SkipLosesNothing, LastOf
    <3> QED
      BY <1>4, <1>6, <2>3, <3>1
  <2> QED
    BY <2>1, <2>2, <2>3
<1>11. \A t \in landed : t \in Tasks /\ t # n
  BY <1>2, ChangeTypes DEF ChangeInv
<1>12. \A c \in Keys : storedBy'[c] # 0 => storedBy'[c] \in landed' /\ key'[storedBy'[c]] = c
  BY <1>1, <1>2, <1>11 DEF ChangeInv
<1>13. \A t \in landed' : stage'[t] \in {"running", "done", "failed"} /\ t <= storedBy'[key'[t]]
  BY <1>1, <1>2, <1>11 DEF ChangeInv
<1> QED
  BY <1>1, <1>2, <1>5, <1>8, <1>9, <1>10, <1>12, <1>13 DEF ChangeInv

\* No older transition overwrites a newer one.
LEMMA WriterStep ==
    ChangeInv /\ [WriterNext]_writerVars => ChangeInv' /\ \A k \in Keys : storedBy'[k] >= storedBy[k]
<1> SUFFICES ASSUME ChangeInv, [WriterNext]_writerVars
             PROVE  ChangeInv' /\ \A k \in Keys : storedBy'[k] >= storedBy[k]
  OBVIOUS
<1>1. UNCHANGED storedBy => \A k \in Keys : storedBy'[k] >= storedBy[k]
  BY ChangeTypes, QueueTypes
<1>2. CASE UNCHANGED writerVars
  <2>1. UNCHANGED storedBy
    BY <1>2 DEF writerVars
  <2>2. ChangeInv'
    BY <1>2 DEF writerVars, execVars, ChangeInv, QueueInv, InOrder, WriterTypeOK, LastOf, SkipLosesNothing
  <2> QED
    BY <1>1, <2>1, <2>2
<1>3. CASE WriterNext
  BY <1>1, <1>3, ExecuteKeeps, ForgetKeeps, LandKeeps, NoticeKeeps, EnqueueKeeps DEF WriterNext
<1> QED
  BY <1>2, <1>3

\* Work of a key runs in the order of its admission, and a fingerprint stands for
\* the newest of it, queued or stored.
THEOREM WriterInvariant == WriterSpec => []ChangeInv
BY WriterStarts, WriterStep, PTL DEF WriterSpec

\* However writes fail, expire, decline or are refused, no older one overwrites a
\* newer one, and none is skipped that was lost (SerializedChangeWriter.enqueue()).
THEOREM NewestIsKeptAlways == WriterSpec => NewestIsKept
<1>1. ChangeInv /\ [WriterNext]_writerVars =>
         [SkipLosesNothing' /\ \A k \in Keys : storedBy'[k] >= storedBy[k]]_writerVars
  BY WriterStep DEF ChangeInv
<1> QED
  BY <1>1, WriterInvariant, PTL DEF WriterSpec, NewestIsKept
-----------------------------------------------------------------------------
\* Feedback.

FeedbackTimes ==
    /\ dayTime \in Nat /\ given \in [Feedbacks -> Nat \cup {NoStamp}] /\ cooldown \in Nat \cup {NoStamp}
    /\ cooldown <= dayTime /\ \A r \in Feedbacks : given[r] <= cooldown
    /\ \A r, s \in Feedbacks :
          r # s /\ given[r] # NoStamp /\ given[s] # NoStamp => given[r] - given[s] >= Day \/ given[s] - given[r] >= Day

LEMMA FeedbackTypes ==
    ASSUME FeedbackInv
    PROVE  /\ FeedbackTimes /\ form \in [Tabs -> Forms] /\ ahead \in Int /\ stored \in Int /\ thanked \subseteq Feedbacks
           /\ Day \in Nat /\ DeviceTime \in Int
BY FeedbackAssumption DEF FeedbackInv, FeedbackTypeOK, FeedbackIsKept, FeedbackTimes, Forms, DeviceTime

\* A feedback that is stored: every other one is a day older at least.
LEMMA StoresKeepsTimes ==
    ASSUME FeedbackTimes, NEW r \in Feedbacks, given[r] = NoStamp, CooldownReady, Stores(r), UNCHANGED dayTime
    PROVE  FeedbackTimes' /\ \A x \in Feedbacks : given[x] # NoStamp => given'[x] # NoStamp
<1>1. /\ given' \in [Feedbacks -> Nat \cup {NoStamp}] /\ given'[r] = dayTime /\ cooldown' = dayTime
      /\ \A x \in Feedbacks \ {r} : given'[x] = given[x]
  BY DEF Stores, FeedbackTimes
<1>2. dayTime \in Nat /\ NoStamp = -1 /\ Day \in Nat
  BY FeedbackAssumption DEF FeedbackTimes, NoStamp
<1>3. \A x \in Feedbacks : given[x] # NoStamp => given[x] \in Nat /\ dayTime - given[x] >= Day /\ given[x] <= dayTime
  <2> SUFFICES ASSUME NEW x \in Feedbacks, given[x] # NoStamp
               PROVE  given[x] \in Nat /\ dayTime - given[x] >= Day /\ given[x] <= dayTime
    OBVIOUS
  <2>1. given[x] \in Nat /\ cooldown \in Nat \cup {NoStamp} /\ given[x] <= cooldown
    BY DEF FeedbackTimes
  <2>2. cooldown # NoStamp
    BY <1>2, <2>1
  <2>3. cooldown \in Nat /\ dayTime >= cooldown + Day
    BY <2>1, <2>2 DEF CooldownReady
  <2> QED
    BY <1>2, <2>1, <2>3
<1>4. \A x \in Feedbacks : given'[x] <= cooldown'
  <2> SUFFICES ASSUME NEW x \in Feedbacks PROVE given'[x] <= dayTime
    BY <1>1
  <2>1. CASE x = r
    BY <1>1, <1>2, <2>1
  <2>2. CASE x # r /\ given[x] = NoStamp
    BY <1>1, <1>2, <2>2
  <2>3. CASE x # r /\ given[x] # NoStamp
    BY <1>1, <1>3, <2>3
  <2> QED
    BY <2>1, <2>2, <2>3
<1>5. ASSUME NEW x \in Feedbacks, NEW y \in Feedbacks, x # y, given'[x] # NoStamp, given'[y] # NoStamp
      PROVE  given'[x] - given'[y] >= Day \/ given'[y] - given'[x] >= Day
  <2>1. CASE x = r
    BY <1>1, <1>3, <1>5, <2>1
  <2>2. CASE y = r
    BY <1>1, <1>3, <1>5, <2>2
  <2>3. CASE x # r /\ y # r
    BY <1>1, <1>5, <2>3 DEF FeedbackTimes
  <2> QED
    BY <2>1, <2>2, <2>3
<1>6. cooldown' \in Nat \cup {NoStamp} /\ cooldown' <= dayTime' /\ dayTime' \in Nat
  BY <1>1, <1>2
<1>7. \A x \in Feedbacks : given[x] # NoStamp => given'[x] # NoStamp
  BY <1>1, <1>2
<1> QED
  BY <1>1, <1>4, <1>5, <1>6, <1>7 DEF FeedbackTimes

\* A step that changes one tab at most, after which the stored ones are stored.
LEMMA FormKeeps ==
    ASSUME FeedbackInv, FeedbackTimes', \A x \in Feedbacks : given[x] # NoStamp => given'[x] # NoStamp,
           NEW t \in Tabs, NEW f \in Forms, form' = [form EXCEPT ![t] = f],
           f.at # "no" => f.pending # NoFeedback,
           f.at = "stored" => given'[f.pending] # NoStamp,
           ahead' \in Int, stored' \in Int, thanked' \subseteq Feedbacks, \A r \in thanked' : given'[r] # NoStamp,
           \A c \in lateCommits' : c.request \in Feedbacks
    PROVE  FeedbackInv'
<1>1. form' \in [Tabs -> Forms] /\ form'[t] = f /\ \A x \in Tabs \ {t} : form'[x] = form[x]
  BY FeedbackTypes
<1>2. \A x \in Tabs : form[x] \in Forms
  BY FeedbackTypes
<1>3. \A x \in Tabs : form'[x].at # "no" => form'[x].pending # NoFeedback
  BY <1>1 DEF FeedbackInv
<1>4. \A x \in Tabs : form'[x].at = "stored" => given'[form'[x].pending] # NoStamp
  <2> SUFFICES ASSUME NEW x \in Tabs, form'[x].at = "stored" PROVE given'[form'[x].pending] # NoStamp
    OBVIOUS
  <2>1. CASE x = t
    BY <1>1, <2>1
  <2>2. CASE x # t
    <3>1. form[x].at = "stored" /\ form[x].pending \in Feedbacks /\ given[form[x].pending] # NoStamp
      BY <1>1, <1>2, <2>2 DEF FeedbackInv, Forms
    <3> QED
      BY <1>1, <2>2, <3>1
  <2> QED
    BY <2>1, <2>2
<1> QED
  BY <1>1, <1>3, <1>4 DEF FeedbackInv, FeedbackTypeOK, FeedbackIsKept, FeedbackTimes, Forms

\* A step that leaves the forms alone.
LEMMA OutsideKeeps ==
    ASSUME FeedbackInv, FeedbackTimes', \A x \in Feedbacks : given[x] # NoStamp => given'[x] # NoStamp,
           ahead' \in Int, UNCHANGED <<form, stored, thanked>>, lateCommits' \subseteq lateCommits
    PROVE  FeedbackInv'
<1>1. \A x \in Tabs : form[x].at = "stored" => given'[form[x].pending] # NoStamp
  <2> SUFFICES ASSUME NEW x \in Tabs, form[x].at = "stored" PROVE given'[form[x].pending] # NoStamp
    OBVIOUS
  <2>1. form[x] \in Forms
    BY FeedbackTypes
  <2>2. form[x].pending \in Feedbacks /\ given[form[x].pending] # NoStamp
    BY <2>1 DEF FeedbackInv, Forms
  <2> QED
    BY <2>2
<1>2. \A r \in thanked : given'[r] # NoStamp
  BY DEF FeedbackInv, FeedbackTypeOK, FeedbackIsKept
<1> QED
  BY <1>1, <1>2 DEF FeedbackInv, FeedbackTypeOK, FeedbackIsKept, FeedbackTimes

LEMMA TimesStay ==
    ASSUME FeedbackInv, UNCHANGED <<given, cooldown, dayTime>>
    PROVE  FeedbackTimes' /\ \A x \in Feedbacks : given[x] # NoStamp => given'[x] # NoStamp
BY FeedbackTypes DEF FeedbackTimes

LEMMA FeedbackStarts == FeedbackInit => FeedbackInv
BY FeedbackAssumption DEF FeedbackInit, FeedbackInv, FeedbackTypeOK, FeedbackIsKept, NoForm, Forms, NoStamp,
   NoFeedback

LEMMA FormTypes ==
    ASSUME FeedbackInv, NEW t \in Tabs
    PROVE  /\ form[t] \in Forms /\ form[t].at # "no" => form[t].pending \in Feedbacks
           /\ thanked \subseteq Feedbacks /\ \A r \in thanked : given[r] # NoStamp
           /\ \A c \in lateCommits : c.request \in Feedbacks
<1>1. form[t] \in Forms
  BY FeedbackTypes
<1> QED
  BY <1>1 DEF FeedbackInv, FeedbackTypeOK, FeedbackIsKept, Forms

LEMMA PressKeeps ==
    ASSUME FeedbackInv, NEW t \in Tabs, Press(t) PROVE FeedbackInv'
<1>1. PICK r \in IF form[t].pending # NoFeedback THEN {form[t].pending} ELSE NextFeedback :
          form' = [form EXCEPT ![t].pending = r, ![t].at = "asked"]
  BY DEF Press
<1>2. form[t] \in Forms /\ form \in [Tabs -> Forms]
  BY FormTypes, FeedbackTypes
<1>3. r \in Feedbacks
  BY <1>1, <1>2 DEF Forms, NextFeedback
<1>4. r # NoFeedback
  BY <1>3 DEF Feedbacks, NoFeedback
<1> DEFINE f == [form[t] EXCEPT !.pending = r, !.at = "asked"]
<1>5. f \in Forms /\ f.at = "asked" /\ f.pending = r
  BY <1>2, <1>3 DEF Forms
<1>6. form' = [form EXCEPT ![t] = f]
  BY <1>1, <1>2
<1>7. UNCHANGED <<dayTime, ahead, given, cooldown, stored, lateCommits, thanked>>
  BY DEF Press
<1> HIDE DEF f
<1> QED
  BY <1>4, <1>5, <1>6, <1>7, TimesStay, FormKeeps, FeedbackTypes, FormTypes

LEMMA ReadKeeps ==
    ASSUME FeedbackInv, NEW t \in Tabs, ReadFeedback(t) PROVE FeedbackInv'
<1>1. form[t] \in Forms /\ form \in [Tabs -> Forms] /\ form[t].at = "asked" /\ form[t].pending \in Feedbacks
      /\ form[t].pending # NoFeedback
  BY FormTypes, FeedbackTypes DEF ReadFeedback, FeedbackInv
<1>2. UNCHANGED <<dayTime, ahead, given, cooldown, lateCommits, thanked>>
  BY DEF ReadFeedback
<1>6. /\ FeedbackTimes' /\ (\A x \in Feedbacks : given[x] # NoStamp => given'[x] # NoStamp)
      /\ ahead' \in Int /\ stored \in Int /\ thanked' \subseteq Feedbacks
      /\ (\A r \in thanked' : given'[r] # NoStamp) /\ \A c \in lateCommits' : c.request \in Feedbacks
  BY <1>2, TimesStay, FeedbackTypes, FormTypes
<1>3. CASE given[form[t].pending] # NoStamp /\ form' = [form EXCEPT ![t].at = "stored"] /\ UNCHANGED stored
  <2> DEFINE f == [form[t] EXCEPT !.at = "stored"]
  <2>1. f \in Forms /\ f.at = "stored" /\ f.pending = form[t].pending
    BY <1>1 DEF Forms
  <2>2. form' = [form EXCEPT ![t] = f]
    BY <1>1, <1>3
  <2>3. stored' \in Int /\ f.pending # NoFeedback /\ given'[f.pending] # NoStamp
    BY <1>1, <1>3, <1>6, <2>1
  <2> HIDE DEF f
  <2> QED
    BY <1>6, <2>1, <2>2, <2>3, FormKeeps
<1>4. CASE /\ form' = [form EXCEPT ![t].at = "no", ![t].until = DeviceTime + Day - StampAge]
           /\ stored' = DeviceTime - StampAge
  <2> PICK u : u = DeviceTime + Day - StampAge
    OBVIOUS
  <2> DEFINE f == [form[t] EXCEPT !.at = "no", !.until = u]
  <2>1. u \in Int /\ stored' \in Int
    <3>1. cooldown \in Int
      BY FeedbackTypes DEF FeedbackTimes, NoStamp
    <3> QED
      BY <1>4, <3>1, FeedbackTypes DEF StampAge
  <2>2. f \in Forms /\ f.at = "no"
    BY <1>1, <2>1 DEF Forms
  <2>3. form' = [form EXCEPT ![t] = f]
    BY <1>1, <1>4
  <2> HIDE DEF f
  <2> QED
    BY <1>6, <2>1, <2>2, <2>3, FormKeeps
<1>5. CASE form' = [form EXCEPT ![t].at = "read", ![t].read = cooldown] /\ UNCHANGED stored
  <2> DEFINE f == [form[t] EXCEPT !.at = "read", !.read = cooldown]
  <2>1. f \in Forms /\ f.at = "read" /\ f.pending = form[t].pending
    BY <1>1, FeedbackTypes DEF Forms, FeedbackTimes
  <2>2. form' = [form EXCEPT ![t] = f]
    BY <1>1, <1>5
  <2> HIDE DEF f
  <2> QED
    BY <1>1, <1>5, <1>6, <2>1, <2>2, FormKeeps
<1> QED
  BY <1>3, <1>4, <1>5 DEF ReadFeedback

LEMMA FeedbackCommitKeeps ==
    ASSUME FeedbackInv, NEW t \in Tabs, CommitFeedback(t) PROVE FeedbackInv'
<1> PICK r : r = form[t].pending
  OBVIOUS
<1>1. form[t] \in Forms /\ form \in [Tabs -> Forms] /\ r \in Feedbacks /\ r # NoFeedback
  BY FormTypes, FeedbackTypes DEF CommitFeedback, FeedbackInv
<1>2. UNCHANGED <<dayTime, ahead, stored, lateCommits, thanked>>
  BY DEF CommitFeedback
<1>3. ASSUME FeedbackTimes', \A x \in Feedbacks : given[x] # NoStamp => given'[x] # NoStamp,
             NEW p \in {"no", "asked", "stored"}, form' = [form EXCEPT ![t].at = p],
             p = "stored" => given'[r] # NoStamp
      PROVE  FeedbackInv'
  <2> DEFINE f == [form[t] EXCEPT !.at = p]
  <2>1. f \in Forms /\ f.at = p /\ f.pending = r
    BY <1>1 DEF Forms
  <2>2. form' = [form EXCEPT ![t] = f]
    BY <1>1, <1>3
  <2>3. /\ ahead' \in Int /\ stored' \in Int /\ thanked' \subseteq Feedbacks
        /\ (\A x \in thanked' : given'[x] # NoStamp) /\ \A c \in lateCommits' : c.request \in Feedbacks
    BY <1>2, <1>3, FeedbackTypes, FormTypes
  <2> HIDE DEF f
  <2> QED
    BY <1>1, <1>3, <2>1, <2>2, <2>3, FormKeeps
<1>4. CASE given[r] = NoStamp /\ CooldownReady /\ Stores(r) /\ form' = [form EXCEPT ![t].at = "stored"]
  <2>1. FeedbackTimes' /\ \A x \in Feedbacks : given[x] # NoStamp => given'[x] # NoStamp
    BY <1>1, <1>2, <1>4, StoresKeepsTimes, FeedbackTypes
  <2>2. given'[r] # NoStamp
    BY <1>1, <1>4, FeedbackTypes DEF Stores, FeedbackTimes, NoStamp
  <2> QED
    BY <1>3, <1>4, <2>1, <2>2
<1>5. CASE form' = [form EXCEPT ![t].at = "no"] /\ UNCHANGED <<given, cooldown>>
  BY <1>2, <1>3, <1>5, TimesStay
<1>6. CASE form' = [form EXCEPT ![t].at = "asked"] /\ UNCHANGED <<given, cooldown>>
  BY <1>2, <1>3, <1>6, TimesStay
<1> QED
  BY <1>4, <1>5, <1>6 DEF CommitFeedback

LEMMA ThankedKeeps ==
    ASSUME FeedbackInv, NEW t \in Tabs, Thanked(t) PROVE FeedbackInv'
<1> PICK u : u = DeviceTime + Day
  OBVIOUS
<1> DEFINE f == [form[t] EXCEPT !.at = "no", !.pending = NoFeedback, !.until = u]
<1>1. form[t] \in Forms /\ form \in [Tabs -> Forms] /\ form[t].pending \in Feedbacks /\ form[t].at = "stored"
  BY FormTypes, FeedbackTypes DEF Thanked
<1>2. given[form[t].pending] # NoStamp
  BY <1>1 DEF FeedbackInv
<1>7. u \in Int
  BY FeedbackTypes
<1>3. f \in Forms /\ f.at = "no"
  BY <1>1, <1>7 DEF Forms
<1>4. form' = [form EXCEPT ![t] = f]
  BY <1>1 DEF Thanked
<1>5. UNCHANGED <<dayTime, ahead, given, cooldown, lateCommits>> /\ stored' \in Int
      /\ thanked' = thanked \cup {form[t].pending}
  BY FeedbackTypes DEF Thanked
<1>6. /\ FeedbackTimes' /\ (\A x \in Feedbacks : given[x] # NoStamp => given'[x] # NoStamp)
      /\ ahead' \in Int /\ thanked' \subseteq Feedbacks
      /\ (\A r \in thanked' : given'[r] # NoStamp) /\ \A c \in lateCommits' : c.request \in Feedbacks
  BY <1>1, <1>2, <1>5, TimesStay, FeedbackTypes, FormTypes
<1> HIDE DEF f
<1> QED
  BY <1>3, <1>4, <1>5, <1>6, FormKeeps

LEMMA FailKeeps ==
    ASSUME FeedbackInv, NEW t \in Tabs, FailFeedback(t) PROVE FeedbackInv'
<1> DEFINE f == [form[t] EXCEPT !.at = "no"]
<1>1. form[t] \in Forms /\ form \in [Tabs -> Forms] /\ form[t].pending \in Feedbacks
  BY FormTypes, FeedbackTypes DEF FailFeedback
<1>2. f \in Forms /\ f.at = "no"
  BY <1>1 DEF Forms
<1>3. form' = [form EXCEPT ![t] = f]
  BY <1>1 DEF FailFeedback
<1>4. UNCHANGED <<dayTime, ahead, given, cooldown, stored, thanked>>
  BY DEF FailFeedback
<1>5. \A c \in lateCommits' : c.request \in Feedbacks
  BY <1>1, FormTypes DEF FailFeedback
<1>6. /\ FeedbackTimes' /\ (\A x \in Feedbacks : given[x] # NoStamp => given'[x] # NoStamp)
      /\ ahead' \in Int /\ stored' \in Int /\ thanked' \subseteq Feedbacks /\ \A r \in thanked' : given'[r] # NoStamp
  BY <1>4, TimesStay, FeedbackTypes, FormTypes
<1> HIDE DEF f
<1> QED
  BY <1>2, <1>3, <1>5, <1>6, FormKeeps

LEMMA ReopenKeeps ==
    ASSUME FeedbackInv, NEW t \in Tabs, Reopen(t) PROVE FeedbackInv'
<1>1. NoForm \in Forms /\ NoForm.at = "no"
  BY DEF NoForm, Forms, NoStamp, NoFeedback
<1>2. form' = [form EXCEPT ![t] = NoForm] /\ UNCHANGED <<dayTime, ahead, given, cooldown, stored, lateCommits, thanked>>
  BY DEF Reopen
<1>3. /\ FeedbackTimes' /\ (\A x \in Feedbacks : given[x] # NoStamp => given'[x] # NoStamp)
      /\ ahead' \in Int /\ stored' \in Int /\ thanked' \subseteq Feedbacks
      /\ (\A r \in thanked' : given'[r] # NoStamp) /\ \A c \in lateCommits' : c.request \in Feedbacks
  BY <1>2, TimesStay, FeedbackTypes, FormTypes
<1> QED
  BY <1>1, <1>2, <1>3, FormKeeps

\* The backend's own transaction: evaluateFeedback's condition is the rules'.
LEMMA PostKeeps ==
    ASSUME FeedbackInv, PostFeedback PROVE FeedbackInv'
<1>1. PICK r \in (Used \cup NextFeedback) : given[r] = NoStamp /\ Evaluated /\ Stores(r)
  BY DEF PostFeedback
<1>2. r \in Feedbacks
  BY <1>1 DEF Used, NextFeedback
<1>3. CooldownReady
  <2>1. dayTime \in Nat /\ Day \in Nat /\ cooldown \in Int
    BY FeedbackTypes DEF FeedbackTimes, NoStamp
  <2> QED
    BY <1>1, <2>1 DEF Evaluated, CooldownReady
<1>4. UNCHANGED <<dayTime, ahead, form, stored, lateCommits, thanked>>
  BY DEF PostFeedback
<1>5. FeedbackTimes' /\ \A x \in Feedbacks : given[x] # NoStamp => given'[x] # NoStamp
  BY <1>1, <1>2, <1>3, <1>4, StoresKeepsTimes, FeedbackTypes
<1> QED
  BY <1>4, <1>5, OutsideKeeps, FeedbackTypes

LEMMA LateKeeps ==
    ASSUME FeedbackInv, LateFeedback PROVE FeedbackInv'
<1>1. PICK c \in lateCommits :
          /\ lateCommits' = lateCommits \ {c}
          /\ IF cooldown = c.read /\ given[c.request] = NoStamp /\ CooldownReady
             THEN Stores(c.request) ELSE UNCHANGED <<given, cooldown>>
  BY DEF LateFeedback
<1>2. UNCHANGED <<dayTime, ahead, form, stored, thanked>> /\ c.request \in Feedbacks
  BY DEF LateFeedback, FeedbackInv
<1>3. FeedbackTimes' /\ \A x \in Feedbacks : given[x] # NoStamp => given'[x] # NoStamp
  <2>1. CASE given[c.request] = NoStamp /\ CooldownReady /\ Stores(c.request)
    BY <1>2, <2>1, StoresKeepsTimes, FeedbackTypes
  <2>2. CASE UNCHANGED <<given, cooldown>>
    BY <1>2, <2>2, TimesStay
  <2> QED
    BY <1>1, <2>1, <2>2
<1> QED
  BY <1>1, <1>2, <1>3, OutsideKeeps, FeedbackTypes

LEMMA ClocksKeep ==
    ASSUME FeedbackInv, FeedbackTick \/ SetRight PROVE FeedbackInv'
<1>1. UNCHANGED <<given, cooldown, form, stored, lateCommits, thanked>> /\ ahead' \in Int
      /\ dayTime' \in Nat /\ dayTime' >= dayTime
  BY FeedbackTypes DEF FeedbackTick, SetRight, FeedbackTimes
<1>2. FeedbackTimes' /\ \A x \in Feedbacks : given[x] # NoStamp => given'[x] # NoStamp
  <2>1. cooldown \in Int /\ cooldown <= dayTime /\ dayTime \in Nat
    BY FeedbackTypes DEF FeedbackTimes, NoStamp
  <2>2. cooldown <= dayTime'
    BY <1>1, <2>1
  <2> QED
    BY <1>1, <2>2, FeedbackTypes DEF FeedbackTimes
<1> QED
  BY <1>1, <1>2, OutsideKeeps

LEMMA FeedbackStep == FeedbackInv /\ [FeedbackNext]_feedbackVars => FeedbackInv'
<1> SUFFICES ASSUME FeedbackInv, [FeedbackNext]_feedbackVars PROVE FeedbackInv'
  OBVIOUS
<1>1. CASE UNCHANGED feedbackVars
  BY <1>1, TimesStay, OutsideKeeps, FeedbackTypes DEF feedbackVars
<1>2. CASE FeedbackTick \/ SetRight
  BY <1>2, ClocksKeep
<1>3. CASE LateFeedback
  BY <1>3, LateKeeps
<1>4. CASE PostFeedback
  BY <1>4, PostKeeps
<1>5. ASSUME NEW t \in Tabs, Press(t) \/ ReadFeedback(t) \/ CommitFeedback(t) \/ Thanked(t) \/ FailFeedback(t) \/ Reopen(t)
      PROVE  FeedbackInv'
  BY <1>5, PressKeeps, ReadKeeps, FeedbackCommitKeeps, ThankedKeeps, FailKeeps, ReopenKeeps
<1> QED
  BY <1>1, <1>2, <1>3, <1>4, <1>5 DEF FeedbackNext

\* The feedback's inductive invariant (feedbackStore.ts, routes/feedback.ts): the
\* cooldown is the time of the last feedback, and every other is a day older.
THEOREM FeedbackInvariant == FeedbackSpec => []FeedbackInv
BY FeedbackStarts, FeedbackStep, PTL DEF FeedbackSpec

\* Two feedbacks are a day apart and only stored ones are thanked for, whatever
\* the device's clock, the retries and the late commits (FeedbackModal.tsx).
THEOREM FeedbackIsKeptAlways == FeedbackSpec => []FeedbackIsKept
<1>1. FeedbackInv => FeedbackIsKept
  BY DEF FeedbackInv
<1> QED
  BY <1>1, FeedbackInvariant, PTL
-----------------------------------------------------------------------------
\* The chat.

LEMMA ChatTypes ==
    ASSUME ChatInv
    PROVE  /\ chatTime \in Nat /\ rideChat \in Rides /\ panel \in Panels /\ executing \subseteq Messages
           /\ messages \subseteq Messages /\ archived \subseteq Messages /\ clearing.page \subseteq Messages
           /\ Sent \subseteq Messages /\ clearing \in [at : {"no", "read"}, page : SUBSET Messages]
           /\ written.times \in [Requests -> Nat] /\ written.for \in [Texts -> Nat] /\ written.at \subseteq Nat
           /\ \A q \in Messages : q.request \in Requests /\ q.text \in Texts
BY DEF ChatInv, ChatTypeOK, Sent, Retaining, Messages, Rides, Panels

LEMMA ChatNumbers ==
    /\ MinGap \in Nat /\ MinGap >= 1 /\ MinuteSpan \in Nat /\ HourSpan \in Nat /\ MinGap <= MinuteSpan /\ MinuteSpan <= HourSpan
    /\ MinuteMost \in Nat /\ HourMost \in Nat
    /\ Requests \subseteq Nat /\ NotAsked \notin Requests /\ NotAsked = 0 /\ Texts \subseteq Nat
BY ChatAssumption DEF Requests, Texts, NotAsked

LEMMA RequestNumbers == {NotAsked} \cup Requests \subseteq Nat /\ NotAsked = 0 /\ NotAsked \notin Requests /\ Texts \subseteq Nat
BY ChatAssumption DEF Requests, Texts, NotAsked

LEMMA LessThenAtMost == \A x, y, z \in Nat : x < y /\ y <= z => x < z
OBVIOUS

LEMMA OneMore ==
    ASSUME NEW S, IsFiniteSet(S), NEW x
    PROVE  IsFiniteSet(S \cup {x}) /\ Cardinality(S \cup {x}) <= Cardinality(S) + 1
<1> PICK n : n = Cardinality(S)
  OBVIOUS
<1> PICK m : m = Cardinality(S \cup {x})
  OBVIOUS
<1>1. IsFiniteSet(S \cup {x}) /\ n \in Nat /\ (m = n \/ m = n + 1)
  BY FS_AddElement, FS_CardinalityType
<1>2. m <= n + 1
  BY <1>1
<1> QED
  BY <1>1, <1>2

LEMMA LimitsTypes == \A w \in Limits : w.span \in Nat /\ w.most \in Nat /\ w.span <= HourSpan
BY ChatAssumption DEF Limits

\* A step of the panel, or an answer to it.
LEMMA PanelKeeps ==
    ASSUME ChatInv, UNCHANGED <<chatTime, rideChat, messages, archived, clearing, written>>,
           panel' \in Panels, executing' \subseteq Messages,
           rideChat.open => panel'.answer # "closed" /\ TextsOwn'
    PROVE  ChatInv'
<1>1. ChatTypeOK'
  BY DEF ChatInv, ChatTypeOK, Sent, Retaining, Panels
<1>2. RateKept' /\ StoredOnce' /\ SweptIsEmpty' /\ (StoredIsKnown => StoredIsKnown')
  BY DEF ChatInv, RateKept, StoredOnce, SweptIsEmpty, StoredIsKnown, Retained, Retaining, Previous
<1> QED
  BY <1>1, <1>2 DEF ChatInv

LEMMA SendKeeps ==
    ASSUME ChatInv, Send PROVE ChatInv'
<1> PICK r : r = RequestFor
  OBVIOUS
<1> PICK q : q = [request |-> r, text |-> panel.text]
  OBVIOUS
<1>1. panel \in Panels /\ r \in Requests /\ panel.text \in Texts /\ q \in Messages /\ q.request = r /\ q.text = panel.text
  BY ChatTypes DEF Send, Messages
<1>2. /\ executing' = executing \cup {q}
      /\ panel' = [panel EXCEPT !.pending = r, !.waits = r, !.answer = "none",
                                !.asked = IF r = panel.asked THEN panel.asked + 1 ELSE panel.asked]
      /\ UNCHANGED <<chatTime, rideChat, messages, archived, clearing, written>>
  BY DEF Send
<1> PICK b : b = panel.asked
  OBVIOUS
<1>3. PICK a : a = IF r = panel.asked THEN panel.asked + 1 ELSE panel.asked
  OBVIOUS
<1>4. a \in Nat /\ b \in Nat /\ b <= a /\ (b = r => a = r + 1)
  BY <1>1, <1>3 DEF Panels
<1>5. /\ panel' \in Panels /\ panel'.pending = r /\ panel'.text = panel.text /\ panel'.answer = "none" /\ panel'.asked = a
  <2>1. panel' = [panel EXCEPT !.pending = r, !.waits = r, !.answer = "none", !.asked = a]
    BY <1>2, <1>3
  <2>2. r \in {NotAsked} \cup Requests
    BY <1>1
  <2>3. a \in Nat
    BY <1>4
  <2> QED
    BY <1>1, <2>1, <2>2, <2>3 DEF Panels
<1>6. Sent' = Sent \cup {q}
  BY <1>2 DEF Sent, Retaining
<1>7. ASSUME rideChat.open PROVE TextsOwn'
  <2>1. TextsOwn
    BY <1>7 DEF ChatInv
  <2>2. panel.pending = NotAsked \/ panel.pending = r
    BY DEF RequestFor
  <2>3. panel.pending = NotAsked => r = panel.asked
    BY DEF RequestFor
  <2>4. \A p \in Sent : p.request \in Nat /\ p.text \in Nat /\ p.request \in Requests
    BY ChatTypes, ChatNumbers
  <2>5. r \in Nat /\ panel.text \in Nat /\ r # NotAsked
    BY <1>1, ChatNumbers
  <2>6. r < a
    <3>1. CASE panel.pending = r
      <4>1. r < b
        BY <2>1, <3>1 DEF TextsOwn
      <4> QED
        BY <1>4, <2>5, <4>1, LessThenAtMost
    <3>2. CASE panel.pending = NotAsked
      <4>1. b = r
        BY <2>3, <3>2
      <4> QED
        BY <1>4, <2>5, <4>1
    <3> QED
      BY <2>2, <3>1, <3>2
  <2>7. \A p \in Sent : p.text = panel.text <=> p.request = r
    <3>1. CASE panel.pending = r
      BY <2>1, <3>1 DEF TextsOwn
    <3>2. CASE panel.pending = NotAsked
      <4>1. \A p \in Sent : p.request < r
        BY <2>1, <2>3, <3>2 DEF TextsOwn
      <4>2. \A p \in Sent : p.request # r
        BY <2>4, <2>5, <4>1
      <4>3. \A p \in Sent : p.text # panel.text
        BY <2>1, <2>4, <3>2, ChatNumbers DEF TextsOwn
      <4> QED
        BY <4>2, <4>3
    <3> QED
      BY <2>2, <3>1, <3>2
  <2>8. \A p \in Sent : p.request < a /\ p.text <= panel.text
    <3> SUFFICES ASSUME NEW p \in Sent PROVE p.request < a /\ p.text <= panel.text
      OBVIOUS
    <3>1. p.request \in Nat /\ p.request < b /\ p.text <= panel.text
      BY <2>1, <2>4 DEF TextsOwn
    <3> QED
      BY <1>4, <3>1, LessThenAtMost
  <2>9. \A p \in Sent \cup {q} : p.request < a /\ p.text <= panel.text /\ (p.text = panel.text <=> p.request = r)
    BY <1>1, <2>5, <2>6, <2>7, <2>8
  <2>10. \A p, x \in Sent \cup {q} : p.request = x.request <=> p.text = x.text
    BY <1>1, <2>1, <2>7 DEF TextsOwn
  <2> QED
    BY <1>5, <1>6, <2>6, <2>9, <2>10 DEF TextsOwn
<1> QED
  BY <1>1, <1>2, <1>5, <1>7, PanelKeeps, ChatTypes

\* A text is given up for the next one.
LEMMA NextText ==
    ASSUME ChatInv, TextsOwn, UNCHANGED Sent,
           panel'.text = panel.text + 1, panel'.pending = NotAsked, panel'.asked = panel.asked
    PROVE  TextsOwn'
<1>1. panel.asked \in Nat /\ panel.text \in Nat /\ (\A p \in Sent : p.request \in Requests /\ p.text \in Nat)
      /\ panel.pending \in Nat
  <2>1. \A p \in Sent : p.request \in Requests /\ p.text \in Nat
    BY ChatTypes, ChatNumbers
  <2>2. panel \in Panels
    BY ChatTypes
  <2>3. panel.asked \in Nat /\ panel.text \in Nat /\ panel.pending \in {NotAsked} \cup Requests
    BY <2>2 DEF Panels
  <2>4. panel.pending \in Nat
    BY <2>3, RequestNumbers
  <2> QED
    BY <2>1, <2>3, <2>4
<1>2. panel'.pending < panel'.asked
  BY <1>1, ChatNumbers DEF TextsOwn
<1>3. \A p \in Sent : p.text < panel'.text /\ p.request # NotAsked
  BY <1>1, ChatNumbers DEF TextsOwn
<1>4. \A p \in Sent : p.text <= panel'.text /\ (p.text = panel'.text <=> p.request = panel'.pending)
  BY <1>1, <1>3
<1> QED
  BY <1>2, <1>4 DEF TextsOwn

LEMMA HearKeeps ==
    ASSUME ChatInv, HearSent \/ Retype PROVE ChatInv'
<1>1. panel \in Panels /\ panel.text \in Nat /\ NotAsked \in {NotAsked} \cup Requests
  BY ChatTypes DEF Panels
<1>2. UNCHANGED <<chatTime, rideChat, messages, archived, executing, clearing, written>>
  BY DEF HearSent, Retype
<1>3. UNCHANGED Sent
  BY <1>2 DEF Sent, Retaining
<1> PICK n : n = panel.text + 1
  OBVIOUS
<1>4. n \in Nat
  BY <1>1
<1>5. CASE panel' = [panel EXCEPT !.waits = NotAsked, !.pending = NotAsked, !.text = n]
           \/ panel' = [panel EXCEPT !.text = n, !.pending = NotAsked]
  <2>1. panel' \in Panels /\ panel'.text = n /\ panel'.pending = NotAsked /\ panel'.asked = panel.asked
        /\ panel'.answer = panel.answer
    BY <1>1, <1>4, <1>5 DEF Panels
  <2>2. TextsOwn => TextsOwn'
    BY <1>3, <2>1, NextText
  <2> QED
    BY <1>2, <2>1, <2>2, PanelKeeps, ChatTypes DEF ChatInv
<1>6. CASE panel.answer = "closed" /\ panel' = [panel EXCEPT !.waits = NotAsked, !.pending = NotAsked]
  <2>1. panel' \in Panels /\ panel'.answer = "closed"
    BY <1>1, <1>6 DEF Panels
  <2>2. ~rideChat.open
    BY <1>6 DEF ChatInv
  <2> QED
    BY <1>2, <2>1, <2>2, PanelKeeps, ChatTypes
<1>7. CASE panel' = [panel EXCEPT !.waits = NotAsked]
  <2>1. panel' \in Panels /\ panel'.text = panel.text /\ panel'.pending = panel.pending /\ panel'.asked = panel.asked
        /\ panel'.answer = panel.answer
    BY <1>1, <1>7 DEF Panels
  <2>2. TextsOwn => TextsOwn'
    BY <1>3, <2>1 DEF TextsOwn
  <2> QED
    BY <1>2, <2>1, <2>2, PanelKeeps, ChatTypes DEF ChatInv
<1> QED
  BY <1>5, <1>6, <1>7 DEF HearSent, Retype

LEMMA AnsweredTypes ==
    ASSUME ChatInv, NEW q \in Messages, NEW a \in {"sent", "wait", "closed"}, Answered(q, a)
    PROVE  /\ panel' \in Panels /\ panel'.text = panel.text /\ panel'.pending = panel.pending
           /\ panel'.asked = panel.asked /\ panel'.answer \in {panel.answer, a}
<1>1. panel \in Panels
  BY ChatTypes
<1>2. CASE panel' = [panel EXCEPT !.answer = a]
  BY <1>1, <1>2 DEF Panels
<1>3. CASE panel' = panel
  BY <1>1, <1>3
<1> QED
  BY <1>2, <1>3 DEF Answered

\* A request that is answered without another message.
LEMMA RefusalKeeps ==
    ASSUME ChatInv, NEW q \in executing, executing' = executing \ {q},
           NEW a \in {"sent", "wait", "closed"}, Answered(q, a), rideChat.open => a # "closed",
           UNCHANGED <<messages, rideChat, written, chatTime, archived, clearing>>
    PROVE  ChatInv'
<1>1. /\ panel' \in Panels /\ panel'.text = panel.text /\ panel'.pending = panel.pending
      /\ panel'.asked = panel.asked /\ panel'.answer \in {panel.answer, a}
  BY AnsweredTypes, ChatTypes
<1>2. Sent' \subseteq Sent
  BY DEF Sent, Retaining
<1>3. rideChat.open => panel'.answer # "closed" /\ TextsOwn'
  BY <1>1, <1>2 DEF ChatInv, TextsOwn
<1> QED
  BY <1>1, <1>3, PanelKeeps, ChatTypes

\* What is admitted is a gap later than any message of the ride.
LEMMA AdmittedIsLater ==
    ASSUME ChatInv, rideChat.open, RateAllows(rideChat.rate)
    PROVE  \A u \in written.at : u \in Nat /\ chatTime - u >= MinGap /\ u < chatTime
<1> SUFFICES ASSUME NEW u \in written.at PROVE u \in Nat /\ chatTime - u >= MinGap /\ u < chatTime
  OBVIOUS
<1>1. u \in Nat /\ u <= chatTime /\ chatTime \in Nat
  BY ChatTypes DEF ChatInv
<1>2. chatTime - u >= MinGap
  <2>1. CASE chatTime - u < HourSpan
    <3>1. u \in Previous(rideChat.rate)
      BY <2>1 DEF ChatInv, StoredIsKnown
    <3> QED
      BY <3>1 DEF RateAllows
  <2>2. CASE ~(chatTime - u < HourSpan)
    BY <1>1, <2>2, ChatNumbers
  <2> QED
    BY <2>1, <2>2
<1> QED
  BY <1>1, <1>2, ChatNumbers

\* With it, no window has more messages than its limit.
LEMMA WindowHasRoom ==
    ASSUME ChatInv, rideChat.open, RateAllows(rideChat.rate), NEW w \in Limits
    PROVE  Cardinality({u \in written.at \cup {chatTime} : u <= chatTime /\ chatTime - u < w.span}) <= w.most
<1> DEFINE P == Previous(rideChat.rate)
           R == Recent(P, w.span)
           W == {u \in written.at \cup {chatTime} : u <= chatTime /\ chatTime - u < w.span}
<1>1. rideChat.rate.sentAt \subseteq Nat /\ IsFiniteSet(rideChat.rate.sentAt) /\ rideChat.rate.last \in Nat \cup {-1}
      /\ chatTime \in Nat /\ written.at \subseteq Nat
  BY ChatTypes DEF ChatInv, ChatTypeOK, Rides
<1>2. IsFiniteSet(P)
  BY <1>1, FS_EmptySet, FS_Singleton, FS_Union DEF Previous
<1>3. IsFiniteSet(R)
  BY <1>2, FS_Subset DEF Recent
<1>4. Cardinality(R) < w.most
  BY DEF RateAllows
<1>5. W \subseteq R \cup {chatTime}
  <2> SUFFICES ASSUME NEW u \in W, u # chatTime PROVE u \in R
    OBVIOUS
  <2>1. u \in written.at /\ chatTime - u < w.span /\ u \in Nat
    BY <1>1
  <2>2. chatTime - u < HourSpan
    BY <1>1, <2>1, LimitsTypes, ChatNumbers
  <2>3. u \in P
    BY <2>1, <2>2 DEF ChatInv, StoredIsKnown
  <2> QED
    BY <2>1, <2>3 DEF Recent
<1>6. IsFiniteSet(R \cup {chatTime}) /\ Cardinality(R \cup {chatTime}) <= Cardinality(R) + 1 /\ Cardinality(R) \in Nat
  BY <1>3, OneMore, FS_CardinalityType
<1>7. Cardinality(W) <= Cardinality(R \cup {chatTime}) /\ Cardinality(W) \in Nat /\ Cardinality(R \cup {chatTime}) \in Nat
  BY <1>5, <1>6, FS_Subset, FS_CardinalityType
<1> HIDE DEF P, R, W
<1>8. w.most \in Nat
  BY LimitsTypes
<1>9. Cardinality(W) <= w.most
  BY <1>4, <1>6, <1>7, <1>8
<1> QED
  BY <1>9 DEF W

LEMMA RateStays ==
    ASSUME ChatInv, rideChat.open, RateAllows(rideChat.rate), written'.at = written.at \cup {chatTime}
    PROVE  RateKept'
<1>1. written.at \subseteq Nat /\ chatTime \in Nat
  BY ChatTypes
<1>2. ASSUME NEW t \in written.at
      PROVE  /\ \A u \in written'.at : u < t => t - u >= MinGap
             /\ \A w \in Limits : Cardinality({u \in written'.at : u <= t /\ t - u < w.span}) <= w.most
  <2>1. t \in Nat /\ t < chatTime
    BY AdmittedIsLater
  <2>2. \A u \in written'.at : u < t => t - u >= MinGap
    BY <1>1, <2>1 DEF ChatInv, RateKept
  <2>3. ASSUME NEW w \in Limits
        PROVE  Cardinality({u \in written'.at : u <= t /\ t - u < w.span}) <= w.most
    <3>1. {u \in written'.at : u <= t /\ t - u < w.span} = {u \in written.at : u <= t /\ t - u < w.span}
      BY <1>1, <2>1
    <3> QED
      BY <3>1 DEF ChatInv, RateKept
  <2> QED
    BY <2>2, <2>3
<1>3. \A u \in written'.at : u < chatTime => chatTime - u >= MinGap
  <2> SUFFICES ASSUME NEW u \in written'.at, u < chatTime PROVE chatTime - u >= MinGap
    OBVIOUS
  <2>1. u # chatTime
    BY <1>1
  <2> QED
    BY <2>1, AdmittedIsLater
<1>4. \A w \in Limits : Cardinality({u \in written'.at : u <= chatTime /\ chatTime - u < w.span}) <= w.most
  BY WindowHasRoom
<1> QED
  BY <1>2, <1>3, <1>4 DEF RateKept

\* The document then knows what the longest window needs.
LEMMA LongestIsHour == Max({w.span : w \in Limits}) = HourSpan
<1> DEFINE S == {w.span : w \in Limits}
<1>1. S = {MinuteSpan, HourSpan}
  BY DEF Limits
<1>2. HourSpan \in S /\ \A y \in S : HourSpan >= y /\ y \in Nat
  BY <1>1, ChatNumbers
<1> HIDE DEF S
<1>3. Max(S) \in S /\ \A y \in S : Max(S) >= y
  BY <1>2 DEF Max
<1>4. Max(S) >= HourSpan /\ HourSpan >= Max(S) /\ Max(S) \in Nat /\ HourSpan \in Nat
  BY <1>2, <1>3
<1> QED
  BY <1>4 DEF S

LEMMA CreatedKeeps ==
    ASSUME ChatInv, NEW q \in executing, executing' = executing \ {q}, ~Retained(q.request), Admits(q.request),
           Created(q), Answered(q, "sent"), UNCHANGED <<chatTime, archived, clearing>>
    PROVE  ChatInv'
<1> PICK r : r = q.request
  OBVIOUS
<1> PICK x : x = q.text
  OBVIOUS
<1> PICK d : d = [sentAt |-> NextSentAt(rideChat.rate), last |-> chatTime]
  OBVIOUS
<1>1. /\ rideChat.open /\ rideChat \in Rides /\ rideChat.history = "kept" /\ RateAllows(rideChat.rate) /\ q \in Messages
      /\ r \in Requests /\ x \in Texts /\ chatTime \in Nat /\ TextsOwn /\ StoredIsKnown /\ SweptIsEmpty
  BY ChatTypes DEF Admits, ChatInv, SweptIsEmpty
<1>2. /\ messages' = messages \cup {q} /\ rideChat' = [rideChat EXCEPT !.rate = d]
      /\ written' = [times |-> [written.times EXCEPT ![r] = written.times[r] + 1], at |-> written.at \cup {chatTime},
                     for |-> [written.for EXCEPT ![x] = written.for[x] + 1]]
  BY DEF Created
<1>3. /\ panel' \in Panels /\ panel'.text = panel.text /\ panel'.pending = panel.pending
      /\ panel'.asked = panel.asked /\ panel'.answer \in {panel.answer, "sent"}
  BY <1>1, AnsweredTypes
<1>4. /\ d.sentAt \subseteq Nat /\ IsFiniteSet(d.sentAt) /\ d.last = chatTime
      /\ d \in [sentAt : SUBSET Nat, last : Nat \cup {-1}]
  <2>1. rideChat.rate.sentAt \subseteq Nat /\ IsFiniteSet(rideChat.rate.sentAt) /\ rideChat.rate.last \in Nat \cup {-1}
    BY <1>1 DEF ChatInv, ChatTypeOK, Rides
  <2>2. Previous(rideChat.rate) \subseteq Nat /\ IsFiniteSet(Previous(rideChat.rate))
    <3>1. Previous(rideChat.rate) \subseteq Nat
      BY <2>1 DEF Previous
    <3>2. IsFiniteSet({}) /\ IsFiniteSet({rideChat.rate.last})
      BY FS_EmptySet, FS_Singleton
    <3>3. IsFiniteSet(Previous(rideChat.rate))
      BY <2>1, <3>2, FS_Union DEF Previous
    <3> QED
      BY <3>1, <3>3
  <2>3. d.sentAt \subseteq Previous(rideChat.rate)
    BY DEF NextSentAt, Recent
  <2>4. IsFiniteSet(d.sentAt)
    BY <2>2, <2>3, FS_Subset
  <2> QED
    BY <1>1, <2>2, <2>3, <2>4
<1>5. /\ rideChat' \in Rides /\ rideChat'.rate = d /\ rideChat'.open = rideChat.open
      /\ rideChat'.history = rideChat.history /\ rideChat'.swept = rideChat.swept
  BY <1>1, <1>2, <1>4 DEF Rides
<1>6. /\ written'.times \in [Requests -> Nat] /\ written'.for \in [Texts -> Nat] /\ written'.at = written.at \cup {chatTime}
      /\ written'.times[r] = written.times[r] + 1 /\ \A s \in Requests \ {r} : written'.times[s] = written.times[s]
      /\ written'.for[x] = written.for[x] + 1 /\ \A t \in Texts \ {x} : written'.for[t] = written.for[t]
  BY <1>1, <1>2, ChatTypes
<1>7. written.times[r] = 0
  BY <1>1 DEF StoredIsKnown
<1>8. written.for[x] = 0
  <2> SUFFICES ASSUME NEW p \in Retaining, p.text = x PROVE FALSE
    BY <1>1 DEF StoredIsKnown
  <2>1. p.request = r
    BY <1>1 DEF TextsOwn, Sent
  <2> QED
    BY <2>1 DEF Retained, Retaining
<1>9. Sent' = Sent /\ Sent' \subseteq Messages
  BY <1>1, <1>2, ChatTypes DEF Sent, Retaining
<1>10. ChatTypeOK'
  <2>1. chatTime' \in Nat /\ clearing' \in [at : {"no", "read"}, page : SUBSET Messages] /\ panel' \in Panels
    BY <1>1, <1>3, ChatTypes
  <2>2. written' \in [times : [Requests -> Nat], at : SUBSET Nat, for : [Texts -> Nat]]
    <3>1. written'.at \subseteq Nat
      BY <1>1, <1>6, ChatTypes
    <3>2. written' = [times |-> written'.times, at |-> written'.at, for |-> written'.for]
      BY <1>2
    <3> QED
      BY <1>6, <3>1, <3>2
  <2>3. IsFiniteSet(rideChat'.rate.sentAt)
    BY <1>4, <1>5
  <2> QED
    BY <1>5, <1>9, <2>1, <2>2, <2>3 DEF ChatTypeOK, Rides, Panels
<1>11. StoredOnce'
  BY <1>6, <1>7, <1>8 DEF ChatInv, StoredOnce
<1>12. TextsOwn'
  BY <1>1, <1>3, <1>9 DEF TextsOwn
<1>13. StoredIsKnown'
  <2>1. \A s \in Requests : written'.times[s] # 0 => (Retained(s))'
    BY <1>1, <1>2, <1>6 DEF StoredIsKnown, Retained
  <2>2. \A t \in Texts : written'.for[t] # 0 => \E p \in Retaining' : p.text = t
    BY <1>1, <1>2, <1>6 DEF StoredIsKnown, Retaining
  <2>3. \A u \in written'.at : chatTime - u < HourSpan => u \in Previous(rideChat'.rate)
    <3>1. Previous(d) = Recent(Previous(rideChat.rate), HourSpan) \cup {chatTime}
      <4>1. ~(chatTime < 0)
        BY <1>1
      <4> QED
        BY <4>1, LongestIsHour DEF Previous, NextSentAt
    <3> QED
      BY <1>1, <1>5, <1>6, <3>1 DEF StoredIsKnown, Recent
  <2> QED
    BY <2>1, <2>2, <2>3 DEF StoredIsKnown, Retained, Retaining
<1>14. SweptIsEmpty'
  BY <1>1, <1>5 DEF SweptIsEmpty
<1>15. \A u \in written'.at : u <= chatTime'
  BY <1>1, <1>6 DEF ChatInv
<1>16. panel'.answer # "closed"
  BY <1>1, <1>3 DEF ChatInv
<1> QED
  BY <1>1, <1>6, <1>10, <1>11, <1>12, <1>13, <1>14, <1>15, <1>16, RateStays DEF ChatInv

LEMMA ServeKeeps ==
    ASSUME ChatInv, ServeMessage PROVE ChatInv'
<1>1. PICK q \in executing :
          /\ executing' = executing \ {q}
          /\ \/ Retained(q.request) /\ Answered(q, "sent") /\ UNCHANGED <<messages, rideChat, written>>
             \/ ~Retained(q.request) /\ Admits(q.request) /\ Created(q) /\ Answered(q, "sent")
             \/ /\ ~Retained(q.request) /\ ~Admits(q.request)
                /\ Answered(q, IF Exists /\ rideChat.open THEN "wait" ELSE "closed")
                /\ UNCHANGED <<messages, rideChat, written>>
          /\ UNCHANGED <<chatTime, archived, clearing>>
  BY DEF ServeMessage
<1>2. CASE Retained(q.request) /\ Answered(q, "sent") /\ UNCHANGED <<messages, rideChat, written>>
  BY <1>1, <1>2, RefusalKeeps
<1>3. CASE ~Retained(q.request) /\ Admits(q.request) /\ Created(q) /\ Answered(q, "sent")
  BY <1>1, <1>3, CreatedKeeps
<1>4. CASE Answered(q, IF Exists /\ rideChat.open THEN "wait" ELSE "closed") /\ UNCHANGED <<messages, rideChat, written>>
  <2>1. rideChat.open => Exists
    BY DEF ChatInv, SweptIsEmpty, Exists
  <2>2. PICK a \in {"wait", "closed"} : Answered(q, a) /\ (rideChat.open => a # "closed")
    BY <1>4, <2>1
  <2> QED
    BY <1>1, <1>4, <2>2, RefusalKeeps
<1> QED
  BY <1>1, <1>2, <1>3, <1>4

\* Steps that write no message: what was kept while the ride is open stays kept.
LEMMA CarriedOver ==
    ASSUME ChatInv, ChatTypeOK', SweptIsEmpty', UNCHANGED written, chatTime' >= chatTime,
           UNCHANGED panel, rideChat'.open => rideChat.open /\ Sent' \subseteq Sent /\ Retaining \subseteq Retaining'
                                              /\ UNCHANGED rideChat
    PROVE  ChatInv'
<1>1. chatTime \in Nat /\ chatTime' \in Nat /\ written.at \subseteq Nat
  BY ChatTypes DEF ChatTypeOK
<1>2. RateKept' /\ StoredOnce' /\ \A u \in written'.at : u <= chatTime'
  BY <1>1 DEF ChatInv, RateKept, StoredOnce
<1>3. ASSUME rideChat'.open PROVE panel'.answer # "closed" /\ TextsOwn' /\ StoredIsKnown'
  <2>1. rideChat.open /\ Sent' \subseteq Sent /\ Retaining \subseteq Retaining' /\ UNCHANGED rideChat
    BY <1>3
  <2>2. TextsOwn'
    BY <2>1 DEF ChatInv, TextsOwn
  <2>3. \A u \in written.at : chatTime' - u < HourSpan => u \in Previous(rideChat'.rate)
    <3> SUFFICES ASSUME NEW u \in written.at, chatTime' - u < HourSpan PROVE chatTime - u < HourSpan
      BY <2>1 DEF ChatInv, StoredIsKnown
    <3> QED
      BY <1>1, ChatNumbers
  <2>4. (\A r \in Requests : written.times[r] # 0 => (Retained(r))')
        /\ \A t \in Texts : written.for[t] # 0 => \E q \in Retaining' : q.text = t
    BY <2>1 DEF ChatInv, StoredIsKnown, Retained, Retaining
  <2>5. StoredIsKnown'
    BY <2>3, <2>4 DEF StoredIsKnown, Retained, Retaining
  <2> QED
    BY <2>1, <2>2, <2>5 DEF ChatInv
<1> QED
  BY <1>2, <1>3 DEF ChatInv

LEMMA TickKeeps ==
    ASSUME ChatInv, ChatTick PROVE ChatInv'
<1>1. chatTime' = chatTime + 1 /\ UNCHANGED <<rideChat, messages, archived, panel, executing, clearing, written>>
  BY DEF ChatTick
<1>2. chatTime \in Nat /\ chatTime' \in Nat /\ chatTime' >= chatTime
  BY <1>1, ChatTypes
<1>3. Sent' = Sent /\ Retaining' = Retaining
  BY <1>1 DEF Sent, Retaining
<1>4. ChatTypeOK' /\ SweptIsEmpty'
  BY <1>1, <1>2, <1>3 DEF ChatInv, ChatTypeOK, SweptIsEmpty
<1> QED
  BY <1>1, <1>2, <1>3, <1>4, CarriedOver DEF ChatInv, SweptIsEmpty

LEMMA ReadPageKeeps ==
    ASSUME ChatInv, ReadPage PROVE ChatInv'
<1>1. PICK page \in SUBSET messages : clearing' = [at |-> "read", page |-> page]
  BY DEF ReadPage
<1>2. UNCHANGED <<chatTime, rideChat, messages, archived, panel, executing, written>>
  BY DEF ReadPage
<1>3. Sent' \subseteq Sent /\ Retaining' = Retaining /\ clearing' \in [at : {"no", "read"}, page : SUBSET Messages]
  BY <1>1, <1>2, ChatTypes DEF Sent, Retaining
<1>4. ChatTypeOK' /\ SweptIsEmpty' /\ chatTime' >= chatTime
  BY <1>2, <1>3, ChatTypes DEF ChatInv, ChatTypeOK, SweptIsEmpty
<1> QED
  BY <1>2, <1>3, <1>4, CarriedOver DEF ChatInv, SweptIsEmpty

LEMMA ArchiveKeeps ==
    ASSUME ChatInv, Archive PROVE ChatInv'
<1>1. clearing' = NoPage /\ UNCHANGED <<chatTime, rideChat, panel, executing, written>>
  BY DEF Archive
<1>2. NoPage \in [at : {"no", "read"}, page : SUBSET Messages] /\ NoPage.page = {}
  BY DEF NoPage
<1>3. \/ rideChat.history = "kept" /\ messages' = messages \ clearing.page /\ archived' = archived \cup clearing.page
      \/ UNCHANGED <<messages, archived>>
  BY DEF Archive, StillKept
<1>4. Sent' \subseteq Sent /\ Retaining \subseteq Retaining'
  BY <1>1, <1>2, <1>3 DEF Sent, Retaining
<1>5. SweptIsEmpty'
  BY <1>1, <1>3 DEF ChatInv, SweptIsEmpty
<1>6. ChatTypeOK' /\ chatTime' >= chatTime
  BY <1>1, <1>2, <1>4, ChatTypes DEF ChatInv, ChatTypeOK
<1> QED
  BY <1>1, <1>4, <1>5, <1>6, CarriedOver

LEMMA EndKeeps ==
    ASSUME ChatInv, CloseRide \/ StartDeletion \/ Sweep \/ EndDeletion PROVE ChatInv'
<1>1. rideChat \in Rides /\ SweptIsEmpty
  BY ChatTypes DEF ChatInv
<1>2. UNCHANGED <<chatTime, panel, executing, clearing, written>>
  BY DEF CloseRide, StartDeletion, Sweep, EndDeletion
<1>3. /\ rideChat' \in Rides /\ ~rideChat'.open /\ rideChat'.rate \in {rideChat.rate, NoMessages}
      /\ messages' \subseteq messages /\ archived' \subseteq archived /\ SweptIsEmpty'
  <2>1. CASE CloseRide
    BY <1>1, <2>1 DEF CloseRide, Rides, SweptIsEmpty
  <2>2. CASE StartDeletion
    BY <1>1, <2>2 DEF StartDeletion, Rides, SweptIsEmpty
  <2>3. CASE Sweep
    <3>1. PICK first \in {"messages", "archived"} :
              /\ rideChat' = [rideChat EXCEPT !.swept = rideChat.swept \cup {first}]
              /\ messages' = IF first = "messages" THEN {} ELSE messages
              /\ archived' = IF first = "archived" THEN {} ELSE archived
      BY <2>3 DEF Sweep
    <3>2. rideChat.history = "job" /\ ~rideChat.open
      BY <1>1, <2>3 DEF Sweep, SweptIsEmpty
    <3>3. /\ rideChat' \in Rides /\ rideChat'.open = rideChat.open /\ rideChat'.history = "job"
          /\ rideChat'.swept = rideChat.swept \cup {first} /\ rideChat'.rate = rideChat.rate
      BY <1>1, <3>1, <3>2 DEF Rides
    <3> QED
      BY <1>1, <3>1, <3>2, <3>3 DEF SweptIsEmpty
  <2>4. CASE EndDeletion
    <3>1. NoMessages \in [sentAt : SUBSET Nat, last : Nat \cup {-1}]
      BY DEF NoMessages
    <3>2. /\ rideChat' = [rideChat EXCEPT !.history = "gone", !.rate = NoMessages] /\ UNCHANGED <<messages, archived>>
          /\ rideChat.history = "job" /\ rideChat.swept = {"messages", "archived"}
      BY <2>4 DEF EndDeletion
    <3>3. /\ rideChat' \in Rides /\ rideChat'.open = rideChat.open /\ rideChat'.history = "gone"
          /\ rideChat'.swept = rideChat.swept /\ rideChat'.rate = NoMessages
      BY <1>1, <3>1, <3>2 DEF Rides
    <3> QED
      BY <1>1, <3>2, <3>3 DEF SweptIsEmpty
  <2> QED
    BY <2>1, <2>2, <2>3, <2>4
<1>4. IsFiniteSet(rideChat'.rate.sentAt)
  BY <1>3, FS_EmptySet DEF ChatInv, ChatTypeOK, NoMessages
<1>5. Sent' \subseteq Sent
  BY <1>2, <1>3 DEF Sent, Retaining
<1>6. ChatTypeOK' /\ chatTime' >= chatTime
  BY <1>2, <1>3, <1>4, <1>5, ChatTypes DEF ChatInv, ChatTypeOK, Rides
<1> QED
  BY <1>2, <1>3, <1>6, CarriedOver

LEMMA ChatStarts == ChatInit => ChatInv
<1> SUFFICES ASSUME ChatInit PROVE ChatInv
  OBVIOUS
<1>1. 1 \in Requests /\ NoPage.page = {} /\ NoMessages.sentAt = {} /\ IsFiniteSet({})
  BY ChatAssumption, FS_EmptySet DEF Requests, NoPage, NoMessages
<1>2. Sent = {} /\ Retaining = {}
  BY <1>1 DEF ChatInit, Sent, Retaining
<1>3. ChatTypeOK
  BY <1>1, <1>2 DEF ChatInit, ChatTypeOK, Rides, Panels, NoPage, NoMessages
<1>4. StoredOnce /\ RateKept /\ SweptIsEmpty /\ \A u \in written.at : u <= chatTime
  BY DEF ChatInit, StoredOnce, RateKept, SweptIsEmpty
<1>5. panel.answer # "closed" /\ TextsOwn /\ StoredIsKnown
  BY <1>2 DEF ChatInit, TextsOwn, StoredIsKnown, NotAsked
<1> QED
  BY <1>3, <1>4, <1>5 DEF ChatInv

LEMMA ChatStep == ChatInv /\ [ChatNext]_chatVars => ChatInv'
<1> SUFFICES ASSUME ChatInv, [ChatNext]_chatVars PROVE ChatInv'
  OBVIOUS
<1>1. CASE UNCHANGED chatVars
  BY <1>1, PanelKeeps, ChatTypes DEF chatVars, ChatInv, TextsOwn, Sent, Retaining
<1>2. CASE ChatNext
  BY <1>2, TickKeeps, SendKeeps, HearKeeps, ServeKeeps, ReadPageKeeps, ArchiveKeeps, EndKeeps DEF ChatNext
<1> QED
  BY <1>1, <1>2

\* The chat's inductive invariant (MessagingPanel.tsx, routes/sessions.ts,
\* chatRateLimit.ts): while the ride is open a text has one request, what was
\* stored is still retained, and the rate document knows the longest window.
THEOREM ChatInvariant == ChatSpec => []ChatInv
BY ChatStarts, ChatStep, PTL DEF ChatSpec

\* No text is stored twice, the limits hold over every window, and a clearing
\* leaves nothing below a deleted ride (sessions.ts:336, 385; shifts.ts:427).
THEOREM ChatIsKeptAlways == ChatSpec => []ChatIsKept
<1>1. ChatInv => ChatIsKept
  BY DEF ChatInv, ChatIsKept, StoredOnce, SweptIsEmpty
<1> QED
  BY <1>1, ChatInvariant, PTL

-----------------------------------------------------------------------------
\* The composition has the behaviours of its parts.
THEOREM LiveHasParts == PartsSpec => WriterSpec /\ RouteSpec /\ DirectionSpec /\ ChatSpec /\ FeedbackSpec
<1>1. PartsInit => WriterInit /\ RouteInit /\ DirectionInit /\ ChatInit /\ FeedbackInit
  BY DEF PartsInit
<1>2. [PartsNext]_partVars => [WriterNext]_writerVars
  BY DEF PartsNext, LiveNext, partVars, liveVars
<1>3. [PartsNext]_partVars => [RouteNext]_routeVars
  BY DEF PartsNext, LiveNext, partVars, liveVars
<1>4. [PartsNext]_partVars => [DirectionNext]_directionVars
  BY DEF PartsNext, LiveNext, partVars, liveVars
<1>5. [PartsNext]_partVars => [ChatNext]_chatVars
  BY DEF PartsNext, partVars, saidVars
<1>6. [PartsNext]_partVars => [FeedbackNext]_feedbackVars
  BY DEF PartsNext, partVars, saidVars
<1> QED
  BY <1>1, <1>2, <1>3, <1>4, <1>5, <1>6, PTL
     DEF PartsSpec, WriterSpec, RouteSpec, DirectionSpec, ChatSpec, FeedbackSpec

\* Everything that is checked of the parts beside the lifecycle of a live bus
\* holds of every number of keys, tasks, replicas, edits, sessions, requests,
\* texts, forms and days, however many of them are under way at once.
THEOREM LiveKeepsItsPromises ==
    PartsSpec => /\ NewestIsKept
                 /\ []ShownPathIsRides
                 /\ DelayIsKept
                 /\ []DirectionIsConfirmed
                 /\ []SaidOnce
                 /\ [](NoIdlePermit /\ WithinBudgets /\ InOrder)
<1>0. PartsSpec => [](NoIdlePermit /\ WithinBudgets /\ InOrder)
  BY LiveHasParts, WriterRunsExecutor, ExecutorKeepsItsPromises, PTL
<1>1. PartsSpec => []ChatIsKept /\ []FeedbackIsKept
  BY LiveHasParts, ChatIsKeptAlways, FeedbackIsKeptAlways, PTL
<1>2. ChatIsKept /\ FeedbackIsKept => SaidOnce
  BY DEF SaidOnce
<1>3. PartsSpec => []SaidOnce
  BY <1>1, <1>2, PTL
<1> QED
  BY <1>0, <1>3, LiveHasParts, NewestIsKeptAlways, ShownPathIsRidesAlways, DelayIsKeptAlways,
     DirectionIsConfirmedAlways, PTL
=============================================================================
