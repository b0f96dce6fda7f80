------------------------- MODULE RideLifecycleProofs -------------------------
(* The rides of one bus, for any number of requests, sessions, stops and       *)
(* attempts: who owns the bus, what its key names, what is shown of its ride   *)
(* before it is durable, and what its passengers are asked. The theorems on    *)
(* ownership assume that every start has a key (Keyless = {}): one without a   *)
(* key reopens ended rides, see the run ride_keyless.                          *)
(*                                                                             *)
(* The invariant of ownership has two parts. Owners relates the documents of   *)
(* Firestore to each other; every transaction on them preserves it by itself.  *)
(* Handles says what the session identifiers held elsewhere, by requests, the  *)
(* engine, a restore and the live record, may still name: a transaction that   *)
(* acts on an identifier read long ago relies on it. BehindInv adds what is    *)
(* held of a ride's progress, EarnedInv what a passenger's page holds of it.   *)
EXTENDS RideEnds, RideBus, TLAPS, WellFoundedInduction

Statuses == {"none", "pending", "armed", "active", "completed", "interrupted", "failed"}

\* The fields the proofs read are there.
Shape ==
    /\ DOMAIN req = Requests
    /\ \A r \in Requests : {"pc", "sid", "seen"} \subseteq DOMAIN req[r]
    /\ "session" \in DOMAIN ride
    /\ {"paused", "journey"} \subseteq DOMAIN fleet
    /\ {"session", "consumedBy"} \subseteq DOMAIN fleet.journey
    /\ {"session", "trip"} \subseteq DOMAIN node
    /\ {"pc", "sid", "snap"} \subseteq DOMAIN job
    /\ "sid" \in DOMAIN stop /\ "sid" \in DOMAIN scan

Documents ==
    /\ status \in [Sessions -> Statuses]
    /\ prev \in [Sessions -> Maybe]
    /\ issued \in Nat
    /\ lock \in Maybe /\ ride.session \in Maybe
    /\ fleet.journey.session \in Maybe /\ fleet.journey.consumedBy \in Maybe

\* Identifiers not handed out yet are unused.
Unissued == \A s \in Sessions : s > issued => status[s] = "none"

\* The rides that have returns are over.
Returned == \A s \in Sessions : prev[s] # None => Terminal(prev[s])

Waiting == fleet.journey.session # None /\ fleet.journey.consumedBy = None

\* A ride whose return is waited for has none yet, and nothing holds the bus.
Awaited == Waiting => /\ lock = None
                      /\ \A s \in Sessions : prev[s] # fleet.journey.session

Owners ==
    /\ Documents /\ Unissued /\ Returned /\ Awaited
    /\ LockIsOwner /\ RideIsOwners /\ PauseHolds /\ OneReturn

\* A request acts on a session that was created, and never without a key.
RequestsOK ==
    \A r \in Requests :
        /\ req[r].sid # None => req[r].sid \in Sessions /\ status[req[r].sid] # "none"
        /\ req[r].pc \in {"recover", "live", "lose", "check", "commit", "setup"} => req[r].sid # None
        /\ req[r].pc = "resume" => req[r].seen.session \in Sessions
        /\ req[r].pc \notin {"batch", "sets"}

NodeOK == node.session \in Maybe /\ (node.trip = "done" => node.session # None)

\* The engine works on the snapshot of some ride, and the return it is about to
\* create has an identifier of its own that nothing uses.
EngineOK ==
    /\ event.session \in Maybe
    /\ event.running \/ event.trip = "done" => event.session # None
    /\ job.pc # "idle" => job.snap.session \in Sessions
    /\ job.pc \in {"bring", "return", "activate"} => job.sid \in Sessions
    /\ job.pc = "return" => job.sid <= issued /\ status[job.sid] = "none"

RestoreOK == restore.pc = "write" => restore.sid \in Sessions

EndingOK == (stop.pc # "idle" => stop.sid \in Sessions) /\ (scan.pc # "idle" => scan.sid \in Sessions)

Handles == RequestsOK /\ NodeOK /\ EngineOK /\ RestoreOK /\ EndingOK

IInv == Shape /\ Owners /\ Handles

-----------------------------------------------------------------------------
(* The documents: each transaction preserves Owners.                           *)

LEMMA OwnersFrame ==
    ASSUME Owners, UNCHANGED <<status, prev, issued, lock>>, ride'.session = ride.session,
           fleet'.paused = fleet.paused, fleet'.journey = fleet.journey
    PROVE  Owners'
BY DEF Owners, Documents, Unissued, Returned, Awaited, Waiting, LockIsOwner, RideIsOwners, PauseHolds, OneReturn,
       Open, Terminal

\* Rearming drops the journey at most.
LEMMA OwnersRearm ==
    ASSUME Shape, Owners, Handles, NEW r \in Requests, Rearm(r)
    PROVE  Owners'
BY StoreAssumption DEF Rearm, Owners, Documents, Unissued, Returned, Awaited, Waiting, LockIsOwner, RideIsOwners, PauseHolds, OneReturn, Open, Terminal, Statuses, Shape, None, Maybe, Sessions, NoJourney

\* A resume finds the lock its own or takes it for an open session, whose it was.
LEMMA OwnersClaimResume ==
    ASSUME Shape, Owners, Handles, NEW r \in Requests, ClaimResume(r)
    PROVE  Owners'
BY StoreAssumption DEF ClaimResume, Owners, Documents, Unissued, Returned, Awaited, Waiting, LockIsOwner, RideIsOwners, PauseHolds, OneReturn, Open, Terminal, Statuses, Shape, None, Maybe, Sessions, Handles, RequestsOK, At

\* Taking over an open ride lifts the pause.
LEMMA OwnersClaimOwned ==
    ASSUME Shape, Owners, Handles, NEW r \in Requests, ClaimOwned(r)
    PROVE  Owners'
BY StoreAssumption DEF ClaimOwned, Owners, Documents, Unissued, Returned, Awaited, Waiting, LockIsOwner, RideIsOwners, PauseHolds, OneReturn, Open, Terminal, Statuses, Shape, None, Maybe, Sessions, Resumed

\* A new session takes a free bus, and nothing waits for a return any more.
LEMMA OwnersClaimFree ==
    ASSUME Shape, Owners, Handles, NEW r \in Requests, ClaimFree(r)
    PROVE  Owners'
<1>1. issued' \in Sessions /\ issued' = issued + 1 /\ lock' = issued' /\ UNCHANGED <<prev, ride>>
  BY StoreAssumption DEF ClaimFree, Sessions, Owners, Documents
<1>2. status[issued'] = "none" /\ status' = [status EXCEPT ![issued'] = "pending"]
  BY <1>1 DEF ClaimFree, SetStatus, Owners, Documents, Unissued
<1>3. lock = None /\ \A s \in Sessions : ~Open(s)
  BY DEF ClaimFree, BusIsFree, Owners, LockIsOwner, Sessions, None
<1>4. status \in [Sessions -> Statuses] /\ prev \in [Sessions -> Maybe] /\ issued \in Nat
  BY DEF Owners, Documents
<1>5. fleet'.journey = NoJourney
  BY DEF ClaimFree, Resumed, Shape
<1>6. ~fleet'.paused
  BY DEF ClaimFree, MayClaim, Admitted, Resumed, Shape
<1>7. Documents'
  BY <1>1, <1>2, <1>3, <1>4, <1>5, <1>6 DEF Owners, Documents, NoJourney, Maybe, None, Statuses
<1>8. Unissued'
  BY <1>1, <1>2, <1>3, <1>4, <1>5, <1>6 DEF Owners, Unissued, Sessions
<1>9. Returned'
  BY <1>1, <1>2, <1>3, <1>4, <1>5, <1>6 DEF Owners, Returned, Terminal, Sessions, Maybe, None
<1>10. Awaited' /\ PauseHolds' /\ OneReturn'
  BY <1>1, <1>2, <1>3, <1>4, <1>5, <1>6 DEF Owners, Awaited, Waiting, PauseHolds, OneReturn, NoJourney
<1>11. LockIsOwner'
  BY <1>1, <1>2, <1>3, <1>4, <1>5, <1>6 DEF LockIsOwner, Open
<1>12. RideIsOwners'
  BY <1>1, <1>2, <1>3, <1>4, <1>5, <1>6 DEF Owners, Documents, RideIsOwners, Maybe, None
<1> QED
  BY <1>7, <1>8, <1>9, <1>10, <1>11, <1>12 DEF Owners

\* The failed session gives up the bus if it has it.
LEMMA OwnersFailStart ==
    ASSUME Shape, Owners, Handles, NEW r \in Requests, FailStart(r)
    PROVE  Owners'
<1> DEFINE s == req[r].sid
<1>1. s \in Sessions /\ status[s] # "none" /\ s # None
  BY DEF FailStart, At, Handles, RequestsOK, Sessions, None
<1>2. status' = [status EXCEPT ![s] = "failed"] /\ UNCHANGED <<prev, ride, fleet, issued>>
  BY DEF FailStart, SetStatus
<1>3. lock' = IF lock = s THEN None ELSE lock
  BY DEF FailStart, DropLockOf
<1>4. \A x \in Sessions : Open(x)' <=> (Open(x) /\ x # s)
  BY <1>2 DEF Owners, Documents, Open
<1>5. \A x \in Sessions : Terminal(x) => Terminal(x)'
  BY <1>2 DEF Owners, Documents, Terminal
<1>6. Documents' /\ Unissued'
  BY <1>1, <1>2, <1>3 DEF Owners, Documents, Unissued, Statuses, Maybe
<1>7. Returned'
  BY <1>2, <1>5 DEF Owners, Documents, Returned, Maybe
<1>8. Awaited' /\ PauseHolds' /\ OneReturn'
  BY <1>2, <1>3 DEF Owners, Awaited, Waiting, PauseHolds, OneReturn
<1>9. LockIsOwner'
  BY <1>1, <1>3, <1>4 DEF Owners, LockIsOwner, Sessions, None
<1>10. RideIsOwners'
  BY <1>1, <1>2, <1>3 DEF Owners, Documents, RideIsOwners, Maybe
<1> QED
  BY <1>6, <1>7, <1>8, <1>9, <1>10 DEF Owners

\* The session is open, so it is the owner whose progress is written.
LEMMA OwnersCommitProjections ==
    ASSUME Shape, Owners, Handles, NEW r \in Requests, CommitProjections(r)
    PROVE  Owners'
BY StoreAssumption DEF CommitProjections, Owners, Documents, Unissued, Returned, Awaited, Waiting, LockIsOwner, RideIsOwners, PauseHolds, OneReturn, Open, Terminal, Statuses, Shape, None, Maybe, Sessions, MayProject, Register, Departed, Handles, RequestsOK, At

\* Progress is written for the owner only.
LEMMA OwnersPersist ==
    ASSUME Shape, Owners, Handles, Persist
    PROVE  Owners'
<1> DEFINE s == job.snap.session
<1>1. s \in Sessions /\ UNCHANGED <<prev, lock, fleet, issued>>
  BY DEF Persist, JobAt, Handles, EngineOK
<1>2. CASE lock = s
  <2>1. ride'.session = s
    BY <1>2 DEF Persist
  <2>2. status' = status \/ (Open(s) /\ status' = [status EXCEPT ![s] = "active"])
    BY <1>2 DEF Persist, SetStatus
  <2> QED
    BY <1>1, <1>2, <2>1, <2>2
    DEF Owners, Documents, Unissued, Returned, Awaited, Waiting, LockIsOwner, RideIsOwners, PauseHolds, OneReturn,
        Open, Terminal, Statuses, Maybe
<1>3. CASE lock # s
  <2>1. UNCHANGED <<status, ride>>
    BY <1>3 DEF Persist
  <2> QED
    BY <1>1, <2>1, OwnersFrame
<1> QED
  BY <1>2, <1>3

\* Whoever ends an open session finds it the owner and leaves the bus free.
LEMMA OwnersEnd ==
    ASSUME Owners, NEW s \in Sessions, Open(s), NEW st \in {"completed", "interrupted"},
           status' = [status EXCEPT ![s] = st], lock' = None, DropRideOf(s), UNCHANGED <<prev, issued>>,
           \/ fleet'.paused = fleet.paused /\ fleet'.journey = fleet.journey
           \/ fleet'.paused /\ fleet'.journey = fleet.journey
           \/ fleet'.paused = fleet.paused /\ fleet'.journey = [session |-> s, consumedBy |-> None]
    PROVE  Owners'
<1>1. lock = s /\ s # None /\ ~Waiting /\ ~fleet.paused
  BY DEF Owners, LockIsOwner, Awaited, PauseHolds, Sessions, None
<1>2. \A x \in Sessions : Open(x)' <=> (Open(x) /\ x # s)
  BY DEF Owners, Documents, Open
<1>3. \A x \in Sessions : Terminal(x) => Terminal(x)'
  BY DEF Owners, Documents, Terminal
<1>4. \A x \in Sessions : prev[x] # s
  BY DEF Owners, Returned, Open, Terminal, Sessions, None
<1>5. Documents'
  BY DEF Owners, Documents, DropRideOf, NoRide, Statuses, Maybe
<1>6. Unissued' /\ Returned'
  BY <1>3 DEF Owners, Documents, Unissued, Returned, Open, Maybe
<1>7. Awaited' /\ PauseHolds' /\ OneReturn'
  BY <1>1, <1>4 DEF Owners, Awaited, Waiting, PauseHolds, OneReturn
<1>8. LockIsOwner'
  BY <1>1, <1>2 DEF Owners, LockIsOwner, Sessions, None
<1>9. RideIsOwners'
  <2>1. CASE ride.session = s
    BY <2>1 DEF DropRideOf, NoRide, RideIsOwners
  <2>2. CASE ride.session # s
    BY <1>1, <2>2 DEF DropRideOf, Owners, Documents, RideIsOwners, Maybe
  <2> QED
    BY <2>1, <2>2
<1> QED
  BY <1>5, <1>6, <1>7, <1>8, <1>9 DEF Owners

\* The owner completes; its return is waited for.
LEMMA OwnersComplete ==
    ASSUME Shape, Owners, Handles, Complete
    PROVE  Owners'
<1>1. job.snap.session \in Sessions
  BY DEF Complete, JobAt, Handles, EngineOK
<1> QED
  BY <1>1, OwnersEnd DEF Complete, SetStatus, Shape

\* A new identifier is handed out.
LEMMA OwnersClaimReturn ==
    ASSUME Shape, Owners, Handles, ClaimReturn
    PROVE  Owners'
BY StoreAssumption DEF ClaimReturn, Owners, Documents, Unissued, Returned, Awaited, Waiting, LockIsOwner, RideIsOwners, PauseHolds, OneReturn, Open, Terminal, Statuses, Shape, None, Maybe, Sessions

\* The return takes the free bus and consumes the journey.
LEMMA OwnersCreateReturn ==
    ASSUME Shape, Owners, Handles, CreateReturn
    PROVE  Owners'
<1> DEFINE p == job.snap.session
           s == job.sid
<1>1. s \in Sessions /\ p \in Sessions /\ s <= issued /\ status[s] = "none"
  BY DEF CreateReturn, JobAt, Handles, EngineOK
<1>2. lock = None /\ status[p] = "completed" /\ fleet.journey = [session |-> p, consumedBy |-> None]
  BY DEF CreateReturn, MayReturn
<1>3. /\ status' = [status EXCEPT ![s] = "armed"] /\ prev' = [prev EXCEPT ![s] = p]
      /\ lock' = s /\ ride'.session = s /\ issued' = issued
  BY DEF CreateReturn, SetStatus
<1>4. fleet'.paused = fleet.paused /\ fleet'.journey = [session |-> p, consumedBy |-> s]
  BY <1>2 DEF CreateReturn, Shape
<1>5. p # None /\ s # None /\ ~fleet.paused /\ \A x \in Sessions : prev[x] # p
  BY <1>1, <1>2 DEF Owners, PauseHolds, Awaited, Waiting, Sessions, None
<1> HIDE DEF p, s
<1>6. Documents'
  BY <1>1, <1>3, <1>4 DEF Owners, Documents, Statuses, Maybe
<1>7. Unissued'
  BY <1>1, <1>3 DEF Owners, Documents, Unissued, Sessions
<1>8. Returned'
  BY <1>1, <1>2, <1>3 DEF Owners, Documents, Returned, Terminal, Maybe
<1>9. Awaited' /\ PauseHolds'
  BY <1>4, <1>5 DEF Owners, Awaited, Waiting, PauseHolds
<1>10. OneReturn'
  BY <1>1, <1>3, <1>5 DEF Owners, Documents, OneReturn
<1>11. LockIsOwner'
  BY <1>1, <1>2, <1>3 DEF Owners, Documents, LockIsOwner, Open, Sessions, None
<1>12. RideIsOwners'
  BY <1>3 DEF RideIsOwners
<1> QED
  BY <1>6, <1>7, <1>8, <1>9, <1>10, <1>11, <1>12 DEF Owners

\* The owner is interrupted and the bus paused.
LEMMA OwnersCommitStop ==
    ASSUME Shape, Owners, Handles, CommitStop
    PROVE  Owners'
<1> DEFINE s == stop.sid
<1>1. s \in Sessions
  BY DEF CommitStop, Handles, EndingOK
<1>2. CASE Open(s)
  <2>1. lock = s
    BY <1>1, <1>2 DEF Owners, LockIsOwner
  <2> QED
    BY <1>1, <1>2, <2>1, OwnersEnd DEF CommitStop, SetStatus, DropLockOf, Shape
<1>3. CASE ~Open(s)
  <2>1. status[s] = "interrupted" /\ lock # s /\ ride.session # s
    BY <1>1, <1>3 DEF CommitStop, Owners, LockIsOwner, RideIsOwners, Sessions, None
  <2>2. UNCHANGED <<status, prev, lock, ride, issued, fleet>>
    BY <1>3, <2>1 DEF CommitStop, DropLockOf, DropRideOf
  <2> QED
    BY <2>2, OwnersFrame
<1> QED
  BY <1>2, <1>3

\* A silent owner is interrupted.
LEMMA OwnersCommitScan ==
    ASSUME Shape, Owners, Handles, CommitScan
    PROVE  Owners'
<1>1. scan.sid \in Sessions /\ Open(scan.sid)
  BY DEF CommitScan, Abandoned, Handles, EndingOK
<1>2. lock = scan.sid
  BY <1>1 DEF Owners, LockIsOwner
<1> QED
  BY <1>1, <1>2, OwnersEnd DEF CommitScan, SetStatus, DropLockOf

-----------------------------------------------------------------------------
(* What is held elsewhere: each step preserves Handles.                        *)

Lasting == \A s \in Sessions : status[s] # "none" => status'[s] # "none"

Held ==
    /\ Lasting
    /\ job.pc = "return" => status'[job.sid] = status[job.sid]
    /\ issued \in Nat /\ issued' \in Nat /\ issued <= issued'

LEMMA RequestsFrame ==
    ASSUME RequestsOK, Lasting, req' = req
    PROVE  RequestsOK'
BY DEF RequestsOK, Lasting

LEMMA EngineFrame ==
    ASSUME EngineOK, Held, UNCHANGED <<event, job>>
    PROVE  EngineOK'
BY DEF EngineOK, Held, Lasting, Sessions

\* A step of a start.
LEMMA StartHandles ==
    ASSUME Shape, Owners, Handles, NEW r \in Requests, Keyless = {}, StartStep(r)
    PROVE  RequestsOK' /\ Held /\ NodeOK'
<1> USE StoreAssumption DEF Handles, Lasting
<1>1. CASE ReadAdmission(r)
  <2>1. UNCHANGED storeVars
    BY <1>1 DEF ReadAdmission
  <2>2. CASE req' = [req EXCEPT ![r] = [Idle EXCEPT !.pc = "bind", !.epoch = fleet.epoch]]
    BY <2>1, <2>2 DEF RequestsOK, Shape, storeVars, Idle, Held, NodeOK, Owners, Documents
  <2>3. CASE /\ fleet.journey.consumedBy # None
             /\ status[fleet.journey.consumedBy] \in {"failed", "interrupted"}
             /\ req' = [req EXCEPT ![r] = [Idle EXCEPT !.pc = "rearm", !.epoch = fleet.epoch,
                                                       !.sid = fleet.journey.consumedBy]]
    <3>1. fleet.journey.consumedBy \in Sessions
      BY <2>3 DEF Owners, Documents, Maybe
    <3> QED
      BY <2>1, <2>3, <3>1 DEF RequestsOK, Shape, storeVars, Idle, Held, NodeOK, Owners, Documents
  <2> QED
    BY <1>1, <2>2, <2>3 DEF ReadAdmission
<1>2. CASE Rearm(r)
  BY <1>2 DEF Rearm, At, Shape, RequestsOK, NodeOK, Held, EngineOK, Owners, Documents, storeVars, firestoreVars, None, Sessions, Idle
<1>3. CASE BeginRequest(r)
  BY <1>3 DEF BeginRequest, At, Shape, RequestsOK, NodeOK, Held, EngineOK, Owners, Documents, storeVars, firestoreVars, None, Sessions, Idle
<1>4. CASE ReadBinding(r)
  <2>1. UNCHANGED storeVars
    BY <1>4 DEF ReadBinding
  <2>2. RequestsOK'
    <3>1. CASE req' = [req EXCEPT ![r] = [@ EXCEPT !.pc = "read", !.pinned = Bound(r)]]
      BY <2>1, <3>1 DEF RequestsOK, Shape, storeVars
    <3>2. CASE req' = [req EXCEPT ![r] = [@ EXCEPT !.pc = "rearm"]]
      BY <2>1, <3>2 DEF RequestsOK, Shape, storeVars
    <3> QED
      BY <1>4, <3>1, <3>2 DEF ReadBinding
  <2> QED
    BY <2>1, <2>2 DEF Held, NodeOK, storeVars, Owners, Documents
<1>5. CASE ReadNode(r)
  <2>1. UNCHANGED storeVars
    BY <1>5 DEF ReadNode
  <2>2. PICK pc \in {"resume", "claim"} :
            /\ req' = [req EXCEPT ![r] = [@ EXCEPT !.pc = pc, !.seen = Glance(node)]]
            /\ pc = "resume" => Running(node)
    BY <1>5 DEF ReadNode
  <2>3. Glance(node).session = node.session /\ (Running(node) => node.session \in Sessions)
    BY DEF Glance, Running, NodeOK, Maybe
  <2>4. RequestsOK'
    BY <2>1, <2>2, <2>3 DEF RequestsOK, Shape, storeVars
  <2> QED
    BY <2>1, <2>4 DEF Held, NodeOK, storeVars, Owners, Documents
<1>6. CASE ClaimResume(r)
  BY <1>6 DEF ClaimResume, At, Shape, RequestsOK, NodeOK, Held, EngineOK, Owners, Documents, storeVars, firestoreVars, None, Sessions, Project, Open
<1>7. CASE ClaimOwned(r)
  BY <1>7 DEF ClaimOwned, At, Shape, RequestsOK, NodeOK, Held, EngineOK, Owners, Documents, storeVars, firestoreVars, None, Sessions, Owners, Documents, Maybe, Open
<1>8. CASE ClaimFree(r)
  BY <1>8 DEF ClaimFree, At, Shape, RequestsOK, NodeOK, Held, EngineOK, Owners, Documents, storeVars, firestoreVars, None, Sessions, SetStatus, Owners, Documents, Unissued
<1>9. CASE ReadRide(r)
  BY <1>9 DEF ReadRide, At, Shape, RequestsOK, NodeOK, Held, EngineOK, Owners, Documents, storeVars, firestoreVars, None, Sessions
<1>10. CASE ClaimNode(r)
  <2>1. node'.session = req[r].sid /\ node'.trip = req[r].trip
    BY <1>10 DEF ClaimNode, Presence, NoNode
  <2>2. RequestsOK' /\ Held
    BY <1>10 DEF ClaimNode, At, Shape, RequestsOK, Held, Project, firestoreVars, Owners, Documents
  <2>3. NodeOK'
    BY <1>10, <2>1 DEF ClaimNode, At, RequestsOK, NodeOK, Maybe
  <2> QED
    BY <2>2, <2>3
<1>11. CASE LoseNode(r)
  BY <1>11 DEF LoseNode, At, Shape, RequestsOK, NodeOK, Held, EngineOK, Owners, Documents, storeVars, firestoreVars, None, Sessions
<1>12. CASE FailStart(r)
  BY <1>12 DEF FailStart, At, Shape, RequestsOK, NodeOK, Held, EngineOK, Owners, Documents, storeVars, firestoreVars, None, Sessions, SetStatus, Idle, Owners, Documents
<1>13. CASE CheckNode(r)
  BY <1>13 DEF CheckNode, At, Shape, RequestsOK, NodeOK, Held, EngineOK, Owners, Documents, storeVars, firestoreVars, None, Sessions
<1>14. CASE CommitProjections(r)
  BY <1>14 DEF CommitProjections, At, Shape, RequestsOK, NodeOK, Held, EngineOK, Owners, Documents, storeVars, firestoreVars, None, Sessions, Register, Departed, Idle, Owners, Documents
<1>15. CASE FinishSetup(r)
  BY <1>15 DEF FinishSetup, At, Shape, RequestsOK, NodeOK, Held, EngineOK, Owners, Documents, storeVars, firestoreVars, None, Sessions, Idle
<1>16. CASE GiveUp(r)
  BY <1>16 DEF GiveUp, At, Shape, RequestsOK, NodeOK, Held, EngineOK, Owners, Documents, storeVars, firestoreVars, None, Sessions, Idle
<1>17. ASSUME NEW docs \in SUBSET {"session", "ride"}, WriteUnguarded(r, docs)
      PROVE  FALSE
  BY <1>17 DEF WriteUnguarded, At, RequestsOK
<1> QED
  BY <1>1, <1>2, <1>3, <1>4, <1>5, <1>6, <1>7, <1>8, <1>9, <1>10, <1>11, <1>12, <1>13, <1>14, <1>15, <1>16, <1>17 DEF StartStep

\* What a reader keeps of the live record names a ride when it shows one.
LEMMA GlanceNames ==
    ASSUME NodeOK
    PROVE  /\ Glance(node).session = node.session /\ Engine(node).session = node.session
           /\ Engine(node).trip = node.trip /\ Engine(node).running = Running(node)
           /\ Running(node) \/ node.trip = "done" => node.session \in Sessions
BY DEF Glance, Engine, Running, NodeOK, Maybe

\* A step of the engine.
LEMMA EngineHandles ==
    ASSUME Shape, Owners, Handles, EngineStep
    PROVE  EngineOK' /\ Lasting /\ NodeOK'
<1> USE StoreAssumption DEF Handles, Lasting
<1>0. /\ status \in [Sessions -> Statuses] /\ issued \in Nat /\ lock \in Maybe
      /\ \A s \in Sessions : s > issued => status[s] = "none"
  BY DEF Owners, Documents, Unissued
<1>1. CASE Observe
  BY <1>1, GlanceNames DEF Observe, EngineOK, storeVars, Maybe, NodeOK, Sessions, None
<1>2. CASE BeginRunning
  <2>1. event.session \in Sessions /\ UNCHANGED storeVars
    BY <1>2 DEF BeginRunning, EngineOK, Maybe
  <2>2. job'.snap = event /\ job'.pc \in {"complete", "persist", "publish"} /\ event' = Unseen
    BY <1>2 DEF BeginRunning, NoJob
  <2> QED
    BY <2>1, <2>2 DEF EngineOK, storeVars, Unseen, Glance, NoNode, Running, Maybe, NodeOK
<1>3. CASE Persist
  <2>1. job'.snap = job.snap /\ job'.pc = "publish" /\ UNCHANGED <<node, event>>
    BY <1>3 DEF Persist, Shape
  <2>2. Lasting
    <3>1. status' = status \/ status' = [status EXCEPT ![job.snap.session] = "active"]
      BY <1>3 DEF Persist, SetStatus
    <3> QED
      BY <3>1, <1>0
  <2> QED
    BY <2>1, <2>2, <1>3 DEF EngineOK, NodeOK, Persist, JobAt
<1>4. CASE Publish
  <2>1. node' = node \/ (node.trip # "done" /\ node' = [node EXCEPT !.trip = job.trip, !.idx = job.idx]
                                           /\ node.session = job.snap.session)
    BY <1>4 DEF Publish
  <2>2. job.snap.session \in Sessions /\ 0 \notin Sessions
    BY <1>4 DEF Publish, JobAt, EngineOK, Sessions
  <2>3. NodeOK'
    BY <2>1, <2>2 DEF NodeOK, Shape, None
  <2> QED
    BY <2>3, <1>4 DEF Publish, EngineOK, NoJob, firestoreVars
<1>5. CASE Complete
  BY <1>0, <1>5 DEF Complete, EngineOK, NodeOK, SetStatus, Shape, JobAt
<1>6. CASE CompleteAgain
  BY <1>6 DEF CompleteAgain, EngineOK, NodeOK, Shape, JobAt, storeVars
<1>7. CASE MarkDone
  BY <1>7 DEF MarkDone, EngineOK, NodeOK, Shape, JobAt, firestoreVars, NoJob, Sessions, None
<1>8. CASE RetireDone
  BY <1>8 DEF RetireDone, EngineOK, NodeOK, Shape, firestoreVars, workerVars
<1>9. CASE BeginDone
  BY <1>9 DEF BeginDone, EngineOK, NodeOK, storeVars, NoJob, JobAt, Unseen, Glance, NoNode, Running, Maybe
<1>10. CASE LookForReturn
  <2>1. job.snap.session \in Sessions /\ UNCHANGED <<storeVars, event>>
    BY <1>10 DEF LookForReturn, JobAt, EngineOK
  <2>2. job'.snap = job.snap /\ job'.pc \in {"bring", "claim"} /\ (job'.pc = "bring" => job'.sid \in Sessions)
    BY <1>0, <1>10 DEF LookForReturn, DurableRide, Shape, Maybe
  <2> QED
    BY <2>1, <2>2 DEF EngineOK, NodeOK, storeVars
<1>11. CASE BringReturn
  <2>1. job.sid \in Sessions /\ job.snap.session \in Sessions
    BY <1>11 DEF BringReturn, JobAt, EngineOK
  <2>2. CASE RestorableOver(node, job.sid)
    <3>1. node'.session = job.sid /\ job' = NoJob
      BY <1>11, <2>2 DEF BringReturn, Restored, Shape
    <3> QED
      BY <1>11, <2>1, <3>1 DEF BringReturn, EngineOK, NodeOK, NoJob, firestoreVars, Maybe, None, Sessions
  <2>3. CASE ~RestorableOver(node, job.sid)
    BY <1>11, <2>1, <2>3 DEF BringReturn, EngineOK, NodeOK, firestoreVars, Shape
  <2> QED
    BY <2>2, <2>3
<1>12. CASE ClaimReturn
  <2>1. issued' \in Sessions /\ issued' = issued + 1 /\ status[issued'] = "none"
    BY <1>0, <1>12 DEF ClaimReturn, Sessions
  <2>2. job'.snap = job.snap /\ job'.pc = "return" /\ job'.sid = issued' /\ UNCHANGED <<status, event>>
    BY <1>12 DEF ClaimReturn, Shape
  <2> QED
    BY <1>0, <1>12, <2>1, <2>2 DEF ClaimReturn, EngineOK, NodeOK, Shape, JobAt
<1>13. CASE CreateReturn
  BY <1>0, <1>13 DEF CreateReturn, EngineOK, NodeOK, Shape, JobAt, SetStatus
<1>14. CASE RefuseReturn
  BY <1>14 DEF RefuseReturn, EngineOK, NodeOK, Shape, JobAt, storeVars
<1>15. CASE ActivateReturn
  BY <1>15 DEF ActivateReturn, EngineOK, NodeOK, Shape, JobAt, firestoreVars, NoJob, Restored, Maybe
<1>16. CASE ClearClaim
  BY <1>16 DEF ClearClaim, EngineOK, NodeOK, Shape, JobAt, firestoreVars, NoJob
<1>17. CASE AbandonJob
  BY <1>17 DEF AbandonJob, EngineOK, NodeOK, storeVars, NoJob
<1> QED
  BY <1>1, <1>2, <1>3, <1>4, <1>5, <1>6, <1>7, <1>8, <1>9, <1>10, <1>11, <1>12, <1>13, <1>14, <1>15, <1>16, <1>17
  DEF EngineStep

\* A step of a restore.
LEMMA RestoreHandles ==
    ASSUME Shape, Owners, Handles, RestoreStep
    PROVE  RestoreOK' /\ NodeOK'
<1> USE DEF Handles
<1>1. CASE LookForRide
  <2>1. restore'.sid \in Sessions
    <3>1. DurableRide # None => ride.session \in Sessions
      BY DEF DurableRide, Owners, Documents, Maybe
    <3>2. DurableJourney # None => DurableJourney \in Sessions
      BY DEF DurableJourney, Owners, Documents, Maybe
    <3> QED
      BY <1>1, <3>1, <3>2 DEF LookForRide
  <2> QED
    BY <1>1, <2>1 DEF LookForRide, RestoreOK, NodeOK, storeVars
<1>2. CASE RestoreNode
  <2>1. restore.sid \in Sessions
    BY <1>2 DEF RestoreNode, RestoreOK
  <2>2. node' = node \/ node'.session = restore.sid
    BY <1>2 DEF RestoreNode, Restored, Shape
  <2> QED
    BY <1>2, <2>1, <2>2 DEF RestoreNode, RestoreOK, NodeOK, NoRestore, Maybe, None, Sessions
<1>3. CASE AbandonRestore
  BY <1>3 DEF AbandonRestore, RestoreOK, NodeOK, NoRestore, storeVars
<1> QED
  BY <1>1, <1>2, <1>3 DEF RestoreStep

\* A step of End ride early or of the reconciler.
LEMMA EndingHandles ==
    ASSUME Shape, Owners, Handles, Stopping \/ Reconciling
    PROVE  EndingOK' /\ NodeOK' /\ Held /\ UNCHANGED <<req, event, job, restore>>
<1> USE StoreAssumption DEF Handles, Held, Lasting, storeVars, startVars, workerVars, firestoreVars
<1>0. status \in [Sessions -> Statuses] /\ issued \in Nat
  BY DEF Owners, Documents
<1>1. ASSUME NEW s \in Sessions, ReadStop(s)
      PROVE  EndingOK' /\ NodeOK' /\ Held /\ UNCHANGED <<req, event, job, restore>>
  BY <1>0, <1>1 DEF ReadStop, EndingOK, NodeOK
<1>2. CASE CommitStop
  <2>1. stop.sid \in Sessions /\ stop'.sid = stop.sid
    BY <1>2 DEF CommitStop, EndingOK, Shape
  <2>2. status' = status \/ (Open(stop.sid) /\ status' = [status EXCEPT ![stop.sid] = "interrupted"])
    BY <1>2 DEF CommitStop, SetStatus
  <2>3. Held
    <3>1. job.pc = "return" => ~Open(job.sid)
      BY DEF EngineOK, Open
    <3> QED
      BY <1>0, <1>2, <2>1, <2>2, <3>1 DEF CommitStop, EngineOK
  <2> QED
    BY <1>2, <2>1, <2>3 DEF CommitStop, EndingOK, NodeOK
<1>3. CASE RetireStopped
  BY <1>0, <1>3 DEF RetireStopped, EndingOK, NodeOK, NoStop, Presence, NoNode, Maybe
<1>4. CASE AbandonStop
  BY <1>0, <1>4 DEF AbandonStop, EndingOK, NodeOK, NoStop
<1>5. ASSUME NEW s \in Sessions, ScanSession(s)
      PROVE  EndingOK' /\ NodeOK' /\ Held /\ UNCHANGED <<req, event, job, restore>>
  BY <1>0, <1>5 DEF ScanSession, EndingOK, NodeOK, NoScan
<1>6. CASE RetireScanned
  <2>1. scan'.sid = scan.sid /\ scan.sid \in Sessions
    BY <1>6 DEF RetireScanned, EndingOK, Shape
  <2> QED
    BY <1>0, <1>6, <2>1 DEF RetireScanned, EndingOK, NodeOK, NoNode, Maybe
<1>7. CASE CommitScan
  <2>1. scan.sid \in Sessions /\ Open(scan.sid) /\ status' = [status EXCEPT ![scan.sid] = "interrupted"]
    BY <1>7 DEF CommitScan, EndingOK, Abandoned, SetStatus
  <2>2. Held
    <3>1. job.pc = "return" => ~Open(job.sid)
      BY DEF EngineOK, Open
    <3> QED
      BY <1>0, <1>7, <2>1, <3>1 DEF CommitScan, EngineOK
  <2> QED
    BY <1>7, <2>2 DEF CommitScan, EndingOK, NodeOK, NoScan
<1>8. CASE AbandonScan
  BY <1>0, <1>8 DEF AbandonScan, EndingOK, NodeOK, NoScan
<1>9. CASE Silence
  BY <1>0, <1>9 DEF Silence, EndingOK, NodeOK, Shape, endVars
<1> QED
  BY <1>1, <1>2, <1>3, <1>4, <1>5, <1>6, <1>7, <1>8, <1>9 DEF Stopping, Reconciling

\* The device's own writes and the sweep touch the live record only.
LEMMA DeviceNodeOK ==
    ASSUME Shape, NodeOK, Telemetry \/ SweepNode
    PROVE  NodeOK'
BY DEF Telemetry, SweepNode, NodeOK, Shape, Presence, NoNode, Maybe, None

-----------------------------------------------------------------------------
(* The inductive invariant.                                                    *)

THEOREM InitIInv == Init => IInv
<1> SUFFICES ASSUME Init PROVE IInv
  OBVIOUS
<1> USE DEF Init
<1>1. Shape
  BY DEF StoreInit, StartInit, WorkerInit, Shape, Idle, NoRide, NoJourney, Presence, NoNode, NoJob, NoStop, NoScan
<1>2. status = [s \in Sessions |-> "none"] /\ lock = None /\ prev = [s \in Sessions |-> None] /\ issued = 0
      /\ ride.session = None /\ fleet.journey = NoJourney /\ ~fleet.paused
  BY DEF StoreInit, NoRide
<1>3. Owners
  BY <1>2 DEF Owners, Documents, Unissued, Returned, Awaited, Waiting, LockIsOwner, RideIsOwners, PauseHolds, OneReturn,
              Open, Statuses, Maybe, Sessions, None, NoJourney
<1>4. RequestsOK
  BY DEF StartInit, RequestsOK, Idle
<1>5. NodeOK /\ EngineOK /\ RestoreOK /\ EndingOK
  BY DEF StoreInit, WorkerInit, NodeOK, EngineOK, RestoreOK, EndingOK, Presence, NoNode, NoJob, NoRestore, NoStop, NoScan,
         Unseen, Glance, Running, Maybe
<1> QED
  BY <1>1, <1>3, <1>4, <1>5 DEF IInv, Handles

\* Every step leaves the fields in place.
LEMMA StartShape ==
    ASSUME Shape, NEW r \in Requests, StartStep(r), Keyless = {}, RequestsOK, UNCHANGED <<workerVars, endVars>>
    PROVE  Shape'
<1> USE DEF Shape, storeVars, firestoreVars, workerVars, endVars
<1>1. CASE ReadAdmission(r)
  <2>1. CASE req' = [req EXCEPT ![r] = [Idle EXCEPT !.pc = "bind", !.epoch = fleet.epoch]]
    BY <1>1, <2>1 DEF ReadAdmission, Idle
  <2>2. CASE req' = [req EXCEPT ![r] = [Idle EXCEPT !.pc = "rearm", !.epoch = fleet.epoch,
                                                    !.sid = fleet.journey.consumedBy]]
    BY <1>1, <2>2 DEF ReadAdmission, Idle
  <2> QED
    BY <1>1, <2>1, <2>2 DEF ReadAdmission
<1>2. CASE Rearm(r)
  BY <1>2 DEF Rearm, Idle, NoJourney
<1>3. CASE BeginRequest(r)
  BY <1>3 DEF BeginRequest, Idle
<1>4. CASE ReadBinding(r)
  BY <1>4 DEF ReadBinding
<1>5. CASE ReadNode(r)
  BY <1>5 DEF ReadNode
<1>6. CASE ClaimResume(r)
  BY <1>6 DEF ClaimResume
<1>7. CASE ClaimOwned(r)
  BY <1>7 DEF ClaimOwned, Resumed
<1>8. CASE ClaimFree(r)
  BY <1>8 DEF ClaimFree, Resumed, NoJourney
<1>9. CASE ReadRide(r)
  BY <1>9 DEF ReadRide
<1>10. CASE ClaimNode(r)
  BY <1>10 DEF ClaimNode, Presence, NoNode
<1>11. CASE LoseNode(r)
  BY <1>11 DEF LoseNode
<1>12. CASE FailStart(r)
  BY <1>12 DEF FailStart, Idle
<1>13. CASE CheckNode(r)
  BY <1>13 DEF CheckNode
<1>14. CASE CommitProjections(r)
  BY <1>14 DEF CommitProjections, Idle
<1>15. CASE FinishSetup(r)
  BY <1>15 DEF FinishSetup, Idle
<1>16. CASE GiveUp(r)
  BY <1>16 DEF GiveUp, Idle
<1>17. ASSUME NEW docs \in SUBSET {"session", "ride"}, WriteUnguarded(r, docs)
      PROVE  FALSE
  BY <1>17 DEF WriteUnguarded, At, RequestsOK
<1> QED
  BY <1>1, <1>2, <1>3, <1>4, <1>5, <1>6, <1>7, <1>8, <1>9, <1>10, <1>11, <1>12, <1>13, <1>14, <1>15, <1>16, <1>17 DEF StartStep

LEMMA EngineShape ==
    ASSUME Shape, EngineStep, UNCHANGED <<startVars, endVars>>
    PROVE  Shape'
<1> USE DEF Shape, storeVars, firestoreVars, startVars, endVars, workerVars
<1>1. CASE Observe
  BY <1>1 DEF Observe
<1>2. CASE BeginRunning
  BY <1>2 DEF BeginRunning, NoJob
<1>3. CASE Persist
  <2>1. \/ ride' = ride /\ job' = [job EXCEPT !.pc = "publish"]
        \/ \E trip, idx : /\ ride' = [session |-> job.snap.session, trip |-> trip, idx |-> idx, age |-> 0]
                          /\ job' = [job EXCEPT !.pc = "publish", !.trip = trip, !.idx = idx]
    BY <1>3 DEF Persist
  <2> QED
    BY <1>3, <2>1 DEF Persist
<1>4. CASE Publish
  BY <1>4 DEF Publish, NoJob
<1>5. CASE Complete
  BY <1>5 DEF Complete, DropRideOf, NoRide
<1>6. CASE CompleteAgain
  BY <1>6 DEF CompleteAgain
<1>7. CASE MarkDone
  BY <1>7 DEF MarkDone, NoJob
<1>8. CASE RetireDone
  BY <1>8 DEF RetireDone
<1>9. CASE BeginDone
  BY <1>9 DEF BeginDone, NoJob
<1>10. CASE LookForReturn
  BY <1>10 DEF LookForReturn
<1>11. CASE BringReturn
  <2>1. CASE RestorableOver(node, job.sid)
    BY <1>11, <2>1 DEF BringReturn, NoJob, Restored
  <2>2. CASE ~RestorableOver(node, job.sid)
    BY <1>11, <2>2 DEF BringReturn
  <2> QED
    BY <2>1, <2>2
<1>12. CASE ClaimReturn
  BY <1>12 DEF ClaimReturn
<1>13. CASE CreateReturn
  BY <1>13 DEF CreateReturn
<1>14. CASE RefuseReturn
  BY <1>14 DEF RefuseReturn
<1>15. CASE ActivateReturn
  BY <1>15 DEF ActivateReturn, NoJob, Restored
<1>16. CASE ClearClaim
  BY <1>16 DEF ClearClaim, NoJob
<1>17. CASE AbandonJob
  BY <1>17 DEF AbandonJob, NoJob
<1> QED
  BY <1>1, <1>2, <1>3, <1>4, <1>5, <1>6, <1>7, <1>8, <1>9, <1>10, <1>11, <1>12, <1>13, <1>14, <1>15, <1>16, <1>17
  DEF EngineStep

LEMMA OtherShape ==
    ASSUME Shape, Restoring \/ Device \/ Stopping \/ Reconciling
    PROVE  Shape'
<1> USE DEF Shape, storeVars, firestoreVars, startVars, workerVars, endVars
<1>1. CASE Restoring
  BY <1>1 DEF Restoring, RestoreStep, LookForRide, RestoreNode, AbandonRestore, Restored
<1>2. CASE Device
  BY <1>2 DEF Device, Telemetry, SweepNode, Presence, NoNode
<1>3. CASE Stopping
  <2>1. ASSUME NEW s \in Sessions, ReadStop(s)
        PROVE  Shape'
    BY <2>1 DEF ReadStop
  <2>2. CASE CommitStop
    BY <2>2 DEF CommitStop, DropRideOf, NoRide
  <2>3. CASE RetireStopped
    BY <2>3 DEF RetireStopped, NoStop, Presence, NoNode
  <2>4. CASE AbandonStop
    BY <2>4 DEF AbandonStop, NoStop
  <2> QED
    BY <1>3, <2>1, <2>2, <2>3, <2>4 DEF Stopping
<1>4. CASE Reconciling
  <2>1. ASSUME NEW s \in Sessions, ScanSession(s)
        PROVE  Shape'
    BY <2>1 DEF ScanSession, NoScan
  <2>2. CASE RetireScanned
    BY <2>2 DEF RetireScanned, NoNode
  <2>3. CASE CommitScan
    BY <2>3 DEF CommitScan, NoScan, DropRideOf, NoRide
  <2>4. CASE AbandonScan
    BY <2>4 DEF AbandonScan, NoScan
  <2>5. CASE Silence
    BY <2>5 DEF Silence
  <2> QED
    BY <1>4, <2>1, <2>2, <2>3, <2>4, <2>5 DEF Reconciling
<1> QED
  BY <1>1, <1>2, <1>3, <1>4

\* Every step of a start preserves the invariant.
LEMMA StartStepIInv ==
    ASSUME IInv, Starting, Keyless = {}
    PROVE  IInv'
<1>1. PICK r \in Requests : StartStep(r) /\ UNCHANGED <<workerVars, endVars>>
  BY DEF Starting
<1>2. Shape /\ Owners /\ Handles /\ RequestsOK
  BY DEF IInv, Handles
<1>3. RequestsOK' /\ Held /\ NodeOK'
  BY <1>1, <1>2, StartHandles
<1>4. Handles'
  BY <1>1, <1>2, <1>3, EngineFrame DEF Handles, RestoreOK, EndingOK, workerVars, endVars
<1>5. Shape'
  BY <1>1, <1>2, StartShape
<1>6. Owners'
  <2>1. CASE UNCHANGED firestoreVars
    BY <1>2, <2>1, OwnersFrame DEF firestoreVars
  <2>2. CASE Rearm(r) \/ ClaimResume(r) \/ ClaimOwned(r) \/ ClaimFree(r) \/ FailStart(r) \/ CommitProjections(r)
    BY <1>2, <2>2, OwnersRearm, OwnersClaimResume, OwnersClaimOwned, OwnersClaimFree, OwnersFailStart, OwnersCommitProjections
  <2>3. ASSUME NEW docs \in SUBSET {"session", "ride"}, WriteUnguarded(r, docs)
        PROVE  FALSE
    BY <1>2, <2>3 DEF WriteUnguarded, At, RequestsOK
  <2> QED
    BY <1>1, <2>1, <2>2, <2>3
    DEF StartStep, ReadAdmission, BeginRequest, ReadBinding, ReadNode, ReadRide, ClaimNode, LoseNode, CheckNode,
        FinishSetup, GiveUp, storeVars, firestoreVars
<1> QED
  BY <1>4, <1>5, <1>6 DEF IInv

\* Every step of the engine does.
LEMMA EngineStepIInv ==
    ASSUME IInv, Working
    PROVE  IInv'
<1>1. EngineStep /\ UNCHANGED <<startVars, endVars>>
  BY DEF Working
<1>2. Shape /\ Owners /\ Handles
  BY DEF IInv
<1>3. EngineOK' /\ Lasting /\ NodeOK'
  BY <1>1, <1>2, EngineHandles
<1>4. restore' = restore
  BY <1>1 DEF EngineStep, Observe, BeginRunning, Persist, Publish, Complete, CompleteAgain, MarkDone, RetireDone,
      BeginDone, LookForReturn, BringReturn, ClaimReturn, CreateReturn, RefuseReturn, ActivateReturn, ClearClaim,
      AbandonJob, workerVars
<1>5. Handles'
  BY <1>1, <1>2, <1>3, <1>4, RequestsFrame DEF Handles, RestoreOK, EndingOK, startVars, endVars
<1>6. Shape'
  BY <1>1, <1>2, EngineShape
<1>7. Owners'
  <2>1. CASE UNCHANGED firestoreVars
    BY <1>2, <2>1, OwnersFrame DEF firestoreVars
  <2>2. CASE Persist \/ Complete \/ ClaimReturn \/ CreateReturn
    BY <1>2, <2>2, OwnersPersist, OwnersComplete, OwnersClaimReturn, OwnersCreateReturn
  <2> QED
    BY <1>1, <2>1, <2>2
    DEF EngineStep, Observe, BeginRunning, Publish, CompleteAgain, MarkDone, RetireDone, BeginDone, LookForReturn,
        BringReturn, RefuseReturn, ActivateReturn, ClearClaim, AbandonJob, storeVars, firestoreVars
<1> QED
  BY <1>5, <1>6, <1>7 DEF IInv

\* So do restores and the device, which leave Firestore alone.
LEMMA LiveStepIInv ==
    ASSUME IInv, Restoring \/ Device
    PROVE  IInv'
<1>1. Shape /\ Owners /\ Handles
  BY DEF IInv
<1>2. UNCHANGED <<firestoreVars, event, job, startVars, endVars>>
  BY DEF Restoring, Device, RestoreStep, LookForRide, RestoreNode, AbandonRestore, Telemetry, SweepNode,
     storeVars, firestoreVars, workerVars
<1>3. RestoreOK' /\ NodeOK'
  <2>1. CASE Restoring
    BY <1>1, <2>1, RestoreHandles DEF Restoring
  <2>2. CASE Device
    BY <1>1, <2>2, DeviceNodeOK DEF Device, Handles, RestoreOK, workerVars
  <2> QED
    BY <2>1, <2>2
<1>4. Lasting /\ Held
  BY <1>1, <1>2 DEF Lasting, Held, firestoreVars, Owners, Documents
<1>5. Handles'
  BY <1>1, <1>2, <1>3, <1>4, RequestsFrame, EngineFrame DEF Handles, EndingOK, startVars, endVars
<1>6. Owners'
  BY <1>1, <1>2, OwnersFrame DEF firestoreVars
<1> QED
  BY <1>1, <1>5, <1>6, OtherShape DEF IInv

\* So do End ride early and the reconciler.
LEMMA EndingStepIInv ==
    ASSUME IInv, Stopping \/ Reconciling
    PROVE  IInv'
<1>1. Shape /\ Owners /\ Handles
  BY DEF IInv
<1>2. EndingOK' /\ NodeOK' /\ Held /\ UNCHANGED <<req, event, job, restore>>
  BY <1>1, EndingHandles
<1>3. Handles'
  BY <1>1, <1>2, RequestsFrame, EngineFrame DEF Handles, Held, RestoreOK
<1>4. Owners'
  <2>1. CASE UNCHANGED <<status, prev, lock, fleet, issued>> /\ ride'.session = ride.session
    BY <1>1, <2>1, OwnersFrame
  <2>2. CASE CommitStop \/ CommitScan
    BY <1>1, <2>2, OwnersCommitStop, OwnersCommitScan
  <2>3. CASE Silence
    BY <1>1, <2>1, <2>3 DEF Silence, Shape
  <2> QED
    BY <2>1, <2>2, <2>3
    DEF Stopping, Reconciling, ReadStop, RetireStopped, AbandonStop, ScanSession, RetireScanned, AbandonScan,
        storeVars, firestoreVars
<1> QED
  BY <1>1, <1>3, <1>4, OtherShape DEF IInv

\* The invariant is inductive.
THEOREM NextIInv ==
    ASSUME IInv, [Next]_vars, Keyless = {}
    PROVE  IInv'
<1>1. CASE UNCHANGED vars
  <2>1. UNCHANGED <<status, prev, quiet, lock, ride, fleet, binding, node, issued, req, event, job, restore, stop, scan>>
    BY <1>1 DEF vars, storeVars, startVars, workerVars, endVars
  <2>2. Shape' /\ Owners'
    BY <2>1, OwnersFrame DEF IInv, Shape
  <2>3. Handles'
    BY <2>1 DEF IInv, Handles, RequestsOK, NodeOK, EngineOK, RestoreOK, EndingOK
  <2> QED
    BY <2>2, <2>3 DEF IInv
<1> QED
  BY <1>1, StartStepIInv, EngineStepIInv, LiveStepIInv, EndingStepIInv DEF Next

-----------------------------------------------------------------------------
(* The theorems.                                                               *)

\* With a key for every start, the invariant holds in every reachable state.
THEOREM SpecIInv == Keyless = {} /\ Spec => []IInv
<1> SUFFICES ASSUME Keyless = {} PROVE Spec => []IInv
  OBVIOUS
<1>1. IInv /\ [Next]_vars => IInv'
  BY NextIInv
<1> QED
  BY <1>1, InitIInv, PTL DEF Spec

\* The bus lock names exactly the ride that is not over, across every
\* interleaving of starts, resumes, completions, returns, stops and sweeps.
LEMMA SpecLockIsOwner == Keyless = {} /\ Spec => []LockIsOwner
<1>1. IInv => LockIsOwner
  BY DEF IInv, Owners
<1> QED
  BY <1>1, SpecIInv, PTL

\* Durable progress belongs to the ride that holds the bus, or to a start that
\* was failed under way.
LEMMA SpecRideIsOwners == Keyless = {} /\ Spec => []RideIsOwners
<1>1. IInv => RideIsOwners
  BY DEF IInv, Owners
<1> QED
  BY <1>1, SpecIInv, PTL

\* The lock and the durable progress never disagree about the owner of the bus.
THEOREM SpecOwnership == Keyless = {} /\ Spec => []Ownership
<1>1. LockIsOwner /\ RideIsOwners => Ownership
  BY DEF Ownership
<1> QED
  BY <1>1, SpecLockIsOwner, SpecRideIsOwners, PTL

\* After End ride early nothing but a deliberate start puts the bus back into
\* service: the turnaround finds no journey to return from.
THEOREM SpecPauseHolds == Keyless = {} /\ Spec => []PauseHolds
<1>1. IInv => PauseHolds
  BY DEF IInv, Owners
<1> QED
  BY <1>1, SpecIInv, PTL

\* A completed ride has one automatic return at most.
THEOREM SpecOneReturn == Keyless = {} /\ Spec => []OneReturn
<1>1. IInv => OneReturn
  BY DEF IInv, Owners
<1> QED
  BY <1>1, SpecIInv, PTL

\* A ride that is over stays over: every step that writes a status finds the
\* session open, new, or about to end.
LEMMA TerminalStep ==
    ASSUME IInv, Next, Keyless = {}, NEW s \in Sessions, Terminal(s)
    PROVE  Terminal(s)'
<1>1. Shape /\ Owners /\ Handles /\ status \in [Sessions -> Statuses] /\ issued \in Nat
  BY DEF IInv, Owners, Documents
<1> USE DEF Terminal
<1>2. CASE Starting
  <2>1. PICK r \in Requests : StartStep(r)
    BY <1>2 DEF Starting
  <2>2. CASE ClaimFree(r)
    <3>1. issued' = issued + 1 /\ issued < MaxSessions /\ status' = [status EXCEPT ![issued'] = "pending"]
      BY <2>2 DEF ClaimFree, SetStatus
    <3>2. issued' \in Sessions /\ status[issued'] = "none"
      BY <1>1, <3>1, StoreAssumption DEF Owners, Unissued, Sessions
    <3> QED
      BY <1>1, <3>1, <3>2
  <2>3. CASE FailStart(r)
    BY <1>1, <2>3 DEF FailStart, SetStatus
  <2>4. CASE CommitProjections(r)
    BY <1>1, <2>4 DEF CommitProjections, MayProject, Register, Open
  <2>5. ASSUME NEW docs \in SUBSET {"session", "ride"}, WriteUnguarded(r, docs)
        PROVE  FALSE
    BY <1>1, <2>5 DEF WriteUnguarded, At, Handles, RequestsOK
  <2>6. CASE status' = status
    BY <2>6
  <2> QED
    BY <2>1, <2>2, <2>3, <2>4, <2>5, <2>6
    DEF StartStep, ReadAdmission, Rearm, BeginRequest, ReadBinding, ReadNode, ClaimResume, ClaimOwned, ReadRide,
        ClaimNode, LoseNode, CheckNode, FinishSetup, GiveUp, storeVars, firestoreVars
<1>3. CASE Working
  <2>1. CASE Persist
    BY <1>1, <2>1 DEF Persist, SetStatus, Open
  <2>2. CASE Complete
    BY <1>1, <2>2 DEF Complete, SetStatus
  <2>3. CASE CreateReturn
    <3>1. job.sid \in Sessions /\ status[job.sid] = "none" /\ status' = [status EXCEPT ![job.sid] = "armed"]
      BY <1>1, <2>3 DEF CreateReturn, SetStatus, Handles, EngineOK, JobAt
    <3> QED
      BY <1>1, <3>1
  <2>4. CASE status' = status
    BY <2>4
  <2> QED
    BY <1>3, <2>1, <2>2, <2>3, <2>4
    DEF Working, EngineStep, Observe, BeginRunning, Publish, CompleteAgain, MarkDone, RetireDone, BeginDone,
        LookForReturn, BringReturn, ClaimReturn, RefuseReturn, ActivateReturn, ClearClaim, AbandonJob,
        storeVars, firestoreVars
<1>4. CASE Restoring \/ Device
  BY <1>4 DEF Restoring, Device, RestoreStep, LookForRide, RestoreNode, AbandonRestore, Telemetry, SweepNode,
     storeVars, firestoreVars
<1>5. CASE Stopping
  <2>1. CASE CommitStop
    BY <1>1, <2>1 DEF CommitStop, SetStatus
  <2>2. CASE status' = status
    BY <2>2
  <2> QED
    BY <1>5, <2>1, <2>2 DEF Stopping, ReadStop, RetireStopped, AbandonStop, storeVars, firestoreVars
<1>6. CASE Reconciling
  <2>1. CASE CommitScan
    BY <1>1, <2>1 DEF CommitScan, SetStatus
  <2>2. CASE status' = status
    BY <2>2
  <2> QED
    BY <1>6, <2>1, <2>2 DEF Reconciling, ScanSession, RetireScanned, AbandonScan, Silence, storeVars, firestoreVars
<1> QED
  BY <1>2, <1>3, <1>4, <1>5, <1>6 DEF Next

\* "A completed, interrupted or failed session is terminal".
THEOREM SpecTerminalStays == Keyless = {} /\ Spec => TerminalStays
<1> SUFFICES ASSUME Keyless = {} PROVE Spec => TerminalStays
  OBVIOUS
<1> DEFINE Stays == \A s \in Sessions : Terminal(s) => Terminal(s)'
<1>1. IInv /\ [Next]_vars => [Stays]_vars
  BY TerminalStep
<1>2. Spec => []IInv
  BY SpecIInv
<1> QED
  BY <1>1, <1>2, PTL DEF Spec, TerminalStays

-----------------------------------------------------------------------------
(* What a key is bound to.                                                     *)

AtWork == {"live", "recover", "lose", "check", "commit", "setup"}

\* A binding is made once, under a key of the requests', and requests keep the
\* epoch their key is made of.
KeyShape ==
    /\ binding \in [Keys -> Maybe]
    /\ "epoch" \in DOMAIN fleet /\ fleet.epoch \in Nat
    /\ \A r \in Requests : "epoch" \in DOMAIN req[r] /\ req[r].epoch \in 0 .. MaxStarts

KeyInv == KeyShape /\ KeyNamesOneRide

LEMMA KeysOfRequests == ASSUME KeyShape, NEW r \in Requests PROVE KeyOf(r) \in Keys
BY StartAssumption DEF KeyShape, KeyOf

LEMMA KeyFrame ==
    ASSUME KeyInv, UNCHANGED <<binding, req>>, fleet'.epoch = fleet.epoch, "epoch" \in DOMAIN fleet'
    PROVE  KeyInv'
BY DEF KeyInv, KeyShape, KeyNamesOneRide, Bound, KeyOf

\* A request goes on under its epoch; what was bound stays bound.
LEMMA KeyKeeps ==
    ASSUME IInv, KeyInv, NEW r \in Requests, NEW x, req' = [req EXCEPT ![r] = x],
           "epoch" \in DOMAIN x, x.epoch \in 0 .. MaxStarts,
           "epoch" \in DOMAIN fleet', fleet'.epoch \in Nat,
           binding' \in [Keys -> Maybe], \A k \in Keys : binding[k] # None => binding'[k] = binding[k],
           x.pc \in AtWork /\ r \notin Keyless => binding'[IF r \in Automatic THEN x.epoch ELSE r] = x.sid
    PROVE  KeyInv'
<1>1. DOMAIN req = Requests /\ req'[r] = x /\ \A q \in Requests \ {r} : req'[q] = req[q]
  BY DEF IInv, Shape
<1>2. KeyShape'
  BY <1>1 DEF KeyInv, KeyShape
<1>3. ASSUME NEW q \in Requests \ Keyless, req'[q].pc \in AtWork
      PROVE  Bound(q)' = req'[q].sid
  <2>1. CASE q = r
    BY <1>1, <1>3, <2>1 DEF Bound, KeyOf
  <2>2. CASE q # r
    <3>1. req'[q] = req[q] /\ KeyOf(q)' = KeyOf(q) /\ KeyOf(q) \in Keys
      BY <1>1, <2>2, KeysOfRequests DEF KeyOf, KeyInv
    <3>2. binding[KeyOf(q)] = req[q].sid
      BY <1>3, <3>1 DEF KeyInv, KeyNamesOneRide, Bound, AtWork
    <3>3. req[q].sid # None
      BY <1>3, <3>1 DEF IInv, Handles, RequestsOK, AtWork
    <3> QED
      BY <3>1, <3>2, <3>3 DEF Bound
  <2> QED
    BY <2>1, <2>2
<1> QED
  BY <1>2, <1>3 DEF KeyInv, KeyNamesOneRide, AtWork

\* A request that binds nothing.
LEMMA KeyKeepsReading ==
    ASSUME IInv, KeyInv, NEW r \in Requests, NEW x, req' = [req EXCEPT ![r] = x], UNCHANGED binding,
           "epoch" \in DOMAIN x, x.epoch \in 0 .. MaxStarts,
           "epoch" \in DOMAIN fleet', fleet'.epoch \in Nat,
           x.pc \notin AtWork \/ (req[r].pc \in AtWork /\ x.sid = req[r].sid /\ x.epoch = req[r].epoch)
    PROVE  KeyInv'
<1>1. x.pc \in AtWork /\ r \notin Keyless => binding'[IF r \in Automatic THEN x.epoch ELSE r] = x.sid
  BY DEF KeyInv, KeyNamesOneRide, Bound, KeyOf, AtWork
<1>2. binding' \in [Keys -> Maybe] /\ \A k \in Keys : binding[k] # None => binding'[k] = binding[k]
  BY DEF KeyInv, KeyShape
<1> QED
  BY <1>1, <1>2, KeyKeeps

\* A claim: the key was bound to nothing or to the same ride.
LEMMA KeyKeepsClaim ==
    ASSUME IInv, KeyInv, Keyless = {}, NEW r \in Requests, NEW s \in Sessions, Bound(r) \in {None, s}, Bind(r, s),
           NEW x, req' = [req EXCEPT ![r] = x], "epoch" \in DOMAIN x, x.epoch = req[r].epoch, x.sid = s,
           "epoch" \in DOMAIN fleet', fleet'.epoch \in Nat
    PROVE  KeyInv'
<1>1. KeyOf(r) \in Keys /\ req[r].epoch \in 0 .. MaxStarts
  BY KeysOfRequests DEF KeyInv, KeyShape
<1>2. binding' = [binding EXCEPT ![KeyOf(r)] = s] /\ binding[KeyOf(r)] \in {None, s}
  BY DEF Bind, Bound
<1>3. binding' \in [Keys -> Maybe] /\ binding'[KeyOf(r)] = s /\ \A k \in Keys : binding[k] # None => binding'[k] = binding[k]
  BY <1>1, <1>2 DEF KeyInv, KeyShape, Maybe
<1>4. KeyOf(r) = IF r \in Automatic THEN x.epoch ELSE r
  BY DEF KeyOf
<1> QED
  BY <1>1, <1>3, <1>4, KeyKeeps

LEMMA KeyFacts ==
    ASSUME IInv, KeyInv, NEW r \in Requests
    PROVE  /\ DOMAIN req = Requests /\ {"pc", "sid", "seen", "epoch"} \subseteq DOMAIN req[r]
           /\ req[r].epoch \in 0 .. MaxStarts /\ fleet.epoch \in Nat /\ "epoch" \in DOMAIN fleet
BY DEF IInv, Shape, KeyInv, KeyShape

LEMMA KeyStartStep ==
    ASSUME IInv, KeyInv, Keyless = {}, NEW r \in Requests, StartStep(r)
    PROVE  KeyInv'
<1>1. CASE ReadAdmission(r)
  <2>1. UNCHANGED <<binding, fleet>> /\ fleet.epoch \in 0 .. MaxStarts
    BY <1>1, KeyFacts DEF ReadAdmission, storeVars
  <2>2. ASSUME NEW x, req' = [req EXCEPT ![r] = x], "epoch" \in DOMAIN x, x.epoch = fleet.epoch, x.pc \in {"bind", "rearm"}
        PROVE  KeyInv'
    BY <2>1, <2>2, KeyKeepsReading, KeyFacts DEF AtWork
  <2>3. CASE req' = [req EXCEPT ![r] = [Idle EXCEPT !.pc = "bind", !.epoch = fleet.epoch]]
    <3> DEFINE x == [Idle EXCEPT !.pc = "bind", !.epoch = fleet.epoch]
    <3>1. "epoch" \in DOMAIN x /\ x.epoch = fleet.epoch /\ x.pc \in {"bind", "rearm"}
      BY DEF Idle
    <3>2. req' = [req EXCEPT ![r] = x]
      BY <2>3
    <3> HIDE DEF x
    <3> QED
      BY <2>2, <3>1, <3>2
  <2>4. CASE req' = [req EXCEPT ![r] = [Idle EXCEPT !.pc = "rearm", !.epoch = fleet.epoch, !.sid = fleet.journey.consumedBy]]
    <3> DEFINE x == [Idle EXCEPT !.pc = "rearm", !.epoch = fleet.epoch, !.sid = fleet.journey.consumedBy]
    <3>1. "epoch" \in DOMAIN x /\ x.epoch = fleet.epoch /\ x.pc \in {"bind", "rearm"}
      BY DEF Idle
    <3>2. req' = [req EXCEPT ![r] = x]
      BY <2>4
    <3> HIDE DEF x
    <3> QED
      BY <2>2, <3>1, <3>2
  <2> QED
    BY <1>1, <2>3, <2>4 DEF ReadAdmission
<1>2. ASSUME req' = [req EXCEPT ![r] = Idle], UNCHANGED binding, "epoch" \in DOMAIN fleet', fleet'.epoch \in Nat
      PROVE  KeyInv'
  <2>1. "epoch" \in DOMAIN Idle /\ Idle.epoch = 0 /\ Idle.pc = "idle"
    BY DEF Idle
  <2>2. 0 \in 0 .. MaxStarts
    BY StartAssumption
  <2> QED
    BY <1>2, <2>1, <2>2, KeyKeepsReading DEF AtWork
<1>3. CASE Rearm(r)
  BY <1>2, <1>3, KeyFacts DEF Rearm
<1>4. CASE BeginRequest(r)
  <2> DEFINE x == [Idle EXCEPT !.pc = "bind"]
  <2>1. "epoch" \in DOMAIN x /\ x.epoch \in 0 .. MaxStarts /\ x.pc = "bind"
    BY StartAssumption DEF Idle
  <2>2. req' = [req EXCEPT ![r] = x] /\ UNCHANGED <<binding, fleet>>
    BY <1>4 DEF BeginRequest, storeVars
  <2> HIDE DEF x
  <2> QED
    BY <2>1, <2>2, KeyKeepsReading, KeyFacts DEF AtWork
<1>5. ASSUME NEW x, req' = [req EXCEPT ![r] = x], "epoch" \in DOMAIN x, x.epoch = req[r].epoch, UNCHANGED <<binding, fleet>>,
             x.pc \notin AtWork \/ (req[r].pc \in AtWork /\ x.sid = req[r].sid)
      PROVE  KeyInv'
  BY <1>5, KeyKeepsReading, KeyFacts
<1>6. CASE ReadBinding(r)
  <2>1. PICK x : /\ req' = [req EXCEPT ![r] = x]
                 /\ x = [req[r] EXCEPT !.pc = "read", !.pinned = Bound(r)] \/ x = [req[r] EXCEPT !.pc = "rearm"]
    BY <1>6, KeyFacts DEF ReadBinding
  <2>2. "epoch" \in DOMAIN x /\ x.epoch = req[r].epoch /\ x.pc \in {"read", "rearm"}
    BY <2>1, KeyFacts
  <2> QED
    BY <1>5, <1>6, <2>1, <2>2 DEF ReadBinding, storeVars, AtWork
<1>7. CASE ReadNode(r)
  <2>1. ASSUME NEW pc \in {"resume", "claim"}, req' = [req EXCEPT ![r] = [req[r] EXCEPT !.pc = pc, !.seen = Glance(node)]]
        PROVE  KeyInv'
    <3> DEFINE x == [req[r] EXCEPT !.pc = pc, !.seen = Glance(node)]
    <3>1. "epoch" \in DOMAIN x /\ x.epoch = req[r].epoch /\ x.pc = pc
      BY KeyFacts
    <3>2. req' = [req EXCEPT ![r] = x]
      BY <2>1
    <3> HIDE DEF x
    <3> QED
      BY <1>5, <1>7, <3>1, <3>2 DEF ReadNode, storeVars, AtWork
  <2>2. \/ req' = [req EXCEPT ![r] = [req[r] EXCEPT !.pc = "resume", !.seen = Glance(node)]]
        \/ req' = [req EXCEPT ![r] = [req[r] EXCEPT !.pc = "claim", !.seen = Glance(node)]]
    BY <1>7, KeyFacts DEF ReadNode
  <2>3. CASE req' = [req EXCEPT ![r] = [req[r] EXCEPT !.pc = "resume", !.seen = Glance(node)]]
    BY <2>1, <2>3
  <2>4. CASE req' = [req EXCEPT ![r] = [req[r] EXCEPT !.pc = "claim", !.seen = Glance(node)]]
    BY <2>1, <2>4
  <2> QED
    BY <2>2, <2>3, <2>4
<1>8. CASE ClaimResume(r)
  <2> PICK s : s = req[r].seen.session
    OBVIOUS
  <2>1. s \in Sessions
    BY <1>8 DEF ClaimResume, At, IInv, Handles, RequestsOK
  <2> DEFINE x == [req[r] EXCEPT !.pc = Project(r, "sets"), !.sid = s, !.seen = Unseen, !.trip = req[r].seen.trip,
                                 !.idx = req[r].seen.idx, !.todo = {"session", "ride"}]
  <2>2. req' = [req EXCEPT ![r] = x] /\ UNCHANGED fleet /\ Bound(r) \in {None, s} /\ Bind(r, s)
    BY <1>8, KeyFacts DEF ClaimResume
  <2>3. "epoch" \in DOMAIN x /\ x.epoch = req[r].epoch /\ x.sid = s
    BY KeyFacts
  <2> HIDE DEF x
  <2> QED
    BY <2>1, <2>2, <2>3, KeyKeepsClaim, KeyFacts
<1>9. CASE ClaimOwned(r)
  <2> DEFINE x == [req[r] EXCEPT !.pc = IF status[lock] = "pending" THEN "live" ELSE "recover",
                                 !.sid = lock, !.seen = Unseen, !.trip = FirstTrip(r)]
  <2>1. lock \in Sessions
    BY <1>9 DEF ClaimOwned, IInv, Owners, Documents, Maybe
  <2>2. req' = [req EXCEPT ![r] = x] /\ Bound(r) \in {None, lock} /\ Bind(r, lock)
    BY <1>9, KeyFacts DEF ClaimOwned, MayClaim
  <2>3. "epoch" \in DOMAIN x /\ x.epoch = req[r].epoch /\ x.sid = lock
    BY KeyFacts
  <2>4. "epoch" \in DOMAIN fleet' /\ fleet'.epoch \in Nat
    BY <1>9, KeyFacts DEF ClaimOwned, Resumed, IInv, Shape
  <2> HIDE DEF x
  <2>5. PICK s \in Sessions : s = lock
    BY <2>1
  <2> QED
    BY <2>2, <2>3, <2>4, <2>5, KeyKeepsClaim
<1>10. CASE ClaimFree(r)
  <2> DEFINE x == [req[r] EXCEPT !.pc = "live", !.sid = issued + 1, !.seen = Unseen, !.made = TRUE, !.trip = FirstTrip(r)]
  <2>1. PICK s \in Sessions : s = issued + 1
    BY <1>10, StoreAssumption DEF ClaimFree, IInv, Owners, Documents, Sessions
  <2>2. req' = [req EXCEPT ![r] = x] /\ Bound(r) \in {None, s} /\ Bind(r, s)
    BY <1>10, <2>1, KeyFacts DEF ClaimFree, MayClaim, BusIsFree, Bind
  <2>3. "epoch" \in DOMAIN x /\ x.epoch = req[r].epoch /\ x.sid = s
    BY <2>1, KeyFacts
  <2>4. "epoch" \in DOMAIN fleet' /\ fleet'.epoch \in Nat
    BY <1>10, KeyFacts DEF ClaimFree, Resumed, IInv, Shape
  <2> HIDE DEF x
  <2> QED
    BY <2>2, <2>3, <2>4, KeyKeepsClaim
<1>11. CASE ReadRide(r)
  <2> DEFINE x == [req[r] EXCEPT !.pc = "live", !.trip = ride.trip, !.idx = ride.idx]
  <2>1. req' = [req EXCEPT ![r] = x] /\ UNCHANGED <<binding, fleet>> /\ req[r].pc \in AtWork
    BY <1>11, KeyFacts DEF ReadRide, storeVars, At, AtWork
  <2>2. "epoch" \in DOMAIN x /\ x.epoch = req[r].epoch /\ x.sid = req[r].sid
    BY KeyFacts
  <2> HIDE DEF x
  <2> QED
    BY <1>5, <2>1, <2>2
<1>12. CASE ClaimNode(r)
  <2> DEFINE x == [req[r] EXCEPT !.pc = Project(r, "batch"), !.made = FALSE, !.renews = TRUE, !.todo = {"session", "ride"}]
  <2>1. req' = [req EXCEPT ![r] = x] /\ UNCHANGED <<binding, fleet>> /\ req[r].pc \in AtWork
    BY <1>12, KeyFacts DEF ClaimNode, firestoreVars, At, AtWork
  <2>2. "epoch" \in DOMAIN x /\ x.epoch = req[r].epoch /\ x.sid = req[r].sid
    BY KeyFacts
  <2> HIDE DEF x
  <2> QED
    BY <1>5, <2>1, <2>2
<1>13. ASSUME NEW pc, req' = [req EXCEPT ![r] = [req[r] EXCEPT !.pc = pc]], req[r].pc \in AtWork, UNCHANGED <<binding, fleet>>
       PROVE  KeyInv'
  <2> DEFINE x == [req[r] EXCEPT !.pc = pc]
  <2>1. "epoch" \in DOMAIN x /\ x.epoch = req[r].epoch /\ x.sid = req[r].sid
    BY KeyFacts
  <2>2. req' = [req EXCEPT ![r] = x]
    BY <1>13
  <2> HIDE DEF x
  <2> QED
    BY <1>5, <1>13, <2>1, <2>2
<1>14. CASE LoseNode(r) \/ CheckNode(r)
  BY <1>13, <1>14, KeyFacts DEF LoseNode, CheckNode, At, AtWork, storeVars
<1>15. CASE CommitProjections(r)
  <2>1. UNCHANGED <<binding, fleet>> /\ req[r].pc \in AtWork
    BY <1>15 DEF CommitProjections, At, AtWork
  <2>2. req' = [req EXCEPT ![r] = Idle] \/ req' = [req EXCEPT ![r] = [req[r] EXCEPT !.pc = "setup"]]
    BY <1>15, KeyFacts DEF CommitProjections
  <2> QED
    BY <1>2, <1>13, <2>1, <2>2, KeyFacts
<1>16. ASSUME NEW docs \in SUBSET {"session", "ride"}, WriteUnguarded(r, docs) PROVE KeyInv'
  BY <1>16 DEF WriteUnguarded, At, IInv, Handles, RequestsOK
<1>17. CASE FailStart(r) \/ FinishSetup(r) \/ GiveUp(r)
  BY <1>2, <1>17, KeyFacts DEF FailStart, FinishSetup, GiveUp, storeVars, firestoreVars
<1> QED
  BY <1>1, <1>3, <1>4, <1>6, <1>7, <1>8, <1>9, <1>10, <1>11, <1>12, <1>14, <1>15, <1>16, <1>17 DEF StartStep

LEMMA KeyStep == IInv /\ KeyInv /\ Keyless = {} /\ [Next]_vars => KeyInv'
<1> SUFFICES ASSUME IInv, KeyInv, Keyless = {}, [Next]_vars PROVE KeyInv'
  OBVIOUS
<1>1. "epoch" \in DOMAIN fleet /\ {"paused", "journey"} \subseteq DOMAIN fleet /\ {"session", "consumedBy"} \subseteq DOMAIN fleet.journey
  BY DEF IInv, Shape, KeyInv, KeyShape
<1>2. CASE UNCHANGED vars
  BY <1>1, <1>2, KeyFrame DEF vars, storeVars, startVars
<1>3. CASE Starting
  BY <1>3, KeyStartStep DEF Starting
<1>4. CASE Working
  <2>1. UNCHANGED req
    BY <1>4 DEF Working, startVars
  <2>2. CASE Complete \/ CreateReturn
    BY <1>1, <2>1, <2>2, KeyFrame DEF Complete, CreateReturn
  <2>3. CASE UNCHANGED <<binding, fleet>>
    BY <1>1, <2>1, <2>3, KeyFrame
  <2> QED
    BY <1>4, <2>2, <2>3
    DEF Working, EngineStep, Observe, BeginRunning, Persist, Publish, CompleteAgain, MarkDone, RetireDone, BeginDone,
        LookForReturn, BringReturn, ClaimReturn, RefuseReturn, ActivateReturn, ClearClaim, AbandonJob,
        storeVars, firestoreVars
<1>5. CASE Restoring \/ Device
  BY <1>1, <1>5, KeyFrame DEF Restoring, Device, RestoreStep, LookForRide, RestoreNode, AbandonRestore, Telemetry, SweepNode,
     storeVars, firestoreVars, startVars
<1>6. CASE Stopping
  <2>1. CASE CommitStop
    BY <1>1, <2>1, KeyFrame DEF CommitStop, startVars
  <2>2. CASE UNCHANGED <<binding, fleet, req>>
    BY <1>1, <2>2, KeyFrame
  <2> QED
    BY <1>6, <2>1, <2>2 DEF Stopping, ReadStop, RetireStopped, AbandonStop, storeVars, firestoreVars, startVars
<1>7. CASE Reconciling
  BY <1>1, <1>7, KeyFrame
  DEF Reconciling, ScanSession, RetireScanned, CommitScan, AbandonScan, Silence, storeVars, firestoreVars, startVars
<1> QED
  BY <1>2, <1>3, <1>4, <1>5, <1>6, <1>7 DEF Next

LEMMA KeyStart == Init => KeyInv
BY StartAssumption DEF Init, StoreInit, StartInit, KeyInv, KeyShape, KeyNamesOneRide, Idle, Maybe, None

\* The requests of one idempotency key all work on the one session that it was
\* bound to first, whichever of them are repeated, refused or overtaken
\* (claimServiceStart() and its creation key, rideSessionStart.ts).
THEOREM SpecKeyNamesOneRide == Keyless = {} /\ Spec => []KeyNamesOneRide
<1> SUFFICES ASSUME Keyless = {} PROVE Spec => []KeyNamesOneRide
  OBVIOUS
<1>1. IInv /\ KeyInv /\ [Next]_vars => KeyInv'
  BY KeyStep
<1>2. Spec => []IInv
  BY SpecIInv
<1>3. KeyInv => KeyNamesOneRide
  BY DEF KeyInv
<1> QED
  BY <1>1, <1>2, <1>3, KeyStart, PTL DEF Spec

-----------------------------------------------------------------------------
(* What is shown and what is durable.                                          *)

Going == {"pre", "in"}

\* The durable progress of a ride; one of which nothing is durable is at its start.
Durable(s) == IF ride.session = s THEN ride.idx ELSE 0

\* A ride that was created, and no more of it than is durable while it is open.
Within(s, i) == status[s] # "none" /\ (Open(s) => i <= Durable(s))

RideFine ==
    /\ ride \in [session : Maybe, trip : Going, idx : Nat, age : Nat]
    /\ ride.session = None => ride.idx = 0

\* A node with a ride shows it running or completed.
NodeFine ==
    /\ {"exists", "on", "idx", "age"} \subseteq DOMAIN node
    /\ node.idx \in Nat
    /\ node.session # None => (Running(node) \/ node.trip = "done") /\ Within(node.session, node.idx)

RequestFine(q) ==
    /\ {"trip", "idx", "renews"} \subseteq DOMAIN q
    /\ q.trip \in Going /\ q.idx \in Nat
    /\ q.pc \in {"bind", "read", "claim", "resume"} => q.idx = 0
    /\ q.sid # None => Within(q.sid, q.idx)
    /\ q.pc = "resume" => q.seen.trip \in Going /\ q.seen.idx \in Nat /\ Within(q.seen.session, q.seen.idx)

RequestsFine == \A r \in Requests : RequestFine(req[r])

EventFine(e) ==
    /\ e.running => e.trip \in Going /\ e.idx \in Nat
    /\ e.session # None => status[e.session] # "none"

\* What a job is about to show has become durable, or is what it saw.
JobFine ==
    /\ {"trip", "idx"} \subseteq DOMAIN job
    /\ job.idx \in Nat
    /\ job.pc # "idle" => status[job.snap.session] # "none"
    /\ job.pc \in {"persist", "publish", "bring"} => job.trip \in Going
    /\ job.pc = "publish" /\ Open(job.snap.session)
         => job.idx = Durable(job.snap.session) \/ <<job.trip, job.idx>> = <<job.snap.trip, job.snap.idx>>
    /\ job.pc = "mark" => Terminal(job.snap.session)
    /\ job.pc = "bring" => Within(job.sid, job.idx)
    /\ job.pc = "activate" => job.sid # job.snap.session /\ status[job.sid] # "none"

RestoreFine ==
    restore.pc = "write" =>
        /\ restore.idx \in Nat /\ restore.trip \in Going \union {"done"}
        /\ restore.trip = "done" => Terminal(restore.sid)
        /\ Within(restore.sid, restore.idx)

BehindInv == RideFine /\ NodeFine /\ RequestsFine /\ EventFine(event) /\ JobFine /\ RestoreFine

LEMMA BehindFacts ==
    ASSUME IInv
    PROVE  /\ status \in [Sessions -> Statuses] /\ lock \in Maybe /\ issued \in Nat /\ None \notin Sessions
           /\ \A s \in Sessions : Open(s) <=> lock = s
           /\ RequestsOK /\ NodeOK /\ EngineOK /\ RestoreOK /\ EndingOK /\ Shape
BY StoreAssumption DEF IInv, Owners, Documents, LockIsOwner, Handles, Sessions, None

LEMMA BehindStart == Init => BehindInv
<1> SUFFICES ASSUME Init PROVE BehindInv
  OBVIOUS
<1>1. RideFine
  BY DEF Init, StoreInit, RideFine, NoRide, Going, None, Maybe
<1>2. NodeFine
  BY DEF Init, StoreInit, NodeFine, Presence, NoNode, None
<1>3. RequestsFine
  BY DEF Init, StartInit, RequestsFine, RequestFine, Idle, Going, None
<1>4. EventFine(event)
  BY DEF Init, WorkerInit, EventFine, Unseen, Glance, Running, NoNode, None
<1>5. JobFine /\ RestoreFine
  BY DEF Init, WorkerInit, JobFine, RestoreFine, NoJob, NoRestore
<1> QED BY <1>1, <1>2, <1>3, <1>4, <1>5 DEF BehindInv

\* Of an open ride no step but the engine's own checkpoint changes what is durable.
LEMMA DurableStarting ==
    ASSUME IInv, BehindInv, Starting, Keyless = {}
    PROVE  RideFine' /\ \A s \in Sessions : Open(s) /\ Open(s)' => Durable(s)' = Durable(s)
<1>1. PICK r \in Requests : StartStep(r)
  BY DEF Starting
<1>2. CASE CommitProjections(r)
  <2>1. PICK s, i, t : s = req[r].sid /\ i = req[r].idx /\ t = req[r].trip
    OBVIOUS
  <2>2. s \in Sessions /\ i \in Nat /\ t \in Going /\ Within(s, i) /\ Open(s)
    BY <1>2, <2>1, BehindFacts DEF CommitProjections, At, RequestsOK, BehindInv, RequestsFine, RequestFine, MayProject
  <2>3. /\ ride' = [session |-> s, trip |-> IF ride.trip = "in" THEN "in" ELSE t, idx |-> Further(ride.idx, i), age |-> 0]
        /\ ride.session \in {None, s} /\ lock' = lock
    BY <1>2, <2>1 DEF CommitProjections, MayProject
  <2>4. ride.idx \in Nat /\ i <= ride.idx
    BY <2>2, <2>3 DEF Within, Durable, BehindInv, RideFine
  <2>5. Further(ride.idx, i) = ride.idx
    BY <2>2, <2>4 DEF Further
  <2>6. RideFine'
    BY <2>2, <2>3, <2>4, <2>5, BehindFacts DEF RideFine, Maybe, Going
  <2>7. ASSUME NEW q \in Sessions, Open(q) PROVE Durable(q)' = Durable(q)
    <3>1. q = s
      BY <2>2, <2>7, BehindFacts
    <3>2. Durable(s)' = ride.idx /\ Durable(s) = ride.idx
      BY <2>2, <2>3, <2>4, <2>5, BehindFacts DEF Durable, BehindInv, RideFine
    <3> QED BY <3>1, <3>2
  <2> QED BY <2>6, <2>7
<1>3. CASE ride' = ride
  BY <1>3 DEF BehindInv, RideFine, Durable
<1>4. ASSUME NEW docs \in SUBSET {"session", "ride"}, WriteUnguarded(r, docs)
      PROVE FALSE
  BY <1>4, BehindFacts DEF WriteUnguarded, At, RequestsOK
<1> QED
  BY <1>1, <1>2, <1>3, <1>4
  DEF StartStep, ReadAdmission, Rearm, BeginRequest, ReadBinding, ReadNode, ClaimResume, ClaimOwned, ClaimFree, ReadRide,
      ClaimNode, LoseNode, FailStart, CheckNode, FinishSetup, GiveUp, storeVars, firestoreVars

LEMMA DurableWorking ==
    ASSUME IInv, BehindInv, Working
    PROVE  /\ RideFine'
           /\ \A s \in Sessions : Open(s) /\ Open(s)' => Durable(s)' = Durable(s) \/ (Persist /\ Durable(s) <= Durable(s)')
<1>1. EngineStep
  BY DEF Working
<1>2. CASE Persist
  <2>1. PICK s, j, i, t : s = job.snap.session /\ j = job /\ i = job.idx /\ t = job.trip
    OBVIOUS
  <2>2. s \in Sessions /\ i \in Nat /\ t \in Going
    BY <1>2, <2>1, BehindFacts DEF Persist, JobAt, EngineOK, BehindInv, JobFine
  <2>3. CASE lock = s
    <3>1. PICK k : k = IF ride.session = s /\ ride.idx > i THEN ride.idx ELSE i
      OBVIOUS
    <3>2. ride' = [session |-> s, trip |-> IF ride.session = s /\ ride.trip = "in" THEN "in" ELSE t, idx |-> k, age |-> 0]
      BY <1>2, <2>1, <2>3, <3>1 DEF Persist
    <3>3. ride.idx \in Nat /\ k \in Nat /\ (ride.session = s => ride.idx <= k)
      BY <2>2, <3>1 DEF BehindInv, RideFine
    <3>4. RideFine'
      BY <2>2, <3>2, <3>3, BehindFacts DEF RideFine, Maybe, Going
    <3>5. ASSUME NEW q \in Sessions, Open(q) PROVE Durable(q) <= Durable(q)'
      <4>1. q = s
        BY <2>2, <2>3, <3>5, BehindFacts
      <4>2. Durable(s)' = k
        BY <3>2 DEF Durable
      <4>3. Durable(s) <= k
        BY <3>3 DEF Durable
      <4> QED BY <4>1, <4>2, <4>3
    <3> QED BY <1>2, <3>4, <3>5
  <2>4. CASE lock # s
    BY <1>2, <2>1, <2>4 DEF Persist, BehindInv, RideFine, Durable
  <2> QED BY <2>3, <2>4
<1>3. CASE Complete
  <2>1. PICK s : s = job.snap.session
    OBVIOUS
  <2>2. s \in Sessions /\ status' = [status EXCEPT ![s] = "completed"] /\ lock = s /\ ride' = (IF ride.session = s THEN NoRide ELSE ride)
    BY <1>3, <2>1, BehindFacts DEF Complete, JobAt, EngineOK, SetStatus, DropRideOf
  <2>3. RideFine'
    BY <2>2 DEF BehindInv, RideFine, NoRide, Going, Maybe, None
  <2>4. \A q \in Sessions : ~(Open(q) /\ Open(q)')
    BY <2>2, BehindFacts DEF Open
  <2> QED BY <2>3, <2>4
<1>4. CASE CreateReturn
  <2>1. PICK s : s = job.sid
    OBVIOUS
  <2>2. s \in Sessions /\ lock = None /\ ride' = [session |-> s, trip |-> "pre", idx |-> 0, age |-> 0]
    BY <1>4, <2>1, BehindFacts DEF CreateReturn, JobAt, EngineOK, MayReturn
  <2>3. RideFine'
    BY <2>2, BehindFacts DEF RideFine, Going, Maybe
  <2>4. \A q \in Sessions : ~Open(q)
    BY <2>2, BehindFacts
  <2> QED BY <2>3, <2>4
<1>5. CASE ride' = ride
  BY <1>5 DEF BehindInv, RideFine, Durable
<1> QED
  BY <1>1, <1>2, <1>3, <1>4, <1>5
  DEF EngineStep, Observe, BeginRunning, Publish, CompleteAgain, MarkDone, RetireDone, BeginDone, LookForReturn,
      BringReturn, ClaimReturn, RefuseReturn, ActivateReturn, ClearClaim, AbandonJob, storeVars, firestoreVars

LEMMA DurableEnding ==
    ASSUME IInv, BehindInv, Stopping \/ Reconciling
    PROVE  RideFine' /\ \A s \in Sessions : Open(s) /\ Open(s)' => Durable(s)' = Durable(s)
<1>1. CASE CommitStop \/ CommitScan
  <2>1. PICK s : s \in Sessions /\ ~Open(s)' /\ ride' = (IF ride.session = s THEN NoRide ELSE ride)
    <3>1. CASE CommitStop
      <4>1. stop.sid \in Sessions /\ ride' = (IF ride.session = stop.sid THEN NoRide ELSE ride)
        BY <3>1, BehindFacts DEF CommitStop, EndingOK, DropRideOf
      <4>2. ~Open(stop.sid)'
        BY <3>1, <4>1, BehindFacts DEF CommitStop, SetStatus, Open
      <4>3. PICK z : z = stop.sid
        OBVIOUS
      <4>4. ~Open(z)'
        BY <3>1, <4>1, <4>3, BehindFacts DEF CommitStop, SetStatus, Open
      <4> QED BY <4>1, <4>3, <4>4
    <3>2. CASE CommitScan
      <4>1. scan.sid \in Sessions /\ ride' = (IF ride.session = scan.sid THEN NoRide ELSE ride)
        BY <3>2, BehindFacts DEF CommitScan, EndingOK, DropRideOf
      <4>3. PICK z : z = scan.sid
        OBVIOUS
      <4>4. ~Open(z)'
        BY <3>2, <4>1, <4>3, BehindFacts DEF CommitScan, SetStatus, Open
      <4> QED BY <4>1, <4>3, <4>4
    <3> QED BY <1>1, <3>1, <3>2
  <2>2. RideFine'
    BY <2>1 DEF BehindInv, RideFine, NoRide, Going, Maybe, None
  <2>3. ASSUME NEW q \in Sessions, Open(q), Open(q)' PROVE Durable(q)' = Durable(q)
    BY <2>1, <2>3, BehindFacts DEF Durable, NoRide
  <2> QED BY <2>2, <2>3
<1>2. CASE Silence
  <2>1. ride' = [ride EXCEPT !.age = Older(@)] /\ Older(ride.age) \in Nat
    BY <1>2, StoreAssumption DEF Silence, Older, BehindInv, RideFine
  <2> QED BY <2>1 DEF BehindInv, RideFine, Durable
<1>3. CASE ride' = ride
  BY <1>3 DEF BehindInv, RideFine, Durable
<1> QED
  BY <1>1, <1>2, <1>3 DEF Stopping, Reconciling, ReadStop, RetireStopped, AbandonStop, ScanSession, RetireScanned, AbandonScan,
     storeVars, firestoreVars

LEMMA DurableStep ==
    ASSUME IInv, BehindInv, Next, Keyless = {}
    PROVE  /\ RideFine'
           /\ \A s \in Sessions : Open(s) /\ Open(s)' => Durable(s)' = Durable(s) \/ (Persist /\ Durable(s) <= Durable(s)')
<1>1. CASE Restoring \/ Device
  <2>1. ride' = ride
    BY <1>1 DEF Restoring, Device, RestoreStep, LookForRide, RestoreNode, AbandonRestore, Telemetry, SweepNode, storeVars, firestoreVars
  <2> QED BY <2>1 DEF BehindInv, RideFine, Durable
<1> QED BY <1>1, DurableStarting, DurableWorking, DurableEnding DEF Next

\* What was within stays within.
LEMMA WithinStep ==
    ASSUME IInv, BehindInv, Next, Keyless = {}
    PROVE  /\ Lasting
           /\ \A s \in Sessions : Terminal(s) => Terminal(s)'
           /\ \A s \in Sessions : status[s] # "none" /\ Open(s)' => Open(s)
           /\ \A s \in Sessions, i \in Nat : Within(s, i) => Within(s, i)'
<1>1. Lasting
  <2>0. Shape /\ Owners /\ Handles
    BY DEF IInv
  <2>1. CASE Starting
    <3>1. PICK r \in Requests : StartStep(r)
      BY <2>1 DEF Starting
    <3> QED BY <2>0, <3>1, StartHandles DEF Held
  <2>2. CASE Working
    BY <2>0, <2>2, EngineHandles DEF Working
  <2>3. CASE Restoring \/ Device
    BY <2>3 DEF Restoring, Device, RestoreStep, LookForRide, RestoreNode, AbandonRestore, Telemetry, SweepNode, storeVars, firestoreVars, Lasting
  <2>4. CASE Stopping \/ Reconciling
    BY <2>0, <2>4, EndingHandles DEF Held
  <2> QED BY <2>1, <2>2, <2>3, <2>4 DEF Next
<1>2. \A s \in Sessions : Terminal(s) => Terminal(s)'
  BY TerminalStep
<1>3. \A s \in Sessions : status[s] # "none" /\ Open(s)' => Open(s)
  BY <1>2, BehindFacts DEF Open, Terminal, Statuses
<1>4. ASSUME NEW s \in Sessions, NEW i \in Nat, Within(s, i) PROVE Within(s, i)'
  <2>1. CASE Open(s)'
    <3>1. Open(s) /\ i <= Durable(s)
      BY <1>3, <1>4, <2>1 DEF Within
    <3>2. Durable(s) <= Durable(s)'
      <4>1. Durable(s) \in Nat
        BY DEF Durable, BehindInv, RideFine
      <4> QED BY <2>1, <3>1, <4>1, DurableStep
    <3>3. Durable(s) \in Nat /\ Durable(s)' \in Nat
      BY DurableStep DEF Durable, BehindInv, RideFine
    <3>4. i <= Durable(s)'
      BY <3>1, <3>2, <3>3
    <3> QED BY <1>1, <1>4, <3>4 DEF Within, Lasting
  <2>2. CASE ~Open(s)'
    BY <1>1, <1>4, <2>2 DEF Within, Lasting
  <2> QED BY <2>1, <2>2
<1> QED BY <1>1, <1>2, <1>3, <1>4

-----------------------------------------------------------------------------
\* What nobody touches stays fine.
LEMMA RequestStays ==
    ASSUME IInv, BehindInv, Next, Keyless = {}, NEW r \in Requests, req'[r] = req[r]
    PROVE  RequestFine(req[r])'
<1>1. PICK q : q = req[r]
  OBVIOUS
<1>2. RequestFine(q) /\ req'[r] = q
  BY <1>1 DEF BehindInv, RequestsFine
<1>3. (q.sid # None => q.sid \in Sessions) /\ (q.pc = "resume" => q.seen.session \in Sessions)
  BY <1>1, BehindFacts DEF RequestsOK
<1>4. (q.sid # None => Within(q.sid, q.idx)') /\ (q.pc = "resume" => Within(q.seen.session, q.seen.idx)')
  BY <1>2, <1>3, WithinStep DEF RequestFine
<1>5. \A s, i : Within(s, i)' <=> (status'[s] # "none" /\ (Open(s)' => i <= Durable(s)'))
  BY DEF Within
<1>6. RequestFine(q)'
  BY <1>2, <1>4, <1>5 DEF RequestFine, Within
<1> QED BY <1>2, <1>6 DEF RequestFine, Within, Open, Durable

LEMMA NodeStays ==
    ASSUME IInv, BehindInv, Next, Keyless = {}, node' = node
    PROVE  NodeFine'
<1>1. PICK n : n = node
  OBVIOUS
<1>2. node' = n /\ NodeFine /\ NodeOK
  BY <1>1, BehindFacts DEF BehindInv
<1>3. n.session # None => Within(n.session, n.idx)'
  BY <1>1, <1>2, WithinStep DEF NodeFine, NodeOK, Maybe
<1> QED BY <1>1, <1>2, <1>3 DEF NodeFine, Within, Open, Durable, Running

LEMMA EventStays ==
    ASSUME IInv, BehindInv, Next, Keyless = {}, event' = event
    PROVE  EventFine(event)'
BY WithinStep, BehindFacts DEF BehindInv, EventFine, Lasting, EngineOK, Maybe

LEMMA JobStays ==
    ASSUME IInv, BehindInv, Next, Keyless = {}, job' = job, ~Persist
    PROVE  JobFine'
<1>1. PICK j, s : j = job /\ s = job.snap.session
  OBVIOUS
<1>2. j.pc # "idle" => s \in Sessions /\ status[s] # "none" /\ status'[s] # "none"
  BY <1>1, WithinStep, BehindFacts DEF BehindInv, JobFine, EngineOK, Lasting
<1>3. j.pc = "mark" => Terminal(s)'
  BY <1>1, <1>2, WithinStep DEF BehindInv, JobFine
<1>4. j.pc = "bring" => Within(j.sid, j.idx)'
  BY <1>1, WithinStep, BehindFacts DEF BehindInv, JobFine, EngineOK
<1>5. j.pc = "activate" => status'[j.sid] # "none"
  BY <1>1, WithinStep, BehindFacts DEF BehindInv, JobFine, EngineOK, Lasting
<1>6. j.pc = "publish" /\ Open(s)' => j.idx = Durable(s)' \/ <<j.trip, j.idx>> = <<j.snap.trip, j.snap.idx>>
  <2>1. j.pc = "publish" /\ Open(s)' => Open(s) /\ Durable(s)' = Durable(s)
    BY <1>2, WithinStep, DurableStep
  <2> QED BY <1>1, <2>1 DEF BehindInv, JobFine
<1>7. JobFine /\ job' = j
  BY <1>1 DEF BehindInv
<1> QED BY <1>1, <1>2, <1>3, <1>4, <1>5, <1>6, <1>7 DEF JobFine, Within, Open, Durable, Terminal

LEMMA RestoreStays ==
    ASSUME IInv, BehindInv, Next, Keyless = {}, restore' = restore
    PROVE  RestoreFine'
<1>1. PICK t : t = restore
  OBVIOUS
<1>2. t.pc = "write" => t.sid \in Sessions
  BY <1>1, BehindFacts DEF RestoreOK
<1>3. t.pc = "write" => Within(t.sid, t.idx)' /\ (t.trip = "done" => Terminal(t.sid)')
  BY <1>1, <1>2, WithinStep DEF BehindInv, RestoreFine
<1> QED BY <1>1, <1>3 DEF BehindInv, RestoreFine, Within, Open, Durable, Terminal

-----------------------------------------------------------------------------
\* A start.
LEMMA RequestsBehind ==
    ASSUME IInv, IInv', BehindInv, Starting, Keyless = {}
    PROVE  RequestsFine'
<1>0. PICK r \in Requests : StartStep(r) /\ UNCHANGED <<workerVars, endVars>>
  BY DEF Starting
<1>1. Next
  BY DEF Next
<1>2. DOMAIN req = Requests /\ DOMAIN req' = Requests /\ \E v : req' = [req EXCEPT ![r] = v]
  BY <1>0, BehindFacts DEF IInv, Shape, StartStep, ReadAdmission, Rearm, BeginRequest, ReadBinding, ReadNode, ClaimResume, ClaimOwned, ClaimFree,
     ReadRide, ClaimNode, LoseNode, FailStart, CheckNode, CommitProjections, WriteUnguarded, FinishSetup, GiveUp
<1>3. ASSUME NEW o \in Requests, o # r PROVE RequestFine(req[o])'
  BY <1>1, <1>2, <1>3, RequestStays
<1>4. PICK q, p : q = req[r] /\ p = req'[r]
  OBVIOUS
<1>5. RequestFine(q) /\ {"pc", "sid", "seen"} \subseteq DOMAIN q
  BY <1>4, BehindFacts DEF BehindInv, RequestsFine, Shape
<1>6. SUFFICES RequestFine(p)'
  <2>1. RequestFine(req[r])'
    BY <1>4, <1>6 DEF RequestFine, Within, Open, Durable
  <2> QED BY <1>3, <2>1 DEF RequestsFine
<1>7. (q.sid # None => q.sid \in Sessions /\ Within(q.sid, q.idx)') /\ (p.sid # None => p.sid \in Sessions /\ status'[p.sid] # "none")
  <2>1. (q.sid # None => q.sid \in Sessions) /\ (p.sid # None => p.sid \in Sessions /\ status'[p.sid] # "none")
    BY <1>4, BehindFacts DEF IInv, Handles, RequestsOK
  <2> QED BY <1>1, <1>5, <2>1, WithinStep DEF RequestFine
<1>8. \A s \in Sessions : Durable(s) \in Nat /\ Durable(s)' \in Nat
  BY <1>1, DurableStep DEF Durable, BehindInv, RideFine
<1>9. \A s \in Sessions : status'[s] # "none" => Within(s, 0)'
  <2>1. ASSUME NEW s \in Sessions, status'[s] # "none" PROVE Within(s, 0)'
    <3>1. 0 <= Durable(s)'
      BY <1>8
    <3> QED BY <2>1, <3>1 DEF Within
  <2> QED BY <2>1
<1>10. ASSUME {"pc", "sid", "seen", "trip", "idx", "renews"} \subseteq DOMAIN p, p.trip \in Going, p.idx \in Nat,
              p.pc \in {"bind", "read", "claim", "resume"} => p.idx = 0,
              p.sid # None => Within(p.sid, p.idx)',
              p.pc = "resume" => p.seen.trip \in Going /\ p.seen.idx \in Nat /\ Within(p.seen.session, p.seen.idx)'
       PROVE  RequestFine(p)'
  BY <1>10 DEF RequestFine, Within, Open, Durable
<1>11. CASE p = [Idle EXCEPT !.pc = "bind", !.epoch = fleet.epoch] \/ p = [Idle EXCEPT !.pc = "bind"] \/ p = Idle
            \/ p = [Idle EXCEPT !.pc = "rearm", !.epoch = fleet.epoch, !.sid = fleet.journey.consumedBy]
  <2>1. p.idx = 0 /\ p.trip = "pre" /\ p.pc # "resume" /\ {"pc", "sid", "seen", "trip", "idx", "renews"} \subseteq DOMAIN p
    <3>1. {"pc", "sid", "seen", "trip", "idx", "renews"} \subseteq DOMAIN Idle /\ Idle.pc = "idle" /\ Idle.idx = 0 /\ Idle.trip = "pre"
      BY DEF Idle
    <3>2. PICK i : i = Idle
      OBVIOUS
    <3> QED BY <1>11, <3>1, <3>2
  <2>2. p.sid # None => Within(p.sid, p.idx)'
    BY <1>7, <1>9, <2>1
  <2> QED BY <1>10, <2>1, <2>2 DEF Going
<1>12. ASSUME p.sid = q.sid, p.idx = q.idx, p.trip = q.trip, p.pc # "resume", DOMAIN p = DOMAIN q,
              p.pc \in {"bind", "read", "claim"} => q.pc \in {"bind", "read", "claim"}
       PROVE  RequestFine(p)'
  BY <1>5, <1>7, <1>10, <1>12 DEF RequestFine
<1>13. CASE ReadBinding(r) \/ LoseNode(r) \/ CheckNode(r)
  <2>1. CASE ReadBinding(r)
    <3>1. q.pc = "bind" /\ (p = [q EXCEPT !.pc = "read", !.pinned = Bound(r)] \/ p = [q EXCEPT !.pc = "rearm"])
      BY <1>2, <1>4, <2>1 DEF ReadBinding, At
    <3>2. p.sid = q.sid /\ p.idx = q.idx /\ p.trip = q.trip /\ DOMAIN p = DOMAIN q /\ p.pc \in {"read", "rearm"}
      BY <1>5, <3>1 DEF RequestFine
    <3> QED BY <1>12, <3>1, <3>2
  <2>2. CASE LoseNode(r) \/ CheckNode(r)
    <3>1. p = [q EXCEPT !.pc = "lose"] \/ p = [q EXCEPT !.pc = "commit"]
      BY <1>2, <1>4, <2>2 DEF LoseNode, CheckNode
    <3>2. p.sid = q.sid /\ p.idx = q.idx /\ p.trip = q.trip /\ DOMAIN p = DOMAIN q /\ p.pc \in {"lose", "commit"}
      BY <1>5, <3>1 DEF RequestFine
    <3> QED BY <1>12, <3>2
  <2> QED BY <1>13, <2>1, <2>2
<1>14. CASE ReadAdmission(r) \/ Rearm(r) \/ BeginRequest(r) \/ FailStart(r) \/ FinishSetup(r) \/ GiveUp(r)
  BY <1>2, <1>4, <1>11, <1>14 DEF ReadAdmission, Rearm, BeginRequest, FailStart, FinishSetup, GiveUp
<1>15. CASE CommitProjections(r)
  <2>1. p = Idle \/ p = [q EXCEPT !.pc = "setup"]
    BY <1>2, <1>4, <1>15 DEF CommitProjections
  <2> QED BY <1>5, <1>11, <1>12, <2>1 DEF RequestFine
<1>16. CASE ReadNode(r)
  <2>1. CASE p = [q EXCEPT !.pc = "claim", !.seen = Glance(node)]
    BY <1>4, <1>5, <1>12, <1>16, <2>1 DEF ReadNode, At, RequestFine
  <2>2. CASE Running(node) /\ p = [q EXCEPT !.pc = "resume", !.seen = Glance(node)]
    <3>1. PICK n : n = node
      OBVIOUS
    <3>2. n.session \in Sessions /\ n.trip \in Going /\ n.idx \in Nat /\ Within(n.session, n.idx)
      BY <2>2, <3>1, BehindFacts DEF Running, NodeOK, Maybe, BehindInv, NodeFine, Going
    <3>3. Within(n.session, n.idx)'
      BY <1>1, <3>2, WithinStep
    <3>4. p.seen.session = n.session /\ p.seen.trip = n.trip /\ p.seen.idx = n.idx
      BY <1>5, <2>2, <3>1 DEF Glance
    <3>5. p.sid = q.sid /\ p.idx = q.idx /\ p.trip = q.trip /\ DOMAIN p = DOMAIN q /\ p.pc = "resume"
      BY <1>5, <2>2 DEF RequestFine
    <3>6. q.idx = 0
      BY <1>4, <1>5, <1>16 DEF ReadNode, At, RequestFine
    <3> QED BY <1>5, <1>7, <1>10, <3>2, <3>3, <3>4, <3>5, <3>6 DEF RequestFine
  <2> QED BY <1>2, <1>4, <1>16, <2>1, <2>2 DEF ReadNode
<1>17. CASE ClaimResume(r)
  <2>1. PICK e : e = q.seen
    OBVIOUS
  <2>2. e.session \in Sessions /\ e.trip \in Going /\ e.idx \in Nat /\ Within(e.session, e.idx)
    BY <1>4, <1>5, <1>17, <2>1, BehindFacts DEF ClaimResume, At, RequestsOK, RequestFine
  <2>3. Within(e.session, e.idx)'
    BY <1>1, <2>2, WithinStep
  <2>4. p.pc = "check" /\ p.sid = e.session /\ p.trip = e.trip /\ p.idx = e.idx /\ DOMAIN p = DOMAIN q
    BY <1>2, <1>4, <1>5, <1>17, <2>1 DEF ClaimResume, Project, RequestFine
  <2> QED BY <1>5, <1>10, <2>2, <2>3, <2>4 DEF RequestFine
<1>18. CASE ClaimOwned(r) \/ ClaimFree(r)
  <2>1. q.idx = 0
    BY <1>4, <1>5, <1>18 DEF ClaimOwned, ClaimFree, MayClaim, At, RequestFine
  <2>2. p.idx = q.idx /\ p.trip = FirstTrip(r) /\ DOMAIN p = DOMAIN q /\ p.pc \in {"live", "recover"}
    BY <1>2, <1>4, <1>5, <1>18, ZenonT(30) DEF ClaimOwned, ClaimFree, RequestFine
  <2>3. FirstTrip(r) \in Going
    BY DEF FirstTrip, Going
  <2>4. p.sid # None => Within(p.sid, p.idx)'
    BY <1>7, <1>9, <2>1, <2>2
  <2> QED BY <1>5, <1>10, <2>1, <2>2, <2>3, <2>4 DEF RequestFine
<1>19. CASE ReadRide(r)
  <2>1. ride.session = q.sid /\ p = [q EXCEPT !.pc = "live", !.trip = ride.trip, !.idx = ride.idx] /\ q.pc = "recover" /\ UNCHANGED storeVars
    BY <1>2, <1>4, <1>19 DEF ReadRide, At
  <2>2. PICK i, t : i = ride.idx /\ t = ride.trip
    OBVIOUS
  <2>3. i \in Nat /\ t \in Going
    BY <2>2 DEF BehindInv, RideFine
  <2>4. p.pc = "live" /\ p.sid = q.sid /\ p.trip = t /\ p.idx = i /\ DOMAIN p = DOMAIN q
    BY <1>5, <2>1, <2>2 DEF RequestFine
  <2>5. p.sid # None => Within(p.sid, p.idx)'
    BY <1>7, <2>1, <2>2, <2>3, <2>4 DEF Within, Durable, storeVars
  <2> QED BY <1>5, <1>10, <2>3, <2>4, <2>5 DEF RequestFine
<1>20. CASE ClaimNode(r)
  <2>1. p.pc = "check" /\ p.sid = q.sid /\ p.trip = q.trip /\ p.idx = q.idx /\ DOMAIN p = DOMAIN q
    BY <1>2, <1>4, <1>5, <1>20 DEF ClaimNode, Project, RequestFine
  <2> QED BY <1>12, <2>1
<1>21. ASSUME NEW docs \in SUBSET {"session", "ride"}, WriteUnguarded(r, docs)
       PROVE FALSE
  BY <1>21, BehindFacts DEF WriteUnguarded, At, RequestsOK
<1> QED
  BY <1>0, <1>13, <1>14, <1>15, <1>16, <1>17, <1>18, <1>19, <1>20, <1>21 DEF StartStep

\* The live record, whoever writes it: its ride stays within, and does not go back.
Advances(s) == node.session = s /\ node'.session = s
                 => /\ node.trip = "done" => node'.trip = "done"
                    /\ Open(s) => node.idx <= node'.idx

LEMMA NodeKept ==
    ASSUME NodeFine, NEW s, node'.session = node.session, node'.trip = node.trip, node'.idx = node.idx
    PROVE  Advances(s)
BY DEF Advances, NodeFine

\* A node without a ride.
LEMMA NodeEmpty ==
    ASSUME {"exists", "on", "idx", "age"} \subseteq DOMAIN node', node'.idx \in Nat, node'.session = None, None \notin Sessions
    PROVE  NodeFine' /\ \A s \in Sessions : Advances(s)
BY DEF NodeFine, Advances

\* A node that shows what it did, but for its age, claim or setup.
LEMMA NodeSame ==
    ASSUME IInv, BehindInv, Next, Keyless = {}, {"exists", "on", "idx", "age"} \subseteq DOMAIN node',
           node'.session = node.session, node'.trip = node.trip, node'.idx = node.idx, node'.on = node.on \/ node.trip = "done"
    PROVE  NodeFine' /\ \A s \in Sessions : Advances(s)
<1>2. PICK n : n = node
  OBVIOUS
<1>3. n.session # None => Within(n.session, n.idx)'
  <2>1. n.session # None => n.session \in Sessions /\ n.idx \in Nat /\ Within(n.session, n.idx)
    BY <1>2, BehindFacts DEF BehindInv, NodeFine, NodeOK, Maybe
  <2> QED BY <2>1, WithinStep
<1>4. NodeFine'
  BY <1>2, <1>3 DEF BehindInv, NodeFine, Within, Open, Durable, Running
<1> QED BY <1>4, NodeKept DEF BehindInv

\* A node that shows ride s at stop i.
LEMMA NodeShows ==
    ASSUME {"exists", "on", "idx", "age"} \subseteq DOMAIN node', NEW s \in Sessions, NEW i \in Nat, None \notin Sessions,
           node'.session = s, node'.idx = i, Running(node)' \/ node'.trip = "done", Within(s, i)',
           node.session = s => (node.trip = "done" => node'.trip = "done") /\ (Open(s) => node.idx <= i)
    PROVE  NodeFine' /\ \A q \in Sessions : Advances(q)
BY DEF NodeFine, Advances, Within, Open, Durable

LEMMA NodeUnchanged ==
    ASSUME IInv, BehindInv, Next, Keyless = {}, node' = node
    PROVE  NodeFine' /\ \A s \in Sessions : Advances(s)
BY NodeStays, NodeKept DEF BehindInv

LEMMA NodeStarting ==
    ASSUME IInv, BehindInv, Starting, Keyless = {}
    PROVE  NodeFine' /\ \A s \in Sessions : Advances(s)
<1>0. Next
  BY DEF Next
<1>1. PICK r \in Requests : StartStep(r)
  BY DEF Starting
<1>2. CASE ClaimNode(r)
  <2>1. PICK s, i, t : s = req[r].sid /\ i = req[r].idx /\ t = req[r].trip
    OBVIOUS
  <2>2. s \in Sessions /\ i \in Nat /\ t \in Going /\ Within(s, i)
    BY <1>2, <2>1, BehindFacts DEF ClaimNode, At, RequestsOK, BehindInv, RequestsFine, RequestFine
  <2>3. Within(s, i)'
    BY <1>0, <2>2, WithinStep
  <2>4. node' = [Presence EXCEPT !.session = s, !.trip = t, !.idx = i, !.on = TRUE, !.setup = r \in Automatic]
    BY <1>2, <2>1 DEF ClaimNode
  <2>5. /\ {"exists", "on", "idx", "age"} \subseteq DOMAIN node' /\ node'.session = s /\ node'.idx = i
        /\ node'.trip = t /\ node'.on = TRUE
    BY <2>4 DEF Presence, NoNode
  <2>6. Running(node)'
    BY <2>2, <2>5, BehindFacts DEF Running, Going
  <2>7. node.session # s
    BY <1>2, <2>1, <2>2, BehindFacts DEF ClaimNode, NodeIsFree, BehindInv, NodeFine
  <2> QED BY <2>2, <2>3, <2>5, <2>6, <2>7, NodeShows, BehindFacts
<1>3. CASE FinishSetup(r)
  <2>1. PICK n : n = node
    OBVIOUS
  <2>2. node' = n \/ node' = [n EXCEPT !.setup = FALSE]
    BY <1>3, <2>1 DEF FinishSetup
  <2>3. {"exists", "on", "idx", "age", "session", "trip"} \subseteq DOMAIN n
    BY <2>1, BehindFacts DEF BehindInv, NodeFine, Shape
  <2>4. /\ {"exists", "on", "idx", "age"} \subseteq DOMAIN node' /\ node'.session = n.session /\ node'.trip = n.trip
        /\ node'.idx = n.idx /\ node'.on = n.on
    BY <2>2, <2>3
  <2> QED BY <1>0, <2>1, <2>4, NodeSame
<1>4. CASE node' = node
  BY <1>0, <1>4, NodeUnchanged
<1>5. ASSUME NEW docs \in SUBSET {"session", "ride"}, WriteUnguarded(r, docs)
      PROVE FALSE
  BY <1>5, BehindFacts DEF WriteUnguarded, At, RequestsOK
<1> QED
  BY <1>1, <1>2, <1>3, <1>4, <1>5
  DEF StartStep, ReadAdmission, Rearm, BeginRequest, ReadBinding, ReadNode, ClaimResume, ClaimOwned, ClaimFree, ReadRide,
      LoseNode, FailStart, CheckNode, CommitProjections, GiveUp, storeVars, firestoreVars

\* A ride restored over a node that does not show it.
LEMMA NodeRestored ==
    ASSUME IInv, BehindInv, NEW s \in Sessions, NEW t \in Going \union {"done"}, NEW i \in Nat, Within(s, i)',
           node' = Restored(s, t, i), node.session = s => node.trip # "done" /\ ~LiveFor(node, s)
    PROVE  NodeFine' /\ \A q \in Sessions : Advances(q)
<1>1. PICK n : n = node
  OBVIOUS
<1>2. {"exists", "on", "idx", "age", "session", "trip"} \subseteq DOMAIN n
  BY <1>1, BehindFacts DEF BehindInv, NodeFine, Shape
<1>3. node' = [n EXCEPT !.exists = TRUE, !.session = s, !.trip = t, !.idx = i, !.on = t # "done", !.claim = None, !.age = 0]
  BY <1>1 DEF Restored
<1>4. /\ {"exists", "on", "idx", "age"} \subseteq DOMAIN node' /\ node'.session = s /\ node'.idx = i
      /\ node'.trip = t /\ (t # "done" => node'.on = TRUE)
  <2>1. DOMAIN node' = DOMAIN n
    BY <1>3
  <2>2. node'.session = s /\ node'.trip = t
    BY <1>2, <1>3
  <2>3. node'.idx = i /\ node'.on = (t # "done")
    BY <1>2, <1>3
  <2> QED BY <1>2, <2>1, <2>2, <2>3
<1>5. Running(node)' \/ node'.trip = "done"
  BY <1>4, BehindFacts DEF Running, Going
<1>6. node.session # s
  BY BehindFacts DEF BehindInv, NodeFine, LiveFor
<1> QED BY <1>4, <1>5, <1>6, NodeShows, BehindFacts

LEMMA NodeWorking ==
    ASSUME IInv, BehindInv, Working, Keyless = {}
    PROVE  NodeFine' /\ \A s \in Sessions : Advances(s)
<1>0. Next
  BY DEF Next
<1>1. EngineStep
  BY DEF Working
<1>2. PICK n, j : n = node /\ j = job
  OBVIOUS
<1>3. {"exists", "on", "idx", "age", "session", "trip"} \subseteq DOMAIN n
  BY <1>2, BehindFacts DEF BehindInv, NodeFine, Shape
<1>4. CASE node' = node
  BY <1>0, <1>4, NodeUnchanged
<1>5. ASSUME {"exists", "on", "idx", "age"} \subseteq DOMAIN node', node'.session = n.session, node'.trip = n.trip,
             node'.idx = n.idx, node'.on = n.on \/ n.trip = "done"
      PROVE  NodeFine' /\ \A s \in Sessions : Advances(s)
  BY <1>0, <1>2, <1>5, NodeSame
<1>6. CASE Publish
  <2>1. SUFFICES ASSUME node' # node PROVE NodeFine' /\ \A s \in Sessions : Advances(s)
    BY <1>4
  <2>2. PICK s, i, t : s = j.snap.session /\ i = j.idx /\ t = j.trip
    OBVIOUS
  <2>3. /\ j.pc = "publish" /\ <<t, i>> # <<j.snap.trip, j.snap.idx>> /\ n.session = s /\ n.trip # "done"
        /\ node' = [n EXCEPT !.trip = t, !.idx = i]
    BY <1>2, <1>6, <2>1, <2>2 DEF Publish, JobAt
  <2>4. s \in Sessions /\ i \in Nat /\ t \in Going /\ status[s] # "none" /\ (Open(s) => i = Durable(s))
    BY <1>2, <2>2, <2>3, BehindFacts DEF BehindInv, JobFine, EngineOK
  <2>5. Within(s, i)
    BY <2>4 DEF Within, Durable, BehindInv, RideFine
  <2>6. Within(s, i)'
    BY <1>0, <2>4, <2>5, WithinStep
  <2>7. Running(n) /\ (Open(s) => n.idx <= i)
    BY <1>2, <2>3, <2>4, BehindFacts DEF BehindInv, NodeFine, Within
  <2>8. /\ {"exists", "on", "idx", "age"} \subseteq DOMAIN node' /\ node'.session = s /\ node'.idx = i
        /\ node'.trip = t /\ node'.on = n.on
    BY <1>3, <2>3
  <2>9. Running(node)'
    BY <2>4, <2>7, <2>8, BehindFacts DEF Running, Going
  <2> QED BY <1>2, <2>3, <2>4, <2>6, <2>7, <2>8, <2>9, NodeShows, BehindFacts
<1>7. CASE MarkDone
  <2>1. SUFFICES ASSUME node' # node PROVE NodeFine' /\ \A s \in Sessions : Advances(s)
    BY <1>4
  <2>2. PICK s, i : s = j.snap.session /\ i = j.idx
    OBVIOUS
  <2>3. j.pc = "mark" /\ n.session = s /\ node' = [n EXCEPT !.trip = "done", !.idx = i, !.claim = None]
    BY <1>2, <1>7, <2>1, <2>2 DEF MarkDone, JobAt
  <2>4. s \in Sessions /\ i \in Nat /\ status[s] # "none" /\ Terminal(s)
    BY <1>2, <2>2, <2>3, BehindFacts DEF BehindInv, JobFine, EngineOK
  <2>5. ~Open(s) /\ Within(s, i)
    BY <2>4 DEF Within, Open, Terminal
  <2>6. Within(s, i)'
    BY <1>0, <2>4, <2>5, WithinStep
  <2>7. {"exists", "on", "idx", "age"} \subseteq DOMAIN node' /\ node'.session = s /\ node'.idx = i /\ node'.trip = "done"
    BY <1>3, <2>3
  <2> QED BY <2>4, <2>5, <2>6, <2>7, NodeShows, BehindFacts
<1>8. CASE RetireDone
  <2>1. n.trip = "done" /\ node' = [n EXCEPT !.on = FALSE, !.age = 0]
    BY <1>2, <1>8 DEF RetireDone
  <2> QED BY <1>3, <1>5, <2>1
<1>9. CASE BringReturn
  <2>1. SUFFICES ASSUME node' # node PROVE NodeFine' /\ \A s \in Sessions : Advances(s)
    BY <1>4
  <2>2. PICK s, i, t : s = j.sid /\ i = j.idx /\ t = j.trip
    OBVIOUS
  <2>3. j.pc = "bring" /\ node' = Restored(s, t, i) /\ RestorableOver(node, s)
    BY <1>2, <1>9, <2>1, <2>2 DEF BringReturn, JobAt
  <2>4. s \in Sessions /\ i \in Nat /\ t \in Going /\ Within(s, i)
    BY <1>2, <2>2, <2>3, BehindFacts DEF BehindInv, JobFine, EngineOK
  <2>5. Within(s, i)'
    BY <1>0, <2>4, WithinStep
  <2>6. node.session = s => node.trip # "done" /\ ~LiveFor(node, s)
    BY <2>3 DEF RestorableOver
  <2> QED BY <2>3, <2>4, <2>5, <2>6, NodeRestored
<1>10. CASE ClaimReturn
  <2>1. node' = [n EXCEPT !.claim = issued']
    BY <1>2, <1>10 DEF ClaimReturn
  <2> QED BY <1>3, <1>5, <2>1
<1>11. CASE ActivateReturn
  <2>1. SUFFICES ASSUME node' # node PROVE NodeFine' /\ \A s \in Sessions : Advances(s)
    BY <1>4
  <2>2. PICK s : s = j.sid
    OBVIOUS
  <2>3. j.pc = "activate" /\ node' = Restored(s, "pre", 0) /\ node.session = j.snap.session
    BY <1>2, <1>11, <2>1, <2>2 DEF ActivateReturn, JobAt
  <2>4. s \in Sessions /\ s # node.session /\ status[s] # "none"
    BY <1>2, <2>2, <2>3, BehindFacts DEF BehindInv, JobFine, EngineOK
  <2>5. Within(s, 0)
    BY <2>4 DEF Within, Durable, BehindInv, RideFine
  <2>6. Within(s, 0)'
    BY <1>0, <2>4, <2>5, WithinStep
  <2> QED BY <2>3, <2>4, <2>6, NodeRestored DEF Going
<1>12. CASE ClearClaim
  <2>1. node' = node \/ node' = [n EXCEPT !.claim = None]
    BY <1>2, <1>12 DEF ClearClaim
  <2> QED BY <1>3, <1>4, <1>5, <2>1
<1> QED
  BY <1>1, <1>4, <1>6, <1>7, <1>8, <1>9, <1>10, <1>11, <1>12
  DEF EngineStep, Observe, BeginRunning, Persist, Complete, CompleteAgain, BeginDone, LookForReturn, CreateReturn, RefuseReturn,
      AbandonJob, storeVars, firestoreVars

LEMMA NodeRestoring ==
    ASSUME IInv, BehindInv, Restoring, Keyless = {}
    PROVE  NodeFine' /\ \A s \in Sessions : Advances(s)
<1>0. Next
  BY DEF Next
<1>1. CASE node' = node
  BY <1>0, <1>1, NodeUnchanged
<1>2. CASE RestoreNode /\ node' # node
  <2>1. PICK s, i, t : s = restore.sid /\ i = restore.idx /\ t = restore.trip
    OBVIOUS
  <2>2. /\ restore.pc = "write" /\ node' = Restored(s, t, i)
        /\ IF t = "done" THEN node.session = None ELSE RestorableOver(node, s)
    BY <1>2, <2>1 DEF RestoreNode
  <2>3. s \in Sessions /\ i \in Nat /\ t \in Going \union {"done"} /\ Within(s, i)
    BY <2>1, <2>2, BehindFacts DEF BehindInv, RestoreFine, RestoreOK
  <2>4. Within(s, i)'
    BY <1>0, <2>3, WithinStep
  <2>5. node.session = s => node.trip # "done" /\ ~LiveFor(node, s)
    BY <2>2, <2>3, BehindFacts DEF RestorableOver
  <2> QED BY <2>2, <2>3, <2>4, <2>5, NodeRestored
<1> QED BY <1>1, <1>2 DEF Restoring, RestoreStep, LookForRide, AbandonRestore, storeVars

LEMMA NodeOthers ==
    ASSUME IInv, BehindInv, Device \/ Stopping \/ Reconciling, Keyless = {}
    PROVE  NodeFine' /\ \A s \in Sessions : Advances(s)
<1>0. Next
  BY DEF Next
<1>1. PICK n : n = node
  OBVIOUS
<1>2. {"exists", "on", "idx", "age", "session", "trip"} \subseteq DOMAIN n
  BY <1>1, BehindFacts DEF BehindInv, NodeFine, Shape
<1>3. CASE node' = node
  BY <1>0, <1>3, NodeUnchanged
<1>4. CASE \E a : node' = [n EXCEPT !.age = a]
  <2>1. PICK a : node' = [n EXCEPT !.age = a]
    BY <1>4
  <2>2. /\ {"exists", "on", "idx", "age"} \subseteq DOMAIN node' /\ node'.session = n.session /\ node'.trip = n.trip
        /\ node'.idx = n.idx /\ node'.on = n.on
    BY <1>2, <2>1
  <2> QED BY <1>0, <1>1, <2>2, NodeSame
<1>5. CASE node' = NoNode \/ node' = Presence \/ \E p, a : node' = [Presence EXCEPT !.paused = p, !.age = a]
  <2>1. {"exists", "on", "idx", "age"} \subseteq DOMAIN node' /\ node'.idx = 0 /\ node'.session = None
    <3>1. CASE node' = NoNode
      BY <3>1 DEF NoNode
    <3>2. CASE node' = Presence
      BY <3>2 DEF Presence, NoNode
    <3>3. CASE \E p, a : node' = [Presence EXCEPT !.paused = p, !.age = a]
      BY <3>3 DEF Presence, NoNode
    <3> QED BY <1>5, <3>1, <3>2, <3>3
  <2> QED BY <2>1, NodeEmpty, BehindFacts
<1>6. CASE Device
  BY <1>1, <1>3, <1>4, <1>5, <1>6 DEF Device, Telemetry, SweepNode
<1>7. CASE Stopping
  BY <1>1, <1>3, <1>5, <1>7 DEF Stopping, ReadStop, CommitStop, RetireStopped, AbandonStop, storeVars
<1>8. CASE Reconciling
  BY <1>1, <1>3, <1>4, <1>5, <1>8 DEF Reconciling, ScanSession, RetireScanned, CommitScan, AbandonScan, Silence, storeVars
<1> QED BY <1>6, <1>7, <1>8

\* The engine's queue and job.
LEMMA EventWorking ==
    ASSUME IInv, BehindInv, Working, Keyless = {}
    PROVE  EventFine(event)'
<1>0. Next
  BY DEF Next
<1>1. CASE event' = event
  BY <1>0, <1>1, EventStays
<1>2. CASE Observe
  <2>1. PICK n : n = node
    OBVIOUS
  <2>2. event' = Engine(n) /\ UNCHANGED storeVars
    BY <1>2, <2>1 DEF Observe
  <2>3. /\ Engine(n).session = n.session /\ Engine(n).trip = n.trip /\ Engine(n).idx = n.idx
        /\ Engine(n).running = Running(n)
    BY DEF Engine, Glance
  <2>4. Running(n) => n.trip \in Going /\ n.idx \in Nat
    BY <2>1 DEF BehindInv, NodeFine, Running, Going
  <2>5. n.session # None => status'[n.session] # "none"
    BY <2>1, <2>2 DEF BehindInv, NodeFine, Within, storeVars
  <2> QED BY <2>2, <2>3, <2>4, <2>5 DEF EventFine
<1>3. CASE event' = Unseen
  BY <1>3 DEF EventFine, Unseen, Glance, Running, NoNode, None
<1> QED
  BY <1>1, <1>2, <1>3
  DEF Working, EngineStep, Observe, BeginRunning, Persist, Publish, Complete, CompleteAgain, MarkDone, RetireDone, BeginDone,
      LookForReturn, BringReturn, ClaimReturn, CreateReturn, RefuseReturn, ActivateReturn, ClearClaim, AbandonJob, workerVars

LEMMA JobRests ==
    ASSUME job' = NoJob
    PROVE  JobFine'
BY DEF JobFine, NoJob

LEMMA JobBegins ==
    ASSUME IInv, BehindInv, BeginRunning \/ BeginDone
    PROVE  JobFine'
<1>1. PICK e : e = event
  OBVIOUS
<1>2. EventFine(e) /\ (e.running \/ e.trip = "done" => e.session \in Sessions) /\ UNCHANGED storeVars
  BY <1>1, BehindFacts DEF BehindInv, EngineOK, Maybe, BeginRunning, BeginDone
<1>3. CASE BeginDone
  <2>1. job' = [NoJob EXCEPT !.snap = e, !.pc = "look"] /\ e.trip = "done"
    BY <1>1, <1>3 DEF BeginDone
  <2>2. {"trip", "idx"} \subseteq DOMAIN job' /\ job'.idx = 0 /\ job'.pc = "look" /\ job'.snap = e
    BY <2>1 DEF NoJob
  <2>3. status'[e.session] # "none"
    BY <1>2, <2>1, BehindFacts DEF EventFine, storeVars
  <2> QED BY <2>2, <2>3 DEF JobFine
<1>4. CASE BeginRunning
  <2>1. e.running
    BY <1>1, <1>4 DEF BeginRunning
  <2>2. e.session \in Sessions /\ e.trip \in Going /\ e.idx \in Nat /\ status[e.session] # "none"
    BY <1>2, <2>1, BehindFacts DEF EventFine
  <2>3. PICK out \in Reductions(e) :
          job' = [NoJob EXCEPT !.snap = e, !.trip = out[1], !.idx = out[2],
                               !.pc = IF out[1] = "done" THEN "complete"
                                      ELSE IF Persists(e, out) THEN "persist" ELSE "publish"]
    BY <1>1, <1>4 DEF BeginRunning
  <2>4. PICK t, i, p : t = out[1] /\ i = out[2]
                       /\ p = IF t = "done" THEN "complete" ELSE IF Persists(e, out) THEN "persist" ELSE "publish"
    OBVIOUS
  <2>5. job' = [NoJob EXCEPT !.snap = e, !.trip = t, !.idx = i, !.pc = p]
    BY <2>3, <2>4
  <2>6. {"trip", "idx"} \subseteq DOMAIN job' /\ job'.idx = i /\ job'.trip = t /\ job'.pc = p /\ job'.snap = e
    BY <2>5 DEF NoJob
  <2>7. i \in Nat /\ t \in Going \union {"done"}
    BY <2>2, <2>4, StoreAssumption DEF Reductions, Going
  <2>8. p = "publish" => t = e.trip /\ i = e.idx
    BY <2>3, <2>4 DEF Reductions, Persists
  <2>9. status'[e.session] # "none"
    BY <1>2, <2>2 DEF storeVars
  <2>10. p \in {"complete", "persist", "publish"} /\ (p # "complete" => t \in Going)
    BY <2>4, <2>7
  <2> QED BY <2>6, <2>7, <2>8, <2>9, <2>10 DEF JobFine
<1> QED BY <1>3, <1>4

LEMMA JobPersists ==
    ASSUME IInv, BehindInv, Persist, Next, Keyless = {}
    PROVE  JobFine'
<1>1. PICK j, s, i, t : j = job /\ s = j.snap.session /\ i = j.idx /\ t = j.trip
  OBVIOUS
<1>2. j.pc = "persist" /\ s \in Sessions /\ i \in Nat /\ t \in Going /\ status[s] # "none"
  BY <1>1, BehindFacts DEF Persist, JobAt, EngineOK, BehindInv, JobFine
<1>3. {"pc", "snap", "sid", "trip", "idx"} \subseteq DOMAIN j
  BY <1>1, BehindFacts DEF BehindInv, JobFine, Shape
<1>4. status'[s] # "none"
  BY <1>2, WithinStep DEF Lasting
<1>5. CASE lock = s
  <2>1. PICK k, u : /\ k = IF ride.session = s /\ ride.idx > i THEN ride.idx ELSE i
                    /\ u = IF ride.session = s /\ ride.trip = "in" THEN "in" ELSE t
    OBVIOUS
  <2>2. ride' = [session |-> s, trip |-> u, idx |-> k, age |-> 0] /\ job' = [j EXCEPT !.pc = "publish", !.trip = u, !.idx = k]
    BY <1>1, <1>5, <2>1 DEF Persist
  <2>3. k \in Nat /\ u \in Going
    BY <1>2, <2>1 DEF BehindInv, RideFine, Going
  <2>4. Durable(s)' = k
    BY <2>2 DEF Durable
  <2>5. {"trip", "idx"} \subseteq DOMAIN job' /\ job'.pc = "publish" /\ job'.snap = j.snap /\ job'.idx = k /\ job'.trip = u
    BY <1>3, <2>2
  <2> QED BY <1>1, <1>4, <2>3, <2>4, <2>5 DEF JobFine, Durable
<1>6. CASE lock # s
  <2>1. job' = [j EXCEPT !.pc = "publish"] /\ status' = status
    BY <1>1, <1>6 DEF Persist
  <2>2. ~Open(s) /\ ~Open(s)'
    BY <1>2, <1>6, <2>1, BehindFacts DEF Open
  <2>3. {"trip", "idx"} \subseteq DOMAIN job' /\ job'.pc = "publish" /\ job'.snap = j.snap /\ job'.idx = i /\ job'.trip = t
    BY <1>1, <1>3, <2>1
  <2> QED BY <1>1, <1>2, <1>4, <2>2, <2>3 DEF JobFine, Open
<1> QED BY <1>5, <1>6

LEMMA JobGoesOn ==
    ASSUME IInv, IInv', BehindInv, Next, Keyless = {},
           Complete \/ CompleteAgain \/ LookForReturn \/ BringReturn \/ ClaimReturn \/ CreateReturn \/ RefuseReturn
    PROVE  JobFine'
<1>1. PICK j, s : j = job /\ s = j.snap.session
  OBVIOUS
<1>2. j.pc # "idle" /\ s \in Sessions /\ j.idx \in Nat /\ status[s] # "none"
  BY <1>1, BehindFacts
     DEF Complete, CompleteAgain, LookForReturn, BringReturn, ClaimReturn, CreateReturn, RefuseReturn, JobAt, EngineOK, BehindInv, JobFine
<1>3. {"pc", "snap", "sid", "trip", "idx"} \subseteq DOMAIN j
  BY <1>1, BehindFacts DEF BehindInv, JobFine, Shape
<1>4. status'[s] # "none"
  BY <1>2, WithinStep DEF Lasting
<1>5. CASE Complete \/ CompleteAgain
  <2>1. job' = [j EXCEPT !.pc = "mark"]
    BY <1>1, <1>5 DEF Complete, CompleteAgain
  <2>2. status'[s] = "completed"
    <3>1. CASE Complete
      BY <1>1, <1>2, <3>1, BehindFacts DEF Complete, SetStatus
    <3>2. CASE CompleteAgain
      BY <1>1, <3>2 DEF CompleteAgain, storeVars
    <3> QED BY <1>5, <3>1, <3>2
  <2>3. {"trip", "idx"} \subseteq DOMAIN job' /\ job'.pc = "mark" /\ job'.snap = j.snap /\ job'.idx = j.idx
    BY <1>3, <2>1
  <2> QED BY <1>1, <1>2, <2>2, <2>3 DEF JobFine, Terminal
<1>6. CASE LookForReturn
  <2>1. CASE DurableRide # None
    <3>1. PICK q, t, i : q = ride.session /\ t = ride.trip /\ i = ride.idx
      OBVIOUS
    <3>2. job' = [j EXCEPT !.pc = "bring", !.sid = q, !.trip = t, !.idx = i] /\ UNCHANGED storeVars
      BY <1>1, <1>6, <2>1, <3>1 DEF LookForReturn
    <3>3. q \in Sessions /\ t \in Going /\ i \in Nat /\ Open(q)
      BY <2>1, <3>1 DEF DurableRide, BehindInv, RideFine, Maybe
    <3>4. Within(q, i)
      BY <3>1, <3>3 DEF Within, Durable, Open
    <3>5. Within(q, i)'
      BY <3>3, <3>4, WithinStep
    <3>6. /\ {"trip", "idx"} \subseteq DOMAIN job' /\ job'.pc = "bring" /\ job'.snap = j.snap /\ job'.sid = q
          /\ job'.trip = t /\ job'.idx = i
      BY <1>3, <3>2
    <3> QED BY <1>1, <1>4, <3>3, <3>5, <3>6 DEF JobFine, Within, Open, Durable
  <2>2. CASE DurableRide = None
    <3>1. job' = [j EXCEPT !.pc = "claim"]
      BY <1>1, <1>6, <2>2 DEF LookForReturn
    <3>2. {"trip", "idx"} \subseteq DOMAIN job' /\ job'.pc = "claim" /\ job'.snap = j.snap /\ job'.idx = j.idx
      BY <1>3, <3>1
    <3> QED BY <1>1, <1>2, <1>4, <3>2 DEF JobFine
  <2> QED BY <2>1, <2>2
<1>7. CASE BringReturn
  <2>1. job' = NoJob \/ job' = [j EXCEPT !.pc = "claim", !.sid = None, !.trip = "pre", !.idx = 0]
    BY <1>1, <1>7 DEF BringReturn
  <2>2. CASE job' = [j EXCEPT !.pc = "claim", !.sid = None, !.trip = "pre", !.idx = 0]
    <3>1. {"trip", "idx"} \subseteq DOMAIN job' /\ job'.pc = "claim" /\ job'.snap = j.snap /\ job'.idx = 0
      BY <1>3, <2>2
    <3> QED BY <1>1, <1>4, <3>1 DEF JobFine
  <2> QED BY <2>1, <2>2, JobRests
<1>8. CASE ClaimReturn \/ RefuseReturn
  <2>1. job' = [j EXCEPT !.pc = "return", !.sid = issued'] \/ job' = [j EXCEPT !.pc = "clear"]
    BY <1>1, <1>8 DEF ClaimReturn, RefuseReturn
  <2>2. {"trip", "idx"} \subseteq DOMAIN job' /\ job'.pc \in {"return", "clear"} /\ job'.snap = j.snap /\ job'.idx = j.idx
    BY <1>3, <2>1
  <2> QED BY <1>1, <1>2, <1>4, <2>2 DEF JobFine
<1>9. CASE CreateReturn
  <2>1. PICK pc \in {"activate", "clear"} : job' = [j EXCEPT !.pc = pc]
    BY <1>1, <1>9 DEF CreateReturn
  <2>2. /\ {"trip", "idx"} \subseteq DOMAIN job' /\ job'.pc = pc /\ job'.snap = j.snap /\ job'.idx = j.idx
        /\ job'.sid = j.sid
    BY <1>3, <2>1
  <2>3. j.sid \in Sessions /\ status[j.sid] = "none" /\ status[s] = "completed" /\ status' = [status EXCEPT ![j.sid] = "armed"]
    BY <1>1, <1>9, BehindFacts DEF CreateReturn, JobAt, EngineOK, MayReturn, SetStatus
  <2>4. j.sid # s /\ status'[j.sid] # "none"
    BY <2>3, BehindFacts
  <2> QED BY <1>1, <1>2, <1>4, <2>2, <2>4 DEF JobFine
<1> QED BY <1>5, <1>6, <1>7, <1>8, <1>9

LEMMA JobWorking ==
    ASSUME IInv, IInv', BehindInv, Working, Keyless = {}
    PROVE  JobFine'
<1>0. Next /\ EngineStep
  BY DEF Next, Working
<1>1. CASE Persist
  BY <1>0, <1>1, JobPersists
<1>2. CASE job' = job /\ ~Persist
  BY <1>0, <1>2, JobStays
<1>3. CASE job' = NoJob
  BY <1>3, JobRests
<1> QED
  BY <1>0, <1>1, <1>2, <1>3, JobBegins, JobGoesOn
  DEF EngineStep, Observe, Publish, MarkDone, RetireDone, ActivateReturn, ClearClaim, AbandonJob, workerVars

LEMMA RestoreRestoring ==
    ASSUME IInv, BehindInv, Restoring, Keyless = {}
    PROVE  RestoreFine'
<1>0. Next
  BY DEF Next
<1>1. CASE LookForRide
  <2>0. UNCHANGED storeVars
    BY <1>1 DEF LookForRide
  <2>1. CASE DurableRide # None /\ restore' = [pc |-> "write", sid |-> ride.session, trip |-> ride.trip, idx |-> ride.idx]
    <3>1. PICK q, t, i : q = ride.session /\ t = ride.trip /\ i = ride.idx
      OBVIOUS
    <3>2. q \in Sessions /\ t \in Going /\ i \in Nat /\ Open(q)
      BY <2>1, <3>1 DEF DurableRide, BehindInv, RideFine, Maybe
    <3>3. Within(q, i)
      BY <3>1, <3>2 DEF Within, Durable, Open
    <3>4. Within(q, i)'
      BY <1>0, <3>2, <3>3, WithinStep
    <3> QED BY <2>1, <3>1, <3>2, <3>4 DEF RestoreFine, Within, Open, Durable, Going
  <2>2. CASE DurableJourney # None /\ restore' = [pc |-> "write", sid |-> DurableJourney, trip |-> "done", idx |-> LastStop]
    <3>1. PICK q : q = DurableJourney
      OBVIOUS
    <3>2. status'[q] = "completed"
      BY <2>0, <2>2, <3>1 DEF DurableJourney, storeVars
    <3> QED BY <2>2, <3>1, <3>2, StoreAssumption DEF RestoreFine, Within, Open, Terminal
  <2> QED BY <1>1, <2>1, <2>2 DEF LookForRide
<1>2. CASE restore' = NoRestore
  BY <1>2 DEF RestoreFine, NoRestore
<1> QED BY <1>1, <1>2 DEF Restoring, RestoreStep, RestoreNode, AbandonRestore

-----------------------------------------------------------------------------
LEMMA BehindStep ==
    ASSUME IInv, IInv', BehindInv, Keyless = {}, [Next]_vars
    PROVE  BehindInv' /\ \A s \in Sessions : Advances(s)
<1>1. CASE UNCHANGED vars
  <2>1. UNCHANGED <<status, ride, node, req, event, job, restore>>
    BY <1>1 DEF vars, storeVars, startVars, workerVars
  <2>2. BehindInv'
    BY <2>1 DEF BehindInv, RideFine, NodeFine, RequestsFine, RequestFine, EventFine, JobFine, RestoreFine, Within, Open, Durable, Terminal, Running
  <2> QED BY <2>1, <2>2, NodeKept DEF BehindInv
<1>2. CASE Next
  <2>1. RideFine'
    BY <1>2, DurableStep
  <2>2. NodeFine' /\ \A s \in Sessions : Advances(s)
    BY <1>2, NodeStarting, NodeWorking, NodeRestoring, NodeOthers DEF Next
  <2>3. CASE Starting
    <3>1. EventFine(event)' /\ JobFine' /\ RestoreFine'
      <4>1. UNCHANGED <<event, job, restore>>
        BY <2>3 DEF Starting, workerVars
      <4>2. CASE ~Persist
        BY <1>2, <4>1, <4>2, EventStays, JobStays, RestoreStays
      <4>3. CASE Persist
        BY <1>2, <4>1, <4>3, EventStays, JobPersists, RestoreStays
      <4> QED BY <4>2, <4>3
    <3> QED BY <2>1, <2>2, <2>3, <3>1, RequestsBehind DEF BehindInv
  <2>4. ASSUME req' = req PROVE RequestsFine'
    BY <1>2, <2>4, RequestStays DEF RequestsFine
  <2>5. CASE Working
    <3>1. req' = req /\ restore' = restore
      BY <2>5 DEF Working, startVars, EngineStep, Observe, BeginRunning, Persist, Publish, Complete, CompleteAgain, MarkDone, RetireDone,
         BeginDone, LookForReturn, BringReturn, ClaimReturn, CreateReturn, RefuseReturn, ActivateReturn, ClearClaim, AbandonJob, workerVars
    <3> QED BY <1>2, <2>1, <2>2, <2>4, <2>5, <3>1, EventWorking, JobWorking, RestoreStays DEF BehindInv
  <2>6. ASSUME UNCHANGED <<event, job>> PROVE EventFine(event)' /\ JobFine'
    <3>1. CASE ~Persist
      BY <1>2, <2>6, <3>1, EventStays, JobStays
    <3>2. CASE Persist
      BY <1>2, <2>6, <3>2, EventStays, JobPersists
    <3> QED BY <3>1, <3>2
  <2>7. CASE Restoring
    <3>1. req' = req /\ UNCHANGED <<event, job>>
      BY <2>7 DEF Restoring, startVars, RestoreStep, LookForRide, RestoreNode, AbandonRestore
    <3> QED BY <2>1, <2>2, <2>4, <2>6, <2>7, <3>1, RestoreRestoring DEF BehindInv
  <2>8. CASE Device \/ Stopping \/ Reconciling
    <3>1. UNCHANGED <<req, event, job, restore>>
      BY <2>8 DEF Device, Stopping, ReadStop, CommitStop, RetireStopped, AbandonStop, Reconciling, ScanSession, RetireScanned,
         CommitScan, AbandonScan, Silence, startVars, workerVars
    <3> QED BY <1>2, <2>1, <2>2, <2>4, <2>6, <3>1, RestoreStays DEF BehindInv
  <2> QED BY <1>2, <2>3, <2>5, <2>7, <2>8 DEF Next
<1> QED BY <1>1, <1>2

\* Passengers are never shown more of an open ride than its checkpoint holds, nor
\* does what they are shown of a ride go back: whatever a request, a job or a
\* restore holds of a ride is within its durable progress, which only the engine's
\* own checkpoint moves, and that goes first (tripStateEngine.ts:1002).
THEOREM SpecLiveFollowsDurable == Keyless = {} /\ Spec => LiveFollowsDurable
<1> SUFFICES ASSUME Keyless = {} PROVE Spec => LiveFollowsDurable
  OBVIOUS
<1> DEFINE Follows == LiveBehindDurable' /\ LiveAdvances
<1>1. Init => BehindInv
  BY BehindStart
<1>2. IInv /\ IInv' /\ BehindInv /\ [Next]_vars => BehindInv'
  BY BehindStep
<1>3. IInv /\ IInv' /\ BehindInv /\ [Next]_vars => [Follows]_vars
  <2> SUFFICES ASSUME IInv, IInv', BehindInv, [Next]_vars PROVE Follows
    OBVIOUS
  <2>1. LiveAdvances
    BY BehindStep DEF Advances, LiveAdvances
  <2>2. BehindInv'
    BY BehindStep
  <2>3. LiveBehindDurable'
    BY <2>2, BehindFacts DEF BehindInv, NodeFine, LiveBehindDurable, LiveFor, Running, Within, Durable
  <2> QED BY <2>1, <2>3
<1>4. Spec => []IInv
  BY SpecIInv
<1> QED
  BY <1>1, <1>2, <1>3, <1>4, PTL DEF Spec, LiveFollowsDurable

-----------------------------------------------------------------------------
(* What a passenger is asked about.                                            *)

Services == {"none", "armed", "active", "completed", "interrupted", "failed"}
Trips == {"none", "pre_departure", "in_service"}
Names == Followed \union {NoFollowed}

NodesOfRides == [ride : Names, trip : Trips, last : Names, online : BOOLEAN]
Calls == [at : {"no", "asked", "answered", "failed"}, ride : Names, says : Services \union {"refused"}, overtaken : BOOLEAN]

Completes(r) == r # NoFollowed => service[r].status = "completed"
Boarded(r) == r # NoFollowed => service[r].place

\* What a page may hold: it tracks, keeps and asks about rides that were boarded,
\* and takes for completed only what is.
ViewOK(v) ==
    /\ v \in [heard : NodesOfRides, reset : BOOLEAN, tracked : Names, trips : [Followed -> Trips \union {"completed"}],
              shown : Names, pending : Names, done : Names, error : BOOLEAN, boarded : Names]
    /\ Completes(v.heard.last)
    /\ \A r \in Followed : v.trips[r] = "completed" => Completes(r)
    /\ Boarded(v.tracked) /\ Boarded(v.pending) /\ Boarded(v.done)

ServerOK ==
    /\ service \in [Followed -> [status : Services, place : BOOLEAN, gone : BOOLEAN]]
    /\ shownBus \in NodesOfRides /\ Completes(shownBus.last)

CallOK(c) ==
    /\ c \in Calls /\ Boarded(c.ride)
    /\ c.at # "no" => c.ride \in Followed
    /\ c.at = "answered" /\ c.says = "completed" => Completes(c.ride)

BoardingOK(b) ==
    /\ b \in [at : {"no", "sent", "read", "joined"}, ride : Names, near : BOOLEAN, checked : BOOLEAN]
    /\ b.at # "no" => b.ride \in Followed
    /\ b.at = "joined" => Boarded(b.ride)

EarnedInv ==
    /\ ServerOK /\ ViewOK(rider) /\ hint \in Names /\ Boarded(hint)
    /\ CallOK(restoring) /\ CallOK(inquiry) /\ BoardingOK(boarding)
    /\ told \subseteq Followed /\ RideIsEarned

\* A service goes on: what completed stays so, and a place taken is kept.
Grows ==
    \A r \in Followed : /\ service[r].status = "completed" => service'[r].status = "completed"
                        /\ service[r].place => service'[r].place

LEMMA EarnedGrows ==
    ASSUME ServerOK, Grows
    PROVE  /\ \A r \in Names : (Completes(r) => Completes(r)') /\ (Boarded(r) => Boarded(r)')
           /\ \A v : ViewOK(v) => ViewOK(v)'
           /\ \A c : CallOK(c) => CallOK(c)'
           /\ \A b : BoardingOK(b) => BoardingOK(b)'
           /\ told \subseteq Followed /\ RideIsEarned /\ UNCHANGED told => RideIsEarned'
<1>1. \A r \in Names : (Completes(r) => Completes(r)') /\ (Boarded(r) => Boarded(r)')
  BY FollowAssumption DEF Completes, Boarded, Grows, Names, Followed, NoFollowed
<1>2. ASSUME NEW v, ViewOK(v) PROVE ViewOK(v)'
  BY <1>1, <1>2 DEF ViewOK, Names, NodesOfRides
<1>3. ASSUME NEW c, CallOK(c) PROVE CallOK(c)'
  BY <1>1, <1>3 DEF CallOK, Calls
<1>4. ASSUME NEW b, BoardingOK(b) PROVE BoardingOK(b)'
  BY <1>1, <1>4 DEF BoardingOK
<1>5. told \subseteq Followed /\ RideIsEarned /\ UNCHANGED told => RideIsEarned'
  BY DEF RideIsEarned, Grows
<1> QED BY <1>1, <1>2, <1>3, <1>4, <1>5

LEMMA EarnedStart == PassengerInit => EarnedInv
BY FollowAssumption DEF PassengerInit, EarnedInv, ServerOK, ViewOK, CallOK, BoardingOK, RideIsEarned, Completes, Boarded,
   Names, NodesOfRides, Calls, Services, Trips, NewView, NotRunning, NoCall, NoBoarding, NoTrip, NoFollowed, Followed

LEMMA TrackedView ==
    ASSUME NEW v, ViewOK(v), NEW r \in Names, Boarded(r)
    PROVE  ViewOK(Tracks(v, r))
BY DEF Tracks, ViewOK

LEMMA DecidedView ==
    ASSUME NEW v, ViewOK(v)
    PROVE  ViewOK(Decided(v))
<1>1. NoFollowed \in Names /\ Boarded(NoFollowed)
  BY DEF Names, Boarded
<1>2. PICK t : t = Tracks(v, NoFollowed)
  OBVIOUS
<1>3. ViewOK(t)
  BY <1>1, <1>2, TrackedView
<1>4. ViewOK([t EXCEPT !.pending = v.tracked, !.done = v.tracked])
  BY <1>3 DEF ViewOK
<1> QED BY <1>2, <1>4 DEF Decided

LEMMA DeliveredView ==
    ASSUME ServerOK, NEW v, ViewOK(v)
    PROVE  ViewOK(Delivered(v, shownBus))
<1>1. TripsOf(shownBus) \in [Followed -> Trips \union {"completed"}]
  BY DEF TripsOf, ServerOK, NodesOfRides, Trips, NoTrip
<1>2. \A r \in Followed : TripsOf(shownBus)[r] = "completed" => Completes(r)
  BY FollowAssumption DEF TripsOf, ServerOK, NodesOfRides, Trips, NoTrip, Completes, Followed, NoFollowed
<1>3. PICK fresh : fresh = TripsOf(shownBus)
  OBVIOUS
<1>4. PICK merged : merged = [r \in Followed |-> IF fresh[r] # NoTrip THEN fresh[r]
                                      ELSE IF v.reset \/ r = v.heard.ride THEN NoTrip ELSE v.trips[r]]
  OBVIOUS
<1>5. merged \in [Followed -> Trips \union {"completed"}] /\ \A r \in Followed : merged[r] = "completed" => Completes(r)
  BY <1>1, <1>2, <1>3, <1>4 DEF ViewOK, Trips, NoTrip
<1>6. Kept(v) \in Names
  BY DEF Kept, ViewOK
<1>7. PICK trips : trips = IF Kept(v) # NoFollowed /\ merged[Kept(v)] = NoTrip THEN [merged EXCEPT ![Kept(v)] = v.trips[Kept(v)]] ELSE merged
  OBVIOUS
<1>8. trips \in [Followed -> Trips \union {"completed"}] /\ \A r \in Followed : trips[r] = "completed" => Completes(r)
  BY <1>5, <1>6, <1>7 DEF ViewOK, Names
<1>9. ShownOf(shownBus) \in Names
  BY DEF ShownOf, ServerOK, NodesOfRides, Names
<1>10. Delivered(v, shownBus) =
         [v EXCEPT !.heard = shownBus, !.reset = FALSE, !.shown = ShownOf(shownBus), !.trips = trips,
                   !.boarded = IF shownBus.ride # v.heard.ride THEN NoFollowed ELSE @]
  BY <1>3, <1>4, <1>7 DEF Delivered
<1> HIDE DEF Kept
<1> QED BY <1>8, <1>9, <1>10 DEF ViewOK, ServerOK, Names

\* The backend's steps: the page is as it was.
LEMMA PageStays ==
    ASSUME EarnedInv, ServerOK', Grows, UNCHANGED <<rider, hint, restoring, inquiry, boarding, told>>
    PROVE  EarnedInv'
<1>1. PICK v, h, c, d, b : v = rider /\ h = hint /\ c = restoring /\ d = inquiry /\ b = boarding
  OBVIOUS
<1>2. rider' = v /\ hint' = h /\ restoring' = c /\ inquiry' = d /\ boarding' = b
  BY <1>1
<1>3. ViewOK(v) /\ h \in Names /\ Boarded(h) /\ CallOK(c) /\ CallOK(d) /\ BoardingOK(b) /\ ServerOK
  BY <1>1 DEF EarnedInv
<1>4. ViewOK(v)' /\ Boarded(h)' /\ CallOK(c)' /\ CallOK(d)' /\ BoardingOK(b)'
  BY <1>3, EarnedGrows
<1>5. ViewOK(rider)'
  BY <1>2, <1>4 DEF ViewOK, Completes, Boarded
<1>6. hint' \in Names /\ Boarded(hint)' /\ BoardingOK(boarding)'
  BY <1>2, <1>3, <1>4 DEF BoardingOK, Boarded
<1>7. CallOK(restoring)' /\ CallOK(inquiry)'
  BY <1>2, <1>4 DEF CallOK, Completes, Boarded
<1>8. told' \subseteq Followed /\ RideIsEarned'
  BY EarnedGrows DEF EarnedInv
<1> QED BY <1>5, <1>6, <1>7, <1>8 DEF EarnedInv

LEMMA ServiceKeeps ==
    ASSUME EarnedInv, NEW r \in Followed, Arm(r) \/ DepartRide(r) \/ EndService(r) \/ DeleteHistory(r)
    PROVE  EarnedInv'
<1> USE DEF EarnedInv, ServerOK
<1>0. NoFollowed \notin Followed
  BY FollowAssumption DEF Followed, NoFollowed
<1>1. CASE Arm(r)
  <2>1. ServerOK' /\ Grows
    BY <1>0, <1>1 DEF Arm, Grows, Services, Trips, NodesOfRides, Names, Completes
  <2> QED BY <1>1, <2>1, PageStays DEF Arm, PageRest
<1>2. CASE DepartRide(r)
  <2>1. ServerOK' /\ Grows
    BY SMTT(30), <1>0, <1>2 DEF DepartRide, Grows, Services, Trips, NodesOfRides, Names, Completes
  <2> QED BY <1>2, <2>1, PageStays DEF DepartRide, PageRest
<1>3. CASE EndService(r)
  <2>1. ServerOK' /\ Grows
    BY <1>0, <1>3 DEF EndService, Boards, Grows, Services, Trips, NodesOfRides, Names, Completes
  <2> QED BY <1>3, <2>1, PageStays DEF EndService, PageRest
<1>4. CASE DeleteHistory(r)
  <2>1. ServerOK' /\ Grows
    BY <1>0, <1>4, ZenonT(30) DEF DeleteHistory, Grows, Services, Trips, NodesOfRides, Names, Completes
  <2> QED BY <1>4, <2>1, PageStays DEF DeleteHistory
<1> QED BY <1>1, <1>2, <1>3, <1>4

LEMMA NodeKeeps ==
    ASSUME EarnedInv, ShowEnd \/ DeviceBlinks
    PROVE  EarnedInv'
<1> USE DEF EarnedInv, ServerOK
<1>1. CASE ShowEnd
  <2>1. ServerOK' /\ Grows
    BY <1>1 DEF ShowEnd, IsOver, Grows, Trips, NoTrip, NodesOfRides, Names, Completes
  <2> QED BY <1>1, <2>1, PageStays DEF ShowEnd, PageRest
<1>2. CASE DeviceBlinks
  <2>1. ServerOK' /\ Grows
    BY <1>2 DEF DeviceBlinks, Grows, NodesOfRides, Completes
  <2> QED BY <1>2, <2>1, PageStays DEF DeviceBlinks
<1> QED BY <1>1, <1>2

\* The page's steps: the backend is as it was.
LEMMA ServerStays ==
    ASSUME EarnedInv, UNCHANGED server
    PROVE  /\ ServerOK'
           /\ \A r : (Completes(r)' <=> Completes(r)) /\ (Boarded(r)' <=> Boarded(r))
           /\ \A v : ViewOK(v)' <=> ViewOK(v)
           /\ \A c : CallOK(c)' <=> CallOK(c)
           /\ \A b : BoardingOK(b)' <=> BoardingOK(b)
           /\ UNCHANGED told => told' \subseteq Followed /\ RideIsEarned'
BY DEF server, EarnedInv, ServerOK, ViewOK, CallOK, BoardingOK, Completes, Boarded, RideIsEarned

\* What a step of the page has to show.
LEMMA PageKeeps ==
    ASSUME EarnedInv, UNCHANGED server, NEW v, ViewOK(v), rider' = v, NEW h \in Names, Boarded(h), hint' = h,
           NEW c, CallOK(c), restoring' = c, NEW d, CallOK(d), inquiry' = d, NEW b, BoardingOK(b), boarding' = b,
           told' = told
    PROVE  EarnedInv'
<1>1. ServerOK' /\ told' \subseteq Followed /\ RideIsEarned'
  BY ServerStays
<1>2. ViewOK(v)' /\ Boarded(h)' /\ CallOK(c)' /\ CallOK(d)' /\ BoardingOK(b)'
  BY ServerStays
<1>3. ViewOK(rider)'
  BY <1>2 DEF ViewOK, Completes, Boarded
<1>4. hint' \in Names /\ Boarded(hint)' /\ BoardingOK(boarding)'
  BY <1>2 DEF BoardingOK, Boarded
<1>5. CallOK(restoring)' /\ CallOK(inquiry)'
  BY <1>2 DEF CallOK, Completes, Boarded
<1> QED BY <1>1, <1>3, <1>4, <1>5 DEF EarnedInv

LEMMA NothingAsked == CallOK(NoCall) /\ BoardingOK(NoBoarding)
BY DEF CallOK, BoardingOK, NoCall, NoBoarding, Calls, Services, Names, Boarded, Completes

LEMMA LoopOK ==
    ASSUME EarnedInv, NEW v
    PROVE  CallOK(Looped(v)) /\ BoardingOK(Carded(v))
BY NothingAsked DEF Looped, Carded, EarnedInv

LEMMA NewViewOK == NoFollowed \notin Followed => ViewOK(NewView)
BY DEF ViewOK, NewView, NotRunning, NodesOfRides, Trips, Names, Completes, Boarded, NoTrip

LEMMA FeedKeeps ==
    ASSUME EarnedInv, Hear \/ Resubscribe
    PROVE  EarnedInv'
<1>1. CASE Hear
  <2>1. PICK v, d, b : v = Decided(Delivered(rider, shownBus)) /\ d = Looped(v) /\ b = Carded(v)
    OBVIOUS
  <2>2. ViewOK(Delivered(rider, shownBus))
    BY DeliveredView DEF EarnedInv
  <2>3. PICK w : w = Delivered(rider, shownBus)
    OBVIOUS
  <2>4. ViewOK(v)
    BY <2>1, <2>2, <2>3, DecidedView
  <2>5. CallOK(d) /\ BoardingOK(b)
    BY <2>1, LoopOK
  <2>6. rider' = v /\ inquiry' = d /\ boarding' = b
    BY <1>1, <2>1 DEF Hear, Looped, Carded, SameLoop
  <2>7. UNCHANGED server /\ UNCHANGED <<hint, restoring, told>>
    BY <1>1 DEF Hear, server
  <2>8. PICK h, c : h = hint /\ c = restoring
    OBVIOUS
  <2>9. h \in Names /\ Boarded(h) /\ CallOK(c)
    BY <2>8 DEF EarnedInv
  <2> QED BY <2>4, <2>5, <2>6, <2>7, <2>8, <2>9, PageKeeps
<1>2. CASE Resubscribe
  <2>1. PICK v, h, c, b : v = [rider EXCEPT !.reset = TRUE] /\ h = hint /\ c = restoring /\ b = boarding
    OBVIOUS
  <2>2. ViewOK(v)
    BY <2>1 DEF EarnedInv, ViewOK
  <2>3. rider' = v /\ inquiry' = NoCall /\ hint' = h /\ restoring' = c /\ boarding' = b /\ UNCHANGED server /\ told' = told
    BY <1>2, <2>1 DEF Resubscribe, server
  <2>4. h \in Names /\ Boarded(h) /\ CallOK(c) /\ BoardingOK(b)
    BY <2>1 DEF EarnedInv
  <2> QED BY <2>2, <2>3, <2>4, NothingAsked, PageKeeps
<1> QED BY <1>1, <1>2

LEMMA AskFeedbackKeeps ==
    ASSUME EarnedInv, AskFeedback
    PROVE  EarnedInv'
<1>0. PICK r : r = rider.done
  OBVIOUS
<1>1. r \in Followed /\ Boarded(r)
  BY <1>0 DEF AskFeedback, EarnedInv, ViewOK, Names
<1>2. PICK u : u = [rider EXCEPT !.trips[r] = NoTrip, !.pending = NoFollowed, !.done = NoFollowed]
  OBVIOUS
<1>3. NoFollowed \in Names /\ Boarded(NoFollowed)
  BY DEF Names, Boarded
<1>4. ViewOK(u)
  BY <1>1, <1>2, <1>3 DEF EarnedInv, ViewOK, Trips, NoTrip
<1>5. PICK v, d : v = Decided(u) /\ d = Looped(v)
  OBVIOUS
<1>6. ViewOK(v) /\ CallOK(d)
  BY <1>4, <1>5, DecidedView, LoopOK
<1>7. rider' = v /\ inquiry' = d
  BY <1>0, <1>2, <1>5 DEF AskFeedback, Looped, SameLoop
<1>8. UNCHANGED <<service, shownBus, hint, restoring, boarding>>
  BY DEF AskFeedback, server
<1>9. UNCHANGED server
  BY <1>8 DEF server
<1>10. PICK h, c, b : h = hint /\ c = restoring /\ b = boarding
  OBVIOUS
<1>11. hint' = h /\ restoring' = c /\ boarding' = b /\ h \in Names /\ Boarded(h) /\ CallOK(c) /\ BoardingOK(b)
  BY <1>8, <1>10 DEF EarnedInv
<1>12. told' = IF rider.trips[r] = "completed" THEN told \union {r} ELSE told
  BY <1>0 DEF AskFeedback
<1>13. rider.trips[r] = "completed" => service[r].status = "completed" /\ service[r].place
  BY <1>1 DEF EarnedInv, ViewOK, Completes, Boarded, Followed, NoFollowed
<1>14. told' \subseteq Followed /\ RideIsEarned'
  BY <1>1, <1>8, <1>12, <1>13 DEF EarnedInv, RideIsEarned
<1>15. ServerOK'
  BY <1>9, ServerStays
<1>16. ViewOK(v)' /\ Boarded(h)' /\ CallOK(c)' /\ CallOK(d)' /\ BoardingOK(b)'
  BY <1>6, <1>9, <1>11, ServerStays
<1>17. ViewOK(rider)'
  BY <1>7, <1>16 DEF ViewOK, Completes, Boarded
<1>18. hint' \in Names /\ Boarded(hint)' /\ BoardingOK(boarding)'
  BY <1>11, <1>16 DEF BoardingOK, Boarded
<1>19. CallOK(restoring)' /\ CallOK(inquiry)'
  BY <1>7, <1>11, <1>16 DEF CallOK, Completes, Boarded
<1> QED BY <1>14, <1>15, <1>17, <1>18, <1>19 DEF EarnedInv

\* What the status endpoint says of a completion is true.
LEMMA StatusIsTrue ==
    ASSUME EarnedInv, NEW c, CallOK(c), c.at # "no"
    PROVE  CallOK([c EXCEPT !.at = "answered", !.says = StatusOf(c.ride)])
<1>1. PICK says : says = StatusOf(c.ride)
  OBVIOUS
<1>2. c.ride \in Followed
  BY DEF CallOK
<1>3. says \in Services \union {"refused"} /\ (says = "completed" => Completes(c.ride))
  BY <1>1, <1>2 DEF StatusOf, EarnedInv, ServerOK, Completes
<1>4. CallOK([c EXCEPT !.at = "answered", !.says = says])
  BY <1>2, <1>3 DEF CallOK, Calls
<1> QED BY <1>1, <1>4

LEMMA StatusKeeps ==
    ASSUME EarnedInv, StatusStep \/ LoseStatus
    PROVE  EarnedInv'
<1>1. PICK v, h, c, d, b : v = rider /\ h = hint /\ c = restoring /\ d = inquiry /\ b = boarding
  OBVIOUS
<1>2. ViewOK(v) /\ h \in Names /\ Boarded(h) /\ CallOK(c) /\ CallOK(d) /\ BoardingOK(b)
  BY <1>1 DEF EarnedInv
<1>3. UNCHANGED <<service, shownBus, hint, restoring, boarding, told>>
  BY DEF StatusStep, AskStatus, ReadStatus, HearStatus, LoseStatus, server
<1>4. UNCHANGED server /\ hint' = h /\ restoring' = c /\ boarding' = b /\ told' = told
  BY <1>1, <1>3 DEF server
<1>5. SUFFICES ASSUME NEW w, NEW e, rider' = w, inquiry' = e PROVE ViewOK(w) /\ CallOK(e)
  <2>1. PICK w, e : rider' = w /\ inquiry' = e
    OBVIOUS
  <2> QED BY <1>2, <1>4, <1>5, <2>1, PageKeeps
<1>6. CASE AskStatus
  <2>1. w = v /\ v.tracked # NoFollowed /\ e = [NoCall EXCEPT !.at = "asked", !.ride = v.tracked]
    BY <1>1, <1>5, <1>6 DEF AskStatus, Wanted
  <2>2. v.tracked \in Followed /\ Boarded(v.tracked)
    BY <1>2, <2>1 DEF ViewOK, Names
  <2>3. e \in Calls
    BY <2>1, <2>2 DEF Calls, NoCall, Names, Services
  <2>4. e.at = "asked" /\ e.ride = v.tracked
    BY <2>1 DEF NoCall
  <2> QED BY <1>2, <2>1, <2>2, <2>3, <2>4 DEF CallOK
<1>7. CASE ReadStatus
  <2>1. w = v /\ d.at # "no" /\ e = [d EXCEPT !.at = "answered", !.says = StatusOf(d.ride)]
    BY <1>1, <1>5, <1>7 DEF ReadStatus
  <2> QED BY <1>2, <2>1, StatusIsTrue
<1>8. CASE HearStatus
  <2>1. v.tracked \in Names /\ NoFollowed \in Names /\ Boarded(NoFollowed)
    BY <1>2 DEF ViewOK, Names, Boarded
  <2>2. CASE d.says = "completed"
    <3>1. d.at = "answered" /\ d.ride \in Names /\ Completes(d.ride)
      BY <1>1, <1>2, <1>8, <2>2 DEF HearStatus, CallOK, Calls
    <3>2. PICK u : u = [v EXCEPT !.trips[d.ride] = "completed", !.error = FALSE]
      OBVIOUS
    <3>3. ViewOK(u)
      BY <1>2, <3>1, <3>2 DEF ViewOK
    <3>4. w = Decided(u) /\ e = NoCall
      BY <1>1, <1>5, <1>8, <2>2, <3>2 DEF HearStatus
    <3> QED BY <3>3, <3>4, DecidedView, NothingAsked
  <2>3. CASE d.says \in {"interrupted", "failed"}
    <3>1. PICK u : u = [v EXCEPT !.error = FALSE]
      OBVIOUS
    <3>2. ViewOK(u)
      BY <1>2, <3>1 DEF ViewOK
    <3>3. w = Tracks(u, NoFollowed) /\ e = NoCall
      BY <1>1, <1>5, <1>8, <2>3, <3>1 DEF HearStatus
    <3> QED BY <2>1, <3>2, <3>3, TrackedView, NothingAsked
  <2>4. CASE d.says \notin {"completed", "interrupted", "failed"}
    <3>1. \/ w = [v EXCEPT !.error = TRUE] /\ e = [d EXCEPT !.at = "failed"]
          \/ w = [v EXCEPT !.error = FALSE] /\ e = NoCall
      BY <1>1, <1>5, <1>8, <2>4 DEF HearStatus, LoopFails
    <3>4. d.at = "answered"
      BY <1>1, <1>8 DEF HearStatus
    <3>2. CallOK(e)
      BY <1>2, <3>1, <3>4, NothingAsked DEF CallOK, Calls
    <3>3. ViewOK(w)
      BY <1>2, <3>1 DEF ViewOK
    <3> QED BY <3>2, <3>3
  <2> QED BY <2>2, <2>3, <2>4
<1>9. CASE LoseStatus
  <2>1. w = [v EXCEPT !.error = TRUE] /\ e = [d EXCEPT !.at = "failed"]
    BY <1>1, <1>5, <1>9 DEF LoseStatus, LoopFails
  <2>4. d.at # "no"
    BY <1>1, <1>9 DEF LoseStatus
  <2>2. CallOK(e)
    BY <1>2, <2>1, <2>4 DEF CallOK, Calls
  <2>3. ViewOK(w)
    BY <1>2, <2>1 DEF ViewOK
  <2> QED BY <2>2, <2>3
<1> QED BY <1>6, <1>7, <1>8, <1>9 DEF StatusStep

LEMMA RestoreBegins ==
    ASSUME EarnedInv, NEW v
    PROVE  CallOK(AskRestore(v))
<1>1. CASE BeginsRestore(v)
  <2>1. hint \in Followed /\ Boarded(hint)
    BY <1>1 DEF BeginsRestore, EarnedInv, Names
  <2>2. PICK h, c : h = hint /\ c = [NoCall EXCEPT !.at = "asked", !.ride = h]
    OBVIOUS
  <2>3. c \in Calls /\ c.at = "asked" /\ c.ride = h
    BY <2>1, <2>2 DEF Calls, NoCall, Names, Services
  <2> QED BY <1>1, <2>1, <2>2, <2>3 DEF AskRestore, CallOK
<1>2. CASE ~BeginsRestore(v)
  BY <1>2, NothingAsked DEF AskRestore
<1> QED BY <1>1, <1>2

LEMMA RestoreKeeps ==
    ASSUME EarnedInv, Reload \/ RetryRide \/ RestoringStep \/ LoseRestore
    PROVE  EarnedInv'
<1>1. PICK v, h, c, d, b : v = rider /\ h = hint /\ c = restoring /\ d = inquiry /\ b = boarding
  OBVIOUS
<1>2. ViewOK(v) /\ h \in Names /\ Boarded(h) /\ CallOK(c) /\ CallOK(d) /\ BoardingOK(b)
  BY <1>1 DEF EarnedInv
<1>3. UNCHANGED <<service, shownBus, told>>
  BY DEF RestoringStep, Reload, RetryRide, ReadRestore, HearRestore, LoseRestore, server
<1>4. UNCHANGED server /\ told' = told
  BY <1>3 DEF server
<1>5. SUFFICES ASSUME NEW w, NEW g, NEW x, NEW e, NEW f, rider' = w, hint' = g, restoring' = x, inquiry' = e, boarding' = f
      PROVE ViewOK(w) /\ g \in {h, NoFollowed} /\ CallOK(x) /\ CallOK(e) /\ BoardingOK(f)
  <2>1. PICK w, g, x, e, f : rider' = w /\ hint' = g /\ restoring' = x /\ inquiry' = e /\ boarding' = f
    OBVIOUS
  <2>2. NoFollowed \in Names /\ Boarded(NoFollowed)
    BY DEF Names, Boarded
  <2>3. ViewOK(w) /\ g \in Names /\ Boarded(g) /\ CallOK(x) /\ CallOK(e) /\ BoardingOK(f)
    BY <1>2, <1>5, <2>1, <2>2
  <2> QED BY <1>4, <2>1, <2>3, PageKeeps
<1>6. CASE Reload
  <2>1. w = NewView /\ e = NoCall /\ f = NoBoarding /\ x = AskRestore(NewView) /\ g = h
    BY <1>1, <1>5, <1>6 DEF Reload
  <2> QED BY <2>1, NewViewOK, NothingAsked, RestoreBegins, FollowAssumption DEF Followed, NoFollowed
<1>7. CASE RetryRide
  <2>1. w = v /\ e = NoCall /\ f = b /\ x = AskRestore(v) /\ g = h
    BY <1>1, <1>5, <1>7 DEF RetryRide
  <2> QED BY <1>2, <2>1, NothingAsked, RestoreBegins
<1>8. CASE ReadRestore
  <2>1. w = v /\ g = h /\ e = d /\ f = b /\ c.at # "no" /\ x = [c EXCEPT !.at = "answered", !.says = StatusOf(c.ride)]
    BY <1>1, <1>5, <1>8 DEF ReadRestore
  <2> QED BY <1>2, <2>1, StatusIsTrue
<1>9. CASE HearRestore
  <2>1. x = NoCall /\ f = b /\ CallOK(x)
    BY <1>1, <1>5, <1>9, NothingAsked DEF HearRestore
  <2>2. CASE w = v /\ e = d
    <3>1. g \in {h, NoFollowed}
      BY <1>1, <1>5, <1>9 DEF HearRestore
    <3> QED BY <1>2, <2>1, <2>2, <3>1
  <2>3. CASE ~(w = v /\ e = d)
    <3>1. CASE w = [v EXCEPT !.error = TRUE] /\ g = NoFollowed /\ e = d
      BY <1>2, <2>1, <3>1 DEF ViewOK
    <3>2. CASE w = [Tracks(v, c.ride) EXCEPT !.error = FALSE, !.boarded = c.ride] /\ e = Looped(w) /\ g = h
      <4>1. c.ride \in Names /\ Boarded(c.ride)
        BY <1>2 DEF CallOK, Calls
      <4>2. PICK t : t = Tracks(v, c.ride)
        OBVIOUS
      <4>3. ViewOK(t)
        BY <1>2, <4>1, <4>2, TrackedView
      <4>4. ViewOK(w)
        BY <3>2, <4>1, <4>2, <4>3 DEF ViewOK
      <4>5. CallOK(e)
        BY <3>2, LoopOK
      <4> QED BY <1>2, <2>1, <3>2, <4>4, <4>5
    <3>3. \/ w = v /\ e = d
          \/ w = [v EXCEPT !.error = TRUE] /\ g = NoFollowed /\ e = d
          \/ w = [Tracks(v, c.ride) EXCEPT !.error = FALSE, !.boarded = c.ride] /\ e = Looped(w) /\ g = h
      BY <1>1, <1>5, <1>9 DEF HearRestore
    <3> QED BY <2>3, <3>1, <3>2, <3>3
  <2> QED BY <2>2, <2>3
<1>10. CASE LoseRestore
  <2>1. x = NoCall /\ g = h /\ e = d /\ f = b /\ w \in {v, [v EXCEPT !.error = TRUE]}
    BY <1>1, <1>5, <1>10 DEF LoseRestore
  <2>2. ViewOK(w)
    BY <1>2, <2>1 DEF ViewOK
  <2> QED BY <1>2, <2>1, <2>2, NothingAsked
<1> QED BY <1>6, <1>7, <1>8, <1>9, <1>10 DEF RestoringStep

LEMMA BoardKeeps ==
    ASSUME EarnedInv, Board \/ ReadJoin \/ HearJoin
    PROVE  EarnedInv'
<1>1. PICK v, h, c, d, b : v = rider /\ h = hint /\ c = restoring /\ d = inquiry /\ b = boarding
  OBVIOUS
<1>2. ViewOK(v) /\ h \in Names /\ Boarded(h) /\ CallOK(c) /\ CallOK(d) /\ BoardingOK(b)
  BY <1>1 DEF EarnedInv
<1>3. UNCHANGED <<service, shownBus, told>>
  BY DEF Board, ReadJoin, HearJoin, JoinFails, server
<1>4. UNCHANGED server /\ told' = told
  BY <1>3 DEF server
<1>5. SUFFICES ASSUME NEW w, NEW g, NEW x, NEW e, NEW f, rider' = w, hint' = g, restoring' = x, inquiry' = e, boarding' = f
      PROVE ViewOK(w) /\ g \in Names /\ Boarded(g) /\ CallOK(x) /\ CallOK(e) /\ BoardingOK(f)
  <2>1. PICK w, g, x, e, f : rider' = w /\ hint' = g /\ restoring' = x /\ inquiry' = e /\ boarding' = f
    OBVIOUS
  <2> QED BY <1>4, <1>5, <2>1, PageKeeps
<1>6. CASE Board
  <2>1. w = v /\ g = h /\ x = c /\ e = d /\ v.heard.ride # NoFollowed
        /\ f = [NoBoarding EXCEPT !.at = "sent", !.ride = v.heard.ride, !.near = v.boarded # v.heard.ride]
    BY <1>1, <1>5, <1>6 DEF Board, ShownOf
  <2>2. v.heard.ride \in Followed
    BY <1>2, <2>1 DEF ViewOK, NodesOfRides, Names
  <2>3. BoardingOK(f)
    BY <2>1, <2>2 DEF BoardingOK, NoBoarding, Names
  <2> QED BY <1>2, <2>1, <2>3
<1>7. CASE ReadJoin
  <2>1. CASE w = v /\ f = [b EXCEPT !.at = "read", !.checked = ~service[b.ride].place]
    <3>1. b.ride \in Followed
      BY <1>1, <1>2, <1>7 DEF ReadJoin, BoardingOK
    <3>2. BoardingOK(f)
      BY <1>2, <2>1, <3>1 DEF BoardingOK
    <3>3. g = h /\ x = c /\ e = d
      BY <1>1, <1>5, <1>7 DEF ReadJoin, JoinFails
    <3> QED BY <1>2, <2>1, <3>2, <3>3
  <2>2. CASE f = NoBoarding /\ w = [v EXCEPT !.boarded = NoFollowed]
    <3>1. ViewOK(w)
      BY <1>2, <2>2 DEF ViewOK, Names
    <3>2. g = h /\ x = c /\ e = d
      BY <1>1, <1>5, <1>7 DEF ReadJoin, JoinFails
    <3> QED BY <1>2, <2>2, <3>1, <3>2, NothingAsked
  <2> QED BY <1>1, <1>5, <1>7, <2>1, <2>2 DEF ReadJoin, JoinFails
<1>8. CASE HearJoin
  <2>1. b.ride \in Followed /\ b.ride \in Names /\ Boarded(b.ride)
    BY <1>1, <1>2, <1>8 DEF HearJoin, BoardingOK, Names
  <2>2. PICK t : t = Tracks(v, b.ride)
    OBVIOUS
  <2>3. ViewOK(t)
    BY <1>2, <2>1, <2>2, TrackedView
  <2>4. w = [t EXCEPT !.error = FALSE, !.boarded = b.ride] /\ g = b.ride /\ f = NoBoarding
    BY <1>1, <1>5, <1>8, <2>2 DEF HearJoin
  <2>5. e = Looped(w) /\ x = [c EXCEPT !.overtaken = c.at # "no"]
    BY <1>1, <1>5, <1>8 DEF HearJoin, Looped, SameLoop
  <2>6. ViewOK(w)
    BY <2>1, <2>3, <2>4 DEF ViewOK
  <2>7. CallOK(x)
    BY <1>2, <2>5 DEF CallOK, Calls
  <2> QED BY <2>1, <2>4, <2>5, <2>6, <2>7, LoopOK, NothingAsked
<1> QED BY <1>6, <1>7, <1>8

\* A boarding that may commit, and what the page makes of it.
LEMMA JoinKeeps ==
    ASSUME EarnedInv, CommitJoin \/ LoseJoin
    PROVE  EarnedInv'
<1>1. PICK v, h, c, d, b : v = rider /\ h = hint /\ c = restoring /\ d = inquiry /\ b = boarding
  OBVIOUS
<1>2. ViewOK(v) /\ h \in Names /\ Boarded(h) /\ CallOK(c) /\ CallOK(d) /\ BoardingOK(b) /\ ServerOK
  BY <1>1 DEF EarnedInv
<1>3. b.at # "no" /\ b.ride \in Followed
  BY <1>1, <1>2 DEF CommitJoin, LoseJoin, BoardingOK
<1>4. UNCHANGED shownBus /\ service' \in {service, [service EXCEPT ![b.ride].place = TRUE]}
  BY <1>1 DEF CommitJoin, LoseJoin
<1>5. ServerOK' /\ Grows
  <2>1. CASE service' = service
    BY <1>2, <1>4, <2>1 DEF ServerOK, Grows, Completes
  <2>2. CASE service' = [service EXCEPT ![b.ride].place = TRUE]
    <3>1. service' \in [Followed -> [status : Services, place : BOOLEAN, gone : BOOLEAN]]
      BY <1>2, <1>3, <2>2 DEF ServerOK
    <3>2. \A r \in Followed : /\ service'[r].status = service[r].status
                              /\ service[r].place => service'[r].place
      BY <1>2, <1>3, <2>2 DEF ServerOK
    <3>3. shownBus' \in NodesOfRides /\ shownBus'.last \in Names
      BY <1>2, <1>4 DEF ServerOK, NodesOfRides
    <3>4. Completes(shownBus.last)'
      BY <1>2, <1>4, <3>2, <3>3 DEF ServerOK, Completes, Names
    <3> QED BY <3>1, <3>2, <3>3, <3>4 DEF ServerOK, Grows
  <2> QED BY <1>4, <2>1, <2>2
<1>6. hint' = h /\ restoring' = c /\ inquiry' = d /\ told' = told
  BY <1>1 DEF CommitJoin, LoseJoin, JoinFails
<1>7. rider' = v \/ rider' = [v EXCEPT !.boarded = NoFollowed]
  BY <1>1 DEF CommitJoin, LoseJoin, JoinFails
<1>8. boarding' = NoBoarding \/ (boarding' = [b EXCEPT !.at = "joined"] /\ service' = [service EXCEPT ![b.ride].place = TRUE])
  BY <1>1 DEF CommitJoin, LoseJoin, JoinFails
<1>9. PICK w, f : rider' = w /\ boarding' = f
  OBVIOUS
<1>10. ViewOK(w)
  BY <1>2, <1>7, <1>9 DEF ViewOK, Names
<1>11. ViewOK(w)' /\ Boarded(h)' /\ CallOK(c)' /\ CallOK(d)'
  BY <1>2, <1>5, <1>10, EarnedGrows
<1>12. ViewOK(rider)'
  BY <1>9, <1>11 DEF ViewOK, Completes, Boarded
<1>13. hint' \in Names /\ Boarded(hint)'
  BY <1>2, <1>6, <1>11 DEF Boarded
<1>14. CallOK(restoring)' /\ CallOK(inquiry)'
  BY <1>6, <1>11 DEF CallOK, Completes, Boarded
<1>15. BoardingOK(boarding)'
  <2>1. CASE boarding' = NoBoarding
    BY <2>1 DEF BoardingOK, NoBoarding, Names
  <2>2. CASE boarding' = [b EXCEPT !.at = "joined"] /\ service' = [service EXCEPT ![b.ride].place = TRUE]
    BY <1>2, <1>3, <2>2 DEF BoardingOK, Boarded, ServerOK
  <2> QED BY <1>8, <2>1, <2>2
<1>16. told' \subseteq Followed /\ RideIsEarned'
  BY <1>2, <1>5, <1>6, EarnedGrows DEF EarnedInv
<1> QED BY <1>5, <1>12, <1>13, <1>14, <1>15, <1>16 DEF EarnedInv

LEMMA EarnedStep == EarnedInv /\ [PassengerNext]_passengerVars => EarnedInv'
<1> SUFFICES ASSUME EarnedInv, [PassengerNext]_passengerVars PROVE EarnedInv'
  OBVIOUS
<1>1. CASE UNCHANGED passengerVars
  BY <1>1 DEF passengerVars, EarnedInv, ServerOK, ViewOK, CallOK, BoardingOK, RideIsEarned, Completes, Boarded
<1>2. CASE PassengerNext
  BY <1>2, ServiceKeeps, NodeKeeps, FeedKeeps, AskFeedbackKeeps, StatusKeeps, RestoreKeeps, BoardKeeps, JoinKeeps
     DEF PassengerNext, ServiceStep, JoinStep
<1> QED BY <1>1, <1>2

-----------------------------------------------------------------------------
(* How far along its stops a ride is. The checkpoint and its history never go  *)
(* back on any road. That no stop is credited early is proved first for a road *)
(* that never turns back (OneWay), where the places of the fixes are in the    *)
(* order of their times (Timeline) and every stage, shown, stored or waiting   *)
(* in a snapshot, is earned by where the bus is (AllEarned); then for a road   *)
(* out and back (RoundTrip).                                                   *)

Motions == {"none", "uncertain", "moving", "stopped"}
Phases == {"pre_departure", "in_service", "completed"}
Marks == {"none", "skipped_gnss_gap", "passed_unobserved", "recovered_checkpoint", "gnss_progress"}
Fix == [time : Int, place : Int, motion : Motions]
Arrival == [from : Int, last : Int]
LiveStage == [phase : Phases, index : Indices, departed : BOOLEAN, arrival : Arrival,
              gap : Int, unobserved : SUBSET Int, atStop : Int]
SavedStage == [phase : Phases, index : Indices, departed : BOOLEAN, arrival : Arrival,
               history : [Indices -> Marks]]

LEMMA LeastIndex ==
    ASSUME NEW T, T \subseteq Nat, T # {}
    PROVE  \E x \in T : \A y \in T : x <= y
<1> DEFINE Less == {ss \in Nat \X Nat : ss[1] < ss[2]}
<1>1. IsWellFoundedOn(Less, Nat)
  BY NatLessThanWellFounded, Zenon DEF OpToRel
<1>2. PICK x \in T : \A y \in T : ~(<<y, x>> \in Less)
  BY <1>1, WFMin, Zenon
<1>3. ASSUME NEW y \in T PROVE x <= y
  <2>1. x \in Nat /\ y \in Nat
    BY <1>3
  <2>2. ~(<<y, x>> \in Nat \X Nat /\ y < x)
    BY <1>2, <1>3
  <2> QED BY <2>1, <2>2
<1> QED BY <1>2, <1>3

LEMMA RoadOK ==
    /\ Terminus \in Nat \ {0} /\ Indices \subseteq Nat
    /\ \A i \in Indices : i + 1 \in DOMAIN Stops /\ Stops[i + 1] \in Int /\ Spot(i) \in Int
    /\ \A i, j \in Indices : i < j => Stops[i + 1] < Stops[j + 1]
  BY RouteAssumption DEF Terminus, Indices, Spot, PlaceOf

\* As far as the run of stops lasts.
LEMMA ConsumedOK ==
    ASSUME NEW from \in Indices, NEW f, NEW p
    PROVE  /\ Consumed(from, f, p) \in from .. Terminus
           /\ Run(from, Consumed(from, f, p) - 1, f, p)
<1> DEFINE T == {n \in from .. Terminus : n = Terminus \/ ~Run(from, n, f, p)}
<1>1. T \subseteq Nat /\ T # {}
  BY RoadOK DEF Indices
<1>2. PICK n \in T : \A y \in T : n <= y
  BY <1>1, LeastIndex
<1>3. Run(from, n - 1, f, p)
  <2>1. CASE n = from
    BY <2>1, RoadOK DEF Run, Indices
  <2>2. CASE n # from
    <3>1. n - 1 \in from .. Terminus /\ n - 1 \notin T
      BY <2>2, <1>2, RoadOK DEF Indices
    <3> QED BY <3>1
  <2> QED BY <2>1, <2>2
<1>4. \E m \in from .. Terminus : Run(from, m - 1, f, p) /\ (m = Terminus \/ ~Run(from, m, f, p))
  BY <1>2, <1>3
<1> QED BY <1>4 DEF Consumed

\* A road that never turns back; the stops below n are passed at place a.
OneWay == Turn >= Stops[Terminus + 1]
Earned(n, a) == \A i \in Indices : i < n => Stops[i + 1] <= a

LEMMA OneWayOK ==
    ASSUME OneWay
    PROVE  \A i \in Indices : Spot(i) = Stops[i + 1]
<1> TAKE i \in Indices
<1>1. Stops[i + 1] <= Stops[Terminus + 1]
  <2>1. Terminus \in Indices /\ (i = Terminus \/ i < Terminus)
    BY RoadOK DEF Indices
  <2>2. Stops[i + 1] \in Int /\ Stops[Terminus + 1] \in Int /\ (i < Terminus => Stops[i + 1] < Stops[Terminus + 1])
    BY <2>1, RoadOK
  <2> QED BY <2>1, <2>2
<1> QED BY <1>1, RoadOK, RouteAssumption DEF OneWay, Spot, PlaceOf, Indices

LEMMA ReachedCame ==
    ASSUME OneWay, NEW i \in Indices, NEW f \in Fix, NEW p \in Fix,
           p.place <= f.place, ReachedStop(i, f, p)
    PROVE  Stops[i + 1] <= f.place
<1>1. Spot(i) = Stops[i + 1] /\ Spot(i) \in Int
  BY OneWayOK, RoadOK
<1>2. Spot(i) = f.place \/ Between(Spot(i), p.place, f.place)
  BY DEF ReachedStop
<1>3. f.place \in Int /\ p.place \in Int
  BY DEF Fix
<1> QED BY <1>1, <1>2, <1>3 DEF Between

\* The stop that is expected of the bus after the fix, when `next` was before.
TargetOK(t, next, f, p) ==
    /\ t \in Indices \cup {Unknown}
    /\ t # Unknown => t >= next
    /\ OneWay /\ p.place <= f.place => t = next \/ (t \in Indices /\ Stops[t + 1] <= f.place)

LEMMA ResolvedOK ==
    ASSUME NEW i \in Indices, NEW limit \in Indices, NEW f, NEW p, NEW elapsed
    PROVE  LET t == Resolved(i, f, p, elapsed, limit)
           IN  /\ t \in Indices \cup {Unknown} /\ (t # Unknown => t >= i)
               /\ OneWay => t = i
<1> DEFINE copies == {c \in i + 2 .. limit : Spot(c) = Spot(i)}
           copy == CHOOSE c \in copies : \A d \in copies : c <= d
<1>1. copies \subseteq Indices /\ copies \subseteq Nat /\ \A c \in copies : c > i /\ c >= i
  BY RoadOK DEF Indices
<1>2. copies # {} => copy \in copies
  <2> SUFFICES ASSUME copies # {} PROVE copy \in copies
    OBVIOUS
  <2>1. \E c \in copies : \A d \in copies : c <= d
    BY <1>1, LeastIndex
  <2> QED BY <2>1
<1>3. OneWay => copies = {}
  <2> SUFFICES ASSUME OneWay, NEW c \in copies PROVE FALSE
    OBVIOUS
  <2>1. c \in Indices /\ c > i /\ Spot(c) = Spot(i)
    BY <1>1
  <2>2. Stops[i + 1] < Stops[c + 1] /\ Stops[i + 1] \in Int /\ Stops[c + 1] \in Int
    BY <2>1, RoadOK
  <2> QED BY <2>1, <2>2, OneWayOK
<1>4. LET t == Resolved(i, f, p, elapsed, limit)
      IN  t = i \/ (copies # {} /\ (t = copy \/ t = Unknown))
  BY DEF Resolved
<1>5. i >= i
  BY RoadOK
<1> HIDE DEF copies, copy
<1>6. copies # {} => copy \in Indices /\ copy >= i
  BY <1>1, <1>2
<1> QED BY <1>3, <1>4, <1>5, <1>6

LEMMA AfterGapOK ==
    ASSUME NEW next \in Indices, NEW limit \in Indices, NEW f \in Fix, NEW p \in Fix, NEW elapsed
    PROVE  TargetOK(AfterGap(next, f, p, elapsed, limit), next, f, p)
<1> DEFINE seen == {i \in next + 1 .. limit :
                      /\ Path(next, i) <= elapsed * Pace
                      /\ f.place = Spot(i) \/ (ReachedStop(i, f, p) /\ DrivenThrough(i, f, p))
                      /\ AtPassed(i, next) => DrivenIn(elapsed, next - 1, i)}
           first == CHOOSE i \in seen : \A j \in seen : i <= j
           t == AfterGap(next, f, p, elapsed, limit)
<1>1. seen \subseteq Indices /\ seen \subseteq Nat /\ \A i \in seen : i >= next /\ ReachedStop(i, f, p)
  BY RoadOK DEF Indices, ReachedStop
<1>2. seen # {} => first \in seen
  <2> SUFFICES ASSUME seen # {} PROVE first \in seen
    OBVIOUS
  <2>1. \E c \in seen : \A d \in seen : c <= d
    BY <1>1, LeastIndex
  <2> QED BY <2>1
<1>3. \/ ReachedStop(next, f, p) /\ t = Resolved(next, f, p, elapsed, limit)
      \/ seen = {} /\ t = next
      \/ seen # {} /\ t = Resolved(first, f, p, elapsed, limit)
  BY DEF AfterGap
<1> HIDE DEF seen, first, t
<1>4. next >= next /\ next \in Nat /\ Unknown \notin Nat /\ Indices \subseteq Nat
  BY RoadOK DEF Unknown
<1>5. CASE ReachedStop(next, f, p) /\ t = Resolved(next, f, p, elapsed, limit)
  <2>1. OneWay /\ p.place <= f.place => t = next
    BY <1>5, ResolvedOK
  <2> QED BY <1>5, <2>1, ResolvedOK DEF TargetOK, t
<1>6. CASE seen = {} /\ t = next
  BY <1>4, <1>6 DEF TargetOK, t
<1>7. CASE seen # {} /\ t = Resolved(first, f, p, elapsed, limit)
  <2>1. first \in Indices /\ first \in Nat /\ first >= next /\ ReachedStop(first, f, p)
    BY <1>1, <1>2, <1>7
  <2>2. /\ t \in Indices \cup {Unknown} /\ (t # Unknown => t >= first)
        /\ OneWay => t = first
    BY <1>7, <2>1, ResolvedOK
  <2>3. t # Unknown => t >= next
    BY <1>4, <2>1, <2>2
  <2>4. OneWay /\ p.place <= f.place => t \in Indices /\ Stops[t + 1] <= f.place
    BY <2>1, <2>2, ReachedCame
  <2> QED BY <2>2, <2>3, <2>4 DEF TargetOK, t
<1> QED BY <1>3, <1>5, <1>6, <1>7

LEMMA PastMissedOK ==
    ASSUME NEW next \in Indices, NEW limit \in Indices, NEW f \in Fix, NEW p \in Fix
    PROVE  TargetOK(PastMissed(next, f, p, limit), next, f, p)
<1> DEFINE ahead == {i \in next + 1 .. Smaller(next + Recovery, limit) :
                       ReachedStop(i, f, p) /\ DrivenThrough(i, f, p)}
           first == CHOOSE i \in ahead : \A j \in ahead : i <= j
           t == PastMissed(next, f, p, limit)
<1>1. Smaller(next + Recovery, limit) \in Int /\ Smaller(next + Recovery, limit) <= limit
  BY RoadOK, RouteAssumption DEF Smaller
<1>2. ahead \subseteq Indices /\ ahead \subseteq Nat /\ \A i \in ahead : i >= next /\ ReachedStop(i, f, p)
  BY <1>1, RoadOK DEF Indices
<1>3. ahead # {} => first \in ahead
  <2> SUFFICES ASSUME ahead # {} PROVE first \in ahead
    OBVIOUS
  <2>1. \E c \in ahead : \A d \in ahead : c <= d
    BY <1>2, LeastIndex
  <2> QED BY <2>1
<1>4. t = next \/ (ahead # {} /\ t = first)
  BY DEF PastMissed
<1> HIDE DEF ahead, first, t
<1>5. next >= next /\ next \in Nat
  BY RoadOK
<1>6. CASE t = next
  BY <1>5, <1>6 DEF TargetOK, t
<1>7. CASE ahead # {} /\ t = first
  <2>1. t \in Indices /\ t >= next /\ ReachedStop(t, f, p)
    BY <1>2, <1>3, <1>7
  <2>2. OneWay /\ p.place <= f.place => Stops[t + 1] <= f.place
    BY <2>1, ReachedCame
  <2> QED BY <2>1, <2>2 DEF TargetOK, t
<1> QED BY <1>4, <1>6, <1>7

\* What a reduction of fix f after fix p may make of the stage l.
StageOK(l) ==
    /\ l.index >= 1 => l.phase # "pre_departure"
    /\ l.phase = "completed" => l.index = Terminus

ReductionOK(r, f, p, index) ==
    /\ r.live \in LiveStage /\ StageOK(r.live)
    /\ r.skipped \cup r.missed \subseteq 1 .. Terminus - 1
    /\ OneWay /\ 0 <= p.place /\ p.place <= f.place =>
         /\ \A i \in r.skipped \cup r.missed : Stops[i + 1] < f.place
         /\ \A a \in Int : f.place <= a /\ Earned(index, a) => Earned(r.live.index, a)
         /\ r.live.phase = "completed" => f.place = Stops[Terminus + 1]

LEMMA EarnedTo ==
    ASSUME NEW i \in Indices, NEW a \in Int, Stops[i + 1] <= a
    PROVE  Earned(i + 1, a) /\ Earned(i, a)
<1> SUFFICES ASSUME NEW k \in Indices, k < i + 1 PROVE Stops[k + 1] <= a
  BY RoadOK DEF Earned
<1>1. k = i \/ k < i
  BY RoadOK
<1> QED BY <1>1, RoadOK

LEMMA GapSet ==
    ASSUME NEW l \in LiveStage, NEW gap \in Int
    PROVE  LET m == [l EXCEPT !.gap = gap]
           IN  m \in LiveStage /\ m.index = l.index /\ m.phase = l.phase
  BY DEF LiveStage

LEMMA AdvanceOK ==
    ASSUME NEW f \in Fix, NEW p \in Fix, NEW l \in LiveStage, NEW gap \in Int,
           NEW leaving \in BOOLEAN, NEW base \in Indices, NEW target, NEW anchored \in Int,
           TargetOK(target, base, f, p), base = 0 => target = 0
    PROVE  ReductionOK(Advance(f, p, l, gap, leaving, base, target, anchored), f, p, base)
<1> DEFINE r == Advance(f, p, l, gap, leaving, base, target, anchored)
<1>0. /\ f.time \in Int /\ f.place \in Int /\ p.place \in Int
      /\ l.departed \in BOOLEAN /\ l.arrival \in Arrival /\ l.index \in Indices
      /\ l.departed \/ leaving \in BOOLEAN
  BY DEF Fix, LiveStage
<1>1. NoArrival \in Arrival /\ NoGap \in Int /\ 0 \in Indices /\ Terminus \in Indices /\ Unknown \notin Indices
  BY RoadOK DEF NoArrival, Arrival, NoGap, Indices, Unknown
<1>2. CASE target = Unknown
  <2> DEFINE held == [l EXCEPT !.phase = "in_service", !.index = base, !.arrival = NoArrival,
                              !.departed = l.departed \/ leaving]
  <2>1. r = [live |-> [held EXCEPT !.gap = anchored], skipped |-> {}, missed |-> {}]
    BY <1>2 DEF Advance, Reduction
  <2>2. held \in LiveStage /\ held.index = base /\ held.phase = "in_service"
    BY <1>0, <1>1 DEF LiveStage, Phases
  <2> HIDE DEF held, r
  <2>3. r.live \in LiveStage /\ r.live.index = base /\ r.live.phase = "in_service"
    BY <2>1, <2>2, GapSet
  <2>4. r.skipped = {} /\ r.missed = {}
    BY <2>1
  <2> QED BY <2>3, <2>4 DEF ReductionOK, StageOK, r
<1>3. CASE target # Unknown
  <2> DEFINE next == IF target = 0 THEN 0 ELSE Consumed(target, f, p)
             there == ~leaving /\ next = Terminus /\ Run(target, Terminus, f, p)
             standing == there /\ l.departed /\ f.motion = "stopped" /\ f.place = Spot(Terminus)
             prior == l.arrival # NoArrival /\ f.time - l.arrival.last <= StaleAfter
             evidence == [from |-> IF prior THEN l.arrival.from ELSE f.time, last |-> f.time]
             completes == standing /\ prior /\ f.time > l.arrival.last
             moved == [l EXCEPT !.phase = IF completes THEN "completed" ELSE "in_service",
                                !.index = next, !.departed = l.departed \/ leaving,
                                !.arrival = IF standing THEN evidence ELSE NoArrival]
             observed == target > 0 /\ target <= (IF leaving THEN Terminus - 1 ELSE Terminus)
                           /\ Consumable(target, f, p)
             skipped == IF gap # NoGap THEN base .. target - 1 ELSE {}
             open == IF observed THEN NoGap ELSE IF skipped = {} THEN anchored ELSE gap
  <2>1. target \in Indices /\ target >= base
    BY <1>3 DEF TargetOK
  <2>2. /\ next \in Indices /\ next >= target
        /\ target # 0 => next = Consumed(target, f, p) /\ Run(target, next - 1, f, p)
    <3>1. Consumed(target, f, p) \in target .. Terminus /\ Run(target, Consumed(target, f, p) - 1, f, p)
      BY <2>1, ConsumedOK
    <3> QED BY <3>1, <2>1, RoadOK DEF Indices
  <2>3. r = [live |-> [moved EXCEPT !.gap = open], skipped |-> skipped, missed |-> (base .. target - 1) \ skipped]
    BY <1>3 DEF Advance, Reduction
  <2>4. evidence \in Arrival
    BY <1>0 DEF Arrival
  <2>5. open \in Int
    BY <1>1
  <2>6. standing \in BOOLEAN /\ completes \in BOOLEAN /\ (completes => next = Terminus /\ f.place = Spot(Terminus))
    BY <1>0
  <2> HIDE DEF next, standing, evidence, completes, open, there, prior, observed
  <2>7. /\ moved \in LiveStage /\ moved.index = next
        /\ moved.phase = IF completes THEN "completed" ELSE "in_service"
    BY <2>2, <2>4, <2>6, <1>0, <1>1 DEF LiveStage, Phases
  <2>8. /\ r.live \in LiveStage /\ r.live.index = next
        /\ r.live.phase = IF completes THEN "completed" ELSE "in_service"
    <3> HIDE DEF moved, skipped, r
    <3>1. r.live = [moved EXCEPT !.gap = open]
      BY <2>3
    <3> QED BY <3>1, <2>5, <2>7, GapSet
  <2>9. StageOK(r.live)
    BY <2>6, <2>8 DEF StageOK
  <2>10. r.skipped \cup r.missed = base .. target - 1
    BY <2>3
  <2>11. base .. target - 1 \subseteq 1 .. Terminus - 1
    BY <2>1, RoadOK DEF Indices
  <2>12. ASSUME OneWay, 0 <= p.place, p.place <= f.place
         PROVE  /\ \A i \in r.skipped \cup r.missed : Stops[i + 1] < f.place
                /\ \A a \in Int : f.place <= a /\ Earned(base, a) => Earned(r.live.index, a)
                /\ r.live.phase = "completed" => f.place = Stops[Terminus + 1]
    <3>1. target = base \/ Stops[target + 1] <= f.place
      BY <2>12, <1>3 DEF TargetOK
    <3>2. ASSUME NEW i \in base .. target - 1 PROVE Stops[i + 1] < f.place
      <4>1. i \in Indices /\ i < target /\ target # base
        BY <2>1, RoadOK DEF Indices
      <4> QED BY <4>1, <3>1, <2>1, <1>0, RoadOK
    <3>3. ASSUME NEW a \in Int, f.place <= a, Earned(base, a) PROVE Earned(next, a)
      <4>1. Earned(target, a)
        <5>1. CASE target = base
          BY <5>1, <3>3
        <5>2. CASE Stops[target + 1] <= f.place
          <6>1. Stops[target + 1] <= a
            BY <5>2, <3>3, <1>0, <2>1, RoadOK
          <6> QED BY <6>1, <2>1, EarnedTo
        <5> QED BY <5>1, <5>2, <3>1
      <4>2. CASE next = target
        BY <4>1, <4>2
      <4>3. CASE next # target
        <5>1. next - 1 \in target .. next - 1 /\ next - 1 \in Indices
          BY <4>3, <2>1, <2>2, RoadOK DEF Indices
        <5>2. target # 0
          BY <4>3 DEF next
        <5>3. ReachedStop(next - 1, f, p)
          BY <5>1, <5>2, <2>2 DEF Run, Consumable
        <5>4. Stops[(next - 1) + 1] <= a
          <6>1. Stops[(next - 1) + 1] <= f.place
            BY <5>1, <5>3, <2>12, ReachedCame
          <6>2. Stops[(next - 1) + 1] \in Int
            BY <5>1, RoadOK
          <6> QED BY <6>1, <6>2, <3>3, <1>0
        <5>5. Earned((next - 1) + 1, a)
          BY <5>1, <5>4, EarnedTo
        <5>6. (next - 1) + 1 = next
          BY <2>2, RoadOK
        <5> QED BY <5>5, <5>6
      <4> QED BY <4>2, <4>3
    <3>4. completes => f.place = Stops[Terminus + 1]
      BY <2>6, <2>12, <1>1, OneWayOK
    <3> QED BY <3>2, <3>3, <3>4, <2>8, <2>10
  <2> QED BY <2>8, <2>9, <2>10, <2>11, <2>12 DEF ReductionOK
<1> QED BY <1>2, <1>3

LEMMA ProgressOK ==
    ASSUME NEW f \in Fix, NEW p \in Fix, NEW l \in LiveStage, NEW gap \in Int, NEW leaving \in BOOLEAN
    PROVE  ReductionOK(Progress(f, p, l, gap, leaving), f, p, l.index)
<1> DEFINE base == IF leaving THEN Larger(1, l.index) ELSE l.index
           limit == IF leaving THEN Terminus - 1 ELSE Terminus
           elapsed == IF gap = NoGap THEN 0 ELSE f.time - gap
           target == IF base = 0 THEN 0
                     ELSE IF gap # NoGap THEN AfterGap(base, f, p, elapsed, limit)
                     ELSE PastMissed(base, f, p, limit)
           anchored == IF gap # NoGap /\ base > 0 /\ StillThere(base, f, elapsed, limit) THEN f.time ELSE gap
           r == Progress(f, p, l, gap, leaving)
<1>1. l.index \in Indices /\ f.time \in Int /\ f.place \in Int /\ p.place \in Int
  BY DEF LiveStage, Fix
<1>2. base \in Indices /\ limit \in Indices /\ (base = l.index \/ base = 1)
  BY <1>1, RoadOK DEF Indices, Larger
<1>3. anchored \in Int
  BY <1>1
<1>4. r = Advance(f, p, l, gap, leaving, base, target, anchored)
  BY DEF Progress
<1> HIDE DEF base, limit, elapsed, anchored
<1>5. TargetOK(0, 0, f, p)
  BY RoadOK DEF TargetOK, Indices
<1>6. TargetOK(target, base, f, p) /\ (base = 0 => target = 0)
  BY <1>2, <1>5, AfterGapOK, PastMissedOK
<1> HIDE DEF target
<1>7. ReductionOK(r, f, p, base)
  BY <1>2, <1>3, <1>4, <1>6, AdvanceOK
<1>8. ASSUME OneWay, 0 <= p.place, p.place <= f.place, NEW a \in Int, f.place <= a, Earned(l.index, a)
      PROVE  Earned(base, a)
  <2>1. Earned(1, a)
    BY <1>8, <1>1, RoadOK, RouteAssumption DEF Earned, Indices
  <2> QED BY <2>1, <1>8, <1>2
<1> HIDE DEF r
<1>9. ReductionOK(r, f, p, l.index)
  BY <1>7, <1>8 DEF ReductionOK
<1> QED BY <1>9 DEF r

LEMMA ReduceOK ==
    ASSUME NEW f \in Fix, NEW p \in Fix, NEW l \in LiveStage, StageOK(l), l.phase # "completed"
    PROVE  ReductionOK(Reduce(f, p, l), f, p, l.index)
<1> DEFINE prior == IF l.gap = NoGap /\ p = NoFix /\ l.phase = "in_service" THEN f.time ELSE l.gap
           stale == clock - f.time > StaleAfter
           gap == IF prior # NoGap \/ stale THEN prior ELSE DetectedGap(f, p)
           away == f.place # Spot(0)
           inService == [l EXCEPT !.departed = @ \/ (l.phase = "in_service" /\ away)]
           kept == [l EXCEPT !.arrival = NoArrival]
           r == Reduce(f, p, l)
<1>1. l.gap \in Int /\ f.time \in Int /\ p.time \in Int /\ NoGap \in Int /\ NoArrival \in Arrival
  BY DEF LiveStage, Fix, NoGap, NoArrival, Arrival
<1>2. gap \in Int
  BY <1>1 DEF DetectedGap
<1>3. inService \in LiveStage /\ inService.index = l.index
  BY DEF LiveStage
<1>4. kept \in LiveStage /\ kept.index = l.index /\ kept.phase = l.phase
  BY <1>1 DEF LiveStage
<1>5. \/ r = Reduction(kept, gap, {}, {})
      \/ r = Progress(f, p, inService, gap, l.phase = "pre_departure" \/ (l.index = 0 /\ inService.departed))
  BY DEF Reduce
<1> HIDE DEF gap, inService, kept, r
<1>6. CASE r = Reduction(kept, gap, {}, {})
  <2>1. r = [live |-> [kept EXCEPT !.gap = gap], skipped |-> {}, missed |-> {}]
    BY <1>6 DEF Reduction
  <2>2. r.live \in LiveStage /\ r.live.index = l.index /\ r.live.phase = l.phase
    BY <2>1, <1>2, <1>4, GapSet
  <2>3. r.skipped = {} /\ r.missed = {}
    BY <2>1
  <2> QED BY <2>2, <2>3 DEF ReductionOK, StageOK, r
<1>7. CASE r = Progress(f, p, inService, gap, l.phase = "pre_departure" \/ (l.index = 0 /\ inService.departed))
  <2>1. (l.phase = "pre_departure" \/ (l.index = 0 /\ inService.departed)) \in BOOLEAN
    BY <1>3 DEF LiveStage
  <2> QED BY <1>2, <1>3, <1>7, <2>1, ProgressOK DEF r
<1> QED BY <1>5, <1>6, <1>7

\* A fix that is not newer than the last leaves the stage.
LEMMA UnreducedOK ==
    ASSUME NEW f \in Fix, NEW p \in Fix, NEW l \in LiveStage, StageOK(l), l.phase # "completed"
    PROVE  ReductionOK([live |-> l, skipped |-> {}, missed |-> {}], f, p, l.index)
  BY DEF ReductionOK

-----------------------------------------------------------------------------
Event == [fix : Fix, live : LiveStage]
Unconfirmed == {"skipped_gnss_gap", "passed_unobserved"}

StopTypeOK ==
    /\ at \in Int /\ clock \in Int
    /\ sample \in Fix /\ lastFix \in Fix /\ events \in Seq(Event)
    /\ shownStage \in LiveStage /\ savedStage \in SavedStage

StagesOK ==
    /\ StageOK(savedStage) /\ StageOK(shownStage)
    /\ \A k \in DOMAIN events : StageOK(events[k].live)
    /\ savedStage.phase = "completed" => \A i \in Indices : savedStage.history[i] # "none"
    /\ shownStage.index <= savedStage.index

\* What may become of the checkpoint and its history in one step.
DurableOnward ==
    /\ savedStage'.index >= savedStage.index
    /\ savedStage.phase # "pre_departure" => savedStage'.phase # "pre_departure"
    /\ savedStage.departed => savedStage'.departed
    /\ \A i \in Indices : savedStage.history[i] # "none" => savedStage'.history[i] = savedStage.history[i]
    /\ savedStage.phase = "completed" => savedStage' = savedStage

LEMMA CheckpointOK ==
    ASSUME NEW f \in Fix, NEW l \in LiveStage, StageOK(l), NEW shown, NEW skipped, NEW missed,
           savedStage \in SavedStage, StageOK(savedStage), savedStage.phase # "completed"
    PROVE  LET s == Checkpointed(f, l, shown, skipped, missed)
           IN  /\ s \in SavedStage /\ StageOK(s)
               /\ s.index = Larger(l.index, savedStage.index) /\ s.index >= savedStage.index
               /\ s.index >= l.index
               /\ s.phase = IF l.phase = "pre_departure" THEN savedStage.phase ELSE l.phase
               /\ savedStage.departed => s.departed
               /\ \A i \in Indices :
                    /\ savedStage.history[i] # "none" => s.history[i] = savedStage.history[i]
                    /\ s.history[i] \in Unconfirmed => savedStage.history[i] \in Unconfirmed \/ i \in skipped \cup missed
                    /\ s.phase = "completed" => s.history[i] # "none"
                    /\ s.phase # "pre_departure" /\ i <= s.index - 1 => s.history[i] # "none"
<1> DEFINE c == [l EXCEPT !.phase = IF @ = "pre_departure" THEN savedStage.phase ELSE @,
                          !.index = Larger(@, savedStage.index),
                          !.departed = @ \/ savedStage.departed,
                          !.arrival = IF savedStage.arrival.last > f.time THEN savedStage.arrival ELSE @]
           h == History(savedStage.history, c, shown, skipped, missed)
           s == Checkpointed(f, l, shown, skipped, missed)
<1>1. /\ c.phase = IF l.phase = "pre_departure" THEN savedStage.phase ELSE l.phase
      /\ c.index = Larger(l.index, savedStage.index)
      /\ c.departed = (l.departed \/ savedStage.departed)
      /\ c.arrival \in Arrival
  BY DEF LiveStage, SavedStage
<1>2. s = [savedStage EXCEPT !.phase = c.phase, !.index = c.index, !.departed = c.departed,
                             !.arrival = c.arrival, !.history = h]
  BY DEF Checkpointed
<1>3. /\ c.phase \in Phases /\ c.index \in Indices /\ c.departed \in BOOLEAN
      /\ c.index >= savedStage.index /\ c.index >= l.index
      /\ l.index \in Indices /\ savedStage.index \in Indices
  BY <1>1, RoadOK DEF LiveStage, SavedStage, Larger
<1>4. (c.index >= 1 => c.phase # "pre_departure") /\ (c.phase = "completed" => c.index = Terminus)
  BY <1>1, <1>3, RoadOK DEF StageOK, Larger, Phases, LiveStage, SavedStage, Indices
<1> DEFINE reached == IF c.phase = "completed" THEN Terminus ELSE Larger(0, c.index - 1)
<1>5. h = [i \in Indices |->
             IF savedStage.history[i] # "none" \/ c.phase = "pre_departure" \/ i > reached
             THEN savedStage.history[i]
             ELSE IF i \in skipped THEN "skipped_gnss_gap"
             ELSE IF i \in missed THEN "passed_unobserved"
             ELSE IF i < shown THEN "recovered_checkpoint" ELSE "gnss_progress"]
  BY DEF History
<1> HIDE DEF c, h, s
<1>6. \A i \in Indices : savedStage.history[i] \in Marks
  BY DEF SavedStage
<1>7. /\ h \in [Indices -> Marks]
      /\ \A i \in Indices :
           /\ savedStage.history[i] # "none" => h[i] = savedStage.history[i]
           /\ h[i] \in Unconfirmed => savedStage.history[i] \in Unconfirmed \/ i \in skipped \cup missed
  BY <1>5, <1>6 DEF Marks, Unconfirmed
<1>8. ASSUME NEW i \in Indices, c.phase = "completed" \/ (c.phase # "pre_departure" /\ i <= c.index - 1)
      PROVE  h[i] # "none"
  <2>1. ~(i > reached) /\ c.phase # "pre_departure"
    BY <1>3, <1>8, RoadOK DEF Indices, Larger
  <2> QED BY <2>1, <1>5
<1>9. /\ s \in SavedStage /\ s.phase = c.phase /\ s.index = c.index /\ s.departed = c.departed /\ s.history = h
  BY <1>1, <1>2, <1>3, <1>7 DEF SavedStage
<1>10. StageOK(s)
  BY <1>4, <1>9 DEF StageOK
<1>11. savedStage.departed => s.departed
  BY <1>1, <1>9
<1>12. \A i \in Indices :
          /\ savedStage.history[i] # "none" => s.history[i] = savedStage.history[i]
          /\ s.history[i] \in Unconfirmed => savedStage.history[i] \in Unconfirmed \/ i \in skipped \cup missed
          /\ s.phase = "completed" => s.history[i] # "none"
          /\ s.phase # "pre_departure" /\ i <= s.index - 1 => s.history[i] # "none"
  BY <1>7, <1>8, <1>9
<1> QED BY <1>1, <1>3, <1>9, <1>10, <1>11, <1>12 DEF s

VisitedOK(v, f, index) ==
    \/ v \in {-1, 0, Terminus}
    \/ index >= 1 /\ v = index - 1 /\ f.place = Spot(v)

LEMMA VisitedStop ==
    ASSUME NEW f, NEW l \in LiveStage
    PROVE  VisitedOK(Visited(f, l), f, l.index) /\ Visited(f, l) \in Int
  BY RoadOK DEF VisitedOK, Visited, LiveStage, Indices

\* The writes of one event: nothing of a ride that is over, and of the others the
\* checkpoint, with what the live record then shows of it.
LEMMA WriteOK ==
    ASSUME NEW outcome, NEW item \in Event, NEW r, NEW p,
           StopTypeOK, StagesOK, StageOK(item.live), Write(outcome, item, r),
           item.live.phase # "completed" => ReductionOK(r, item.fix, p, item.live.index)
    PROVE  /\ lastFix' = lastFix \/ lastFix' = item.fix
           /\ \/ savedStage' = savedStage
              \/ /\ item.live.phase # "completed" /\ savedStage.phase # "completed"
                 /\ savedStage' = Checkpointed(item.fix, r.live, item.live.index, r.skipped, r.missed)
           /\ \/ shownStage' = shownStage
              \/ /\ item.live.phase # "completed"
                 /\ shownStage' \in LiveStage
                 /\ IF savedStage.phase = "completed"
                    THEN shownStage'.phase = r.live.phase /\ shownStage'.index = r.live.index
                    ELSE /\ savedStage' = Checkpointed(item.fix, r.live, item.live.index, r.skipped, r.missed)
                         /\ shownStage'.phase = savedStage'.phase /\ shownStage'.index = savedStage'.index
                 /\ VisitedOK(shownStage'.atStop, item.fix, shownStage'.index)
<1> DEFINE f == item.fix
           over == savedStage.phase = "completed"
           checkpoint == Checkpointed(f, r.live, item.live.index, r.skipped, r.missed)
           saved == IF over THEN savedStage ELSE checkpoint
           stage == IF over THEN r.live ELSE saved
           l == [r.live EXCEPT !.phase = stage.phase, !.index = stage.index,
                               !.departed = stage.departed, !.arrival = stage.arrival,
                               !.unobserved = {i \in @ \cup r.skipped \cup r.missed : i < stage.index}]
           seen == [l EXCEPT !.atStop = Visited(f, l)]
<1>1. /\ savedStage' = savedStage \/ (item.live.phase # "completed" /\ savedStage' = saved)
      /\ shownStage' = shownStage
         \/ (item.live.phase # "completed" /\ savedStage' = saved /\ shownStage' = seen)
      /\ lastFix' = lastFix \/ lastFix' = f
  BY DEF Write
<1>2. f \in Fix
  BY DEF Event
<1>3. CASE item.live.phase = "completed"
  BY <1>1, <1>3
<1>4. CASE item.live.phase # "completed"
  <2>1. r.live \in LiveStage /\ StageOK(r.live) /\ r.skipped \cup r.missed \subseteq Int
    BY <1>4, RoadOK DEF ReductionOK
  <2>2. over \/ checkpoint \in SavedStage
    BY <1>2, <2>1, CheckpointOK DEF StopTypeOK, StagesOK
  <2>3. stage.phase \in Phases /\ stage.index \in Indices /\ stage.departed \in BOOLEAN /\ stage.arrival \in Arrival
    BY <2>1, <2>2 DEF LiveStage, SavedStage
  <2> DEFINE clear == {i \in r.live.unobserved \cup r.skipped \cup r.missed : i < stage.index}
  <2>4. clear \subseteq Int
    BY <2>1 DEF LiveStage
  <2>5. l = [r.live EXCEPT !.phase = stage.phase, !.index = stage.index, !.departed = stage.departed,
                           !.arrival = stage.arrival, !.unobserved = clear]
    BY <2>1 DEF LiveStage
  <2> HIDE DEF clear, l, checkpoint, stage
  <2>6. l \in LiveStage /\ l.phase = stage.phase /\ l.index = stage.index
    BY <2>1, <2>3, <2>4, <2>5 DEF LiveStage
  <2>7. VisitedOK(Visited(f, l), f, l.index) /\ Visited(f, l) \in Int
    BY <2>6, VisitedStop
  <2>8. /\ seen \in LiveStage /\ seen.phase = stage.phase /\ seen.index = stage.index
        /\ VisitedOK(seen.atStop, f, seen.index)
    BY <2>6, <2>7 DEF LiveStage
  <2> HIDE DEF seen
  <2>9. IF over THEN stage = r.live ELSE stage = checkpoint
    BY DEF stage
  <2> QED BY <1>1, <1>4, <2>8, <2>9 DEF checkpoint
<1> QED BY <1>3, <1>4

LEMMA StagesStart == StopInit => StopTypeOK /\ StagesOK
<1> SUFFICES ASSUME StopInit PROVE StopTypeOK /\ StagesOK
  OBVIOUS
<1>1. NoFix \in Fix /\ NoArrival \in Arrival /\ sample \in Fix
  BY DEF NoFix, NoArrival, Fix, Arrival, Motions, StopInit
<1>2. Untold \in LiveStage /\ StageOK(Untold)
  BY <1>1, RoadOK DEF Untold, LiveStage, StageOK, Phases, NoGap, Indices
<1>3. savedStage \in SavedStage /\ StageOK(savedStage) /\ savedStage.index = 0 /\ savedStage.phase = "pre_departure"
  BY <1>1, RoadOK DEF StopInit, SavedStage, StageOK, Phases, Marks, Indices
<1>4. [fix |-> sample, live |-> shownStage] \in Event /\ StageOK([fix |-> sample, live |-> shownStage].live)
  BY <1>1, <1>2 DEF Event, StopInit
<1> DEFINE e == [fix |-> sample, live |-> shownStage]
<1>5. events = <<e>>
  BY DEF StopInit
<1> HIDE DEF e
<1>6. events \in Seq(Event) /\ \A k \in DOMAIN events : events[k] = e
  BY <1>4, <1>5 DEF e
<1>7. \A k \in DOMAIN events : StageOK(events[k].live)
  BY <1>4, <1>6 DEF e
<1>8. StopTypeOK
  BY <1>1, <1>2, <1>3, <1>6 DEF StopTypeOK, StopInit
<1>9. shownStage.index <= savedStage.index
  BY <1>3 DEF StopInit, Untold
<1> QED BY <1>2, <1>3, <1>7, <1>8, <1>9 DEF StagesOK, StopInit

\* The event whose turn it is, and what becomes of its fix.
Taken == IF Head(events) = Replayed THEN [fix |-> sample, live |-> shownStage] ELSE Head(events)
Reduced == IF Taken.fix.time > lastFix.time THEN Reduce(Taken.fix, lastFix, Taken.live)
           ELSE [live |-> Taken.live, skipped |-> {}, missed |-> {}]

LEMMA TakenOK ==
    ASSUME StopTypeOK, StagesOK, events # <<>>
    PROVE  /\ Taken \in Event /\ StageOK(Taken.live)
           /\ Taken.live.phase # "completed" => ReductionOK(Reduced, Taken.fix, lastFix, Taken.live.index)
<1>1. Head(events) \in Event /\ Head(events) = events[1] /\ 1 \in DOMAIN events
  BY DEF StopTypeOK
<1>2. [fix |-> sample, live |-> shownStage] \in Event
  BY DEF StopTypeOK, Event
<1>3. Taken \in Event /\ StageOK(Taken.live)
  BY <1>1, <1>2 DEF Taken, StagesOK
<1>4. Taken.fix \in Fix /\ Taken.live \in LiveStage /\ lastFix \in Fix
  BY <1>3 DEF Event, StopTypeOK
<1>5. Taken.live.phase # "completed" => ReductionOK(Reduced, Taken.fix, lastFix, Taken.live.index)
  BY <1>3, <1>4, ReduceOK, UnreducedOK DEF Reduced
<1> QED BY <1>3, <1>5

LEMMA HeartbeatStages ==
    ASSUME StopTypeOK, StagesOK, NEW step \in 0 .. Pace,
           NEW motion \in {"lost", "uncertain", "moving", "stopped"}, Heartbeat(step, motion)
    PROVE  StopTypeOK' /\ StagesOK'
<1>1. /\ clock' = clock + 1 /\ at' = at + step
      /\ UNCHANGED <<shownStage, savedStage, lastFix>>
  BY DEF Heartbeat
<1>2. clock' \in Int /\ at' \in Int
  BY <1>1 DEF StopTypeOK
<1>3. CASE motion = "lost"
  <2>1. UNCHANGED <<sample, events>>
    BY <1>3 DEF Heartbeat
  <2> QED BY <1>1, <1>2, <2>1 DEF StopTypeOK, StagesOK
<1>4. CASE motion # "lost"
  <2> DEFINE e == [fix |-> sample', live |-> shownStage]
  <2>1. sample' = [time |-> clock', place |-> PlaceOf(at'), motion |-> motion] /\ events' = Append(events, e)
    BY <1>4 DEF Heartbeat
  <2>2. PlaceOf(at') \in Int
    BY <1>2, RouteAssumption DEF PlaceOf
  <2>3. sample' \in Fix
    BY <1>2, <1>4, <2>1, <2>2 DEF Fix, Motions
  <2>4. e \in Event /\ e.live = shownStage
    BY <2>3 DEF Event, StopTypeOK
  <2> HIDE DEF e
  <2>5. /\ events' \in Seq(Event)
        /\ \A k \in DOMAIN events' : events'[k] = e \/ (k \in DOMAIN events /\ events'[k] = events[k])
    BY <2>1, <2>4 DEF StopTypeOK
  <2>6. \A k \in DOMAIN events' : StageOK(events'[k].live)
    BY <2>4, <2>5 DEF StagesOK
  <2> QED BY <1>1, <1>2, <2>3, <2>5, <2>6 DEF StopTypeOK, StagesOK
<1> QED BY <1>3, <1>4

LEMMA HandleStages ==
    ASSUME StopTypeOK, StagesOK, NEW outcome \in {"done", "not_saved", "not_shown"}, HandleEvent(outcome)
    PROVE  StopTypeOK' /\ StagesOK' /\ DurableOnward
<1>1. /\ events # <<>> /\ Write(outcome, Taken, Reduced)
      /\ events' = IF outcome = "done" THEN Tail(events) ELSE Append(Tail(events), Replayed)
      /\ UNCHANGED <<at, clock, sample>>
  BY DEF HandleEvent, Taken, Reduced
<1> DEFINE c == Checkpointed(Taken.fix, Reduced.live, Taken.live.index, Reduced.skipped, Reduced.missed)
           open == Taken.live.phase # "completed"
<1>2. /\ Taken \in Event /\ StageOK(Taken.live)
      /\ open => ReductionOK(Reduced, Taken.fix, lastFix, Taken.live.index)
  BY <1>1, TakenOK
<1>3. Taken.fix \in Fix
  BY <1>2 DEF Event
<1>4. /\ lastFix' = lastFix \/ lastFix' = Taken.fix
      /\ \/ savedStage' = savedStage
         \/ open /\ savedStage.phase # "completed" /\ savedStage' = c
      /\ \/ shownStage' = shownStage
         \/ /\ open
            /\ shownStage' \in LiveStage
            /\ IF savedStage.phase = "completed"
               THEN shownStage'.phase = Reduced.live.phase /\ shownStage'.index = Reduced.live.index
               ELSE /\ savedStage' = c
                    /\ shownStage'.phase = savedStage'.phase /\ shownStage'.index = savedStage'.index
  BY <1>1, <1>2, WriteOK
<1>5. open => Reduced.live \in LiveStage /\ StageOK(Reduced.live)
  BY <1>2 DEF ReductionOK
<1>6. open /\ savedStage.phase # "completed" =>
        /\ c \in SavedStage /\ StageOK(c) /\ c.index >= savedStage.index
        /\ c.phase = IF Reduced.live.phase = "pre_departure" THEN savedStage.phase ELSE Reduced.live.phase
        /\ savedStage.departed => c.departed
        /\ \A i \in Indices :
             /\ savedStage.history[i] # "none" => c.history[i] = savedStage.history[i]
             /\ c.phase = "completed" => c.history[i] # "none"
  BY <1>3, <1>5, CheckpointOK DEF StopTypeOK, StagesOK
<1> HIDE DEF c, open
<1>7. shownStage.index \in Int /\ savedStage.index \in Int /\ savedStage.index >= savedStage.index
  <2>1. shownStage.index \in Indices /\ savedStage.index \in Indices
    BY DEF StopTypeOK, LiveStage, SavedStage
  <2> QED BY <2>1 DEF Indices
<1>8. DurableOnward
  BY <1>4, <1>6, <1>7 DEF DurableOnward
<1>9. savedStage' \in SavedStage /\ StageOK(savedStage')
  BY <1>4, <1>6 DEF StopTypeOK, StagesOK
<1>10. savedStage'.phase = "completed" => \A i \in Indices : savedStage'.history[i] # "none"
  BY <1>4, <1>6 DEF StagesOK
<1>11. shownStage' \in LiveStage /\ StageOK(shownStage')
  BY <1>4, <1>5, <1>9 DEF StopTypeOK, StagesOK, StageOK
<1>12. shownStage'.index <= savedStage'.index
  <2>1. savedStage'.index \in Int /\ savedStage'.index >= savedStage.index
    <3>1. savedStage'.index \in Indices
      BY <1>9 DEF SavedStage
    <3> QED BY <3>1, <1>8 DEF DurableOnward, Indices
  <2>2. CASE shownStage' = shownStage
    BY <1>7, <2>1, <2>2 DEF StagesOK
  <2>3. CASE shownStage'.index = savedStage'.index
    BY <2>1, <2>3
  <2>4. CASE open /\ savedStage.phase = "completed" /\ shownStage'.index = Reduced.live.index
    <3>1. savedStage.index = Terminus /\ Reduced.live.index \in Indices
      BY <1>5, <2>4 DEF StagesOK, StageOK, LiveStage
    <3> QED BY <2>1, <2>4, <3>1, RoadOK DEF Indices
  <2> QED BY <1>4, <2>2, <2>3, <2>4
<1>13. Replayed \in Event /\ StageOK(Replayed.live)
  BY RoadOK DEF Replayed, Event, NoFix, Fix, Motions, Untold, LiveStage, StageOK, Phases,
                NoGap, NoArrival, Arrival, Indices
<1>14. /\ events' \in Seq(Event)
       /\ \A k \in DOMAIN events' :
            events'[k] = Replayed \/ (k + 1 \in DOMAIN events /\ events'[k] = events[k + 1])
  BY <1>1, <1>13 DEF StopTypeOK
<1>15. \A k \in DOMAIN events' : StageOK(events'[k].live)
  BY <1>13, <1>14 DEF StagesOK
<1>16. lastFix' \in Fix
  BY <1>3, <1>4 DEF StopTypeOK
<1>17. StopTypeOK'
  BY <1>1, <1>9, <1>11, <1>14, <1>16 DEF StopTypeOK
<1> QED BY <1>8, <1>9, <1>10, <1>11, <1>12, <1>15, <1>17 DEF StagesOK

LEMMA StagesStep ==
    StopTypeOK /\ StagesOK /\ [StopNext]_stopVars =>
        StopTypeOK' /\ StagesOK' /\ (DurableOnward \/ savedStage' = savedStage)
<1> SUFFICES ASSUME StopTypeOK, StagesOK, [StopNext]_stopVars
             PROVE  StopTypeOK' /\ StagesOK' /\ (DurableOnward \/ savedStage' = savedStage)
  OBVIOUS
<1>1. CASE UNCHANGED stopVars
  BY <1>1 DEF stopVars, StopTypeOK, StagesOK
<1>2. CASE \E step \in 0 .. Pace, motion \in {"lost", "uncertain", "moving", "stopped"} :
              Heartbeat(step, motion)
  <2>1. PICK step \in 0 .. Pace, motion \in {"lost", "uncertain", "moving", "stopped"} :
           Heartbeat(step, motion)
    BY <1>2
  <2>2. savedStage' = savedStage
    BY <2>1 DEF Heartbeat
  <2> QED BY <2>1, <2>2, HeartbeatStages
<1>3. CASE \E outcome \in {"done", "not_saved", "not_shown"} : HandleEvent(outcome)
  BY <1>3, HandleStages
<1>4. CASE RestartEngine
  <2>1. /\ lastFix' = NoFix /\ events' = <<Replayed>>
        /\ UNCHANGED <<at, clock, sample, shownStage, savedStage>>
    BY <1>4 DEF RestartEngine
  <2>2. NoFix \in Fix /\ Replayed \in Event /\ StageOK(Replayed.live)
    BY RoadOK DEF Replayed, Event, NoFix, Fix, Motions, Untold, LiveStage, StageOK, Phases,
                  NoGap, NoArrival, Arrival, Indices
  <2>3. events' \in Seq(Event) /\ \A k \in DOMAIN events' : events'[k] = Replayed
    BY <2>1, <2>2
  <2> QED BY <2>1, <2>2, <2>3 DEF StopTypeOK, StagesOK
<1> QED BY <1>1, <1>2, <1>3, <1>4 DEF StopNext

-----------------------------------------------------------------------------
Heard(x) == 0 <= x.time /\ x.time <= clock /\ 0 <= x.place /\ x.place <= at
Fixes == {sample, lastFix} \cup {events[k].fix : k \in DOMAIN events}

\* On a road that never turns back a later fix is further along.
Timeline ==
    /\ 0 <= clock /\ 0 <= at /\ at <= Stops[Terminus + 1]
    /\ Heard(sample) /\ \A x \in Fixes : x = NoFix \/ Heard(x)
    /\ \A k \in DOMAIN events : events[k].fix = NoFix => events[k] = Replayed
    /\ \A x, y \in Fixes : x.time <= y.time => x.place <= y.place

StageEarned(l) == Earned(l.index, at) /\ (l.phase = "completed" => at = Stops[Terminus + 1])
AllEarned ==
    /\ StageEarned(shownStage) /\ StageEarned(savedStage)
    /\ \A k \in DOMAIN events : StageEarned(events[k].live)

LEMMA FixesTyped == StopTypeOK => Fixes \subseteq Fix
<1> SUFFICES ASSUME StopTypeOK PROVE Fixes \subseteq Fix
  OBVIOUS
<1>1. \A k \in DOMAIN events : events[k] \in Event
  BY DEF StopTypeOK
<1>2. \A k \in DOMAIN events : events[k].fix \in Fix
  BY <1>1 DEF Event
<1> QED BY <1>2 DEF Fixes, StopTypeOK

\* Nothing is heard and the queue only shrinks or asks for a replay.
LEMMA TimelineStays ==
    ASSUME StopTypeOK, Timeline, UNCHANGED <<at, clock, sample>>,
           lastFix' = NoFix \/ lastFix' \in Fixes,
           \A k \in DOMAIN events' : events'[k] = Replayed \/ \E m \in DOMAIN events : events'[k] = events[m]
    PROVE  Timeline'
<1>1. Fixes' \subseteq Fixes \cup {NoFix} /\ Replayed.fix = NoFix
  BY DEF Fixes, Replayed
<1>2. \A k \in DOMAIN events' : events'[k].fix = NoFix => events'[k] = Replayed
  BY DEF Timeline
<1>3. Fixes \subseteq Fix /\ NoFix.time = -1 /\ NoFix.place = 0
  BY FixesTyped DEF NoFix
<1>4. \A x \in Fixes \cup {NoFix} : x = NoFix \/ Heard(x)
  BY DEF Timeline
<1>5. ASSUME NEW x \in Fixes \cup {NoFix}, NEW y \in Fixes \cup {NoFix}, x.time <= y.time
      PROVE  x.place <= y.place
  <2>1. CASE x \in Fixes /\ y \in Fixes
    BY <2>1, <1>5 DEF Timeline
  <2>2. CASE x = NoFix
    BY <2>2, <1>3, <1>4 DEF Heard
  <2>3. CASE y = NoFix /\ x \in Fixes
    <3>1. x.time \in Int /\ x.time <= -1
      BY <2>3, <1>3, <1>5 DEF Fix
    <3>2. x = NoFix
      BY <2>3, <3>1, <1>4 DEF Heard
    <3> QED BY <2>3, <3>2, <1>3
  <2> QED BY <2>1, <2>2, <2>3, <1>5
<1>6. \A x : Heard(x) => Heard(x)'
  BY DEF Heard
<1>7. \A x \in Fixes' : x = NoFix \/ (0 <= x.time /\ x.time <= clock' /\ 0 <= x.place /\ x.place <= at')
  BY <1>1, <1>4 DEF Heard
<1> QED BY <1>1, <1>2, <1>5, <1>7 DEF Timeline, Heard

LEMMA TimelineHeard ==
    ASSUME OneWay, StopTypeOK, Timeline, NEW step \in 0 .. Pace,
           NEW motion \in {"lost", "uncertain", "moving", "stopped"}, Heartbeat(step, motion)
    PROVE  /\ Timeline' /\ at' >= at
           /\ sample' # sample => sample'.place = at' /\ sample'.time = clock'
<1>1. /\ clock' = clock + 1 /\ at' = at + step /\ at' <= Stops[Terminus + 1]
      /\ UNCHANGED lastFix /\ at' \in Int /\ clock' \in Int /\ at' >= at /\ at' >= 0 /\ clock' >= 0
  BY DEF Heartbeat, StopTypeOK, Timeline
<1>2. Fixes \subseteq Fix /\ sample \in Fixes /\ at \in Int /\ clock \in Int
  BY FixesTyped DEF Fixes, StopTypeOK
<1>3. \A x \in Fix : Heard(x) => 0 <= x.time /\ x.time < clock' /\ x.time <= clock' /\ 0 <= x.place /\ x.place <= at'
  <2> SUFFICES ASSUME NEW x \in Fix, Heard(x)
               PROVE  0 <= x.time /\ x.time < clock' /\ x.time <= clock' /\ 0 <= x.place /\ x.place <= at'
    OBVIOUS
  <2>1. x.time \in Int /\ x.place \in Int
    BY DEF Fix
  <2> QED BY <2>1, <1>1, <1>2 DEF Heard
<1>4. CASE motion = "lost"
  <2>1. UNCHANGED <<sample, events>>
    BY <1>4 DEF Heartbeat
  <2>2. Fixes' = Fixes
    BY <1>1, <2>1 DEF Fixes
  <2> QED BY <1>1, <1>2, <1>3, <2>1, <2>2 DEF Timeline, Heard
<1>5. CASE motion # "lost"
  <2> DEFINE e == [fix |-> sample', live |-> shownStage]
  <2>1. sample' = [time |-> clock', place |-> PlaceOf(at'), motion |-> motion] /\ events' = Append(events, e)
    BY <1>5 DEF Heartbeat
  <2>2. PlaceOf(at') = at'
    <3>1. Stops[Terminus + 1] \in Int /\ Turn \in Int
      BY RoadOK, RouteAssumption DEF Indices
    <3>2. at' <= Turn
      BY <3>1, <1>1 DEF OneWay
    <3> QED BY <3>2 DEF PlaceOf
  <2>3. sample'.time = clock' /\ sample'.place = at'
    BY <2>1, <2>2
  <2> HIDE DEF e
  <2>4. \A k \in DOMAIN events' : events'[k] = e \/ (k \in DOMAIN events /\ events'[k] = events[k])
    BY <2>1 DEF StopTypeOK
  <2>5. Fixes' \subseteq Fixes \cup {sample'}
    BY <1>1, <2>4 DEF Fixes, e
  <2>6. sample' # NoFix
    BY <1>1, <2>3 DEF NoFix
  <2>7. \A k \in DOMAIN events' : events'[k].fix = NoFix => events'[k] = Replayed
    BY <2>4, <2>6 DEF e, Timeline
  <2>8. NoFix.time = -1 /\ NoFix.place = 0
    BY DEF NoFix
  <2>9. \A x \in Fixes : x.time < clock' /\ x.place <= at' /\ x.time \in Int
    BY <1>1, <1>2, <1>3, <2>8 DEF Timeline, Fix
  <2>10. ASSUME NEW x \in Fixes', NEW y \in Fixes', x.time <= y.time
         PROVE  x.place <= y.place
    <3>1. CASE x \in Fixes /\ y \in Fixes
      BY <3>1, <2>10 DEF Timeline
    <3>2. CASE y = sample'
      BY <3>2, <2>3, <2>5, <2>9, <1>1
    <3>3. CASE x = sample' /\ y \in Fixes
      BY <3>3, <2>3, <2>9, <2>10, <1>1
    <3> QED BY <3>1, <3>2, <3>3, <2>5
  <2>11. \A x \in Fixes' : x = NoFix \/ (0 <= x.time /\ x.time <= clock' /\ 0 <= x.place /\ x.place <= at')
    BY <1>1, <1>2, <1>3, <2>3, <2>5 DEF Timeline
  <2>12. sample' \in Fixes'
    BY DEF Fixes
  <2> QED BY <1>1, <2>3, <2>6, <2>7, <2>10, <2>11, <2>12 DEF Timeline, Heard
<1> QED BY <1>4, <1>5

LEMMA TakenEarned ==
    ASSUME OneWay, StopTypeOK, StagesOK, Timeline, AllEarned, events # <<>>
    PROVE  /\ Taken.fix \in Fixes /\ Heard(Taken.fix)
           /\ Taken.live.phase # "completed" =>
                /\ \A i \in Reduced.skipped \cup Reduced.missed : Stops[i + 1] < Taken.fix.place
                /\ StageEarned(Reduced.live)
<1>1. Head(events) = events[1] /\ 1 \in DOMAIN events
  BY DEF StopTypeOK
<1>2. Taken.fix \in Fixes /\ Heard(Taken.fix) /\ StageEarned(Taken.live)
  <2>1. CASE Head(events) = Replayed
    BY <2>1 DEF Taken, Fixes, Timeline, AllEarned
  <2>2. CASE Head(events) # Replayed
    <3>1. Taken = events[1] /\ events[1].fix # NoFix /\ events[1].fix \in Fixes
      BY <1>1, <2>2 DEF Taken, Timeline, Fixes
    <3> QED BY <1>1, <3>1 DEF Timeline, AllEarned
  <2> QED BY <2>1, <2>2
<1>3. lastFix \in Fixes /\ Fixes \subseteq Fix
  BY FixesTyped DEF Fixes
<1>4. lastFix.place >= 0 /\ lastFix.place \in Int /\ lastFix.time \in Int
  BY <1>3 DEF Timeline, Heard, NoFix, Fix
<1>5. Taken.fix.time \in Int /\ Taken.fix.place \in Int /\ at \in Int /\ Taken.fix.place <= at
  BY <1>2, <1>3 DEF Fix, StopTypeOK, Heard
<1>6. CASE Taken.live.phase # "completed" /\ Taken.fix.time > lastFix.time
  <2>1. ReductionOK(Reduced, Taken.fix, lastFix, Taken.live.index)
    BY <1>6, TakenOK
  <2>2. 0 <= lastFix.place /\ lastFix.place <= Taken.fix.place
    BY <1>2, <1>3, <1>4, <1>5, <1>6 DEF Timeline
  <2>3. /\ \A i \in Reduced.skipped \cup Reduced.missed : Stops[i + 1] < Taken.fix.place
        /\ Earned(Reduced.live.index, at)
        /\ Reduced.live.phase = "completed" => Taken.fix.place = Stops[Terminus + 1]
    BY <1>2, <1>5, <2>1, <2>2 DEF ReductionOK, StageEarned
  <2>4. Taken.fix.place = Stops[Terminus + 1] => at = Stops[Terminus + 1]
    BY <1>5 DEF Timeline
  <2> QED BY <1>2, <2>3, <2>4 DEF StageEarned
<1>7. CASE Taken.live.phase # "completed" /\ ~(Taken.fix.time > lastFix.time)
  BY <1>2, <1>7 DEF Reduced
<1> QED BY <1>2, <1>6, <1>7

LEMMA HeartbeatEarned ==
    ASSUME OneWay, StopTypeOK, StagesOK, Timeline, AllEarned, NEW step \in 0 .. Pace,
           NEW motion \in {"lost", "uncertain", "moving", "stopped"}, Heartbeat(step, motion)
    PROVE  Timeline' /\ AllEarned'
<1>1. Timeline' /\ at' >= at /\ at' \in Int /\ at \in Int /\ UNCHANGED <<shownStage, savedStage>>
  BY TimelineHeard, HeartbeatStages DEF StopTypeOK, Heartbeat
<1>2. ASSUME NEW l, StageEarned(l)
      PROVE  /\ \A i \in Indices : i < l.index => Stops[i + 1] <= at'
             /\ l.phase = "completed" => at' = Stops[Terminus + 1]
  <2>1. \A i \in Indices : i < l.index => Stops[i + 1] <= at'
    BY <1>1, <1>2, RoadOK DEF StageEarned, Earned
  <2>2. l.phase = "completed" => at' = Stops[Terminus + 1]
    BY <1>1, <1>2 DEF StageEarned, Timeline
  <2> QED BY <2>1, <2>2
<1>3. \A k \in DOMAIN events' :
         events'[k].live = shownStage \/ (k \in DOMAIN events /\ events'[k] = events[k])
  <2>1. CASE motion = "lost"
    BY <2>1 DEF Heartbeat
  <2>2. CASE motion # "lost"
    BY <2>2 DEF Heartbeat, StopTypeOK
  <2> QED BY <2>1, <2>2
<1>4. StageEarned(shownStage)' /\ StageEarned(savedStage)'
  BY <1>1, <1>2 DEF AllEarned, StageEarned, Earned
<1>5. \A k \in DOMAIN events' : StageEarned(events[k].live)'
  BY <1>2, <1>3 DEF AllEarned, StageEarned, Earned
<1> QED BY <1>1, <1>4, <1>5 DEF AllEarned

LEMMA RestQueue ==
    ASSUME StopTypeOK, NEW outcome, HandleEvent(outcome)
    PROVE  \A k \in DOMAIN events' :
             events'[k] = Replayed \/ (k + 1 \in DOMAIN events /\ events'[k] = events[k + 1])
<1>1. /\ events # <<>> /\ events \in Seq(Event)
      /\ events' = Tail(events) \/ events' = Append(Tail(events), Replayed)
  BY DEF HandleEvent, StopTypeOK
<1> QED BY <1>1

LEMMA HandleEarned ==
    ASSUME OneWay, StopTypeOK, StagesOK, Timeline, AllEarned,
           NEW outcome \in {"done", "not_saved", "not_shown"}, HandleEvent(outcome)
    PROVE  Timeline' /\ AllEarned'
<1>1. events # <<>> /\ Write(outcome, Taken, Reduced) /\ UNCHANGED <<at, clock, sample>>
  BY DEF HandleEvent, Taken, Reduced
<1> DEFINE c == Checkpointed(Taken.fix, Reduced.live, Taken.live.index, Reduced.skipped, Reduced.missed)
           open == Taken.live.phase # "completed"
<1>2. /\ Taken \in Event /\ StageOK(Taken.live)
      /\ open => ReductionOK(Reduced, Taken.fix, lastFix, Taken.live.index)
  BY <1>1, TakenOK
<1>3. /\ Taken.fix \in Fixes /\ Taken.fix \in Fix
      /\ open => StageEarned(Reduced.live)
  BY <1>1, <1>2, TakenEarned, FixesTyped
<1>4. /\ lastFix' = lastFix \/ lastFix' = Taken.fix
      /\ \/ savedStage' = savedStage
         \/ open /\ savedStage.phase # "completed" /\ savedStage' = c
      /\ \/ shownStage' = shownStage
         \/ /\ open
            /\ IF savedStage.phase = "completed"
               THEN shownStage'.phase = Reduced.live.phase /\ shownStage'.index = Reduced.live.index
               ELSE /\ savedStage' = c
                    /\ shownStage'.phase = savedStage'.phase /\ shownStage'.index = savedStage'.index
  BY <1>1, <1>2, WriteOK
<1>5. open => Reduced.live \in LiveStage /\ StageOK(Reduced.live)
  BY <1>2 DEF ReductionOK
<1>6. open /\ savedStage.phase # "completed" =>
        /\ c.index = Larger(Reduced.live.index, savedStage.index)
        /\ c.phase = IF Reduced.live.phase = "pre_departure" THEN savedStage.phase ELSE Reduced.live.phase
  BY <1>3, <1>5, CheckpointOK DEF StopTypeOK, StagesOK
<1> HIDE DEF c, open
<1>7. StageEarned(savedStage')
  <2>1. CASE savedStage' = savedStage
    BY <2>1 DEF AllEarned
  <2>2. CASE open /\ savedStage.phase # "completed" /\ savedStage' = c
    <3>1. Earned(c.index, at)
      BY <1>3, <1>6, <2>2 DEF AllEarned, StageEarned, Larger
    <3>2. c.phase = "completed" => at = Stops[Terminus + 1]
      BY <1>3, <1>6, <2>2 DEF StageEarned
    <3> QED BY <2>2, <3>1, <3>2 DEF StageEarned
  <2> QED BY <1>4, <2>1, <2>2
<1>8. StageEarned(shownStage')
  BY <1>3, <1>4, <1>7 DEF AllEarned, StageEarned
<1>9. StageEarned(Replayed.live)
  BY RoadOK DEF StageEarned, Earned, Replayed, Untold, Indices
<1>10. \A k \in DOMAIN events' :
          events'[k] = Replayed \/ (k + 1 \in DOMAIN events /\ events'[k] = events[k + 1])
  BY RestQueue
<1>11. \A k \in DOMAIN events' : StageEarned(events'[k].live)
  BY <1>9, <1>10 DEF AllEarned
<1>12. Timeline'
  <2>1. lastFix' \in Fixes
    BY <1>3, <1>4 DEF Fixes
  <2> QED BY <1>1, <1>10, <2>1, TimelineStays
<1>13. AllEarned'
  BY <1>1, <1>7, <1>8, <1>11 DEF AllEarned, StageEarned, Earned
<1> QED BY <1>12, <1>13

LEMMA EarnedStops ==
    OneWay /\ StopTypeOK /\ StagesOK /\ Timeline /\ AllEarned /\ [StopNext]_stopVars =>
        Timeline' /\ AllEarned'
<1> SUFFICES ASSUME OneWay, StopTypeOK, StagesOK, Timeline, AllEarned, [StopNext]_stopVars
             PROVE  Timeline' /\ AllEarned'
  OBVIOUS
<1>1. CASE UNCHANGED stopVars
  BY <1>1 DEF stopVars, Timeline, Heard, Fixes, AllEarned, StageEarned, Earned
<1>2. CASE \E step \in 0 .. Pace, motion \in {"lost", "uncertain", "moving", "stopped"} :
              Heartbeat(step, motion)
  BY <1>2, HeartbeatEarned
<1>3. CASE \E outcome \in {"done", "not_saved", "not_shown"} : HandleEvent(outcome)
  BY <1>3, HandleEarned
<1>4. CASE RestartEngine
  <2>1. /\ lastFix' = NoFix /\ events' = <<Replayed>>
        /\ UNCHANGED <<at, clock, sample, shownStage, savedStage>>
    BY <1>4 DEF RestartEngine
  <2>2. \A k \in DOMAIN events' : events'[k] = Replayed
    BY <2>1
  <2>3. Timeline'
    BY <2>1, <2>2, TimelineStays
  <2>4. StageEarned(Replayed.live)
    BY RoadOK DEF StageEarned, Earned, Replayed, Untold, Indices
  <2> QED BY <2>1, <2>2, <2>3, <2>4 DEF AllEarned, StageEarned, Earned
<1> QED BY <1>1, <1>2, <1>3, <1>4 DEF StopNext

LEMMA StopsEarnedStart == StopInit => Timeline /\ AllEarned
<1> SUFFICES ASSUME StopInit PROVE Timeline /\ AllEarned
  OBVIOUS
<1>1. /\ sample.time = 0 /\ sample.place = 0 /\ clock = 0 /\ at = 0 /\ lastFix = NoFix
      /\ shownStage = Untold /\ savedStage.index = 0 /\ savedStage.phase = "pre_departure"
  BY DEF StopInit
<1> DEFINE e == [fix |-> sample, live |-> shownStage]
<1>2. events = <<e>> /\ e.fix = sample /\ e.live = shownStage
  BY DEF StopInit
<1> HIDE DEF e
<1>3. \A k \in DOMAIN events : events[k].fix = sample /\ events[k].live = Untold
  BY <1>1, <1>2
<1>4. Fixes = {sample, NoFix}
  BY <1>1, <1>3 DEF Fixes
<1>5. 0 <= Stops[Terminus + 1]
  <2>1. 0 \in Indices /\ Terminus \in Indices /\ 0 < Terminus
    BY RoadOK DEF Indices
  <2>2. Stops[0 + 1] < Stops[Terminus + 1] /\ Stops[Terminus + 1] \in Int
    BY <2>1, RoadOK
  <2> QED BY <2>2, RouteAssumption
<1>6. StageEarned(Untold) /\ StageEarned(savedStage)
  BY <1>1 DEF StageEarned, Earned, Untold, Indices
<1>7. sample # NoFix /\ NoFix.time = -1 /\ NoFix.place = 0
  BY <1>1 DEF NoFix
<1>8. Timeline
  BY <1>1, <1>3, <1>4, <1>5, <1>7 DEF Timeline, Heard
<1> QED BY <1>1, <1>3, <1>6, <1>8 DEF AllEarned

-----------------------------------------------------------------------------
(* With two snapshots waiting, the second is the newest, or a replay: what waits *)
(* is never of a place before a stop credited unobserved.                        *)

QueueFresh ==
    /\ Len(events) <= 2
    /\ 2 \in DOMAIN events => events[2] = Replayed \/ events[2].fix = sample
    /\ \A x \in Fixes : x.time <= sample.time

LeftBehind ==
    \A i \in Indices : savedStage.history[i] \in Unconfirmed =>
        /\ i \in 1 .. Terminus - 1
        /\ Stops[i + 1] < sample.place
        /\ \A k \in DOMAIN events : events[k] = Replayed \/ Stops[i + 1] < events[k].fix.place

AtObserved ==
    shownStage.atStop # -1 =>
        \/ shownStage.atStop \in {0, Terminus}
        \/ /\ shownStage.atStop \in Indices
           /\ savedStage.history[shownStage.atStop] \notin Unconfirmed \cup {"none"}

OneWayInv == StopTypeOK /\ StagesOK /\ Timeline /\ AllEarned
FreshInv == OneWayInv /\ QueueFresh /\ LeftBehind /\ AtObserved

LEMMA HeartbeatFresh ==
    ASSUME OneWay, MaxQueued \in 0 .. 2, FreshInv, NEW step \in 0 .. Pace,
           NEW motion \in {"lost", "uncertain", "moving", "stopped"}, Heartbeat(step, motion)
    PROVE  (QueueFresh /\ LeftBehind /\ AtObserved)'
<1>1. /\ UNCHANGED <<shownStage, savedStage, lastFix>> /\ clock' = clock + 1
      /\ at' >= at /\ at \in Int /\ at' \in Int /\ clock \in Int
      /\ sample' # sample => sample'.place = at' /\ sample'.time = clock'
  BY TimelineHeard, HeartbeatStages DEF FreshInv, OneWayInv, Heartbeat, StopTypeOK
<1>2. AtObserved'
  BY <1>1 DEF FreshInv, AtObserved
<1>3. CASE motion = "lost"
  <2>1. UNCHANGED <<sample, events>>
    BY <1>3 DEF Heartbeat
  <2> QED BY <1>1, <1>2, <2>1 DEF FreshInv, QueueFresh, LeftBehind, Fixes
<1>4. CASE motion # "lost"
  <2> DEFINE e == [fix |-> sample', live |-> shownStage]
  <2>1. /\ events' = Append(events, e) /\ e.fix = sample' /\ Len(events) < MaxQueued
        /\ sample'.time = clock'
    BY <1>4 DEF Heartbeat
  <2> HIDE DEF e
  <2>2. events \in Seq(Event)
    BY DEF FreshInv, OneWayInv, StopTypeOK
  <2>3. Len(events') <= 2 /\ (2 \in DOMAIN events' => events'[2] = e)
    BY <2>1, <2>2
  <2>4. \A k \in DOMAIN events' : events'[k] = e \/ (k \in DOMAIN events /\ events'[k] = events[k])
    BY <2>1, <2>2
  <2>5. Fixes' \subseteq Fixes \cup {sample'}
    BY <1>1, <2>1, <2>4 DEF Fixes
  <2>6. Fixes \subseteq Fix /\ NoFix.time = -1
    BY FixesTyped DEF FreshInv, OneWayInv, NoFix
  <2>7. ASSUME NEW x \in Fixes PROVE x.time <= clock'
    <3>1. x.time \in Int /\ (x = NoFix \/ x.time <= clock) /\ 0 <= clock
      BY <2>6 DEF FreshInv, OneWayInv, Timeline, Heard, Fix
    <3> QED BY <1>1, <2>6, <3>1
  <2>8. QueueFresh'
    BY <1>1, <2>1, <2>3, <2>5, <2>7 DEF QueueFresh
  <2>9. sample'.place >= sample.place /\ sample'.place \in Int /\ sample.place \in Int
    <3>1. sample \in Fix /\ sample' \in Fix
      BY HeartbeatStages DEF FreshInv, OneWayInv, StopTypeOK
    <3>2. sample.place <= at /\ sample.place \in Int /\ sample'.place \in Int
      BY <3>1 DEF FreshInv, OneWayInv, Timeline, Heard, Fix
    <3>3. CASE sample' = sample
      BY <3>2, <3>3
    <3>4. CASE sample' # sample
      BY <3>2, <3>4, <1>1
    <3> QED BY <3>2, <3>3, <3>4
  <2>10. ASSUME NEW i \in Indices, savedStage.history[i] \in Unconfirmed
         PROVE  /\ i \in 1 .. Terminus - 1 /\ Stops[i + 1] < sample'.place
                /\ \A k \in DOMAIN events' : events'[k] = Replayed \/ Stops[i + 1] < events'[k].fix.place
    <3>1. i \in 1 .. Terminus - 1 /\ Stops[i + 1] < sample.place /\ Stops[i + 1] \in Int
      BY <2>10, RoadOK DEF FreshInv, LeftBehind
    <3>2. Stops[i + 1] < sample'.place
      BY <2>9, <3>1
    <3>3. \A k \in DOMAIN events : events[k] = Replayed \/ Stops[i + 1] < events[k].fix.place
      BY <2>10 DEF FreshInv, LeftBehind
    <3> QED BY <2>1, <2>4, <3>1, <3>2, <3>3
  <2>11. LeftBehind'
    BY <1>1, <2>10 DEF LeftBehind
  <2> QED BY <1>2, <2>8, <2>11
<1> QED BY <1>3, <1>4

LEMMA HandleFresh ==
    ASSUME OneWay, FreshInv, NEW outcome \in {"done", "not_saved", "not_shown"}, HandleEvent(outcome)
    PROVE  (QueueFresh /\ LeftBehind /\ AtObserved)'
<1> USE DEF OneWayInv
<1>1. events # <<>> /\ Write(outcome, Taken, Reduced) /\ UNCHANGED <<at, clock, sample>>
  BY DEF HandleEvent, Taken, Reduced
<1> DEFINE c == Checkpointed(Taken.fix, Reduced.live, Taken.live.index, Reduced.skipped, Reduced.missed)
           open == Taken.live.phase # "completed"
<1>2. /\ Taken \in Event /\ StageOK(Taken.live)
      /\ open => ReductionOK(Reduced, Taken.fix, lastFix, Taken.live.index)
  BY <1>1, TakenOK DEF FreshInv
<1>3. /\ Taken.fix \in Fixes /\ Fixes \subseteq Fix /\ sample \in Fixes
      /\ open => \A i \in Reduced.skipped \cup Reduced.missed : Stops[i + 1] < Taken.fix.place
  BY <1>1, TakenEarned, FixesTyped DEF FreshInv, Fixes
<1>4. /\ lastFix' = lastFix \/ lastFix' = Taken.fix
      /\ \/ savedStage' = savedStage
         \/ open /\ savedStage.phase # "completed" /\ savedStage' = c
      /\ \/ shownStage' = shownStage
         \/ /\ open
            /\ IF savedStage.phase = "completed"
               THEN TRUE
               ELSE savedStage' = c /\ shownStage'.phase = savedStage'.phase /\ shownStage'.index = savedStage'.index
            /\ shownStage' \in LiveStage
            /\ VisitedOK(shownStage'.atStop, Taken.fix, shownStage'.index)
  BY <1>1, <1>2, WriteOK DEF FreshInv
<1>5. open => /\ Reduced.live \in LiveStage /\ StageOK(Reduced.live)
              /\ Reduced.skipped \cup Reduced.missed \subseteq 1 .. Terminus - 1
  BY <1>2 DEF ReductionOK
<1>6. open /\ savedStage.phase # "completed" =>
        /\ StageOK(c)
        /\ \A i \in Indices :
             /\ savedStage.history[i] # "none" => c.history[i] = savedStage.history[i]
             /\ c.history[i] \in Unconfirmed =>
                  savedStage.history[i] \in Unconfirmed \/ i \in Reduced.skipped \cup Reduced.missed
             /\ c.phase # "pre_departure" /\ i <= c.index - 1 => c.history[i] # "none"
  BY <1>3, <1>5, CheckpointOK DEF StopTypeOK, StagesOK, FreshInv
<1> HIDE DEF c, open
<1>7. Taken.fix.place <= sample.place /\ Taken.fix.place \in Int /\ sample.place \in Int
  BY <1>3 DEF FreshInv, QueueFresh, Timeline, Fix
<1>8. \A k \in DOMAIN events' :
         events'[k] = Replayed \/ (k + 1 \in DOMAIN events /\ events'[k] = events[k + 1])
  BY RestQueue DEF FreshInv
<1>9. \A k \in DOMAIN events' : events'[k] = Replayed \/ events'[k].fix = sample
  <2>1. \A k \in DOMAIN events : k <= 2
    BY DEF FreshInv, QueueFresh, StopTypeOK
  <2>2. \A k \in DOMAIN events' : k \in Nat \ {0}
    BY HandleStages DEF FreshInv, StopTypeOK
  <2> QED BY <1>8, <2>1, <2>2 DEF FreshInv, QueueFresh
<1>10. QueueFresh'
  <2>1. Len(events') <= 2
    BY DEF HandleEvent, FreshInv, QueueFresh, StopTypeOK
  <2>2. 2 \in DOMAIN events' => events'[2] = Replayed \/ events'[2].fix = sample'
    BY <1>1, <1>9
  <2>3. NoFix.time <= sample.time /\ Replayed.fix = NoFix /\ sample.time \in Int
    BY <1>3 DEF NoFix, Replayed, FreshInv, Timeline, Heard, Fix
  <2>4. lastFix' \in Fixes
    BY <1>3, <1>4 DEF Fixes
  <2>5. Fixes' \subseteq Fixes \cup {NoFix}
    BY <1>1, <1>3, <1>9, <2>3, <2>4 DEF Fixes
  <2> QED BY <1>1, <2>1, <2>2, <2>3, <2>5 DEF QueueFresh, FreshInv
<1>11. ASSUME NEW i \in Indices, savedStage'.history[i] \in Unconfirmed
       PROVE  \/ savedStage.history[i] \in Unconfirmed
              \/ i \in 1 .. Terminus - 1 /\ Stops[i + 1] < Taken.fix.place
  BY <1>3, <1>4, <1>5, <1>6, <1>11
<1>12. ASSUME NEW i \in Indices, savedStage.history[i] \in Unconfirmed
       PROVE  i \in 1 .. Terminus - 1 /\ Stops[i + 1] < Taken.fix.place /\ Stops[i + 1] < sample.place
  <2>1. /\ i \in 1 .. Terminus - 1 /\ Stops[i + 1] < sample.place
        /\ \A k \in DOMAIN events : events[k] = Replayed \/ Stops[i + 1] < events[k].fix.place
    BY <1>12 DEF FreshInv, LeftBehind
  <2>2. Head(events) = events[1] /\ 1 \in DOMAIN events
    BY <1>1 DEF FreshInv, StopTypeOK
  <2> QED BY <2>1, <2>2 DEF Taken
<1>13. ASSUME NEW i \in Indices, savedStage'.history[i] \in Unconfirmed
       PROVE  i \in 1 .. Terminus - 1 /\ Stops[i + 1] < Taken.fix.place /\ Stops[i + 1] < sample.place
  <2>1. Stops[i + 1] \in Int
    BY RoadOK
  <2> QED BY <1>7, <1>11, <1>12, <1>13, <2>1
<1>14. LeftBehind'
  BY <1>1, <1>9, <1>13 DEF LeftBehind
<1>15. AtObserved'
  <2> DEFINE a == shownStage'.atStop
  <2>1. CASE shownStage' = shownStage
    <3>1. \A i \in Indices : savedStage.history[i] # "none" => savedStage'.history[i] = savedStage.history[i]
      BY <1>4, <1>6
    <3> QED BY <2>1, <3>1 DEF FreshInv, AtObserved
  <2>2. CASE a \in {-1, 0, Terminus}
    BY <2>2 DEF AtObserved
  <2>3. CASE /\ open /\ shownStage' \in LiveStage /\ shownStage'.index >= 1
             /\ a = shownStage'.index - 1 /\ Taken.fix.place = Spot(a)
             /\ savedStage.phase = "completed"
                \/ (savedStage.phase # "completed" /\ savedStage' = c
                    /\ shownStage'.phase = savedStage'.phase /\ shownStage'.index = savedStage'.index)
    <3>1. shownStage'.index \in Indices
      BY <2>3 DEF LiveStage
    <3>2. a \in Indices /\ a <= shownStage'.index - 1
      BY <2>3, <3>1, RoadOK DEF Indices
    <3>3. Taken.fix.place = Stops[a + 1]
      BY <2>3, <3>2, OneWayOK
    <3>4. savedStage'.history[a] \notin Unconfirmed
      BY <1>7, <1>13, <3>2, <3>3
    <3>5. savedStage'.history[a] # "none"
      <4>1. CASE savedStage.phase = "completed"
        BY <4>1, <1>4, <3>2 DEF FreshInv, StagesOK
      <4>2. CASE savedStage.phase # "completed" /\ savedStage' = c /\ shownStage'.index = savedStage'.index
        BY <4>2, <2>3, <1>6, <3>2 DEF StageOK
      <4> QED BY <2>3, <4>1, <4>2
    <3> QED BY <3>2, <3>4, <3>5 DEF AtObserved
  <2> QED BY <1>4, <2>1, <2>2, <2>3 DEF VisitedOK
<1> QED BY <1>10, <1>14, <1>15

LEMMA FreshStart == StopInit => QueueFresh /\ LeftBehind /\ AtObserved
<1> SUFFICES ASSUME StopInit PROVE QueueFresh /\ LeftBehind /\ AtObserved
  OBVIOUS
<1> DEFINE e == [fix |-> sample, live |-> shownStage]
<1>1. events = <<e>> /\ e.fix = sample
  BY DEF StopInit
<1> HIDE DEF e
<1>2. Len(events) <= 2 /\ 2 \notin DOMAIN events /\ \A k \in DOMAIN events : events[k].fix = sample
  BY <1>1
<1>3. sample.time = 0 /\ lastFix.time = -1
  BY DEF StopInit, NoFix
<1>4. QueueFresh
  BY <1>2, <1>3 DEF QueueFresh, Fixes
<1>5. LeftBehind
  BY DEF StopInit, LeftBehind, Unconfirmed
<1>6. AtObserved
  BY DEF StopInit, AtObserved, Untold
<1> QED BY <1>4, <1>5, <1>6

LEMMA FreshStep ==
    OneWay /\ MaxQueued \in 0 .. 2 /\ FreshInv /\ [StopNext]_stopVars => FreshInv'
<1> SUFFICES ASSUME OneWay, MaxQueued \in 0 .. 2, FreshInv, [StopNext]_stopVars PROVE FreshInv'
  OBVIOUS
<1>1. OneWayInv'
  BY StagesStep, EarnedStops DEF FreshInv, OneWayInv
<1>2. CASE UNCHANGED stopVars
  BY <1>1, <1>2 DEF stopVars, FreshInv, QueueFresh, LeftBehind, AtObserved, Fixes
<1>3. CASE \E step \in 0 .. Pace, motion \in {"lost", "uncertain", "moving", "stopped"} :
              Heartbeat(step, motion)
  BY <1>1, <1>3, HeartbeatFresh DEF FreshInv
<1>4. CASE \E outcome \in {"done", "not_saved", "not_shown"} : HandleEvent(outcome)
  BY <1>1, <1>4, HandleFresh DEF FreshInv
<1>5. CASE RestartEngine
  <2>1. /\ lastFix' = NoFix /\ events' = <<Replayed>>
        /\ UNCHANGED <<at, clock, sample, shownStage, savedStage>>
    BY <1>5 DEF RestartEngine
  <2>2. Len(events') <= 2 /\ \A k \in DOMAIN events' : events'[k] = Replayed
    BY <2>1
  <2>3. NoFix.time <= sample.time /\ Replayed.fix = NoFix
    <3>1. sample.time \in Int /\ 0 <= sample.time
      BY DEF FreshInv, OneWayInv, StopTypeOK, Timeline, Heard, Fix
    <3> QED BY <3>1 DEF NoFix, Replayed
  <2>4. Fixes' \subseteq {sample, NoFix} /\ sample \in Fixes
    BY <2>1, <2>2, <2>3 DEF Fixes
  <2>5. QueueFresh'
    BY <2>1, <2>2, <2>3, <2>4 DEF QueueFresh, FreshInv
  <2> QED BY <1>1, <2>1, <2>2, <2>5 DEF FreshInv, LeftBehind, AtObserved
<1> QED BY <1>1, <1>2, <1>3, <1>4, <1>5 DEF StopNext

\* Passengers are never shown a stop that the checkpoint does not hold
\* (tripStateEngine.ts:994-1002).
DurableLeads == shownStage.index <= savedStage.index

\* The checkpoint of a ride and its history never go back (tripStateEngine.ts:716-725).
CheckpointAdvances == [][DurableOnward]_savedStage

\* Both hold on every road, whatever fails, waits or restarts.
THEOREM StopsNeverGoBack == StopSpec => []DurableLeads /\ CheckpointAdvances
<1>1. StopInit => StopTypeOK /\ StagesOK
  BY StagesStart
<1>2. StopTypeOK /\ StagesOK /\ [StopNext]_stopVars =>
        StopTypeOK' /\ StagesOK' /\ [DurableOnward]_savedStage
  BY StagesStep
<1>3. StagesOK => DurableLeads
  BY DEF StagesOK, DurableLeads
<1> QED BY <1>1, <1>2, <1>3, PTL DEF StopSpec, CheckpointAdvances

LEMMA OneWayHolds == OneWay /\ OneWayInv => CreditIsEarned /\ EndsAtTerminal
<1> SUFFICES ASSUME OneWay, OneWayInv PROVE CreditIsEarned /\ EndsAtTerminal
  OBVIOUS
<1>1. at \in Int /\ shownStage.index \in Indices /\ savedStage.index \in Indices
  BY DEF OneWayInv, StopTypeOK, LiveStage, SavedStage
<1>2. CreditIsEarned
  BY <1>1, RoadOK DEF OneWayInv, AllEarned, StageEarned, Earned, CreditIsEarned, Larger
<1>3. EndsAtTerminal
  BY DEF OneWayInv, AllEarned, StageEarned, EndsAtTerminal
<1> QED BY <1>2, <1>3

\* On a road that never turns back no stop is credited, durably or to passengers,
\* before the bus came to it, and no ride completes away from its terminal, however
\* many snapshots wait, writes fail, engines restart and fixes are lost or uncertain
\* (tripStateReducer.ts:301-584).
THEOREM OneWayCreditIsEarned == OneWay /\ StopSpec => [](CreditIsEarned /\ EndsAtTerminal)
<1> SUFFICES ASSUME OneWay PROVE StopSpec => [](CreditIsEarned /\ EndsAtTerminal)
  OBVIOUS
<1>1. StopInit => OneWayInv
  BY StagesStart, StopsEarnedStart DEF OneWayInv
<1>2. OneWayInv /\ [StopNext]_stopVars => OneWayInv'
  BY StagesStep, EarnedStops DEF OneWayInv
<1>3. OneWayInv => CreditIsEarned /\ EndsAtTerminal
  BY OneWayHolds
<1> QED BY <1>1, <1>2, <1>3, PTL DEF StopSpec

\* And while no more than two snapshots wait, a stop credited unobserved is never
\* shown as the stop the bus is at: all of ProgressIsTrue (tripStateReducer.ts:616).
THEOREM OneWayProgressIsTrue ==
    OneWay /\ MaxQueued \in 0 .. 2 /\ StopSpec => []ProgressIsTrue
<1> SUFFICES ASSUME OneWay, MaxQueued \in 0 .. 2 PROVE StopSpec => []ProgressIsTrue
  OBVIOUS
<1>1. StopInit => FreshInv
  BY StagesStart, StopsEarnedStart, FreshStart DEF FreshInv, OneWayInv
<1>2. FreshInv => ProgressIsTrue
  <2> SUFFICES ASSUME FreshInv PROVE ProgressIsTrue
    OBVIOUS
  <2>1. UnobservedIsNotShown
    BY RoadOK DEF FreshInv, AtObserved, LeftBehind, UnobservedIsNotShown, Unconfirmed, Indices
  <2> QED BY <2>1, OneWayHolds DEF FreshInv, ProgressIsTrue
<1>3. FreshInv /\ [StopNext]_stopVars => FreshInv'
  BY FreshStep
<1> QED BY <1>1, <1>2, <1>3, PTL DEF StopSpec

-----------------------------------------------------------------------------
(* A bus that comes back to its origin.  On such a road the reducer tells the  *)
(* two passes of a place apart by the way the bus drove there or, after a gap, *)
(* by the time it had: so a stop of the way back may be credited early only    *)
(* while the bus stands at the stop that was credited last (Dwelling).         *)

\* The bus comes back to its origin, stopping only where it stopped on its way out.
RoundTrip ==
    /\ Stops[Terminus + 1] = 2 * Turn
    /\ \A i \in Indices : Stops[i + 1] > Turn => \E k \in Indices : Stops[k + 1] = 2 * Turn - Stops[i + 1]

\* Too short a time, for a bus that stands at stop i, to drive round to where it
\* passes the place again.
Short(i, elapsed) ==
    \A j \in Indices : i < j /\ Spot(j) = Spot(i) => ~DrivenIn(elapsed, i, j)

\* A standing bus is heard reliably within a minute, and within half of the time
\* it needs to come back to a place.
HeardInTime ==
    /\ Pace \in Nat /\ GapAfter \in Nat /\ StaleAfter \in Nat /\ MaxQuiet \in Nat
    /\ MaxQuiet <= StaleAfter
    /\ \A i \in Indices \ {0} : Short(i, 2 * MaxQuiet + 1)

LEMMA BackOK ==
    ASSUME RoundTrip
    PROVE  /\ Turn \in Nat /\ Turn >= 1 /\ Terminus \in Indices
           /\ \E u \in Indices : Stops[u + 1] = Turn
           /\ \A i \in Indices :
                /\ Stops[i + 1] \in Int /\ 0 <= Stops[i + 1] /\ Stops[i + 1] <= 2 * Turn
                /\ i >= 1 => Stops[i + 1] >= 1
                /\ Spot(i) = IF Stops[i + 1] <= Turn THEN Stops[i + 1] ELSE 2 * Turn - Stops[i + 1]
<1>1. Turn \in Nat /\ Turn >= 1 /\ Terminus \in Indices /\ 0 \in Indices
  BY RouteAssumption, RoadOK DEF Indices
<1>2. \E u \in Indices : Stops[u + 1] = Turn
  <2>1. Stops[Len(Stops)] = Stops[Terminus + 1] /\ Stops[Terminus + 1] \in Int
    BY RoadOK, RouteAssumption DEF Terminus, Indices
  <2>2. PICK n \in DOMAIN Stops : Stops[n] = Turn
    BY <1>1, <2>1, RouteAssumption DEF RoundTrip
  <2>3. n - 1 \in Indices /\ (n - 1) + 1 = n
    BY RouteAssumption DEF Indices, Terminus
  <2>4. Stops[(n - 1) + 1] = Turn
    BY <2>2, <2>3
  <2> QED BY <2>3, <2>4
<1>3. ASSUME NEW i \in Indices
      PROVE  /\ Stops[i + 1] \in Int /\ 0 <= Stops[i + 1] /\ Stops[i + 1] <= 2 * Turn
             /\ i >= 1 => Stops[i + 1] >= 1
             /\ Spot(i) = IF Stops[i + 1] <= Turn THEN Stops[i + 1] ELSE 2 * Turn - Stops[i + 1]
  <2>1. Stops[0 + 1] = 0
    BY RouteAssumption
  <2>2. i \in Nat /\ (i = 0 \/ 0 < i) /\ (i = Terminus \/ i < Terminus) /\ Terminus \in Nat
    BY <1>3, RoadOK DEF Indices
  <2>3. Stops[i + 1] \in Int /\ Stops[0 + 1] \in Int /\ Stops[Terminus + 1] \in Int
    BY <1>1, <1>3, RoadOK
  <2>4. (0 < i => Stops[0 + 1] < Stops[i + 1]) /\ (i < Terminus => Stops[i + 1] < Stops[Terminus + 1])
    BY <1>1, <1>3, RoadOK
  <2> QED BY <2>1, <2>2, <2>3, <2>4 DEF RoundTrip, Spot, PlaceOf
<1> QED BY <1>1, <1>2, <1>3

\* A stop of the way back has the turn, or another stop past it, before it.
LEMMA BehindTurn ==
    ASSUME RoundTrip, NEW i \in Indices, Stops[i + 1] > Turn
    PROVE  i - 1 \in Indices /\ i >= 1 /\ Turn <= Stops[i] /\ Stops[i] < Stops[i + 1] /\ Spot(i) < Spot(i - 1)
<1>1. PICK u \in Indices : Stops[u + 1] = Turn
  BY BackOK
<1>2. i \in Nat /\ u \in Nat /\ u # i /\ (u < i \/ i < u) /\ Turn \in Nat /\ Stops[i + 1] \in Int
  BY <1>1, RoadOK, BackOK
<1>3. u < i
  BY <1>1, <1>2, RoadOK
<1>4. i - 1 \in Indices /\ (i - 1) + 1 = i /\ i >= 1 /\ i - 1 < i /\ (u = i - 1 \/ u < i - 1)
  BY <1>2, <1>3, RoadOK DEF Indices
<1>5. Stops[i] \in Int /\ Stops[i] < Stops[i + 1]
  BY <1>4, RoadOK
<1>6. Turn <= Stops[i]
  <2>1. CASE u = i - 1
    BY <1>1, <1>2, <1>4, <2>1
  <2>2. CASE u < i - 1
    <3>1. Stops[u + 1] < Stops[(i - 1) + 1]
      BY <1>4, <2>2, RoadOK
    <3> QED BY <1>1, <1>2, <1>4, <1>5, <3>1
  <2> QED BY <1>4, <2>1, <2>2
<1>7. Spot(i) < Spot(i - 1)
  <2>1. /\ Spot(i) = 2 * Turn - Stops[i + 1]
        /\ Spot(i - 1) = IF Stops[i] <= Turn THEN Stops[i] ELSE 2 * Turn - Stops[i]
    BY <1>2, <1>4, BackOK
  <2> QED BY <1>2, <1>5, <1>6, <2>1
<1> QED BY <1>4, <1>5, <1>6, <1>7

\* A stop of the way out has the turn, or another stop before it, after it.
LEMMA BeforeTurn ==
    ASSUME RoundTrip, NEW i \in Indices, i >= 1, Stops[i + 1] < Turn
    PROVE  /\ i - 1 \in Indices /\ Spot(i - 1) < Spot(i)
           /\ i + 1 \in Indices /\ Spot(i) < Spot(i + 1)
<1>1. PICK u \in Indices : Stops[u + 1] = Turn
  BY BackOK
<1>2. i \in Nat /\ u \in Nat /\ u # i /\ (u < i \/ i < u) /\ Turn \in Nat /\ Stops[i + 1] \in Int
  BY <1>1, RoadOK, BackOK
<1>3. i < u
  BY <1>1, <1>2, RoadOK
<1>4. /\ i - 1 \in Indices /\ (i - 1) + 1 = i /\ i - 1 < i
      /\ i + 1 \in Indices /\ i < i + 1 /\ (u = i + 1 \/ i + 1 < u)
  BY <1>2, <1>3, RoadOK DEF Indices
<1>5. Stops[i] < Stops[i + 1] /\ Stops[i + 1] < Stops[(i + 1) + 1] /\ Stops[i] \in Int /\ Stops[(i + 1) + 1] \in Int
  BY <1>4, RoadOK
<1>6. Stops[(i + 1) + 1] <= Turn
  <2>1. CASE u = i + 1
    BY <1>1, <1>2, <2>1
  <2>2. CASE i + 1 < u
    BY <1>1, <1>2, <1>4, <1>5, <2>2, RoadOK
  <2> QED BY <1>4, <2>1, <2>2
<1>7. Spot(i) = Stops[i + 1] /\ Spot(i - 1) = Stops[i] /\ Spot(i + 1) = Stops[(i + 1) + 1]
  BY <1>2, <1>4, <1>5, <1>6, BackOK
<1> QED BY <1>4, <1>5, <1>7

\* Two stops of one place lie on both sides of the turn, with a stop in between.
LEMMA SharedPlace ==
    ASSUME RoundTrip, NEW i \in Indices, NEW j \in Indices, i < j, Spot(i) = Spot(j)
    PROVE  Stops[i + 1] < Turn /\ Turn < Stops[j + 1] /\ i + 1 < j /\ Stops[j + 1] = 2 * Turn - Stops[i + 1]
<1>1. /\ Stops[i + 1] < Stops[j + 1] /\ Stops[i + 1] \in Int /\ Stops[j + 1] \in Int
      /\ Turn \in Nat /\ i \in Nat /\ j \in Nat
  BY RoadOK, BackOK
<1>2. Stops[i + 1] < Turn /\ Turn < Stops[j + 1] /\ Stops[j + 1] = 2 * Turn - Stops[i + 1]
  BY <1>1, BackOK
<1>3. j - 1 \in Indices /\ Turn <= Stops[j]
  BY <1>2, BehindTurn
<1>4. i # j - 1
  <2> SUFFICES ASSUME i = j - 1 PROVE FALSE
    OBVIOUS
  <2>1. i + 1 = j
    BY <1>1
  <2> QED BY <2>1, <1>1, <1>2, <1>3
<1> QED BY <1>1, <1>2, <1>4

\* Fix f was taken at s and the fix before it, if there is one, at r.
Drove(f, p, s, r) ==
    /\ s \in Nat /\ r \in Nat /\ r <= s /\ s <= 2 * Turn
    /\ f.place = PlaceOf(s) /\ (p = NoFix \/ p.place = PlaceOf(r))

LEMMA ReachedOut ==
    ASSUME RoundTrip, NEW f \in Fix, NEW p \in Fix, NEW s, NEW r, Drove(f, p, s, r),
           NEW i \in Indices, Stops[i + 1] <= Turn, ReachedStop(i, f, p)
    PROVE  Stops[i + 1] <= s
<1>1. Spot(i) = Stops[i + 1] /\ Stops[i + 1] \in Int /\ Turn \in Nat
  BY BackOK
<1>2. f.place = Spot(i) \/ (p # NoFix /\ Between(Spot(i), p.place, f.place))
  BY DEF ReachedStop, FromReliable, Joined
<1>3. f.place \in Int /\ f.place <= s /\ (p # NoFix => p.place \in Int /\ p.place <= s)
  BY <1>1 DEF Drove, PlaceOf
<1> QED BY <1>1, <1>2, <1>3 DEF Between, Drove

LEMMA ReachedHomewards ==
    ASSUME RoundTrip, NEW f \in Fix, NEW p \in Fix, NEW s, NEW r, Drove(f, p, s, r),
           NEW i \in Indices, Stops[i + 1] > Turn, ReachedStop(i, f, p), p # NoFix, f.place < p.place
    PROVE  Stops[i + 1] <= s
<1>1. Spot(i) = 2 * Turn - Stops[i + 1] /\ Stops[i + 1] \in Int /\ Turn \in Nat
  BY BackOK
<1>2. f.place = Spot(i) \/ Between(Spot(i), p.place, f.place)
  BY DEF ReachedStop
<1>3. f.place \in Int /\ p.place \in Int
  BY DEF Fix
<1>4. s > Turn /\ f.place = 2 * Turn - s
  BY <1>1 DEF Drove, PlaceOf
<1> QED BY <1>1, <1>2, <1>3, <1>4 DEF Between, Drove

\* The way a bus drives at a stop tells the two sides of the turn apart.
LEMMA WayBack ==
    ASSUME RoundTrip, NEW f \in Fix, NEW p \in Fix, NEW i \in Indices, Stops[i + 1] > Turn
    PROVE  RunsWay(i, f, p) <=> f.place < p.place
<1> DEFINE d == f.place - p.place
<1>1. f.place \in Int /\ p.place \in Int /\ d \in Int
  BY DEF Fix
<1>2. i \in Nat /\ i - 1 \in Indices /\ Spot(i) \in Int /\ Spot(i - 1) \in Int /\ Spot(i) < Spot(i - 1)
  BY BehindTurn, RoadOK
<1>3. ASSUME i + 1 \in Indices PROVE Spot(i + 1) \in Int /\ Spot(i + 1) < Spot(i)
  <2>1. Stops[(i + 1) + 1] > Turn
    BY <1>2, <1>3, BackOK, RoadOK
  <2> QED BY <2>1, <1>2, <1>3, BehindTurn, RoadOK
<1>4. RunsWay(i, f, p) <=>
        d # 0 /\ (d * (Spot(i) - Spot(i - 1)) > 0 \/ (i + 1 \in Indices /\ d * (Spot(i + 1) - Spot(i)) > 0))
  BY <1>1, <1>2 DEF RunsWay
<1>5. \A b \in Int : b < 0 => (d * b > 0 <=> d < 0)
  BY <1>1
<1> HIDE DEF d
<1>6. Spot(i) - Spot(i - 1) \in Int /\ Spot(i) - Spot(i - 1) < 0
  BY <1>2
<1>7. i + 1 \in Indices => Spot(i + 1) - Spot(i) \in Int /\ Spot(i + 1) - Spot(i) < 0
  BY <1>2, <1>3
<1>8. RunsWay(i, f, p) <=> d < 0
  BY <1>1, <1>4, <1>5, <1>6, <1>7
<1> QED BY <1>1, <1>8 DEF d

LEMMA WayOut ==
    ASSUME RoundTrip, NEW f \in Fix, NEW p \in Fix, NEW i \in Indices, i >= 1, Stops[i + 1] < Turn
    PROVE  RunsWay(i, f, p) <=> p.place < f.place
<1> DEFINE d == f.place - p.place
<1>1. f.place \in Int /\ p.place \in Int /\ d \in Int
  BY DEF Fix
<1>2. /\ i \in Nat /\ i - 1 \in Indices /\ Spot(i) \in Int /\ Spot(i - 1) \in Int /\ Spot(i - 1) < Spot(i)
      /\ i + 1 \in Indices /\ Spot(i + 1) \in Int /\ Spot(i) < Spot(i + 1)
  BY BeforeTurn, RoadOK
<1>3. RunsWay(i, f, p) <=> d # 0 /\ (d * (Spot(i) - Spot(i - 1)) > 0 \/ d * (Spot(i + 1) - Spot(i)) > 0)
  BY <1>1, <1>2 DEF RunsWay
<1>4. \A b \in Int : b > 0 => (d * b > 0 <=> d > 0)
  BY <1>1
<1> HIDE DEF d
<1>5. Spot(i) - Spot(i - 1) \in Int /\ Spot(i) - Spot(i - 1) > 0 /\ Spot(i + 1) - Spot(i) \in Int /\ Spot(i + 1) - Spot(i) > 0
  BY <1>2
<1>6. RunsWay(i, f, p) <=> d > 0
  BY <1>1, <1>3, <1>4, <1>5
<1> QED BY <1>1, <1>6 DEF d

\* Of the two passes of a place the later one is told only by driving back.
LEMMA LaterPass ==
    ASSUME RoundTrip, NEW f \in Fix, NEW p \in Fix, NEW e \in Indices, NEW l \in Indices,
           e >= 1, e < l, Spot(l) = Spot(e), ReachedStop(e, f, p), SharedPass(e, l, f, p) = "later"
    PROVE  p # NoFix /\ f.place < p.place
<1> DEFINE seen == FromReliable(f, p)
           fits(i) == seen /\ RunsWay(i, f, p)
           far(g) == Abs(g.place - Spot(e))
           came == IF seen /\ far(p) > 0 THEN Side(e, l, p.place, TRUE) ELSE "unknown"
           goes == IF far(f) > 0 THEN Side(e, l, f.place, FALSE) ELSE "unknown"
           first  == IF seen /\ far(p) >= far(f) THEN came ELSE goes
           second == IF seen /\ far(p) >= far(f) THEN goes ELSE came
<1>1. Stops[e + 1] < Turn /\ Stops[l + 1] > Turn
  BY SharedPlace, BackOK, RoadOK
<1>2. f.place \in Int /\ p.place \in Int /\ Spot(e) \in Int
  BY RoadOK DEF Fix
<1>3. IF fits(e) # fits(l) THEN ~fits(e)
      ELSE (IF first # "unknown" THEN first ELSE second) = "later"
  BY DEF SharedPass
<1>4. seen => p # NoFix
  BY DEF FromReliable, Joined
<1>5. (RunsWay(e, f, p) <=> p.place < f.place) /\ (RunsWay(l, f, p) <=> f.place < p.place)
  BY <1>1, WayOut, WayBack
<1>6. f.place = Spot(e) \/ (seen /\ Between(Spot(e), p.place, f.place))
  BY DEF ReachedStop
<1>7. CASE seen /\ f.place < p.place
  BY <1>4, <1>7
<1>8. CASE seen /\ p.place < f.place
  <2>1. fits(e) /\ ~fits(l)
    BY <1>2, <1>5, <1>8
  <2> HIDE DEF fits
  <2> QED BY <2>1, <1>3
<1>9. CASE ~seen \/ p.place = f.place
  <2>1. f.place = Spot(e)
    BY <1>2, <1>6, <1>9 DEF Between
  <2>2. far(f) = 0 /\ (seen => far(p) = 0)
    BY <2>1, <1>2, <1>9 DEF Abs
  <2>3. fits(e) = FALSE /\ fits(l) = FALSE
    BY <1>2, <1>5, <1>9
  <2>4. ~(0 > 0)
    OBVIOUS
  <2> HIDE DEF fits, far, seen
  <2>5. goes = "unknown" /\ came = "unknown"
    BY <2>2, <2>4, Zenon
  <2> HIDE DEF goes, came
  <2>6. first = "unknown" /\ second = "unknown"
    BY <2>5, Zenon
  <2> HIDE DEF first, second
  <2> QED BY <1>3, <2>3, <2>6
<1> QED BY <1>2, <1>7, <1>8, <1>9

\* A stop that the bus came to, and if it lies on the way back, the fix shows which pass it is.
CameTo(t, f, p, s) ==
    t \in Indices /\ Stops[t + 1] <= s /\ (Stops[t + 1] <= Turn \/ f.place = Spot(t) \/ f.place < p.place)

\* A target is the stop expected before, one the bus came to, or undecided.
TargetTrue(t, next, f, p, s) == t \in {next, Unknown} \/ CameTo(t, f, p, s)

LEMMA ResolvedTrue ==
    ASSUME RoundTrip, NEW f \in Fix, NEW p \in Fix, NEW s, NEW r, Drove(f, p, s, r),
           NEW i \in Indices, i >= 1, NEW limit \in Indices, NEW elapsed, ReachedStop(i, f, p)
    PROVE  TargetTrue(Resolved(i, f, p, elapsed, limit), i, f, p, s)
<1> DEFINE copies == {c \in i + 2 .. limit : Spot(c) = Spot(i)}
           copy == CHOOSE c \in copies : \A d \in copies : c <= d
           t == Resolved(i, f, p, elapsed, limit)
<1>1. copies \subseteq Indices /\ copies \subseteq Nat /\ \A c \in copies : i < c /\ Spot(c) = Spot(i)
  BY RoadOK DEF Indices
<1>2. copies # {} => copy \in copies
  <2> SUFFICES ASSUME copies # {} PROVE copy \in copies
    OBVIOUS
  <2>1. \E c \in copies : \A d \in copies : c <= d
    BY <1>1, LeastIndex
  <2> QED BY <2>1
<1>3. \/ t \in {i, Unknown}
      \/ /\ copies # {} /\ t = copy
         /\ SharedPass(i, copy, f, p) = "later" \/ copy = Terminus
  BY DEF Resolved
<1> HIDE DEF copies, copy, t
<1>4. ASSUME copies # {}, t = copy, SharedPass(i, copy, f, p) = "later" \/ copy = Terminus
      PROVE  CameTo(t, f, p, s)
  <2>1. copy \in Indices /\ i < copy /\ Spot(copy) = Spot(i)
    BY <1>1, <1>2, <1>4
  <2>2. Stops[copy + 1] > Turn /\ Stops[copy + 1] = 2 * Turn - Stops[i + 1] /\ Stops[i + 1] \in Int /\ Stops[i + 1] >= 1
    BY <2>1, SharedPlace, BackOK
  <2>3. copy # Terminus
    BY <2>2, BackOK DEF RoundTrip
  <2>4. p # NoFix /\ f.place < p.place
    BY <1>4, <2>1, <2>3, LaterPass
  <2>5. ReachedStop(copy, f, p)
    BY <2>1 DEF ReachedStop
  <2>6. Stops[copy + 1] <= s
    BY <2>1, <2>2, <2>4, <2>5, ReachedHomewards
  <2> QED BY <1>4, <2>1, <2>4, <2>6 DEF CameTo
<1> QED BY <1>3, <1>4 DEF TargetTrue, t

\* A stop that the fix shows, by itself or on the way the route runs there.
LEMMA DrivenTo ==
    ASSUME RoundTrip, NEW f \in Fix, NEW p \in Fix, NEW s, NEW r, Drove(f, p, s, r),
           NEW i \in Indices, ReachedStop(i, f, p), Stops[i + 1] <= Turn \/ DrivenThrough(i, f, p)
    PROVE  CameTo(i, f, p, s)
<1>1. CASE Stops[i + 1] <= Turn
  BY <1>1, ReachedOut DEF CameTo
<1>2. CASE Stops[i + 1] > Turn /\ DrivenThrough(i, f, p)
  <2>1. p # NoFix /\ f.place < p.place
    BY <1>2, WayBack DEF DrivenThrough, FromReliable, Joined
  <2> QED BY <1>2, <2>1, ReachedHomewards DEF CameTo
<1> QED BY <1>1, <1>2, BackOK

LEMMA PastMissedTrue ==
    ASSUME RoundTrip, NEW f \in Fix, NEW p \in Fix, NEW s, NEW r, Drove(f, p, s, r),
           NEW next \in Indices, NEW limit \in Indices
    PROVE  TargetTrue(PastMissed(next, f, p, limit), next, f, p, s)
<1> DEFINE ahead == {i \in next + 1 .. Smaller(next + Recovery, limit) :
                       ReachedStop(i, f, p) /\ DrivenThrough(i, f, p)}
           first == CHOOSE i \in ahead : \A j \in ahead : i <= j
           t == PastMissed(next, f, p, limit)
<1>1. Smaller(next + Recovery, limit) \in Int /\ Smaller(next + Recovery, limit) <= limit
  BY RoadOK, RouteAssumption DEF Smaller
<1>2. ahead \subseteq Indices /\ ahead \subseteq Nat /\ \A i \in ahead : ReachedStop(i, f, p) /\ DrivenThrough(i, f, p)
  BY <1>1, RoadOK DEF Indices
<1>3. ahead # {} => first \in ahead
  <2> SUFFICES ASSUME ahead # {} PROVE first \in ahead
    OBVIOUS
  <2>1. \E c \in ahead : \A d \in ahead : c <= d
    BY <1>2, LeastIndex
  <2> QED BY <2>1
<1>4. t = next \/ (ahead # {} /\ t = first)
  BY DEF PastMissed
<1> HIDE DEF ahead, first, t
<1>5. ASSUME ahead # {}, t = first PROVE CameTo(t, f, p, s)
  BY <1>2, <1>3, <1>5, DrivenTo
<1> QED BY <1>4, <1>5 DEF TargetTrue, t

\* After a gap: the one place where the fix alone misleads is where the bus still
\* stands at the stop that was credited last.
LEMMA AfterGapTrue ==
    ASSUME RoundTrip, Pace \in Nat,
           NEW f \in Fix, NEW p \in Fix, NEW s, NEW r, Drove(f, p, s, r),
           NEW next \in Indices, next >= 1, NEW limit \in Indices, NEW elapsed \in Int,
           Earned(next, s), s = Stops[next] => Short(next - 1, elapsed)
    PROVE  TargetTrue(AfterGap(next, f, p, elapsed, limit), next, f, p, s)
<1> DEFINE seen == {i \in next + 1 .. limit :
                      /\ Path(next, i) <= elapsed * Pace
                      /\ f.place = Spot(i) \/ (ReachedStop(i, f, p) /\ DrivenThrough(i, f, p))
                      /\ AtPassed(i, next) => DrivenIn(elapsed, next - 1, i)}
           first == CHOOSE i \in seen : \A j \in seen : i <= j
           t == AfterGap(next, f, p, elapsed, limit)
<1>1. seen \subseteq Indices /\ seen \subseteq Nat /\ \A i \in seen : i > next /\ i >= 1 /\ ReachedStop(i, f, p)
  BY RoadOK DEF Indices, ReachedStop
<1>2. seen # {} => first \in seen /\ \A j \in seen : first <= j
  <2> SUFFICES ASSUME seen # {} PROVE first \in seen /\ \A j \in seen : first <= j
    OBVIOUS
  <2>1. \E c \in seen : \A d \in seen : c <= d
    BY <1>1, LeastIndex
  <2> QED BY <2>1
<1>3. \/ ReachedStop(next, f, p) /\ t = Resolved(next, f, p, elapsed, limit)
      \/ t = next
      \/ ~ReachedStop(next, f, p) /\ seen # {} /\ t = Resolved(first, f, p, elapsed, limit)
  BY DEF AfterGap
<1>4. \A i \in seen : Stops[i + 1] <= Turn \/ DrivenThrough(i, f, p) \/ f.place = Spot(i)
  OBVIOUS
<1>5. \A i \in seen : AtPassed(i, next) => DrivenIn(elapsed, next - 1, i)
  OBVIOUS
<1>6. ASSUME NEW i \in seen, NEW m \in Indices, next < m, m < i, f.place = Spot(i), Spot(m) = Spot(i)
      PROVE  m \in seen
  <2>1. m \in next + 1 .. limit /\ i \in next + 1 .. limit
    BY <1>6, <1>1, RoadOK DEF Indices
  <2>2. Path(next, m) <= elapsed * Pace
    <3>1. Path(next, i) <= elapsed * Pace /\ elapsed * Pace \in Int
      BY <1>6
    <3>2. i \in Indices /\ Stops[m + 1] < Stops[i + 1] /\ Stops[m + 1] \in Int /\ Stops[i + 1] \in Int /\ Stops[next + 1] \in Int
      BY <1>1, <1>6, RoadOK
    <3> HIDE DEF seen
    <3> QED BY <3>1, <3>2 DEF Path
  <2>3. ~AtPassed(m, next)
    <3> SUFFICES ASSUME NEW k \in 0 .. next - 1, Spot(k) = Spot(m) PROVE FALSE
      BY DEF AtPassed
    <3>1. k \in Indices /\ k < m /\ i \in Indices
      BY <1>1, <1>6, RoadOK DEF Indices
    <3>2. Stops[m + 1] > Turn /\ Stops[m + 1] < Turn
      BY <1>6, <3>1, SharedPlace
    <3> QED BY <3>2, BackOK
  <2> QED BY <2>1, <2>2, <2>3, <1>6
<1> HIDE DEF seen, first, t
<1>7. ASSUME NEW i \in seen, i = first, ~ReachedStop(next, f, p) PROVE CameTo(i, f, p, s)
  <2>1. i \in Indices /\ i > next /\ ReachedStop(i, f, p)
    BY <1>1
  <2>2. CASE Stops[i + 1] <= Turn \/ DrivenThrough(i, f, p)
    BY <2>1, <2>2, DrivenTo
  <2>3. CASE Stops[i + 1] > Turn /\ f.place = Spot(i) /\ s > Turn
    <3>1. Stops[i + 1] <= s
      BY <2>1, <2>3, BackOK DEF Drove, PlaceOf
    <3> QED BY <2>1, <2>3, <3>1 DEF CameTo
  <2>4. CASE Stops[i + 1] > Turn /\ f.place = Spot(i) /\ ~(s > Turn)
    <3>1. PICK m \in Indices : Stops[m + 1] = 2 * Turn - Stops[i + 1]
      BY <2>1, <2>4 DEF RoundTrip
    <3>2. Stops[m + 1] = s /\ Spot(m) = Spot(i) /\ m < i
      <4>1. Spot(i) = 2 * Turn - Stops[i + 1] /\ Stops[i + 1] \in Int /\ Turn \in Nat /\ f.place = s
        BY <2>1, <2>4, BackOK DEF Drove, PlaceOf
      <4>2. Stops[m + 1] = s /\ Spot(m) = Spot(i)
        BY <2>4, <3>1, <4>1, BackOK DEF Drove
      <4>3. m \in Nat /\ i \in Nat /\ ~(i < m) /\ i # m
        BY <2>1, <2>4, <3>1, <4>1, RoadOK
      <4> QED BY <4>2, <4>3
    <3>3. m \notin seen
      <4>1. seen # {} /\ m \in Nat /\ i \in Nat
        BY <2>1, RoadOK
      <4> QED BY <1>2, <1>7, <3>2, <4>1
    <3>4. ~(next < m)
      BY <1>6, <2>4, <3>2, <3>3
    <3>5. m # next
      BY <1>7, <2>4, <3>2 DEF ReachedStop
    <3>6. m < next /\ m \in 0 .. next - 1
      BY <3>4, <3>5, RoadOK DEF Indices
    <3>7. DrivenIn(elapsed, next - 1, i)
      BY <1>5, <1>7, <3>2, <3>6 DEF AtPassed
    <3>8. next - 1 \in Indices /\ (next - 1) + 1 = next /\ next - 1 < next
      BY RoadOK DEF Indices
    <3>9. Stops[next] <= s
      BY <3>8 DEF Earned
    <3>10. m = next - 1
      <4> SUFFICES ASSUME m # next - 1 PROVE FALSE
        OBVIOUS
      <4>1. m < next - 1
        BY <3>6, RoadOK
      <4>2. Stops[m + 1] < Stops[next] /\ Stops[next] \in Int /\ Stops[m + 1] \in Int
        BY <3>8, <4>1, RoadOK
      <4> QED BY <3>2, <3>9, <4>2
    <3>11. s = Stops[next] /\ Spot(next - 1) = Spot(i) /\ next - 1 < i
      BY <2>1, <3>2, <3>8, <3>10, RoadOK
    <3> QED BY <2>1, <3>7, <3>11 DEF Short
  <2> QED BY <1>4, <2>1, <2>2, <2>3, <2>4, BackOK
<1>8. CASE ReachedStop(next, f, p) /\ t = Resolved(next, f, p, elapsed, limit)
  BY <1>8, ResolvedTrue DEF t
<1>9. CASE t = next
  BY <1>9 DEF TargetTrue, t
<1>10. CASE ~ReachedStop(next, f, p) /\ seen # {} /\ t = Resolved(first, f, p, elapsed, limit)
  <2>1. first \in seen /\ first \in Indices /\ first >= 1 /\ ReachedStop(first, f, p)
    BY <1>1, <1>2, <1>10
  <2>2. CameTo(first, f, p, s)
    BY <1>7, <1>10, <2>1
  <2>3. TargetTrue(t, first, f, p, s)
    BY <1>10, <2>1, ResolvedTrue
  <2> QED BY <2>2, <2>3 DEF TargetTrue, t
<1> QED BY <1>3, <1>8, <1>9, <1>10

LEMMA DrivenLonger ==
    ASSUME Pace \in Nat, GapAfter \in Nat, NEW i \in Indices, NEW j \in Indices,
           NEW e \in Int, NEW d \in Int, e <= d, DrivenIn(e, i, j)
    PROVE  DrivenIn(d, i, j)
<1>1. Path(i, j) \in Int /\ e >= GapAfter /\ e * Pace >= Path(i, j)
  BY RoadOK DEF DrivenIn, Path
<1> HIDE DEF Path
<1>2. \A n \in Nat : n * Pace >= 0 /\ n * Pace \in Int
  OBVIOUS
<1>3. d - e \in Nat
  OBVIOUS
<1>4. (d - e) * Pace >= 0 /\ d * Pace = e * Pace + (d - e) * Pace /\ e * Pace \in Int /\ (d - e) * Pace \in Int
  BY <1>2, <1>3
<1> QED BY <1>1, <1>4 DEF DrivenIn

LEMMA ShortAtOnce ==
    ASSUME Pace \in Nat, GapAfter \in Nat, NEW i \in Indices, NEW e \in Int, e <= 0
    PROVE  Short(i, e)
<1> SUFFICES ASSUME NEW j \in Indices, i < j, DrivenIn(e, i, j) PROVE FALSE
  BY DEF Short
<1>1. DrivenIn(0, i, j)
  BY DrivenLonger
<1>2. Path(i, j) \in Int /\ Path(i, j) > 0
  BY RoadOK DEF Path
<1>3. 0 * Pace = 0
  OBVIOUS
<1> QED BY <1>1, <1>2, <1>3 DEF DrivenIn

LEMMA ShortSum ==
    ASSUME Pace \in Nat, GapAfter \in Nat, NEW i \in Indices, NEW e \in Int, NEW q \in Int, NEW x \in Int,
           Short(i, 2 * e), Short(i, 2 * q + 1), x <= e + q + 1
    PROVE  Short(i, x)
<1> SUFFICES ASSUME NEW j \in Indices, i < j, Spot(j) = Spot(i), DrivenIn(x, i, j) PROVE FALSE
  BY DEF Short
<1>1. CASE x <= 2 * e
  BY <1>1, DrivenLonger DEF Short
<1>2. CASE x <= 2 * q + 1
  BY <1>2, DrivenLonger DEF Short
<1> QED BY <1>1, <1>2

LEMMA ShortHalf ==
    ASSUME Pace \in Nat, GapAfter \in Nat, NEW i \in Indices, NEW e \in Int, Short(i, 2 * e)
    PROVE  Short(i, e)
<1>1. CASE e <= 0
  BY <1>1, ShortAtOnce
<1>2. CASE e > 0
  BY <1>2, DrivenLonger DEF Short
<1> QED BY <1>1, <1>2

\* A run of stops from one that was expected, or that the bus came to, ends before it.
LEMMA RunTrue ==
    ASSUME RoundTrip, NEW f \in Fix, NEW p \in Fix, NEW s, NEW r, Drove(f, p, s, r),
           NEW t \in Indices, NEW n \in Indices, t < n, t >= 1, Run(t, n - 1, f, p),
           CameTo(t, f, p, s) \/ (Earned(t, s) /\ (p # NoFix => Earned(t, r)))
    PROVE  Stops[n] <= s
<1> DEFINE i == n - 1
<1>1. /\ i \in Indices /\ t <= i /\ i + 1 = n /\ Stops[n] \in Int /\ i \in Nat /\ t \in Nat
      /\ t - 1 \in Indices /\ t - 1 < t /\ (t - 1) + 1 = t /\ Stops[t] \in Int
  <2>1. i \in Indices /\ t <= i /\ i + 1 = n /\ i \in Nat /\ t \in Nat
        /\ t - 1 \in Indices /\ t - 1 < t /\ (t - 1) + 1 = t
    BY RoadOK DEF Indices
  <2> HIDE DEF i
  <2>2. Stops[i + 1] \in Int /\ Stops[(t - 1) + 1] \in Int
    BY <2>1, RoadOK
  <2> QED BY <2>1, <2>2
<1>2. \A k \in t .. i : ReachedStop(k, f, p) /\ Abs(f.place - Spot(k)) <= Abs(f.place - Spot(k - 1))
  BY DEF Run, Consumable
<1>3. i \in t .. i
  BY <1>1
<1> HIDE DEF i
<1>4. Turn \in Nat /\ s \in Nat /\ r \in Nat /\ r <= s /\ Spot(i) \in Int
  BY <1>1, BackOK, RoadOK DEF Drove
<1>5. CASE Stops[n] <= Turn
  BY <1>1, <1>2, <1>3, <1>5, ReachedOut
<1>6. ASSUME Stops[n] > Turn, Stops[n] > s PROVE FALSE
  <2>1. Spot(i) = 2 * Turn - Stops[n] /\ i - 1 \in Indices /\ Spot(i) < Spot(i - 1) /\ Spot(i - 1) \in Int
    BY <1>1, <1>6, BackOK, BehindTurn, RoadOK
  <2>2. PICK u \in Indices : Stops[u + 1] = Turn
    BY BackOK
  <2>3. u \in Nat /\ u < i
    BY <1>1, <1>4, <1>6, <2>2, RoadOK
  <2>4. CASE t <= u
    <3>1. ReachedStop(u, f, p)
      BY <1>1, <1>2, <2>3, <2>4
    <3>2. s >= Turn
      BY <2>2, <3>1, <1>4, ReachedOut
    <3>3. Spot(u) = Turn
      BY <2>2, BackOK
    <3>4. f.place = 2 * Turn - s /\ f.place \in Int /\ (p # NoFix => p.place \in Int /\ p.place <= Turn)
      BY <1>4, <3>2 DEF Drove, PlaceOf
    <3>5. f.place # Spot(i) /\ p # NoFix /\ Between(Spot(i), p.place, f.place)
      BY <1>1, <1>2, <1>3, <1>4, <1>6, <2>1, <3>4 DEF ReachedStop, FromReliable, Joined
    <3>6. p.place <= Spot(i) /\ p.place < Turn
      BY <1>4, <1>6, <2>1, <3>4, <3>5, <1>1 DEF Between
    <3>7. f.place = Turn
      BY <3>1, <3>2, <3>3, <3>4, <3>5, <3>6, <1>4 DEF ReachedStop, Between
    <3>8. Spot(i - 1) <= Turn
      BY <1>4, <2>1, BackOK
    <3>9. Abs(f.place - Spot(i)) <= Abs(f.place - Spot(i - 1))
      BY <1>2, <1>3
    <3> QED BY <1>4, <2>1, <3>7, <3>8, <3>9 DEF Abs
  <2>5. CASE u < t
    <3>1. Stops[t + 1] > Turn /\ Turn <= Stops[t] /\ Stops[t + 1] \in Int
      <4>1. Stops[u + 1] < Stops[t + 1] /\ Stops[t + 1] \in Int
        BY <2>5, RoadOK
      <4> QED BY <1>4, <2>2, <4>1, BehindTurn
    <3>2. s >= Turn
      <4>1. CASE CameTo(t, f, p, s)
        BY <1>4, <3>1, <4>1 DEF CameTo
      <4>2. CASE Earned(t, s)
        <5>1. Stops[t] <= s
          BY <1>1, <4>2 DEF Earned
        <5> QED BY <1>1, <1>4, <3>1, <5>1
      <4> QED BY <4>1, <4>2
    <3>3. f.place = 2 * Turn - s /\ f.place \in Int
      BY <1>4, <3>2 DEF Drove, PlaceOf
    <3>4. f.place > Spot(i) /\ p # NoFix /\ p.place \in Int /\ p.place <= Spot(i)
      <4>1. f.place > Spot(i)
        BY <1>1, <1>4, <1>6, <2>1, <3>3
      <4>2. p # NoFix /\ Between(Spot(i), p.place, f.place)
        BY <1>2, <1>3, <1>4, <4>1, <3>3 DEF ReachedStop, FromReliable, Joined
      <4>3. p.place \in Int
        BY DEF Fix
      <4> QED BY <1>4, <3>3, <4>1, <4>2, <4>3 DEF Between
    <3>5. CASE CameTo(t, f, p, s)
      <4>1. f.place = Spot(t)
        BY <1>4, <3>1, <3>3, <3>4, <3>5 DEF CameTo
      <4>2. t # i
        BY <1>4, <3>4, <4>1
      <4>3. Spot(i - 1) <= Spot(t)
        <5>1. CASE t = i - 1
          BY <5>1, <2>1
        <5>2. CASE t < i - 1
          <6>1. Stops[t + 1] < Stops[i] /\ Stops[i] \in Int
            <7>1. (i - 1) + 1 = i
              BY <1>1
            <7> QED BY <2>1, <5>2, <7>1, RoadOK
          <6>2. Spot(t) = 2 * Turn - Stops[t + 1] /\ Spot(i - 1) = 2 * Turn - Stops[i]
            <7>1. (i - 1) + 1 = i
              BY <1>1
            <7> QED BY <1>4, <2>1, <3>1, <6>1, <7>1, BackOK
          <6> QED BY <1>4, <3>1, <6>1, <6>2
        <5> QED BY <1>1, <4>2, <5>1, <5>2
      <4>4. Abs(f.place - Spot(i)) <= Abs(f.place - Spot(i - 1))
        BY <1>2, <1>3
      <4> QED BY <1>4, <2>1, <3>3, <4>1, <4>3, <4>4 DEF Abs
    <3>6. CASE Earned(t, s) /\ (p # NoFix => Earned(t, r))
      <4>1. Stops[t] <= r
        BY <1>1, <3>4, <3>6 DEF Earned
      <4>2. p.place = 2 * Turn - r \/ (r = Turn /\ p.place = Turn)
        BY <1>1, <1>4, <3>1, <3>4, <4>1 DEF Drove, PlaceOf
      <4> QED BY <1>1, <1>4, <1>6, <2>1, <3>4, <4>2
    <3> QED BY <3>5, <3>6
  <2> QED BY <2>3, <2>4, <2>5, <1>1
<1> QED BY <1>1, <1>4, <1>5, <1>6

\* What the bus has behind it: the stops credited, and the terminal of a completed ride.
StageTrue(l, s) == Earned(l.index, s) /\ (l.phase = "completed" => Stops[Terminus + 1] <= s)

\* The stage m that l, at index `base`, became with a fix taken at s: its gap is
\* closed, or where it was anchored, or the bus is past the stop credited last.
AdvancedTo(m, l, base, s, anchored) ==
    /\ m.index >= base /\ StageTrue(m, s) /\ m.unobserved = l.unobserved
    /\ \/ m.index = base /\ m.gap = anchored
       \/ m.gap = NoGap
       \/ m.index >= 1 /\ Stops[m.index] < s

LEMMA EarnedBefore ==
    ASSUME NEW n \in Indices, n >= 1, NEW s \in Int, Stops[n] <= s
    PROVE  Earned(n, s)
<1>1. n - 1 \in Indices /\ (n - 1) + 1 = n
  BY RoadOK DEF Indices
<1>2. Stops[(n - 1) + 1] <= s
  BY <1>1
<1>3. Earned((n - 1) + 1, s)
  BY <1>1, <1>2, EarnedTo
<1> QED BY <1>1, <1>3

LEMMA AdvanceTrue ==
    ASSUME RoundTrip, NEW f \in Fix, NEW p \in Fix, NEW s, NEW r, Drove(f, p, s, r),
           NEW l \in LiveStage, NEW gap \in Int, NEW leaving \in BOOLEAN, NEW base \in Indices,
           NEW target, NEW anchored \in Int,
           TargetOK(target, base, f, p), base = 0 => target = 0, TargetTrue(target, base, f, p, s),
           Earned(base, s), p # NoFix => Earned(base, r)
    PROVE  AdvancedTo(Advance(f, p, l, gap, leaving, base, target, anchored).live, l, base, s, anchored)
<1> DEFINE m == Advance(f, p, l, gap, leaving, base, target, anchored).live
<1>0. s \in Nat /\ base \in Nat /\ base >= base /\ Unknown \notin Indices /\ Terminus \in Indices
  BY RoadOK DEF Drove, Indices, Unknown
<1>1. CASE target = Unknown
  <2> DEFINE held == [l EXCEPT !.phase = "in_service", !.index = base, !.arrival = NoArrival,
                              !.departed = l.departed \/ leaving]
  <2>1. m = [held EXCEPT !.gap = anchored]
    BY <1>1 DEF Advance, Reduction
  <2>2. m.index = base /\ m.phase = "in_service" /\ m.gap = anchored /\ m.unobserved = l.unobserved
    BY <2>1 DEF LiveStage
  <2> HIDE DEF m
  <2>3. StageTrue(m, s)
    BY <2>2 DEF StageTrue
  <2> QED BY <1>0, <2>2, <2>3 DEF AdvancedTo, m
<1>2. CASE target # Unknown
  <2> DEFINE next == IF target = 0 THEN 0 ELSE Consumed(target, f, p)
             there == ~leaving /\ next = Terminus /\ Run(target, Terminus, f, p)
             standing == there /\ l.departed /\ f.motion = "stopped" /\ f.place = Spot(Terminus)
             prior == l.arrival # NoArrival /\ f.time - l.arrival.last <= StaleAfter
             evidence == [from |-> IF prior THEN l.arrival.from ELSE f.time, last |-> f.time]
             completes == standing /\ prior /\ f.time > l.arrival.last
             moved == [l EXCEPT !.phase = IF completes THEN "completed" ELSE "in_service",
                                !.index = next, !.departed = l.departed \/ leaving,
                                !.arrival = IF standing THEN evidence ELSE NoArrival]
             observed == target > 0 /\ target <= (IF leaving THEN Terminus - 1 ELSE Terminus)
                           /\ Consumable(target, f, p)
             skipped == IF gap # NoGap THEN base .. target - 1 ELSE {}
             open == IF observed THEN NoGap ELSE IF skipped = {} THEN anchored ELSE gap
  <2>1. target \in Indices /\ target >= base /\ target \in Nat
    BY <1>2, RoadOK DEF TargetOK
  <2>2. /\ next \in Indices /\ next >= target /\ next \in Nat
        /\ target # 0 => Run(target, next - 1, f, p)
        /\ target = 0 => next = 0
    <3>1. Consumed(target, f, p) \in target .. Terminus /\ Run(target, Consumed(target, f, p) - 1, f, p)
      BY <2>1, ConsumedOK
    <3> QED BY <3>1, <2>1, RoadOK DEF Indices
  <2>3. m = [moved EXCEPT !.gap = open]
    BY <1>2 DEF Advance, Reduction
  <2>4. completes => /\ next = Terminus /\ Run(target, Terminus, f, p) /\ f.place = Spot(Terminus)
    OBVIOUS
  <2>5. m.index = next /\ m.gap = open /\ m.unobserved = l.unobserved /\ (m.phase = "completed" => completes)
    <3> HIDE DEF next, completes, standing, evidence, open
    <3> QED BY <2>3 DEF LiveStage
  <2> HIDE DEF m, next, completes, standing, there, evidence, prior, moved
  <2>6. CameTo(target, f, p, s) \/ (target = base /\ Earned(target, s) /\ (p # NoFix => Earned(target, r)))
    BY <1>2 DEF TargetTrue
  <2>7. Earned(next, s)
    <3>1. CASE next = target
      <4>1. CameTo(target, f, p, s) => Earned(target, s)
        BY <2>1, <1>0, EarnedTo DEF CameTo
      <4> QED BY <3>1, <4>1, <2>6
    <3>2. CASE next # target
      <4>1. target >= 1 /\ target < next
        BY <3>2, <2>1, <2>2
      <4>2. Stops[next] <= s
        BY <4>1, <2>1, <2>2, <2>6, RunTrue
      <4>3. next \in Indices /\ next >= 1
        BY <4>1, <2>1, <2>2
      <4> QED BY <1>0, <4>2, <4>3, EarnedBefore
    <3> QED BY <3>1, <3>2
  <2>8. completes => Stops[Terminus + 1] <= s
    <3> SUFFICES ASSUME completes PROVE Stops[Terminus + 1] <= s
      OBVIOUS
    <3>1. next = Terminus /\ Run(target, Terminus, f, p) /\ f.place = Spot(Terminus)
      BY <2>4
    <3>2. Spot(Terminus) = 0 /\ Terminus >= 1 /\ Turn \in Nat /\ Turn >= 1 /\ Terminus \in Nat
      BY BackOK, RoadOK DEF RoundTrip
    <3>3. Terminus - 1 \in Indices /\ (Terminus - 1) + 1 = Terminus /\ Stops[Terminus] \in Int /\ Turn <= Stops[Terminus]
      <4>1. Stops[Terminus + 1] > Turn
        BY <3>2 DEF RoundTrip
      <4>2. Terminus - 1 \in Indices /\ Turn <= Stops[Terminus]
        BY <1>0, <4>1, BehindTurn
      <4>3. (Terminus - 1) + 1 = Terminus
        BY <3>2
      <4> QED BY <4>2, <4>3, RoadOK
    <3>4. Stops[Terminus] <= s
      BY <2>7, <3>1, <3>2, <3>3 DEF Earned
    <3>5. s = 2 * Turn
      BY <1>0, <3>1, <3>2, <3>3, <3>4 DEF Drove, PlaceOf
    <3> QED BY <1>0, <3>2, <3>5 DEF RoundTrip
  <2>9. \/ next = base /\ open = anchored
        \/ open = NoGap
        \/ next >= 1 /\ Stops[next] < s
    <3>1. CASE next = target /\ target # base
      <4>1. target >= 1 /\ target - 1 \in Indices /\ target - 1 < target /\ (target - 1) + 1 = target
        BY <3>1, <2>1, <1>0, RoadOK DEF Indices
      <4>2. Stops[target + 1] <= s
        BY <3>1, <2>6 DEF CameTo
      <4>3. Stops[(target - 1) + 1] < Stops[target + 1] /\ Stops[target + 1] \in Int /\ Stops[(target - 1) + 1] \in Int
        BY <2>1, <4>1, RoadOK
      <4> QED BY <1>0, <3>1, <4>1, <4>2, <4>3
    <3>2. CASE next = target /\ target = base
      <4>1. skipped = {}
        BY <3>2, <1>0
      <4> QED BY <3>2, <4>1
    <3>3. CASE next # target
      <4>1. target >= 1 /\ target < next /\ target < Terminus
        BY <3>3, <2>1, <2>2, RoadOK DEF Indices
      <4>2. target \in target .. next - 1
        BY <2>1, <2>2, <4>1
      <4>3. Consumable(target, f, p)
        BY <2>2, <4>1, <4>2 DEF Run
      <4>4. observed
        BY <2>1, <4>1, <4>3, RoadOK
      <4> QED BY <4>4
    <3> QED BY <3>1, <3>2, <3>3
  <2>10. StageTrue(m, s)
    BY <2>5, <2>7, <2>8 DEF StageTrue
  <2>11. m.index >= base
    BY <1>0, <2>1, <2>2, <2>5
  <2> HIDE DEF open
  <2> QED BY <2>5, <2>9, <2>10, <2>11 DEF AdvancedTo, m
<1> QED BY <1>1, <1>2

\* The gap of a stage that stands at the stop it credited last leaves no time to drive round.
GapShort(m, f, s) ==
    m.index >= 1 /\ s = Stops[m.index] /\ m.gap # NoGap => Short(m.index - 1, 2 * (f.time - m.gap))

LEMMA ProgressTrue ==
    ASSUME RoundTrip, Pace \in Nat, GapAfter \in Nat,
           NEW f \in Fix, NEW p \in Fix, NEW s, NEW r, Drove(f, p, s, r), s >= 1,
           NEW l \in LiveStage, NEW gap \in Int, NEW leaving \in BOOLEAN, leaving => l.index = 0,
           Earned(l.index, s), p # NoFix => Earned(l.index, r),
           l.index >= 1 /\ s = Stops[l.index] /\ gap # NoGap => Short(l.index - 1, f.time - gap)
    PROVE  LET m == Progress(f, p, l, gap, leaving).live
           IN  m.index >= l.index /\ StageTrue(m, s) /\ m.unobserved = l.unobserved /\ GapShort(m, f, s)
<1> DEFINE base == IF leaving THEN Larger(1, l.index) ELSE l.index
           limit == IF leaving THEN Terminus - 1 ELSE Terminus
           elapsed == IF gap = NoGap THEN 0 ELSE f.time - gap
           target == IF base = 0 THEN 0
                     ELSE IF gap # NoGap THEN AfterGap(base, f, p, elapsed, limit)
                     ELSE PastMissed(base, f, p, limit)
           still == gap # NoGap /\ base > 0 /\ StillThere(base, f, elapsed, limit)
           anchored == IF still THEN f.time ELSE gap
           m == Progress(f, p, l, gap, leaving).live
<1>1. l.index \in Indices /\ f.time \in Int /\ s \in Nat /\ r \in Nat /\ Stops[1] = 0
  BY RouteAssumption DEF LiveStage, Fix, Drove
<1>2. /\ base \in Indices /\ limit \in Indices /\ base \in Nat /\ base >= l.index
      /\ leaving => base = 1
      /\ ~leaving => base = l.index /\ limit = Terminus
  BY <1>1, RoadOK DEF Indices, Larger
<1>3. anchored \in Int /\ elapsed \in Int
  BY <1>1
<1>4. m = Advance(f, p, l, gap, leaving, base, target, anchored).live
  BY DEF Progress
<1>5. Earned(1, s) /\ Earned(1, r)
  BY <1>1, RoadOK DEF Earned, Indices
<1>6. Earned(base, s) /\ (p # NoFix => Earned(base, r))
  BY <1>2, <1>5
<1>7. base >= 1 /\ s = Stops[base] => ~leaving /\ base = l.index
  BY <1>1, <1>2
<1>8. base >= 1 /\ s = Stops[base] /\ gap # NoGap => Short(base - 1, elapsed)
  BY <1>7
<1> HIDE DEF base, limit, elapsed, anchored, still, m
<1>9. TargetOK(0, 0, f, p) /\ TargetTrue(0, 0, f, p, s)
  BY RoadOK DEF TargetOK, Indices, TargetTrue
<1>10. TargetOK(target, base, f, p) /\ (base = 0 => target = 0) /\ TargetTrue(target, base, f, p, s)
  <2>1. CASE base = 0
    BY <2>1, <1>9
  <2>2. CASE base # 0 /\ gap # NoGap
    <3>1. target = AfterGap(base, f, p, elapsed, limit) /\ base >= 1
      BY <2>2, <1>2
    <3>2. TargetTrue(AfterGap(base, f, p, elapsed, limit), base, f, p, s)
      BY <1>2, <1>3, <1>6, <1>8, <2>2, <3>1, AfterGapTrue
    <3>3. TargetOK(AfterGap(base, f, p, elapsed, limit), base, f, p)
      BY <1>2, AfterGapOK
    <3> QED BY <2>2, <3>1, <3>2, <3>3
  <2>3. CASE base # 0 /\ gap = NoGap
    <3>1. target = PastMissed(base, f, p, limit)
      BY <2>3
    <3>2. TargetTrue(PastMissed(base, f, p, limit), base, f, p, s)
      BY <1>2, PastMissedTrue
    <3>3. TargetOK(PastMissed(base, f, p, limit), base, f, p)
      BY <1>2, PastMissedOK
    <3> QED BY <2>3, <3>1, <3>2, <3>3
  <2> QED BY <2>1, <2>2, <2>3
<1> HIDE DEF target
<1>11. AdvancedTo(m, l, base, s, anchored)
  BY <1>2, <1>3, <1>4, <1>6, <1>10, AdvanceTrue
<1>12. m.index >= l.index
  <2>1. m.index \in Indices
    <3>1. ReductionOK(Progress(f, p, l, gap, leaving), f, p, l.index)
      BY ProgressOK
    <3> QED BY <3>1 DEF ReductionOK, LiveStage, m
  <2>2. m.index >= base
    BY <1>11 DEF AdvancedTo
  <2>3. m.index \in Nat /\ l.index \in Nat
    BY <2>1, <1>1, RoadOK
  <2> QED BY <2>2, <2>3, <1>2
<1>13. ASSUME m.index >= 1, s = Stops[m.index], m.gap # NoGap PROVE Short(m.index - 1, 2 * (f.time - m.gap))
  <2>1. m.index = base /\ m.gap = anchored
    BY <1>1, <1>11, <1>13 DEF AdvancedTo
  <2>2. base >= 1 /\ s = Stops[base] /\ ~leaving /\ base = l.index /\ limit = Terminus
    BY <1>2, <1>7, <1>13, <2>1
  <2>3. base - 1 \in Indices /\ (base - 1) + 1 = base
    BY <1>2, <2>2, RoadOK DEF Indices
  <2>4. CASE still
    <3>1. m.gap = f.time
      BY <2>1, <2>4 DEF anchored
    <3>2. 2 * (f.time - m.gap) \in Int /\ 2 * (f.time - m.gap) <= 0
      BY <1>1, <3>1
    <3> QED BY <2>1, <2>3, <3>2, ShortAtOnce
  <2>5. CASE ~still
    <3>1. m.gap = gap /\ gap # NoGap /\ elapsed = f.time - gap
      BY <2>1, <2>5, <1>13 DEF anchored, elapsed
    <3>2. ~StillThere(base, f, elapsed, limit)
      BY <2>2, <2>5, <3>1, <1>2 DEF still
    <3>3. Short(base - 1, elapsed)
      BY <1>8, <2>2, <3>1
    <3>4. ASSUME NEW j \in Indices, base - 1 < j, Spot(j) = Spot(base - 1), DrivenIn(2 * elapsed, base - 1, j)
          PROVE  FALSE
      <4>1. j \in base + 1 .. limit
        <5>1. (base - 1) + 1 < j
          BY <2>3, <3>4, SharedPlace
        <5> QED BY <1>2, <2>2, <2>3, <5>1, RoadOK DEF Indices
      <4>2. f.place = Spot(j)
        BY <2>2, <2>3, <3>4, BackOK DEF Drove, Spot
      <4>3. AtPassed(j, base)
        <5>1. base - 1 \in 0 .. base - 1
          BY <1>2, <2>2
        <5> QED BY <3>4, <5>1 DEF AtPassed
      <4>4. ~DrivenIn(elapsed, base - 1, j)
        BY <3>3, <3>4 DEF Short
      <4> QED BY <3>2, <3>4, <4>1, <4>2, <4>3, <4>4 DEF StillThere
    <3> QED BY <2>1, <3>1, <3>4 DEF Short
  <2> QED BY <2>4, <2>5
<1> QED BY <1>11, <1>12, <1>13 DEF AdvancedTo, GapShort, m

\* Since when nothing is known for certain of the stage l, whose engine saw fix p.
Since(l, p) == IF l.gap = NoGap THEN p.time ELSE l.gap
Unknowing(l, p) == l.gap = NoGap /\ p = NoFix
Fresh(f) == clock - f.time <= StaleAfter

\* What the reduction of fix f, taken at s, makes of the stage l is m: only a fix
\* that is fresh and reliable moves it on, and then no time is unaccounted for.
ReducedTrue(m, f, p, l, s) ==
    /\ m.index >= l.index /\ StageTrue(m, s) /\ m.unobserved = l.unobserved
    /\ m.phase # "pre_departure" => s >= 1
    /\ ~Fresh(f) \/ ~Reliable(f) => m.index = l.index /\ m.phase = l.phase
    /\ Fresh(f) /\ ~Reliable(f) => Since(m, f) = (IF Unknowing(l, p) THEN f.time ELSE Since(l, p))
    /\ Fresh(f) /\ Reliable(f) /\ m.index >= 1 /\ s = Stops[m.index] =>
         Short(m.index - 1, 2 * (f.time - Since(m, f)))

LEMMA ReduceTrue ==
    ASSUME RoundTrip, Pace \in Nat, GapAfter \in Nat, StopTypeOK, StaleAfter \in Int,
           NEW f \in Fix, NEW p \in Fix, NEW s, NEW r, Drove(f, p, s, r), 0 <= f.time, p # NoFix => 0 <= p.time,
           NEW l \in LiveStage, StageOK(l), l.phase # "completed", l.phase # "pre_departure" => s >= 1,
           Earned(l.index, s), p # NoFix => Earned(l.index, r),
           Fresh(f) /\ Reliable(f) /\ l.index >= 1 /\ s = Stops[l.index] /\ ~Unknowing(l, p) =>
             Short(l.index - 1, f.time - Since(l, p))
    PROVE  ReducedTrue(Reduce(f, p, l).live, f, p, l, s)
<1> DEFINE prior == IF l.gap = NoGap /\ p = NoFix /\ l.phase = "in_service" THEN f.time ELSE l.gap
           stale == clock - f.time > StaleAfter
           gap == IF prior # NoGap \/ stale THEN prior ELSE DetectedGap(f, p)
           away == f.place # Spot(0)
           inService == [l EXCEPT !.departed = @ \/ (l.phase = "in_service" /\ away)]
           kept == [l EXCEPT !.arrival = NoArrival]
           leaving == l.phase = "pre_departure" \/ (l.index = 0 /\ inService.departed)
           m == Reduce(f, p, l).live
<1>1. l.gap \in Int /\ f.time \in Int /\ p.time \in Int /\ NoGap = -1 /\ NoArrival \in Arrival /\ clock \in Int
  BY DEF LiveStage, Fix, NoGap, NoArrival, Arrival, StopTypeOK
<1>2. gap \in Int
  BY <1>1 DEF DetectedGap
<1>3. inService \in LiveStage /\ inService.index = l.index /\ inService.gap = l.gap /\ inService.unobserved = l.unobserved
  BY DEF LiveStage
<1>4. kept \in LiveStage /\ kept.index = l.index /\ kept.phase = l.phase /\ kept.unobserved = l.unobserved
  BY <1>1 DEF LiveStage
<1>5. leaving \in BOOLEAN /\ (leaving => l.index = 0)
  BY <1>3, RoadOK DEF StageOK, LiveStage, Indices
<1>6. stale <=> ~Fresh(f)
  BY <1>1 DEF Fresh
<1>7. l.index \in Indices /\ l.index \in Nat /\ l.phase \in Phases
  BY RoadOK DEF LiveStage
<1>8. /\ Fresh(f) /\ ~Reliable(f) => gap = (IF Unknowing(l, p) THEN f.time ELSE Since(l, p))
      /\ Fresh(f) /\ Reliable(f) /\ gap # NoGap => gap = f.time \/ (~Unknowing(l, p) /\ gap = Since(l, p))
  BY <1>1, <1>6 DEF Since, Unknowing, DetectedGap
<1>9. IF stale \/ ~Reliable(f) \/ (l.phase = "pre_departure" /\ ~(away /\ f.motion = "moving"))
      THEN m = Reduction(kept, gap, {}, {}).live
      ELSE m = Progress(f, p, inService, gap, leaving).live
  BY DEF Reduce
<1>10. away => s >= 1
  <2> SUFFICES ASSUME ~(s >= 1) PROVE ~away
    OBVIOUS
  <2>1. s = 0 /\ Turn \in Nat
    BY BackOK DEF Drove
  <2>2. Spot(0) = PlaceOf(0) /\ f.place = PlaceOf(0)
    BY <2>1, RouteAssumption DEF Spot, Drove
  <2> QED BY <2>2
<1> HIDE DEF gap, inService, kept, m, leaving
<1>11. CASE stale \/ ~Reliable(f) \/ (l.phase = "pre_departure" /\ ~(away /\ f.motion = "moving"))
  <2>1. m = [kept EXCEPT !.gap = gap]
    BY <1>9, <1>11 DEF Reduction
  <2>2. m.index = l.index /\ m.phase = l.phase /\ m.gap = gap /\ m.unobserved = l.unobserved
    BY <2>1, <1>4 DEF LiveStage
  <2>3. m.index >= l.index
    BY <1>7, <2>2
  <2>4. StageTrue(m, s)
    BY <2>2 DEF StageTrue
  <2>5. Fresh(f) /\ ~Reliable(f) => Since(m, f) = (IF Unknowing(l, p) THEN f.time ELSE Since(l, p))
    <3> SUFFICES ASSUME Fresh(f), ~Reliable(f)
                 PROVE  Since(m, f) = (IF Unknowing(l, p) THEN f.time ELSE Since(l, p))
      OBVIOUS
    <3>1. (IF Unknowing(l, p) THEN f.time ELSE Since(l, p)) # NoGap
      BY <1>1 DEF Unknowing, Since
    <3> QED BY <1>8, <2>2, <3>1 DEF Since
  <2>6. Fresh(f) /\ Reliable(f) => ~(m.index >= 1)
    BY <1>6, <1>7, <1>11, <2>2 DEF StageOK
  <2> QED BY <2>2, <2>3, <2>4, <2>5, <2>6, Zenon DEF ReducedTrue, m
<1>12. CASE ~(stale \/ ~Reliable(f) \/ (l.phase = "pre_departure" /\ ~(away /\ f.motion = "moving")))
  <2>1. m = Progress(f, p, inService, gap, leaving).live /\ Fresh(f) /\ Reliable(f)
    BY <1>6, <1>9, <1>12
  <2>2. s >= 1
    BY <1>10, <1>12
  <2>3. inService.index >= 1 /\ s = Stops[inService.index] /\ gap # NoGap =>
          Short(inService.index - 1, f.time - gap)
    <3> SUFFICES ASSUME l.index >= 1, s = Stops[l.index], gap # NoGap PROVE Short(l.index - 1, f.time - gap)
      BY <1>3
    <3>1. CASE gap = f.time
      <4>1. l.index - 1 \in Indices /\ f.time - gap \in Int /\ f.time - gap <= 0
        BY <3>1, <1>1, <1>7, RoadOK DEF Indices
      <4> QED BY <4>1, ShortAtOnce
    <3>2. CASE ~Unknowing(l, p) /\ gap = Since(l, p)
      BY <2>1, <3>2
    <3> QED BY <1>8, <2>1, <3>1, <3>2
  <2>4. /\ m.index >= l.index /\ StageTrue(m, s) /\ m.unobserved = l.unobserved /\ GapShort(m, f, s)
    <3>1. leaving => inService.index = 0
      BY <1>3, <1>5
    <3>2. Earned(inService.index, s) /\ (p # NoFix => Earned(inService.index, r))
      BY <1>3
    <3>3. leaving \in BOOLEAN
      BY <1>5
    <3> QED BY <1>2, <1>3, <2>1, <2>2, <2>3, <3>1, <3>2, <3>3, ProgressTrue
  <2>5. ASSUME m.index >= 1, s = Stops[m.index] PROVE Short(m.index - 1, 2 * (f.time - Since(m, f)))
    <3>1. CASE m.gap # NoGap
      BY <2>4, <2>5, <3>1 DEF GapShort, Since
    <3>2. CASE m.gap = NoGap
      <4>1. m.index \in Indices
        <5>1. ReductionOK(Reduce(f, p, l), f, p, l.index)
          BY ReduceOK
        <5> QED BY <5>1 DEF ReductionOK, LiveStage, m
      <4>2. m.index - 1 \in Indices
        BY <2>5, <4>1, RoadOK DEF Indices
      <4>3. Since(m, f) = f.time /\ 2 * (f.time - f.time) \in Int /\ 2 * (f.time - f.time) <= 0
        BY <1>1, <3>2 DEF Since
      <4> QED BY <4>2, <4>3, ShortAtOnce
    <3> QED BY <3>1, <3>2
  <2> QED BY <2>1, <2>2, <2>4, <2>5, Zenon DEF ReducedTrue, m
<1> QED BY <1>11, <1>12

-----------------------------------------------------------------------------
\* One snapshot waits at most, and it is the newest sample.
OneQueued ==
    /\ Len(events) <= 1
    /\ \A k \in DOMAIN events : events[k] \in {Replayed, [fix |-> sample, live |-> shownStage]}

OneWaits ==
    /\ OneQueued
    /\ clock \in Nat /\ hushed \in 0 .. MaxQuiet /\ at \in Nat /\ at <= Stops[Terminus + 1]
    /\ events = <<>> => lastFix = sample \/ shownStage.phase = "completed"

\* The sample was taken at s and the engine's fix before it at r; every stop credited
\* to passengers was behind the bus at r, every other one at s.
Tracked(s, r) ==
    /\ s \in Nat /\ r \in Nat /\ r <= s /\ s <= at
    /\ sample.place = PlaceOf(s) /\ 0 <= sample.time /\ sample.time <= clock
    /\ Reliable(sample) => sample.time <= clock - hushed
    /\ at = s => clock - hushed <= sample.time
    /\ \/ lastFix = NoFix
       \/ lastFix = sample /\ r = s
       \/ lastFix.place = PlaceOf(r) /\ 0 <= lastFix.time /\ lastFix.time < sample.time
    /\ Earned(shownStage.index, r) /\ Earned(savedStage.index, s)
    /\ shownStage.phase # "pre_departure" \/ savedStage.phase # "pre_departure" => s >= 1
    /\ shownStage.phase = "completed" \/ savedStage.phase = "completed" => Stops[Terminus + 1] <= s

\* While the bus stands at the last stop it was credited with, what is not known for
\* certain is too short for a pass on the way back, and what will not be until it is
\* heard again too.
Dwelling(s) ==
    shownStage.index >= 1 /\ ~Unknowing(shownStage, lastFix) =>
      /\ Reliable(sample) /\ Fresh(sample) /\ s = Stops[shownStage.index] =>
           Short(shownStage.index - 1, sample.time - Since(shownStage, lastFix))
      /\ at = Stops[shownStage.index] /\ ~(Reliable(sample) /\ lastFix.time < sample.time) =>
           Short(shownStage.index - 1, 2 * (clock - hushed - Since(shownStage, lastFix)))

\* The checkpoint is ahead of the live record only until the fix is replayed.
Ahead ==
    savedStage.index # shownStage.index /\ savedStage.phase # "completed" =>
      /\ lastFix.time < sample.time
      /\ Fresh(sample) => Reduce(sample, lastFix, shownStage).live.index = savedStage.index

TurnInv ==
    StopTypeOK /\ StagesOK /\ OneWaits /\ Ahead /\ \E s, r \in Nat : Tracked(s, r) /\ Dwelling(s)

LEMMA TrackedFix ==
    ASSUME StopTypeOK, OneWaits, NEW s, NEW r, RoundTrip, Tracked(s, r)
    PROVE  /\ lastFix = sample => r = s
           /\ ~(lastFix.time < sample.time) => lastFix = sample
           /\ lastFix.time < sample.time => Drove(sample, lastFix, s, r)
           /\ sample # NoFix /\ (lastFix # NoFix => 0 <= lastFix.time)
           /\ lastFix.time \in Int /\ sample.time \in Int
<1>1. lastFix.time \in Int /\ sample.time \in Int /\ sample.time >= 0 /\ NoFix.time = -1 /\ at \in Int
  BY DEF StopTypeOK, Fix, Tracked, NoFix
<1>2. s <= 2 * Turn /\ s \in Nat /\ r \in Nat /\ r <= s
  <2>1. s \in Nat /\ r \in Nat /\ r <= s /\ s <= at
    BY DEF Tracked
  <2>2. Turn \in Nat /\ at <= Stops[Terminus + 1]
    BY BackOK DEF OneWaits
  <2> QED BY <1>1, <2>1, <2>2 DEF RoundTrip
<1>3. \/ lastFix = NoFix
      \/ lastFix = sample /\ r = s
      \/ lastFix.place = PlaceOf(r) /\ 0 <= lastFix.time /\ lastFix.time < sample.time
  BY DEF Tracked
<1>4. sample.place = PlaceOf(s)
  BY DEF Tracked
<1> QED BY <1>1, <1>2, <1>3, <1>4 DEF Drove

\* While the bus stands at a stop it was credited with, it stands where the sample was taken.
LEMMA StandsThere ==
    ASSUME StopTypeOK, OneWaits, NEW s, NEW r, Tracked(s, r), NEW n \in Indices, n >= 1, NEW x \in Int,
           Earned(n, x)
    PROVE  /\ n - 1 \in Indices /\ Stops[n] \in Int /\ Stops[n] <= x
           /\ x <= s /\ at = Stops[n] => x = s /\ s = at
<1>1. n - 1 \in Indices /\ (n - 1) + 1 = n /\ n - 1 < n
  BY RoadOK DEF Indices
<1>2. Stops[n] \in Int /\ Stops[n] <= x
  BY <1>1, RoadOK DEF Earned
<1> QED BY <1>1, <1>2 DEF Tracked, OneWaits

\* The stops of the index are short enough to stand at.
LEMMA StandingShort ==
    ASSUME RoundTrip, HeardInTime, NEW n \in Indices, n >= 1, Stops[n] >= 1
    PROVE  Short(n - 1, 2 * MaxQuiet + 1)
<1>1. n - 1 \in Indices /\ Stops[1] = 0
  BY RoadOK, RouteAssumption DEF Indices
<1>2. n - 1 # 0
  <2> SUFFICES ASSUME n - 1 = 0 PROVE FALSE
    OBVIOUS
  <2>1. n = 1
    BY RoadOK
  <2> QED BY <1>1, <2>1
<1> QED BY <1>1, <1>2 DEF HeardInTime

LEMMA LostTurn ==
    ASSUME RoundTrip, HeardInTime, StopTypeOK, StagesOK, OneWaits, Ahead, NEW s, NEW r, Tracked(s, r), Dwelling(s),
           NEW step \in 0 .. Pace, Heartbeat(step, "lost")
    PROVE  OneWaits' /\ Ahead' /\ Tracked(s, r)' /\ Dwelling(s)'
<1>1. /\ clock' = clock + 1 /\ at' = at + step /\ at' <= Stops[Terminus + 1]
      /\ hushed' = (IF step > 0 THEN 0 ELSE hushed + 1) /\ hushed' <= MaxQuiet
      /\ UNCHANGED <<sample, events, shownStage, savedStage, lastFix>>
  BY DEF Heartbeat
<1>2. clock \in Nat /\ hushed \in Nat /\ at \in Nat /\ step \in Nat /\ MaxQuiet \in Nat /\ StaleAfter \in Nat
  BY DEF OneWaits, HeardInTime
<1>3. clock' \in Nat /\ hushed' \in 0 .. MaxQuiet /\ at' \in Nat /\ at' >= at
  BY <1>1, <1>2
<1>4. OneWaits'
  BY <1>1, <1>3 DEF OneWaits, OneQueued
<1>5. /\ s \in Nat /\ r \in Nat /\ r <= s /\ s <= at
      /\ sample.place = PlaceOf(s) /\ 0 <= sample.time /\ sample.time <= clock /\ sample.time \in Int
      /\ Reliable(sample) => sample.time <= clock - hushed
      /\ at = s => clock - hushed <= sample.time
  BY DEF Tracked, StopTypeOK, Fix
<1>6. s <= at' /\ sample.time <= clock' /\ (Reliable(sample) => sample.time <= clock' - hushed')
  BY <1>1, <1>2, <1>3, <1>5
<1>7. at' = at => step = 0 /\ clock' - hushed' = clock - hushed
  BY <1>1, <1>2
<1>8. at' = s => clock' - hushed' <= sample.time
  BY <1>1, <1>2, <1>5, <1>7
<1>9. Tracked(s, r)'
  BY <1>1, <1>5, <1>6, <1>8 DEF Tracked, Earned, Reliable
<1>10. Fresh(sample)' => Fresh(sample)
  BY <1>1, <1>2, <1>5 DEF Fresh
<1>11. Ahead'
  <2>1. ASSUME Fresh(sample)'
        PROVE  Reduce(sample, lastFix, shownStage)' = Reduce(sample, lastFix, shownStage)
    <3>1. (clock - sample.time > StaleAfter) = FALSE /\ (clock' - sample.time > StaleAfter) = FALSE
      BY <1>1, <1>2, <1>5, <1>10, <2>1 DEF Fresh
    <3> QED BY <1>1, <3>1 DEF Reduce
  <2> QED BY <1>1, <1>10, <2>1 DEF Ahead
<1>12. Dwelling(s)'
  <2> DEFINE i == shownStage.index
             since == Since(shownStage, lastFix)
  <2> SUFFICES ASSUME i >= 1, ~Unknowing(shownStage, lastFix)
               PROVE  /\ Reliable(sample) /\ Fresh(sample)' /\ s = Stops[i] => Short(i - 1, sample.time - since)
                      /\ at' = Stops[i] /\ ~(Reliable(sample) /\ lastFix.time < sample.time) =>
                           Short(i - 1, 2 * (clock' - hushed' - since))
    BY <1>1 DEF Dwelling, Since, Unknowing, Reliable, Short
  <2>1. i \in Indices /\ Earned(i, r)
    BY DEF StopTypeOK, LiveStage, Tracked
  <2>2. Stops[i] <= at /\ Stops[i] \in Int
    BY <1>2, <1>5, <2>1, StandsThere
  <2>3. at' = Stops[i] => at' = at /\ at = Stops[i]
    BY <1>2, <1>3, <2>2
  <2> QED BY <1>7, <1>10, <2>3 DEF Dwelling
<1> QED BY <1>4, <1>9, <1>11, <1>12

LEMMA HeardTurn ==
    ASSUME RoundTrip, HeardInTime, StopTypeOK, StagesOK, OneWaits, Ahead, NEW s, NEW r, Tracked(s, r), Dwelling(s),
           MaxQueued = 1, NEW step \in 0 .. Pace, NEW motion \in {"uncertain", "moving", "stopped"},
           Heartbeat(step, motion), NEW x, x = at'
    PROVE  OneWaits' /\ Ahead' /\ Tracked(x, s)' /\ Dwelling(x)'
<1> DEFINE e == [fix |-> sample', live |-> shownStage]
<1>1. /\ clock' = clock + 1 /\ at' = at + step /\ at' <= Stops[Terminus + 1]
      /\ hushed' = (IF step > 0 \/ motion \in {"moving", "stopped"} THEN 0 ELSE hushed + 1) /\ hushed' <= MaxQuiet
      /\ Len(events) < 1 /\ shownStage.phase # "completed"
      /\ sample' = [time |-> clock', place |-> PlaceOf(at'), motion |-> motion]
      /\ events' = Append(events, e)
      /\ UNCHANGED <<shownStage, savedStage, lastFix>>
  BY DEF Heartbeat
<1>2. clock \in Nat /\ hushed \in Nat /\ hushed <= MaxQuiet /\ at \in Nat /\ step \in Nat /\ MaxQuiet \in Nat /\ StaleAfter \in Nat
  BY DEF OneWaits, HeardInTime
<1>3. clock' \in Nat /\ hushed' \in 0 .. MaxQuiet /\ at' \in Nat /\ at' >= at /\ x \in Nat
  BY <1>1, <1>2
<1>4. events = <<>> /\ events' = <<e>>
  <2>1. events \in Seq(Event) /\ Len(events) \in Nat
    BY DEF StopTypeOK
  <2>2. events = <<>>
    BY <1>1, <2>1
  <2> HIDE DEF e
  <2> QED BY <1>1, <2>2
<1>5. lastFix = sample /\ r = s /\ sample # NoFix
  BY <1>1, <1>4, TrackedFix DEF OneWaits
<1>6. OneWaits'
  <2>1. Len(events') <= 1 /\ events' # <<>> /\ \A k \in DOMAIN events' : events'[k] = e
    BY <1>4
  <2>2. e = [fix |-> sample', live |-> shownStage']
    BY <1>1
  <2> HIDE DEF e
  <2> QED BY <1>1, <1>3, <2>1, <2>2 DEF OneWaits, OneQueued
<1>7. /\ s \in Nat /\ s <= at /\ sample.place = PlaceOf(s) /\ 0 <= sample.time /\ sample.time <= clock
      /\ sample.time \in Int /\ (at = s => clock - hushed <= sample.time)
      /\ Earned(shownStage.index, s) /\ Earned(savedStage.index, s)
  BY <1>5 DEF Tracked, StopTypeOK, Fix
<1>8. sample'.time = clock' /\ sample'.place = PlaceOf(x) /\ (Reliable(sample)' => hushed' = 0)
  BY <1>1 DEF Reliable
<1>9. s <= x /\ x = at'
  BY <1>2, <1>3, <1>7
<1>10. Tracked(x, s)'
  <2>1. Earned(savedStage.index, x)
    BY <1>3, <1>7, <1>9, RoadOK DEF Earned
  <2>2. /\ s >= 1 => x >= 1
        /\ Stops[Terminus + 1] <= s => Stops[Terminus + 1] <= x
    BY <1>3, <1>7, <1>9, BackOK
  <2>3. /\ shownStage.phase # "pre_departure" \/ savedStage.phase # "pre_departure" => x >= 1
        /\ shownStage.phase = "completed" \/ savedStage.phase = "completed" => Stops[Terminus + 1] <= x
    BY <2>2 DEF Tracked
  <2>4. /\ x \in Nat /\ s \in Nat /\ s <= x /\ x <= at'
        /\ sample'.place = PlaceOf(x) /\ 0 <= sample'.time /\ sample'.time <= clock'
        /\ (Reliable(sample)' => sample'.time <= clock' - hushed')
        /\ (at' = x => clock' - hushed' <= sample'.time)
    BY <1>3, <1>7, <1>8, <1>9
  <2>5. lastFix'.place = PlaceOf(s) /\ 0 <= lastFix'.time /\ lastFix'.time < sample'.time
    BY <1>1, <1>2, <1>5, <1>7, <1>8
  <2> QED BY <1>1, <1>7, <2>1, <2>3, <2>4, <2>5 DEF Tracked, Earned
<1>11. Ahead'
  BY <1>1, <1>5, <1>7 DEF Ahead
<1>12. Dwelling(x)'
  <2> DEFINE i == shownStage.index
             since == Since(shownStage, lastFix)
  <2> SUFFICES ASSUME i >= 1, at' = Stops[i]
               PROVE  /\ Reliable(sample)' => Short(i - 1, clock' - since)
                      /\ ~Reliable(sample)' => Short(i - 1, 2 * (clock' - hushed' - since))
    <3>1. (lastFix.time < sample'.time) = TRUE /\ x = at' /\ sample'.time = clock'
      BY <1>1, <1>2, <1>5, <1>7, <1>8
    <3>2. Since(shownStage', lastFix') = Since(shownStage, lastFix) /\ i' = i
      BY <1>1
    <3> QED BY <1>1, <3>1, <3>2 DEF Dwelling, Short
  <2>1. i \in Indices /\ Earned(i, s)
    BY <1>7 DEF StopTypeOK, LiveStage
  <2>2. Stops[i] <= s /\ Stops[i] \in Int /\ i - 1 \in Indices
    BY <1>7, <2>1, StandsThere
  <2>3. at = Stops[i] /\ s = at /\ step = 0
    BY <1>1, <1>2, <1>7, <2>2
  <2>4. s >= 1
    BY <2>1 DEF StagesOK, StageOK, Tracked
  <2>5. Short(i - 1, 2 * MaxQuiet + 1)
    BY <2>1, <2>3, <2>4, StandingShort
  <2>6. Short(i - 1, 2 * (clock - hushed - since))
    <3>1. ~Unknowing(shownStage, lastFix)
      BY <1>5 DEF Unknowing
    <3>2. ~(lastFix.time < sample.time)
      BY <1>5, <1>7
    <3> QED BY <2>3, <3>1, <3>2 DEF Dwelling
  <2>7. since \in Int
    BY DEF Since, StopTypeOK, LiveStage, Fix
  <2> HIDE DEF i, since
  <2>8. ASSUME Reliable(sample)' PROVE Short(i - 1, clock' - since)
    <3>1. /\ clock - hushed - since \in Int /\ clock' - since \in Int
          /\ clock' - since <= (clock - hushed - since) + MaxQuiet + 1
      BY <1>1, <1>2, <2>7
    <3> QED BY <1>2, <2>2, <2>5, <2>6, <3>1, ShortSum DEF HeardInTime
  <2>9. ASSUME ~Reliable(sample)' PROVE clock' - hushed' = clock - hushed
    <3>1. motion = "uncertain"
      <4>1. sample'.motion = motion /\ sample' # NoFix
        BY <1>1, <1>2, <1>8 DEF NoFix
      <4> QED BY <2>9, <4>1 DEF Reliable
    <3> QED BY <1>1, <1>2, <2>3, <3>1
  <2> QED BY <2>6, <2>8, <2>9
<1> QED BY <1>6, <1>10, <1>11, <1>12

\* The writes of the event whose turn it is, while what waits is the newest sample:
\* with the reduction r of the sample, the live record follows the checkpoint `stage`.
Persisted(r) ==
    IF savedStage.phase = "completed" THEN savedStage
    ELSE Checkpointed(sample, r.live, shownStage.index, r.skipped, r.missed)

LEMMA WriteTrue ==
    ASSUME StopTypeOK, StagesOK, NEW outcome \in {"done", "not_saved", "not_shown"}, NEW item,
           item.fix = sample, item.live = shownStage, shownStage.phase # "completed",
           NEW r, ReductionOK(r, sample, lastFix, shownStage.index), Write(outcome, item, r)
    PROVE  LET stage == IF savedStage.phase = "completed" THEN r.live ELSE Persisted(r)
           IN  /\ savedStage' = IF outcome = "not_saved" THEN savedStage ELSE Persisted(r)
               /\ outcome # "done" => shownStage' = shownStage /\ lastFix' = lastFix
               /\ outcome = "done" =>
                    /\ shownStage'.index = stage.index /\ shownStage'.phase = stage.phase
                    /\ shownStage'.gap = r.live.gap
                    /\ shownStage'.unobserved =
                         {i \in r.live.unobserved \cup r.skipped \cup r.missed : i < stage.index}
                    /\ lastFix' = (IF sample.time > lastFix.time THEN sample ELSE lastFix)
                    /\ \E l \in LiveStage :
                         /\ l.index = stage.index /\ l.phase = stage.phase /\ l.unobserved = shownStage'.unobserved
                         /\ shownStage'.atStop = Visited(sample, l)
<1> DEFINE over == savedStage.phase = "completed"
           saved == Persisted(r)
           stage == IF over THEN r.live ELSE saved
           clear == {i \in r.live.unobserved \cup r.skipped \cup r.missed : i < stage.index}
           l == [r.live EXCEPT !.phase = stage.phase, !.index = stage.index,
                               !.departed = stage.departed, !.arrival = stage.arrival,
                               !.unobserved = {i \in @ \cup r.skipped \cup r.missed : i < stage.index}]
           seen == [l EXCEPT !.atStop = Visited(sample, l)]
<1>1. r.live \in LiveStage /\ StageOK(r.live) /\ r.skipped \cup r.missed \subseteq Int /\ sample \in Fix
  BY RoadOK DEF ReductionOK, StopTypeOK
<1>2. over \/ saved \in SavedStage
  BY <1>1, CheckpointOK DEF StopTypeOK, StagesOK, Persisted
<1>3. stage.phase \in Phases /\ stage.index \in Indices /\ stage.departed \in BOOLEAN /\ stage.arrival \in Arrival
  BY <1>1, <1>2 DEF LiveStage, SavedStage
<1>4. /\ savedStage' = (IF outcome = "not_saved" THEN savedStage ELSE saved)
      /\ outcome # "done" => shownStage' = shownStage /\ lastFix' = lastFix
      /\ outcome = "done" => shownStage' = seen
      /\ outcome = "done" => lastFix' = (IF sample.time > lastFix.time THEN sample ELSE lastFix)
  BY DEF Write, Persisted
<1>5. clear \subseteq Int
  BY <1>1 DEF LiveStage
<1>6. l = [r.live EXCEPT !.phase = stage.phase, !.index = stage.index, !.departed = stage.departed,
                         !.arrival = stage.arrival, !.unobserved = clear]
  BY <1>1 DEF LiveStage
<1> HIDE DEF clear, l, stage
<1>7. l \in LiveStage /\ l.phase = stage.phase /\ l.index = stage.index /\ l.unobserved = clear /\ l.gap = r.live.gap
  BY <1>1, <1>3, <1>5, <1>6 DEF LiveStage
<1>8. /\ seen.phase = stage.phase /\ seen.index = stage.index /\ seen.unobserved = clear /\ seen.gap = r.live.gap
      /\ seen.atStop = Visited(sample, l)
  BY <1>7 DEF LiveStage
<1> HIDE DEF seen
<1>9. outcome = "done" =>
        /\ shownStage'.index = stage.index /\ shownStage'.phase = stage.phase
        /\ shownStage'.gap = r.live.gap /\ shownStage'.unobserved = clear
        /\ \E k \in LiveStage :
             /\ k.index = stage.index /\ k.phase = stage.phase /\ k.unobserved = clear
             /\ shownStage'.atStop = Visited(sample, k)
  BY <1>4, <1>7, <1>8
<1>10. outcome = "done" =>
        \E k \in LiveStage :
             /\ k.index = stage.index /\ k.phase = stage.phase /\ k.unobserved = shownStage'.unobserved
             /\ shownStage'.atStop = Visited(sample, k)
  BY <1>9
<1> QED BY <1>4, <1>9, <1>10 DEF clear, stage

\* What is taken from the queue is the newest sample with the record as it is.
LEMMA TakenNow ==
    ASSUME StopTypeOK, OneQueued, events # <<>>
    PROVE  Taken.fix = sample /\ Taken.live = shownStage /\ Tail(events) = <<>>
<1>1. Len(events) \in Nat /\ Len(events) # 0 /\ events \in Seq(Event)
  BY DEF StopTypeOK
<1>2. Len(events) <= 1
  BY DEF OneQueued
<1>3. Len(events) = 1
  <2>1. \A n \in Nat : n # 0 /\ n <= 1 => n = 1
    OBVIOUS
  <2> QED BY <2>1, <1>1, <1>2, Zenon
<1>4. Head(events) = events[1] /\ 1 \in DOMAIN events /\ Len(Tail(events)) = 0 /\ Tail(events) \in Seq(Event)
  BY <1>1, <1>3
<1>5. Head(events) \in {Replayed, [fix |-> sample, live |-> shownStage]}
  BY <1>4 DEF OneQueued
<1>6. \A q \in Seq(Event) : Len(q) = 0 => q = <<>>
  OBVIOUS
<1>7. Tail(events) = <<>>
  BY <1>4, <1>6, Zenon
<1>8. Taken.fix = sample /\ Taken.live = shownStage
  BY <1>5 DEF Taken
<1> QED BY <1>7, <1>8

LEMMA RestartTurn ==
    ASSUME StopTypeOK, StagesOK, OneWaits, NEW s, NEW r, Tracked(s, r), Dwelling(s),
           RestartEngine, savedStage.index = shownStage.index
    PROVE  OneWaits' /\ Ahead' /\ Tracked(s, s)' /\ Dwelling(s)'
<1>1. /\ lastFix' = NoFix /\ events' = <<Replayed>>
      /\ UNCHANGED <<at, clock, sample, hushed, shownStage, savedStage>>
  BY DEF RestartEngine
<1>2. Len(<<Replayed>>) = 1 /\ <<Replayed>> # <<>> /\ DOMAIN <<Replayed>> = {1} /\ <<Replayed>>[1] = Replayed
  OBVIOUS
<1>3. OneWaits'
  BY <1>1, <1>2 DEF OneWaits, OneQueued
<1>4. Earned(shownStage.index, s)
  BY DEF Tracked
<1>5. Tracked(s, s)'
  BY <1>1, <1>4 DEF Tracked, Earned, Reliable
<1>6. Dwelling(s)'
  <2>1. shownStage.gap # NoGap => ~Unknowing(shownStage, lastFix) /\ Since(shownStage, lastFix) = shownStage.gap
    BY DEF Unknowing, Since
  <2>2. NoFix.time < sample.time
    BY DEF NoFix, Tracked, StopTypeOK, Fix
  <2> SUFFICES ASSUME shownStage.gap # NoGap, shownStage.index >= 1
               PROVE  /\ Reliable(sample) /\ Fresh(sample) /\ s = Stops[shownStage.index] =>
                           Short(shownStage.index - 1, sample.time - shownStage.gap)
                      /\ at = Stops[shownStage.index] /\ ~Reliable(sample) =>
                           Short(shownStage.index - 1, 2 * (clock - hushed - shownStage.gap))
    BY <1>1, <2>2 DEF Dwelling, Unknowing, Since, Reliable, Fresh, Short
  <2> QED BY <2>1 DEF Dwelling
<1>7. Ahead'
  BY <1>1 DEF Ahead
<1> QED BY <1>3, <1>5, <1>6, <1>7

\* What the bus has behind it at s, of an index and a phase.
Behind(l, s) ==
    /\ Earned(l.index, s)
    /\ l.phase # "pre_departure" => s >= 1
    /\ l.phase = "completed" => Stops[Terminus + 1] <= s

LEMMA PersistTrue ==
    ASSUME RoundTrip, HeardInTime, StopTypeOK, StagesOK, OneWaits, Ahead, NEW s, NEW r, Tracked(s, r), Dwelling(s),
           events # <<>>, shownStage.phase # "completed"
    PROVE  LET m == Reduced.live
               stage == IF savedStage.phase = "completed" THEN m ELSE Persisted(Reduced)
           IN  /\ ReductionOK(Reduced, sample, lastFix, shownStage.index)
               /\ IF lastFix.time < sample.time
                  THEN /\ Reduced = Reduce(sample, lastFix, shownStage)
                       /\ ReducedTrue(m, sample, lastFix, shownStage, s)
                  ELSE m = shownStage
               /\ Behind(stage, s) /\ Behind(Persisted(Reduced), s) /\ stage.index \in Indices
               /\ stage.index = m.index \/ (~Fresh(sample) /\ lastFix.time < sample.time)
<1> DEFINE m == Reduced.live
           newer == lastFix.time < sample.time
           over == savedStage.phase = "completed"
           c == Checkpointed(sample, m, shownStage.index, Reduced.skipped, Reduced.missed)
<1>1. Taken.fix = sample /\ Taken.live = shownStage
  BY TakenNow DEF OneWaits
<1>2. ReductionOK(Reduced, sample, lastFix, shownStage.index)
  BY <1>1, TakenOK
<1>3. m \in LiveStage /\ StageOK(m) /\ sample \in Fix /\ lastFix \in Fix /\ shownStage \in LiveStage
  BY <1>2 DEF ReductionOK, StopTypeOK
<1>4. lastFix.time \in Int /\ sample.time \in Int /\ s \in Nat /\ r \in Nat /\ r <= s
  BY <1>3 DEF Fix, Tracked
<1>5. newer => Reduced = Reduce(sample, lastFix, shownStage)
  BY <1>1, <1>4 DEF Reduced
<1>6. ~newer => m = shownStage
  BY <1>1, <1>4 DEF Reduced
<1>7. Earned(shownStage.index, r) /\ Earned(shownStage.index, s)
  BY <1>4, RoadOK DEF Tracked, Earned
<1>8. newer => ReducedTrue(m, sample, lastFix, shownStage, s)
  <2> SUFFICES ASSUME newer PROVE ReducedTrue(Reduce(sample, lastFix, shownStage).live, sample, lastFix, shownStage, s)
    BY <1>5
  <2>1. /\ Drove(sample, lastFix, s, r) /\ 0 <= sample.time /\ (lastFix # NoFix => 0 <= lastFix.time)
    BY TrackedFix DEF Tracked
  <2>2. StageOK(shownStage) /\ (shownStage.phase # "pre_departure" => s >= 1)
    BY DEF StagesOK, Tracked
  <2>3. /\ Fresh(sample) /\ Reliable(sample) /\ shownStage.index >= 1 /\ s = Stops[shownStage.index]
        /\ ~Unknowing(shownStage, lastFix)
        => Short(shownStage.index - 1, sample.time - Since(shownStage, lastFix))
    BY DEF Dwelling
  <2>4. Pace \in Nat /\ GapAfter \in Nat /\ StaleAfter \in Int
    BY DEF HeardInTime
  <2> QED BY <1>3, <1>7, <2>1, <2>2, <2>3, <2>4, ReduceTrue
<1>9. Behind(shownStage, s) /\ Behind(savedStage, s)
  BY <1>7 DEF Tracked, Behind
<1>10. Behind(m, s) /\ m.index >= shownStage.index
  <2>1. shownStage.index >= shownStage.index
    <3>1. shownStage.index \in Indices
      BY <1>3 DEF LiveStage
    <3>2. shownStage.index \in Nat
      BY <3>1, RoadOK
    <3> QED BY <3>2
  <2> QED BY <1>6, <1>8, <1>9, <2>1 DEF ReducedTrue, StageTrue, Behind
<1>11. ~over => /\ c.index = Larger(m.index, savedStage.index) /\ c.index \in Indices
                /\ c.phase = (IF m.phase = "pre_departure" THEN savedStage.phase ELSE m.phase)
  <2> SUFFICES ASSUME ~over PROVE /\ c.index = Larger(m.index, savedStage.index) /\ c.index \in Indices
                                  /\ c.phase = (IF m.phase = "pre_departure" THEN savedStage.phase ELSE m.phase)
    OBVIOUS
  <2>1. c \in SavedStage /\ c.index = Larger(m.index, savedStage.index)
        /\ c.phase = (IF m.phase = "pre_departure" THEN savedStage.phase ELSE m.phase)
    BY <1>3, CheckpointOK DEF StopTypeOK, StagesOK
  <2> QED BY <2>1 DEF SavedStage
<1>12. Persisted(Reduced) = (IF over THEN savedStage ELSE c)
  BY DEF Persisted
<1>13. m.index \in Nat /\ m.index \in Indices /\ savedStage.index \in Nat /\ shownStage.index \in Nat
  BY <1>3, RoadOK DEF LiveStage, StopTypeOK, SavedStage
<1>14. ~over => c.index = m.index \/ (~Fresh(sample) /\ newer)
  <2> SUFFICES ASSUME ~over, Fresh(sample) \/ ~newer PROVE c.index = m.index
    OBVIOUS
  <2>1. CASE savedStage.index = shownStage.index
    BY <1>10, <1>11, <1>13, <2>1 DEF Larger
  <2>2. CASE savedStage.index # shownStage.index
    <3>1. newer /\ m.index = savedStage.index
      BY <1>5, <2>2 DEF Ahead
    <3> QED BY <1>11, <1>13, <3>1 DEF Larger
  <2> QED BY <2>1, <2>2
<1> HIDE DEF c, m, newer
<1>15. ~over => Behind(c, s)
  BY <1>9, <1>10, <1>11 DEF Behind, Larger
<1> QED BY <1>2, <1>5, <1>6, <1>8, <1>9, <1>10, <1>11, <1>12, <1>13, <1>14, <1>15 DEF m, newer

\* Where the engine has the sample, only its own gap is unaccounted for.
LEMMA DwellsOn ==
    ASSUME RoundTrip, HeardInTime, StopTypeOK, StagesOK, OneWaits, Ahead, NEW s, NEW r, Tracked(s, r), Dwelling(s),
           lastFix.time < sample.time, NEW m \in LiveStage, ReducedTrue(m, sample, lastFix, shownStage, s),
           NEW i \in Indices, i >= 1, Earned(i, s), i = m.index \/ ~Fresh(sample)
    PROVE  LET since == Since(m, sample)
           IN  /\ Reliable(sample) /\ Fresh(sample) /\ s = Stops[i] => Short(i - 1, sample.time - since)
               /\ at = Stops[i] => Short(i - 1, 2 * (clock - hushed - since))
<1> DEFINE since == Since(m, sample)
<1>1. /\ i - 1 \in Indices /\ Stops[i] \in Int /\ Stops[i] <= s /\ s \in Int
      /\ at = Stops[i] => s = at
  <2>1. s \in Int /\ s <= s
    BY DEF Tracked
  <2> QED BY <2>1, StandsThere
<1>2. clock \in Nat /\ hushed \in Nat /\ hushed <= StaleAfter /\ sample.time \in Int /\ since \in Int /\ StaleAfter \in Nat
      /\ Pace \in Nat /\ GapAfter \in Nat
  <2>1. since \in Int
    BY DEF Since, LiveStage, StopTypeOK, Fix
  <2> QED BY <2>1 DEF OneWaits, HeardInTime, StopTypeOK, Fix
<1>3. at = Stops[i] => clock - hushed <= sample.time /\ Fresh(sample)
  <2>1. at = s => clock - hushed <= sample.time
    BY DEF Tracked
  <2> QED BY <1>1, <1>2, <2>1 DEF Fresh
<1>4. ASSUME Fresh(sample), Reliable(sample), s = Stops[i]
      PROVE  Short(i - 1, 2 * (sample.time - since)) /\ Short(i - 1, sample.time - since)
  <2>1. Short(i - 1, 2 * (sample.time - since))
    BY <1>4 DEF ReducedTrue
  <2>2. sample.time - since \in Int
    BY <1>2
  <2> QED BY <1>1, <1>2, <2>1, <2>2, ShortHalf
<1>5. ASSUME at = Stops[i] PROVE Short(i - 1, 2 * (clock - hushed - since))
  <2>1. Fresh(sample) /\ s = Stops[i] /\ i = m.index /\ clock - hushed <= sample.time
    BY <1>1, <1>3, <1>5
  <2>2. CASE Reliable(sample)
    <3>1. sample.time <= clock - hushed
      BY <2>2 DEF Tracked
    <3>2. clock - hushed = sample.time
      BY <1>2, <2>1, <3>1
    <3> QED BY <1>4, <2>1, <2>2, <3>2
  <2>3. CASE ~Reliable(sample) /\ Unknowing(shownStage, lastFix)
    <3>1. since = sample.time
      BY <2>1, <2>3 DEF ReducedTrue
    <3>2. 2 * (clock - hushed - since) \in Int /\ 2 * (clock - hushed - since) <= 0
      BY <1>2, <2>1, <3>1
    <3> QED BY <1>1, <1>2, <3>2, ShortAtOnce
  <2>4. CASE ~Reliable(sample) /\ ~Unknowing(shownStage, lastFix)
    <3>1. since = Since(shownStage, lastFix) /\ i = shownStage.index
      BY <2>1, <2>4 DEF ReducedTrue
    <3> QED BY <1>5, <2>4, <3>1 DEF Dwelling
  <2> QED BY <2>2, <2>3, <2>4
<1> QED BY <1>4, <1>5 DEF since

LEMMA HandleTurn ==
    ASSUME RoundTrip, HeardInTime, StopTypeOK, StagesOK, OneWaits, Ahead, NEW s, NEW r, Tracked(s, r), Dwelling(s),
           NEW outcome \in {"done", "not_saved", "not_shown"}, HandleEvent(outcome)
    PROVE  OneWaits' /\ Ahead' /\ \E q \in {r, s} : Tracked(s, q)' /\ Dwelling(s)'
<1> DEFINE m == Reduced.live
           saved == Persisted(Reduced)
           stage == IF savedStage.phase = "completed" THEN m ELSE saved
           newer == lastFix.time < sample.time
<1>1. /\ events # <<>> /\ Write(outcome, Taken, Reduced)
      /\ events' = (IF outcome = "done" THEN Tail(events) ELSE Append(Tail(events), Replayed))
      /\ UNCHANGED <<at, clock, sample, hushed>>
  BY DEF HandleEvent, Taken, Reduced
<1>2. /\ Taken.fix = sample /\ Taken.live = shownStage
      /\ events' = (IF outcome = "done" THEN <<>> ELSE <<Replayed>>)
  <2>1. Taken.fix = sample /\ Taken.live = shownStage /\ Tail(events) = <<>>
    BY <1>1, TakenNow DEF OneWaits
  <2>2. Append(<<>>, Replayed) = <<Replayed>>
    BY DEF Replayed
  <2> QED BY <1>1, <2>1, <2>2, Zenon
<1>3. /\ Len(events') <= 1 /\ \A k \in DOMAIN events' : events'[k] = Replayed
      /\ events' = <<>> => outcome = "done"
  BY <1>2
<1>4. OneWaits' <=> (outcome = "done" => lastFix' = sample \/ shownStage'.phase = "completed")
  <2>1. outcome = "done" <=> events' = <<>>
    BY <1>2, <1>3
  <2> QED BY <1>1, <1>3, <2>1 DEF OneWaits, OneQueued
<1>5. /\ s \in Nat /\ r \in Nat /\ r <= s /\ s <= at
      /\ sample.place = PlaceOf(s) /\ 0 <= sample.time /\ sample.time <= clock
      /\ Reliable(sample) => sample.time <= clock - hushed
      /\ at = s => clock - hushed <= sample.time
      /\ Earned(shownStage.index, r)
  BY DEF Tracked
<1>6. Behind(savedStage, s) /\ Behind(shownStage, s)
  BY <1>5, RoadOK DEF Tracked, Behind, Earned
<1>7. CASE shownStage.phase = "completed"
  <2>1. UNCHANGED <<shownStage, savedStage, lastFix>>
    BY <1>1, <1>2, <1>7 DEF Write
  <2>2. Tracked(s, r)' /\ Dwelling(s)' /\ Ahead'
    BY <1>1, <2>1 DEF Tracked, Dwelling, Ahead, Earned, Short, Since, Unknowing, Fresh, Reliable, Reduce
  <2> QED BY <1>4, <1>7, <2>1, <2>2
<1>8. CASE shownStage.phase # "completed"
  <2>1. /\ ReductionOK(Reduced, sample, lastFix, shownStage.index)
        /\ newer => Reduced = Reduce(sample, lastFix, shownStage) /\ ReducedTrue(m, sample, lastFix, shownStage, s)
        /\ ~newer => m = shownStage
        /\ Behind(stage, s) /\ Behind(saved, s) /\ stage.index \in Indices
        /\ stage.index = m.index \/ (~Fresh(sample) /\ newer)
    BY <1>1, <1>8, PersistTrue
  <2>2. /\ savedStage' = (IF outcome = "not_saved" THEN savedStage ELSE saved)
        /\ outcome # "done" => shownStage' = shownStage /\ lastFix' = lastFix
        /\ outcome = "done" =>
             /\ shownStage'.index = stage.index /\ shownStage'.phase = stage.phase /\ shownStage'.gap = m.gap
             /\ lastFix' = (IF sample.time > lastFix.time THEN sample ELSE lastFix)
    BY <1>1, <1>2, <1>8, <2>1, WriteTrue
  <2>3. m \in LiveStage
    BY <2>1 DEF ReductionOK
  <2>4. (savedStage.phase = "completed" => saved = savedStage) /\ (savedStage.phase # "completed" => saved = stage)
    BY DEF Persisted
  <2>5. /\ lastFix.time \in Int /\ sample.time \in Int
        /\ ~newer => lastFix = sample /\ r = s
    BY TrackedFix
  <2> HIDE DEF m, saved, stage
  <2>6. Behind(savedStage', s)
    BY <1>6, <2>1, <2>2
  <2>7. CASE outcome # "done"
    <3>1. Tracked(s, r)'
      <4>1. Earned(savedStage'.index, s)
        BY <2>6 DEF Behind
      <4>2. /\ shownStage.phase # "pre_departure" \/ savedStage'.phase # "pre_departure" => s >= 1
            /\ shownStage.phase = "completed" \/ savedStage'.phase = "completed" => Stops[Terminus + 1] <= s
        BY <1>6, <2>6 DEF Behind
      <4>3. shownStage' = shownStage /\ lastFix' = lastFix
        BY <2>2, <2>7
      <4> QED BY <1>1, <4>1, <4>2, <4>3 DEF Tracked, Earned, Reliable
    <3>2. Dwelling(s)'
      BY <1>1, <2>2, <2>7 DEF Dwelling, Short, Since, Unknowing, Fresh, Reliable
    <3>3. Ahead'
      <4>1. Reduce(sample, lastFix, shownStage)' = Reduce(sample, lastFix, shownStage) /\ Fresh(sample)' = Fresh(sample)
        BY <1>1, <2>2, <2>7 DEF Reduce, Fresh
      <4>2. CASE outcome = "not_saved" \/ savedStage.phase = "completed"
        BY <1>1, <2>2, <2>4, <2>7, <4>1, <4>2 DEF Ahead
      <4>3. CASE outcome # "not_saved" /\ savedStage.phase # "completed"
        <5>1. savedStage' = stage /\ shownStage' = shownStage /\ lastFix' = lastFix
          BY <2>2, <2>4, <2>7, <4>3
        <5>2. newer \/ stage.index = shownStage.index
          BY <2>1
        <5>3. newer /\ Fresh(sample) => Reduce(sample, lastFix, shownStage).live.index = stage.index
          BY <2>1 DEF m
        <5> QED BY <1>1, <4>1, <5>1, <5>2, <5>3 DEF Ahead
      <4> QED BY <4>2, <4>3
    <3>4. OneWaits'
      BY <1>4, <2>7
    <3> QED BY <3>1, <3>2, <3>3, <3>4
  <2>8. CASE outcome = "done"
    <3>1. lastFix' = sample /\ shownStage'.index = stage.index /\ shownStage'.phase = stage.phase /\ shownStage'.gap = m.gap
      BY <2>2, <2>5, <2>8
    <3>2. OneWaits'
      BY <1>4, <3>1
    <3>3. Ahead'
      BY <2>2, <2>4, <2>8, <3>1 DEF Ahead
    <3>4. Tracked(s, s)'
      <4>1. Earned(savedStage'.index, s) /\ Earned(shownStage'.index, s)
        BY <2>1, <2>6, <3>1 DEF Behind
      <4>2. /\ shownStage'.phase # "pre_departure" \/ savedStage'.phase # "pre_departure" => s >= 1
            /\ shownStage'.phase = "completed" \/ savedStage'.phase = "completed" => Stops[Terminus + 1] <= s
        BY <2>1, <2>6, <3>1 DEF Behind
      <4>3. s <= s /\ lastFix' = sample' /\ s = s
        BY <1>1, <1>5, <3>1
      <4> QED BY <1>1, <1>5, <4>1, <4>2, <4>3 DEF Tracked, Earned, Reliable
    <3>5. Dwelling(s)'
      <4> DEFINE i == stage.index
                 since == Since(m, sample)
      <4>1. since = Since(shownStage', lastFix') /\ shownStage'.index = i
        BY <3>1 DEF Since
      <4> SUFFICES ASSUME i >= 1
                   PROVE  /\ Reliable(sample) /\ Fresh(sample) /\ s = Stops[i] => Short(i - 1, sample.time - since)
                          /\ at = Stops[i] => Short(i - 1, 2 * (clock - hushed - since))
        <5> HIDE DEF i, since
        <5> QED BY <1>1, <4>1 DEF Dwelling, Short, Fresh, Reliable, Since
      <4>2. Earned(i, s) /\ i \in Indices
        BY <2>1 DEF Behind
      <4>3. CASE newer
        <5>1. ReducedTrue(m, sample, lastFix, shownStage, s) /\ (i = m.index \/ ~Fresh(sample))
          BY <2>1, <4>3
        <5> HIDE DEF i
        <5> QED BY <2>3, <4>2, <4>3, <5>1, DwellsOn
      <4>4. CASE ~newer
        <5>1. i = shownStage.index /\ since = Since(shownStage, lastFix) /\ lastFix = sample
          BY <2>1, <2>5, <4>4
        <5>2. ~Unknowing(shownStage, lastFix) /\ ~(lastFix.time < sample.time)
          BY <4>4, <5>1, TrackedFix DEF Unknowing
        <5>3. at = Stops[i] => Short(i - 1, 2 * (clock - hushed - since))
          BY <5>1, <5>2 DEF Dwelling
        <5>4. Reliable(sample) /\ Fresh(sample) /\ s = Stops[i] => Short(i - 1, sample.time - since)
          BY <5>1, <5>2 DEF Dwelling
        <5> QED BY <5>3, <5>4
      <4> QED BY <4>3, <4>4
    <3> QED BY <3>2, <3>3, <3>4, <3>5
  <2> QED BY <2>7, <2>8
<1> QED BY <1>7, <1>8

LEMMA TurnStart ==
    ASSUME RoundTrip, HeardInTime, StopInit
    PROVE  TurnInv
<1>1. StopTypeOK /\ StagesOK
  BY StagesStart
<1> DEFINE e == [fix |-> sample, live |-> shownStage]
<1>2. /\ at = 0 /\ clock = 0 /\ sample = [time |-> 0, place |-> 0, motion |-> "stopped"] /\ shownStage = Untold
      /\ lastFix = NoFix /\ hushed = 0 /\ events = <<e>>
      /\ savedStage.phase = "pre_departure" /\ savedStage.index = 0
      /\ shownStage.phase = "pre_departure" /\ shownStage.index = 0
  BY DEF StopInit, Untold
<1>3. MaxQuiet \in Nat /\ 0 <= Stops[Terminus + 1] /\ Turn \in Nat
  BY BackOK DEF HeardInTime
<1>4. OneWaits
  <2>1. Len(events) <= 1 /\ events # <<>> /\ \A k \in DOMAIN events : events[k] = e
    <3> HIDE DEF e
    <3> QED BY <1>2
  <2> HIDE DEF e
  <2>2. clock \in Nat /\ hushed \in 0 .. MaxQuiet /\ at \in Nat /\ at <= Stops[Terminus + 1]
    BY <1>2, <1>3
  <2> QED BY <2>1, <2>2 DEF OneWaits, OneQueued, e
<1>5. Ahead
  BY <1>2 DEF Ahead
<1>6. \A n \in Int : Earned(0, n)
  BY RoadOK DEF Earned
<1>7. PlaceOf(0) = 0
  BY <1>3 DEF PlaceOf
<1>8. Tracked(0, 0)
  BY <1>2, <1>6, <1>7 DEF Tracked
<1>9. Dwelling(0)
  BY <1>2 DEF Dwelling
<1> QED BY <1>1, <1>4, <1>5, <1>8, <1>9 DEF TurnInv

\* No engine starts while the checkpoint holds a stop that the live record misses.
EngineInTime == RestartEngine => savedStage.index = shownStage.index

LEMMA TurnStep ==
    ASSUME RoundTrip, HeardInTime, MaxQueued = 1, TurnInv, [StopNext]_stopVars, [EngineInTime]_stopVars
    PROVE  TurnInv'
<1>1. StopTypeOK' /\ StagesOK'
  BY StagesStep DEF TurnInv
<1>2. PICK s \in Nat, r \in Nat : Tracked(s, r) /\ Dwelling(s)
  BY DEF TurnInv
<1>3. StopTypeOK /\ StagesOK /\ OneWaits /\ Ahead
  BY DEF TurnInv
<1> SUFFICES OneWaits' /\ Ahead' /\ \E u, v \in Nat : Tracked(u, v)' /\ Dwelling(u)'
  BY <1>1 DEF TurnInv
<1>4. CASE UNCHANGED stopVars
  <2>1. OneWaits' /\ Ahead'
    BY <1>3, <1>4 DEF stopVars, OneWaits, OneQueued, Ahead, Fresh, Reduce
  <2>2. Tracked(s, r)' /\ Dwelling(s)'
    BY <1>2, <1>4 DEF stopVars, Tracked, Dwelling, Earned, Short, Since, Unknowing, Fresh, Reliable
  <2> QED BY <2>1, <2>2
<1>5. ASSUME NEW step \in 0 .. Pace, NEW motion \in {"lost", "uncertain", "moving", "stopped"},
             Heartbeat(step, motion)
      PROVE  OneWaits' /\ Ahead' /\ \E u, v \in Nat : Tracked(u, v)' /\ Dwelling(u)'
  <2>1. CASE motion = "lost"
    BY <1>2, <1>3, <1>5, <2>1, LostTurn
  <2>2. CASE motion # "lost"
    <3>1. at' \in Nat
      BY <1>3, <1>5 DEF Heartbeat, OneWaits, HeardInTime
    <3>2. PICK x \in Nat : x = at'
      BY <3>1
    <3>3. motion \in {"uncertain", "moving", "stopped"}
      BY <2>2
    <3>4. OneWaits' /\ Ahead' /\ Tracked(x, s)' /\ Dwelling(x)'
      BY <1>2, <1>3, <1>5, <3>2, <3>3, HeardTurn
    <3> QED BY <3>4
  <2> QED BY <2>1, <2>2
<1>6. ASSUME NEW outcome \in {"done", "not_saved", "not_shown"}, HandleEvent(outcome)
      PROVE  OneWaits' /\ Ahead' /\ \E u, v \in Nat : Tracked(u, v)' /\ Dwelling(u)'
  <2>1. OneWaits' /\ Ahead' /\ \E q \in {r, s} : Tracked(s, q)' /\ Dwelling(s)'
    BY <1>2, <1>3, <1>6, HandleTurn
  <2> QED BY <2>1
<1>7. CASE RestartEngine /\ EngineInTime
  <2>1. OneWaits' /\ Ahead' /\ Tracked(s, s)' /\ Dwelling(s)'
    BY <1>2, <1>3, <1>7, RestartTurn DEF EngineInTime
  <2> QED BY <2>1
<1> QED BY <1>4, <1>5, <1>6, <1>7 DEF StopNext

LEMMA TurnHolds ==
    ASSUME RoundTrip, TurnInv
    PROVE  CreditIsEarned /\ EndsAtTerminal
<1>1. PICK s \in Nat, r \in Nat : Tracked(s, r)
  BY DEF TurnInv
<1>2. r <= s /\ s <= at /\ at \in Nat /\ at <= Stops[Terminus + 1] /\ Stops[Terminus + 1] \in Int
  BY <1>1, BackOK DEF Tracked, TurnInv, OneWaits
<1>3. CreditIsEarned
  <2> SUFFICES ASSUME NEW i \in Indices, i < Larger(shownStage.index, savedStage.index) PROVE at >= Stops[i + 1]
    BY DEF CreditIsEarned
  <2>1. i < shownStage.index \/ i < savedStage.index
    BY DEF Larger
  <2>2. Stops[i + 1] <= r \/ Stops[i + 1] <= s
    BY <1>1, <2>1 DEF Tracked, Earned
  <2>3. Stops[i + 1] \in Int
    BY RoadOK
  <2> QED BY <1>2, <2>2, <2>3
<1>4. EndsAtTerminal
  BY <1>1, <1>2 DEF EndsAtTerminal, Tracked
<1> QED BY <1>3, <1>4

\* Also on a road that turns back every stop credited was behind the bus, and its
\* ride completes at the terminal, where the bus stops on the way back only where it
\* stopped on the way out, a standing bus is heard within half of the time that it
\* needs to come back, one snapshot waits at a time, and no engine starts between a
\* failed live write and its replay (tripStateReducer.ts:380-397).
THEOREM RoundTripCreditIsEarned ==
    RoundTrip /\ HeardInTime /\ MaxQueued = 1 /\ StopSpec /\ [][EngineInTime]_stopVars
        => [](CreditIsEarned /\ EndsAtTerminal)
<1> SUFFICES ASSUME RoundTrip, HeardInTime, MaxQueued = 1
             PROVE  StopSpec /\ [][EngineInTime]_stopVars => [](CreditIsEarned /\ EndsAtTerminal)
  OBVIOUS
<1>1. StopInit => TurnInv
  BY TurnStart
<1>2. TurnInv /\ [StopNext]_stopVars /\ [EngineInTime]_stopVars => TurnInv'
  BY TurnStep
<1>3. TurnInv => CreditIsEarned /\ EndsAtTerminal
  BY TurnHolds
<1> QED BY <1>1, <1>2, <1>3, PTL DEF StopSpec

-----------------------------------------------------------------------------
(* Until the first write fails or an engine restarts the live record is in step *)
(* with the checkpoint, on every road.                                          *)

LEMMA ReduceUnobserved ==
    ASSUME NEW f, NEW p, NEW l \in LiveStage
    PROVE  Reduce(f, p, l).live.unobserved = l.unobserved
<1>1. \A k \in LiveStage : \A gap, skipped, missed :
         Reduction(k, gap, skipped, missed).live.unobserved = k.unobserved
  BY DEF Reduction, LiveStage
<1>2. ASSUME NEW k \in LiveStage, NEW gap, NEW leaving, NEW base, NEW target, NEW anchored
      PROVE  Advance(f, p, k, gap, leaving, base, target, anchored).live.unobserved = k.unobserved
  <2> DEFINE next == IF target = 0 THEN 0 ELSE Consumed(target, f, p)
             there == ~leaving /\ next = Terminus /\ Run(target, Terminus, f, p)
             standing == there /\ k.departed /\ f.motion = "stopped" /\ f.place = Spot(Terminus)
             prior == k.arrival # NoArrival /\ f.time - k.arrival.last <= StaleAfter
             evidence == [from |-> IF prior THEN k.arrival.from ELSE f.time, last |-> f.time]
             phase == IF standing /\ prior /\ f.time > k.arrival.last THEN "completed" ELSE "in_service"
             arrival == IF standing THEN evidence ELSE NoArrival
  <2>1. CASE target = Unknown
    <3>1. Advance(f, p, k, gap, leaving, base, target, anchored).live =
            [[k EXCEPT !.phase = "in_service", !.index = base, !.arrival = NoArrival,
                       !.departed = k.departed \/ leaving] EXCEPT !.gap = anchored]
      BY <2>1 DEF Advance, Reduction, LiveStage
    <3> QED BY <3>1 DEF LiveStage
  <2>2. CASE target # Unknown
    <3>1. \E g : Advance(f, p, k, gap, leaving, base, target, anchored).live =
            [[k EXCEPT !.phase = phase, !.index = next, !.departed = k.departed \/ leaving, !.arrival = arrival]
              EXCEPT !.gap = g]
      BY <2>2 DEF Advance, Reduction
    <3> HIDE DEF phase, next, arrival
    <3>2. PICK g : Advance(f, p, k, gap, leaving, base, target, anchored).live =
            [[k EXCEPT !.phase = phase, !.index = next, !.departed = k.departed \/ leaving, !.arrival = arrival]
              EXCEPT !.gap = g]
      BY <3>1
    <3> QED BY <3>2 DEF LiveStage
  <2> QED BY <2>1, <2>2
<1> DEFINE inService == [l EXCEPT !.departed = @ \/ (l.phase = "in_service" /\ f.place # Spot(0))]
           kept == [l EXCEPT !.arrival = NoArrival]
<1>3. inService \in LiveStage /\ inService.unobserved = l.unobserved
  BY DEF LiveStage
<1>4. kept \in LiveStage /\ kept.unobserved = l.unobserved
  BY DEF LiveStage, NoArrival, Arrival
<1>5. \/ \E gap : Reduce(f, p, l) = Reduction(kept, gap, {}, {})
      \/ \E gap, leaving : Reduce(f, p, l) = Progress(f, p, inService, gap, leaving)
  BY DEF Reduce
<1> HIDE DEF inService, kept
<1>6. ASSUME NEW gap, NEW leaving PROVE Progress(f, p, inService, gap, leaving).live.unobserved = l.unobserved
  BY <1>2, <1>3 DEF Progress
<1> QED BY <1>1, <1>4, <1>5, <1>6

\* Evidence given without observation is of stops passed over.
LEMMA NewlyUnconfirmed ==
    ASSUME NEW f \in Fix, NEW l \in LiveStage, StageOK(l), NEW shown, NEW skipped, NEW missed,
           savedStage \in SavedStage, StageOK(savedStage), savedStage.phase # "completed",
           skipped \cup missed \subseteq 1 .. Terminus - 1, NEW i \in Indices,
           Checkpointed(f, l, shown, skipped, missed).history[i] \in Unconfirmed
    PROVE  \/ savedStage.history[i] \in Unconfirmed
           \/ i \in skipped \cup missed /\ i < Checkpointed(f, l, shown, skipped, missed).index
<1> DEFINE c == [l EXCEPT !.phase = IF @ = "pre_departure" THEN savedStage.phase ELSE @,
                          !.index = Larger(@, savedStage.index),
                          !.departed = @ \/ savedStage.departed,
                          !.arrival = IF savedStage.arrival.last > f.time THEN savedStage.arrival ELSE @]
           s == Checkpointed(f, l, shown, skipped, missed)
           reached == IF c.phase = "completed" THEN Terminus ELSE Larger(0, c.index - 1)
<1>1. /\ s.index = Larger(l.index, savedStage.index) /\ s \in SavedStage /\ StageOK(s)
      /\ s.phase = IF l.phase = "pre_departure" THEN savedStage.phase ELSE l.phase
      /\ s.history[i] \in Unconfirmed => savedStage.history[i] \in Unconfirmed \/ i \in skipped \cup missed
  BY CheckpointOK
<1>2. c.phase = s.phase /\ c.index = s.index
  BY <1>1 DEF LiveStage
<1>3. s.history = History(savedStage.history, c, shown, skipped, missed)
  BY DEF Checkpointed, SavedStage
<1>4. i > reached => s.history[i] = savedStage.history[i]
  BY <1>3 DEF History
<1> HIDE DEF c, s
<1>5. i \in skipped \cup missed => i >= 1 /\ i < Terminus
  BY RoadOK
<1>6. s.index \in Nat /\ i \in Nat /\ (s.phase = "completed" => s.index = Terminus)
  BY <1>1, RoadOK DEF SavedStage, StageOK
<1>7. i \in skipped \cup missed /\ ~(i > reached) => i < s.index
  BY <1>2, <1>5, <1>6, RoadOK DEF Larger
<1> QED BY <1>1, <1>4, <1>7 DEF s

\* The live record holds the checkpoint's stop and phase, and every stop that was
\* credited without being observed.
InStep ==
    /\ savedStage.index = shownStage.index /\ savedStage.phase = shownStage.phase
    /\ \A i \in Indices : savedStage.history[i] \in Unconfirmed =>
         i \in shownStage.unobserved /\ i < shownStage.index
    /\ UnobservedIsNotShown

\* No checkpoint goes ahead of a live record whose write fails.
WritesTogether == HandleEvent("not_shown") => UNCHANGED savedStage

LEMMA HandleQueued ==
    ASSUME StopTypeOK, OneQueued, NEW outcome \in {"done", "not_saved", "not_shown"}, HandleEvent(outcome)
    PROVE  OneQueued'
<1>1. events' = (IF outcome = "done" THEN Tail(events) ELSE Append(Tail(events), Replayed)) /\ events # <<>>
  BY DEF HandleEvent
<1>2. Tail(events) = <<>>
  BY <1>1, TakenNow
<1>3. Append(<<>>, Replayed) = <<Replayed>>
  BY DEF Replayed
<1>4. events' = (IF outcome = "done" THEN <<>> ELSE <<Replayed>>)
  BY <1>1, <1>2, <1>3, Zenon
<1>5. Len(events') <= 1 /\ \A k \in DOMAIN events' : events'[k] = Replayed
  BY <1>4
<1> QED BY <1>5 DEF OneQueued

LEMMA HandleInStep ==
    ASSUME StopTypeOK, StagesOK, OneQueued, InStep, NEW outcome \in {"done", "not_saved", "not_shown"},
           HandleEvent(outcome), outcome = "not_shown" => UNCHANGED savedStage
    PROVE  InStep'
<1>1. events # <<>> /\ Write(outcome, Taken, Reduced) /\ UNCHANGED sample
  BY DEF HandleEvent, Taken, Reduced
<1>2. StopTypeOK /\ StagesOK /\ OneQueued
  OBVIOUS
<1>3. Taken.fix = sample /\ Taken.live = shownStage
  BY <1>1, <1>2, TakenNow
<1>4. CASE outcome # "done"
  <2>1. UNCHANGED <<shownStage, savedStage>>
    BY <1>1, <1>4 DEF Write
  <2> QED BY <2>1 DEF InStep, UnobservedIsNotShown
<1> SUFFICES ASSUME outcome = "done"
             PROVE  /\ savedStage'.index = shownStage'.index /\ savedStage'.phase = shownStage'.phase
                    /\ \A i \in Indices : savedStage'.history[i] \in Unconfirmed =>
                         i \in shownStage'.unobserved /\ i < shownStage'.index
                    /\ UnobservedIsNotShown'
  BY <1>4 DEF InStep
<1>6. /\ savedStage.index = shownStage.index /\ savedStage.phase = shownStage.phase
      /\ \A i \in Indices : savedStage.history[i] \in Unconfirmed =>
           i \in shownStage.unobserved /\ i < shownStage.index
      /\ UnobservedIsNotShown
  BY DEF InStep
<1>7. CASE shownStage.phase = "completed"
  <2>1. UNCHANGED <<shownStage, savedStage>>
    BY <1>1, <1>3, <1>7 DEF Write
  <2> QED BY <1>6, <2>1 DEF UnobservedIsNotShown
<1>8. CASE shownStage.phase # "completed"
  <2> DEFINE m == Reduced.live
             c == Checkpointed(sample, m, shownStage.index, Reduced.skipped, Reduced.missed)
  <2>1. ReductionOK(Reduced, sample, lastFix, shownStage.index) /\ savedStage.phase # "completed"
    BY <1>1, <1>2, <1>3, <1>6, <1>8, TakenOK
  <2>2. /\ m \in LiveStage /\ StageOK(m) /\ Reduced.skipped \cup Reduced.missed \subseteq 1 .. Terminus - 1
        /\ sample \in Fix /\ savedStage \in SavedStage /\ StageOK(savedStage) /\ shownStage \in LiveStage
    BY <1>2, <2>1 DEF ReductionOK, StopTypeOK, StagesOK
  <2>3. Persisted(Reduced) = c
    BY <2>1 DEF Persisted
  <2>4. /\ savedStage' = c /\ shownStage'.index = c.index /\ shownStage'.phase = c.phase
        /\ shownStage'.unobserved = {i \in m.unobserved \cup Reduced.skipped \cup Reduced.missed : i < c.index}
        /\ \E l \in LiveStage :
             /\ l.index = c.index /\ l.phase = c.phase /\ l.unobserved = shownStage'.unobserved
             /\ shownStage'.atStop = Visited(sample, l)
    BY <1>1, <1>2, <1>3, <1>8, <2>1, <2>3, WriteTrue
  <2>5. m.unobserved = shownStage.unobserved
    <3>1. Reduced = Reduce(sample, lastFix, shownStage) \/ m = shownStage
      BY <1>3 DEF Reduced
    <3> QED BY <2>2, <3>1, ReduceUnobserved
  <2>6. /\ c \in SavedStage /\ c.index >= savedStage.index
        /\ \A i \in Indices : c.history[i] \in Unconfirmed =>
             \/ savedStage.history[i] \in Unconfirmed
             \/ i \in Reduced.skipped \cup Reduced.missed /\ i < c.index
    BY <2>1, <2>2, CheckpointOK, NewlyUnconfirmed
  <2> HIDE DEF m, c
  <2>7. c.index \in Nat /\ savedStage.index \in Nat /\ c.index \in Indices
    BY <2>2, <2>6, RoadOK DEF SavedStage
  <2>8. ASSUME NEW i \in Indices, c.history[i] \in Unconfirmed
        PROVE  i \in shownStage'.unobserved /\ i < c.index
    <3>1. CASE savedStage.history[i] \in Unconfirmed
      <4>1. i \in shownStage.unobserved /\ i < savedStage.index
        BY <1>6, <3>1
      <4>2. i < c.index
        BY <2>6, <2>7, <4>1, RoadOK
      <4> QED BY <2>4, <2>5, <4>1, <4>2
    <3>2. CASE i \in Reduced.skipped \cup Reduced.missed /\ i < c.index
      BY <2>4, <3>2
    <3> QED BY <2>6, <2>8, <3>1, <3>2
  <2>9. UnobservedIsNotShown'
    <3> SUFFICES ASSUME shownStage'.atStop # -1, c.history[shownStage'.atStop] \in Unconfirmed
                 PROVE  FALSE
      BY <2>4 DEF UnobservedIsNotShown, Unconfirmed
    <3>1. PICK l \in LiveStage :
             /\ l.index = c.index /\ l.phase = c.phase /\ l.unobserved = shownStage'.unobserved
             /\ shownStage'.atStop = Visited(sample, l)
      BY <2>4
    <3> DEFINE v == Visited(sample, l)
    <3>2. \/ v = Terminus
          \/ v = 0 /\ l.index = 0
          \/ v = l.index - 1 /\ l.index # 0 /\ v \notin l.unobserved
      BY <3>1 DEF Visited
    <3>3. v \in Indices
      BY <2>7, <3>1, <3>2, RoadOK DEF Indices
    <3> HIDE DEF v
    <3>4. v \in l.unobserved /\ v < c.index
      BY <2>8, <3>1, <3>3 DEF v
    <3>5. c.index <= Terminus
      BY <2>7 DEF Indices
    <3> QED BY <2>7, <3>1, <3>2, <3>4, <3>5, RoadOK
  <2> QED BY <2>4, <2>8, <2>9
<1> QED BY <1>7, <1>8

LEMMA StepInStep ==
    ASSUME StopTypeOK, StagesOK, OneQueued, MaxQueued = 1, [StopNext]_stopVars
    PROVE  OneQueued' /\ (InStep /\ [WritesTogether]_stopVars => InStep')
<1>1. CASE UNCHANGED stopVars
  BY <1>1 DEF stopVars, OneQueued, InStep, UnobservedIsNotShown
<1>2. ASSUME NEW step \in 0 .. Pace, NEW motion \in {"lost", "uncertain", "moving", "stopped"},
             Heartbeat(step, motion)
      PROVE  OneQueued' /\ (InStep => InStep')
  <2>1. UNCHANGED <<shownStage, savedStage>>
    BY <1>2 DEF Heartbeat
  <2>2. InStep => InStep'
    BY <2>1 DEF InStep, UnobservedIsNotShown
  <2>3. CASE motion = "lost"
    <3>1. UNCHANGED <<sample, events>>
      BY <1>2, <2>3 DEF Heartbeat
    <3> QED BY <2>1, <2>2, <3>1 DEF OneQueued
  <2>4. CASE motion # "lost"
    <3> DEFINE e == [fix |-> sample', live |-> shownStage']
    <3>1. Len(events) < 1 /\ events' = Append(events, e)
      BY <1>2, <2>1, <2>4 DEF Heartbeat
    <3>2. events \in Seq(Event) /\ Len(events) \in Nat
      BY DEF StopTypeOK
    <3> HIDE DEF e
    <3>3. events = <<>>
      BY <3>1, <3>2
    <3>4. Len(events') <= 1 /\ \A k \in DOMAIN events' : events'[k] = e
      BY <3>1, <3>3
    <3> QED BY <2>1, <2>2, <3>4 DEF OneQueued, e
  <2> QED BY <2>3, <2>4
<1>3. ASSUME NEW outcome \in {"done", "not_saved", "not_shown"}, HandleEvent(outcome)
      PROVE  OneQueued' /\ (InStep /\ [WritesTogether]_stopVars => InStep')
  <2>1. [WritesTogether]_stopVars /\ outcome = "not_shown" => UNCHANGED savedStage
    BY <1>3 DEF WritesTogether, stopVars
  <2> QED BY <1>3, <2>1, HandleQueued, HandleInStep
<1>4. CASE RestartEngine
  <2>1. events' = <<Replayed>> /\ UNCHANGED <<shownStage, savedStage>>
    BY <1>4 DEF RestartEngine
  <2>2. Len(events') <= 1 /\ \A k \in DOMAIN events' : events'[k] = Replayed
    BY <2>1
  <2>3. InStep => InStep'
    BY <2>1 DEF InStep, UnobservedIsNotShown
  <2> QED BY <2>2, <2>3 DEF OneQueued
<1> QED BY <1>1, <1>2, <1>3, <1>4 DEF StopNext

InStepInv == StopTypeOK /\ StagesOK /\ OneQueued /\ InStep

\* A first failure finds the live record in step.
SlipInv == StopTypeOK /\ StagesOK /\ OneQueued /\ slips \in Nat /\ (slips = 0 => InStep)

LEMMA InStepStart == StopInit => InStepInv /\ SlipInv
<1> SUFFICES ASSUME StopInit PROVE InStepInv /\ SlipInv
  OBVIOUS
<1> DEFINE e == [fix |-> sample, live |-> shownStage]
<1>1. events = <<e>> /\ slips = 0
  BY DEF StopInit
<1>2. Len(events) <= 1 /\ \A k \in DOMAIN events : events[k] = e
  <2> HIDE DEF e
  <2> QED BY <1>1
<1>3. InStep
  BY DEF StopInit, Untold, InStep, UnobservedIsNotShown, Unconfirmed
<1> QED BY <1>1, <1>2, <1>3, StagesStart DEF InStepInv, SlipInv, OneQueued

LEMMA InStepStep == InStepInv /\ MaxQueued = 1 /\ [StopNext]_stopVars /\ [WritesTogether]_stopVars => InStepInv'
  BY StagesStep, StepInStep DEF InStepInv

LEMMA SlipStep == SlipInv /\ MaxQueued = 1 /\ [StopNext]_stopVars => SlipInv'
<1> SUFFICES ASSUME SlipInv, MaxQueued = 1, [StopNext]_stopVars PROVE SlipInv'
  OBVIOUS
<1>1. StopTypeOK' /\ StagesOK' /\ OneQueued'
  BY StagesStep, StepInStep DEF SlipInv
<1>2. \/ slips' = slips /\ [WritesTogether]_stopVars
      \/ slips' = slips + 1
      \/ UNCHANGED slips /\ UNCHANGED savedStage
      \/ slips' = slips /\ HandleEvent("done")
  BY DEF StopNext, Heartbeat, HandleEvent, RestartEngine, stopVars
<1>3. slips' \in Nat /\ (slips' = 0 => slips' = slips)
  BY <1>2 DEF SlipInv
<1>4. slips' = 0 => InStep'
  <2> SUFFICES ASSUME slips = 0, slips' = slips PROVE InStep'
    BY <1>3
  <2>1. [WritesTogether]_stopVars
    BY <1>2 DEF WritesTogether, HandleEvent
  <2> QED BY <2>1, StepInStep DEF SlipInv
<1> QED BY <1>1, <1>3, <1>4 DEF SlipInv

\* On every road, however often the checkpoint cannot be written or an engine
\* restarts: while one snapshot waits at a time and no live write fails after its
\* checkpoint, a stop credited without being observed is not shown as the stop the
\* bus is at (tripStateReducer.ts:616).
THEOREM InStepUnobservedIsNotShown ==
    MaxQueued = 1 /\ StopSpec /\ [][WritesTogether]_stopVars => []UnobservedIsNotShown
<1> SUFFICES ASSUME MaxQueued = 1 PROVE StopSpec /\ [][WritesTogether]_stopVars => []UnobservedIsNotShown
  OBVIOUS
<1>1. InStepInv /\ [StopNext]_stopVars /\ [WritesTogether]_stopVars => InStepInv'
  BY InStepStep
<1>2. InStepInv => UnobservedIsNotShown
  BY DEF InStepInv, InStep
<1> QED BY <1>1, <1>2, InStepStart, PTL DEF StopSpec

\* On a road that turns back and comes home, where a standing bus is heard in time
\* and one snapshot waits at a time: with one failure at most, every stop credited
\* was behind the bus and its ride completes at the terminal; and however often the
\* checkpoint cannot be written or an engine restarts, all of ProgressIsTrue holds
\* while no live write fails after its checkpoint (tripStateReducer.ts:380-397).
THEOREM RoundTripProgressIsTrue ==
    RoundTrip /\ HeardInTime /\ MaxQueued = 1 /\ StopSpec =>
        /\ MaxSlips \in 0 .. 1 => [](CreditIsEarned /\ EndsAtTerminal)
        /\ [][WritesTogether]_stopVars => []ProgressIsTrue
<1> SUFFICES ASSUME RoundTrip, HeardInTime, MaxQueued = 1
             PROVE  /\ StopSpec /\ MaxSlips \in 0 .. 1 => [](CreditIsEarned /\ EndsAtTerminal)
                    /\ StopSpec /\ [][WritesTogether]_stopVars => []ProgressIsTrue
  OBVIOUS
<1>1. StopInit => TurnInv /\ InStepInv /\ SlipInv
  BY TurnStart, InStepStart
<1>2. TurnInv /\ InStepInv /\ [StopNext]_stopVars /\ [WritesTogether]_stopVars => (TurnInv /\ InStepInv)'
  <2> SUFFICES ASSUME TurnInv, InStepInv, [StopNext]_stopVars, [WritesTogether]_stopVars
               PROVE  TurnInv' /\ InStepInv'
    OBVIOUS
  <2>1. EngineInTime
    BY DEF EngineInTime, InStepInv, InStep
  <2> QED BY <2>1, TurnStep, InStepStep
<1>3. TurnInv /\ InStepInv => ProgressIsTrue
  BY TurnHolds DEF InStepInv, InStep, ProgressIsTrue
<1>4. StopSpec /\ [][WritesTogether]_stopVars => []ProgressIsTrue
  BY <1>1, <1>2, <1>3, PTL DEF StopSpec
<1>5. ASSUME MaxSlips \in 0 .. 1 PROVE StopSpec => [](CreditIsEarned /\ EndsAtTerminal)
  <2>1. TurnInv /\ SlipInv /\ [StopNext]_stopVars => (TurnInv /\ SlipInv)'
    <3> SUFFICES ASSUME TurnInv, SlipInv, [StopNext]_stopVars PROVE TurnInv' /\ SlipInv'
      OBVIOUS
    <3>1. EngineInTime
      <4> SUFFICES ASSUME RestartEngine PROVE savedStage.index = shownStage.index
        BY DEF EngineInTime
      <4>1. slips = 0
        BY <1>5 DEF RestartEngine, SlipInv
      <4> QED BY <4>1 DEF SlipInv, InStep
    <3> QED BY <3>1, TurnStep, SlipStep
  <2>2. TurnInv => CreditIsEarned /\ EndsAtTerminal
    BY TurnHolds
  <2> QED BY <1>1, <2>1, <2>2, PTL DEF StopSpec
<1> QED BY <1>4, <1>5

-----------------------------------------------------------------------------
(* The two compositions: a behaviour of either follows one part at a time.     *)

LEMMA RideEndsHasParts ==
    RideEndsSpec => Spec /\ PassengerInit /\ [][PassengerNext]_passengerVars
<1>1. RideEndsInit => Init /\ PassengerInit
  BY DEF RideEndsInit
<1>2. [RideEndsNext]_rideEndsVars => [Next]_vars /\ [PassengerNext]_passengerVars
  BY DEF RideEndsNext, rideEndsVars
<1> QED BY <1>1, <1>2, PTL DEF RideEndsSpec, Spec

LEMMA RideBusHasParts == RideBusSpec => Spec /\ StopSpec
<1>1. RideBusInit => Init /\ StopInit
  BY DEF RideBusInit
<1>2. [RideBusNext]_rideBusVars => [Next]_vars /\ [StopNext]_stopVars
  BY DEF RideBusNext, rideBusVars
<1> QED BY <1>1, <1>2, PTL DEF RideBusSpec, Spec, StopSpec

\* Feedback is asked for rides that the passenger boarded and that completed, never
\* for one that broke off, only vanished from the feed, or came after it: what a
\* page tracks, remembers or restores it boarded, and what it takes for completed
\* the node or the status endpoint said so of (PassengerWorkspace.tsx:528).
THEOREM RideEndsEarned == RideEndsSpec => []RideIsEarned
<1>1. PassengerInit => EarnedInv
  BY EarnedStart
<1>2. EarnedInv /\ [PassengerNext]_passengerVars => EarnedInv'
  BY EarnedStep
<1>3. EarnedInv => RideIsEarned
  BY DEF EarnedInv
<1> QED BY <1>1, <1>2, <1>3, RideEndsHasParts, PTL

\* The bus's side of its rides keeps every promise that its run checks: the one on
\* progress along the stops on a road that never turns back, and on one out and back
\* where the bus is heard in time.
THEOREM RideBusKeepsItsPromises ==
    Keyless = {} /\ RideBusSpec =>
        /\ [](Ownership /\ KeyNamesOneRide /\ PauseHolds) /\ TerminalStays /\ LiveFollowsDurable
        /\ []DurableLeads /\ CheckpointAdvances
        /\ OneWay /\ MaxQueued \in 0 .. 2 => []ProgressIsTrue
        /\ RoundTrip /\ HeardInTime /\ MaxQueued = 1 =>
             /\ MaxSlips \in 0 .. 1 => [](CreditIsEarned /\ EndsAtTerminal)
             /\ [][WritesTogether]_stopVars => []ProgressIsTrue
<1>1. Keyless = {} /\ Spec => [](Ownership /\ KeyNamesOneRide /\ PauseHolds)
  BY SpecOwnership, SpecKeyNamesOneRide, SpecPauseHolds, PTL
<1> QED BY <1>1, SpecTerminalStays, SpecLiveFollowsDurable, StopsNeverGoBack, OneWayProgressIsTrue,
          RoundTripProgressIsTrue, RideBusHasParts, PTL

\* So do the ends of rides: a completed ride has one return, and feedback is earned.
THEOREM RideEndsKeepsItsPromises == Keyless = {} /\ RideEndsSpec => [](OneReturn /\ RideIsEarned)
<1>1. Keyless = {} /\ RideEndsSpec => []OneReturn
  BY SpecOneReturn, RideEndsHasParts, PTL
<1> QED BY <1>1, RideEndsEarned, PTL
=============================================================================
