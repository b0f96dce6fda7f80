--------------------------- MODULE FirmwareUpdate ---------------------------
(* A tracker replaces its own firmware (hardware/src/main.cpp, fleet build)    *)
(* while its bus is reserved for maintenance by the same lock that a ride      *)
(* takes (backend routes/devices.ts). A reservation call that its caller gave  *)
(* up on may still commit, at any later time.                                  *)
EXTENDS Integers

VARIABLES
    lock,       \* _active_bus_locks/<bus>: "free", "ride" or "firmware"
    worker,     \* firmwareMaintenanceWorker(): its step, what it believes
    ask,        \* the reservation call it waits for: "none", sent or answered
    stray,      \* calls given up on that have not committed: action -> any left
    image,      \* the running image: "valid" or "pending"
    still,      \* the bus stands, the clock is set, no credential fault
    strayed     \* a call given up on has committed since

firmwareVars == <<lock, worker, ask, stray, image, still, strayed>>

Started == [step |-> "idle", recovered |-> FALSE, held |-> FALSE]

FirmwareInit ==
    /\ lock = "free"
    /\ worker = Started
    /\ ask = "none"
    /\ stray = [a \in {"acquire", "release"} |-> FALSE]
    /\ image = "valid"
    /\ still = TRUE
    /\ strayed = FALSE

-----------------------------------------------------------------------------
(* The backend and the road.                                                   *)

\* POST firmware/installation: a transaction takes a free lock, or gives back
\* the device's own.
Allowed(action) == action = "release" \/ lock = "free"
Committed(action) ==
    CASE action = "acquire" -> IF lock = "free" THEN "firmware" ELSE lock
      [] action = "release" -> IF lock = "firmware" THEN "free" ELSE lock

Commit ==
    /\ ask \in {"acquire", "release"}
    /\ lock' = Committed(ask)
    /\ ask' = IF Allowed(ask) THEN "yes" ELSE "no"
    /\ UNCHANGED <<worker, stray, image, still, strayed>>

CommitStray(action) ==
    /\ stray[action]
    /\ lock' = Committed(action)
    /\ stray' = [stray EXCEPT ![action] = FALSE]
    /\ strayed' = TRUE
    /\ UNCHANGED <<worker, ask, image, still>>

\* A stray call fails: its request never arrived, or its transaction gave up.
LoseStray(action) ==
    /\ stray[action]
    /\ stray' = [stray EXCEPT ![action] = FALSE]
    /\ UNCHANGED <<lock, worker, ask, image, still, strayed>>

\* A ride takes the lock and gives it back; its bus moves.
RideStarts == lock = "free" /\ lock' = "ride" /\ UNCHANGED <<worker, ask, stray, image, still, strayed>>
RideEnds == lock = "ride" /\ lock' = "free" /\ UNCHANGED <<worker, ask, stray, image, still, strayed>>
BusMoves == still' = ~still /\ UNCHANGED <<lock, worker, ask, stray, image, strayed>>

-----------------------------------------------------------------------------
(* The device.                                                                 *)

At(step) == worker.step = step
Go(step) == worker' = [worker EXCEPT !.step = step]

\* MAINTENANCE_HTTP_TIMEOUT_MS passes without an answer: the same as a refusal.
GiveUpCall ==
    /\ ask \in {"acquire", "release"}
    /\ \/ stray' = [stray EXCEPT ![ask] = TRUE]
       \/ UNCHANGED stray
    /\ ask' = "no"
    /\ UNCHANGED <<lock, worker, image, still, strayed>>

\* The answer is lost on its way.
LoseAnswer == ask = "yes" /\ ask' = "no" /\ UNCHANGED <<lock, worker, stray, image, still, strayed>>

\* Faulty: only the first release after a boot is repeated until it succeeds.
RecoverOnce == ~worker.recovered

\* After a boot, and after a release whose outcome is unknown, the worker first
\* releases, and does nothing else before that is acknowledged.
MustRelease == ~worker.recovered \/ worker.held

StartRelease ==
    /\ At("idle") /\ MustRelease
    /\ ask' = "release"
    /\ Go("releasing")
    /\ UNCHANGED <<lock, stray, image, still, strayed>>

EndRelease ==
    /\ At("releasing") /\ ask \in {"yes", "no"}
    /\ worker' = [step |-> "idle", recovered |-> ask = "yes", held |-> ask # "yes"]
    /\ ask' = "none"
    /\ UNCHANGED <<lock, stray, image, still, strayed>>

\* GET firmware: the release is offered to an idle bus only.
Offered == lock = "free"

\* checkForSignedFirmware().
CheckRelease ==
    /\ At("idle") /\ ~MustRelease /\ still /\ image = "valid"
    /\ Offered
    /\ worker' = [worker EXCEPT !.step = "acquiring", !.held = TRUE]
    /\ ask' = "acquire"
    /\ UNCHANGED <<lock, stray, image, still, strayed>>

\* Refused or unanswered: back to the worker's loop, which releases. Answered:
\* installed when the bus still stands, and released in any case.
EndAcquire ==
    /\ At("acquiring") /\ ask \in {"yes", "no"}
    /\ Go(IF ask = "no" THEN "idle" ELSE IF still THEN "flashing" ELSE "giving back")
    /\ ask' = "none"
    /\ UNCHANGED <<lock, stray, image, still, strayed>>

\* installSignedFirmware(): the bus moved, the stream broke or the image was not
\* the signed one of the manifest.
AbortFlash ==
    /\ At("flashing")
    /\ Go("giving back")
    /\ UNCHANGED <<lock, ask, stray, image, still, strayed>>

\* The image is complete; released, and restarted whatever the answer.
FinishFlash ==
    /\ At("flashing") /\ still
    /\ Go("rebooting")
    /\ ask' = "release"
    /\ UNCHANGED <<lock, stray, image, still, strayed>>

GiveBack ==
    /\ At("giving back") /\ ask = "none"
    /\ ask' = "release"
    /\ UNCHANGED <<lock, worker, stray, image, still, strayed>>

EndGiveBack ==
    /\ At("giving back") /\ ask \in {"yes", "no"}
    /\ worker' = [worker EXCEPT !.step = "idle", !.held = ask # "yes"]
    /\ ask' = "none"
    /\ UNCHANGED <<lock, stray, image, still, strayed>>

Restarted ==
    /\ worker' = Started
    /\ ask' = "none"
    /\ stray' = IF ask \in {"acquire", "release"} THEN [stray EXCEPT ![ask] = TRUE] ELSE stray

\* ESP.restart() into the new image, which has to prove itself.
RebootIntoCandidate ==
    /\ At("rebooting") /\ ask \in {"yes", "no"}
    /\ Restarted
    /\ image' = "pending"
    /\ UNCHANGED <<lock, still, strayed>>

\* markOtaValidAfterBackendAcceptance(), or the deadline and the rollback.
ValidateImage ==
    /\ image = "pending" /\ image' = "valid"
    /\ UNCHANGED <<lock, worker, ask, stray, still, strayed>>
RollBack ==
    /\ image = "pending" /\ image' = "valid"
    /\ Restarted
    /\ UNCHANGED <<lock, still, strayed>>

\* Power loss, a watchdog or a panic.
DeviceCrash ==
    /\ Restarted
    /\ UNCHANGED <<lock, image, still, strayed>>

WorkerStep ==
    \/ StartRelease \/ EndRelease \/ CheckRelease \/ EndAcquire \/ AbortFlash \/ FinishFlash
    \/ GiveBack \/ EndGiveBack \/ RebootIntoCandidate
CallStep == Commit \/ GiveUpCall \/ LoseAnswer
ImageStep == ValidateImage \/ RollBack
StrayStep == \E action \in {"acquire", "release"} : CommitStray(action) \/ LoseStray(action)
FirmwareNext ==
    \/ WorkerStep \/ CallStep \/ ImageStep \/ StrayStep
    \/ RideStarts \/ RideEnds \/ BusMoves \/ DeviceCrash

FirmwareSpec == FirmwareInit /\ [][FirmwareNext]_firmwareVars

-----------------------------------------------------------------------------
\* No ride runs on a bus whose tracker is writing flash (the comment at
\* devices.ts:260, "a stalled/crashed flash must not overlap a new ride"), as
\* long as no call that was given up on has committed behind the device's back.
FlashIsReserved == ~strayed /\ At("flashing") => lock = "firmware"

\* A bus reserved for maintenance is free again some day, whatever answer was
\* lost and however often the device crashed, unless it crashes for ever: the
\* same comment, "the same authenticated board releases after failure or on
\* reboot".
ReservationReturned ==
    []<><<DeviceCrash>>_firmwareVars \/ <>[]strayed \/ []<>(lock # "firmware")

\* Both promises of that comment: held while it is needed, and no longer.
ReservationHolds == []FlashIsReserved /\ ReservationReturned

\* The same comment taken at its word: "must not overlap a new ride".
NoRideWhileFlashing == ~(At("flashing") /\ lock = "ride")
=============================================================================
