------------------------- MODULE TelemetryDelivery -------------------------
(* One tracker delivering its samples (hardware/src/main.cpp) to the live      *)
(* record (backend deviceTelemetryService.ts): the newest-first queue in RTC   *)
(* memory, the flash checkpoint, one HTTPS call at a time whose outcome the    *)
(* device may never learn, and the backend's ordering rule. A call its caller  *)
(* gave up on goes on at the backend. A sample is the number of its capture,   *)
(* which is its place in the queue, a set; taken holds what the sample         *)
(* carries. The delay before a retry is any delay.                             *)
EXTENDS Integers, Sequences, FiniteSets

CONSTANTS
    Capacity,   \* places of the queue
    MaxTaken,   \* captures (bound)
    MaxTime,    \* ticks of true time (bound)
    Offsets,    \* how far the device clock may run ahead, in ticks
    Ahead,      \* how far ahead of the backend a sample may be, in ticks
    Margin,     \* TELEMETRY_FRESHNESS_MARGIN_MS, in ticks
    Delays,     \* how long a retry may be put off, in ticks
    MaxLate,    \* calls under way that nobody waits for (bound)
    MaxResets   \* resets of the device and corrections of its clock (bound)

ASSUME DeliveryAssumption ==
    /\ Capacity \in Nat \ {0} /\ MaxTaken \in Nat /\ MaxTime \in Nat /\ Margin \in Nat /\ Ahead \in Nat
    /\ Offsets \subseteq Nat /\ Delays \subseteq Nat /\ MaxResets \in Nat

VARIABLES
    now,        \* true time, which is the backend's clock
    device,     \* clock offset, number of resets and corrections, credential fault
    rtc,        \* the queue and its next sequence number, in RTC memory
    saved,      \* the checkpoint: sample confirmed last,
    unsure,     \*   and attempts since (Checkpoint)
    taken,      \* capture -> sequence number, device time, clock epoch and offset
    call,       \* the call the device waits for: sample, stage, stamp
    late,       \* calls nobody waits for, still under way
    live,       \* what the live record holds of the sample stored last
    acked       \* the sample acknowledged last

Flash == INSTANCE Checkpoint WITH Samples <- 1 .. MaxTaken, confirmed <- saved, maybe <- unsure
flashVars == <<saved, unsure>>
deliveryVars == <<now, device, rtc, flashVars, taken, call, late, live, acked>>

NoSample == 0
NoCall == [sample |-> NoSample, stage |-> "none", stamp |-> 0]
NothingShown == [sample |-> NoSample, seq |-> 0, stamp |-> 0, raw |-> 0]

Clock == now + device.offset
SeqNo(n) == taken[n].seq
TakenAt(n) == taken[n].at
Age(n) == Clock - TakenAt(n)

DeliveryInit ==
    /\ Flash!CheckpointInit
    /\ now = 0
    /\ \E o \in Offsets : device = [offset |-> o, resets |-> 0, fault |-> FALSE]
    /\ rtc = [queue |-> {}, next |-> 1]
    /\ taken = <<>>
    /\ call = NoCall
    /\ late = {}
    /\ live = NothingShown
    /\ acked = NoSample

-----------------------------------------------------------------------------
(* The queue.                                                                  *)

\* push(): a full queue gives up its oldest sample.
Pushed(q, n) == {m \in q : Cardinality(q) = Capacity => \E o \in q : o < m} \cup {n}

\* Faulty: what was captured during the call goes too.
AcknowledgedAll(q, n) == {}

\* acknowledgeThrough(): the sample with that sequence and those before it.
Acknowledged(q, n) == {m \in q : \A held \in q : SeqNo(held) = SeqNo(n) => m > held}

\* remove() and dropOlderThan().
Removed(q, n) == {m \in q : SeqNo(m) # SeqNo(n)}
Fresh(q) == {m \in q : Age(m) <= Margin}

-----------------------------------------------------------------------------
(* The device.                                                                 *)

\* evaluateTelemetry() and enqueueFix(): one sample per evaluation; it is queued,
\* and saved to flash when the checkpoint is due and the radio is on.
Capture ==
    LET n == Len(taken) + 1 IN
    /\ n <= MaxTaken
    /\ taken # <<>> => now > taken[n - 1].when
    /\ taken' = Append(taken, [seq |-> rtc.next, at |-> Clock, when |-> now,
                               epoch |-> device.resets, fast |-> device.offset])
    /\ rtc' = [queue |-> Pushed(rtc.queue, n), next |-> rtc.next + 1]
    /\ (~device.fault /\ Flash!Save(n)) \/ UNCHANGED flashVars
    /\ UNCHANGED <<now, device, call, late, live, acked>>

\* publisherTask() drops what is stale and takes the newest sample; publishFix()
\* sends it, or drops a sample that the clock now puts in the future.
PublishFix ==
    /\ call = NoCall /\ ~device.fault
    /\ LET q == Fresh(rtc.queue) IN
       \E n \in q :
          /\ \A m \in q : m <= n
          /\ \/ /\ Age(n) \in 0 .. Margin - 1
                /\ call' = [NoCall EXCEPT !.sample = n, !.stage = "sent"]
                /\ rtc' = [rtc EXCEPT !.queue = q]
             \/ /\ Age(n) \notin 0 .. Margin - 1
                /\ rtc' = [rtc EXCEPT !.queue = Removed(q, n)]
                /\ UNCHANGED call
    /\ UNCHANGED <<now, device, flashVars, taken, late, live, acked>>

\* scheduleHttpsRetry(): a sample that would be too old by then is dropped.
RetryLater(n) ==
    \E delay \in Delays :
        rtc' = IF Age(n) >= 0 /\ Age(n) + delay < Margin THEN rtc
               ELSE [rtc EXCEPT !.queue = Removed(rtc.queue, n)]

\* The request never arrives or has been answered to nobody, or it goes on.
Abandoned ==
    \/ UNCHANGED late
    \/ /\ call.stage \in {"sent", "admitted"} /\ Cardinality(late) < MaxLate
       /\ late' = late \cup {call}

\* No answer in HTTP_REQUEST_TIMEOUT_MS, or no connection at all.
GiveUp ==
    /\ call # NoCall
    /\ RetryLater(call.sample)
    /\ call' = NoCall
    /\ Abandoned
    /\ UNCHANGED <<now, device, flashVars, taken, live, acked>>

\* httpResponseAction() of the answer: 202 and 200 accept, 401 latches the
\* credential fault, overload and absence are retried, other codes drop.
Answer ==
    /\ call.stage \in {"202", "200", "401", "retry", "reject"}
    /\ call' = NoCall
    /\ \/ /\ call.stage \in {"202", "200"}
          /\ rtc' = [rtc EXCEPT !.queue = Acknowledged(rtc.queue, call.sample)]
          /\ acked' = call.sample
          /\ UNCHANGED device
       \/ /\ call.stage = "401"
          /\ device' = [device EXCEPT !.fault = TRUE]
          /\ UNCHANGED <<rtc, acked>>
       \/ /\ call.stage = "retry"
          /\ RetryLater(call.sample)
          /\ UNCHANGED <<device, acked>>
       \/ /\ call.stage = "reject"
          /\ rtc' = [rtc EXCEPT !.queue = Removed(rtc.queue, call.sample)]
          /\ UNCHANGED <<device, acked>>
    /\ UNCHANGED <<now, flashVars, taken, late, live>>

\* disciplineClockFromGnss() or applyNtpCandidate() corrects the clock.
CorrectClock ==
    /\ device.resets < MaxResets
    /\ \E o \in Offsets \ {device.offset} :
           device' = [device EXCEPT !.offset = o, !.resets = @ + 1]
    /\ UNCHANGED <<now, rtc, flashVars, taken, call, late, live, acked>>

\* setup() after a reset: a valid queue in RTC memory is kept; when it was lost,
\* or the reset hit a mutation of it, the checkpoint is restored under its own
\* sequence number, if the journal can be read.
Reset ==
    /\ device.resets < MaxResets
    /\ \E o \in Offsets : device' = [offset |-> o, resets |-> device.resets + 1, fault |-> FALSE]
    /\ Flash!Boot
    /\ \/ UNCHANGED rtc
       \/ rtc' = [queue |-> {}, next |-> 1]
       \/ saved' # NoSample /\ rtc' = [queue |-> {saved'}, next |-> SeqNo(saved') + 1]
    /\ call' = NoCall
    /\ Abandoned
    /\ UNCHANGED <<now, taken, live, acked>>

-----------------------------------------------------------------------------
(* The backend, for the call that is waited for and for the others alike.      *)

\* parseTelemetryValue() refuses what is outside the window, and stamps the
\* sample with the earlier of its own time and the backend's. Credentials, the
\* budget and capacity may turn it away before any write.
Received(c) ==
    LET at == TakenAt(c.sample) IN
    IF at < now - (Margin + 1) \/ at > now + Ahead
    THEN {[c EXCEPT !.stage = "reject"]}
    ELSE {[c EXCEPT !.stage = stage, !.stamp = IF at > now THEN now ELSE at] :
             stage \in {"admitted", "retry", "401"}}

\* Faulty: only the stamp orders samples.
NewerByStamp(n, stamp) == stamp > live.stamp \/ (stamp = live.stamp /\ SeqNo(n) > live.seq)

\* telemetrySampleIsNewer(): a sample whose sequence and own time are both behind
\* is late; otherwise the stamp decides, then the sequence.
IsNewer(n, stamp) ==
    \/ live = NothingShown
    \/ /\ ~(SeqNo(n) < live.seq /\ TakenAt(n) < live.raw)
       /\ stamp > live.stamp \/ (stamp = live.stamp /\ SeqNo(n) > live.seq)

\* persistTelemetry(): one transaction on the live record. The answer is 202 for
\* a sample stored and 200 for one that is not newer; when the deadline passed
\* after the write was dispatched, the caller gets 503 all the same.
Persisted(c) ==
    IF IsNewer(c.sample, c.stamp)
    THEN {[c EXCEPT !.stage = stage] : stage \in {"202", "retry"}}
    ELSE {[c EXCEPT !.stage = "200"]}

Persist(c) ==
    live' = IF IsNewer(c.sample, c.stamp)
            THEN [sample |-> c.sample, seq |-> SeqNo(c.sample), stamp |-> c.stamp, raw |-> TakenAt(c.sample)]
            ELSE live

\* One step of the call that is waited for; its deadline may pass before the
\* write is dispatched.
Serve ==
    /\ \/ call.stage = "sent" /\ call' \in Received(call) /\ UNCHANGED live
       \/ call.stage = "admitted" /\ call' \in Persisted(call) /\ Persist(call)
       \/ call.stage = "admitted" /\ call' = [call EXCEPT !.stage = "retry"] /\ UNCHANGED live
    /\ UNCHANGED <<now, device, rtc, flashVars, taken, late, acked>>

\* The same for a call nobody waits for; nobody reads its answer.
ServeLate(c) ==
    /\ \/ /\ c.stage = "sent"
          /\ \E r \in Received(c) :
                 late' = (late \ {c}) \cup (IF r.stage = "admitted" THEN {r} ELSE {})
          /\ UNCHANGED live
       \/ /\ c.stage = "admitted"
          /\ Persist(c)
          /\ late' = late \ {c}
    /\ UNCHANGED <<now, device, rtc, flashVars, taken, call, acked>>

Tick ==
    /\ now < MaxTime
    /\ now' = now + 1
    /\ UNCHANGED <<device, rtc, flashVars, taken, call, late, live, acked>>

DeviceStep == Capture \/ PublishFix \/ GiveUp \/ Answer \/ CorrectClock \/ Reset
BackendStep == Serve \/ \E c \in late : ServeLate(c)
DeliveryNext == DeviceStep \/ BackendStep \/ Tick

DeliverySpec == DeliveryInit /\ [][DeliveryNext]_deliveryVars

-----------------------------------------------------------------------------
\* Samples whose order the backend can tell: of one boot under one clock, or of
\* any boots while the clock was right.
Comparable(m, n) ==
    \/ taken[m].epoch = taken[n].epoch
    \/ taken[m].fast = 0 /\ taken[n].fast = 0

\* However calls are delayed, repeated and overtaken, the live record never goes
\* back to an older sample (the comment at deviceTelemetryService.ts:260: "a
\* late-delivered older sample" must not be taken for a newer one).
NeverOlder ==
    [][live.sample # NoSample /\ Comparable(live.sample, live'.sample)
           => live'.sample >= live.sample]_deliveryVars

\* A sample the device was told is accepted is stored, or a newer one is.
AckedIsShown ==
    acked # NoSample /\ Comparable(acked, live.sample) => live.sample >= acked

\* An answer discards only what it is about: a sample captured while the call
\* was under way is still queued after it, unless it was too old to send.
AnswerKeepsNewer ==
    [][Answer => \A m \in rtc.queue : m > call.sample => m \in rtc'.queue]_deliveryVars

\* Both: neither a late sample nor a late answer takes back what is newer
\* (deviceTelemetryService.ts:260, telemetry_queue.h:124).
NothingGoesBack == NeverOlder /\ AnswerKeepsNewer
=============================================================================
