-------------------------------- MODULE RideMessages --------------------------------
(* What the users of a ride say.                                                     *)
(* Its chat: a member's panel (MessagingPanel.tsx), the endpoint that admits and     *)
(* stores a message (routes/sessions.ts, chatRateLimit.ts), the clearing of the chat *)
(* by an administrator and the deletion of the ride's history (routes/shifts.ts).    *)
(* Requests may be executed after the panel gave up on them.                         *)
(* A user's feedback, one a day: the form in two tabs of a browser                   *)
(* (FeedbackModal.tsx) with what localStorage remembers, the page's own transaction  *)
(* (feedbackStore.ts) under the database's rules, and the backend's endpoint         *)
(* (routes/feedback.ts), which pages that are older still call. The device's clock   *)
(* may be wrong and is set right at most once.                                       *)
EXTENDS Integers, FiniteSets, FiniteSetsExt

CONSTANTS
    MinGap,        \* MIN_GAP_MS, in the units of the clock
    MinuteSpan, MinuteMost, HourSpan, HourMost,   \* the two rolling windows
    MaxChatTime,   \* bound: the clock
    MaxTexts       \* bound: texts typed

\* Less than the shorter window, and the windows are nested.
ASSUME ChatAssumption ==
    /\ MinuteSpan \in Nat /\ HourSpan \in Nat /\ MinGap \in 1 .. MinuteSpan /\ MinuteSpan <= HourSpan
    /\ MinuteMost \in Nat /\ HourMost \in Nat /\ MaxTexts \in Nat

Texts == 1 .. MaxTexts
Limits == {[span |-> MinuteSpan, most |-> MinuteMost], [span |-> HourSpan, most |-> HourMost]}
Requests == 1 .. MaxTexts + 1
NotAsked == 0

VARIABLES
    chatTime,      \* the server's clock
    rideChat,      \* Firestore: is the ride open, and its history deleted; the rate document
    messages,      \* subcollection messages: requests with what they were for
    archived,      \* subcollection archivedMessages
    panel,         \* the text, pendingMessageRef, the request it waits for
    executing,     \* requests the backend has still to execute
    clearing,      \* the page of messages an administrator's clearing has read
    written        \* of each request, how often its message was created; and when

chatVars == <<chatTime, rideChat, messages, archived, panel, executing, clearing, written>>

NoPage == [at |-> "no", page |-> {}]
NoMessages == [sentAt |-> {}, last |-> -1]

ChatInit ==
    /\ chatTime = 0
    /\ rideChat = [open |-> TRUE, history |-> "kept", swept |-> {}, rate |-> NoMessages]
    /\ messages = {} /\ archived = {} /\ executing = {} /\ clearing = NoPage
    /\ panel = [text |-> 1, pending |-> NotAsked, asked |-> 1, waits |-> NotAsked, answer |-> "none"]
    /\ written = [times |-> [r \in Requests |-> 0], at |-> {}, for |-> [t \in Texts |-> 0]]

ChatTick == chatTime < MaxChatTime /\ chatTime' = chatTime + 1
            /\ UNCHANGED <<rideChat, messages, archived, panel, executing, clearing, written>>

-----------------------------------------------------------------------------
\* evaluateChatRate.

\* The times that count are those listed, and the last one, which the list of the
\* document does not yet have.
Previous(rate) == rate.sentAt \union (IF rate.last < 0 THEN {} ELSE {rate.last})

Recent(times, span) == {t \in times : chatTime - t < span}
RateAllows(rate) ==
    LET times == Previous(rate) IN
    /\ \A t \in times : chatTime - t >= MinGap
    /\ \A w \in Limits : Cardinality(Recent(times, w.span)) < w.most
NextSentAt(rate) == Recent(Previous(rate), Max({w.span : w \in Limits}))

-----------------------------------------------------------------------------
\* sendMessage: one transaction.

\* Faulty: what was cleared counts as never sent.
StillListed(r) == \E m \in messages : m.request = r
Retained(r) == \E m \in messages \union archived : m.request = r

Exists == rideChat.history # "gone"
Admits(r) == Exists /\ rideChat.open /\ RateAllows(rideChat.rate)
Created(q) ==
    /\ messages' = messages \union {q}
    /\ rideChat' = [rideChat EXCEPT !.rate = [sentAt |-> NextSentAt(rideChat.rate), last |-> chatTime]]
    /\ written' = [times |-> [written.times EXCEPT ![q.request] = @ + 1],
                   at |-> written.at \union {chatTime},
                   for |-> [written.for EXCEPT ![q.text] = @ + 1]]

Answered(q, a) == panel' = IF panel.waits = q.request THEN [panel EXCEPT !.answer = a] ELSE panel

ServeMessage ==
    \E q \in executing :
       /\ executing' = executing \ {q}
       /\ \/ /\ Retained(q.request) /\ Answered(q, "sent") /\ UNCHANGED <<messages, rideChat, written>>
          \/ /\ ~Retained(q.request) /\ Admits(q.request) /\ Created(q) /\ Answered(q, "sent")
          \/ /\ ~Retained(q.request) /\ ~Admits(q.request)
             /\ Answered(q, IF Exists /\ rideChat.open THEN "wait" ELSE "closed")
             /\ UNCHANGED <<messages, rideChat, written>>
       /\ UNCHANGED <<chatTime, archived, clearing>>

-----------------------------------------------------------------------------
\* handleSend: a text that was tried before goes under the same request. The
\* panel's own limits count what this panel knows to be sent, less than the
\* backend's do.
RequestFor == IF panel.pending # NotAsked THEN panel.pending ELSE panel.asked

Send ==
    /\ panel.waits = NotAsked /\ panel.text \in Texts /\ RequestFor \in Requests
    /\ executing' = executing \union {[request |-> RequestFor, text |-> panel.text]}
    /\ panel' = [panel EXCEPT !.pending = RequestFor, !.waits = RequestFor, !.answer = "none",
                              !.asked = IF RequestFor = panel.asked THEN panel.asked + 1 ELSE panel.asked]
    /\ UNCHANGED <<chatTime, rideChat, messages, archived, clearing, written>>

\* The answer, or the end of the wait; the request may still be executed.
HearSent ==
    /\ panel.waits # NotAsked
    /\ \/ panel.answer = "sent" /\ panel' = [panel EXCEPT !.waits = NotAsked, !.pending = NotAsked, !.text = panel.text + 1]
       \/ panel.answer = "closed" /\ panel' = [panel EXCEPT !.waits = NotAsked, !.pending = NotAsked]
       \/ panel.answer = "wait" /\ panel' = [panel EXCEPT !.waits = NotAsked]
       \/ panel' = [panel EXCEPT !.waits = NotAsked]
    /\ UNCHANGED <<chatTime, rideChat, messages, archived, executing, clearing, written>>

\* The text is edited: another text, another request.
Retype ==
    /\ panel.waits = NotAsked /\ panel.pending # NotAsked /\ panel.text \in Texts
    /\ panel' = [panel EXCEPT !.text = panel.text + 1, !.pending = NotAsked]
    /\ UNCHANGED <<chatTime, rideChat, messages, archived, executing, clearing, written>>

-----------------------------------------------------------------------------
\* clearMessages: pages read outside the transaction that archives them.

ReadPage ==
    /\ clearing.at = "no" /\ messages # {}
    /\ \E page \in {P \in SUBSET messages : P # {}} : clearing' = [at |-> "read", page |-> page]
    /\ UNCHANGED <<chatTime, rideChat, messages, archived, panel, executing, written>>

StillKept == Exists /\ rideChat.history = "kept"
Archive ==
    /\ clearing.at = "read" /\ clearing' = NoPage
    /\ IF StillKept
       THEN messages' = messages \ clearing.page /\ archived' = archived \union clearing.page
       ELSE UNCHANGED <<messages, archived>>
    /\ UNCHANGED <<chatTime, rideChat, panel, executing, written>>

\* The ride ends; its history is deleted: the job, the descendants in the order
\* the query finds them, the document itself.
CloseRide ==
    /\ rideChat.open /\ rideChat' = [rideChat EXCEPT !.open = FALSE]
    /\ UNCHANGED <<chatTime, messages, archived, panel, executing, clearing, written>>
StartDeletion ==
    /\ ~rideChat.open /\ rideChat.history = "kept" /\ rideChat' = [rideChat EXCEPT !.history = "job"]
    /\ UNCHANGED <<chatTime, messages, archived, panel, executing, clearing, written>>
Sweep ==
    /\ rideChat.history = "job"
    /\ \E first \in {"messages", "archived"} \ rideChat.swept :
          /\ rideChat' = [rideChat EXCEPT !.swept = rideChat.swept \union {first}]
          /\ messages' = IF first = "messages" THEN {} ELSE messages
          /\ archived' = IF first = "archived" THEN {} ELSE archived
    /\ UNCHANGED <<chatTime, panel, executing, clearing, written>>
EndDeletion ==
    /\ rideChat.swept = {"messages", "archived"} /\ rideChat.history = "job"
    /\ rideChat' = [rideChat EXCEPT !.history = "gone", !.rate = NoMessages]
    /\ UNCHANGED <<chatTime, messages, archived, panel, executing, clearing, written>>

ChatNext ==
    \/ ChatTick \/ Send \/ HearSent \/ Retype \/ ServeMessage
    \/ ReadPage \/ Archive \/ CloseRide \/ StartDeletion \/ Sweep \/ EndDeletion

ChatSpec == ChatInit /\ [][ChatNext]_chatVars

-----------------------------------------------------------------------------
\* No message is stored more often than it was meant, however its request was
\* repeated, cleared away or executed late (MessagingPanel.tsx:219, sessions.ts:385);
\* no window of time has more of them than the limits say ("enforces membership,
\* the 60/hr and 10/minute rolling limits, the 3s gap", sessions.ts:336); and a
\* clearing leaves nothing below a deleted ride (shifts.ts:427).
RateKept ==
    \A t \in written.at :
       /\ \A u \in written.at : u < t => t - u >= MinGap
       /\ \A w \in Limits : Cardinality({u \in written.at : u <= t /\ t - u < w.span}) <= w.most
ChatIsKept ==
    /\ \A r \in Requests : written.times[r] <= 1
    /\ \A t \in Texts : written.for[t] <= 1
    /\ RateKept
    /\ rideChat.history = "gone" => messages = {} /\ archived = {}

-----------------------------------------------------------------------------
\* The feedback.

CONSTANTS
    Tabs,          \* forms open at once
    Day,           \* the cooldown, in units of the clock
    MaxFeedbackTime, MaxFeedback   \* bounds: the server's clock; requests

ASSUME FeedbackAssumption == Day \in Nat /\ MaxFeedback \in Nat

Feedbacks == 1 .. MaxFeedback
NoStamp == -1
NoFeedback == 0

VARIABLES
    dayTime,       \* the server's clock
    ahead,         \* how far the device's clock is ahead of it
    given,         \* collection feedbacks: when each request was stored
    cooldown,      \* feedbackCooldowns: lastSubmittedAt
    form,          \* of each tab: the request kept for a retry, the transaction, the deadline it knows
    stored,        \* localStorage: feedbackCooldown
    lateCommits,   \* commits the page gave up on, with what they read
    thanked        \* requests the page thanked for

feedbackVars == <<dayTime, ahead, given, cooldown, form, stored, lateCommits, thanked>>

DeviceTime == dayTime + ahead
\* Requests are told apart only: the next is the first that nobody has used.
Used == {r \in Feedbacks : given[r] # NoStamp \/ (\E t \in Tabs : form[t].pending = r) \/ (\E c \in lateCommits : c.request = r)}
NextFeedback == {r \in Feedbacks \ Used : \A s \in Feedbacks \ Used : r <= s}
NoForm == [pending |-> NoFeedback, at |-> "no", read |-> NoStamp, until |-> 0]

FeedbackInit ==
    /\ dayTime = 0 /\ ahead \in {-1, 0, 1}
    /\ given = [r \in Feedbacks |-> NoStamp] /\ cooldown = NoStamp
    /\ form = [t \in Tabs |-> NoForm] /\ stored = NoStamp
    /\ lateCommits = {} /\ thanked = {}

FeedbackTick ==
    /\ dayTime < MaxFeedbackTime /\ dayTime' = dayTime + 1
    /\ UNCHANGED <<ahead, given, cooldown, form, stored, lateCommits, thanked>>
SetRight ==
    /\ ahead # 0 /\ ahead' = 0
    /\ UNCHANGED <<dayTime, given, cooldown, form, stored, lateCommits, thanked>>

-----------------------------------------------------------------------------
\* readStoredCooldownUntil: a stamp of the future counts as now.
Earlier(a, b) == IF a < b THEN a ELSE b
StoredUntil == IF stored = NoStamp THEN 0 ELSE Earlier(DeviceTime, stored) + Day
Waits(t) == form[t].until > DeviceTime \/ StoredUntil > DeviceTime

\* The form keeps its request for the same text until it is thanked for.
Press(t) ==
    /\ form[t].at = "no" /\ ~Waits(t)
    /\ \E r \in IF form[t].pending # NoFeedback THEN {form[t].pending} ELSE NextFeedback :
          form' = [form EXCEPT ![t].pending = r, ![t].at = "asked"]
    /\ UNCHANGED <<dayTime, ahead, given, cooldown, stored, lateCommits, thanked>>

\* The device's estimate; a stamp of the future says nothing.
StampAge == DeviceTime - cooldown
Estimated == cooldown # NoStamp /\ StampAge \in 0 .. Day - 1

\* What is already stored is not written again; a cooldown the device can measure
\* is remembered by this form and by the others.
ReadFeedback(t) ==
    /\ form[t].at = "asked"
    /\ \/ /\ given[form[t].pending] # NoStamp
          /\ form' = [form EXCEPT ![t].at = "stored"] /\ UNCHANGED stored
       \/ /\ given[form[t].pending] = NoStamp /\ Estimated
          /\ form' = [form EXCEPT ![t].at = "no", ![t].until = DeviceTime + Day - StampAge]
          /\ stored' = DeviceTime - StampAge
       \/ /\ given[form[t].pending] = NoStamp /\ ~Estimated
          /\ form' = [form EXCEPT ![t].at = "read", ![t].read = cooldown] /\ UNCHANGED stored
    /\ UNCHANGED <<dayTime, ahead, given, cooldown, lateCommits, thanked>>

\* feedbackCooldownReady, by the server's time.
CooldownReady == cooldown = NoStamp \/ dayTime >= cooldown + Day

Stores(r) == given' = [given EXCEPT ![r] = dayTime] /\ cooldown' = dayTime

\* The commit holds if what was read is still so.
CommitFeedback(t) ==
    /\ form[t].at = "read"
    /\ LET r == form[t].pending
           same == cooldown = form[t].read /\ given[r] = NoStamp IN
       \/ same /\ CooldownReady /\ Stores(r) /\ form' = [form EXCEPT ![t].at = "stored"]
       \/ same /\ ~CooldownReady /\ form' = [form EXCEPT ![t].at = "no"] /\ UNCHANGED <<given, cooldown>>
       \/ ~same /\ form' = [form EXCEPT ![t].at = "asked"] /\ UNCHANGED <<given, cooldown>>
    /\ UNCHANGED <<dayTime, ahead, stored, lateCommits, thanked>>
LateFeedback ==
    /\ \E c \in lateCommits :
          /\ lateCommits' = lateCommits \ {c}
          /\ IF cooldown = c.read /\ given[c.request] = NoStamp /\ CooldownReady
             THEN Stores(c.request) ELSE UNCHANGED <<given, cooldown>>
    /\ UNCHANGED <<dayTime, ahead, form, stored, thanked>>

Thanked(t) ==
    /\ form[t].at = "stored"
    /\ form' = [form EXCEPT ![t].at = "no", ![t].pending = NoFeedback, ![t].until = DeviceTime + Day]
    /\ stored' = DeviceTime /\ thanked' = thanked \union {form[t].pending}
    /\ UNCHANGED <<dayTime, ahead, given, cooldown, lateCommits>>
\* Bound: one commit at a time is under way after its page gave up on it.
FailFeedback(t) ==
    /\ form[t].at # "no" /\ lateCommits = {} /\ form' = [form EXCEPT ![t].at = "no"]
    /\ lateCommits' = IF form[t].at = "read"
                      THEN lateCommits \union {[request |-> form[t].pending, read |-> form[t].read]} ELSE lateCommits
    /\ UNCHANGED <<dayTime, ahead, given, cooldown, stored, thanked>>
\* The form is closed and opened again: its text stays, its request does not.
Reopen(t) ==
    /\ form[t].at = "no" /\ form[t] # NoForm
    /\ form' = [form EXCEPT ![t] = NoForm]
    /\ UNCHANGED <<dayTime, ahead, given, cooldown, stored, lateCommits, thanked>>

\* POST /api/feedback: the same documents in one transaction; a request that was
\* stored is acknowledged again. evaluateFeedback counts by the backend's clock.
Evaluated == cooldown = NoStamp \/ dayTime - cooldown >= Day
PostFeedback ==
    /\ \E r \in (Used \union NextFeedback) : given[r] = NoStamp /\ Evaluated /\ Stores(r)
    /\ UNCHANGED <<dayTime, ahead, form, stored, lateCommits, thanked>>

FeedbackNext ==
    \/ FeedbackTick \/ SetRight \/ LateFeedback \/ PostFeedback
    \/ \E t \in Tabs : Press(t) \/ ReadFeedback(t) \/ CommitFeedback(t) \/ Thanked(t) \/ FailFeedback(t) \/ Reopen(t)

FeedbackSpec == FeedbackInit /\ [][FeedbackNext]_feedbackVars

-----------------------------------------------------------------------------
\* Whatever the device's clock says and however many forms, retries and late
\* commits there are, two feedbacks are a day apart, and the page thanks for
\* those that are stored ("the rules alone use server time", feedbackStore.ts:81).
FeedbackIsKept ==
    /\ \A r, s \in Feedbacks :
          r # s /\ given[r] # NoStamp /\ given[s] # NoStamp => given[r] - given[s] >= Day \/ given[s] - given[r] >= Day
    /\ \A r \in thanked : given[r] # NoStamp
====================================================================================
