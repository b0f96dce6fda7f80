---------------------------- MODULE FirmwareNetwork ----------------------------
(* What the tracker's tasks share on the network. The DNS resolver                *)
(* (hardware/include/bounded_dns_resolver.h, dns_resolution_policy.h): its tasks  *)
(* share one query slot, wait for it no longer than a second each, and lwIP       *)
(* answers on a thread of its own, early, late, or after the station moved to     *)
(* another network. The health reports (hardware/src/main.cpp): the publisher     *)
(* task hands a report to a worker through a queue of one place and reads its     *)
(* result from another, which the worker overwrites; retries, the credential      *)
(* fault and the first acceptance after an update stay with the publisher.        *)
EXTENDS Integers, Sequences

CONSTANTS
    Tasks, Hosts, NoHost,
    MaxTickets, \* queries (bound)
    MaxNetworks \* networks joined (bound)

ASSUME ResolverAssumption == NoHost \notin Hosts /\ MaxTickets \in Nat /\ MaxNetworks \in Nat

VARIABLES
    network,    \* networkEpoch_
    slot,       \* ResolutionState: the query that owns it
    finished,   \*   and the one that finished last
    lookups,    \* lookups lwIP works on: host and network asked
    waiting     \* task -> host, ticket and what it was told

resolverVars == <<network, slot, finished, lookups, waiting>>

FreeSlot == [active |-> FALSE, ticket |-> 0, host |-> NoHost, network |-> 0, late |-> FALSE]
NoAnswer == [host |-> NoHost, network |-> 0]
NotWaiting == [host |-> NoHost, ticket |-> 0, told |-> NoAnswer]

ResolverInit ==
    /\ network = 1
    /\ slot = FreeSlot
    /\ finished = [ticket |-> 0, network |-> 0, late |-> FALSE, address |-> NoAnswer]
    /\ lookups = {}
    /\ waiting = [t \in Tasks |-> NotWaiting]

\* begin(): joins the query for the same host on the same network, starts one in
\* a free slot, or is turned away.
Resolve(t, host) ==
    /\ waiting[t].ticket = 0
    /\ \/ /\ slot.active /\ slot.host = host /\ slot.network = network
          /\ waiting' = [waiting EXCEPT ![t] = [NotWaiting EXCEPT !.host = host, !.ticket = slot.ticket]]
          /\ UNCHANGED <<slot, lookups>>
       \/ /\ ~slot.active /\ slot.ticket < MaxTickets
          /\ slot' = [active |-> TRUE, ticket |-> slot.ticket + 1, host |-> host,
                      network |-> network, late |-> FALSE]
          /\ lookups' = lookups \cup {[host |-> host, network |-> network]}
          /\ waiting' = [waiting EXCEPT ![t] = [NotWaiting EXCEPT !.host = host, !.ticket = slot.ticket + 1]]
    /\ UNCHANGED <<network, finished>>

\* dispatch() and found(): lwIP answers, or fails; an address that comes late or
\* on another network is dropped. The callback takes the ticket of the slot.
Complete(l) ==
    /\ l \in lookups
    /\ lookups' = lookups \ {l}
    /\ \/ /\ slot.active
          /\ slot' = [slot EXCEPT !.active = FALSE]
          /\ \E answer \in {NoAnswer, l} :
                 finished' = [ticket |-> slot.ticket, network |-> slot.network, late |-> slot.late,
                              address |-> IF network = slot.network /\ ~slot.late THEN answer ELSE NoAnswer]
       \/ ~slot.active /\ UNCHANGED <<slot, finished>>
    /\ UNCHANGED <<network, waiting>>

\* Faulty: the deadline of a caller gives up the query.
ReleasedSlot(t) == IF slot.ticket = waiting[t].ticket THEN [slot EXCEPT !.active = FALSE] ELSE slot

\* A caller that gives up leaves the query to its owner.
SlotAfter(t) == slot

\* poll(): pending, resolved, failed or expired.
Poll(t) ==
    /\ waiting[t].ticket # 0
    /\ \/ /\ slot.active /\ slot.ticket = waiting[t].ticket
          /\ slot.network # network \/ slot.late
          /\ waiting' = [waiting EXCEPT ![t] = NotWaiting]
          /\ slot' = SlotAfter(t)
       \/ /\ ~(slot.active /\ slot.ticket = waiting[t].ticket)
          /\ waiting' = [waiting EXCEPT ![t] =
                IF finished.ticket = @.ticket /\ finished.network = network /\ ~finished.late
                THEN [host |-> @.host, ticket |-> 0, told |-> finished.address] ELSE NotWaiting]
          /\ UNCHANGED slot
    /\ UNCHANGED <<network, finished, lookups>>

\* RESPONSE_BUDGET_MS after the start.
BudgetEnds ==
    \/ /\ slot.active /\ ~slot.late
       /\ slot' = [slot EXCEPT !.late = TRUE]
       /\ UNCHANGED <<network, finished, lookups, waiting>>
    \/ /\ ~finished.late
       /\ finished' = [finished EXCEPT !.late = TRUE]
       /\ UNCHANGED <<network, slot, lookups, waiting>>

\* networkChanged().
ChangeNetwork ==
    /\ network < MaxNetworks
    /\ network' = network + 1
    /\ UNCHANGED <<slot, finished, lookups, waiting>>

ResolverNext ==
    \/ BudgetEnds \/ ChangeNetwork
    \/ \E l \in lookups : Complete(l)
    \/ \E t \in Tasks : Poll(t) \/ \E host \in Hosts : Resolve(t, host)

-----------------------------------------------------------------------------
\* An address is given only to those who asked for that host, and it was looked
\* up on the network they are on: the slot is not released while lwIP still
\* works for it ("a caller deadline never releases underlying work",
\* dns_resolution_policy.h:12).
AddressIsOwn ==
    [][\A t \in Tasks :
           waiting'[t].told # waiting[t].told /\ waiting'[t].told # NoAnswer =>
               waiting'[t].told = [host |-> waiting[t].host, network |-> network]]_resolverVars

-----------------------------------------------------------------------------
\* The health reports.

CONSTANT MaxFailures    \* consecutiveRemoteDiagnosticFailures (bound)

ASSUME FailuresAssumption == MaxFailures \in Nat \ {0}

VARIABLES
    report,     \* the publisher: inFlight, due, published, failures
    jobs,       \* diagnosticJobs
    sender,     \* the worker: "idle" or "sending"
    results,    \* diagnosticResults
    refused,    \* credentialFaultActive
    overwritten \* a result nobody had read was overwritten

diagnosticVars == <<report, jobs, sender, results, refused, overwritten>>

DiagnosticInit ==
    /\ report = [inFlight |-> FALSE, due |-> FALSE, published |-> FALSE, failures |-> 0]
    /\ jobs = <<>>
    /\ sender = "idle"
    /\ results = <<>>
    /\ refused = FALSE
    /\ overwritten = FALSE

\* remoteDiagnosticIsDue() some time after the boot, the last report or failure.
BecomeDue ==
    /\ ~report.due
    /\ report' = [report EXCEPT !.due = TRUE]
    /\ UNCHANGED <<jobs, sender, results, refused, overwritten>>

\* Faulty: a report in flight is not waited for.
SendAgain == ~refused /\ report.due

\* publishRemoteDiagnostic() sends when nothing is in the way.
MaySend == ~refused /\ ~report.inFlight /\ report.due

\* scheduleRemoteDiagnosticRetry().
Failed(r) == [r EXCEPT !.failures = IF @ < MaxFailures THEN @ + 1 ELSE @, !.due = FALSE]

PublishReport ==
    /\ MaySend
    /\ \/ /\ Len(jobs) = 0
          /\ jobs' = <<"report">>
          /\ report' = [report EXCEPT !.inFlight = TRUE]
       \/ \* the queue is full, or the payload does not fit
          /\ report' = Failed(report)
          /\ UNCHANGED jobs
    /\ UNCHANGED <<sender, results, refused, overwritten>>

\* diagnosticWorker().
TakeJob ==
    /\ sender = "idle" /\ Len(jobs) = 1
    /\ jobs' = <<>>
    /\ sender' = "sending"
    /\ UNCHANGED <<report, results, refused, overwritten>>

FinishJob ==
    /\ sender = "sending"
    /\ sender' = "idle"
    /\ \E status \in {"accepted", "401", "403", "failed"} : results' = <<status>>
    /\ overwritten' = (overwritten \/ results # <<>>)
    /\ UNCHANGED <<report, jobs, refused>>

\* collectDiagnosticResult().
Collect ==
    /\ Len(results) = 1
    /\ results' = <<>>
    /\ LET settled == [report EXCEPT !.inFlight = FALSE] IN
       CASE Head(results) = "accepted" ->
                report' = [settled EXCEPT !.published = TRUE, !.failures = 0, !.due = FALSE] /\ UNCHANGED refused
         [] Head(results) = "401" -> report' = settled /\ refused' = TRUE
         [] Head(results) = "403" -> report' = [settled EXCEPT !.due = FALSE] /\ UNCHANGED refused
         [] Head(results) = "failed" -> report' = Failed(settled) /\ UNCHANGED refused
    /\ UNCHANGED <<jobs, sender, overwritten>>

DiagnosticNext == BecomeDue \/ PublishReport \/ TakeJob \/ FinishJob \/ Collect

-----------------------------------------------------------------------------
\* The report in flight is in exactly one place, and no result is overwritten
\* before the publisher has read it: a refused credential is never missed.
OneReport ==
    /\ ~overwritten
    /\ report.inFlight <=> Len(jobs) + (IF sender = "sending" THEN 1 ELSE 0) + Len(results) = 1
================================================================================
