-------------------------------- MODULE EdgeParts ---------------------------------
(* The two ends of the system: the tracker in the bus and the page a passenger  *)
(* has open. Their parts depend on each other through a promise only and share  *)
(* no variable: the tracker's clock, its position filter with the one behind    *)
(* it, the flash journal, the DNS resolver, the health reports and the update   *)
(* of its firmware; the page's session with what it shows, and its connection.  *)
(* Each behaviour follows one part, the scene, so that their states add up      *)
(* instead of multiplying.                                                      *)
EXTENDS DeviceClock, PositionFilter, CheckpointJournal, FirmwareNetwork, FirmwareUpdate,
        ClientLink

VARIABLE scene

trackerVars == <<clockVars, filterVars, journalVars, resolverVars, diagnosticVars, firmwareVars>>
pageVars == <<clientVars, linkVars>>
edgeVars == <<scene, trackerVars, pageVars>>

Scenes == {"clock", "filter", "journal", "resolver", "diagnostic", "firmware", "session", "dashboard"}

\* The parts that are not the scene rest in one of their initial states.
EdgeInit ==
    /\ scene \in Scenes
    /\ ClockInit /\ FilterInit /\ JournalInit
    /\ ResolverInit /\ DiagnosticInit /\ FirmwareInit
    /\ IF scene = "dashboard" THEN \E a \in Accounts : SignedIn(a) ELSE ClientInit
    /\ LinkInit
    /\ scene # "clock" => Synchronized /\ Stamp = 0 /\ Truthful
    /\ scene # "filter" => bus.at = 0

TrackerNext ==
    \/ scene = "clock" /\ ClockNext
       /\ UNCHANGED <<filterVars, journalVars, resolverVars, diagnosticVars, firmwareVars>>
    \/ scene = "filter" /\ FilterNext
       /\ UNCHANGED <<clockVars, journalVars, resolverVars, diagnosticVars, firmwareVars>>
    \/ scene = "journal" /\ JournalNext
       /\ UNCHANGED <<clockVars, filterVars, resolverVars, diagnosticVars, firmwareVars>>
    \/ scene = "resolver" /\ ResolverNext
       /\ UNCHANGED <<clockVars, filterVars, journalVars, diagnosticVars, firmwareVars>>
    \/ scene = "diagnostic" /\ DiagnosticNext
       /\ UNCHANGED <<clockVars, filterVars, journalVars, resolverVars, firmwareVars>>
    \/ scene = "firmware" /\ FirmwareNext
       /\ UNCHANGED <<clockVars, filterVars, journalVars, resolverVars, diagnosticVars>>

PageNext ==
    \/ scene = "session" /\ ClientNext /\ UNCHANGED linkVars
    \/ scene = "dashboard" /\ LinkNext

EdgeNext ==
    /\ UNCHANGED scene
    /\ \/ TrackerNext /\ UNCHANGED pageVars
       \/ PageNext /\ UNCHANGED trackerVars

\* The clock: a source that reports is read, RMC every second and NTP every
\* minute while the sources disagree, every six hours otherwise.
ClockFairness ==
    /\ WF_clockVars(scene = "clock" /\ ReadGnss)
    /\ WF_clockVars(scene = "clock" /\ ReadNtp)

\* The filter: the receiver reports for ever, and time passes while a reference
\* is kept; of the samples sent again and again, one is received.
FilterFairness ==
    /\ WF_filterVars(scene = "filter" /\ TrueFix)
    /\ WF_filterVars(scene = "filter" /\ AgeCapture)
    /\ WF_filterVars(scene = "filter" /\ AgeAnchor)
    /\ SF_filterVars(scene = "filter" /\ TrueFix /\ <<record, raw>>' # <<record, raw>>)

\* The update: the worker's loop runs, its calls end in time, the deadline of a
\* candidate comes, and a release that is repeated for ever is acknowledged.
FirmwareFairness ==
    /\ WF_firmwareVars(scene = "firmware" /\ WorkerStep)
    /\ WF_firmwareVars(scene = "firmware" /\ CallStep)
    /\ WF_firmwareVars(scene = "firmware" /\ ImageStep)
    /\ SF_firmwareVars(scene = "firmware" /\ ask = "release" /\ Commit)
    /\ SF_firmwareVars(scene = "firmware" /\ EndRelease /\ ask = "yes")

\* The page: promises and timers end, listeners are answered, React renders. A
\* retry that waits for an event or a click may wait for ever.
SessionFairness ==
    /\ WF_clientVars(scene = "session" /\ LoadCode /\ SessionStep)
    /\ WF_clientVars(scene = "session" /\ Restore /\ SessionStep)
    /\ WF_clientVars(scene = "session" /\ Check /\ SessionStep)
    /\ WF_clientVars(scene = "session" /\ Revoke /\ SessionStep)
    /\ WF_clientVars(scene = "session" /\ SignOut /\ SessionStep)
    /\ WF_clientVars(scene = "session" /\ Clean /\ SessionStep)
    /\ WF_clientVars(scene = "session" /\ StoreWakes) /\ WF_clientVars(scene = "session" /\ StoreHears)
    /\ WF_clientVars(scene = "session" /\ StoreRetries)
    /\ WF_clientVars(scene = "session" /\ QueryWakes) /\ WF_clientVars(scene = "session" /\ QueryHears)
    /\ WF_clientVars(scene = "session" /\ Render)

\* The dashboard: a socket opens while the browser is online, a dead one is found,
\* the page is seen and online again at last.
LinkFairness ==
    /\ WF_pageVars(scene = "dashboard" /\ Heals) /\ WF_pageVars(scene = "dashboard" /\ FoundDead)
    /\ WF_pageVars(scene = "dashboard" /\ IsBack) /\ WF_pageVars(scene = "dashboard" /\ Reconnects)
    /\ WF_pageVars(scene = "dashboard" /\ CooldownEnds) /\ WF_pageVars(scene = "dashboard" /\ Resubscribes)
    /\ WF_pageVars(scene = "dashboard" /\ ListHears) /\ WF_pageVars(scene = "dashboard" /\ ListStarts)

EdgeSpec ==
    /\ EdgeInit /\ [][EdgeNext]_edgeVars
    /\ ClockFairness /\ FilterFairness /\ FirmwareFairness
    /\ SessionFairness /\ LinkFairness

-----------------------------------------------------------------------------
\* After the last failure, click and change of account the page settles: a
\* verified account has its workspace with rows or a message, and a dashboard its
\* live list (the retries of useAuth, the live store, useCollection and
\* useRTDBResume).
ClientSettles ==
    /\ scene = "session" => <>[]FeedsSettle
    /\ scene = "dashboard" => <>[]LiveAgain
=============================================================================
