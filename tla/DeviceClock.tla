---------------------------- MODULE DeviceClock ----------------------------
(* The clock of a tracker (hardware/src/main.cpp, include/clock_policy.h): the *)
(* system clock that TLS uses and the GNSS reference that stamps samples, set  *)
(* from two sources that may each be wrong. A clock is the number of steps it  *)
(* is off true time: sources that agree within 1.5 s are at the same step, one *)
(* step is within the 10 s that a source may correct alone, two are not.       *)
EXTENDS Integers

CONSTANT Errors     \* how far off a source or a clock may be

ASSUME ErrorsAssumption == Errors \subseteq Nat /\ 0 \in Errors

VARIABLES
    sources,    \* what GNSS and NTP report
    system,     \* the system clock
    reference,  \* the GNSS epoch reference
    gnss,       \* GnssCorroboration: coherent sentences and their epoch
    ntp,        \* the last NTP candidate, fresh for PEER_REFERENCE_MAX_AGE_MS
    applied,    \* gnssClockApplied
    disagree    \* clockDisagreementActive

clockVars == <<sources, system, reference, gnss, ntp, applied, disagree>>

Unset == -1             \* before 2023: not trusted
Lost == -1              \* a source that reports nothing
NoReading == [count |-> 0, at |-> 0]
NoCandidate == [fresh |-> FALSE, at |-> 0]

Gap(a, b) == IF a >= b THEN a - b ELSE b - a

ClockInit ==
    /\ sources \in [{"gnss", "ntp"} -> Errors]
    /\ system \in Errors \cup {Unset}
    /\ reference = Unset
    /\ gnss = NoReading
    /\ ntp = NoCandidate
    /\ applied = FALSE
    /\ disagree = FALSE

\* epochMilliseconds() and clockIsSynchronized().
Stamp == IF reference # Unset THEN reference ELSE system
Synchronized == ~disagree /\ Stamp # Unset

\* Faulty: a step beyond 10 s is refused, whatever the other source says.
SafeAlone(candidate, peerFresh, peer) ==
    /\ peerFresh => candidate = peer
    /\ system = Unset \/ Gap(system, candidate) <= 1

\* candidateSafe().
CandidateSafe(candidate, peerFresh, peer) ==
    /\ peerFresh => candidate = peer
    /\ system = Unset \/ Gap(system, candidate) <= 1 \/ peerFresh

\* disciplineClockFromGnss(): the third coherent sentence in a row is a
\* candidate; a safe one becomes the reference and the system clock, which GNSS
\* corrects once in GNSS_CLOCK_REFRESH_MS.
ReadGnss ==
    /\ sources["gnss"] # Lost
    /\ LET at == sources["gnss"]
           count == IF gnss.count > 0 /\ gnss.at = at
                    THEN IF gnss.count < 3 THEN gnss.count + 1 ELSE 3 ELSE 1
           safe == CandidateSafe(at, ntp.fresh, ntp.at)
       IN  /\ gnss' = [count |-> count, at |-> at]
           /\ \/ count < 3 /\ UNCHANGED <<system, reference, applied, disagree>>
              \/ count = 3 /\ ~safe /\ disagree' = TRUE /\ UNCHANGED <<system, reference, applied>>
              \/ /\ count = 3 /\ safe
                 /\ disagree' = FALSE
                 /\ reference' = at
                 /\ \/ system' = at /\ applied' = TRUE
                    \/ system # Unset /\ applied /\ UNCHANGED <<system, applied>>
    /\ UNCHANGED <<sources, ntp>>

\* applyNtpCandidate(): recorded in any case; the peer is GNSS as long as its
\* corroborated reading is fresh.
ReadNtp ==
    /\ sources["ntp"] # Lost
    /\ LET at == sources["ntp"] IN
       /\ ntp' = [fresh |-> TRUE, at |-> at]
       /\ IF CandidateSafe(at, gnss.count = 3, gnss.at)
          THEN system' = at /\ disagree' = FALSE
          ELSE disagree' = TRUE /\ UNCHANGED system
    /\ UNCHANGED <<sources, reference, gnss, applied>>

\* Readings and the reference grow old.
Expire ==
    \/ /\ gnss # NoReading /\ sources["gnss"] = Lost
       /\ gnss' = NoReading
       /\ UNCHANGED <<sources, system, reference, ntp, applied, disagree>>
    \/ /\ ntp.fresh
       /\ ntp' = NoCandidate
       /\ UNCHANGED <<sources, system, reference, gnss, applied, disagree>>
    \/ /\ reference # Unset /\ gnss = NoReading
       /\ reference' = Unset
       /\ UNCHANGED <<sources, system, gnss, ntp, applied, disagree>>

\* A source drifts, lies, goes away or comes back.
SourceChanges ==
    /\ \E s \in {"gnss", "ntp"}, e \in Errors \cup {Lost} : sources' = [sources EXCEPT ![s] = e]
    /\ UNCHANGED <<system, reference, gnss, ntp, applied, disagree>>

\* setup(): the system clock outlives a reset, unless the power went.
ClockReset ==
    /\ system' \in {system, Unset}
    /\ reference' = Unset /\ gnss' = NoReading /\ ntp' = NoCandidate
    /\ applied' = FALSE /\ disagree' = FALSE
    /\ UNCHANGED sources

ClockNext == ReadGnss \/ ReadNtp \/ Expire \/ SourceChanges \/ ClockReset

-----------------------------------------------------------------------------
Truthful == sources = [s \in {"gnss", "ntp"} |-> 0]

\* Whatever a source told before, telemetry that was paused "pending
\* corroboration" (main.cpp:784) resumes, at the right time, once both sources
\* report the truth and go on doing so.
ClockRecovers ==
    <>[]Truthful /\ <>[][~ClockReset]_clockVars => <>[](Synchronized /\ Stamp = 0)
=============================================================================
