------------------------------ MODULE ClientSession ------------------------------
(* Who the web page believes is signed in: hooks/useAuth.ts and lib/authState.ts *)
(* of the frontend. Firebase reports an account; the page verifies its role      *)
(* with forced tokens before it shows a workspace, again after every change of   *)
(* account, retries what failed for the network, and signs out. Every             *)
(* verification has a generation; what an older one still learns is dropped.      *)
EXTENDS Integers, FiniteSets

CONSTANTS
    Accounts, NoOne,
    Burst,        \* timed retries in a row, 6 in the code
    MaxEvents     \* bound: failures, changes of account, sign-outs, clicks

ASSUME AccountAssumption == NoOne \notin Accounts

VARIABLES
    code,         \* the sign-in code: loading, waiting for a retry, loaded
    principal,    \* auth.currentUser
    generation, ready,   \* authState
    checks,       \* verifyUser calls under way
    page,         \* what useAuth returns: user, loading, roleError
    recovery,     \* recoverAccess of a verification: none, on a timer, or waiting for an event; retryAttempt
    leaving,      \* logout: no, modules, signing out; its generation; the caches it has still to clear
    events

sessionVars == <<code, principal, generation, ready, checks, page, recovery, leaving, events>>

Fresh == [by |-> "none", gen |-> 0, tried |-> 0]

\* known: the first report of Firebase came (authInitialized).
SessionInit ==
    /\ code = "loading" /\ principal = NoOne
    /\ generation = 0 /\ ready = FALSE
    /\ checks = {}
    /\ page = [user |-> NoOne, loading |-> TRUE, error |-> "none", known |-> FALSE]
    /\ recovery = Fresh
    /\ leaving = [at |-> "no", gen |-> 0, caches |-> FALSE]
    /\ events = 0

Happens == events < MaxEvents /\ events' = events + 1

-----------------------------------------------------------------------------
\* The sign-in code loads; a load that fails is tried again.
LoadCode ==
    /\ \/ code = "loading" /\ code' = "loaded" /\ UNCHANGED events
       \/ code = "loading" /\ code' = "waiting" /\ Happens
       \/ code = "waiting" /\ code' = "loading" /\ UNCHANGED events
    /\ UNCHANGED <<principal, generation, ready, checks, page, recovery, leaving>>

-----------------------------------------------------------------------------
\* verifyUser.


\* A retry in the background leaves the page as it is until it ends.
Verifying(steady) ==
    [page EXCEPT !.user = NoOne, !.known = TRUE,
                 !.loading = IF steady THEN @ ELSE TRUE,
                 !.error = IF steady THEN @ ELSE "none"]

SignedOut == [user |-> NoOne, loading |-> FALSE, error |-> "none", known |-> TRUE]

\* The part before the first await; without an account it is all.
Verify(p, steady) ==
    /\ generation' = generation + 1
    /\ ready' = (p = NoOne)
    /\ checks' = IF p = NoOne THEN checks
                 ELSE checks \union {[gen |-> generation + 1, account |-> p, at |-> "token", steady |-> steady]}
    /\ page' = IF p = NoOne THEN SignedOut ELSE Verifying(steady)


\* isCurrentAuth.
IsCurrentAuth(c) == c.gen = generation /\ c.account = principal

\* A verification that is not current ends without a trace.
Ends(c) == checks' = checks \ {c}
Goes(c, place) == checks' = (checks \ {c}) \union {[c EXCEPT !.at = place]}
Unseen == UNCHANGED <<ready, page, recovery, events>>
SessionRest == UNCHANGED <<code, principal, generation, leaving>>

Publish(c) ==
    /\ Ends(c)
    /\ IF IsCurrentAuth(c)
       THEN /\ page' = [page EXCEPT !.user = c.account, !.loading = FALSE, !.error = "none"]
            /\ ready' = TRUE
            /\ UNCHANGED <<recovery, events>>
       ELSE Unseen

\* Claims are not synchronized, or access is denied: only the account can act.
Deny(c) ==
    /\ Ends(c)
    /\ IF IsCurrentAuth(c)
       THEN page' = [page EXCEPT !.user = NoOne, !.loading = FALSE, !.error = "denied"] /\ UNCHANGED <<ready, recovery, events>>
       ELSE Unseen

\* A failure of the network: a timer, while the burst lasts.
FailTransiently(c) ==
    /\ Happens /\ Ends(c)
    /\ IF IsCurrentAuth(c)
       THEN /\ page' = [page EXCEPT !.user = NoOne, !.loading = FALSE, !.error = "unverified"]
            /\ recovery' = [by |-> IF recovery.tried < Burst THEN "timer" ELSE "event",
                             gen |-> generation, tried |-> recovery.tried + 1]
       ELSE UNCHANGED <<page, recovery>>
    /\ UNCHANGED ready

\* A forced token with a role; or none: the profile, and its repair by the
\* backend, whose failure is only logged. A privileged profile needs the token.
CheckToken(c) ==
    /\ c.at = "token"
    /\ \/ Publish(c) \/ Deny(c) \/ FailTransiently(c)
       \/ IF IsCurrentAuth(c) THEN Goes(c, "profile") /\ Unseen ELSE Ends(c) /\ Unseen
    /\ SessionRest
CheckProfile(c) ==
    /\ c.at = "profile"
    /\ \/ Publish(c) \/ Deny(c) \/ FailTransiently(c)
       \/ IF IsCurrentAuth(c) THEN Goes(c, "trusted") /\ Unseen ELSE Ends(c) /\ Unseen
    /\ SessionRest
CheckTrusted(c) ==
    /\ c.at = "trusted"
    /\ Publish(c) \/ Deny(c) \/ FailTransiently(c)
    /\ SessionRest

-----------------------------------------------------------------------------
\* Retries: runVerification. What a sign-out overtook is not retried.

NoRecovery == [recovery EXCEPT !.by = "none"]
Recoverable == recovery.by # "none" /\ recovery.gen = generation

\* The timer, while the page is hidden or offline, only leaves it to an event.
TimerFires ==
    /\ recovery.by = "timer"
    /\ \/ Recoverable /\ Verify(principal, TRUE) /\ recovery' = NoRecovery
       \/ recovery' = [recovery EXCEPT !.by = "event"] /\ UNCHANGED <<generation, ready, checks, page>>
    /\ UNCHANGED <<code, principal, leaving, events>>

\* The network is back, or the page is seen.
ResumeAccess ==
    /\ Recoverable
    /\ Verify(principal, FALSE)
    /\ recovery' = Fresh
    /\ UNCHANGED <<code, principal, leaving, events>>

\* refreshAccess joins the verification of this generation, and shows it.
RefreshesAccess ==
    LET flight == {c \in checks : c.gen = generation /\ c.account = principal} IN
    IF flight # {}
    THEN /\ checks' = (checks \ flight) \union {[c EXCEPT !.steady = FALSE] : c \in flight}
         /\ page' = IF \E c \in flight : c.steady THEN [page EXCEPT !.loading = TRUE, !.error = "none"] ELSE page
         /\ recovery' = [recovery EXCEPT !.tried = 0]
         /\ UNCHANGED <<generation, ready>>
    ELSE Verify(principal, FALSE) /\ recovery' = Fresh

\* Try again, under the message.
TryAgain ==
    /\ Happens /\ page.error # "none" /\ page.known
    /\ RefreshesAccess
    /\ UNCHANGED <<code, principal, leaving>>

-----------------------------------------------------------------------------
\* Firebase: the account restored, signed in here, or changed by another tab;
\* the observer runs before anything else arrives.
Reports(p) ==
    /\ principal' = p
    /\ Verify(p, FALSE)
    /\ recovery' = Fresh

Restore ==
    /\ code = "loaded" /\ ~page.known
    /\ \E p \in Accounts \union {NoOne} : Reports(p)
    /\ UNCHANGED <<code, leaving, events>>

ChangeAccount ==
    /\ Happens /\ page.known
    /\ \E p \in (Accounts \union {NoOne}) \ {principal} : Reports(p)
    /\ UNCHANGED <<code, leaving>>

-----------------------------------------------------------------------------
\* logout, from a workspace or under a message.
BeginLogout ==
    /\ Happens /\ leaving.at = "no" /\ page.known
    /\ page.user # NoOne \/ page.error # "none"
    /\ leaving' = [leaving EXCEPT !.at = "modules"]
    /\ UNCHANGED <<code, principal, generation, ready, checks, page, recovery>>

\* The listeners are revoked at once.
Revoke ==
    /\ leaving.at = "modules"
    /\ leaving' = [leaving EXCEPT !.at = "signing out", !.gen = generation + 1]
    /\ generation' = generation + 1 /\ ready' = FALSE
    /\ page' = [page EXCEPT !.user = NoOne, !.loading = TRUE]
    /\ UNCHANGED <<code, principal, checks, recovery, events>>

\* signOut; nothing is reported when another tab was first.
SignOut ==
    /\ leaving.at = "signing out"
    /\ leaving' = [leaving EXCEPT !.at = "no", !.caches = TRUE]
    /\ IF principal = NoOne
       THEN UNCHANGED <<principal, generation, ready, checks, page, recovery>>
       ELSE Reports(NoOne)
    /\ UNCHANGED <<code, events>>
SignOutFails ==
    /\ leaving.at = "signing out" /\ Happens
    /\ leaving' = [leaving EXCEPT !.at = "no"]
    /\ page' = IF leaving.gen = generation THEN [page EXCEPT !.loading = FALSE, !.error = "sign-out"] ELSE page
    /\ UNCHANGED <<code, principal, generation, ready, checks, recovery>>

\* The caches of the account, whoever is signed in by now.
Clean ==
    /\ leaving.caches /\ leaving' = [leaving EXCEPT !.caches = FALSE]
    /\ UNCHANGED <<code, principal, generation, ready, checks, page, recovery, events>>

-----------------------------------------------------------------------------
Check == \E c \in checks : CheckToken(c) \/ CheckProfile(c) \/ CheckTrusted(c)
LogoutStep == Revoke \/ SignOut \/ SignOutFails \/ Clean

SessionNext ==
    \/ LoadCode \/ Check
    \/ TimerFires \/ ResumeAccess \/ TryAgain
    \/ Restore \/ ChangeAccount
    \/ BeginLogout \/ LogoutStep

SessionSpec == SessionInit /\ [][SessionNext]_sessionVars
=============================================================================
