------------------------------- MODULE EdgeProofs -------------------------------
(* Proofs about the two ends of the system that EdgeParts composes, for every    *)
(* number of accounts, retries, hosts, tasks, slots and places.                  *)
EXTENDS EdgeParts, TLAPS

-----------------------------------------------------------------------------
\* ClientSession: who the page believes is signed in.

People == Accounts \union {NoOne}
Verification == [gen : Nat, account : People, at : {"token", "profile", "trusted"}, steady : BOOLEAN]

SessionTypeOK ==
    /\ generation \in Nat /\ principal \in People
    /\ page \in [user : People, loading : BOOLEAN, error : {"none", "denied", "unverified", "sign-out"}, known : BOOLEAN]
    /\ recovery \in [by : {"none", "timer", "event"}, gen : Nat, tried : Nat]
    /\ checks \subseteq Verification

\* A generation has one verification; one that waits for a retry has ended, and
\* left its message.
GenerationsOwn ==
    /\ \A c \in checks : c.gen <= generation
    /\ \A c, d \in checks : c.gen = d.gen => c = d
    /\ recovery.gen <= generation
    /\ Recoverable => page.error # "none" /\ \A c \in checks : c.gen # generation

\* The page's user is the one Firebase has; no message and no user is nobody.
PageIsOwn ==
    /\ page.user \in {NoOne, principal}
    /\ ~page.loading /\ page.user = NoOne /\ page.error = "none" => principal = NoOne

SessionInv == SessionTypeOK /\ GenerationsOwn /\ PageIsOwn

\* A step keeps the account and the generation, or it revokes what is shown.
Revokes == generation' = generation + 1 /\ page'.user = NoOne
KeepsOrRevokes == UNCHANGED <<generation, principal>> \/ Revokes

LEMMA SessionStarts == SessionInit => SessionInv
BY DEF SessionInit, SessionInv, SessionTypeOK, GenerationsOwn, PageIsOwn, Fresh, Recoverable, People

\* verifyUser: every verification has a generation of its own.
LEMMA VerifyKeeps ==
    ASSUME SessionInv, NEW p \in People, NEW steady \in BOOLEAN, Verify(p, steady), principal' = p,
           steady => page.error # "none",
           \/ recovery' = NoRecovery
           \/ recovery' = Fresh
    PROVE  SessionInv' /\ Revokes
<1>1. recovery'.by = "none" /\ recovery' \in [by : {"none", "timer", "event"}, gen : Nat, tried : Nat]
      /\ recovery'.gen <= generation
  BY DEF SessionInv, SessionTypeOK, GenerationsOwn, Fresh, NoRecovery
<1>2. generation \in Nat /\ generation' = generation + 1
  BY DEF SessionInv, SessionTypeOK, Verify
<1>3. /\ page' \in [user : People, loading : BOOLEAN, error : {"none", "denied", "unverified", "sign-out"}, known : BOOLEAN]
      /\ page'.user = NoOne
      /\ ~page'.loading /\ page'.error = "none" => p = NoOne
  BY DEF Verify, Verifying, SignedOut, SessionInv, SessionTypeOK, People
<1>4. PICK c : c = [gen |-> generation + 1, account |-> p, at |-> "token", steady |-> steady]
  OBVIOUS
<1>5. c \in Verification /\ c.gen = generation + 1
  BY <1>2, <1>4 DEF Verification
<1>6. checks' = checks \/ checks' = checks \union {c}
  BY <1>4 DEF Verify
<1>7. checks \subseteq Verification /\ (\A d \in checks : d.gen <= generation) /\ \A d, e \in checks : d.gen = e.gen => d = e
  BY DEF SessionInv, SessionTypeOK, GenerationsOwn
<1>8. checks' \subseteq Verification /\ (\A d \in checks' : d.gen <= generation') /\ \A d, e \in checks' : d.gen = e.gen => d = e
  <2>1. \A d \in checks : d.gen \in Nat /\ d.gen < generation + 1
    BY <1>2, <1>7 DEF Verification
  <2> QED
    BY <1>2, <1>5, <1>6, <1>7, <2>1
<1>9. SessionTypeOK'
  BY <1>1, <1>2, <1>3, <1>8 DEF SessionTypeOK
<1>10. GenerationsOwn'
  BY <1>1, <1>2, <1>8 DEF GenerationsOwn, Recoverable
<1> QED
  BY <1>2, <1>3, <1>9, <1>10 DEF SessionInv, PageIsOwn, Revokes


\* A verification that ends, goes on or is joined keeps its generation; what is
\* current belongs to the account of now.
LEMMA ChecksKeep ==
    ASSUME SessionInv, NEW c \in checks, NEW d \in Verification, d.gen = c.gen,
           checks' \in {checks \ {c}, (checks \ {c}) \union {d}}
    PROVE  /\ checks' \subseteq Verification
           /\ \A e \in checks' : e.gen <= generation /\ \E f \in checks : e.gen = f.gen
           /\ \A e, f \in checks' : e.gen = f.gen => e = f
BY DEF SessionInv, SessionTypeOK, GenerationsOwn

\* The page and the retry that a verification of now may leave.
LEMMA EndKeeps ==
    ASSUME SessionInv, NEW c \in checks, IsCurrentAuth(c), checks' = checks \ {c}, UNCHANGED <<generation, principal>>,
           page' \in [user : People, loading : BOOLEAN, error : {"none", "denied", "unverified", "sign-out"}, known : BOOLEAN],
           page'.user \in {NoOne, principal},
           ~page'.loading /\ page'.user = NoOne /\ page'.error = "none" => principal = NoOne,
           \/ UNCHANGED recovery
           \/ /\ recovery' \in [by : {"none", "timer", "event"}, gen : Nat, tried : Nat]
              /\ recovery'.gen = generation /\ page'.error # "none"
    PROVE  SessionInv'
<1>1. /\ checks' \subseteq Verification
      /\ \A e \in checks' : e.gen <= generation /\ e.gen # generation
      /\ \A e, f \in checks' : e.gen = f.gen => e = f
  BY DEF SessionInv, SessionTypeOK, GenerationsOwn, IsCurrentAuth
<1>2. c.gen = generation
  BY DEF IsCurrentAuth
<1>3. GenerationsOwn'
  <2>1. CASE UNCHANGED recovery
    BY <1>1, <1>2, <2>1 DEF SessionInv, GenerationsOwn, Recoverable
  <2>2. CASE recovery'.gen = generation /\ page'.error # "none"
    BY <1>1, <2>2 DEF SessionInv, SessionTypeOK, GenerationsOwn, Recoverable
  <2> QED
    BY <2>1, <2>2
<1> QED
  BY <1>1, <1>3 DEF SessionInv, SessionTypeOK, PageIsOwn

LEMMA CheckKeeps ==
    ASSUME SessionInv, Check
    PROVE  SessionInv' /\ UNCHANGED <<generation, principal>>
<1>1. PICK c \in checks : CheckToken(c) \/ CheckProfile(c) \/ CheckTrusted(c)
  BY DEF Check
<1>2. UNCHANGED <<generation, principal>>
  BY <1>1 DEF CheckToken, CheckProfile, CheckTrusted, SessionRest
<1>3. c \in Verification /\ page \in [user : People, loading : BOOLEAN, error : {"none", "denied", "unverified", "sign-out"}, known : BOOLEAN]
      /\ recovery \in [by : {"none", "timer", "event"}, gen : Nat, tried : Nat] /\ generation \in Nat
  BY DEF SessionInv, SessionTypeOK
<1>4. ASSUME NEW d \in Verification, d.gen = c.gen, checks' \in {checks \ {c}, (checks \ {c}) \union {d}},
             UNCHANGED <<page, recovery>>
      PROVE  SessionInv'
  <2>1. /\ checks' \subseteq Verification
        /\ \A e \in checks' : e.gen <= generation /\ \E f \in checks : e.gen = f.gen
        /\ \A e, f \in checks' : e.gen = f.gen => e = f
    BY <1>4, ChecksKeep
  <2>2. GenerationsOwn'
    BY <1>2, <1>4, <2>1 DEF SessionInv, GenerationsOwn, Recoverable
  <2> QED
    BY <1>2, <1>4, <2>1, <2>2 DEF SessionInv, SessionTypeOK, PageIsOwn
<1>a. ASSUME Ends(c), UNCHANGED <<page, recovery>>
      PROVE  SessionInv'
  BY <1>3, <1>4, <1>a DEF Ends
<1>5. CASE Publish(c)
  <2>1. CASE IsCurrentAuth(c)
    <3>1. page' = [page EXCEPT !.user = c.account, !.loading = FALSE, !.error = "none"] /\ c.account = principal
          /\ checks' = checks \ {c} /\ UNCHANGED recovery
      BY <1>5, <2>1 DEF Publish, Ends, IsCurrentAuth
    <3> QED
      BY <1>2, <1>3, <2>1, <3>1, EndKeeps DEF Verification
  <2>2. CASE ~IsCurrentAuth(c)
    <3>1. Ends(c) /\ UNCHANGED <<page, recovery>>
      BY <1>5, <2>2 DEF Publish, Unseen, IsCurrentAuth
    <3> QED
      BY <1>2, <1>a, <3>1
  <2> QED
    BY <2>1, <2>2
<1>6. CASE Deny(c)
  <2>1. CASE IsCurrentAuth(c)
    <3>1. page' = [page EXCEPT !.user = NoOne, !.loading = FALSE, !.error = "denied"]
          /\ checks' = checks \ {c} /\ UNCHANGED recovery
      BY <1>6, <2>1 DEF Deny, Ends
    <3> QED
      BY <1>2, <1>3, <2>1, <3>1, EndKeeps DEF People
  <2>2. CASE ~IsCurrentAuth(c)
    <3>1. Ends(c) /\ UNCHANGED <<page, recovery>>
      BY <1>6, <2>2 DEF Deny, Unseen, IsCurrentAuth
    <3> QED
      BY <1>2, <1>a, <3>1
  <2> QED
    BY <2>1, <2>2
<1>7. CASE FailTransiently(c)
  <2>1. CASE IsCurrentAuth(c)
    <3>1. page' = [page EXCEPT !.user = NoOne, !.loading = FALSE, !.error = "unverified"]
          /\ checks' = checks \ {c}
          /\ recovery' = [by |-> IF recovery.tried < Burst THEN "timer" ELSE "event",
                          gen |-> generation, tried |-> recovery.tried + 1]
      BY <1>7, <2>1 DEF FailTransiently, Ends
    <3>2. recovery' \in [by : {"none", "timer", "event"}, gen : Nat, tried : Nat] /\ recovery'.gen = generation
      BY <1>3, <3>1
    <3> QED
      BY <1>2, <1>3, <2>1, <3>1, <3>2, EndKeeps DEF People
  <2>2. CASE ~IsCurrentAuth(c)
    <3>1. Ends(c) /\ UNCHANGED <<page, recovery>>
      BY <1>7, <2>2 DEF FailTransiently, IsCurrentAuth
    <3> QED
      BY <1>2, <1>a, <3>1
  <2> QED
    BY <2>1, <2>2
<1>8. ASSUME NEW place \in {"profile", "trusted"}, Goes(c, place) \/ Ends(c), Unseen
      PROVE  SessionInv'
  <2>1. PICK d : d = [c EXCEPT !.at = place]
    OBVIOUS
  <2>2. d \in Verification /\ d.gen = c.gen
    BY <1>3, <2>1 DEF Verification
  <2> QED
    BY <1>4, <1>8, <2>1, <2>2 DEF Goes, Ends, Unseen
<1> QED
  BY <1>1, <1>2, <1>5, <1>6, <1>7, <1>8 DEF CheckToken, CheckProfile, CheckTrusted

\* A retry under the message joins the verification of now or begins another.
LEMMA RefreshKeeps ==
    ASSUME SessionInv, RefreshesAccess, principal' = principal
    PROVE  SessionInv' /\ KeepsOrRevokes
<1> PICK flight : flight = {c \in checks : c.gen = generation /\ c.account = principal}
  OBVIOUS
<1>1. principal \in People
  BY DEF SessionInv, SessionTypeOK
<1>2. CASE flight = {}
  BY <1>1, <1>2, VerifyKeeps DEF RefreshesAccess, KeepsOrRevokes
<1>3. CASE flight # {}
  <2>1. PICK c \in checks : c.gen = generation /\ c.account = principal
    BY <1>3
  <2>2. flight = {c}
    BY <2>1 DEF SessionInv, GenerationsOwn
  <2>3. PICK d : d = [c EXCEPT !.steady = FALSE]
    OBVIOUS
  <2>4. d \in Verification /\ d.gen = c.gen
    BY <2>3 DEF SessionInv, SessionTypeOK, Verification
  <2>5. checks' = (checks \ {c}) \union {d} /\ UNCHANGED generation
        /\ page' \in {page, [page EXCEPT !.loading = TRUE, !.error = "none"]}
        /\ recovery' = [recovery EXCEPT !.tried = 0]
    <3>1. {[e EXCEPT !.steady = FALSE] : e \in {c}} = {d}
      BY <2>3
    <3>2. flight # {} => /\ checks' = (checks \ flight) \union {[e EXCEPT !.steady = FALSE] : e \in flight}
                         /\ page' \in {page, [page EXCEPT !.loading = TRUE, !.error = "none"]}
                         /\ recovery' = [recovery EXCEPT !.tried = 0] /\ UNCHANGED generation
      BY DEF RefreshesAccess
    <3> QED
      BY <1>3, <2>2, <3>1, <3>2
  <2>6. /\ checks' \subseteq Verification
        /\ \A e \in checks' : e.gen <= generation /\ \E f \in checks : e.gen = f.gen
        /\ \A e, f \in checks' : e.gen = f.gen => e = f
    BY <2>4, <2>5, ChecksKeep
  <2>7. recovery' \in [by : {"none", "timer", "event"}, gen : Nat, tried : Nat]
        /\ recovery'.gen = recovery.gen /\ recovery'.by = recovery.by
    BY <2>5 DEF SessionInv, SessionTypeOK
  <2>8. ~Recoverable
    BY <2>1 DEF SessionInv, GenerationsOwn
  <2>9. page' \in [user : People, loading : BOOLEAN, error : {"none", "denied", "unverified", "sign-out"}, known : BOOLEAN]
        /\ page'.user = page.user /\ (page' = page \/ page'.loading)
    BY <2>5 DEF SessionInv, SessionTypeOK
  <2>10. GenerationsOwn'
    BY <2>5, <2>6, <2>7, <2>8 DEF SessionInv, GenerationsOwn, Recoverable
  <2> QED
    BY <2>5, <2>6, <2>7, <2>9, <2>10 DEF SessionInv, SessionTypeOK, PageIsOwn, KeepsOrRevokes
<1> QED
  BY <1>2, <1>3

LEMMA SessionKeeps ==
    ASSUME SessionInv, SessionNext
    PROVE  SessionInv' /\ KeepsOrRevokes
<1> USE DEF SessionInv
<1>1. principal \in People /\ NoOne \in People /\ generation \in Nat
  BY DEF SessionTypeOK, People
<1>2. ASSUME UNCHANGED <<principal, generation, checks, page, recovery>>
      PROVE  SessionInv' /\ KeepsOrRevokes
  BY <1>2 DEF SessionTypeOK, GenerationsOwn, PageIsOwn, Recoverable, KeepsOrRevokes
<1>3. CASE LoadCode \/ BeginLogout \/ Clean
  BY <1>2, <1>3 DEF LoadCode, BeginLogout, Clean
<1>4. CASE Check
  BY <1>4, CheckKeeps DEF KeepsOrRevokes
<1>5. CASE TimerFires
  <2>1. CASE Recoverable /\ Verify(principal, TRUE) /\ recovery' = NoRecovery
    <3>1. page.error # "none" /\ principal' = principal
      BY <1>5, <2>1 DEF TimerFires, GenerationsOwn
    <3> QED
      BY <1>1, <2>1, <3>1, VerifyKeeps DEF KeepsOrRevokes
  <2>2. CASE recovery.by = "timer" /\ recovery' = [recovery EXCEPT !.by = "event"]
             /\ UNCHANGED <<generation, ready, checks, page, principal>>
    <3>1. /\ recovery' \in [by : {"none", "timer", "event"}, gen : Nat, tried : Nat]
          /\ recovery'.gen = recovery.gen /\ recovery.by # "none"
      BY <2>2 DEF SessionTypeOK
    <3> QED
      BY <2>2, <3>1 DEF SessionTypeOK, GenerationsOwn, PageIsOwn, Recoverable, KeepsOrRevokes
  <2> QED
    BY <1>5, <2>1, <2>2 DEF TimerFires
<1>6. CASE ResumeAccess
  <2>1. Verify(principal, FALSE) /\ recovery' = Fresh /\ principal' = principal
    BY <1>6 DEF ResumeAccess
  <2> QED
    BY <1>1, <2>1, VerifyKeeps DEF KeepsOrRevokes
<1>7. CASE TryAgain
  BY <1>7, RefreshKeeps DEF TryAgain
<1>8. ASSUME NEW p \in People, Reports(p)
      PROVE  SessionInv' /\ KeepsOrRevokes
  <2>1. Verify(p, FALSE) /\ recovery' = Fresh /\ principal' = p
    BY <1>8 DEF Reports
  <2> QED
    BY <2>1, VerifyKeeps DEF KeepsOrRevokes
<1>9. CASE Restore \/ ChangeAccount
  <2>1. PICK p \in People : Reports(p)
    BY <1>9 DEF Restore, ChangeAccount, People
  <2> QED
    BY <1>8, <2>1
<1>10. CASE Revoke
  <2>1. generation' = generation + 1 /\ page' = [page EXCEPT !.user = NoOne, !.loading = TRUE]
        /\ UNCHANGED <<principal, checks, recovery>>
    BY <1>10 DEF Revoke
  <2>2. page' \in [user : People, loading : BOOLEAN, error : {"none", "denied", "unverified", "sign-out"}, known : BOOLEAN]
        /\ page'.user = NoOne /\ page'.loading
    BY <1>1, <2>1 DEF SessionTypeOK
  <2>3. recovery.gen \in Nat /\ recovery.gen < generation + 1 /\ \A c \in checks : c.gen \in Nat /\ c.gen < generation + 1
    BY <1>1 DEF SessionTypeOK, GenerationsOwn, Verification
  <2>4. GenerationsOwn'
    BY <1>1, <2>1, <2>3 DEF GenerationsOwn, Recoverable
  <2> QED
    BY <1>1, <2>1, <2>2, <2>4 DEF SessionTypeOK, PageIsOwn, KeepsOrRevokes, Revokes
<1>11. CASE SignOut
  <2>1. Reports(NoOne) \/ UNCHANGED <<principal, generation, ready, checks, page, recovery>>
    BY <1>11 DEF SignOut
  <2> QED
    BY <1>1, <1>2, <1>8, <2>1
<1>12. CASE SignOutFails
  <2>1. UNCHANGED <<principal, generation, checks, recovery>>
        /\ page' \in {page, [page EXCEPT !.loading = FALSE, !.error = "sign-out"]}
    BY <1>12 DEF SignOutFails
  <2>2. page' \in [user : People, loading : BOOLEAN, error : {"none", "denied", "unverified", "sign-out"}, known : BOOLEAN]
        /\ page'.user = page.user /\ (page' = page \/ page'.error # "none")
    BY <2>1 DEF SessionTypeOK
  <2> QED
    BY <2>1, <2>2 DEF SessionTypeOK, GenerationsOwn, PageIsOwn, Recoverable, KeepsOrRevokes
<1> QED
  BY <1>3, <1>4, <1>5, <1>6, <1>7, <1>9, <1>10, <1>11, <1>12 DEF SessionNext, LogoutStep


-----------------------------------------------------------------------------
\* ClientFeeds: what the workspace shows, and for whom.

QueryKey == [owner : People, gen : Nat, cache : Nat]
Stores == [listen : Nat, starting : {"no", "current", "stale"}, data : People, retry : BOOLEAN]
Entries == [key : QueryKey, data : People, loading : BOOLEAN, error : {"none", "failed", "denied"},
            listening : BOOLEAN, waits : BOOLEAN]

FeedsTypeOK ==
    /\ store \in Stores
    /\ panel \in [chosen : BOOLEAN, mounted : BOOLEAN, key : QueryKey, dirty : BOOLEAN]
    /\ entry \in Entries
    /\ cacheGen \in Nat

\* A live store without a workspace is empty.
StoreOwn ==
    /\ store.data \in {NoOne, principal}
    /\ ~panel.mounted => store = IdleStore

\* A key that names the generation of now names the account of now.
EntryOwn ==
    /\ entry.data \in {NoOne, entry.key.owner}
    /\ entry.key.gen <= generation
    /\ entry.key.gen = generation => entry.key.owner = principal

\* A workspace that need not be rendered is the one the page would mount.
PanelOwn == panel.mounted /\ ~panel.dirty => Mounts /\ panel.key = KeyNow

FeedsInv == FeedsTypeOK /\ StoreOwn /\ EntryOwn /\ PanelOwn

LEMMA StoreForms ==
    ASSUME NEW s \in Stores
    PROVE  /\ Ensured(s) \in Stores /\ Ensured(s).data = s.data
           /\ Invalidated(s) \in Stores /\ Invalidated(s).data = NoOne
           /\ Ensured(IdleStore) \in Stores /\ IdleStore \in Stores /\ IdleStore.data = NoOne
           /\ Ensured(IdleStore).data = NoOne
<1>1. \A z \in Stores : Ensured(z) \in Stores /\ Ensured(z).data = z.data
  BY DEF Ensured, Stores
<1>2. Detached(s) \in Stores /\ Detached(s).data = NoOne
  BY DEF Detached, Stores, NoGen, People
<1>3. IdleStore \in Stores /\ IdleStore.data = NoOne
  BY DEF IdleStore, Stores, NoGen, People
<1> QED
  BY <1>1, <1>2, <1>3 DEF Invalidated

LEMMA FeedsStart == SessionInit /\ FeedsInit => FeedsInv
<1> SUFFICES ASSUME SessionInit, FeedsInit PROVE FeedsInv
  OBVIOUS
<1>1. IdleStore \in Stores /\ IdleStore.data = NoOne
  BY DEF IdleStore, Stores, NoGen, People
<1>2. NoKey \in QueryKey /\ NoKey.gen = 0 /\ NoKey.owner = NoOne
  BY DEF NoKey, QueryKey, NoGen, People
<1>3. EmptyEntry(NoKey) \in Entries /\ EmptyEntry(NoKey).key = NoKey /\ EmptyEntry(NoKey).data = NoOne
  BY <1>2 DEF EmptyEntry, Entries, People
<1> QED
  BY <1>1, <1>2, <1>3 DEF SessionInit, FeedsInit, FeedsInv, FeedsTypeOK, StoreOwn, EntryOwn, PanelOwn

\* A verification, a sign-out or a retry: the listener is revoked at once, and
\* what the page showed of another account is to be rendered.
LEMMA ToldKeeps ==
    ASSUME SessionInv, FeedsInv, SessionInv', KeepsOrRevokes, store' = Told,
           panel' = [panel EXCEPT !.dirty = @ \/ page' # page],
           UNCHANGED <<entry, cacheGen>>
    PROVE  FeedsInv'
<1>1. generation \in Nat
  BY DEF SessionInv, SessionTypeOK
<1>2. /\ Invalidated(store) \in Stores /\ Invalidated(store).data = NoOne
      /\ store \in Stores
  BY StoreForms DEF FeedsInv, FeedsTypeOK
<1>3. panel' \in [chosen : BOOLEAN, mounted : BOOLEAN, key : QueryKey, dirty : BOOLEAN]
      /\ panel'.mounted = panel.mounted /\ panel'.chosen = panel.chosen /\ panel'.key = panel.key
      /\ (panel'.dirty <=> panel.dirty \/ page' # page)
  BY DEF FeedsInv, FeedsTypeOK
<1>4. UNCHANGED <<generation, principal>> \/ (generation' # generation /\ Revokes)
  BY <1>1 DEF KeepsOrRevokes, Revokes
<1>5. FeedsTypeOK'
  BY <1>2, <1>3 DEF FeedsInv, FeedsTypeOK, Told
<1>6. StoreOwn'
  <2>1. CASE UNCHANGED <<generation, principal>>
    BY <1>3, <2>1 DEF FeedsInv, StoreOwn, Told, IdleStore
  <2>2. CASE generation' # generation /\ panel.mounted
    BY <1>2, <1>3, <2>2 DEF StoreOwn, Told
  <2>3. CASE ~panel.mounted
    BY <1>3, <2>3 DEF FeedsInv, StoreOwn, Told, IdleStore
  <2> QED
    BY <1>4, <2>1, <2>2, <2>3
<1>7. EntryOwn'
  <2>1. entry.key.gen \in Nat /\ entry.key.gen <= generation
    BY DEF FeedsInv, FeedsTypeOK, EntryOwn, Entries, QueryKey
  <2> QED
    BY <1>1, <2>1 DEF KeepsOrRevokes, Revokes, FeedsInv, EntryOwn
<1>8. PanelOwn'
  <2> SUFFICES ASSUME panel.mounted, ~panel.dirty, page' = page PROVE (Mounts /\ panel.key = KeyNow)'
    BY <1>3 DEF PanelOwn
  <2>1. Mounts /\ panel.key = KeyNow
    BY DEF FeedsInv, PanelOwn
  <2>2. UNCHANGED <<generation, principal>>
    BY <1>4, <2>1 DEF Mounts, Revokes
  <2> QED
    BY <1>3, <2>1, <2>2 DEF Mounts, KeyNow
<1> QED
  BY <1>5, <1>6, <1>7, <1>8 DEF FeedsInv

\* The caches are cleared: new keys, and a workspace that finds its own.
LEMMA ClearKeeps ==
    ASSUME SessionInv, FeedsInv, SessionInv', UNCHANGED <<generation, principal>>, ClearsCollections,
           store' = IF panel.mounted THEN Invalidated(store) ELSE store
    PROVE  FeedsInv'
<1>1. Invalidated(store) \in Stores /\ Invalidated(store).data = NoOne
  BY StoreForms DEF FeedsInv, FeedsTypeOK
<1>2. panel' \in [chosen : BOOLEAN, mounted : BOOLEAN, key : QueryKey, dirty : BOOLEAN]
      /\ panel'.mounted = panel.mounted /\ (panel.mounted => panel'.dirty)
  BY DEF FeedsInv, FeedsTypeOK, ClearsCollections
<1>3. entry' \in Entries /\ entry'.key = entry.key /\ entry'.data = NoOne
  BY DEF FeedsInv, FeedsTypeOK, ClearsCollections, Entries, People
<1>4. cacheGen' \in Nat
  BY DEF FeedsInv, FeedsTypeOK, ClearsCollections
<1>5. StoreOwn'
  BY <1>1, <1>2 DEF FeedsInv, StoreOwn, IdleStore
<1> QED
  BY <1>1, <1>2, <1>3, <1>4, <1>5 DEF FeedsInv, FeedsTypeOK, EntryOwn, PanelOwn

LeavingOK == leaving \in [at : {"no", "modules", "signing out"}, gen : Nat, caches : BOOLEAN]

LEMMA LeavingKeeps ==
    ASSUME SessionInv, LeavingOK, SessionNext
    PROVE  LeavingOK' /\ (leaving.caches /\ ~leaving'.caches => Clean)
<1>1. generation \in Nat
  BY DEF SessionInv, SessionTypeOK
<1>2. CASE LoadCode \/ TimerFires \/ ResumeAccess \/ TryAgain \/ Restore \/ ChangeAccount
  BY <1>2 DEF LoadCode, TimerFires, ResumeAccess, TryAgain, Restore, ChangeAccount, LeavingOK
<1>3. CASE Check
  BY <1>3 DEF Check, CheckToken, CheckProfile, CheckTrusted, SessionRest, LeavingOK
<1>4. CASE BeginLogout
  BY <1>4 DEF BeginLogout, LeavingOK
<1>5. CASE Revoke
  <2>1. PICK g \in Nat : g = generation + 1
    BY <1>1
  <2>2. leaving' = [leaving EXCEPT !.at = "signing out", !.gen = g]
    BY <1>5, <2>1 DEF Revoke
  <2> QED
    BY <2>1, <2>2 DEF LeavingOK
<1>6. CASE SignOut
  BY <1>6 DEF SignOut, LeavingOK
<1>7. CASE SignOutFails
  BY <1>7 DEF SignOutFails, LeavingOK
<1>8. CASE Clean
  BY <1>8 DEF Clean, LeavingOK
<1> QED
  BY <1>2, <1>3, <1>4, <1>5, <1>6, <1>7, <1>8 DEF SessionNext, LogoutStep

LEMMA SessionStepKeeps ==
    ASSUME SessionInv, FeedsInv, LeavingOK, SessionStep
    PROVE  SessionInv' /\ FeedsInv' /\ LeavingOK'
<1>1. SessionInv' /\ KeepsOrRevokes /\ LeavingOK' /\ (leaving.caches /\ ~leaving'.caches => Clean)
  BY SessionKeeps, LeavingKeeps DEF SessionStep
<1>2. CASE leaving.caches /\ ~leaving'.caches
  <2>1. UNCHANGED <<generation, principal>>
    BY <1>1, <1>2 DEF Clean
  <2> QED
    BY <1>1, <1>2, <2>1, ClearKeeps DEF SessionStep
<1>3. CASE ~(leaving.caches /\ ~leaving'.caches)
  BY <1>1, <1>3, ToldKeeps DEF SessionStep
<1> QED
  BY <1>1, <1>2, <1>3

\* A step of the live store alone.
LEMMA StoreKeeps ==
    ASSUME SessionInv, FeedsInv, UNCHANGED <<principal, generation, checks, page, recovery, panel, entry, cacheGen>>,
           store' \in Stores, store'.data \in {NoOne, principal}, panel.mounted \/ store' = store
    PROVE  SessionInv' /\ FeedsInv'
<1>1. SessionInv'
  BY DEF SessionInv, SessionTypeOK, GenerationsOwn, PageIsOwn, Recoverable
<1>2. FeedsInv'
  BY DEF FeedsInv, FeedsTypeOK, StoreOwn, EntryOwn, PanelOwn, Mounts, KeyNow
<1> QED
  BY <1>1, <1>2

LEMMA StoreStepKeeps ==
    ASSUME SessionInv, FeedsInv, StoreWakes \/ StoreHears \/ StoreFails \/ StoreRetries
    PROVE  SessionInv' /\ FeedsInv'
<1>1. UNCHANGED <<principal, generation, checks, page, recovery, panel, entry, cacheGen>>
  BY DEF StoreWakes, StoreHears, StoreFails, StoreRetries, sessionVars
<1>2. store \in Stores /\ store.data \in {NoOne, principal} /\ (~panel.mounted => store = IdleStore)
      /\ principal \in People /\ generation \in Nat
  BY DEF FeedsInv, FeedsTypeOK, StoreOwn, SessionInv, SessionTypeOK
<1>3. panel.mounted
  BY <1>2 DEF StoreWakes, StoreHears, StoreFails, StoreRetries, IdleStore
<1>4. CASE StoreWakes
  <2> DEFINE s == [store EXCEPT !.starting = "no"]
             t == [store EXCEPT !.starting = "no", !.listen = generation]
  <2>1. s \in Stores /\ s.data = store.data /\ t \in Stores /\ t.data = store.data
    BY <1>2 DEF Stores
  <2>2. Ensured(s) \in Stores /\ Ensured(s).data = store.data
    BY <2>1, StoreForms
  <2>3. store' \in {Ensured(s), t}
    BY <1>4 DEF StoreWakes
  <2> HIDE DEF s, t
  <2> QED
    BY <1>1, <1>2, <1>3, <2>1, <2>2, <2>3, StoreKeeps
<1>5. CASE StoreHears
  <2>1. store' \in Stores /\ store'.data = principal
    BY <1>2, <1>5 DEF StoreHears, Stores
  <2> QED
    BY <1>1, <1>3, <2>1, StoreKeeps
<1>6. CASE StoreFails
  <2>1. store' \in Stores /\ store'.data = NoOne
    BY <1>2, <1>6 DEF StoreFails, IdleStore, Stores, NoGen, People
  <2> QED
    BY <1>1, <1>3, <2>1, StoreKeeps
<1>7. CASE StoreRetries
  <2> DEFINE s == [store EXCEPT !.retry = FALSE]
  <2>1. s \in Stores /\ s.data = store.data
    BY <1>2 DEF Stores
  <2>2. Ensured(s) \in Stores /\ Ensured(s).data = store.data
    BY <2>1, StoreForms
  <2>3. store' = Ensured(s)
    BY <1>7 DEF StoreRetries
  <2> HIDE DEF s
  <2> QED
    BY <1>1, <1>2, <1>3, <2>2, <2>3, StoreKeeps
<1> QED
  BY <1>4, <1>5, <1>6, <1>7

\* A step of the query, or of the workspace's choice, that leaves the session.
LEMMA QueryKeeps ==
    ASSUME SessionInv, FeedsInv, UNCHANGED <<principal, generation, checks, page, recovery, store, cacheGen>>,
           entry' \in Entries, entry'.key = entry.key, entry'.data \in {NoOne, entry.key.owner},
           panel' \in [chosen : BOOLEAN, mounted : BOOLEAN, key : QueryKey, dirty : BOOLEAN],
           panel'.mounted = panel.mounted, panel'.dirty \/ panel' = panel
    PROVE  SessionInv' /\ FeedsInv'
<1>1. SessionInv'
  BY DEF SessionInv, SessionTypeOK, GenerationsOwn, PageIsOwn, Recoverable
<1>2. PanelOwn'
  BY DEF FeedsInv, PanelOwn, Mounts, KeyNow
<1>3. FeedsInv'
  BY <1>2 DEF FeedsInv, FeedsTypeOK, StoreOwn, EntryOwn
<1> QED
  BY <1>1, <1>3

LEMMA QueryStepKeeps ==
    ASSUME SessionInv, FeedsInv, QueryWakes \/ QueryHears \/ QueryFails \/ Choose
    PROVE  SessionInv' /\ FeedsInv'
<1>1. UNCHANGED <<principal, generation, checks, page, recovery, store, cacheGen>>
  BY DEF QueryWakes, QueryHears, QueryFails, Choose, sessionVars
<1>2. entry \in Entries /\ entry.data \in {NoOne, entry.key.owner} /\ principal \in People
      /\ panel \in [chosen : BOOLEAN, mounted : BOOLEAN, key : QueryKey, dirty : BOOLEAN]
      /\ (entry.key.gen = generation => entry.key.owner = principal)
  BY DEF FeedsInv, FeedsTypeOK, EntryOwn, SessionInv, SessionTypeOK
<1>3. /\ [panel EXCEPT !.dirty = TRUE] \in [chosen : BOOLEAN, mounted : BOOLEAN, key : QueryKey, dirty : BOOLEAN]
      /\ [panel EXCEPT !.dirty = TRUE].mounted = panel.mounted /\ [panel EXCEPT !.dirty = TRUE].dirty
  BY <1>2
<1>4. CASE QueryWakes
  <2>1. entry' \in Entries /\ entry'.key = entry.key /\ entry'.data = entry.data /\ panel' = panel
    BY <1>2, <1>4 DEF QueryWakes, Entries, IsCurrentEntry, InCache
  <2> QED
    BY <1>1, <1>2, <2>1, QueryKeeps
<1>5. CASE QueryHears
  <2>1. entry' \in Entries /\ entry'.key = entry.key /\ entry'.data = principal
    BY <1>2, <1>5 DEF QueryHears, Entries
  <2>2. principal = entry.key.owner /\ panel' = [panel EXCEPT !.dirty = TRUE]
    BY <1>2, <1>5 DEF QueryHears, IsCurrentEntry
  <2> QED
    BY <1>1, <1>3, <2>1, <2>2, QueryKeeps
<1>6. CASE QueryFails
  <2>1. entry' \in Entries /\ entry'.key = entry.key /\ entry'.data = entry.data
    BY <1>2, <1>6 DEF QueryFails, Entries
  <2>2. panel' \in {panel, [panel EXCEPT !.dirty = TRUE]}
    BY <1>6 DEF QueryFails
  <2> QED
    BY <1>1, <1>2, <1>3, <2>1, <2>2, QueryKeeps
<1>7. CASE Choose
  <2>1. panel' \in [chosen : BOOLEAN, mounted : BOOLEAN, key : QueryKey, dirty : BOOLEAN]
        /\ panel'.mounted = panel.mounted /\ panel'.dirty /\ entry' = entry
    BY <1>2, <1>7 DEF Choose
  <2> QED
    BY <1>1, <1>2, <2>1, QueryKeeps
<1> QED
  BY <1>4, <1>5, <1>6, <1>7

\* Retry next to the query's message: denied, the account is verified anew.
LEMMA AccessKeeps ==
    ASSUME SessionInv, FeedsInv, AccessStep
    PROVE  SessionInv' /\ FeedsInv'
<1>1. principal' = principal /\ cacheGen' = cacheGen /\ panel' = [panel EXCEPT !.dirty = TRUE] /\ store' = Told /\ panel.mounted
  BY DEF AccessStep, Retry
<1>2. /\ store \in Stores /\ Invalidated(store) \in Stores /\ Invalidated(store).data = NoOne
      /\ panel' \in [chosen : BOOLEAN, mounted : BOOLEAN, key : QueryKey, dirty : BOOLEAN]
      /\ panel'.mounted /\ panel'.dirty
  BY <1>1, StoreForms DEF FeedsInv, FeedsTypeOK
<1>3. SessionInv' /\ KeepsOrRevokes
  <2>1. RefreshesAccess \/ UNCHANGED <<generation, ready, checks, page, recovery>>
    BY DEF AccessStep, Retry
  <2>2. CASE UNCHANGED <<generation, ready, checks, page, recovery>>
    BY <1>1, <2>2 DEF SessionInv, SessionTypeOK, GenerationsOwn, PageIsOwn, Recoverable, KeepsOrRevokes
  <2> QED
    BY <1>1, <2>1, <2>2, RefreshKeeps
<1>4. entry' \in Entries /\ entry'.key = entry.key /\ entry'.data = entry.data
  BY DEF AccessStep, Retry, FeedsInv, FeedsTypeOK, Entries
<1>5. generation \in Nat /\ entry.key.gen \in Nat /\ entry.key.gen <= generation
  BY DEF SessionInv, SessionTypeOK, FeedsInv, FeedsTypeOK, EntryOwn, Entries, QueryKey
<1>6. store' \in Stores /\ store'.data \in {NoOne, principal}
  BY <1>1, <1>2 DEF Told, FeedsInv, StoreOwn
<1>7. EntryOwn'
  BY <1>1, <1>3, <1>4, <1>5 DEF KeepsOrRevokes, Revokes, FeedsInv, EntryOwn
<1> QED
  BY <1>1, <1>2, <1>3, <1>4, <1>6, <1>7 DEF FeedsInv, FeedsTypeOK, StoreOwn, PanelOwn

LEMMA RenderKeeps ==
    ASSUME SessionInv, FeedsInv, Render
    PROVE  SessionInv' /\ FeedsInv'
<1>1. UNCHANGED <<principal, generation, checks, page, recovery, cacheGen>>
  BY DEF Render, sessionVars
<1>2. SessionInv'
  BY <1>1 DEF SessionInv, SessionTypeOK, GenerationsOwn, PageIsOwn, Recoverable
<1>3. KeyNow \in QueryKey /\ KeyNow.gen = generation /\ (Mounts => KeyNow.owner = principal) /\ NoKey \in QueryKey
  BY DEF KeyNow, QueryKey, Mounts, NoKey, NoGen, People, SessionInv, SessionTypeOK, PageIsOwn, FeedsInv, FeedsTypeOK
<1>4. panel' \in [chosen : BOOLEAN, mounted : BOOLEAN, key : QueryKey, dirty : BOOLEAN]
      /\ ~panel'.dirty /\ (panel'.mounted <=> Mounts) /\ panel'.chosen = panel.chosen
      /\ panel'.key = (IF Mounts THEN KeyNow ELSE NoKey)
  <2>1. Mounts \in BOOLEAN
    BY DEF Mounts, FeedsInv, FeedsTypeOK, SessionInv, SessionTypeOK
  <2> QED
    BY <1>3, <2>1 DEF Render, FeedsInv, FeedsTypeOK
<1>5. PanelOwn'
  BY <1>1, <1>4 DEF PanelOwn, Mounts, KeyNow
<1>6. store' \in Stores /\ StoreOwn'
  <2>1. /\ Ensured(IdleStore) \in Stores /\ Ensured(IdleStore).data = NoOne /\ IdleStore \in Stores /\ IdleStore.data = NoOne
        /\ store \in Stores /\ store.data \in {NoOne, principal} /\ (~panel.mounted => store = IdleStore)
    BY StoreForms DEF FeedsInv, FeedsTypeOK, StoreOwn
  <2>2. store' = IF Mounts = panel.mounted THEN store ELSE IF Mounts THEN Ensured(IdleStore) ELSE IdleStore
    BY DEF Render
  <2>3. Mounts \in BOOLEAN /\ panel.mounted \in BOOLEAN
    BY DEF Mounts, FeedsInv, FeedsTypeOK, SessionInv, SessionTypeOK
  <2> QED
    BY <1>1, <1>4, <2>1, <2>2, <2>3 DEF StoreOwn, IdleStore
<1>7. entry' \in Entries /\ EntryOwn'
  <2> DEFINE Fits(e) == /\ e \in Entries /\ e.data \in {NoOne, e.key.owner} /\ e.key.gen <= generation
                        /\ e.key.gen = generation => e.key.owner = principal
  <2>1. Fits(entry)
    BY DEF FeedsInv, FeedsTypeOK, EntryOwn
  <2>2. ASSUME NEW e, Fits(e) PROVE Fits(Left(e))
    BY <2>2 DEF Left, Entries
  <2>3. generation \in Nat
    BY DEF SessionInv, SessionTypeOK
  <2>4. ASSUME NEW e, Fits(e), Mounts PROVE Fits(Taken(e, KeyNow))
    <3>1. EmptyEntry(KeyNow) \in Entries /\ EmptyEntry(KeyNow).key = KeyNow /\ EmptyEntry(KeyNow).data = NoOne
      BY <1>3 DEF EmptyEntry, Entries, People
    <3>2. Fits(EmptyEntry(KeyNow))
      BY <1>3, <2>3, <2>4, <3>1
    <3>3. PICK k : k = IF e.key = KeyNow THEN e ELSE EmptyEntry(KeyNow)
      OBVIOUS
    <3>4. Fits(k)
      BY <2>4, <3>2, <3>3
    <3>5. \A b \in BOOLEAN : Fits([k EXCEPT !.waits = b])
      BY <3>4 DEF Entries
    <3>6. Taken(e, KeyNow) = [k EXCEPT !.waits = k.waits \/ ~(e.key = KeyNow /\ e.listening)]
      BY <3>3 DEF Taken
    <3> QED
      BY <3>5, <3>6
  <2>5. entry' \in {entry, Left(entry)} \/ (Mounts /\ entry' \in {Taken(entry, KeyNow), Taken(Left(entry), KeyNow)})
    BY DEF Render
  <2>6. Fits(entry')
    <3> HIDE DEF Fits
    <3> QED
      BY <2>1, <2>2, <2>4, <2>5
  <2> QED
    BY <1>1, <2>6 DEF EntryOwn
<1> QED
  BY <1>1, <1>2, <1>4, <1>5, <1>6, <1>7 DEF FeedsInv, FeedsTypeOK

\* Sessions, late answers and renderings.
LEMMA ClientKeeps ==
    ASSUME SessionInv, FeedsInv, LeavingOK, ClientNext
    PROVE  SessionInv' /\ FeedsInv' /\ LeavingOK'
<1>1. CASE SessionStep
  BY <1>1, SessionStepKeeps
<1>2. CASE FeedStep
  <2>1. UNCHANGED leaving
    BY <1>2 DEF FeedStep, StoreWakes, StoreHears, StoreFails, StoreRetries, QueryWakes, QueryHears, QueryFails,
                Render, Choose, AccessStep, Retry, sessionVars
  <2> QED
    BY <1>2, <2>1, StoreStepKeeps, QueryStepKeeps, RenderKeeps, AccessKeeps DEF FeedStep, LeavingOK
<1> QED
  BY <1>1, <1>2 DEF ClientNext

LEMMA FeedsAreOwn == SessionInv /\ FeedsInv => NothingOfOthers
BY DEF SessionInv, PageIsOwn, FeedsInv, StoreOwn, EntryOwn, PanelOwn, Mounts, KeyNow, NothingOfOthers


-----------------------------------------------------------------------------
\* ClientLink: the dashboard's list over a connection that breaks.

Links == [socket : {"up", "down", "dead"}, online : BOOLEAN, seen : BOOLEAN, away : BOOLEAN,
          connected : BOOLEAN, disconnected : BOOLEAN, suspended : BOOLEAN, timer : BOOLEAN, cooling : BOOLEAN]
Lives == [connected : BOOLEAN, awaiting : BOOLEAN, pending : BOOLEAN, conn : Nat, resume : Nat,
          rendered : Nat \X Nat, failed : BOOLEAN, list : {"unknown", "known"}]

LinkTypeOK == link \in Links /\ life \in Lives

\* A list that waits for nothing and did not fail is known.
ListOwn == ~life.awaiting /\ ~life.failed => life.list = "known"

\* No restart is asked for while one is pending.
RestartOwn == (life.pending => link.cooling) /\ (link.timer => ~link.cooling)

LinkInv == LinkTypeOK /\ ListOwn /\ RestartOwn

LEMMA LinkStarts == LinkInit => LinkInv
BY DEF LinkInit, LinkInv, LinkTypeOK, Links, Lives, ListOwn, RestartOwn

\* A report of the connection keeps the list, and a gap has it wait.
LEMMA ConnectionIs ==
    ASSUME NEW l \in Lives, NEW up \in BOOLEAN
    PROVE  /\ Connection(l, up) \in Lives /\ Connection(l, up).pending = l.pending
           /\ Connection(l, up).failed = l.failed /\ Connection(l, up).list = l.list
           /\ Connection(l, up).awaiting = (IF up THEN l.awaiting ELSE TRUE)
<1>1. PICK c \in Nat : c = IF up /\ ~l.connected THEN l.conn + 1 ELSE l.conn
  BY DEF Lives
<1>2. Connection(l, up) = [l EXCEPT !.connected = up, !.awaiting = IF up THEN l.awaiting ELSE TRUE, !.conn = c]
  BY <1>1 DEF Connection
<1> QED
  BY <1>1, <1>2 DEF Lives

LEMMA ScheduleIs ==
    ASSUME NEW k \in Links, NEW b \in BOOLEAN
    PROVE  /\ ScheduledReconnect(k, b) \in Links /\ ScheduledReconnect(k, b).cooling = k.cooling
           /\ ScheduledReconnect(k, b).timer => k.timer \/ ~k.cooling
BY DEF ScheduledReconnect, Links

\* A step of the link that leaves the reducer's state or has the list wait.
LEMMA LinkStepKeeps ==
    ASSUME LinkInv, LinkNext
    PROVE  LinkInv'
<1>1. link \in Links /\ life \in Lives
  BY DEF LinkInv, LinkTypeOK
<1>2. ASSUME link' \in Links, life' \in Lives, ListOwn', RestartOwn'
      PROVE  LinkInv'
  BY <1>2 DEF LinkInv, LinkTypeOK
<1>3. ASSUME NEW k \in Links, k.cooling = link.cooling, k.timer => link.timer, ReportsGap(k)
      PROVE  LinkInv'
  <2> DEFINE down == [k EXCEPT !.socket = "down", !.connected = FALSE, !.disconnected = @ \/ k.connected]
  <2>1. down \in Links /\ down.cooling = k.cooling /\ down.timer = k.timer
    BY DEF Links
  <2>2. link' \in {down, ScheduledReconnect(down, FALSE)}
    BY <1>3 DEF ReportsGap
  <2> HIDE DEF down
  <2>a. PICK s : s = ScheduledReconnect(down, FALSE)
    OBVIOUS
  <2>b. s \in Links /\ s.cooling = down.cooling /\ (s.timer => down.timer \/ ~down.cooling)
    BY <2>1, <2>a, ScheduleIs
  <2>3. link' \in Links /\ link'.cooling = link.cooling /\ (link'.timer => link.timer \/ ~link.cooling)
    <3>1. CASE link' = down
      BY ONLY <1>3, <2>1, <3>1, Zenon
    <3>2. CASE link' = s
      BY ONLY <1>3, <2>1, <2>b, <3>2, Zenon
    <3> QED
      BY <2>2, <2>a, <3>1, <3>2
  <2>4. Emptied(life) \in Lives /\ Emptied(life).pending = life.pending
    BY <1>1 DEF Emptied, Lives
  <2>5. PICK l \in {life, Emptied(life)} : life' = Connection(l, FALSE)
    BY <1>3 DEF ReportsGap, MarkDisconnected
  <2>6. life' \in Lives /\ life'.pending = life.pending /\ life'.awaiting
    BY <1>1, <2>4, <2>5, ConnectionIs
  <2> QED
    BY <1>2, <2>3, <2>6 DEF LinkInv, ListOwn, RestartOwn
<1>4. ASSUME link' \in Links, link'.cooling = link.cooling, link'.timer => link.timer \/ ~link.cooling,
             life' \in Lives, life'.pending = life.pending,
             life'.awaiting = life.awaiting, life'.failed = life.failed, life'.list = life.list
      PROVE  LinkInv'
  BY <1>2, <1>4 DEF LinkInv, ListOwn, RestartOwn
<1>5. CASE Heals
  <2>1. link' \in Links /\ link'.cooling = link.cooling /\ (link'.timer => link.timer)
    BY <1>1, <1>5 DEF Heals, Cancelled, Links
  <2>2. life' = Connection(life, TRUE)
    BY <1>5 DEF Heals
  <2> QED
    BY <1>1, <1>4, <2>1, <2>2, ConnectionIs
<1>6. CASE Breaks \/ FoundDead
  BY <1>1, <1>3, <1>6 DEF Breaks, FoundDead
<1>7. CASE Dies
  <2>1. link' \in Links /\ link'.cooling = link.cooling /\ link'.timer = link.timer /\ life' = life
    BY <1>1, <1>7 DEF Dies, Links
  <2> QED
    BY <1>1, <1>4, <2>1
<1>8. CASE GoesOffline
  <2>1. link' \in Links /\ link'.cooling = link.cooling /\ ~link'.timer
    BY <1>1, <1>8 DEF GoesOffline, Cancelled, Links
  <2>2. Emptied(life) \in Lives /\ Emptied(life).pending = life.pending
    BY <1>1 DEF Emptied, Lives
  <2>3. PICK l \in {life, Emptied(life)} : life' = Connection(l, FALSE)
    BY <1>8 DEF GoesOffline, MarkDisconnected
  <2>4. life' \in Lives /\ life'.pending = life.pending /\ life'.awaiting
    BY <1>1, <2>2, <2>3, ConnectionIs
  <2> QED
    BY <1>2, <2>1, <2>4 DEF LinkInv, ListOwn, RestartOwn
<1>9. CASE IsHidden
  <2>1. link' \in Links /\ link'.cooling = link.cooling /\ ~link'.timer /\ life' = life
    BY <1>1, <1>9 DEF IsHidden, Cancelled, Links
  <2> QED
    BY <1>1, <1>4, <2>1
<1>10. CASE IsBack
  <2> DEFINE seen == [link EXCEPT !.seen = TRUE, !.away = FALSE]
             online == [link EXCEPT !.online = TRUE]
  <2>1. seen \in Links /\ seen.cooling = link.cooling /\ seen.timer = link.timer
        /\ online \in Links /\ online.cooling = link.cooling /\ online.timer = link.timer /\ link.away \in BOOLEAN
    BY <1>1 DEF Links
  <2>2. life' = life /\ link' \in {ScheduledReconnect(seen, link.away), ScheduledReconnect(online, FALSE)}
    BY <1>10 DEF IsBack
  <2> HIDE DEF seen, online
  <2>a. PICK s, t : s = ScheduledReconnect(seen, link.away) /\ t = ScheduledReconnect(online, FALSE)
    OBVIOUS
  <2>b. s \in Links /\ s.cooling = seen.cooling /\ (s.timer => seen.timer \/ ~seen.cooling)
    BY <2>1, <2>a, ScheduleIs
  <2>c. t \in Links /\ t.cooling = online.cooling /\ (t.timer => online.timer \/ ~online.cooling)
    BY <2>1, <2>a, ScheduleIs
  <2>3. link' \in Links /\ link'.cooling = link.cooling /\ (link'.timer => link.timer \/ ~link.cooling)
    <3>1. CASE link' = s
      BY ONLY <2>1, <2>b, <3>1, Zenon
    <3>2. CASE link' = t
      BY ONLY <2>1, <2>c, <3>2, Zenon
    <3> QED
      BY <2>2, <2>a, <3>1, <3>2
  <2> QED
    BY <1>1, <1>4, <2>2, <2>3
<1>11. CASE Reconnects
  <2>1. CASE link.suspended \/ link.disconnected
    <3>1. ~link.cooling /\ ~life.pending
      BY <1>1, <1>11 DEF Reconnects, LinkInv, RestartOwn, Lives
    <3>2. link' \in Links /\ link'.cooling /\ ~link'.timer
      <4>1. link' = [link EXCEPT !.timer = FALSE, !.suspended = FALSE, !.cooling = TRUE,
                                 !.connected = FALSE, !.disconnected = TRUE, !.socket = "down"]
        BY <1>11, <2>1 DEF Reconnects
      <4> QED
        BY <1>1, <4>1 DEF Links
    <3>3. PICK asked : asked = Emptied(ReconnectRequested(life))
      OBVIOUS
    <3>a. PICK r \in Nat : r = life.resume + 1
      BY <1>1 DEF Lives
    <3>b. asked = [[life EXCEPT !.connected = FALSE, !.awaiting = TRUE, !.pending = TRUE, !.resume = r] EXCEPT !.list = "unknown"]
      BY <3>1, <3>3, <3>a DEF Emptied, ReconnectRequested
    <3>4. asked \in Lives /\ asked.awaiting
      BY <1>1, <3>a, <3>b DEF Lives
    <3>5. life' = asked \/ life' = Connection(asked, FALSE)
      BY <1>11, <2>1, <3>3 DEF Reconnects
    <3>6. life' \in Lives /\ life'.awaiting
      BY <3>4, <3>5, ConnectionIs
    <3> QED
      BY <1>2, <3>2, <3>6 DEF ListOwn, RestartOwn
  <2>2. CASE ~(link.suspended \/ link.disconnected)
    <3>1. link' \in Links /\ link'.cooling = link.cooling /\ ~link'.timer /\ life' = life
      BY <1>1, <1>11, <2>2 DEF Reconnects, Cancelled, Links
    <3> QED
      BY <1>1, <1>4, <3>1
  <2> QED
    BY <2>1, <2>2
<1>12. CASE CooldownEnds
  <2>1. link' \in Links /\ ~link'.cooling
    BY <1>1, <1>12 DEF CooldownEnds, Links
  <2>2. life' \in Lives /\ ~life'.pending /\ life'.awaiting = life.awaiting /\ life'.failed = life.failed /\ life'.list = life.list
    BY <1>1, <1>12 DEF CooldownEnds, Lives
  <2> QED
    BY <1>2, <2>1, <2>2 DEF LinkInv, ListOwn, RestartOwn
<1>13. CASE Resubscribes
  <2>1. PICK now : now = <<life.conn, life.resume>>
    OBVIOUS
  <2>2. now \in Nat \X Nat /\ life' = [life EXCEPT !.rendered = now] /\ link' = link
    BY <1>1, <1>13, <2>1 DEF Resubscribes, Lives
  <2>3. life' \in Lives /\ life'.pending = life.pending
        /\ life'.awaiting = life.awaiting /\ life'.failed = life.failed /\ life'.list = life.list
    BY <1>1, <2>2 DEF Lives
  <2> QED
    BY <1>1, <1>4, <2>2, <2>3
<1>14. CASE ListHears
  <2>1. link' = link /\ life' \in Lives /\ life'.list = "known" /\ life'.pending = life.pending
    BY <1>1, <1>14 DEF ListHears, SnapshotReceived, Lives
  <2> QED
    BY <1>1, <1>2, <2>1 DEF LinkInv, ListOwn, RestartOwn
<1>15. CASE ListFails
  <2>1. link' = link /\ life' \in Lives /\ life'.failed /\ life'.pending = life.pending
    BY <1>1, <1>15 DEF ListFails, Emptied, Lives
  <2> QED
    BY <1>1, <1>2, <2>1 DEF LinkInv, ListOwn, RestartOwn
<1>16. CASE ListStarts
  BY <1>1, <1>4, <1>16 DEF ListStarts, linkVars
<1> QED
  BY <1>5, <1>6, <1>7, <1>8, <1>9, <1>10, <1>11, <1>12, <1>13, <1>14, <1>15, <1>16 DEF LinkNext

\* The connection touches the live store only, and an open dashboard stays open.
LEMMA LinkKeepsFeeds ==
    ASSUME SessionInv, FeedsInv, LeavingOK, panel.mounted, LinkNext
    PROVE  SessionInv' /\ FeedsInv' /\ LeavingOK' /\ panel'.mounted
<1>1. UNCHANGED <<principal, generation, checks, page, recovery, leaving, panel, entry, cacheGen>>
  BY DEF LinkNext, Heals, Breaks, Dies, FoundDead, GoesOffline, IsHidden, IsBack, Reconnects, CooldownEnds,
         Resubscribes, ListHears, ListFails, ListStarts, StoreHears, StoreFails, StoreWakes, StoreRetries,
         sessionVars, feeds
<1>2. CASE StoreHears \/ StoreFails \/ StoreWakes \/ StoreRetries
  BY <1>1, <1>2, StoreStepKeeps DEF LeavingOK
<1>3. CASE store' \in {store, Invalidated(store), Ensured(IdleStore)}
  <2>1. store \in Stores /\ store.data \in {NoOne, principal}
    BY DEF FeedsInv, FeedsTypeOK, StoreOwn
  <2>2. store' \in Stores /\ store'.data \in {NoOne, principal}
    BY <1>3, <2>1, StoreForms
  <2> QED
    BY <1>1, <2>2, StoreKeeps DEF LeavingOK
<1>4. ASSUME Heals \/ Dies \/ IsHidden \/ IsBack \/ CooldownEnds PROVE store' = store
  BY <1>4 DEF Heals, Dies, IsHidden, IsBack, CooldownEnds, feeds
<1>5. ASSUME Breaks \/ FoundDead \/ GoesOffline PROVE store' \in {store, Invalidated(store)}
  BY <1>5 DEF Breaks, FoundDead, GoesOffline, ReportsGap, MarkDisconnected
<1>6. ASSUME Reconnects PROVE store' \in {store, Invalidated(store)}
  BY <1>6 DEF Reconnects
<1>7. ASSUME Resubscribes PROVE store' = Ensured(IdleStore)
  BY <1>7 DEF Resubscribes
<1>8. ASSUME ListHears \/ ListFails \/ ListStarts PROVE StoreHears \/ StoreFails \/ StoreWakes \/ StoreRetries
  BY <1>8 DEF ListHears, ListFails, ListStarts
<1> QED
  BY <1>2, <1>3, <1>4, <1>5, <1>6, <1>7, <1>8 DEF LinkNext

\* What the page keeps, whoever signs in, whatever is late or breaks.
PageInv ==
    /\ SessionInv /\ FeedsInv /\ LeavingOK /\ LinkInv
    /\ scene = "dashboard" => panel.mounted

LEMMA SignedInStarts == ASSUME NEW a \in Accounts, SignedIn(a) PROVE SessionInv /\ FeedsInv /\ LeavingOK /\ panel.mounted
<1>1. /\ [owner |-> a, gen |-> 1, cache |-> 0] \in QueryKey
      /\ Ensured(IdleStore) \in Stores /\ Ensured(IdleStore).data = NoOne
  BY DEF QueryKey, People, Ensured, IdleStore, Stores, NoGen
<1>2. /\ EmptyEntry([owner |-> a, gen |-> 1, cache |-> 0]) \in Entries
      /\ EmptyEntry([owner |-> a, gen |-> 1, cache |-> 0]).data = NoOne
      /\ EmptyEntry([owner |-> a, gen |-> 1, cache |-> 0]).key = [owner |-> a, gen |-> 1, cache |-> 0]
  BY <1>1 DEF EmptyEntry, Entries, People
<1>3. SessionInv /\ LeavingOK
  BY AccountAssumption DEF SignedIn, SessionInv, SessionTypeOK, GenerationsOwn, PageIsOwn, Recoverable, Fresh, People, LeavingOK
<1>4. FeedsTypeOK
  BY <1>1, <1>2 DEF SignedIn, FeedsTypeOK
<1>5. StoreOwn /\ EntryOwn /\ PanelOwn
  BY <1>1, <1>2, AccountAssumption DEF SignedIn, StoreOwn, EntryOwn, PanelOwn, Mounts, KeyNow
<1> QED
  BY <1>3, <1>4, <1>5 DEF FeedsInv, SignedIn

LEMMA PageStarts == EdgeInit => PageInv
<1> SUFFICES ASSUME EdgeInit PROVE PageInv
  OBVIOUS
<1>1. LinkInv
  BY LinkStarts DEF EdgeInit
<1>2. CASE scene = "dashboard"
  BY <1>1, <1>2, SignedInStarts DEF EdgeInit, PageInv
<1>3. CASE scene # "dashboard"
  <2>1. SessionInit /\ FeedsInit
    BY <1>3 DEF EdgeInit, ClientInit
  <2>2. LeavingOK
    BY <2>1 DEF SessionInit, LeavingOK
  <2> QED
    BY <1>1, <1>3, <2>1, <2>2, SessionStarts, FeedsStart DEF PageInv
<1> QED
  BY <1>2, <1>3

LEMMA PageStep == PageInv /\ [EdgeNext]_edgeVars => PageInv'
<1> SUFFICES ASSUME PageInv, [EdgeNext]_edgeVars PROVE PageInv'
  OBVIOUS
<1>0. scene' = scene
  BY DEF EdgeNext, edgeVars
<1>1. CASE UNCHANGED pageVars
  <2>1. UNCHANGED <<sessionVars, feeds, linkVars>>
    BY <1>1 DEF pageVars, clientVars
  <2>2. SessionInv' /\ LeavingOK'
    BY <2>1 DEF sessionVars, PageInv, SessionInv, SessionTypeOK, GenerationsOwn, PageIsOwn, Recoverable, LeavingOK
  <2>3. FeedsInv'
    BY <2>1 DEF sessionVars, feeds, PageInv, FeedsInv, FeedsTypeOK, StoreOwn, EntryOwn, PanelOwn, Mounts, KeyNow
  <2>4. LinkInv'
    BY <2>1 DEF linkVars, PageInv, LinkInv, LinkTypeOK, ListOwn, RestartOwn
  <2> QED
    BY <1>0, <2>1, <2>2, <2>3, <2>4 DEF feeds, PageInv
<1>2. CASE scene = "session" /\ ClientNext /\ UNCHANGED linkVars
  <2>1. LinkInv'
    BY <1>2 DEF linkVars, PageInv, LinkInv, LinkTypeOK, ListOwn, RestartOwn
  <2> QED
    BY <1>0, <1>2, <2>1, ClientKeeps DEF PageInv
<1>3. CASE scene = "dashboard" /\ LinkNext
  BY <1>0, <1>3, LinkKeepsFeeds, LinkStepKeeps DEF PageInv
<1> QED
  BY <1>1, <1>2, <1>3 DEF EdgeNext, PageNext, edgeVars

\* Verifications, listeners, queries and renderings fit together by their
\* generations, and the list by its connection (authState.ts, useCollection.ts,
\* rtdbResumeState.ts).
THEOREM PageInvariant == EdgeSpec => []PageInv
<1> QED
  BY PageStarts, PageStep, PTL DEF EdgeSpec

\* The page shows what belongs to the account Firebase has, however many
\* verifications, sign-outs and late answers race.
THEOREM NothingOfOthersAlways == EdgeSpec => []NothingOfOthers
<1>1. PageInv => NothingOfOthers
  BY FeedsAreOwn DEF PageInv
<1> QED
  BY <1>1, PageInvariant, PTL

\* Neither an account nor a list of buses is shown as none while it is unknown.
THEOREM UnknownIsNotNoneAlways == EdgeSpec => []UnknownIsNotNone
<1>1. PageInv => UnknownIsNotNone
  BY DEF PageInv, SessionInv, PageIsOwn, LinkInv, LinkTypeOK, Lives, ListOwn, IsResuming, UnknownIsNotNone
<1> QED
  BY <1>1, PageInvariant, PTL


-----------------------------------------------------------------------------
\* FirmwareNetwork: one query at a time.

ResolverSpec == ResolverInit /\ [][ResolverNext]_resolverVars

Names == Hosts \union {NoHost}
Addresses == [host : Names, network : Nat]
Slot == [active : BOOLEAN, ticket : Nat, host : Names, network : Nat, late : BOOLEAN]
Finished == [ticket : Nat, network : Nat, late : BOOLEAN, address : Addresses]
Waiting == [host : Names, ticket : Nat, told : Addresses]

ResolverTypeOK ==
    /\ network \in Nat /\ slot \in Slot /\ finished \in Finished
    /\ waiting \in [Tasks -> Waiting]

\* lwIP works for the owner of the slot, or for nobody.
LookupsOwn ==
    lookups = IF slot.active THEN {[host |-> slot.host, network |-> slot.network]} ELSE {}

\* Tickets are handed out in order; the last one finished is before an active one.
TicketsInOrder ==
    /\ finished.ticket <= slot.ticket
    /\ slot.active => finished.ticket < slot.ticket

\* A task waits for its own host: under the slot's ticket, and under the answered one.
WaitsForOwn(w) ==
    /\ w.ticket <= slot.ticket
    /\ w.ticket # 0 /\ w.ticket = slot.ticket => w.host = slot.host
    /\ w.ticket # 0 /\ w.ticket = finished.ticket /\ finished.address # NoAnswer =>
           finished.address = [host |-> w.host, network |-> finished.network]

ResolverInv ==
    /\ ResolverTypeOK /\ LookupsOwn /\ TicketsInOrder
    /\ \A t \in Tasks : WaitsForOwn(waiting[t])

LEMMA NoAnswerIs == NoAnswer \in Addresses /\ NotWaiting \in Waiting /\ NotWaiting.told = NoAnswer /\ NotWaiting.ticket = 0
BY DEF NoAnswer, Addresses, NotWaiting, Waiting, Names

LEMMA ResolverStarts == ResolverInit => ResolverInv
BY NoAnswerIs DEF ResolverInit, FreeSlot, ResolverInv, ResolverTypeOK, Slot, Finished, LookupsOwn, TicketsInOrder, WaitsForOwn, Names

\* The tasks' own: one of them waits, gives up or is told.
LEMMA WaitKeeps ==
    ASSUME ResolverInv, NEW t \in Tasks, NEW w \in Waiting, WaitsForOwn(w), waiting' = [waiting EXCEPT ![t] = w],
           UNCHANGED <<network, slot, finished, lookups>>
    PROVE  ResolverInv'
<1>1. waiting' \in [Tasks -> Waiting] /\ \A u \in Tasks : waiting'[u] = w \/ waiting'[u] = waiting[u]
  BY DEF ResolverInv, ResolverTypeOK
<1>2. \A u \in Tasks : WaitsForOwn(waiting'[u])
  BY <1>1 DEF ResolverInv
<1> QED
  BY <1>1, <1>2 DEF ResolverInv, ResolverTypeOK, LookupsOwn, TicketsInOrder, WaitsForOwn

LEMMA ResolverStep ==
    ASSUME ResolverInv, [ResolverNext]_resolverVars
    PROVE  /\ ResolverInv'
           /\ \A t \in Tasks :
                  waiting'[t].told # waiting[t].told /\ waiting'[t].told # NoAnswer =>
                      waiting'[t].told = [host |-> waiting[t].host, network |-> network]
<1> DEFINE TellsOwn == \A t \in Tasks :
                           waiting'[t].told # waiting[t].told /\ waiting'[t].told # NoAnswer =>
                               waiting'[t].told = [host |-> waiting[t].host, network |-> network]
<1>0. /\ network \in Nat /\ slot \in Slot /\ finished \in Finished /\ waiting \in [Tasks -> Waiting]
      /\ LookupsOwn /\ TicketsInOrder /\ \A u \in Tasks : WaitsForOwn(waiting[u])
  BY DEF ResolverInv, ResolverTypeOK
<1>1. CASE UNCHANGED resolverVars
  <2>1. ResolverInv'
    BY <1>1 DEF resolverVars, ResolverInv, ResolverTypeOK, LookupsOwn, TicketsInOrder, WaitsForOwn
  <2>2. waiting' = waiting
    BY <1>1 DEF resolverVars
  <2> QED
    BY <2>1, <2>2
<1>2. ASSUME NEW t \in Tasks, NEW host \in Hosts, Resolve(t, host)
      PROVE  ResolverInv' /\ TellsOwn
  <2>1. ASSUME NEW k \in Nat
        PROVE  /\ [NotWaiting EXCEPT !.host = host, !.ticket = k] \in Waiting
               /\ [NotWaiting EXCEPT !.host = host, !.ticket = k].ticket = k
               /\ [NotWaiting EXCEPT !.host = host, !.ticket = k].host = host
               /\ [NotWaiting EXCEPT !.host = host, !.ticket = k].told = NoAnswer
    BY NoAnswerIs DEF NotWaiting, Waiting, Names
  <2>2. CASE slot.active /\ slot.host = host /\ UNCHANGED <<slot, lookups>>
             /\ waiting' = [waiting EXCEPT ![t] = [NotWaiting EXCEPT !.host = host, !.ticket = slot.ticket]]
    <3> PICK w : w = [NotWaiting EXCEPT !.host = host, !.ticket = slot.ticket]
      OBVIOUS
    <3>1. slot.ticket \in Nat /\ finished.ticket \in Nat /\ finished.ticket < slot.ticket
      BY <1>0, <2>2 DEF Slot, Finished, TicketsInOrder
    <3>2. w \in Waiting /\ w.ticket = slot.ticket /\ w.host = host /\ w.told = NoAnswer
      BY <2>1, <3>1
    <3>3. WaitsForOwn(w)
      BY <2>2, <3>1, <3>2 DEF WaitsForOwn
    <3>4. waiting' = [waiting EXCEPT ![t] = w] /\ UNCHANGED <<network, finished>>
      BY <1>2, <2>2 DEF Resolve
    <3>5. \A u \in Tasks : waiting'[u] = w \/ waiting'[u] = waiting[u]
      BY <1>0, <3>4
    <3> QED
      BY <2>2, <3>2, <3>3, <3>4, <3>5, WaitKeeps
  <2>3. CASE ~slot.active /\ slot' = [active |-> TRUE, ticket |-> slot.ticket + 1, host |-> host, network |-> network, late |-> FALSE]
             /\ lookups' = lookups \cup {[host |-> host, network |-> network]}
             /\ waiting' = [waiting EXCEPT ![t] = [NotWaiting EXCEPT !.host = host, !.ticket = slot.ticket + 1]]
    <3> PICK w : w = [NotWaiting EXCEPT !.host = host, !.ticket = slot.ticket + 1]
      OBVIOUS
    <3>1. slot.ticket \in Nat /\ finished.ticket \in Nat /\ finished.ticket <= slot.ticket /\ slot.ticket + 1 \in Nat
      BY <1>0, <2>3 DEF Slot, Finished, TicketsInOrder
    <3>2. w \in Waiting /\ w.ticket = slot.ticket + 1 /\ w.host = host /\ w.told = NoAnswer
      BY <2>1, <3>1
    <3>3. /\ slot' \in Slot /\ slot'.ticket = slot.ticket + 1 /\ slot'.host = host /\ slot'.active /\ slot'.network = network
          /\ finished' = finished /\ network' = network
      BY <1>0, <1>2, <2>3, <3>1 DEF Slot, Names, Resolve
    <3>4. waiting' = [waiting EXCEPT ![t] = w]
      BY <2>3
    <3>5. waiting' \in [Tasks -> Waiting] /\ \A u \in Tasks : waiting'[u] = w \/ waiting'[u] = waiting[u]
      BY <1>0, <3>2, <3>4
    <3>6. LookupsOwn' /\ TicketsInOrder'
      BY <1>0, <2>3, <3>1, <3>3 DEF LookupsOwn, TicketsInOrder
    <3>7. ASSUME NEW u \in Tasks PROVE WaitsForOwn(waiting[u])'
      <4>1. waiting[u].ticket \in Nat /\ WaitsForOwn(waiting[u])
        BY <1>0 DEF Waiting
      <4>2. CASE waiting'[u] = w
        BY <3>1, <3>2, <3>3, <4>2 DEF WaitsForOwn
      <4>3. CASE waiting'[u] = waiting[u]
        BY <3>1, <3>3, <4>1, <4>3 DEF WaitsForOwn
      <4> QED
        BY <3>5, <4>2, <4>3
    <3> QED
      BY <1>0, <3>2, <3>3, <3>5, <3>6, <3>7 DEF ResolverInv, ResolverTypeOK
  <2> QED
    BY <1>2, <2>2, <2>3 DEF Resolve
<1>3. ASSUME NEW l \in lookups, Complete(l)
      PROVE  ResolverInv' /\ TellsOwn
  <2>1. slot.active /\ l = [host |-> slot.host, network |-> slot.network] /\ lookups' = {}
    BY <1>0, <1>3 DEF Complete, LookupsOwn
  <2>2. slot' = [slot EXCEPT !.active = FALSE] /\ UNCHANGED <<network, waiting>>
    BY <1>3, <2>1 DEF Complete
  <2>3. slot' \in Slot /\ ~slot'.active /\ slot'.ticket = slot.ticket /\ slot'.host = slot.host
    BY <1>0, <2>2 DEF Slot
  <2>4. PICK answer \in {NoAnswer, l} :
          finished' = [ticket |-> slot.ticket, network |-> slot.network, late |-> slot.late, address |-> answer]
    BY <1>3, <2>1 DEF Complete
  <2>5. finished' \in Finished /\ finished'.ticket = slot.ticket /\ finished'.network = slot.network /\ finished'.address = answer
    BY <1>0, <2>1, <2>4, NoAnswerIs DEF Slot, Finished, Addresses
  <2>6. LookupsOwn' /\ TicketsInOrder'
    BY <1>0, <2>1, <2>3, <2>5 DEF LookupsOwn, TicketsInOrder, Slot
  <2>7. ASSUME NEW u \in Tasks PROVE WaitsForOwn(waiting[u])'
    <3>1. WaitsForOwn(waiting[u])
      BY <1>0
    <3> QED
      BY <2>1, <2>2, <2>3, <2>5, <3>1 DEF WaitsForOwn
  <2> QED
    BY <1>0, <2>2, <2>3, <2>5, <2>6, <2>7 DEF ResolverInv, ResolverTypeOK
<1>4. ASSUME NEW t \in Tasks, Poll(t)
      PROVE  ResolverInv' /\ TellsOwn
  <2>1. waiting[t] \in Waiting /\ WaitsForOwn(waiting[t]) /\ finished.address \in Addresses
    BY <1>0 DEF Finished
  <2>2. PICK told \in Addresses : \E w :
          /\ waiting' = [waiting EXCEPT ![t] = w]
          /\ w \in {NotWaiting, [host |-> waiting[t].host, ticket |-> 0, told |-> told]}
          /\ told = NoAnswer \/ told = [host |-> waiting[t].host, network |-> network]
    <3>1. CASE waiting' = [waiting EXCEPT ![t] = NotWaiting]
      BY <3>1, NoAnswerIs
    <3>2. CASE /\ finished.ticket = waiting[t].ticket /\ finished.network = network
               /\ waiting' = [waiting EXCEPT ![t] = [host |-> waiting[t].host, ticket |-> 0, told |-> finished.address]]
      BY <1>4, <2>1, <3>2 DEF Poll, WaitsForOwn
    <3>3. \/ finished.ticket = waiting[t].ticket /\ finished.network = network /\ ~finished.late
          \/ ~(finished.ticket = waiting[t].ticket /\ finished.network = network /\ ~finished.late)
      OBVIOUS
    <3> QED
      BY <1>0, <1>4, <3>1, <3>2, <3>3 DEF Poll
  <2>b. PICK w : /\ waiting' = [waiting EXCEPT ![t] = w]
                 /\ w \in {NotWaiting, [host |-> waiting[t].host, ticket |-> 0, told |-> told]}
    BY <2>2
  <2>3. w \in Waiting /\ w.ticket = 0 /\ (w.told = NoAnswer \/ w.told = [host |-> waiting[t].host, network |-> network])
    BY <2>1, <2>2, <2>b, NoAnswerIs DEF Waiting
  <2>4. WaitsForOwn(w)
    BY <1>0, <2>3 DEF WaitsForOwn, Slot
  <2>5. UNCHANGED <<network, slot, finished, lookups>>
    BY <1>4 DEF Poll, SlotAfter
  <2>6. \A u \in Tasks : IF u = t THEN waiting'[u] = w ELSE waiting'[u] = waiting[u]
    BY <1>0, <2>b
  <2> QED
    BY <2>b, <2>3, <2>4, <2>5, <2>6, WaitKeeps
<1>5. CASE BudgetEnds
  <2>1. UNCHANGED <<network, lookups, waiting>> /\ slot' \in {slot, [slot EXCEPT !.late = TRUE]}
        /\ finished' \in {finished, [finished EXCEPT !.late = TRUE]}
    BY <1>5 DEF BudgetEnds
  <2>2. slot' \in Slot /\ slot'.active = slot.active /\ slot'.ticket = slot.ticket /\ slot'.host = slot.host /\ slot'.network = slot.network
    BY <1>0, <2>1 DEF Slot
  <2>3. finished' \in Finished /\ finished'.ticket = finished.ticket /\ finished'.network = finished.network
        /\ finished'.address = finished.address
    BY <1>0, <2>1 DEF Finished
  <2>4. LookupsOwn'
    BY <1>0, <2>1, <2>2 DEF LookupsOwn
  <2>5. ResolverInv'
    BY <1>0, <2>1, <2>2, <2>3, <2>4 DEF ResolverInv, ResolverTypeOK, TicketsInOrder, WaitsForOwn
  <2> QED
    BY <2>1, <2>5
<1>6. CASE ChangeNetwork
  <2>1. network' \in Nat /\ UNCHANGED <<slot, finished, lookups, waiting>>
    BY <1>0, <1>6 DEF ChangeNetwork
  <2>2. ResolverInv'
    BY <1>0, <2>1 DEF ResolverInv, ResolverTypeOK, LookupsOwn, TicketsInOrder, WaitsForOwn
  <2> QED
    BY <2>1, <2>2
<1> QED
  BY <1>1, <1>2, <1>3, <1>4, <1>5, <1>6 DEF ResolverNext

\* The tickets of the resolver's tasks, its slot and what lwIP works on agree
\* (dns_resolution_policy.h).
THEOREM ResolverInvariant == ResolverSpec => []ResolverInv
BY ResolverStarts, ResolverStep, PTL DEF ResolverSpec

\* No task is told the address of another host or of another network.
THEOREM AddressIsOwnAlways == ResolverSpec => AddressIsOwn
<1>1. ResolverInv /\ [ResolverNext]_resolverVars =>
          [\A t \in Tasks :
               waiting'[t].told # waiting[t].told /\ waiting'[t].told # NoAnswer =>
                   waiting'[t].told = [host |-> waiting[t].host, network |-> network]]_resolverVars
  BY ResolverStep
<1> QED
  BY <1>1, ResolverInvariant, PTL DEF ResolverSpec, AddressIsOwn


-----------------------------------------------------------------------------
\* FirmwareNetwork: one health report at a time.

DiagnosticSpec == DiagnosticInit /\ [][DiagnosticNext]_diagnosticVars

DiagnosticInv ==
    /\ report \in [inFlight : BOOLEAN, due : BOOLEAN, published : BOOLEAN, failures : Nat]
    /\ jobs \in {<<>>, <<"report">>}
    /\ sender \in {"idle", "sending"}
    /\ results \in {<<>>} \union {<<status>> : status \in {"accepted", "401", "403", "failed"}}
    /\ jobs = <<>> \/ (sender = "idle" /\ results = <<>>)
    /\ sender = "idle" \/ results = <<>>
    /\ report.inFlight <=> jobs # <<>> \/ sender = "sending" \/ results # <<>>
    /\ ~overwritten

LEMMA DiagnosticStep == DiagnosticInv /\ [DiagnosticNext]_diagnosticVars => DiagnosticInv'
<1> SUFFICES ASSUME DiagnosticInv, [DiagnosticNext]_diagnosticVars PROVE DiagnosticInv'
  OBVIOUS
<1>0. /\ report \in [inFlight : BOOLEAN, due : BOOLEAN, published : BOOLEAN, failures : Nat]
      /\ <<>> # <<"report">> /\ \A s : <<>> # <<s>> /\ Len(<<s>>) = 1 /\ Head(<<s>>) = s
      /\ Len(<<>>) = 0
  BY DEF DiagnosticInv
<1>1. ASSUME NEW r \in [inFlight : BOOLEAN, due : BOOLEAN, published : BOOLEAN, failures : Nat]
      PROVE  /\ Failed(r) \in [inFlight : BOOLEAN, due : BOOLEAN, published : BOOLEAN, failures : Nat]
             /\ Failed(r).inFlight = r.inFlight
  <2>1. PICK n \in Nat : n = IF r.failures < MaxFailures THEN r.failures + 1 ELSE r.failures
    OBVIOUS
  <2>2. Failed(r) = [r EXCEPT !.failures = n, !.due = FALSE]
    BY <2>1 DEF Failed
  <2> QED
    BY <2>2
<1>2. CASE UNCHANGED diagnosticVars
  BY <1>2 DEF diagnosticVars, DiagnosticInv
<1>3. CASE BecomeDue
  BY <1>0, <1>3 DEF BecomeDue, DiagnosticInv
<1>4. CASE PublishReport
  <2>1. ~report.inFlight /\ UNCHANGED <<sender, results, refused, overwritten>>
    BY <1>4 DEF PublishReport, MaySend
  <2>2. CASE jobs' = <<"report">> /\ report' = [report EXCEPT !.inFlight = TRUE]
    BY <1>0, <2>1, <2>2 DEF DiagnosticInv
  <2>3. CASE report' = Failed(report) /\ UNCHANGED jobs
    BY <1>0, <1>1, <2>1, <2>3 DEF DiagnosticInv
  <2> QED
    BY <1>4, <2>2, <2>3 DEF PublishReport
<1>5. CASE TakeJob
  <2>1. jobs # <<>> /\ jobs = <<"report">> /\ jobs' = <<>> /\ sender' = "sending"
    BY <1>0, <1>5 DEF TakeJob, DiagnosticInv
  <2>2. report.inFlight /\ results = <<>> /\ UNCHANGED <<report, results, overwritten>>
    BY <1>5, <2>1 DEF TakeJob, DiagnosticInv
  <2> QED
    BY <1>0, <2>1, <2>2 DEF DiagnosticInv
<1>6. CASE FinishJob
  <2>1. results = <<>> /\ jobs = <<>> /\ report.inFlight
    BY <1>0, <1>6 DEF FinishJob, DiagnosticInv
  <2>2. PICK status \in {"accepted", "401", "403", "failed"} : results' = <<status>>
    BY <1>6 DEF FinishJob
  <2> QED
    BY <1>0, <1>6, <2>1, <2>2 DEF FinishJob, DiagnosticInv
<1>7. CASE Collect
  <2>1. results # <<>> /\ jobs = <<>> /\ sender = "idle" /\ report.inFlight
    BY <1>0, <1>7 DEF Collect, DiagnosticInv
  <2>2. PICK status \in {"accepted", "401", "403", "failed"} : Head(results) = status
    BY <1>0, <2>1 DEF DiagnosticInv
  <2> DEFINE settled == [report EXCEPT !.inFlight = FALSE]
  <2>3. settled \in [inFlight : BOOLEAN, due : BOOLEAN, published : BOOLEAN, failures : Nat] /\ ~settled.inFlight
    BY <1>0
  <2>4. /\ [settled EXCEPT !.published = TRUE, !.failures = 0, !.due = FALSE]
             \in [inFlight : BOOLEAN, due : BOOLEAN, published : BOOLEAN, failures : Nat]
        /\ ~[settled EXCEPT !.published = TRUE, !.failures = 0, !.due = FALSE].inFlight
        /\ [settled EXCEPT !.due = FALSE] \in [inFlight : BOOLEAN, due : BOOLEAN, published : BOOLEAN, failures : Nat]
        /\ ~[settled EXCEPT !.due = FALSE].inFlight
    BY <1>0
  <2>5. Failed(settled) \in [inFlight : BOOLEAN, due : BOOLEAN, published : BOOLEAN, failures : Nat]
        /\ ~Failed(settled).inFlight
    BY <1>1, <2>3
  <2>6. report' \in {[settled EXCEPT !.published = TRUE, !.failures = 0, !.due = FALSE], settled,
                     [settled EXCEPT !.due = FALSE], Failed(settled)}
    BY <1>7, <2>2 DEF Collect
  <2>7. report' \in [inFlight : BOOLEAN, due : BOOLEAN, published : BOOLEAN, failures : Nat] /\ ~report'.inFlight
    <3> HIDE DEF settled
    <3> QED
      BY <2>3, <2>4, <2>5, <2>6
  <2>8. results' = <<>> /\ UNCHANGED <<jobs, sender, overwritten>>
    BY <1>7 DEF Collect
  <2> QED
    BY <2>1, <2>7, <2>8 DEF DiagnosticInv
<1> QED
  BY <1>2, <1>3, <1>4, <1>5, <1>6, <1>7 DEF DiagnosticNext

\* A health report is in one place at a time, and no result is overwritten
\* before the publisher task read it (diagnosticJobs, diagnosticResults).
THEOREM OneReportAlways == DiagnosticSpec => []OneReport
<1>1. DiagnosticInit => DiagnosticInv
  BY DEF DiagnosticInit, DiagnosticInv
<1>2. DiagnosticInv => OneReport
  <2> SUFFICES ASSUME DiagnosticInv PROVE OneReport
    OBVIOUS
  <2>1. Len(jobs) = IF jobs = <<>> THEN 0 ELSE 1
    BY DEF DiagnosticInv
  <2>2. Len(results) = IF results = <<>> THEN 0 ELSE 1
    BY DEF DiagnosticInv
  <2>3. report.inFlight \in BOOLEAN
    BY DEF DiagnosticInv
  <2>4. ~report.inFlight => jobs = <<>> /\ sender # "sending" /\ results = <<>>
    BY DEF DiagnosticInv
  <2>5. report.inFlight => Len(jobs) + (IF sender = "sending" THEN 1 ELSE 0) + Len(results) = 1
    <3>1. CASE jobs # <<>>
      BY <2>1, <2>2, <3>1 DEF DiagnosticInv
    <3>2. CASE sender = "sending"
      BY <2>1, <2>2, <3>2 DEF DiagnosticInv
    <3>3. CASE results # <<>> /\ sender = "idle"
      BY <2>1, <2>2, <3>3 DEF DiagnosticInv
    <3> QED
      BY <3>1, <3>2, <3>3 DEF DiagnosticInv
  <2> QED
    BY <2>1, <2>2, <2>3, <2>4, <2>5 DEF DiagnosticInv, OneReport
<1> QED
  BY <1>1, <1>2, DiagnosticStep, PTL DEF DiagnosticSpec

-----------------------------------------------------------------------------
\* FirmwareUpdate: a bus whose tracker writes flash is reserved.

ReservationInv ==
    /\ lock \in {"free", "ride", "firmware"}
    /\ ask \in {"none", "acquire", "release", "yes", "no"}
    /\ ask = "acquire" => At("acquiring")
    /\ ask = "release" => worker.step \in {"releasing", "rebooting", "giving back"}
    /\ ~strayed =>
          /\ At("acquiring") /\ ask = "yes" => lock = "firmware"
          /\ At("flashing") => lock = "firmware"

WorkerTypeOK ==
    worker \in [step : {"idle", "releasing", "acquiring", "flashing", "giving back", "rebooting"},
                recovered : BOOLEAN, held : BOOLEAN]

FlashInv == WorkerTypeOK /\ ReservationInv

LEMMA FlashStep == FlashInv /\ [FirmwareNext]_firmwareVars => FlashInv'
<1> SUFFICES ASSUME FlashInv, [FirmwareNext]_firmwareVars PROVE FlashInv'
  OBVIOUS
<1> USE DEF FlashInv
<1>1. CASE UNCHANGED firmwareVars
  BY <1>1 DEF firmwareVars, WorkerTypeOK, ReservationInv, At
<1>2. CASE StartRelease
  BY <1>2 DEF StartRelease, WorkerTypeOK, ReservationInv, At, Go
<1>10. CASE EndRelease
  <2>1. worker' \in [step : {"idle"}, recovered : BOOLEAN, held : BOOLEAN] /\ worker'.step = "idle"
    BY <1>10 DEF EndRelease
  <2> QED
    BY <1>10, <2>1 DEF EndRelease, WorkerTypeOK, ReservationInv, At
<1>11. CASE CheckRelease
  BY <1>11 DEF CheckRelease, WorkerTypeOK, ReservationInv, At
<1>3. CASE EndAcquire
  BY <1>3 DEF EndAcquire, WorkerTypeOK, ReservationInv, At, Go
<1>4. CASE AbortFlash \/ FinishFlash \/ GiveBack \/ EndGiveBack
  BY <1>4 DEF AbortFlash, FinishFlash, GiveBack, EndGiveBack, WorkerTypeOK, ReservationInv, At, Go
<1>5. CASE Restarted /\ UNCHANGED <<lock, strayed>>
  <2>1. worker' = Started /\ ask' = "none"
    BY <1>5 DEF Restarted
  <2>2. Started \in [step : {"idle"}, recovered : BOOLEAN, held : BOOLEAN] /\ Started.step = "idle"
    BY DEF Started
  <2> QED
    BY <1>5, <2>1, <2>2 DEF WorkerTypeOK, ReservationInv, At
<1>6. CASE Commit
  BY <1>6 DEF Commit, Committed, Allowed, WorkerTypeOK, ReservationInv, At
<1>7. CASE GiveUpCall \/ LoseAnswer \/ ValidateImage
  BY <1>7 DEF GiveUpCall, LoseAnswer, ValidateImage, WorkerTypeOK, ReservationInv, At
<1>8. CASE StrayStep
  <2>1. PICK action \in {"acquire", "release"} : CommitStray(action) \/ LoseStray(action)
    BY <1>8 DEF StrayStep
  <2>2. CASE CommitStray(action)
    BY <2>1, <2>2 DEF CommitStray, Committed, WorkerTypeOK, ReservationInv, At
  <2>3. CASE LoseStray(action)
    BY <2>3 DEF LoseStray, WorkerTypeOK, ReservationInv, At
  <2> QED
    BY <2>1, <2>2, <2>3
<1>9. CASE RideStarts \/ RideEnds \/ BusMoves
  BY <1>9 DEF RideStarts, RideEnds, BusMoves, WorkerTypeOK, ReservationInv, At
<1> QED
  BY <1>1, <1>2, <1>3, <1>4, <1>5, <1>6, <1>7, <1>8, <1>9, <1>10, <1>11
  DEF FirmwareNext, WorkerStep, CallStep, ImageStep, RebootIntoCandidate, RollBack, DeviceCrash

\* The safe half of ReservationHolds: as long as no call that was given up on
\* committed, the bus is reserved while its tracker writes flash.
THEOREM FlashIsReservedAlways == FirmwareSpec => []FlashIsReserved
<1>1. FirmwareInit => FlashInv
  BY DEF FirmwareInit, FlashInv, WorkerTypeOK, Started, ReservationInv, At
<1>2. FlashInv => FlashIsReserved
  BY DEF FlashInv, ReservationInv, FlashIsReserved
<1> QED
  BY <1>1, <1>2, FlashStep, PTL DEF FirmwareSpec


-----------------------------------------------------------------------------
\* CheckpointJournal: the flash keeps what Checkpoint promises.

\* Slots and pages: the next slot starts a page or stays in its own.
LEMMA NextSlotIs ==
    ASSUME NEW i \in Slots
    PROVE  /\ NextSlot(i) \in Slots
           /\ NextSlot(i) % PerPage = 0 \/ (NextSlot(i) = i + 1 /\ PageOf(i + 1) = PageOf(i))
<1>1. PICK n \in Nat : n = Pages * PerPage /\ n > 0
  BY JournalAssumption
<1>2. i \in Nat /\ i < n /\ PerPage \in Nat /\ PerPage > 0
  BY <1>1, JournalAssumption DEF Slots
<1>3. NextSlot(i) = (i + 1) % n /\ Slots = 0 .. n - 1
  BY <1>1 DEF NextSlot, Slots
<1>4. CASE i + 1 = n
  <2>1. NextSlot(i) = 0
    BY <1>1, <1>2, <1>3, <1>4
  <2>2. 0 % PerPage = 0
    BY <1>2
  <2> QED
    BY <1>1, <1>3, <2>1, <2>2
<1>5. CASE i + 1 < n
  <2>1. NextSlot(i) = i + 1
    BY <1>1, <1>2, <1>3, <1>5
  <2>2. PICK q \in Nat, r \in 0 .. PerPage - 1 : i = q * PerPage + r /\ q = i \div PerPage
    BY <1>2
  <2>3. CASE r + 1 = PerPage
    <3>1. i + 1 = (q + 1) * PerPage
      BY <1>2, <2>2, <2>3
    <3>2. (i + 1) % PerPage = 0
      BY <1>2, <2>2, <3>1
    <3> QED
      BY <1>2, <1>3, <1>5, <2>1, <3>2
  <2>4. CASE r + 1 < PerPage
    <3>1. i + 1 = q * PerPage + (r + 1)
      BY <1>2, <2>2
    <3>2. (i + 1) \div PerPage = q
      BY <1>2, <2>2, <2>4, <3>1
    <3> QED
      BY <1>2, <1>3, <1>5, <2>1, <2>2, <3>2 DEF PageOf
  <2> QED
    BY <1>2, <2>2, <2>3, <2>4
<1> QED
  BY <1>2, <1>4, <1>5

LEMMA NextPageIs ==
    ASSUME NEW i \in Slots, i % PerPage = 0
    PROVE  NextPage(i) \in Slots /\ NextPage(i) % PerPage = 0
<1>1. PICK n \in Nat : n = Pages * PerPage /\ n > 0
  BY JournalAssumption
<1>2. i \in Nat /\ i < n /\ PerPage \in Nat /\ PerPage > 0 /\ Pages \in Nat
  BY <1>1, JournalAssumption DEF Slots
<1>3. NextPage(i) = (i + PerPage) % n /\ Slots = 0 .. n - 1
  BY <1>1 DEF NextPage, Slots
<1>4. PICK q \in Nat : i = q * PerPage
  BY <1>2
<1>5. q + 1 <= Pages /\ i + PerPage = (q + 1) * PerPage /\ i + PerPage <= n
  BY <1>1, <1>2, <1>4
<1>6. CASE i + PerPage = n
  <2>1. NextPage(i) = 0
    BY <1>1, <1>2, <1>3, <1>6
  <2>2. 0 % PerPage = 0
    BY <1>2
  <2> QED
    BY <1>1, <1>3, <2>1, <2>2
<1>7. CASE i + PerPage < n
  <2>1. NextPage(i) = i + PerPage
    BY <1>1, <1>2, <1>3, <1>7
  <2>2. (i + PerPage) % PerPage = 0
    BY <1>2, <1>4, <1>5
  <2> QED
    BY <1>2, <1>3, <1>7, <2>1, <2>2
<1> QED
  BY <1>2, <1>5, <1>6, <1>7

\* Within the page of the latest record the next write is behind it; without a
\* confirmed record there is none to protect.
WritesBehind ==
    /\ journal.found /\ ~StartsPage /\ PageOf(journal.write) = PageOf(journal.latest) => journal.latest < journal.write
    /\ ~Opens(confirmed) => confirmed = Blank

FlashKeepsInv == JournalInv /\ WritesBehind

\* The samples appended after record c.
Later(f, c) == {f[i].sample : i \in {k \in Slots : f[k].gen > c.gen}}

\* What an erase, a tear or a cut leaves of each slot.
Damaged(f, g) ==
    /\ g \in [Slots -> Records]
    /\ \A i \in Slots : g[i] \in {f[i], Blank, Torn}

LEMMA Blanks == Blank \in Records /\ Torn \in Records /\ Blank.gen = 0 /\ Torn.gen = 0 /\ Blank.sample = 0
BY DEF Blank, Torn, Records

LEMMA DamageTakesOnly ==
    ASSUME NEW f \in [Slots -> Records], NEW g, Damaged(f, g), NEW c \in Records
    PROVE  /\ Later(g, c) \subseteq Later(f, c)
           /\ \A i \in Slots : g[i].gen <= f[i].gen /\ (Opens(g[i]) => g[i] = f[i])
<1>1. \A i \in Slots : /\ g[i].gen \in Nat /\ f[i].gen \in Nat /\ g[i].gen <= f[i].gen
                       /\ Opens(g[i]) => g[i] = f[i]
  BY Blanks DEF Damaged, Records, Opens
<1>2. \A i \in Slots : g[i].gen > c.gen => g[i] = f[i]
  BY <1>1 DEF Opens, Records
<1> QED
  BY <1>1, <1>2 DEF Later

\* An erase or a tear away from the latest record.
LEMMA DamageKeeps ==
    ASSUME JournalInv, journal.ready, NEW g, Damaged(flash, g), journal.found => g[journal.latest] = flash[journal.latest]
    PROVE  /\ Opens(confirmed) => g[journal.latest] = confirmed /\ journal.latest \in Slots /\ journal.found
           /\ \A i \in Slots : g[i].gen <= journal.gen
           /\ \A i, k \in Slots : Opens(g[i]) /\ g[i].gen = g[k].gen => i = k
<1>1. confirmed \in Records /\ flash \in [Slots -> Records] /\ journal \in Journals /\ g \in [Slots -> Records]
  BY DEF JournalInv, JournalTypeOK, Damaged
<1>2. \A i \in Slots : /\ g[i].gen \in Nat /\ flash[i].gen \in Nat /\ g[i].gen <= flash[i].gen
                       /\ Opens(g[i]) => g[i] = flash[i]
  BY <1>1, DamageTakesOnly DEF Records
<1>3. journal.gen \in Nat /\ journal.latest \in Slots /\ \A i \in Slots : flash[i].gen <= journal.gen
  BY <1>1 DEF JournalInv, Journals
<1>4. \A i, k \in Slots : Opens(g[i]) /\ g[i].gen = g[k].gen => i = k
  BY <1>2 DEF JournalInv, Opens
<1> QED
  BY <1>2, <1>3, <1>4 DEF JournalInv

\* What an append may overwrite: never the latest record.
LEMMA WriteSpares ==
    ASSUME FlashKeepsInv, journal.ready, journal.found, StartsPage => ~HoldsLatest
    PROVE  /\ journal.write # journal.latest
           /\ StartsPage => journal.latest \notin PageSlots(journal.write)
<1>1. journal.write \in Slots /\ journal.latest \in Slots /\ \A i \in Slots : i \in Int
  BY DEF FlashKeepsInv, JournalInv, JournalTypeOK, Journals, Slots
<1> QED
  BY <1>1 DEF FlashKeepsInv, WritesBehind, HoldsLatest, PageSlots

LEMMA ErasedIs ==
    ASSUME NEW f \in [Slots -> Records], NEW part
    PROVE  Damaged(f, Erased(f, part)) /\ \A i \in Slots : i \notin part => Erased(f, part)[i] = f[i]
BY Blanks DEF Damaged, Erased

\* The next write of a slot in its page, or at the start of one.
LEMMA NextIsBehind ==
    ASSUME FlashKeepsInv, NEW latest \in Slots, NEW i \in Slots,
           latest = i \/ PageOf(i) # PageOf(latest) \/ latest < i,
           NextSlot(i) % PerPage # 0, PageOf(NextSlot(i)) = PageOf(latest)
    PROVE  latest < NextSlot(i)
BY NextSlotIs DEF Slots

LEMMA SkipKeeps ==
    ASSUME FlashKeepsInv, NEW part \in SUBSET PageSlots(journal.write), SkipPage(part)
    PROVE  FlashKeepsInv' /\ UNCHANGED confirmed /\ Later(flash', confirmed) \subseteq Later(flash, confirmed)
<1>1. /\ flash \in [Slots -> Records] /\ journal \in Journals /\ confirmed \in Records
      /\ journal.ready /\ StartsPage /\ confirmed' = confirmed /\ journal.write \in Slots
  BY DEF FlashKeepsInv, JournalInv, JournalTypeOK, Journals, SkipPage
<1>2. Damaged(flash, flash')
  BY <1>1, ErasedIs DEF SkipPage, Damaged
<1>3. journal.found => flash'[journal.latest] = flash[journal.latest]
  <2> SUFFICES ASSUME journal.found PROVE flash'[journal.latest] = flash[journal.latest]
    OBVIOUS
  <2>1. CASE HoldsLatest
    BY <2>1 DEF SkipPage
  <2>2. CASE ~HoldsLatest
    <3>1. journal.latest \notin part /\ journal.latest \in Slots
      BY <1>1, <2>2, WriteSpares DEF Journals
    <3> QED
      BY <1>1, <2>2, <3>1, ErasedIs DEF SkipPage
  <2> QED
    BY <2>1, <2>2
<1>4. PICK w \in Slots : w = NextPage(journal.write) /\ w % PerPage = 0
  BY <1>1, NextPageIs DEF StartsPage
<1>5. journal' = [journal EXCEPT !.write = w]
  BY <1>4 DEF SkipPage
<1>6. /\ journal' \in Journals /\ journal'.ready = journal.ready /\ journal'.found = journal.found
      /\ journal'.gen = journal.gen /\ journal'.latest = journal.latest /\ journal'.write = w
  BY <1>1, <1>5 DEF Journals
<1>7. /\ Opens(confirmed) => flash'[journal.latest] = confirmed /\ journal.latest \in Slots /\ journal.found
      /\ \A i \in Slots : flash'[i].gen <= journal.gen
      /\ \A i, k \in Slots : Opens(flash'[i]) /\ flash'[i].gen = flash'[k].gen => i = k
  BY <1>1, <1>2, <1>3, DamageKeeps DEF FlashKeepsInv
<1>8. JournalInv'
  BY <1>1, <1>2, <1>6, <1>7 DEF FlashKeepsInv, JournalInv, JournalTypeOK, Damaged, Opens
<1>9. WritesBehind'
  BY <1>1, <1>4, <1>6 DEF FlashKeepsInv, WritesBehind, StartsPage, Opens
<1> QED
  BY <1>1, <1>2, <1>8, <1>9, DamageTakesOnly DEF FlashKeepsInv

LEMMA WriteKeeps ==
    ASSUME FlashKeepsInv, NEW sample \in Samples, NEW outcome, Write(sample, outcome)
    PROVE  /\ FlashKeepsInv'
           /\ \/ confirmed'.sample = sample /\ Later(flash', confirmed') = {}
              \/ confirmed' = confirmed /\ Later(flash', confirmed') \subseteq Later(flash, confirmed) \union {sample}
<1> PICK i : i = journal.write
  OBVIOUS
<1> PICK f : f = IF StartsPage THEN Erased(flash, PageSlots(i)) ELSE flash
  OBVIOUS
<1> PICK gen : gen = journal.gen + 1
  OBVIOUS
<1> PICK rec : rec = [gen |-> gen, sample |-> sample]
  OBVIOUS
<1> PICK w : w = NextSlot(i)
  OBVIOUS
<1>1. /\ flash \in [Slots -> Records] /\ journal \in Journals /\ confirmed \in Records
      /\ journal.ready /\ (StartsPage => ~HoldsLatest) /\ i \in Slots /\ journal.gen \in Nat
  BY DEF FlashKeepsInv, JournalInv, JournalTypeOK, Journals, Write
<1>2. Damaged(flash, f) /\ f \in [Slots -> Records]
  BY <1>1, ErasedIs DEF Damaged
<1>3. journal.found => f[journal.latest] = flash[journal.latest] /\ journal.latest # i /\ journal.latest \in Slots
  <2> SUFFICES ASSUME journal.found
               PROVE  f[journal.latest] = flash[journal.latest] /\ journal.latest # i /\ journal.latest \in Slots
    OBVIOUS
  <2>1. journal.latest # i /\ (StartsPage => journal.latest \notin PageSlots(i)) /\ journal.latest \in Slots
    BY <1>1, WriteSpares DEF Journals
  <2> QED
    BY <1>1, <2>1, ErasedIs
<1>4. /\ Opens(confirmed) => f[journal.latest] = confirmed /\ journal.latest \in Slots /\ journal.found
      /\ \A k \in Slots : f[k].gen <= journal.gen
      /\ \A k, l \in Slots : Opens(f[k]) /\ f[k].gen = f[l].gen => k = l
  BY <1>1, <1>2, <1>3, DamageKeeps DEF FlashKeepsInv
<1>5. gen \in Nat /\ gen > journal.gen /\ rec \in Records /\ rec.gen = gen /\ rec.sample = sample /\ w \in Slots
  BY <1>1, JournalAssumption, NextSlotIs DEF Records
<1>6. Opens(rec) /\ ~Opens(Torn) /\ Torn \in Records /\ \A k \in Slots : f[k].gen \in Nat /\ f[k].gen < gen
  BY <1>1, <1>2, <1>4, <1>5, Blanks DEF Opens, Records
<1>7. Later(f, confirmed) \subseteq Later(flash, confirmed)
  BY <1>1, <1>2, DamageTakesOnly
<1>8. journal.found => \/ PageOf(i) # PageOf(journal.latest)
                       \/ journal.latest < i
  BY <1>1 DEF FlashKeepsInv, WritesBehind, HoldsLatest, StartsPage
<1>9. ASSUME NEW v \in {Torn, rec}, flash' = [f EXCEPT ![i] = v],
             journal' = [journal EXCEPT !.gen = gen, !.write = w], confirmed' = confirmed
      PROVE  FlashKeepsInv' /\ Later(flash', confirmed') \subseteq Later(flash, confirmed) \union {sample}
  <2>1. /\ journal' \in Journals /\ journal'.ready /\ journal'.found = journal.found
        /\ journal'.gen = gen /\ journal'.latest = journal.latest /\ journal'.write = w
    BY <1>1, <1>5, <1>9 DEF Journals
  <2>2. v \in Records /\ (v.gen = 0 \/ v = rec)
    BY <1>5, <1>6, <1>9, Blanks
  <2>3. flash' \in [Slots -> Records] /\ flash'[i] = v /\ \A k \in Slots \ {i} : flash'[k] = f[k]
    BY <1>1, <1>2, <1>9, <2>2
  <2>4. Opens(confirmed) => flash'[journal.latest] = confirmed /\ journal.latest \in Slots /\ journal.found
    BY <1>3, <1>4, <2>3
  <2>5. \A k \in Slots : flash'[k].gen <= gen
    BY <1>5, <1>6, <2>2, <2>3
  <2>6. \A k, l \in Slots : Opens(flash'[k]) /\ flash'[k].gen = flash'[l].gen => k = l
    BY <1>4, <1>5, <1>6, <2>2, <2>3 DEF Opens
  <2>7. JournalInv'
    BY <1>1, <1>9, <2>1, <2>3, <2>4, <2>5, <2>6 DEF FlashKeepsInv, JournalInv, JournalTypeOK, Opens
  <2>8. WritesBehind'
    <3>1. journal.found /\ w % PerPage # 0 /\ PageOf(w) = PageOf(journal.latest) => journal.latest < w
      BY <1>1, <1>3, <1>8, NextIsBehind
    <3> QED
      BY <1>9, <2>1, <3>1 DEF FlashKeepsInv, WritesBehind, StartsPage, Opens
  <2>9. Later(flash', confirmed') \subseteq Later(f, confirmed) \union {sample}
    <3>1. ASSUME NEW k \in Slots, flash'[k].gen > confirmed.gen PROVE flash'[k].sample \in Later(f, confirmed) \union {sample}
      <4>1. CASE k = i
        BY <1>1, <1>5, <2>2, <2>3, <3>1, <4>1 DEF Records
      <4>2. CASE k # i
        BY <2>3, <3>1, <4>2 DEF Later
      <4> QED
        BY <4>1, <4>2
    <3> QED
      BY <1>9, <3>1 DEF Later
  <2> QED
    BY <1>7, <2>7, <2>8, <2>9 DEF FlashKeepsInv
<1>10. ASSUME flash' = [f EXCEPT ![i] = rec], confirmed' = rec,
              journal' = [[journal EXCEPT !.gen = gen, !.write = w] EXCEPT !.latest = i, !.found = TRUE]
       PROVE  FlashKeepsInv' /\ Later(flash', confirmed') = {}
  <2>1. /\ journal' \in Journals /\ journal'.ready /\ journal'.found
        /\ journal'.gen = gen /\ journal'.latest = i /\ journal'.write = w
    BY <1>1, <1>5, <1>10 DEF Journals
  <2>2. flash' \in [Slots -> Records] /\ flash'[i] = rec /\ \A k \in Slots \ {i} : flash'[k] = f[k]
    BY <1>1, <1>2, <1>5, <1>10
  <2>3. \A k \in Slots : flash'[k].gen <= gen
    BY <1>5, <1>6, <2>2
  <2>4. \A k, l \in Slots : Opens(flash'[k]) /\ flash'[k].gen = flash'[l].gen => k = l
    BY <1>4, <1>5, <1>6, <2>2 DEF Opens
  <2>5. JournalInv'
    BY <1>1, <1>5, <1>6, <1>10, <2>1, <2>2, <2>3, <2>4 DEF JournalInv, JournalTypeOK
  <2>6. WritesBehind'
    <3>1. w % PerPage # 0 /\ PageOf(w) = PageOf(i) => i < w
      BY <1>1, NextIsBehind
    <3> QED
      BY <1>6, <1>10, <2>1, <3>1 DEF WritesBehind, StartsPage
  <2>7. \A k \in Slots : ~(flash'[k].gen > gen)
    BY <1>5, <1>6, <2>2
  <2> QED
    BY <1>5, <1>10, <2>5, <2>6, <2>7 DEF FlashKeepsInv, Later
<1>11. \/ /\ \E v \in {Torn, rec} : flash' = [f EXCEPT ![i] = v]
          /\ journal' = [journal EXCEPT !.gen = gen, !.write = w] /\ confirmed' = confirmed
       \/ /\ flash' = [f EXCEPT ![i] = rec] /\ confirmed' = rec
          /\ journal' = [[journal EXCEPT !.gen = gen, !.write = w] EXCEPT !.latest = i, !.found = TRUE]
  BY DEF Write
<1> QED
  BY <1>5, <1>9, <1>10, <1>11

\* A power cut takes what was being erased or written, never the latest record.
LEMMA CutKeeps ==
    ASSUME FlashKeepsInv, CutFlash
    PROVE  Damaged(flash, flash') /\ (journal.ready /\ journal.found => flash'[journal.latest] = flash[journal.latest])
<1>1. flash \in [Slots -> Records] /\ journal \in Journals /\ journal.write \in Slots /\ journal.latest \in Slots
  BY DEF FlashKeepsInv, JournalInv, JournalTypeOK, Journals
<1>2. CASE flash' = flash
  BY <1>1, <1>2 DEF Damaged
<1>3. CASE journal.ready /\ StartsPage /\ ~HoldsLatest /\ \E part \in SUBSET PageSlots(journal.write) : flash' = Erased(flash, part)
  <2>1. PICK part \in SUBSET PageSlots(journal.write) : flash' = Erased(flash, part)
    BY <1>3
  <2>2. journal.found => journal.latest \notin part
    BY <1>3, WriteSpares
  <2> QED
    BY <1>1, <2>1, <2>2, ErasedIs
<1>4. CASE journal.ready /\ ~StartsPage /\ flash' = [flash EXCEPT ![journal.write] = Torn]
  <2>1. journal.found => journal.latest # journal.write
    BY <1>4, WriteSpares
  <2> QED
    BY <1>1, <1>4, <2>1, Blanks DEF Damaged
<1> QED
  BY <1>2, <1>3, <1>4 DEF CutFlash

LEMMA ReopenKeeps ==
    ASSUME FlashKeepsInv, Reopen
    PROVE  /\ FlashKeepsInv'
           /\ confirmed'.sample \in {confirmed.sample} \union Later(flash, confirmed)
           /\ Later(flash', confirmed') \subseteq Later(flash, confirmed)
<1>1. /\ flash \in [Slots -> Records] /\ journal \in Journals /\ confirmed \in Records
      /\ \A i, k \in Slots : Opens(flash[i]) /\ flash[i].gen = flash[k].gen => i = k
  BY DEF FlashKeepsInv, JournalInv, JournalTypeOK
<1>2. Damaged(flash, flash') /\ (journal.ready /\ journal.found => flash'[journal.latest] = flash[journal.latest])
  BY CutKeeps DEF Reopen
<1>3. /\ flash' \in [Slots -> Records] /\ Later(flash', confirmed) \subseteq Later(flash, confirmed)
      /\ \A i \in Slots : flash'[i] \in Records /\ flash'[i].gen \in Nat /\ (Opens(flash'[i]) => flash'[i] = flash[i])
  BY <1>1, <1>2, DamageTakesOnly DEF Damaged, Records
<1>4. \A i, k \in Slots : Opens(flash'[i]) /\ flash'[i].gen = flash'[k].gen => i = k
  BY <1>1, <1>3 DEF Opens
<1>5. Opens(confirmed) => \E i \in Slots : flash'[i] = confirmed
  <2>1. CASE journal.ready
    BY <1>1, <1>2, <2>1 DEF FlashKeepsInv, JournalInv, Journals
  <2>2. CASE ~journal.ready
    <3>1. flash' = flash
      BY <2>2 DEF Reopen, CutFlash
    <3> QED
      BY <3>1 DEF FlashKeepsInv, JournalInv
  <2> QED
    BY <2>1, <2>2
<1>6. 0 \in Slots /\ 0 \in Nat
  BY JournalAssumption DEF Slots
<1>7. CASE journal' = [ready |-> FALSE, found |-> FALSE, gen |-> 0, write |-> 0, latest |-> 0]
  <2>1. journal' \in Journals /\ ~journal'.ready /\ ~journal'.found
    BY <1>6, <1>7 DEF Journals
  <2>2. confirmed' = confirmed
    BY <2>1 DEF Reopen
  <2>3. FlashKeepsInv'
    BY <1>1, <1>3, <1>4, <1>5, <2>1, <2>2 DEF FlashKeepsInv, JournalInv, JournalTypeOK, WritesBehind, Opens
  <2> QED
    BY <1>3, <2>2, <2>3
<1>8. CASE /\ \A i \in Slots : ~Opens(flash'[i])
           /\ journal' = [ready |-> TRUE, found |-> FALSE, gen |-> 0, write |-> 0, latest |-> 0]
  <2>1. journal' \in Journals /\ journal'.ready /\ ~journal'.found /\ journal'.gen = 0
    BY <1>6, <1>8 DEF Journals
  <2>2. ~Opens(confirmed) /\ confirmed = Blank
    BY <1>5, <1>8 DEF FlashKeepsInv, WritesBehind
  <2>3. confirmed' = confirmed
    BY <2>1, <2>2 DEF Reopen, NoRecord
  <2>4. \A i \in Slots : flash'[i].gen <= 0
    BY <1>3, <1>8 DEF Opens
  <2>5. FlashKeepsInv'
    BY <1>1, <1>3, <1>4, <2>1, <2>2, <2>3, <2>4 DEF FlashKeepsInv, JournalInv, JournalTypeOK, WritesBehind, Opens
  <2> QED
    BY <1>3, <2>3, <2>5
<1>9. ASSUME NEW i \in Slots, Opens(flash'[i]), \A k \in Slots : flash'[k].gen <= flash'[i].gen,
             journal' = [ready |-> TRUE, found |-> TRUE, gen |-> flash'[i].gen, write |-> NextSlot(i), latest |-> i]
      PROVE  /\ FlashKeepsInv'
             /\ confirmed'.sample \in {confirmed.sample} \union Later(flash, confirmed)
             /\ Later(flash', confirmed') \subseteq Later(flash, confirmed)
  <2> PICK rec : rec = flash'[i]
    OBVIOUS
  <2> PICK w \in Slots : w = NextSlot(i)
    BY NextSlotIs
  <2>1. /\ journal' \in Journals /\ journal'.ready /\ journal'.found /\ journal'.gen = rec.gen
        /\ journal'.latest = i /\ journal'.write = w /\ rec \in Records /\ rec.gen \in Nat /\ rec.gen > 0
    BY <1>3, <1>9 DEF Journals, Opens
  <2>2. confirmed' = rec
    BY <2>1 DEF Reopen
  <2>3. JournalInv'
    BY <1>3, <1>4, <1>9, <2>1, <2>2 DEF JournalInv, JournalTypeOK
  <2>4. WritesBehind'
    <3>1. w % PerPage # 0 /\ PageOf(w) = PageOf(i) => i < w
      BY NextIsBehind
    <3> QED
      BY <2>1, <2>2, <3>1 DEF WritesBehind, StartsPage, Opens
  <2>5. rec = confirmed \/ rec.gen > confirmed.gen
    <3>1. CASE Opens(confirmed)
      <4>1. PICK j \in Slots : flash'[j] = confirmed
        BY <1>5, <3>1
      <4>2. confirmed.gen <= rec.gen /\ confirmed.gen \in Nat
        BY <1>1, <1>9, <4>1 DEF Records
      <4>3. confirmed.gen = rec.gen => i = j
        BY <1>4, <1>9, <4>1
      <4> QED
        BY <2>1, <4>1, <4>2, <4>3
    <3>2. CASE ~Opens(confirmed)
      <4>1. confirmed.gen = 0
        BY <3>2, Blanks DEF FlashKeepsInv, WritesBehind
      <4> QED
        BY <2>1, <4>1
    <3> QED
      BY <3>1, <3>2
  <2>6. rec.sample \in {confirmed.sample} \union Later(flash', confirmed)
    BY <2>5 DEF Later
  <2>7. Later(flash', rec) = {}
    <3>1. \A k \in Slots : ~(flash'[k].gen > rec.gen)
      BY <1>3, <1>9, <2>1
    <3> QED
      BY <3>1 DEF Later
  <2> QED
    BY <1>3, <2>2, <2>3, <2>4, <2>6, <2>7 DEF FlashKeepsInv
<1> QED
  BY <1>7, <1>8, <1>9 DEF Reopen, Initialized

LEMMA FlashStarts == JournalInit => FlashKeepsInv /\ confirmed.sample = 0 /\ Later(flash, confirmed) = {}
<1> SUFFICES ASSUME JournalInit PROVE FlashKeepsInv /\ confirmed.sample = 0 /\ Later(flash, confirmed) = {}
  OBVIOUS
<1>1. 0 \in Slots /\ 0 \in Nat
  BY JournalAssumption DEF Slots
<1>2. journal \in Journals /\ ~journal.found /\ journal.gen = 0
  BY <1>1 DEF JournalInit, Journals
<1>3. flash \in [Slots -> Records] /\ confirmed = Blank /\ \A i \in Slots : flash[i].gen = 0
  BY Blanks DEF JournalInit, NoRecord
<1> QED
  BY <1>2, <1>3, Blanks DEF FlashKeepsInv, JournalInv, JournalTypeOK, WritesBehind, Opens, Later

\* Every step of the journal is one of the checkpoint, or none.
LEMMA JournalStepIs ==
    ASSUME FlashKeepsInv, [JournalNext]_journalVars
    PROVE  /\ FlashKeepsInv'
           /\ \/ Promise!CheckpointNext
              \/ UNCHANGED <<confirmed.sample, Later(flash, confirmed)>>
<1>1. CASE UNCHANGED journalVars
  <2>1. FlashKeepsInv'
    BY <1>1 DEF journalVars, FlashKeepsInv, JournalInv, JournalTypeOK, WritesBehind, StartsPage
  <2>2. UNCHANGED <<flash, confirmed>>
    BY <1>1 DEF journalVars
  <2> QED
    BY <2>1, <2>2 DEF Later
<1>2. CASE Reopen
  BY <1>2, ReopenKeeps DEF Promise!CheckpointNext, Promise!Boot, Later
<1>3. ASSUME NEW sample \in Samples, NEW part \in SUBSET PageSlots(journal.write), SkipPage(part)
      PROVE  FlashKeepsInv' /\ Promise!CheckpointNext
  BY <1>3, SkipKeeps DEF Promise!CheckpointNext, Promise!Boot, Later
<1>4. ASSUME NEW sample \in Samples, NEW outcome, Write(sample, outcome)
      PROVE  FlashKeepsInv' /\ Promise!CheckpointNext
  BY <1>4, WriteKeeps DEF Promise!CheckpointNext, Promise!Save, Later
<1> QED
  BY <1>1, <1>2, <1>3, <1>4 DEF JournalNext, AppendRecord, AppendRefused

\* The confirmed record is on the flash, found again by every boot that can read
\* it, and the next write is never over it (checkpoint_journal.h).
THEOREM JournalInvariant == JournalSpec => []JournalInv
<1>1. FlashKeepsInv => JournalInv
  BY DEF FlashKeepsInv
<1> QED
  BY <1>1, FlashStarts, JournalStepIs, PTL DEF JournalSpec

\* The journal implements the checkpoint, for every number of pages, records of a
\* page and samples, whatever tears, fails or is cut.
THEOREM JournalImplementsCheckpoint == JournalSpec => ImplementsCheckpoint
<1>1. JournalInit => Promise!CheckpointInit
  BY FlashStarts DEF Promise!CheckpointInit, Later
<1>2. FlashKeepsInv /\ [JournalNext]_journalVars => FlashKeepsInv' /\ [Promise!CheckpointNext]_(Promise!checkpointVars)
  BY JournalStepIs DEF Promise!checkpointVars, Later
<1> QED
  BY <1>1, <1>2, FlashStarts, PTL DEF JournalSpec, ImplementsCheckpoint, Promise!CheckpointSpec


-----------------------------------------------------------------------------
\* PositionFilter: a single wrong fix is held.

FilterSpec == FilterInit /\ [][FilterNext]_filterVars

FilterTypeOK ==
    /\ bus \in [at : Int, low : Int, high : Int, outliers : Nat] /\ bus.low <= bus.at /\ bus.at <= bus.high
    /\ capture \in [at : Int, age : {"short", "outage", "long"}, chain : Nat, last : Int]
    /\ record \in [shown : Int, anchor : Int, age : {"short", "outage", "long"}, evidence : Nat]
    /\ raw \in [at : Int, usable : BOOLEAN]
    /\ longest \in BOOLEAN

Been(p) == bus.low <= p /\ p <= bus.high
NearBeen(p) == bus.low - 1 <= p /\ p <= bus.high + 1

\* Where the bus was not, all believe the one wrong fix x; before it, none. What
\* is shown and the anchor are within one transition of where the bus was.
BelieveOnly(x) ==
    /\ capture.at = Nowhere \/ capture.at = x \/ Been(capture.at)
    /\ raw.usable => raw.at = x \/ Been(raw.at)
    /\ record.anchor = x \/ Been(record.anchor)
    /\ record.shown = x \/ Been(record.shown)
    /\ record.anchor = x \/ record.shown = x => NearBeen(x)

OnlyWrong(x) == (bus.outliers = 0 => Been(x)) /\ BelieveOnly(x)

FilterInv == FilterTypeOK /\ (bus.outliers <= 1 /\ ~longest => \E x \in Int : OnlyWrong(x))

LEMMA FilterStarts == FilterInit => FilterInv
<1> SUFFICES ASSUME FilterInit PROVE FilterInv
  OBVIOUS
<1>1. PICK p \in Places :
        /\ bus = [at |-> p, low |-> p, high |-> p, outliers |-> 0]
        /\ capture = [at |-> p, age |-> "short", chain |-> 0, last |-> Nowhere]
        /\ record = [shown |-> p, anchor |-> p, age |-> "short", evidence |-> 0]
        /\ raw = Unusable /\ longest = FALSE
  BY DEF FilterInit
<1>2. p \in Int
  BY PlaceAssumption DEF Places
<1>3. FilterTypeOK
  <2>1. bus \in [at : Int, low : Int, high : Int, outliers : Nat] /\ bus.low = p /\ bus.at = p /\ bus.high = p
    BY <1>1, <1>2
  <2>2. capture \in [at : Int, age : {"short", "outage", "long"}, chain : Nat, last : Int]
    BY <1>1, <1>2 DEF Nowhere
  <2>3. record \in [shown : Int, anchor : Int, age : {"short", "outage", "long"}, evidence : Nat]
    BY <1>1, <1>2
  <2>4. raw \in [at : Int, usable : BOOLEAN] /\ longest \in BOOLEAN
    <3>1. PICK n \in Int : n = Nowhere
      BY DEF Nowhere
    <3>2. raw = [at |-> n, usable |-> FALSE] /\ longest = FALSE
      BY <1>1, <3>1 DEF Unusable
    <3> QED
      BY <3>2
  <2>5. bus.low <= bus.at /\ bus.at <= bus.high
    BY <1>2, <2>1
  <2> QED
    BY <2>1, <2>2, <2>3, <2>4, <2>5 DEF FilterTypeOK
<1>4. Been(p) /\ NearBeen(p)
  BY <1>1, <1>2 DEF Been, NearBeen
<1>5. OnlyWrong(p)
  BY <1>1, <1>4 DEF OnlyWrong, BelieveOnly, Unusable
<1> QED
  BY <1>2, <1>3, <1>5 DEF FilterInv

\* A place is received: where the bus was, or the wrong one.
LEMMA ReceiveKeeps ==
    ASSUME FilterTypeOK, NEW p \in Int, NEW quality \in {"good", "poor", "loss"}, Receive(p, quality)
    PROVE  /\ record' \in [shown : Int, anchor : Int, age : {"short", "outage", "long"}, evidence : Nat]
           /\ raw' \in [at : Int, usable : BOOLEAN] /\ longest' \in BOOLEAN /\ (longest => longest')
           /\ raw'.usable => raw'.at = p
           /\ ~longest' => \/ /\ record.anchor - 1 <= p /\ p <= record.anchor + 1
                              /\ record'.shown = p /\ record'.anchor \in {p, record.anchor}
                           \/ /\ raw.usable /\ quality = "good" /\ raw.at - 1 <= p /\ p <= raw.at + 1
                              /\ record'.shown = p /\ record'.anchor = p
                           \/ record'.shown = record.anchor /\ record'.anchor = record.anchor
<1>0. /\ record \in [shown : Int, anchor : Int, age : {"short", "outage", "long"}, evidence : Nat]
      /\ raw \in [at : Int, usable : BOOLEAN] /\ longest \in BOOLEAN
  BY DEF FilterTypeOK
<1>1. raw' \in [at : Int, usable : BOOLEAN] /\ (raw'.usable => raw'.at = p)
  BY DEF Receive, Unusable, Nowhere
<1>2. CASE Plausible(p)
  <2>1. longest' = (longest \/ record.age = "long")
    BY <1>2 DEF Receive
  <2>2. record' = IF quality = "loss" THEN [record EXCEPT !.shown = p, !.evidence = 0]
                  ELSE [shown |-> p, anchor |-> p, age |-> "short", evidence |-> 0]
    BY <1>2 DEF Receive
  <2>3. record' \in [shown : Int, anchor : Int, age : {"short", "outage", "long"}, evidence : Nat]
        /\ record'.shown = p /\ record'.anchor \in {p, record.anchor}
    BY <1>0, <2>2
  <2>4. record.age # "long" => record.anchor - 1 <= p /\ p <= record.anchor + 1
    BY <1>0, <1>2 DEF Plausible, Distance, Reach
  <2> QED
    BY <1>0, <1>1, <2>1, <2>3, <2>4
<1>3. CASE ~Plausible(p)
  <2>1. longest' = longest
    BY <1>3 DEF Receive
  <2>2. Evidence(p) \in Nat /\ (Evidence(p) >= 3 => raw.usable /\ raw.at - 1 <= p /\ p <= raw.at + 1)
    BY <1>0 DEF Evidence, Coherent, Distance, Reach
  <2>3. CASE record' = Held \/ record' = [record EXCEPT !.shown = record.anchor, !.evidence = Evidence(p)]
    <3>1. PICK e \in Nat : record' = [record EXCEPT !.shown = record.anchor, !.evidence = e]
      BY <2>2, <2>3 DEF Held
    <3>2. record' \in [shown : Int, anchor : Int, age : {"short", "outage", "long"}, evidence : Nat]
          /\ record'.shown = record.anchor /\ record'.anchor = record.anchor
      BY <1>0, <3>1
    <3> QED
      BY <1>0, <1>1, <2>1, <3>2
  <2>4. CASE quality = "good" /\ Evidence(p) >= 3 /\ record' = [shown |-> p, anchor |-> p, age |-> "short", evidence |-> 0]
    <3>1. record' \in [shown : Int, anchor : Int, age : {"short", "outage", "long"}, evidence : Nat]
          /\ record'.shown = p /\ record'.anchor = p
      BY <2>4
    <3> QED
      BY <1>0, <1>1, <2>1, <2>2, <2>4, <3>1
  <2> QED
    BY <1>3, <2>3, <2>4 DEF Receive, Reacquired
<1> QED
  BY <1>2, <1>3

\* A fix, true or wrong, or the place of the last one captured.
LEMMA SendKeeps ==
    ASSUME FilterInv, NEW p \in Int, NEW quality \in {"good", "poor", "loss"}, Send(p, quality),
           UNCHANGED <<bus.low, bus.high, bus.at>>, bus' \in [at : Int, low : Int, high : Int, outliers : Nat],
           capture' \in [at : Int, age : {"short", "outage", "long"}, chain : Nat, last : Int],
           capture'.at \in {p, capture.at},
           \/ bus'.outliers = bus.outliers /\ (Been(p) \/ (p = capture.at /\ p # Nowhere /\ quality = "loss"))
           \/ bus'.outliers = bus.outliers + 1
    PROVE  FilterInv'
<1>0. FilterTypeOK /\ FilterTypeOK'
  BY ReceiveKeeps DEF FilterInv, FilterTypeOK, Send
<1>1. longest => longest'
  BY <1>0, ReceiveKeeps DEF Send
<1>2. SUFFICES ASSUME bus'.outliers <= 1, ~longest' PROVE \E x \in Int : OnlyWrong(x)'
  BY <1>0 DEF FilterInv
<1>3. bus.outliers <= 1 /\ ~longest
  BY <1>0, <1>1, <1>2 DEF FilterTypeOK
<1>4. PICK y \in Int : OnlyWrong(y)
  BY <1>3 DEF FilterInv
<1>5. PICK x \in Int : /\ BelieveOnly(x)
                       /\ p = x \/ Been(p)
                       /\ bus'.outliers = 0 => Been(x)
                       /\ quality # "loss" /\ ~Been(p) => ~raw.usable \/ Been(raw.at)
  <2>1. CASE bus'.outliers = bus.outliers /\ (Been(p) \/ (p = capture.at /\ p # Nowhere /\ quality = "loss"))
    BY <1>4, <2>1 DEF OnlyWrong, BelieveOnly
  <2>2. CASE bus'.outliers = bus.outliers + 1
    <3>1. bus.outliers = 0 /\ bus'.outliers = 1
      BY <1>0, <1>2, <2>2 DEF FilterTypeOK
    <3>2. Been(y)
      BY <1>4, <3>1 DEF OnlyWrong, BelieveOnly
    <3>3. (capture.at = Nowhere \/ Been(capture.at)) /\ (raw.usable => Been(raw.at)) /\ Been(record.anchor) /\ Been(record.shown)
      BY <1>4, <3>2 DEF OnlyWrong, BelieveOnly
    <3>4. CASE Been(p)
      BY <1>4, <3>1, <3>2, <3>3, <3>4 DEF OnlyWrong
    <3>5. CASE ~Been(p)
      <4>1. record.anchor # p /\ record.shown # p
        BY <3>3, <3>5
      <4>2. BelieveOnly(p)
        BY <3>3, <4>1 DEF BelieveOnly
      <4> QED
        BY <3>1, <3>3, <4>2
    <3> QED
      BY <3>4, <3>5
  <2> QED
    BY <2>1, <2>2
<1>6. OnlyWrong(x)'
  <2>1. UNCHANGED <<bus.low, bus.high>>
    OBVIOUS
  <2>2. \A q \in Int : (Been(q))' = Been(q) /\ (NearBeen(q))' = NearBeen(q)
    BY <2>1 DEF Been, NearBeen
  <2>3. CASE UNCHANGED <<record, raw, longest>>
    BY <1>5, <2>1, <2>3 DEF OnlyWrong, BelieveOnly, Been, NearBeen
  <2>4. CASE Receive(p, quality)
    <3>1. raw'.usable => raw'.at = p
      BY <1>0, <2>4, ReceiveKeeps
    <3>2. \/ /\ record.anchor - 1 <= p /\ p <= record.anchor + 1
             /\ record'.shown = p /\ record'.anchor \in {p, record.anchor}
          \/ /\ raw.usable /\ quality = "good" /\ raw.at - 1 <= p /\ p <= raw.at + 1
             /\ record'.shown = p /\ record'.anchor = p
          \/ record'.shown = record.anchor /\ record'.anchor = record.anchor
      BY <1>0, <1>2, <2>4, ReceiveKeeps
    <3>3. record.anchor \in Int /\ raw.at \in Int /\ bus.low \in Int /\ bus.high \in Int
      BY <1>0 DEF FilterTypeOK
    <3>4. (record'.anchor = x \/ Been(record'.anchor)) /\ (record'.shown = x \/ Been(record'.shown))
      BY <1>5, <3>2 DEF OnlyWrong, BelieveOnly
    <3>5. record'.anchor = x \/ record'.shown = x => NearBeen(x)
      <4>1. record.anchor = x => NearBeen(x)
        BY <1>5 DEF OnlyWrong, BelieveOnly
      <4>2. Been(x) => NearBeen(x)
        BY <3>3 DEF Been, NearBeen
      <4>3. Been(record.anchor) /\ record.anchor - 1 <= x /\ x <= record.anchor + 1 => NearBeen(x)
        BY <3>3 DEF Been, NearBeen
      <4>4. Been(raw.at) /\ raw.at - 1 <= x /\ x <= raw.at + 1 => NearBeen(x)
        BY <3>3 DEF Been, NearBeen
      <4>5. record.anchor = x \/ Been(record.anchor)
        BY <1>5 DEF OnlyWrong, BelieveOnly
      <4>6. CASE p = x
        BY <1>5, <3>2, <4>1, <4>2, <4>3, <4>4, <4>5, <4>6
      <4>7. CASE p # x
        BY <1>5, <3>2, <4>1, <4>7
      <4> QED
        BY <4>6, <4>7
    <3> QED
      BY <1>5, <2>1, <3>1, <3>4, <3>5 DEF OnlyWrong, BelieveOnly, Been, NearBeen
  <2> QED
    BY <2>3, <2>4 DEF Send
<1> QED
  BY <1>6

\* A fix lies where the bus is, or counts as wrong.
LEMMA FixCounts ==
    ASSUME FilterTypeOK, NEW p \in Int, NEW quality, Fix(p, quality)
    PROVE  /\ bus' \in [at : Int, low : Int, high : Int, outliers : Nat]
           /\ UNCHANGED <<bus.low, bus.high, bus.at>>
           /\ quality \in {"good", "poor", "loss"}
           /\ \/ bus'.outliers = bus.outliers /\ Been(p)
              \/ bus'.outliers = bus.outliers + 1
<1>0. bus \in [at : Int, low : Int, high : Int, outliers : Nat] /\ bus.low <= bus.at /\ bus.at <= bus.high
  BY DEF FilterTypeOK
<1>1. quality \in {"good", "poor", "loss"}
  BY DEF Fix
<1>2. CASE p = bus.at
  <2>1. bus' = bus
    BY <1>2 DEF Fix
  <2>2. Been(p)
    BY <1>0, <1>2 DEF Been
  <2> QED
    BY <1>0, <1>1, <2>1, <2>2
<1>3. CASE p # bus.at
  <2>1. bus' = [bus EXCEPT !.outliers = @ + 1]
    BY <1>3 DEF Fix
  <2> QED
    BY <1>0, <1>1, <2>1
<1> QED
  BY <1>2, <1>3

\* A fix captured or refused.
LEMMA CaptureFixKeeps ==
    ASSUME FilterInv, NEW p \in Int, NEW quality, CaptureFix(p, quality)
    PROVE  FilterInv'
<1>0. FilterTypeOK
  BY DEF FilterInv
<1>1. PICK n \in Int : capture' = [at |-> p, age |-> "short", chain |-> 0, last |-> n]
  BY DEF CaptureFix, Nowhere
<1>2. capture' \in [at : Int, age : {"short", "outage", "long"}, chain : Nat, last : Int] /\ capture'.at = p
  BY <1>1
<1>3. Fix(p, quality) /\ Send(p, quality)
  BY DEF CaptureFix
<1> QED
  BY <1>0, <1>2, <1>3, FixCounts, SendKeeps

LEMMA RejectFixKeeps ==
    ASSUME FilterInv, NEW p \in Int, NEW quality, RejectFix(p, quality)
    PROVE  FilterInv'
<1>0. FilterTypeOK /\ capture \in [at : Int, age : {"short", "outage", "long"}, chain : Nat, last : Int]
  BY DEF FilterInv, FilterTypeOK
<1>1. Chain(p, quality) \in Nat
  BY <1>0 DEF Chain
<1>2. PICK n \in Nat, m \in Int : capture' = [capture EXCEPT !.chain = n, !.last = m]
  <2>1. CASE Chain(p, quality) = 0
    <3>1. PICK m \in Int : m = Nowhere
      BY DEF Nowhere
    <3>2. capture' = [capture EXCEPT !.chain = 0, !.last = m]
      BY <2>1, <3>1 DEF RejectFix
    <3> QED
      BY <3>2
  <2>2. CASE Chain(p, quality) # 0
    BY <1>1, <2>2 DEF RejectFix
  <2> QED
    BY <2>1, <2>2
<1>3. capture' \in [at : Int, age : {"short", "outage", "long"}, chain : Nat, last : Int] /\ capture'.at = capture.at
  BY <1>0, <1>2
<1>4. Fix(p, quality) /\ Send(p, quality)
  BY DEF RejectFix, Send
<1> QED
  BY <1>0, <1>3, <1>4, FixCounts, SendKeeps

LEMMA LoseFixKeeps ==
    ASSUME FilterInv, LoseFix
    PROVE  FilterInv'
<1>0. FilterTypeOK
  BY DEF FilterInv
<1>1. PICK p \in Int : p = capture.at
  BY <1>0 DEF FilterTypeOK
<1>2. p # Nowhere /\ Send(p, "loss") /\ UNCHANGED <<bus, capture>>
  BY <1>1 DEF LoseFix
<1>3. /\ bus' \in [at : Int, low : Int, high : Int, outliers : Nat] /\ UNCHANGED <<bus.low, bus.high, bus.at>>
      /\ bus'.outliers = bus.outliers
      /\ capture' \in [at : Int, age : {"short", "outage", "long"}, chain : Nat, last : Int] /\ capture'.at = capture.at
  BY <1>0, <1>2 DEF FilterTypeOK
<1> QED
  BY <1>1, <1>2, <1>3, SendKeeps

\* Time, the road and a restart: nothing new is believed.
LEMMA NothingNewKeeps ==
    ASSUME FilterInv, FilterTypeOK',
           bus'.low <= bus.low, bus.high <= bus'.high, bus'.outliers = bus.outliers,
           capture'.at = capture.at \/ capture'.at = Nowhere,
           raw' = raw \/ ~raw'.usable,
           UNCHANGED <<record.shown, record.anchor, longest>>
    PROVE  FilterInv'
<1>1. SUFFICES ASSUME bus.outliers <= 1, ~longest PROVE \E x \in Int : OnlyWrong(x)'
  BY DEF FilterInv
<1>2. PICK x \in Int : OnlyWrong(x)
  BY <1>1 DEF FilterInv
<1>3. /\ bus.low \in Int /\ bus.high \in Int /\ bus'.low \in Int /\ bus'.high \in Int /\ capture.at \in Int /\ raw.at \in Int
      /\ record.shown \in Int /\ record.anchor \in Int
  BY DEF FilterInv, FilterTypeOK
<1>4. \A q \in Int : (Been(q) => Been(q)') /\ (NearBeen(q) => NearBeen(q)')
  BY <1>3 DEF Been, NearBeen
<1>5. (capture.at = Nowhere \/ capture.at = x \/ Been(capture.at))' /\ (raw.usable => raw.at = x \/ Been(raw.at))'
  <2>1. (capture.at = Nowhere \/ capture.at = x \/ Been(capture.at)) /\ (raw.usable => raw.at = x \/ Been(raw.at))
    BY <1>2 DEF OnlyWrong, BelieveOnly
  <2>2. (capture.at = Nowhere \/ capture.at = x \/ Been(capture.at))'
    <3>1. CASE capture'.at = Nowhere
      BY <3>1
    <3>2. CASE capture'.at = capture.at
      BY <1>3, <2>1, <3>2 DEF Been
    <3> QED
      BY <3>1, <3>2
  <2>3. (raw.usable => raw.at = x \/ Been(raw.at))'
    <3>1. CASE raw' = raw
      BY <1>3, <2>1, <3>1 DEF Been
    <3> QED
      BY <3>1
  <2> QED
    BY <2>2, <2>3
<1>6. (record.anchor = x \/ Been(record.anchor))' /\ (record.shown = x \/ Been(record.shown))'
  <2>1. (record.anchor = x \/ Been(record.anchor)) /\ (record.shown = x \/ Been(record.shown))
    BY <1>2 DEF OnlyWrong, BelieveOnly
  <2> QED
    BY <1>3, <2>1 DEF Been
<1>7. (record.anchor = x \/ record.shown = x => NearBeen(x))'
  <2>1. record.anchor = x \/ record.shown = x => NearBeen(x)
    BY <1>2 DEF OnlyWrong, BelieveOnly
  <2> QED
    BY <1>4, <2>1
<1>8. bus'.outliers = 0 => Been(x)'
  BY <1>2, <1>4 DEF OnlyWrong
<1>9. OnlyWrong(x)'
  BY <1>5, <1>6, <1>7, <1>8 DEF OnlyWrong, BelieveOnly
<1> QED
  BY <1>9
LEMMA NothingNewSteps ==
    ASSUME FilterInv, UNCHANGED filterVars \/ RestartTracker \/ AgeCapture \/ AgeAnchor \/ ChainBreaks \/ Drive
    PROVE  FilterInv'
<1>0. FilterTypeOK /\ UNCHANGED longest
  BY DEF FilterInv, filterVars, RestartTracker, AgeCapture, AgeAnchor, ChainBreaks, Drive
<1>1. /\ bus \in [at : Int, low : Int, high : Int, outliers : Nat]
      /\ capture \in [at : Int, age : {"short", "outage", "long"}, chain : Nat, last : Int]
      /\ record \in [shown : Int, anchor : Int, age : {"short", "outage", "long"}, evidence : Nat]
      /\ raw \in [at : Int, usable : BOOLEAN]
  BY <1>0 DEF FilterTypeOK
<1>2. PICK n \in Int : n = Nowhere
  BY DEF Nowhere
<1>3. capture' \in [at : Int, age : {"short", "outage", "long"}, chain : Nat, last : Int]
      /\ (capture'.at = capture.at \/ capture'.at = Nowhere)
  <2>1. CASE capture' = capture
    BY <1>1, <2>1
  <2>2. CASE RestartTracker
    <3>1. capture' = [at |-> n, age |-> "short", chain |-> 0, last |-> n]
      BY <1>2, <2>2 DEF RestartTracker
    <3> QED
      BY <1>2, <3>1
  <2>3. CASE AgeCapture
    <3>1. capture' = [capture EXCEPT !.age = Older(capture.age)]
      BY <2>3 DEF AgeCapture
    <3>2. Older(capture.age) \in {"short", "outage", "long"}
      BY DEF Older
    <3> QED
      BY <1>1, <3>1, <3>2
  <2>4. CASE capture' = [capture EXCEPT !.chain = 0, !.last = Nowhere]
    <3>1. capture' = [capture EXCEPT !.chain = 0, !.last = n]
      BY <1>2, <2>4
    <3> QED
      BY <1>1, <3>1
  <2> QED
    BY <2>1, <2>2, <2>3, <2>4 DEF filterVars, AgeAnchor, ChainBreaks, Drive
<1>4. raw' \in [at : Int, usable : BOOLEAN] /\ (raw' = raw \/ ~raw'.usable)
  <2>1. CASE raw' = raw
    BY <1>1, <2>1
  <2>2. CASE raw' = Unusable
    <3>1. raw' = [at |-> n, usable |-> FALSE]
      BY <1>2, <2>2 DEF Unusable
    <3> QED
      BY <3>1
  <2> QED
    BY <2>1, <2>2 DEF filterVars, RestartTracker, AgeCapture, AgeAnchor, ChainBreaks, Drive
<1>5. record' \in [shown : Int, anchor : Int, age : {"short", "outage", "long"}, evidence : Nat]
      /\ UNCHANGED <<record.shown, record.anchor>>
  <2>1. CASE record' = record
    BY <1>1, <2>1
  <2>2. CASE AgeAnchor
    <3>1. record' = [record EXCEPT !.age = Older(record.age)]
      BY <2>2 DEF AgeAnchor
    <3>2. Older(record.age) \in {"short", "outage", "long"}
      BY DEF Older
    <3> QED
      BY <1>1, <3>1, <3>2
  <2> QED
    BY <2>1, <2>2 DEF filterVars, RestartTracker, AgeCapture, ChainBreaks, Drive
<1>6. /\ bus' \in [at : Int, low : Int, high : Int, outliers : Nat] /\ bus'.outliers = bus.outliers
      /\ bus'.low <= bus.low /\ bus.high <= bus'.high /\ bus'.low <= bus'.at /\ bus'.at <= bus'.high
  <2>1. CASE bus' = bus
    BY <1>0, <1>1, <2>1 DEF FilterTypeOK
  <2>2. CASE Drive
    <3>0. PICK p \in Places : bus' = [bus EXCEPT !.at = p, !.low = IF p < @ THEN p ELSE @, !.high = IF p > @ THEN p ELSE @]
      BY <2>2 DEF Drive
    <3>1. p \in Int
      BY PlaceAssumption DEF Places
    <3>2. PICK l \in Int, h \in Int : l = (IF p < bus.low THEN p ELSE bus.low) /\ h = (IF p > bus.high THEN p ELSE bus.high)
      BY <1>1, <3>1
    <3>3. bus' = [bus EXCEPT !.at = p, !.low = l, !.high = h]
      BY <3>0, <3>2
    <3>4. l <= bus.low /\ bus.high <= h /\ l <= p /\ p <= h
      BY <1>1, <3>1, <3>2
    <3>5. bus' \in [at : Int, low : Int, high : Int, outliers : Nat] /\ bus'.outliers = bus.outliers
          /\ bus'.low = l /\ bus'.high = h /\ bus'.at = p
      BY <1>1, <3>1, <3>3
    <3> QED
      BY <3>4, <3>5
  <2> QED
    BY <2>1, <2>2 DEF filterVars, RestartTracker, AgeCapture, AgeAnchor, ChainBreaks
<1>7. FilterTypeOK'
  BY <1>0, <1>3, <1>4, <1>5, <1>6 DEF FilterTypeOK
<1> QED
  BY <1>0, <1>3, <1>4, <1>5, <1>6, <1>7, NothingNewKeeps

LEMMA FilterStep == FilterInv /\ [FilterNext]_filterVars => FilterInv'
<1> SUFFICES ASSUME FilterInv, [FilterNext]_filterVars PROVE FilterInv'
  OBVIOUS
<1>1. \A p \in Places : p \in Int
  BY PlaceAssumption DEF Places
<1>2. bus.at \in Int
  BY DEF FilterInv, FilterTypeOK
<1>3. CASE TrueFix
  BY <1>2, <1>3, CaptureFixKeeps, RejectFixKeeps DEF TrueFix
<1>4. CASE \E p \in Places, quality \in {"good", "poor"} : CaptureFix(p, quality) \/ RejectFix(p, quality)
  BY <1>1, <1>4, CaptureFixKeeps, RejectFixKeeps
<1>5. CASE LoseFix
  BY <1>5, LoseFixKeeps
<1>6. CASE UNCHANGED filterVars \/ RestartTracker \/ AgeCapture \/ AgeAnchor \/ ChainBreaks \/ Drive
  BY <1>6, NothingNewSteps
<1> QED
  BY <1>3, <1>4, <1>5, <1>6 DEF FilterNext, Disturbance

\* Of two filters in a row, tracker and live record, a single wrong fix fools
\* at most one: passengers see the bus within one short transition of where it
\* was, however the tracker restarts, ages or loses its receiver, unless five
\* minutes went by without an accepted fix (telemetryMotion.ts:110). The safe
\* half of TruthIsShown.
THEOREM OutlierIsHeldAlways == FilterSpec => []OutlierIsHeld
<1>1. FilterInv => OutlierIsHeld
  <2> SUFFICES ASSUME FilterInv, bus.outliers <= 1, ~longest
               PROVE  \E p \in bus.low .. bus.high : Distance(p, record.shown) <= Reach("short")
    BY DEF OutlierIsHeld
  <2>1. PICK x \in Int : OnlyWrong(x)
    BY DEF FilterInv
  <2>2. bus.low \in Int /\ bus.high \in Int /\ bus.low <= bus.high /\ record.shown \in Int
    BY DEF FilterInv, FilterTypeOK
  <2>3. bus.low - 1 <= record.shown /\ record.shown <= bus.high + 1
    BY <2>1, <2>2 DEF OnlyWrong, BelieveOnly, Been, NearBeen
  <2>4. PICK p \in Int : p = (IF record.shown < bus.low THEN bus.low ELSE IF record.shown > bus.high THEN bus.high ELSE record.shown)
    BY <2>2
  <2>5. p \in bus.low .. bus.high /\ Distance(p, record.shown) <= 1
    BY <2>2, <2>3, <2>4 DEF Distance
  <2> QED
    BY <2>5 DEF Reach
<1> QED
  BY <1>1, FilterStarts, FilterStep, PTL DEF FilterSpec

-----------------------------------------------------------------------------
\* EdgeParts: the parts next to each other.

LEMMA TrackerPartsStep ==
    ASSUME [EdgeNext]_edgeVars
    PROVE  /\ [ResolverNext]_resolverVars /\ [DiagnosticNext]_diagnosticVars /\ [FirmwareNext]_firmwareVars
           /\ [JournalNext]_journalVars /\ [FilterNext]_filterVars
<1>1. CASE UNCHANGED edgeVars
  BY <1>1 DEF edgeVars, trackerVars
<1>2. CASE TrackerNext
  BY <1>2 DEF TrackerNext
<1>3. CASE UNCHANGED trackerVars
  BY <1>3 DEF trackerVars
<1> QED
  BY <1>1, <1>2, <1>3 DEF EdgeNext

\* A behaviour of the two ends is one of each of the tracker's parts, which
\* share no variable (main.cpp's tasks).
THEOREM EdgeHasParts ==
    EdgeSpec => /\ ResolverSpec /\ DiagnosticSpec /\ JournalSpec /\ FilterSpec
                /\ FirmwareSpec
<1>1. EdgeInit => ResolverInit /\ DiagnosticInit /\ JournalInit /\ FilterInit /\ FirmwareInit
  BY DEF EdgeInit
<1> QED
  BY <1>1, TrackerPartsStep, PTL DEF EdgeSpec, ResolverSpec, DiagnosticSpec, JournalSpec, FilterSpec, FirmwareSpec

\* Tracker and page keep, together, what the parts promise: all that is checked
\* of EdgeParts but what needs fairness.
THEOREM EdgeKeepsItsPromises ==
    EdgeSpec => /\ [](NothingOfOthers /\ UnknownIsNotNone)
                /\ AddressIsOwn /\ ImplementsCheckpoint
                /\ [](OneReport /\ FlashIsReserved /\ OutlierIsHeld)
  BY EdgeHasParts, NothingOfOthersAlways, UnknownIsNotNoneAlways, AddressIsOwnAlways, JournalImplementsCheckpoint,
     OneReportAlways, FlashIsReservedAlways, OutlierIsHeldAlways, PTL
=============================================================================
