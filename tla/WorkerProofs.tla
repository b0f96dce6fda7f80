---------------------------- MODULE WorkerProofs ----------------------------
(* Proofs about WorkerLease, for every set of processes and all durations, and *)
(* about LiveProjection, for every number of nodes, workers and misfortunes.   *)
EXTENDS WorkerParts, TLAPS

\* No process gains a generation: the order of the carried ones is kept.
LEMMA CarriedShrinks ==
    ASSUME TypeOK, TypeOK', CarriedInv,
           \A q \in Procs : Carried(q)' \subseteq Carried(q),
           lease'.gen >= lease.gen,
           lease'.gen = lease.gen => lease'.owner \in {lease.owner, NoOwner}
    PROVE  CarriedInv'
<1>1. \A p \in Procs : \A g \in Carried(p)' :
        /\ g <= lease'.gen
        /\ g = lease'.gen => lease'.owner \in {p, NoOwner}
  <2> SUFFICES ASSUME NEW p \in Procs, NEW g \in Carried(p)'
               PROVE  /\ g <= lease'.gen
                      /\ g = lease'.gen => lease'.owner \in {p, NoOwner}
      OBVIOUS
  <2>1. /\ g \in Carried(p) /\ g <= lease.gen
        /\ g = lease.gen => lease.owner \in {p, NoOwner}
      BY DEF CarriedInv
  <2>2. g \in Nat /\ lease.gen \in Nat /\ lease'.gen \in Nat
      BY DEF TypeOK, Carried
  <2> QED BY <2>1, <2>2
<1>2. \A p, q \in Procs : p # q => Carried(p)' \cap Carried(q)' = {}
    BY Zenon DEF CarriedInv
<1> QED BY <1>1, <1>2 DEF CarriedInv

\* What a write of the lease leaves behind.
LEMMA WroteLease ==
    ASSUME TypeOK, NEW x \in Procs \union {NoOwner},
           NEW v \in [owner : Procs \union {NoOwner}, gen : Nat, exp : Int],
           WriteLease(x, v)
    PROVE  /\ lease' = v /\ late' = {}
           /\ lease' \in [owner : Procs \union {NoOwner}, gen : Nat, exp : Int]
           /\ plan' \in [Procs -> [gen : Nat, exp : Int, fresh : BOOLEAN]]
           /\ \A q \in Procs : plan'[q].fresh = FALSE
           /\ \A q \in Procs : q # x => /\ plan'[q].gen = plan[q].gen
                                        /\ plan'[q].exp = plan[q].exp
<1> DEFINE P == [gen : Nat, exp : Int, fresh : BOOLEAN]
           next(q) == IF q = x THEN NoPlan ELSE [plan[q] EXCEPT !.fresh = FALSE]
<1>1. ASSUME NEW q \in Procs
      PROVE  /\ next(q) \in P /\ next(q).fresh = FALSE
             /\ q # x => next(q).gen = plan[q].gen /\ next(q).exp = plan[q].exp
  <2>1. plan[q] \in P
      BY DEF TypeOK
  <2>2. [plan[q] EXCEPT !.fresh = FALSE] \in P
      BY <2>1
  <2> QED BY <2>1, <2>2 DEF NoPlan
<1>2. plan' = [q \in Procs |-> next(q)]
    BY DEF WriteLease
<1> HIDE DEF next
<1>3. \A q \in Procs : plan'[q] = next(q)
    BY <1>2
<1> QED BY <1>1, <1>2, <1>3, ZenonT(90) DEF WriteLease

LEMMA BeginRenewStep ==
    ASSUME LeaseInv, NEW p \in Procs, BeginRenew(p)
    PROVE  LeaseInv'
<1> USE NoOwnerAssumption, TimeAssumption DEF LeaseInv
<1>1. TypeOK'
    BY DEF TypeOK, NoFence, NoGrant, NoPlan, BeginRenew, KeepWork
<1>2. TimeInv'
    BY DEF TypeOK, TimeInv, RenewInv, WorkInv, Latest, NoFence,
           NoGrant, BeginRenew, KeepWork
<1>3. RenewInv'
    BY DEF TypeOK, RenewInv, WorkInv, CommitInv, NoFence, NoGrant,
           BeginRenew, KeepWork
<1>4. WorkInv'
    BY DEF TypeOK, WorkInv, RenewInv, NoFence, NoGrant, BeginRenew,
           KeepWork
<1>5. CommitInv'
    BY DEF TypeOK, CommitInv, RenewInv, Fits, NoFence, NoGrant,
           BeginRenew, KeepWork
<1>6. HoldInv'
    BY DEF TypeOK, TimeInv, RenewInv, WorkInv, CommitInv, HoldInv,
           Holds, Usable, Latest, Fits, NoFence, NoGrant, BeginRenew,
           KeepWork
<1>7. CarriedInv'
  <2>1. \A q \in Procs : Carried(q)' \subseteq Carried(q)
    BY DEF TypeOK, RenewInv, WorkInv, Carried, NoFence, NoGrant,
           BeginRenew, KeepWork
  <2>2. /\ lease'.gen >= lease.gen
        /\ lease'.gen = lease.gen => lease'.owner \in {lease.owner, NoOwner}
    BY DEF TypeOK, CommitInv, Fits, BeginRenew, KeepWork
  <2> QED BY <2>1, <2>2, <1>1, CarriedShrinks
<1> QED BY <1>1, <1>2, <1>3, <1>4, <1>5, <1>6, <1>7

LEMMA RefuseLeaseStep ==
    ASSUME LeaseInv, NEW p \in Procs, RefuseLease(p)
    PROVE  LeaseInv'
<1> USE NoOwnerAssumption, TimeAssumption DEF LeaseInv
<1>1. TypeOK'
    BY DEF TypeOK, NoFence, NoGrant, NoPlan, RefuseLease, KeepWork
<1>2. TimeInv'
    BY DEF TypeOK, TimeInv, RenewInv, WorkInv, Latest, NoFence,
           NoGrant, RefuseLease, KeepWork
<1>3. RenewInv'
    BY DEF TypeOK, RenewInv, WorkInv, CommitInv, NoFence, NoGrant,
           RefuseLease, KeepWork
<1>4. WorkInv'
    BY DEF TypeOK, WorkInv, RenewInv, NoFence, NoGrant, RefuseLease,
           KeepWork
<1>5. CommitInv'
    BY DEF TypeOK, CommitInv, RenewInv, Fits, NoFence, NoGrant,
           RefuseLease, KeepWork
<1>6. HoldInv'
    BY DEF TypeOK, TimeInv, RenewInv, WorkInv, CommitInv, HoldInv,
           Holds, Usable, Latest, Fits, NoFence, NoGrant, RefuseLease,
           KeepWork
<1>7. CarriedInv'
    BY ZenonT(90) DEF TypeOK, RenewInv, WorkInv, CommitInv, CarriedInv, Carried,
           Fits, NoFence, NoGrant, RefuseLease, KeepWork
<1> QED BY <1>1, <1>2, <1>3, <1>4, <1>5, <1>6, <1>7

LEMMA PlanLeaseStep ==
    ASSUME LeaseInv, NEW p \in Procs, PlanLease(p)
    PROVE  LeaseInv'
<1> USE NoOwnerAssumption, TimeAssumption DEF LeaseInv
<1>1. TypeOK'
    BY DEF TypeOK, NoFence, NoGrant, NoPlan, PlanLease, KeepWork,
           WallClock, HeldByOther, NextGeneration
<1>2. TimeInv'
    BY DEF TypeOK, TimeInv, RenewInv, WorkInv, Latest, NoFence,
           NoGrant, PlanLease, KeepWork, WallClock, HeldByOther,
           NextGeneration
<1>3. RenewInv'
    BY DEF TypeOK, RenewInv, WorkInv, CommitInv, NoFence, NoGrant,
           TimeInv, PlanLease, KeepWork, WallClock, HeldByOther,
           NextGeneration
<1>4. WorkInv'
    BY DEF TypeOK, WorkInv, RenewInv, NoFence, NoGrant, PlanLease,
           KeepWork, WallClock, HeldByOther, NextGeneration
<1>5. CommitInv'
    BY DEF TypeOK, CommitInv, RenewInv, Fits, NoFence, NoGrant,
           PlanLease, KeepWork, WallClock, HeldByOther, NextGeneration
<1>6. HoldInv'
    BY DEF TypeOK, TimeInv, RenewInv, WorkInv, CommitInv, HoldInv,
           Holds, Usable, Latest, Fits, NoFence, NoGrant, PlanLease,
           KeepWork, WallClock, HeldByOther, NextGeneration
<1>7. CarriedInv'
    BY ZenonT(90) DEF TypeOK, RenewInv, WorkInv, CommitInv, CarriedInv, Carried,
           Fits, NoFence, NoGrant, PlanLease, KeepWork, WallClock,
           HeldByOther, NextGeneration
<1> QED BY <1>1, <1>2, <1>3, <1>4, <1>5, <1>6, <1>7

LEMMA CommitLeaseStep ==
    ASSUME LeaseInv, NEW p \in Procs, CommitLease(p)
    PROVE  LeaseInv'
<1> USE NoOwnerAssumption, TimeAssumption DEF LeaseInv
<1> DEFINE v == [owner |-> p, gen |-> plan[p].gen, exp |-> plan[p].exp]
<1>0. /\ lease' = v /\ late' = {}
      /\ lease' \in [owner : Procs \union {NoOwner}, gen : Nat, exp : Int]
      /\ plan' \in [Procs -> [gen : Nat, exp : Int, fresh : BOOLEAN]]
      /\ \A q \in Procs : plan'[q].fresh = FALSE
      /\ \A q \in Procs : q # p => /\ plan'[q].gen = plan[q].gen
                                   /\ plan'[q].exp = plan[q].exp
  <2>1. v \in [owner : Procs \union {NoOwner}, gen : Nat, exp : Int]
      BY DEF TypeOK
  <2>2. WriteLease(p, v)
      BY DEF CommitLease
  <2>3. p \in Procs \union {NoOwner}
      OBVIOUS
  <2>4. TypeOK
      OBVIOUS
  <2> HIDE DEF v, LeaseInv
  <2> QED BY ONLY <2>1, <2>2, <2>3, <2>4, WroteLease
<1>1. TypeOK'
    BY <1>0 DEF TypeOK, NoFence, NoGrant, NoPlan, CommitLease,
           KeepWork
<1>2. TimeInv'
    BY <1>0 DEF TypeOK, TimeInv, RenewInv, WorkInv, Latest, NoFence,
           NoGrant, CommitLease, KeepWork
<1>3. RenewInv'
    BY <1>0 DEF TypeOK, RenewInv, WorkInv, CommitInv, NoFence,
           NoGrant, CommitLease, KeepWork
<1>4. WorkInv'
    BY <1>0 DEF TypeOK, WorkInv, RenewInv, NoFence, NoGrant,
           CommitLease, KeepWork
<1>5. CommitInv'
    BY <1>0 DEF TypeOK, CommitInv, RenewInv, Fits, NoFence, NoGrant,
           CommitLease, KeepWork
<1>6. HoldInv'
    BY <1>0 DEF TypeOK, TimeInv, RenewInv, WorkInv, CommitInv,
           HoldInv, Holds, Usable, Latest, Fits, NoFence, NoGrant,
           CommitLease, KeepWork
<1>7. CarriedInv'
  <2> DEFINE g0 == plan[p].gen
  <2>1. g0 \in Nat /\ g0 > 0 /\ lease'.gen = g0 /\ lease'.owner = p
      BY <1>0 DEF TypeOK, RenewInv, CommitLease
  <2>2. \/ lease.owner = p /\ g0 = lease.gen
        \/ g0 = lease.gen + 1
      BY DEF CommitInv, Fits, CommitLease
  <2>3. Carried(p)' \subseteq Carried(p) \union {g0}
      BY DEF Carried, CommitLease, KeepWork, TypeOK
  <2>4. \A q \in Procs \ {p} : Carried(q)' = Carried(q)
      BY DEF Carried, CommitLease, KeepWork, TypeOK
  <2>5. \A q \in Procs : \A g \in Carried(q) : g \in Nat /\ g <= lease.gen
      BY DEF CarriedInv, Carried, TypeOK
  <2>6. \A q \in Procs \ {p} : g0 \notin Carried(q)
    <3> SUFFICES ASSUME NEW q \in Procs \ {p}, g0 \in Carried(q) PROVE FALSE
        OBVIOUS
    <3>1. CASE lease.owner = p /\ g0 = lease.gen
        BY <3>1 DEF CarriedInv
    <3>2. CASE g0 = lease.gen + 1
        BY <3>2, <2>5 DEF TypeOK
    <3> QED BY <2>2, <3>1, <3>2
  <2>7. ASSUME NEW q \in Procs, NEW g \in Carried(q)'
        PROVE  /\ g <= lease'.gen
               /\ g = lease'.gen => lease'.owner \in {q, NoOwner}
    <3> HIDE DEF g0
    <3>1. lease.gen \in Nat /\ lease.gen <= g0
        BY <2>1, <2>2 DEF TypeOK
    <3>2. CASE q = p
        BY <2>1, <2>3, <2>5, <3>1, <3>2
    <3>3. CASE q # p
        BY <2>1, <2>4, <2>5, <2>6, <3>1, <3>3
    <3> QED BY <3>2, <3>3
  <2>8. ASSUME NEW q1 \in Procs, NEW q2 \in Procs, q1 # q2
        PROVE  Carried(q1)' \cap Carried(q2)' = {}
    <3>1. Carried(q1) \cap Carried(q2) = {}
        BY <2>8 DEF CarriedInv
    <3> HIDE DEF g0
    <3> QED BY <2>3, <2>4, <2>6, <2>8, <3>1
  <2> QED BY <2>7, <2>8 DEF CarriedInv
<1> QED BY <1>1, <1>2, <1>3, <1>4, <1>5, <1>6, <1>7

LEMMA RetryLeaseStep ==
    ASSUME LeaseInv, NEW p \in Procs, RetryLease(p)
    PROVE  LeaseInv'
<1> USE NoOwnerAssumption, TimeAssumption DEF LeaseInv
<1>1. TypeOK'
    BY DEF TypeOK, NoFence, NoGrant, NoPlan, RetryLease, KeepWork
<1>2. TimeInv'
    BY DEF TypeOK, TimeInv, RenewInv, WorkInv, Latest, NoFence,
           NoGrant, RetryLease, KeepWork, NoPlan
<1>3. RenewInv'
    BY DEF TypeOK, RenewInv, WorkInv, CommitInv, NoFence, NoGrant,
           RetryLease, KeepWork, NoPlan
<1>4. WorkInv'
    BY DEF TypeOK, WorkInv, RenewInv, NoFence, NoGrant, RetryLease,
           KeepWork, NoPlan
<1>5. CommitInv'
    BY DEF TypeOK, CommitInv, RenewInv, Fits, NoFence, NoGrant,
           RetryLease, KeepWork, NoPlan
<1>6. HoldInv'
    BY DEF TypeOK, TimeInv, RenewInv, WorkInv, CommitInv, HoldInv,
           Holds, Usable, Latest, Fits, NoFence, NoGrant, RetryLease,
           KeepWork, NoPlan
<1>7. CarriedInv'
    BY ZenonT(90) DEF TypeOK, RenewInv, WorkInv, CommitInv, CarriedInv, Carried,
           Fits, NoFence, NoGrant, RetryLease, KeepWork, NoPlan
<1> QED BY <1>1, <1>2, <1>3, <1>4, <1>5, <1>6, <1>7

LEMMA IgnoreReplyStep ==
    ASSUME LeaseInv, NEW p \in Procs, IgnoreReply(p)
    PROVE  LeaseInv'
<1> USE NoOwnerAssumption, TimeAssumption DEF LeaseInv
<1>1. TypeOK'
    BY DEF TypeOK, NoFence, NoGrant, NoPlan, IgnoreReply, Discard,
           EndRenew, KeepWork
<1>2. TimeInv'
    BY DEF TypeOK, TimeInv, RenewInv, WorkInv, Latest, NoFence,
           NoGrant, IgnoreReply, Discard, EndRenew, KeepWork
<1>3. RenewInv'
    BY DEF TypeOK, RenewInv, WorkInv, CommitInv, NoFence, NoGrant,
           IgnoreReply, Discard, EndRenew, KeepWork
<1>4. WorkInv'
    BY DEF TypeOK, WorkInv, RenewInv, NoFence, NoGrant, IgnoreReply,
           Discard, EndRenew, KeepWork
<1>5. CommitInv'
    BY DEF TypeOK, CommitInv, RenewInv, Fits, NoFence, NoGrant,
           IgnoreReply, Discard, EndRenew, KeepWork
<1>6. HoldInv'
    BY DEF TypeOK, TimeInv, RenewInv, WorkInv, CommitInv, HoldInv,
           Holds, Usable, Latest, Fits, NoFence, NoGrant, IgnoreReply,
           Discard, EndRenew, KeepWork
<1>7. CarriedInv'
  <2>1. \A q \in Procs : Carried(q)' \subseteq Carried(q)
    BY DEF TypeOK, RenewInv, WorkInv, Carried, NoFence, NoGrant,
           IgnoreReply, Discard, EndRenew, KeepWork
  <2>2. /\ lease'.gen >= lease.gen
        /\ lease'.gen = lease.gen => lease'.owner \in {lease.owner, NoOwner}
    BY DEF TypeOK, CommitInv, Fits, IgnoreReply, Discard, EndRenew,
           KeepWork
  <2> QED BY <2>1, <2>2, <1>1, CarriedShrinks
<1> QED BY <1>1, <1>2, <1>3, <1>4, <1>5, <1>6, <1>7

LEMMA LoseLeaseStep ==
    ASSUME LeaseInv, NEW p \in Procs, LoseLease(p)
    PROVE  LeaseInv'
<1> USE NoOwnerAssumption, TimeAssumption DEF LeaseInv
<1>1. TypeOK'
    BY DEF TypeOK, NoFence, NoGrant, NoPlan, LoseLease, GiveUp,
           EndRenew, StopWork
<1>2. TimeInv'
    BY DEF TypeOK, TimeInv, RenewInv, WorkInv, Latest, NoFence,
           NoGrant, LoseLease, GiveUp, EndRenew, StopWork
<1>3. RenewInv'
    BY DEF TypeOK, RenewInv, WorkInv, CommitInv, NoFence, NoGrant,
           LoseLease, GiveUp, EndRenew, StopWork
<1>4. WorkInv'
    BY DEF TypeOK, WorkInv, RenewInv, NoFence, NoGrant, LoseLease,
           GiveUp, EndRenew, StopWork
<1>5. CommitInv'
    BY DEF TypeOK, CommitInv, RenewInv, Fits, NoFence, NoGrant,
           LoseLease, GiveUp, EndRenew, StopWork
<1>6. HoldInv'
    BY DEF TypeOK, TimeInv, RenewInv, WorkInv, CommitInv, HoldInv,
           Holds, Usable, Latest, Fits, NoFence, NoGrant, LoseLease,
           GiveUp, EndRenew, StopWork
<1>7. CarriedInv'
  <2>1. \A q \in Procs : Carried(q)' \subseteq Carried(q)
    BY DEF TypeOK, RenewInv, WorkInv, Carried, NoFence, NoGrant,
           LoseLease, GiveUp, EndRenew, StopWork
  <2>2. /\ lease'.gen >= lease.gen
        /\ lease'.gen = lease.gen => lease'.owner \in {lease.owner, NoOwner}
    BY DEF TypeOK, CommitInv, Fits, LoseLease, GiveUp, EndRenew,
           StopWork
  <2> QED BY <2>1, <2>2, <1>1, CarriedShrinks
<1> QED BY <1>1, <1>2, <1>3, <1>4, <1>5, <1>6, <1>7

LEMMA ExtendFenceStep ==
    ASSUME LeaseInv, NEW p \in Procs, ExtendFence(p)
    PROVE  LeaseInv'
<1> USE NoOwnerAssumption, TimeAssumption DEF LeaseInv
<1>1. TypeOK'
    BY DEF TypeOK, NoFence, NoGrant, NoPlan, ExtendFence, Granted,
           SameAcquisition, Deadline, EndRenew, WallClock, Usable
<1>2. TimeInv'
    BY DEF TypeOK, TimeInv, RenewInv, WorkInv, Latest, NoFence,
           NoGrant, ExtendFence, Granted, SameAcquisition, Deadline,
           EndRenew, WallClock, Usable
<1>3. RenewInv'
    BY DEF TypeOK, RenewInv, WorkInv, CommitInv, NoFence, NoGrant,
           ExtendFence, Granted, SameAcquisition, Deadline, EndRenew,
           WallClock, Usable
<1>4. WorkInv'
    BY DEF TypeOK, WorkInv, RenewInv, NoFence, NoGrant, ExtendFence,
           Granted, SameAcquisition, Deadline, EndRenew, WallClock,
           Usable
<1>5. CommitInv'
    BY DEF TypeOK, CommitInv, RenewInv, Fits, NoFence, NoGrant,
           ExtendFence, Granted, SameAcquisition, Deadline, EndRenew,
           WallClock, Usable
<1>6. HoldInv'
    BY DEF TypeOK, TimeInv, RenewInv, WorkInv, CommitInv, HoldInv,
           Holds, Usable, Latest, Fits, NoFence, NoGrant, ExtendFence,
           Granted, SameAcquisition, Deadline, EndRenew, WallClock
<1>7. CarriedInv'
  <2>1. \A q \in Procs : Carried(q)' \subseteq Carried(q)
    BY DEF TypeOK, RenewInv, WorkInv, Carried, NoFence, NoGrant,
           ExtendFence, Granted, SameAcquisition, Deadline, EndRenew,
           WallClock, Usable
  <2>2. /\ lease'.gen >= lease.gen
        /\ lease'.gen = lease.gen => lease'.owner \in {lease.owner, NoOwner}
    BY DEF TypeOK, CommitInv, Fits, ExtendFence, Granted,
           SameAcquisition, Deadline, EndRenew, WallClock, Usable
  <2> QED BY <2>1, <2>2, <1>1, CarriedShrinks
<1> QED BY <1>1, <1>2, <1>3, <1>4, <1>5, <1>6, <1>7

LEMMA ExtendThrowsStep ==
    ASSUME LeaseInv, NEW p \in Procs, ExtendThrows(p)
    PROVE  LeaseInv'
<1> USE NoOwnerAssumption, TimeAssumption DEF LeaseInv
<1>1. TypeOK'
    BY DEF TypeOK, NoFence, NoGrant, NoPlan, ExtendThrows, Granted,
           SameAcquisition, GiveUp, EndRenew, StopWork
<1>2. TimeInv'
    BY DEF TypeOK, TimeInv, RenewInv, WorkInv, Latest, NoFence,
           NoGrant, ExtendThrows, Granted, SameAcquisition, GiveUp,
           EndRenew, StopWork
<1>3. RenewInv'
    BY DEF TypeOK, RenewInv, WorkInv, CommitInv, NoFence, NoGrant,
           ExtendThrows, Granted, SameAcquisition, GiveUp, EndRenew,
           StopWork
<1>4. WorkInv'
    BY DEF TypeOK, WorkInv, RenewInv, NoFence, NoGrant, ExtendThrows,
           Granted, SameAcquisition, GiveUp, EndRenew, StopWork
<1>5. CommitInv'
    BY DEF TypeOK, CommitInv, RenewInv, Fits, NoFence, NoGrant,
           ExtendThrows, Granted, SameAcquisition, GiveUp, EndRenew,
           StopWork
<1>6. HoldInv'
    BY DEF TypeOK, TimeInv, RenewInv, WorkInv, CommitInv, HoldInv,
           Holds, Usable, Latest, Fits, NoFence, NoGrant,
           ExtendThrows, Granted, SameAcquisition, GiveUp, EndRenew,
           StopWork
<1>7. CarriedInv'
  <2>1. \A q \in Procs : Carried(q)' \subseteq Carried(q)
    BY DEF TypeOK, RenewInv, WorkInv, Carried, NoFence, NoGrant,
           ExtendThrows, Granted, SameAcquisition, GiveUp, EndRenew,
           StopWork
  <2>2. /\ lease'.gen >= lease.gen
        /\ lease'.gen = lease.gen => lease'.owner \in {lease.owner, NoOwner}
    BY DEF TypeOK, CommitInv, Fits, ExtendThrows, Granted,
           SameAcquisition, GiveUp, EndRenew, StopWork
  <2> QED BY <2>1, <2>2, <1>1, CarriedShrinks
<1> QED BY <1>1, <1>2, <1>3, <1>4, <1>5, <1>6, <1>7

LEMMA AwaitWorkersStep ==
    ASSUME LeaseInv, NEW p \in Procs, AwaitWorkers(p)
    PROVE  LeaseInv'
<1> USE NoOwnerAssumption, TimeAssumption DEF LeaseInv
<1>1. TypeOK'
    BY DEF TypeOK, NoFence, NoGrant, NoPlan, AwaitWorkers, Granted,
           SameAcquisition, Deadline, WallClock, StopWork
<1>2. TimeInv'
    BY DEF TypeOK, TimeInv, RenewInv, WorkInv, Latest, NoFence,
           NoGrant, AwaitWorkers, Granted, SameAcquisition, Deadline,
           WallClock, StopWork
<1>3. RenewInv'
    BY DEF TypeOK, RenewInv, WorkInv, CommitInv, NoFence, NoGrant,
           AwaitWorkers, Granted, SameAcquisition, Deadline,
           WallClock, StopWork
<1>4. WorkInv'
    BY DEF TypeOK, WorkInv, RenewInv, NoFence, NoGrant, AwaitWorkers,
           Granted, SameAcquisition, Deadline, WallClock, StopWork
<1>5. CommitInv'
    BY DEF TypeOK, CommitInv, RenewInv, Fits, NoFence, NoGrant,
           AwaitWorkers, Granted, SameAcquisition, Deadline,
           WallClock, StopWork
<1>6. HoldInv'
    BY DEF TypeOK, TimeInv, RenewInv, WorkInv, CommitInv, HoldInv,
           Holds, Usable, Latest, Fits, NoFence, NoGrant,
           AwaitWorkers, Granted, SameAcquisition, Deadline,
           WallClock, StopWork
<1>7. CarriedInv'
  <2>1. \A q \in Procs : Carried(q)' \subseteq Carried(q)
    BY DEF TypeOK, RenewInv, WorkInv, Carried, NoFence, NoGrant,
           AwaitWorkers, Granted, SameAcquisition, Deadline,
           WallClock, StopWork
  <2>2. /\ lease'.gen >= lease.gen
        /\ lease'.gen = lease.gen => lease'.owner \in {lease.owner, NoOwner}
    BY DEF TypeOK, CommitInv, Fits, AwaitWorkers, Granted,
           SameAcquisition, Deadline, WallClock, StopWork
  <2> QED BY <2>1, <2>2, <1>1, CarriedShrinks
<1> QED BY <1>1, <1>2, <1>3, <1>4, <1>5, <1>6, <1>7

LEMMA StartWorkStep ==
    ASSUME LeaseInv, NEW p \in Procs, StartWork(p)
    PROVE  LeaseInv'
<1> USE NoOwnerAssumption, TimeAssumption DEF LeaseInv
<1>1. TypeOK'
    BY DEF TypeOK, NoFence, NoGrant, NoPlan, StartWork, EndRenew
<1>2. TimeInv'
    BY DEF TypeOK, TimeInv, RenewInv, WorkInv, Latest, NoFence,
           NoGrant, StartWork, EndRenew
<1>3. RenewInv'
    BY DEF TypeOK, RenewInv, WorkInv, CommitInv, NoFence, NoGrant,
           StartWork, EndRenew
<1>4. WorkInv'
    BY DEF TypeOK, WorkInv, RenewInv, NoFence, NoGrant, StartWork,
           EndRenew
<1>5. CommitInv'
    BY DEF TypeOK, CommitInv, RenewInv, Fits, NoFence, NoGrant,
           StartWork, EndRenew
<1>6. HoldInv'
    BY DEF TypeOK, TimeInv, RenewInv, WorkInv, CommitInv, HoldInv,
           Holds, Usable, Latest, Fits, NoFence, NoGrant, StartWork,
           EndRenew
<1>7. CarriedInv'
  <2>1. \A q \in Procs : Carried(q)' \subseteq Carried(q)
    BY DEF TypeOK, RenewInv, WorkInv, Carried, NoFence, NoGrant,
           StartWork, EndRenew
  <2>2. /\ lease'.gen >= lease.gen
        /\ lease'.gen = lease.gen => lease'.owner \in {lease.owner, NoOwner}
    BY DEF TypeOK, CommitInv, Fits, StartWork, EndRenew
  <2> QED BY <2>1, <2>2, <1>1, CarriedShrinks
<1> QED BY <1>1, <1>2, <1>3, <1>4, <1>5, <1>6, <1>7

LEMMA StaleRestartStep ==
    ASSUME LeaseInv, NEW p \in Procs, StaleRestart(p)
    PROVE  LeaseInv'
<1> USE NoOwnerAssumption, TimeAssumption DEF LeaseInv
<1>1. TypeOK'
    BY DEF TypeOK, NoFence, NoGrant, NoPlan, StaleRestart, Discard,
           EndRenew, KeepWork
<1>2. TimeInv'
    BY DEF TypeOK, TimeInv, RenewInv, WorkInv, Latest, NoFence,
           NoGrant, StaleRestart, Discard, EndRenew, KeepWork
<1>3. RenewInv'
    BY DEF TypeOK, RenewInv, WorkInv, CommitInv, NoFence, NoGrant,
           StaleRestart, Discard, EndRenew, KeepWork
<1>4. WorkInv'
    BY DEF TypeOK, WorkInv, RenewInv, NoFence, NoGrant, StaleRestart,
           Discard, EndRenew, KeepWork
<1>5. CommitInv'
    BY DEF TypeOK, CommitInv, RenewInv, Fits, NoFence, NoGrant,
           StaleRestart, Discard, EndRenew, KeepWork
<1>6. HoldInv'
    BY DEF TypeOK, TimeInv, RenewInv, WorkInv, CommitInv, HoldInv,
           Holds, Usable, Latest, Fits, NoFence, NoGrant,
           StaleRestart, Discard, EndRenew, KeepWork
<1>7. CarriedInv'
  <2>1. \A q \in Procs : Carried(q)' \subseteq Carried(q)
    BY DEF TypeOK, RenewInv, WorkInv, Carried, NoFence, NoGrant,
           StaleRestart, Discard, EndRenew, KeepWork
  <2>2. /\ lease'.gen >= lease.gen
        /\ lease'.gen = lease.gen => lease'.owner \in {lease.owner, NoOwner}
    BY DEF TypeOK, CommitInv, Fits, StaleRestart, Discard, EndRenew,
           KeepWork
  <2> QED BY <2>1, <2>2, <1>1, CarriedShrinks
<1> QED BY <1>1, <1>2, <1>3, <1>4, <1>5, <1>6, <1>7

LEMMA RenewFailsStep ==
    ASSUME LeaseInv, NEW p \in Procs, RenewFails(p)
    PROVE  LeaseInv'
<1> USE NoOwnerAssumption, TimeAssumption DEF LeaseInv
<1>1. TypeOK'
    BY DEF TypeOK, NoFence, NoGrant, NoPlan, RenewFails, GiveUp,
           EndRenew, StopWork, LeaveCommit
<1>2. TimeInv'
    BY DEF TypeOK, TimeInv, RenewInv, WorkInv, Latest, NoFence,
           NoGrant, RenewFails, GiveUp, EndRenew, StopWork,
           LeaveCommit, NoPlan
<1>3. RenewInv'
    BY DEF TypeOK, RenewInv, WorkInv, CommitInv, NoFence, NoGrant,
           RenewFails, GiveUp, EndRenew, StopWork, LeaveCommit, NoPlan
<1>4. WorkInv'
    BY DEF TypeOK, WorkInv, RenewInv, NoFence, NoGrant, RenewFails,
           GiveUp, EndRenew, StopWork, LeaveCommit, NoPlan
<1>5. CommitInv'
    BY DEF TypeOK, CommitInv, RenewInv, Fits, NoFence, NoGrant,
           RenewFails, GiveUp, EndRenew, StopWork, LeaveCommit, NoPlan
<1>6. HoldInv'
    BY DEF TypeOK, TimeInv, RenewInv, WorkInv, CommitInv, HoldInv,
           Holds, Usable, Latest, Fits, NoFence, NoGrant, RenewFails,
           GiveUp, EndRenew, StopWork, LeaveCommit, NoPlan
<1>7. CarriedInv'
  <2>1. \A q \in Procs : Carried(q)' \subseteq Carried(q)
    BY DEF TypeOK, RenewInv, WorkInv, Carried, NoFence, NoGrant,
           RenewFails, GiveUp, EndRenew, StopWork, LeaveCommit, NoPlan
  <2>2. /\ lease'.gen >= lease.gen
        /\ lease'.gen = lease.gen => lease'.owner \in {lease.owner, NoOwner}
    BY DEF TypeOK, CommitInv, Fits, RenewFails, GiveUp, EndRenew,
           StopWork, LeaveCommit, NoPlan
  <2> QED BY <2>1, <2>2, <1>1, CarriedShrinks
<1> QED BY <1>1, <1>2, <1>3, <1>4, <1>5, <1>6, <1>7

LEMMA FinishRenewStep ==
    ASSUME LeaseInv, NEW p \in Procs, FinishRenew(p)
    PROVE  LeaseInv'
<1> USE NoOwnerAssumption, TimeAssumption DEF LeaseInv
<1>1. TypeOK'
    BY DEF TypeOK, NoFence, NoGrant, NoPlan, FinishRenew, KeepWork
<1>2. TimeInv'
    BY DEF TypeOK, TimeInv, RenewInv, WorkInv, Latest, NoFence,
           NoGrant, FinishRenew, KeepWork
<1>3. RenewInv'
    BY DEF TypeOK, RenewInv, WorkInv, CommitInv, NoFence, NoGrant,
           FinishRenew, KeepWork
<1>4. WorkInv'
    BY DEF TypeOK, WorkInv, RenewInv, NoFence, NoGrant, FinishRenew,
           KeepWork
<1>5. CommitInv'
    BY DEF TypeOK, CommitInv, RenewInv, Fits, NoFence, NoGrant,
           FinishRenew, KeepWork
<1>6. HoldInv'
    BY DEF TypeOK, TimeInv, RenewInv, WorkInv, CommitInv, HoldInv,
           Holds, Usable, Latest, Fits, NoFence, NoGrant, FinishRenew,
           KeepWork
<1>7. CarriedInv'
    BY ZenonT(90) DEF TypeOK, RenewInv, WorkInv, CommitInv, CarriedInv, Carried,
           Fits, NoFence, NoGrant, FinishRenew, KeepWork
<1> QED BY <1>1, <1>2, <1>3, <1>4, <1>5, <1>6, <1>7

LEMMA ExpireStep ==
    ASSUME LeaseInv, NEW p \in Procs, Expire(p)
    PROVE  LeaseInv'
<1> USE NoOwnerAssumption, TimeAssumption DEF LeaseInv
<1>1. TypeOK'
    BY DEF TypeOK, NoFence, NoGrant, NoPlan, Expire, StopWork
<1>2. TimeInv'
    BY DEF TypeOK, TimeInv, RenewInv, WorkInv, Latest, NoFence,
           NoGrant, Expire, StopWork
<1>3. RenewInv'
    BY DEF TypeOK, RenewInv, WorkInv, CommitInv, NoFence, NoGrant,
           Expire, StopWork
<1>4. WorkInv'
    BY DEF TypeOK, WorkInv, RenewInv, NoFence, NoGrant, Expire,
           StopWork
<1>5. CommitInv'
    BY DEF TypeOK, CommitInv, RenewInv, Fits, NoFence, NoGrant,
           Expire, StopWork
<1>6. HoldInv'
    BY DEF TypeOK, TimeInv, RenewInv, WorkInv, CommitInv, HoldInv,
           Holds, Usable, Latest, Fits, NoFence, NoGrant, Expire,
           StopWork
<1>7. CarriedInv'
  <2>1. \A q \in Procs : Carried(q)' \subseteq Carried(q)
    BY DEF TypeOK, RenewInv, WorkInv, Carried, NoFence, NoGrant,
           Expire, StopWork
  <2>2. /\ lease'.gen >= lease.gen
        /\ lease'.gen = lease.gen => lease'.owner \in {lease.owner, NoOwner}
    BY DEF TypeOK, CommitInv, Fits, Expire, StopWork
  <2> QED BY <2>1, <2>2, <1>1, CarriedShrinks
<1> QED BY <1>1, <1>2, <1>3, <1>4, <1>5, <1>6, <1>7

LEMMA DrainedStep ==
    ASSUME LeaseInv, NEW p \in Procs, Drained(p)
    PROVE  LeaseInv'
<1> USE NoOwnerAssumption, TimeAssumption DEF LeaseInv
<1>1. TypeOK'
    BY DEF TypeOK, NoFence, NoGrant, NoPlan, Drained
<1>2. TimeInv'
    BY DEF TypeOK, TimeInv, RenewInv, WorkInv, Latest, NoFence,
           NoGrant, Drained
<1>3. RenewInv'
    BY DEF TypeOK, RenewInv, WorkInv, CommitInv, NoFence, NoGrant,
           Drained
<1>4. WorkInv'
    BY DEF TypeOK, WorkInv, RenewInv, NoFence, NoGrant, Drained
<1>5. CommitInv'
    BY DEF TypeOK, CommitInv, RenewInv, Fits, NoFence, NoGrant,
           Drained
<1>6. HoldInv'
    BY DEF TypeOK, TimeInv, RenewInv, WorkInv, CommitInv, HoldInv,
           Holds, Usable, Latest, Fits, NoFence, NoGrant, Drained
<1>7. CarriedInv'
    BY ZenonT(90) DEF TypeOK, RenewInv, WorkInv, CommitInv, CarriedInv, Carried,
           Fits, NoFence, NoGrant, Drained
<1> QED BY <1>1, <1>2, <1>3, <1>4, <1>5, <1>6, <1>7

LEMMA StopStep ==
    ASSUME LeaseInv, NEW p \in Procs, Stop(p)
    PROVE  LeaseInv'
<1> USE NoOwnerAssumption, TimeAssumption DEF LeaseInv
<1>1. TypeOK'
    BY DEF TypeOK, NoFence, NoGrant, NoPlan, Stop, StopWork
<1>2. TimeInv'
    BY DEF TypeOK, TimeInv, RenewInv, WorkInv, Latest, NoFence,
           NoGrant, Stop, StopWork
<1>3. RenewInv'
    BY DEF TypeOK, RenewInv, WorkInv, CommitInv, NoFence, NoGrant,
           Stop, StopWork
<1>4. WorkInv'
    BY DEF TypeOK, WorkInv, RenewInv, NoFence, NoGrant, Stop, StopWork
<1>5. CommitInv'
    BY DEF TypeOK, CommitInv, RenewInv, Fits, NoFence, NoGrant, Stop,
           StopWork
<1>6. HoldInv'
    BY DEF TypeOK, TimeInv, RenewInv, WorkInv, CommitInv, HoldInv,
           Holds, Usable, Latest, Fits, NoFence, NoGrant, Stop,
           StopWork
<1>7. CarriedInv'
  <2>1. \A q \in Procs : Carried(q)' \subseteq Carried(q)
    BY DEF TypeOK, RenewInv, WorkInv, Carried, NoFence, NoGrant, Stop,
           StopWork
  <2>2. /\ lease'.gen >= lease.gen
        /\ lease'.gen = lease.gen => lease'.owner \in {lease.owner, NoOwner}
    BY DEF TypeOK, CommitInv, Fits, Stop, StopWork
  <2> QED BY <2>1, <2>2, <1>1, CarriedShrinks
<1> QED BY <1>1, <1>2, <1>3, <1>4, <1>5, <1>6, <1>7

LEMMA ReleaseLeaseStep ==
    ASSUME LeaseInv, NEW p \in Procs, ReleaseLease(p)
    PROVE  LeaseInv'
<1> USE NoOwnerAssumption, TimeAssumption DEF LeaseInv
<1> DEFINE v == [owner |-> NoOwner, gen |-> lease.gen, exp |-> 0]
<1>0. /\ lease' = v /\ late' = {}
      /\ lease' \in [owner : Procs \union {NoOwner}, gen : Nat, exp : Int]
      /\ plan' \in [Procs -> [gen : Nat, exp : Int, fresh : BOOLEAN]]
      /\ \A q \in Procs : plan'[q].fresh = FALSE
      /\ \A q \in Procs : q # p => /\ plan'[q].gen = plan[q].gen
                                   /\ plan'[q].exp = plan[q].exp
  <2>1. v \in [owner : Procs \union {NoOwner}, gen : Nat, exp : Int]
      BY DEF TypeOK
  <2>2. WriteLease(p, v)
      BY DEF ReleaseLease
  <2>3. p \in Procs \union {NoOwner}
      OBVIOUS
  <2>4. TypeOK
      OBVIOUS
  <2> HIDE DEF v, LeaseInv
  <2> QED BY ONLY <2>1, <2>2, <2>3, <2>4, WroteLease
<1>1. TypeOK'
    BY <1>0 DEF TypeOK, NoFence, NoGrant, NoPlan, ReleaseLease,
           KeepWork
<1>2. TimeInv'
    BY <1>0 DEF TypeOK, TimeInv, RenewInv, WorkInv, Latest, NoFence,
           NoGrant, ReleaseLease, KeepWork
<1>3. RenewInv'
    BY <1>0, ZenonT(90) DEF TypeOK, RenewInv, WorkInv, CommitInv, NoFence,
           NoGrant, ReleaseLease, KeepWork
<1>4. WorkInv'
    BY <1>0 DEF TypeOK, WorkInv, RenewInv, NoFence, NoGrant,
           ReleaseLease, KeepWork
<1>5. CommitInv'
    BY <1>0 DEF TypeOK, CommitInv, RenewInv, Fits, NoFence, NoGrant,
           ReleaseLease, KeepWork
<1>6. HoldInv'
    BY <1>0 DEF TypeOK, TimeInv, RenewInv, WorkInv, CommitInv,
           HoldInv, Holds, Usable, Latest, Fits, NoFence, NoGrant,
           ReleaseLease, KeepWork
<1>7. CarriedInv'
  <2>1. \A q \in Procs : Carried(q)' \subseteq Carried(q)
    BY <1>0 DEF TypeOK, RenewInv, WorkInv, Carried, NoFence, NoGrant,
           ReleaseLease, KeepWork
  <2>2. /\ lease'.gen >= lease.gen
        /\ lease'.gen = lease.gen => lease'.owner \in {lease.owner, NoOwner}
    BY <1>0 DEF TypeOK, CommitInv, Fits, ReleaseLease, KeepWork
  <2> QED BY <2>1, <2>2, <1>1, CarriedShrinks
<1> QED BY <1>1, <1>2, <1>3, <1>4, <1>5, <1>6, <1>7

LEMMA EndStopStep ==
    ASSUME LeaseInv, NEW p \in Procs, EndStop(p)
    PROVE  LeaseInv'
<1> USE NoOwnerAssumption, TimeAssumption DEF LeaseInv
<1>1. TypeOK'
    BY DEF TypeOK, NoFence, NoGrant, NoPlan, EndStop, KeepWork
<1>2. TimeInv'
    BY DEF TypeOK, TimeInv, RenewInv, WorkInv, Latest, NoFence,
           NoGrant, EndStop, KeepWork
<1>3. RenewInv'
    BY DEF TypeOK, RenewInv, WorkInv, CommitInv, NoFence, NoGrant,
           EndStop, KeepWork
<1>4. WorkInv'
    BY DEF TypeOK, WorkInv, RenewInv, NoFence, NoGrant, EndStop,
           KeepWork
<1>5. CommitInv'
    BY DEF TypeOK, CommitInv, RenewInv, Fits, NoFence, NoGrant,
           EndStop, KeepWork
<1>6. HoldInv'
    BY DEF TypeOK, TimeInv, RenewInv, WorkInv, CommitInv, HoldInv,
           Holds, Usable, Latest, Fits, NoFence, NoGrant, EndStop,
           KeepWork
<1>7. CarriedInv'
  <2>1. \A q \in Procs : Carried(q)' \subseteq Carried(q)
    BY DEF TypeOK, RenewInv, WorkInv, Carried, NoFence, NoGrant,
           EndStop, KeepWork
  <2>2. /\ lease'.gen >= lease.gen
        /\ lease'.gen = lease.gen => lease'.owner \in {lease.owner, NoOwner}
    BY DEF TypeOK, CommitInv, Fits, EndStop, KeepWork
  <2> QED BY <2>1, <2>2, <1>1, CarriedShrinks
<1> QED BY <1>1, <1>2, <1>3, <1>4, <1>5, <1>6, <1>7

LEMMA CrashStep ==
    ASSUME LeaseInv, NEW p \in Procs, Crash(p)
    PROVE  LeaseInv'
<1> USE NoOwnerAssumption, TimeAssumption DEF LeaseInv
<1>1. TypeOK'
    BY DEF TypeOK, NoFence, NoGrant, NoPlan, Crash, EndRenew,
           LeaveCommit
<1>2. TimeInv'
    BY DEF TypeOK, TimeInv, RenewInv, WorkInv, Latest, NoFence,
           NoGrant, Crash, EndRenew, LeaveCommit, NoPlan
<1>3. RenewInv'
    BY DEF TypeOK, RenewInv, WorkInv, CommitInv, NoFence, NoGrant,
           Crash, EndRenew, LeaveCommit, NoPlan
<1>4. WorkInv'
    BY DEF TypeOK, WorkInv, RenewInv, NoFence, NoGrant, Crash,
           EndRenew, LeaveCommit, NoPlan
<1>5. CommitInv'
    BY DEF TypeOK, CommitInv, RenewInv, Fits, NoFence, NoGrant, Crash,
           EndRenew, LeaveCommit, NoPlan
<1>6. HoldInv'
    BY DEF TypeOK, TimeInv, RenewInv, WorkInv, CommitInv, HoldInv,
           Holds, Usable, Latest, Fits, NoFence, NoGrant, Crash,
           EndRenew, LeaveCommit, NoPlan
<1>7. CarriedInv'
  <2>1. \A q \in Procs : Carried(q)' \subseteq Carried(q)
    BY DEF TypeOK, RenewInv, WorkInv, Carried, NoFence, NoGrant,
           Crash, EndRenew, LeaveCommit, NoPlan
  <2>2. /\ lease'.gen >= lease.gen
        /\ lease'.gen = lease.gen => lease'.owner \in {lease.owner, NoOwner}
    BY DEF TypeOK, CommitInv, Fits, Crash, EndRenew, LeaveCommit,
           NoPlan
  <2> QED BY <2>1, <2>2, <1>1, CarriedShrinks
<1> QED BY <1>1, <1>2, <1>3, <1>4, <1>5, <1>6, <1>7

LEMMA LateCommitStep ==
    ASSUME LeaseInv, NEW r \in late, LateCommit(r)
    PROVE  LeaseInv'
<1> USE NoOwnerAssumption, TimeAssumption DEF LeaseInv
<1> DEFINE v == r
<1>0. /\ lease' = v /\ late' = {}
      /\ lease' \in [owner : Procs \union {NoOwner}, gen : Nat, exp : Int]
      /\ plan' \in [Procs -> [gen : Nat, exp : Int, fresh : BOOLEAN]]
      /\ \A q \in Procs : plan'[q].fresh = FALSE
      /\ \A q \in Procs : q # NoOwner => /\ plan'[q].gen = plan[q].gen
                                   /\ plan'[q].exp = plan[q].exp
  <2>1. v \in [owner : Procs \union {NoOwner}, gen : Nat, exp : Int]
      BY DEF TypeOK
  <2>2. WriteLease(NoOwner, v)
      BY DEF LateCommit
  <2>3. NoOwner \in Procs \union {NoOwner}
      OBVIOUS
  <2>4. TypeOK
      OBVIOUS
  <2> HIDE DEF v, LeaseInv
  <2> QED BY ONLY <2>1, <2>2, <2>3, <2>4, WroteLease
<1>1. TypeOK'
    BY <1>0 DEF TypeOK, NoFence, NoGrant, NoPlan, LateCommit, KeepWork
<1>2. TimeInv'
    BY <1>0 DEF TypeOK, TimeInv, RenewInv, WorkInv, Latest, NoFence,
           NoGrant, LateCommit, KeepWork
<1>3. RenewInv'
    BY <1>0, ZenonT(90) DEF TypeOK, RenewInv, WorkInv, CommitInv, NoFence,
           NoGrant, LateCommit, KeepWork
<1>4. WorkInv'
    BY <1>0 DEF TypeOK, WorkInv, RenewInv, NoFence, NoGrant,
           LateCommit, KeepWork
<1>5. CommitInv'
    BY <1>0 DEF TypeOK, CommitInv, RenewInv, Fits, NoFence, NoGrant,
           LateCommit, KeepWork
<1>6. HoldInv'
    BY <1>0 DEF TypeOK, TimeInv, RenewInv, WorkInv, CommitInv,
           HoldInv, Holds, Usable, Latest, Fits, NoFence, NoGrant,
           LateCommit, KeepWork
<1>7. CarriedInv'
  <2>1. \A q \in Procs : Carried(q)' \subseteq Carried(q)
    BY <1>0 DEF TypeOK, RenewInv, WorkInv, Carried, NoFence, NoGrant,
           LateCommit, KeepWork
  <2>2. /\ lease'.gen >= lease.gen
        /\ lease'.gen = lease.gen => lease'.owner \in {lease.owner, NoOwner}
    BY <1>0 DEF TypeOK, CommitInv, Fits, LateCommit, KeepWork
  <2> QED BY <2>1, <2>2, <1>1, CarriedShrinks
<1> QED BY <1>1, <1>2, <1>3, <1>4, <1>5, <1>6, <1>7

LEMMA TickStep ==
    ASSUME LeaseInv, Tick
    PROVE  LeaseInv'
<1> USE NoOwnerAssumption, TimeAssumption DEF LeaseInv
<1>1. TypeOK'
    BY DEF TypeOK, NoFence, NoGrant, NoPlan, Tick
<1>2. TimeInv'
    BY DEF TypeOK, TimeInv, RenewInv, WorkInv, Latest, NoFence,
           NoGrant, Tick
<1>3. RenewInv'
    BY DEF TypeOK, RenewInv, WorkInv, CommitInv, NoFence, NoGrant,
           Tick
<1>4. WorkInv'
    BY DEF TypeOK, WorkInv, RenewInv, NoFence, NoGrant, Tick
<1>5. CommitInv'
    BY DEF TypeOK, CommitInv, RenewInv, Fits, NoFence, NoGrant, Tick
<1>6. HoldInv'
    BY DEF TypeOK, TimeInv, RenewInv, WorkInv, CommitInv, HoldInv,
           Holds, Usable, Latest, Fits, NoFence, NoGrant, Tick
<1>7. CarriedInv'
    BY ZenonT(90) DEF TypeOK, RenewInv, WorkInv, CommitInv, CarriedInv, Carried,
           Fits, NoFence, NoGrant, Tick
<1> QED BY <1>1, <1>2, <1>3, <1>4, <1>5, <1>6, <1>7

-----------------------------------------------------------------------------
\* The invariant and what follows from it.

LEMMA LeaseInitially == LeaseInit => LeaseInv
<1> SUFFICES ASSUME LeaseInit PROVE LeaseInv
    OBVIOUS
<1> USE NoOwnerAssumption, TimeAssumption DEF LeaseInit, NoFence, NoGrant, NoPlan
<1>1. TypeOK
    BY DEF TypeOK
<1>2. TimeInv /\ RenewInv /\ WorkInv /\ HoldInv /\ CommitInv
    BY DEF TimeInv, RenewInv, WorkInv, HoldInv, CommitInv, Usable, Latest
<1>3. \A p \in Procs : Carried(p) = {}
    BY DEF Carried
<1>4. CarriedInv
    BY <1>3 DEF CarriedInv
<1> QED BY <1>1, <1>2, <1>4 DEF LeaseInv

LEMMA LeaseInductive == LeaseInv /\ [LeaseNext]_leaseVars => LeaseInv'
<1> SUFFICES ASSUME LeaseInv, [LeaseNext]_leaseVars PROVE LeaseInv'
    OBVIOUS
<1>1. ASSUME NEW p \in Procs, ProcStep(p) PROVE LeaseInv'
  <2>1. CASE BeginRenew(p) \/ RefuseLease(p) \/ PlanLease(p)
      BY <2>1, BeginRenewStep, RefuseLeaseStep, PlanLeaseStep
  <2>2. CASE CommitLease(p) \/ RetryLease(p) \/ RenewFails(p)
      BY <2>2, CommitLeaseStep, RetryLeaseStep, RenewFailsStep
  <2>3. CASE IgnoreReply(p) \/ LoseLease(p) \/ ExtendFence(p) \/ ExtendThrows(p)
      BY <2>3, IgnoreReplyStep, LoseLeaseStep, ExtendFenceStep, ExtendThrowsStep
  <2>4. CASE AwaitWorkers(p) \/ StartWork(p) \/ StaleRestart(p) \/ FinishRenew(p)
      BY <2>4, AwaitWorkersStep, StartWorkStep, StaleRestartStep, FinishRenewStep
  <2>5. CASE Expire(p) \/ Drained(p) \/ Stop(p) \/ FinishStop(p) \/ Crash(p)
      BY <2>5, ExpireStep, DrainedStep, StopStep, ReleaseLeaseStep, EndStopStep,
         CrashStep DEF FinishStop
  <2> QED BY <1>1, <2>1, <2>2, <2>3, <2>4, <2>5 DEF ProcStep
<1>2. ASSUME NEW r \in late, LateCommit(r) PROVE LeaseInv'
    BY <1>2, LateCommitStep
<1>3. CASE Tick
    BY <1>3, TickStep
<1>4. CASE UNCHANGED leaseVars
  <2> USE <1>4 DEF leaseVars, LeaseInv
  <2>1. TypeOK'
      BY DEF TypeOK
  <2>2. TimeInv'
      BY DEF TimeInv, Latest
  <2>3. RenewInv'
      BY DEF RenewInv
  <2>4. WorkInv'
      BY DEF WorkInv
  <2>5. CommitInv'
      BY DEF CommitInv, Fits
  <2>6. HoldInv'
      BY DEF HoldInv, Usable, Holds, Latest
  <2>7. CarriedInv'
      BY DEF CarriedInv, Carried
  <2> QED BY <2>1, <2>2, <2>3, <2>4, <2>5, <2>6, <2>7
<1> QED BY <1>1, <1>2, <1>3, <1>4 DEF LeaseNext

\* Every reachable state ties each deadline, grant and pending commit to the
\* lease document it came from (renew, workerCoordinator.ts:89-187).
THEOREM LeaseInvariant == LeaseSpec => []LeaseInv
    BY LeaseInitially, LeaseInductive, PTL DEF LeaseSpec

\* While a process may act under its fence, the lease document names it and
\* outlasts the fence by the clock allowance.
THEOREM LeaderHoldsLeaseAlways == LeaseSpec => []LeaderHoldsLease
<1>1. LeaseInv => LeaderHoldsLease
    BY DEF LeaseInv, HoldInv, Holds, LeaderHoldsLease
<1> QED BY <1>1, LeaseInvariant, PTL

\* Two processes never pass their fences' assert() at the same instant.
THEOREM SingleLeaderAlways == LeaseSpec => []SingleLeader
<1>1. LeaseInv => SingleLeader
    BY DEF LeaseInv, HoldInv, Holds, SingleLeader
<1> QED BY <1>1, LeaseInvariant, PTL

\* No generation is ever shared by the fences of two processes.
THEOREM GenerationsNeverSharedAlways == LeaseSpec => []GenerationsNeverShared
<1>1. LeaseInv => GenerationsNeverShared
  <2> SUFFICES ASSUME LeaseInv, NEW p \in Procs, NEW q \in Procs, p # q,
                      fence[p] # NoFence, fence[q] # NoFence
               PROVE  fence[p].gen # fence[q].gen
      BY DEF GenerationsNeverShared
  <2>1. fence[p].gen > 0 /\ fence[p].gen \in Carried(p)
      BY DEF LeaseInv, WorkInv, Carried, TypeOK
  <2>2. fence[q].gen > 0 /\ fence[q].gen \in Carried(q)
      BY DEF LeaseInv, WorkInv, Carried, TypeOK
  <2>3. Carried(p) \cap Carried(q) = {}
      BY DEF LeaseInv, CarriedInv
  <2> QED BY <2>1, <2>2, <2>3
<1> QED BY <1>1, LeaseInvariant, PTL

\* The workers of one acquisition never run beside those of the previous one.
THEOREM OneWorkerSetAlways == LeaseSpec => []OneWorkerSet
<1>1. LeaseInv => OneWorkerSet
    BY DEF LeaseInv, WorkInv, OneWorkerSet
<1> QED BY <1>1, LeaseInvariant, PTL

-----------------------------------------------------------------------------
\* Steps that leave lease and fences alone, and steps that revoke a fence.

LEMMA QuietStep ==
    ASSUME UNCHANGED <<now, lease, fence>>
    PROVE  UNCHANGED Promise!leaderVars
BY DEF Promise!leaderVars, Usable

LEMMA RevokingStep ==
    ASSUME LeaseInv, NEW p \in Procs, UNCHANGED <<now, lease>>,
           fence' = [fence EXCEPT ![p] = NoFence]
    PROVE  Promise!Revoke(p)
<1>1. \A q \in Procs : /\ q # p => fence'[q] = fence[q]
                       /\ fence'[p] = NoFence
    BY DEF LeaseInv, TypeOK
<1>2. [q \in Procs |-> fence'[q].gen] = [[q \in Procs |-> fence[q].gen] EXCEPT ![p] = 0]
  <2>1. ASSUME NEW q \in Procs
        PROVE  fence'[q].gen = [[x \in Procs |-> fence[x].gen] EXCEPT ![p] = 0][q]
      BY <1>1 DEF NoFence
  <2> QED BY <2>1
<1>3. \A q \in Procs : /\ q # p => Usable(q)' = Usable(q)
                       /\ Usable(p)' = FALSE
    BY <1>1 DEF Usable
<1>4. [q \in Procs |-> Usable(q)'] = [[q \in Procs |-> Usable(q)] EXCEPT ![p] = FALSE]
    BY <1>3
<1> QED BY <1>2, <1>4 DEF Promise!Revoke

\* A commit either renews the lease or takes it when no fence is usable.
LEMMA WritingStep ==
    ASSUME LeaseInv, UNCHANGED <<now, fence>>, NEW r, r.owner \in Procs,
           Fits(r), lease'.owner = r.owner, lease'.gen = r.gen
    PROVE  Promise!Take(r.owner) \/ UNCHANGED Promise!leaderVars
<1>1. UNCHANGED <<[q \in Procs |-> fence[q].gen], [q \in Procs |-> Usable(q)]>>
    BY DEF Usable
<1>2. CASE lease.owner = r.owner /\ r.gen = lease.gen
    BY <1>1, <1>2 DEF Promise!leaderVars
<1>3. CASE r.gen = lease.gen + 1 /\ lease.exp - Skew <= now
  <2>1. ASSUME NEW q \in Procs, Usable(q) PROVE FALSE
      BY <1>3, <2>1, TimeAssumption DEF LeaseInv, HoldInv, Holds, Usable, TypeOK
  <2> QED BY <1>1, <1>3, <2>1 DEF Promise!Take
<1> QED BY <1>2, <1>3 DEF Fits

LEMMA LeadershipStep ==
    LeaseInv /\ [LeaseNext]_leaseVars => [Promise!LeaderNext]_(Promise!leaderVars)
<1> SUFFICES ASSUME LeaseInv, [LeaseNext]_leaseVars
             PROVE  [Promise!LeaderNext]_(Promise!leaderVars)
    OBVIOUS
<1>1. ASSUME NEW p \in Procs, ProcStep(p)
      PROVE  Promise!LeaderNext \/ UNCHANGED Promise!leaderVars
  <2>1. CASE \/ BeginRenew(p) \/ RefuseLease(p) \/ PlanLease(p) \/ RetryLease(p)
             \/ IgnoreReply(p) \/ StaleRestart(p) \/ FinishRenew(p) \/ Drained(p)
             \/ EndStop(p)
    <3>1. UNCHANGED <<now, lease, fence>>
        BY <2>1 DEF BeginRenew, RefuseLease, PlanLease, RetryLease, IgnoreReply,
           StaleRestart, FinishRenew, Drained, EndStop, Discard, KeepWork
    <3> QED BY <3>1, QuietStep
  <2>2. CASE CommitLease(p)
    <3> DEFINE r == [owner |-> p, gen |-> plan[p].gen, exp |-> plan[p].exp]
    <3>1. Fits(r) /\ lease' = r /\ UNCHANGED <<now, fence>>
        BY <2>2 DEF LeaseInv, CommitInv, CommitLease, WriteLease, KeepWork
    <3> QED BY <3>1, WritingStep DEF Promise!LeaderNext
  <2>3. CASE \/ LoseLease(p) \/ ExtendThrows(p) \/ AwaitWorkers(p)
             \/ RenewFails(p) \/ Expire(p) \/ Stop(p) \/ Crash(p)
    <3>1. UNCHANGED <<now, lease>> /\ fence' = [fence EXCEPT ![p] = NoFence]
        BY <2>3 DEF LoseLease, ExtendThrows, AwaitWorkers, RenewFails, Expire,
           Stop, Crash, GiveUp, StopWork
    <3> QED BY <3>1, RevokingStep DEF Promise!LeaderNext
  <2>4. CASE ExtendFence(p)
    <3>1. \A q \in Procs : fence'[q].gen = fence[q].gen /\ Usable(q)' = Usable(q)
      <4>1. PICK w \in WallClock :
                /\ Deadline(p, w) > now
                /\ fence' = [fence EXCEPT ![p] = [@ EXCEPT !.deadline = Deadline(p, w)]]
          BY <2>4 DEF ExtendFence
      <4>2. /\ fence'[p].gen = fence[p].gen /\ fence'[p].deadline = Deadline(p, w)
            /\ \A q \in Procs : q # p => fence'[q] = fence[q]
          BY <4>1 DEF LeaseInv, TypeOK
      <4>3. Usable(p) /\ fence[p].gen > 0 /\ now' = now
          BY <2>4 DEF ExtendFence, Usable, LeaseInv, WorkInv
      <4>4. Usable(p)'
          BY <4>1, <4>2, <4>3 DEF Usable, NoFence
      <4> QED BY <4>2, <4>3, <4>4 DEF Usable
    <3> QED BY <2>4, <3>1 DEF ExtendFence, Promise!leaderVars
  <2>5. CASE StartWork(p)
    <3>1. /\ fence[p] = NoFence /\ lease.owner = p /\ grant[p].gen = lease.gen
          /\ grant[p].gen > 0
        BY <2>5, TimeAssumption DEF StartWork, LeaseInv, RenewInv, HoldInv, Holds,
           TimeInv, Latest, TypeOK
    <3>2. /\ fence'[p] = [gen |-> grant[p].gen, deadline |-> due[p]]
          /\ \A q \in Procs : q # p => fence'[q] = fence[q]
          /\ UNCHANGED <<now, lease>> /\ now < due[p]
        BY <2>5 DEF StartWork, LeaseInv, TypeOK
    <3>3. Usable(p)' /\ \A q \in Procs : q # p => Usable(q)' = Usable(q)
        BY <3>1, <3>2 DEF Usable, NoFence
    <3>4. [q \in Procs |-> fence'[q].gen]
            = [[q \in Procs |-> fence[q].gen] EXCEPT ![p] = lease.gen]
      <4>1. ASSUME NEW q \in Procs
            PROVE  fence'[q].gen = [[x \in Procs |-> fence[x].gen] EXCEPT ![p] = lease.gen][q]
          BY <3>1, <3>2
      <4> QED BY <4>1
    <3>5. [q \in Procs |-> Usable(q)'] = [[q \in Procs |-> Usable(q)] EXCEPT ![p] = TRUE]
      <4>1. ASSUME NEW q \in Procs
            PROVE  Usable(q)' = [[x \in Procs |-> Usable(x)] EXCEPT ![p] = TRUE][q]
          BY <3>3 DEF Usable
      <4> QED BY <4>1
    <3>6. Promise!Admit(p)
        BY <3>1, <3>2, <3>4, <3>5 DEF Promise!Admit, NoFence
    <3> QED BY <3>6 DEF Promise!LeaderNext
  <2>6. CASE ReleaseLease(p)
    <3>1. /\ lease.owner = p /\ lease'.owner = NoOwner /\ lease'.gen = lease.gen
          /\ UNCHANGED <<now, fence>> /\ fence[p].gen = 0
        BY <2>6 DEF ReleaseLease, WriteLease, KeepWork, LeaseInv, WorkInv, TypeOK,
           NoFence
    <3>2. Promise!Release(p)
        BY <3>1 DEF Promise!Release, Usable
    <3> QED BY <3>2 DEF Promise!LeaderNext
  <2> QED BY <1>1, <2>1, <2>2, <2>3, <2>4, <2>5, <2>6 DEF ProcStep, FinishStop
<1>2. ASSUME NEW r \in late, LateCommit(r)
      PROVE  Promise!LeaderNext \/ UNCHANGED Promise!leaderVars
  <2>1. r.owner \in Procs /\ Fits(r) /\ lease' = r /\ UNCHANGED <<now, fence>>
      BY <1>2 DEF LateCommit, WriteLease, KeepWork, LeaseInv, CommitInv, TypeOK
  <2> QED BY <2>1, WritingStep DEF Promise!LeaderNext
<1>3. ASSUME Tick PROVE Promise!LeaderNext
  <2> DEFINE ps == {q \in Procs : ~Usable(q)'}
  <2>1. \A q \in Procs : Usable(q)' = (Usable(q) /\ q \notin ps)
      BY <1>3 DEF Tick, Usable, LeaseInv, TypeOK
  <2>2. [q \in Procs |-> Usable(q)'] = [q \in Procs |-> Usable(q) /\ q \notin ps]
      BY <2>1
  <2>3. Promise!Lapse(ps)
      BY <1>3, <2>2 DEF Promise!Lapse, Tick
  <2> QED BY <2>3 DEF Promise!LeaderNext
<1>4. CASE UNCHANGED leaseVars
    BY <1>4, QuietStep DEF leaseVars
<1> QED BY <1>1, <1>2, <1>3, <1>4 DEF LeaseNext

\* The coordinator implements the election that the fenced writes rely on.
THEOREM LeaseImplementsLeadership == LeaseSpec => ImplementsLeadership
<1>1. ASSUME LeaseInit PROVE Promise!LeaderInit
  <2>1. \A p \in Procs : fence[p].gen = 0 /\ Usable(p) = FALSE
      BY <1>1 DEF LeaseInit, NoFence, Usable
  <2> QED BY <1>1, <2>1 DEF LeaseInit, Promise!LeaderInit
<1> QED BY <1>1, LeadershipStep, LeaseInvariant, PTL
        DEF LeaseSpec, ImplementsLeadership, Promise!LeaderSpec

\* A fence that ran out is never given a new deadline.
THEOREM NeverRevivedAlways == LeaseSpec => NeverRevived
<1> DEFINE Kept == \A p \in Procs :
        fence[p] # NoFence /\ ~Usable(p) /\ fence'[p] # NoFence => fence'[p] = fence[p]
<1>1. LeaseInv /\ [LeaseNext]_leaseVars => [Kept]_leaseVars
  <2> SUFFICES ASSUME LeaseInv, LeaseNext, NEW q \in Procs,
                      fence[q] # NoFence, ~Usable(q), fence'[q] # NoFence
               PROVE  fence'[q] = fence[q]
      OBVIOUS
  <2>1. ASSUME NEW p \in Procs, ProcStep(p) PROVE fence'[q] = fence[q]
    <3>1. CASE ExtendFence(p) \/ StartWork(p)
        BY <3>1 DEF ExtendFence, StartWork, LeaseInv, WorkInv, TypeOK
    <3>2. CASE ~(ExtendFence(p) \/ StartWork(p))
        BY <2>1, <3>2 DEF ProcStep, BeginRenew, RefuseLease, PlanLease, CommitLease,
           RetryLease, RenewFails, IgnoreReply, LoseLease, ExtendThrows, AwaitWorkers,
           StaleRestart, FinishRenew, Expire, Drained, Stop, FinishStop, ReleaseLease,
           EndStop, Crash, GiveUp, Discard, StopWork, KeepWork, LeaseInv, TypeOK
    <3> QED BY <3>1, <3>2
  <2>2. CASE Tick \/ \E r \in late : LateCommit(r)
      BY <2>2 DEF Tick, LateCommit, KeepWork
  <2> QED BY <2>1, <2>2 DEF LeaseNext
<1> QED BY <1>1, LeaseInvariant, PTL DEF LeaseSpec, NeverRevived

-----------------------------------------------------------------------------
\* The public views of LiveProjection.

Fields == {"alive", "registered", "prints", "listed", "pending", "task", "starting", "published", "told",
           "replay", "again", "floor", "found"}

\* What a worker does for a route it does after the route is in the catalogue.
WorkerFine(g) ==
    /\ Fields \subseteq DOMAIN worker[g]
    /\ {"at", "key", "value"} \subseteq DOMAIN worker[g].task
    /\ worker[g].registered => catalog.there
    /\ worker[g].task.at \in {"read", "write", "publish"} => catalog.there
    /\ worker[g].replay = "off" => ~worker[g].again
    /\ g > elected => worker[g].task.at = "idle" /\ worker[g].replay = "off"

\* The view shows node k as it is, and no deposed worker can still change it.
Current(k) == view.stamp = elected /\ view.buses[k] = source[k]
Safe(k) ==
    /\ view.buses[k] = source[k]
    /\ view.stamp = elected \/ \A g \in Elected : g < elected => worker[g].task.at # "write"

\* The recovery has not come to what would find node k: a live one is found
\* among the live nodes, one that is gone in the view that still shows it.
Ahead(w, k) ==
    \/ w.replay = "live" \/ w.again
    \/ source[k] = Gone /\ w.replay \in {"routes", "restore", "list"}

\* A node that nothing has changed is shown, queued, or still to be found.
Shows(w, k) ==
    /\ w.task.at = "write" /\ w.task.key = k => w.task.value = source[k]
    /\ w.task.at = "publish" /\ w.task.key = k => Current(k)
    /\ k \in w.published => Current(k)
    /\ w.replay \in {"list", "empty"} => view.stamp = elected
    /\ w.told # "ready" => Safe(k) \/ k \in w.starting \/ Ahead(w, k)
KeyFine(k) == Shows(worker[elected], k)

StoresFine ==
    /\ elected \in Elected /\ DOMAIN worker = Elected
    /\ worker[elected].alive
    /\ {"there", "stamp"} \subseteq DOMAIN catalog
    /\ catalog.stamp # 0 => catalog.there
    /\ {"there", "buses", "revision", "stamp"} \subseteq DOMAIN view /\ DOMAIN view.buses = Nodes
    /\ view.stamp \in 0 .. elected
    /\ steady \subseteq Nodes
    /\ ViewIsListed

ViewInv == StoresFine /\ (\A g \in Elected : WorkerFine(g)) /\ (\A k \in steady : KeyFine(k))

\* The same fields but for those named.
But(v, w, changed) == DOMAIN w \subseteq DOMAIN v /\ \A f \in Fields \ changed : v[f] = w[f]

LEMMA QueueKeeps ==
    ASSUME NEW w, NEW keys, Fields \subseteq DOMAIN w
    PROVE  LET v == Scheduled(w, keys) IN
           /\ But(v, w, {"pending", "starting"})
           /\ v.starting = IF w.told = "ready" THEN w.starting ELSE w.starting \union (keys \ w.published)
BY DEF Scheduled, But, Fields

LEMMA RequestKeeps ==
    ASSUME NEW w, Fields \subseteq DOMAIN w
    PROVE  LET v == Requested(w) IN
           /\ But(v, w, {"replay", "again"})
           /\ w.replay = "off" => v.replay = "live" /\ v.again = w.again
           /\ w.replay # "off" => v.replay = w.replay /\ v.again = TRUE
BY DEF Requested, But, Fields

LEMMA EndKeeps ==
    ASSUME NEW w, Fields \subseteq DOMAIN w
    PROVE  LET v == EndsReplay(w) IN
           /\ But(v, w, {"replay", "again", "found", "floor"})
           /\ v.replay = IF w.again THEN "live" ELSE "off"
           /\ v.again = FALSE
BY DEF EndsReplay, But, Fields

LEMMA FreshFine ==
    ASSUME NEW nodes
    PROVE  LET v == Started(nodes) IN
           /\ Fields \subseteq DOMAIN v /\ {"at", "key", "value"} \subseteq DOMAIN v.task
           /\ v.alive = TRUE /\ v.registered = FALSE /\ v.task.at = "idle" /\ v.published = {}
           /\ v.replay = "live" /\ v.again = FALSE
<1>1. Fields \subseteq DOMAIN Fresh
  BY DEF Fresh, Fields
<1> DEFINE u == Scheduled(Fresh, Available(nodes))
<1>2. But(u, Fresh, {"pending", "starting"})
  BY <1>1, QueueKeeps
<1> HIDE DEF u
<1>3. But(Started(nodes), u, {"prints"})
  BY <1>1, <1>2 DEF Started, u, But, Fields
<1> QED BY <1>1, <1>2, <1>3 DEF But, Fields, Fresh, NoTask

LEMMA OffFine ==
    /\ Fields \subseteq DOMAIN Off /\ {"at", "key", "value"} \subseteq DOMAIN Off.task
    /\ Off.alive = FALSE /\ Off.registered = FALSE /\ Off.task = NoTask
    /\ Off.replay = "off" /\ Off.again = FALSE /\ NoTask.at = "idle"
BY DEF Off, Fresh, Fields, NoTask

LEMMA ViewStart ==
    ASSUME ProjectionInit PROVE ViewInv
<1> USE ProjectionAssumption DEF ProjectionInit, Elected
<1>1. worker[1] = Started(source) /\ \A g \in Elected : g # 1 => worker[g] = Off
  OBVIOUS
<1>2. /\ Fields \subseteq DOMAIN worker[1] /\ {"at", "key", "value"} \subseteq DOMAIN worker[1].task
      /\ worker[1].alive = TRUE /\ worker[1].registered = FALSE /\ worker[1].task.at = "idle"
      /\ worker[1].published = {} /\ worker[1].replay = "live" /\ worker[1].again = FALSE
  BY <1>1, FreshFine
<1>3. Available(view.buses) = {}
  BY DEF Available, NoView, NoBuses
<1>4. ViewIsListed
  BY <1>3 DEF ViewIsListed
<1>5. StoresFine
  BY <1>2, <1>4 DEF StoresFine, NoView, NoBuses, NoEntry
<1>6. \A g \in Elected : WorkerFine(g)
  <2>1. WorkerFine(1)
    BY <1>2 DEF WorkerFine
  <2>2. ASSUME NEW g \in Elected, g # 1 PROVE WorkerFine(g)
    BY <1>1, <2>2, OffFine DEF WorkerFine
  <2> QED BY <2>1, <2>2
<1>7. \A k \in steady : KeyFine(k)
  BY <1>2 DEF KeyFine, Shows, Ahead
<1> QED BY <1>5, <1>6, <1>7 DEF ViewInv

\* One worker takes a step: the others are as they were.
LEMMA OthersFine ==
    ASSUME ViewInv, NEW g \in Elected, NEW W, worker' = [worker EXCEPT ![g] = W], elected' = elected,
           catalog.there => catalog'.there
    PROVE  /\ worker'[g] = W /\ DOMAIN worker' = Elected
           /\ \A h \in Elected : h # g => worker'[h] = worker[h] /\ WorkerFine(h)'
BY DEF ViewInv, StoresFine, WorkerFine

\* A deposed worker ends with the transaction it was in.
LEMMA DeposedKeeps ==
    ASSUME ViewInv, NEW g \in Elected, g # elected, worker' = [worker EXCEPT ![g] = Off],
           UNCHANGED <<elected, source, steady>>, catalog.there => catalog'.there,
           StoresFine',
           view.stamp = elected => view' = view,
           worker[g].task.at # "write" => view'.buses = view.buses
    PROVE  ViewInv'
<1>1. /\ worker'[g] = Off /\ elected \in Elected /\ g \in Elected
      /\ \A h \in Elected : h # g => worker'[h] = worker[h] /\ WorkerFine(h)'
  BY OthersFine, Zenon DEF ViewInv, StoresFine
<1>2. WorkerFine(g)'
  BY <1>1, OffFine DEF WorkerFine
<1>3. ASSUME NEW k \in steady PROVE KeyFine(k)'
  <2>1. KeyFine(k) /\ worker'[elected] = worker[elected]
    BY <1>1 DEF ViewInv
  <2>2. Current(k) => Current(k)'
    BY DEF Current
  <2>3. Safe(k) => Safe(k)'
    <3>1. CASE view.stamp = elected
      BY <3>1 DEF Safe
    <3>2. CASE view.stamp # elected /\ Safe(k)
      <4>1. \A h \in Elected : h < elected => worker[h].task.at # "write"
        BY <3>2 DEF Safe
      <4>2. worker[g].task.at # "write"
        <5>1. g > elected => worker[g].task.at = "idle"
          BY DEF ViewInv, WorkerFine
        <5> QED BY <4>1, <5>1, ProjectionAssumption DEF ViewInv, StoresFine, Elected
      <4>3. \A h \in Elected : h < elected => worker'[h].task.at # "write"
        BY <1>1, <4>1, OffFine
      <4> QED BY <3>2, <4>2, <4>3 DEF Safe
    <3> QED BY <3>1, <3>2
  <2>4. Ahead(worker[elected], k) => Ahead(worker[elected], k)'
    BY <2>1 DEF Ahead
  <2>5. (view.stamp = elected)' <=> view'.stamp = elected
    OBVIOUS
  <2> QED BY <2>1, <2>2, <2>3, <2>4 DEF KeyFine, Shows
<1> QED BY <1>1, <1>2, <1>3, Zenon DEF ViewInv

\* What the newest worker may do between two writes of the view.
LEMMA LeaderKeeps ==
    ASSUME ViewInv, NEW W, worker' = [worker EXCEPT ![elected] = W],
           UNCHANGED <<elected, source, steady>>, catalog.there => catalog'.there,
           StoresFine', WorkerFine(elected)',
           \A k \in steady : KeyFine(k)'
    PROVE  ViewInv'
<1>1. elected \in Elected
  BY DEF ViewInv, StoresFine
<1>2. \A h \in Elected : h # elected => WorkerFine(h)'
  BY <1>1, OthersFine
<1> QED BY <1>1, <1>2, Zenon DEF ViewInv

LEMMA ElectKeeps ==
    ASSUME ViewInv, Elect PROVE ViewInv'
<1> USE ProjectionAssumption
<1>1. /\ elected \in Elected /\ elected' = elected + 1 /\ elected' \in Elected /\ elected' # elected
      /\ worker' = [worker EXCEPT ![elected] = Deposed(@), ![elected'] = Started(source)]
      /\ DOMAIN worker = Elected /\ steady' = Nodes
      /\ UNCHANGED <<source, view, catalog>>
  BY DEF Elect, ViewInv, StoresFine, Elected
<1>2. /\ worker'[elected] = Deposed(worker[elected]) /\ worker'[elected'] = Started(source)
      /\ DOMAIN worker' = Elected
      /\ \A h \in Elected : h # elected /\ h # elected' => worker'[h] = worker[h]
  BY <1>1
<1>3. /\ Fields \subseteq DOMAIN worker'[elected'] /\ {"at", "key", "value"} \subseteq DOMAIN worker'[elected'].task
      /\ worker'[elected'].alive = TRUE /\ worker'[elected'].registered = FALSE
      /\ worker'[elected'].task.at = "idle" /\ worker'[elected'].published = {}
      /\ worker'[elected'].replay = "live" /\ worker'[elected'].again = FALSE
  BY <1>2, FreshFine
<1>4. StoresFine'
  BY <1>1, <1>2, <1>3 DEF ViewInv, StoresFine, Elected, ViewIsListed, Available
<1>5. ASSUME NEW h \in Elected, h = elected PROVE WorkerFine(h)'
  <2> DEFINE w == worker[elected]
  <2>1. /\ Fields \subseteq DOMAIN Deposed(w)
        /\ Deposed(w).task = (IF w.task.at = "read" THEN NoTask ELSE w.task)
        /\ Deposed(w).registered = FALSE /\ Deposed(w).again = FALSE
    BY OffFine DEF Deposed, Fields
  <2>2. {"at", "key", "value"} \subseteq DOMAIN NoTask /\ NoTask.at = "idle"
    BY DEF NoTask
  <2>3. WorkerFine(elected)
    BY <1>1 DEF ViewInv
  <2>4. ~(elected > elected')
    BY <1>1 DEF Elected
  <2> HIDE DEF w
  <2>5. PICK d : d = worker'[elected]
    OBVIOUS
  <2>6. /\ Fields \subseteq DOMAIN d /\ {"at", "key", "value"} \subseteq DOMAIN d.task
        /\ d.registered = FALSE /\ d.again = FALSE
        /\ d.task.at \in {"read", "write", "publish"} => catalog.there
    BY <1>2, <2>1, <2>2, <2>3, <2>5 DEF WorkerFine, w
  <2> QED BY <1>1, <1>5, <2>4, <2>5, <2>6 DEF WorkerFine
<1>6. ASSUME NEW h \in Elected, h = elected' PROVE WorkerFine(h)'
  <2>1. ~(elected' > elected')
    BY <1>1 DEF Elected
  <2> QED BY <1>3, <1>6, <2>1 DEF WorkerFine
<1>7. ASSUME NEW h \in Elected, h # elected, h # elected' PROVE WorkerFine(h)'
  <2>1. WorkerFine(h) /\ worker'[h] = worker[h]
    BY <1>2, <1>7 DEF ViewInv
  <2>2. h > elected' => h > elected
    BY <1>1 DEF Elected
  <2> QED BY <1>1, <2>1, <2>2 DEF WorkerFine
<1>8. ASSUME NEW k \in steady' PROVE KeyFine(k)'
  BY <1>3 DEF KeyFine, Shows, Ahead
<1> QED BY <1>1, <1>4, <1>5, <1>6, <1>7, <1>8, Zenon DEF ViewInv

\* The catalogue forgets no route.
CatalogKept ==
    /\ {"there", "stamp"} \subseteq DOMAIN catalog'
    /\ catalog'.stamp # 0 => catalog'.there
    /\ catalog.there => catalog'.there

LEMMA SameCatalog == ASSUME StoresFine, UNCHANGED catalog PROVE CatalogKept
BY DEF StoresFine, CatalogKept

\* The newest worker goes on and the view stays as it is.
LEMMA LeaderStep ==
    ASSUME ViewInv, NEW W, worker' = [worker EXCEPT ![elected] = W],
           UNCHANGED <<elected, view>>, CatalogKept, steady' \subseteq steady,
           \A k \in steady' : source'[k] = source[k],
           Fields \subseteq DOMAIN W, {"at", "key", "value"} \subseteq DOMAIN W.task, W.alive,
           W.registered \/ W.task.at \in {"read", "write", "publish"} => catalog'.there,
           W.replay = "off" => ~W.again,
           \A k \in steady' : Shows(W, k)
    PROVE  ViewInv'
<1>1. /\ elected \in Elected /\ worker'[elected] = W /\ DOMAIN worker' = Elected
      /\ \A h \in Elected : h # elected => worker'[h] = worker[h] /\ WorkerFine(h)'
  <2>1. elected \in Elected
    BY DEF ViewInv, StoresFine
  <2> QED BY <2>1, OthersFine DEF CatalogKept
<1>2. StoresFine'
  BY <1>1 DEF ViewInv, StoresFine, ViewIsListed, Available, CatalogKept
<1>3. \A h \in Elected : h = elected => WorkerFine(h)'
  <2>1. ~(elected > elected)
    BY <1>1, ProjectionAssumption DEF Elected
  <2> QED BY <1>1, <2>1 DEF WorkerFine
<1>4. ASSUME NEW k \in steady' PROVE KeyFine(k)'
  <2>1. (Current(k) => Current(k)') /\ (Safe(k) => Safe(k)')
    <3>1. \A h \in Elected : h < elected => worker'[h] = worker[h]
      BY <1>1, ProjectionAssumption DEF Elected
    <3> QED BY <3>1 DEF Current, Safe
  <2>2. Shows(W, k) /\ source'[k] = source[k]
    OBVIOUS
  <2>3. Shows(W, k)'
    BY <2>1, <2>2 DEF Shows, Ahead
  <2> QED BY <1>1, <2>3 DEF KeyFine
<1> QED BY <1>1, <1>2, <1>3, <1>4, Zenon DEF ViewInv

\* What is known of the newest worker.
LEMMA Leading ==
    ASSUME ViewInv, NEW g \in Elected, Leads(g)
    PROVE  /\ g = elected /\ StoresFine /\ WorkerFine(g) /\ worker[g].alive
           /\ \A k \in steady : k \in Nodes /\ Shows(worker[g], k)
BY DEF ViewInv, Leads, StoresFine, KeyFine

LEMMA MoveKeeps ==
    ASSUME ViewInv, NEW k \in Nodes, Move(k) PROVE ViewInv'
<1> DEFINE w == worker[elected]
           W == Heard(w, k, source'[k])
<1>1. /\ worker' = [worker EXCEPT ![elected] = W] /\ steady' = steady \ {k}
      /\ \A j \in steady' : source'[j] = source[j]
      /\ UNCHANGED <<elected, view, catalog>>
  BY DEF Move, ViewInv, StoresFine
<1>2. StoresFine /\ WorkerFine(elected) /\ \A j \in steady : Shows(w, j)
  BY DEF ViewInv, StoresFine, KeyFine
<1>3. Fields \subseteq DOMAIN w
  BY <1>2 DEF WorkerFine
<1> HIDE DEF w
<1>4. But(W, w, {"pending", "starting", "prints"}) /\ w.starting \subseteq W.starting
  <2>1. ASSUME NEW v, But(v, w, {"prints"}) PROVE
          But(Scheduled(v, {k}), w, {"pending", "starting", "prints"}) /\ w.starting \subseteq Scheduled(v, {k}).starting
    <3>1. Fields \subseteq DOMAIN v
      BY <1>3, <2>1 DEF But
    <3>2. PICK u : u = Scheduled(v, {k})
      OBVIOUS
    <3>3. /\ But(u, v, {"pending", "starting"})
          /\ u.starting = IF v.told = "ready" THEN v.starting ELSE v.starting \union ({k} \ v.published)
      BY <3>1, <3>2, QueueKeeps
    <3>4. But(u, w, {"pending", "starting", "prints"})
      BY <1>3, <2>1, <3>1, <3>3, Zenon DEF But
    <3>5. v.starting = w.starting
      BY <2>1 DEF But, Fields
    <3>6. w.starting \subseteq u.starting
      BY <3>3, <3>5
    <3> QED BY <3>2, <3>4, <3>6
  <2>2. ASSUME NEW x PROVE But([w EXCEPT !.prints[k] = x], w, {"prints"})
    BY <1>3 DEF But, Fields
  <2>3. But(w, w, {"pending", "starting", "prints"})
    BY DEF But
  <2> QED BY <2>1, <2>2, <2>3 DEF Heard
<1> HIDE DEF W
<1>5. /\ Fields \subseteq DOMAIN W /\ W.alive = w.alive /\ W.registered = w.registered /\ W.task = w.task
      /\ W.replay = w.replay /\ W.again = w.again /\ W.told = w.told /\ W.published = w.published
  BY <1>3, <1>4 DEF But, Fields
<1>6. \A j \in steady' : Shows(W, j)
  BY <1>1, <1>2, <1>4, <1>5 DEF Shows, Ahead
<1> QED BY <1>1, <1>2, <1>5, <1>6, LeaderStep, SameCatalog DEF StoresFine, WorkerFine, w

LEMMA RecoverKeeps ==
    ASSUME ViewInv, NEW g \in Elected, Recover(g) PROVE ViewInv'
<1> DEFINE w == worker[g]
           W == Requested(w)
<1>1. worker' = [worker EXCEPT ![g] = W] /\ UNCHANGED <<elected, source, steady, view, catalog>>
  BY DEF Recover
<1>2. Leads(g) /\ w.replay = "off"
  BY DEF Recover
<1>3. /\ g = elected /\ StoresFine /\ WorkerFine(g) /\ w.alive /\ \A k \in steady : Shows(w, k)
  BY <1>2, Leading
<1>4. Fields \subseteq DOMAIN w
  BY <1>3 DEF WorkerFine
<1>5. But(W, w, {"replay", "again"}) /\ W.replay = "live"
  BY <1>2, <1>4, RequestKeeps
<1> HIDE DEF W
<1>6. /\ Fields \subseteq DOMAIN W /\ W.alive = w.alive /\ W.registered = w.registered /\ W.task = w.task
      /\ W.told = w.told /\ W.published = w.published /\ W.starting = w.starting
  BY <1>4, <1>5 DEF But, Fields
<1>7. \A k \in steady' : Shows(W, k)
  BY <1>1, <1>3, <1>5, <1>6 DEF Shows, Ahead
<1> QED BY <1>1, <1>3, <1>5, <1>6, <1>7, LeaderStep, SameCatalog DEF WorkerFine

LEMMA BeginKeeps ==
    ASSUME ViewInv, NEW g \in Elected, NEW key \in Nodes, Begin(g, key) PROVE ViewInv'
<1> DEFINE w == worker[g]
           W == [w EXCEPT !.pending = @ \ {key}, !.task = [NoTask EXCEPT !.at = FirstStep(w), !.key = key]]
<1>1. worker' = [worker EXCEPT ![g] = W] /\ UNCHANGED <<elected, source, steady, view, catalog>>
  BY DEF Begin
<1>2. Leads(g)
  BY DEF Begin
<1>3. /\ g = elected /\ StoresFine /\ WorkerFine(g) /\ w.alive /\ \A k \in steady : Shows(w, k)
  BY <1>2, Leading
<1>4. Fields \subseteq DOMAIN w
  BY <1>3 DEF WorkerFine
<1>5. But(W, w, {"pending", "task"})
  BY <1>4 DEF But, Fields
<1>6. /\ {"at", "key", "value"} \subseteq DOMAIN W.task /\ W.task.at \in {"read", "register"}
      /\ W.task.at = "read" => w.registered
  BY <1>4 DEF FirstStep, NoTask, Fields
<1> HIDE DEF W
<1>7. /\ Fields \subseteq DOMAIN W /\ W.alive = w.alive /\ W.registered = w.registered
      /\ W.replay = w.replay /\ W.again = w.again
      /\ W.told = w.told /\ W.published = w.published /\ W.starting = w.starting
  BY <1>4, <1>5 DEF But, Fields
<1>8. \A k \in steady' : Shows(W, k)
  BY <1>1, <1>3, <1>6, <1>7 DEF Shows, Ahead
<1> QED BY <1>1, <1>3, <1>6, <1>7, <1>8, LeaderStep, SameCatalog DEF WorkerFine

LEMMA TellKeeps ==
    ASSUME ViewInv, NEW g \in Elected, NEW state \in {"ready", "not ready"}, Tell(g, state) PROVE ViewInv'
<1> DEFINE w == worker[g]
           W == [w EXCEPT !.told = state]
<1>1. worker' = [worker EXCEPT ![g] = W] /\ UNCHANGED <<elected, source, steady, view, catalog>>
  BY DEF Tell
<1>2. Leads(g) /\ w.told \in {"not ready", "nothing"}
  BY DEF Tell
<1>3. /\ g = elected /\ StoresFine /\ WorkerFine(g) /\ w.alive /\ \A k \in steady : Shows(w, k)
  BY <1>2, Leading
<1>4. Fields \subseteq DOMAIN w
  BY <1>3 DEF WorkerFine
<1>5. But(W, w, {"told"})
  BY <1>4 DEF But, Fields
<1> HIDE DEF W
<1>7. /\ Fields \subseteq DOMAIN W /\ W.alive = w.alive /\ W.registered = w.registered /\ W.task = w.task
      /\ W.replay = w.replay /\ W.again = w.again /\ W.published = w.published /\ W.starting = w.starting
  BY <1>4, <1>5 DEF But, Fields
<1>8. \A k \in steady' : Shows(W, k)
  BY <1>1, <1>2, <1>3, <1>7 DEF Shows, Ahead
<1> QED BY <1>1, <1>3, <1>7, <1>8, LeaderStep, SameCatalog DEF WorkerFine

LEMMA ReadPageKeeps ==
    ASSUME ViewInv, NEW g \in Elected, ReadPage(g) PROVE ViewInv'
<1> DEFINE w == worker[g]
           W == PageRead(w)
<1>1. worker' = [worker EXCEPT ![g] = W] /\ UNCHANGED <<elected, source, steady, view, catalog>>
  BY DEF ReadPage
<1>2. Leads(g) /\ w.replay \in {"live", "routes", "list"}
  BY DEF ReadPage
<1>3. /\ g = elected /\ StoresFine /\ WorkerFine(g) /\ w.alive /\ \A k \in steady : k \in Nodes /\ Shows(w, k)
  BY <1>2, Leading
<1>4. Fields \subseteq DOMAIN w /\ {"at", "key", "value"} \subseteq DOMAIN w.task
  BY <1>3 DEF WorkerFine
<1> HIDE DEF w, W
<1>a. SUFFICES
        /\ But(W, w, {"pending", "starting", "replay", "again", "floor", "found"})
        /\ W.replay = "off" => ~W.again
        /\ \A k \in steady : Shows(W, k)
  <2>1. /\ Fields \subseteq DOMAIN W /\ W.alive = w.alive /\ W.registered = w.registered /\ W.task = w.task
    BY <1>4, <1>a DEF But, Fields
  <2> QED BY <1>1, <1>3, <1>4, <1>a, <2>1, LeaderStep, SameCatalog DEF WorkerFine, w
<1>5. ASSUME NEW v, But(v, w, {"pending", "starting", "replay", "again", "floor", "found"})
      PROVE  /\ Fields \subseteq DOMAIN v /\ v.task = w.task /\ v.told = w.told /\ v.published = w.published
  BY <1>4, <1>5 DEF But, Fields
<1>6. ASSUME NEW v, Fields \subseteq DOMAIN v PROVE
        /\ But(EndsReplay(v), v, {"replay", "again", "found", "floor"})
        /\ EndsReplay(v).starting = v.starting
        /\ EndsReplay(v).replay = IF v.again THEN "live" ELSE "off"
        /\ EndsReplay(v).again = FALSE
  BY <1>6, EndKeeps DEF But, Fields
<1>7. CASE w.replay = "live"
  <2> DEFINE u == Scheduled(w, Available(source))
  <2>1. W = [u EXCEPT !.replay = "routes"]
    BY <1>7 DEF W, PageRead
  <2>2. /\ But(u, w, {"pending", "starting"})
        /\ u.starting = IF w.told = "ready" THEN w.starting
                        ELSE w.starting \union (Available(source) \ w.published)
    BY <1>4, QueueKeeps
  <2> HIDE DEF u
  <2>3. But(W, w, {"pending", "starting", "replay"}) /\ W.starting = u.starting /\ W.replay = "routes"
    BY <1>4, <2>1, <2>2 DEF But, Fields
  <2>4. But(W, w, {"pending", "starting", "replay", "again", "floor", "found"})
    BY <2>3 DEF But, Fields
  <2>5. ASSUME NEW k \in steady PROVE Shows(W, k)
    <3>1. Shows(w, k) /\ k \in Nodes
      BY <1>3
    <3>2. W.task = w.task /\ W.told = w.told /\ W.published = w.published
      BY <1>5, <2>4
    <3>3. ASSUME W.told # "ready", source[k] # Gone PROVE Safe(k) \/ k \in W.starting
      <4>1. k \in w.published => Safe(k)
        BY <3>1 DEF Shows, Current, Safe
      <4> QED BY <2>2, <2>3, <3>1, <3>2, <3>3, <4>1 DEF Available
    <3> QED BY <2>3, <3>1, <3>2, <3>3 DEF Shows, Ahead
  <2> QED BY <2>3, <2>4, <2>5
<1>8. CASE w.replay = "routes"
  <2>1. CASE catalog.there
    <3>1. W = [w EXCEPT !.replay = "restore", !.floor = catalog.revision]
      BY <1>8, <2>1 DEF W, PageRead
    <3>2. But(W, w, {"replay", "floor"}) /\ W.replay = "restore"
      BY <1>4, <3>1 DEF But, Fields
    <3>3. But(W, w, {"pending", "starting", "replay", "again", "floor", "found"})
          /\ W.starting = w.starting /\ W.again = w.again
      BY <3>2, <1>4 DEF But, Fields
    <3>4. W.task = w.task /\ W.told = w.told /\ W.published = w.published
      BY <1>5, <3>3
    <3>5. \A k \in steady : Shows(W, k)
      BY <1>3, <1>8, <3>2, <3>3, <3>4 DEF Shows, Ahead
    <3> QED BY <3>2, <3>3, <3>5
  <2>2. CASE ~catalog.there
    <3>1. W = EndsReplay(w)
      BY <1>8, <2>2 DEF W, PageRead
    <3>2. /\ But(W, w, {"replay", "again", "found", "floor"}) /\ W.starting = w.starting
          /\ W.replay = (IF w.again THEN "live" ELSE "off") /\ W.again = FALSE
      BY <1>4, <1>6, <3>1
    <3>3. But(W, w, {"pending", "starting", "replay", "again", "floor", "found"})
      BY <3>2 DEF But, Fields
    <3>4. W.task = w.task /\ W.told = w.told /\ W.published = w.published
      BY <1>5, <3>3
    <3>5. ASSUME NEW k \in steady, source[k] = Gone PROVE Safe(k)
      <4>1. view.buses[k] = Gone
        BY <1>3, <2>2, <3>5 DEF StoresFine, ViewIsListed, Available
      <4>2. \A h \in Elected : worker[h].task.at # "write"
        BY <2>2 DEF ViewInv, WorkerFine
      <4> QED BY <3>5, <4>1, <4>2 DEF Safe
    <3>6. ASSUME NEW k \in steady PROVE Shows(W, k)
      BY <1>3, <1>8, <3>2, <3>4, <3>5 DEF Shows, Ahead
    <3> QED BY <3>2, <3>3, <3>6
  <2> QED BY <2>1, <2>2
<1>9. CASE w.replay = "list"
  <2>0. \A k \in steady : view.stamp = elected
    BY <1>3, <1>9 DEF Shows
  <2>1. CASE Available(view.buses) # {}
    <3> DEFINE u == Scheduled(w, Available(view.buses))
    <3>1. W = EndsReplay(u)
      BY <1>9, <2>1 DEF W, PageRead
    <3>2. /\ But(u, w, {"pending", "starting"})
          /\ u.starting = IF w.told = "ready" THEN w.starting
                          ELSE w.starting \union (Available(view.buses) \ w.published)
      BY <1>4, QueueKeeps
    <3> HIDE DEF u
    <3>3. Fields \subseteq DOMAIN u /\ u.again = w.again
      BY <1>4, <3>2 DEF But, Fields
    <3>4. /\ But(W, u, {"replay", "again", "found", "floor"}) /\ W.starting = u.starting
          /\ W.replay = (IF w.again THEN "live" ELSE "off") /\ W.again = FALSE
      BY <3>1, <3>3, <1>6
    <3>5. But(W, w, {"pending", "starting", "replay", "again", "floor", "found"})
      BY <3>2, <3>3, <3>4, Zenon DEF But
    <3>6. W.task = w.task /\ W.told = w.told /\ W.published = w.published
      BY <1>5, <3>5
    <3>7. ASSUME NEW k \in steady PROVE Shows(W, k)
      <4>1. Shows(w, k) /\ k \in Nodes
        BY <1>3
      <4>2. ASSUME W.told # "ready", source[k] = Gone PROVE Safe(k) \/ k \in W.starting
        <5>1. CASE view.buses[k] = Gone
          BY <2>0, <4>2, <5>1 DEF Safe
        <5>2. CASE view.buses[k] # Gone
          <6>1. k \notin w.published
            BY <4>1, <4>2, <5>2 DEF Shows, Current
          <6> QED BY <3>2, <3>4, <3>6, <4>1, <4>2, <5>2, <6>1 DEF Available
        <5> QED BY <5>1, <5>2
      <4>3. w.told # "ready" => w.starting \subseteq W.starting
        BY <3>2, <3>4
      <4> QED BY <1>9, <3>4, <3>6, <4>1, <4>2, <4>3 DEF Shows, Ahead
    <3> QED BY <3>4, <3>5, <3>7
  <2>2. CASE Available(view.buses) = {}
    <3>1. W = [w EXCEPT !.replay = "empty"]
      BY <1>9, <2>2 DEF W, PageRead
    <3>2. But(W, w, {"replay"}) /\ W.replay = "empty"
      BY <1>4, <3>1 DEF But, Fields
    <3>3. But(W, w, {"pending", "starting", "replay", "again", "floor", "found"})
          /\ W.starting = w.starting /\ W.again = w.again
      BY <3>2, <1>4 DEF But, Fields
    <3>4. W.task = w.task /\ W.told = w.told /\ W.published = w.published
      BY <1>5, <3>3
    <3>5. ASSUME NEW k \in steady, source[k] = Gone PROVE Safe(k)
      BY <1>3, <2>0, <2>2, <3>5 DEF Available, Safe
    <3>6. ASSUME NEW k \in steady PROVE Shows(W, k)
      BY <1>3, <1>9, <2>0, <3>2, <3>3, <3>4, <3>5 DEF Shows, Ahead
    <3> QED BY <3>2, <3>3, <3>6
  <2> QED BY <2>1, <2>2
<1> QED BY <1>2, <1>7, <1>8, <1>9 DEF w

LEMMA FailKeeps ==
    ASSUME ViewInv, NEW g \in Elected, Fail(g) PROVE ViewInv'
<1> DEFINE w == worker[g]
           x == w.task.key
           v == [w EXCEPT !.task = NoTask, !.prints[x] = Unknown, !.starting = @ \ {x}, !.published = @ \ {x}]
           W == Requested(v)
<1>1. worker' = [worker EXCEPT ![g] = W] /\ UNCHANGED <<elected, source, steady, view, catalog>>
  BY DEF Fail, Failed
<1>2. Leads(g)
  BY DEF Fail
<1>3. /\ g = elected /\ StoresFine /\ WorkerFine(g) /\ w.alive /\ \A k \in steady : Shows(w, k)
  BY <1>2, Leading
<1>4. Fields \subseteq DOMAIN w
  BY <1>3 DEF WorkerFine
<1>5. /\ But(v, w, {"task", "prints", "starting", "published"})
      /\ v.task = NoTask /\ v.starting = w.starting \ {x} /\ v.published = w.published \ {x}
  BY <1>4 DEF But, Fields
<1> HIDE DEF v
<1>6. Fields \subseteq DOMAIN v /\ v.replay = w.replay /\ v.again = w.again
  BY <1>4, <1>5 DEF But, Fields
<1>7. /\ But(W, v, {"replay", "again"})
      /\ v.replay = "off" => W.replay = "live" /\ W.again = v.again
      /\ v.replay # "off" => W.replay = v.replay /\ W.again = TRUE
  BY <1>6, RequestKeeps
<1> HIDE DEF W
<1>8. /\ Fields \subseteq DOMAIN W /\ W.alive = v.alive /\ W.registered = v.registered /\ W.task = v.task
      /\ W.told = v.told /\ W.published = v.published /\ W.starting = v.starting
  BY <1>6, <1>7 DEF But, Fields
<1>9. v.alive = w.alive /\ v.registered = w.registered /\ v.told = w.told
  BY <1>4, <1>5 DEF But, Fields
<1>10. \A k \in steady' : Shows(W, k)
  <2> SUFFICES ASSUME NEW k \in steady PROVE Shows(W, k)
    BY <1>1
  <2>1. W.task.at = "idle" /\ (W.replay = "live" \/ W.again)
    BY <1>5, <1>6, <1>7, <1>8 DEF NoTask
  <2>2. k \in W.published => k \in w.published
    BY <1>5, <1>8
  <2>3. W.replay \in {"list", "empty"} => w.replay \in {"list", "empty"}
    BY <1>6, <1>7
  <2> QED BY <1>3, <2>1, <2>2, <2>3 DEF Shows, Ahead
<1>11. {"at", "key", "value"} \subseteq DOMAIN W.task /\ W.task.at = "idle"
  BY <1>5, <1>8 DEF NoTask
<1>12. W.registered => catalog'.there
  BY <1>1, <1>3, <1>8, <1>9 DEF WorkerFine
<1>13. W.replay = "off" => ~W.again
  BY <1>6, <1>7
<1> QED BY <1>1, <1>3, <1>8, <1>9, <1>10, <1>11, <1>12, <1>13, LeaderStep, SameCatalog

LEMMA LoseViewKeeps ==
    ASSUME ViewInv, LoseView PROVE ViewInv'
<1>1. view' = NoView /\ steady' = {} /\ UNCHANGED <<source, catalog, elected, worker>>
  BY DEF LoseView
<1>2. ViewIsListed'
  BY <1>1 DEF ViewIsListed, Available, NoView, NoBuses
<1>3. StoresFine'
  BY <1>1, <1>2, ProjectionAssumption DEF ViewInv, StoresFine, NoView, NoBuses, Elected
<1>4. \A g \in Elected : WorkerFine(g)'
  BY <1>1 DEF ViewInv, WorkerFine
<1> QED BY <1>1, <1>3, <1>4 DEF ViewInv

\* A worker that is not the newest leads nothing.
LEMMA NotLeading ==
    ASSUME ViewInv, NEW g \in Elected, ~Leads(g) PROVE g # elected
BY DEF ViewInv, StoresFine, Leads

LEMMA StoresStay ==
    ASSUME ViewInv, NEW g \in Elected, NEW W, worker' = [worker EXCEPT ![g] = W], g = elected => W.alive,
           UNCHANGED <<elected, view, steady>>, CatalogKept
    PROVE  StoresFine'
BY DEF ViewInv, StoresFine, CatalogKept, ViewIsListed, Available

\* A worker's transaction, and what it does then, but for the view.
LEMMA ProceedKeeps ==
    ASSUME ViewInv, NEW g \in Elected, NEW t, Proceeds(g, t), UNCHANGED <<elected, source, steady, view>>,
           CatalogKept, catalog'.there, {"at", "key", "value"} \subseteq DOMAIN t,
           t.at \in {"read", "write"},
           t.at = "write" => t.value = source[t.key]
    PROVE  ViewInv'
<1>1. CASE Leads(g)
  <2> DEFINE w == worker[g]
             W == [w EXCEPT !.task = t, !.registered = TRUE]
  <2>1. worker' = [worker EXCEPT ![g] = W]
    BY <1>1 DEF Proceeds
  <2>2. /\ g = elected /\ StoresFine /\ WorkerFine(g) /\ w.alive /\ \A k \in steady : Shows(w, k)
    BY <1>1, Leading
  <2>3. Fields \subseteq DOMAIN w
    BY <2>2 DEF WorkerFine
  <2>4. But(W, w, {"task", "registered"}) /\ W.task = t
    BY <2>3 DEF But, Fields
  <2> HIDE DEF W
  <2>5. /\ Fields \subseteq DOMAIN W /\ W.alive = w.alive
        /\ W.replay = w.replay /\ W.again = w.again
        /\ W.told = w.told /\ W.published = w.published /\ W.starting = w.starting
    BY <2>3, <2>4 DEF But, Fields
  <2>6. \A k \in steady' : Shows(W, k)
    BY <2>2, <2>4, <2>5 DEF Shows, Ahead
  <2> QED BY <2>1, <2>2, <2>4, <2>5, <2>6, LeaderStep DEF WorkerFine
<1>2. CASE ~Leads(g)
  <2>1. worker' = [worker EXCEPT ![g] = Off] /\ g # elected
    BY <1>2, NotLeading DEF Proceeds
  <2>2. StoresFine'
    BY <2>1, StoresStay
  <2> QED BY <2>1, <2>2, DeposedKeeps DEF CatalogKept
<1> QED BY <1>1, <1>2

LEMMA RegisterKeeps ==
    ASSUME ViewInv, NEW g \in Elected, Register(g) PROVE ViewInv'
<1>1. PICK t : t = worker[g].task
  OBVIOUS
<1>2. /\ catalog' = IF catalog.stamp > g THEN catalog ELSE [catalog EXCEPT !.there = TRUE, !.stamp = g]
      /\ Proceeds(g, [t EXCEPT !.at = "read"])
      /\ UNCHANGED <<elected, source, steady, view>>
  BY <1>1 DEF Register
<1>3. {"at", "key", "value"} \subseteq DOMAIN t
  BY <1>1 DEF ViewInv, WorkerFine
<1>4. CatalogKept /\ catalog'.there
  BY <1>2, ProjectionAssumption DEF ViewInv, StoresFine, CatalogKept, Elected
<1>5. PICK u : u = [t EXCEPT !.at = "read"]
  OBVIOUS
<1>6. {"at", "key", "value"} \subseteq DOMAIN u /\ u.at = "read"
  BY <1>3, <1>5
<1> QED BY <1>2, <1>4, <1>5, <1>6, ProceedKeeps

LEMMA ReadSourceKeeps ==
    ASSUME ViewInv, NEW g \in Elected, ReadSource(g) PROVE ViewInv'
<1>1. PICK t : t = worker[g].task
  OBVIOUS
<1>2. /\ t.at = "read" /\ Proceeds(g, [t EXCEPT !.at = "write", !.value = source[t.key]])
      /\ UNCHANGED <<elected, source, steady, view, catalog>>
  BY <1>1 DEF ReadSource
<1>3. {"at", "key", "value"} \subseteq DOMAIN t /\ catalog.there
  BY <1>1, <1>2 DEF ViewInv, WorkerFine
<1>4. CatalogKept
  BY <1>2, SameCatalog DEF ViewInv
<1>5. PICK u : u = [t EXCEPT !.at = "write", !.value = source[t.key]]
  OBVIOUS
<1>6. {"at", "key", "value"} \subseteq DOMAIN u /\ u.at = "write" /\ u.value = source[u.key]
  BY <1>3, <1>5
<1> QED BY <1>2, <1>3, <1>4, <1>5, <1>6, ProceedKeeps

\* A transaction of worker g on the view leaves a successor's as it is.
LEMMA StoresWritten ==
    ASSUME ViewInv, NEW g \in Elected, g <= elected, NEW W, worker' = [worker EXCEPT ![g] = W],
           g = elected => W.alive, UNCHANGED <<elected, steady, catalog>>, ViewIsListed',
           {"there", "buses", "revision", "stamp"} \subseteq DOMAIN view', DOMAIN view'.buses = Nodes,
           view'.stamp \in {view.stamp, g}
    PROVE  StoresFine'
BY ProjectionAssumption DEF ViewInv, StoresFine, Elected

LEMMA WriteViewKeeps ==
    ASSUME ViewInv, NEW g \in Elected, WriteView(g) PROVE ViewInv'
<1> USE ProjectionAssumption
<1>1. PICK t : t = worker[g].task
  OBVIOUS
<1>2. PICK u : u = [t EXCEPT !.at = "publish", !.buses = Available(view'.buses), !.revision = view'.revision]
  OBVIOUS
<1> DEFINE same == view.buses[t.key] = t.value
           written == [there |-> TRUE, buses |-> [view.buses EXCEPT ![t.key] = t.value],
                       revision |-> view.revision + 1, stamp |-> g]
<1>3. /\ t.at = "write"
      /\ view' = IF view.stamp > g THEN view
                 ELSE IF ~same THEN written
                 ELSE IF view.stamp = g THEN view ELSE [view EXCEPT !.there = TRUE, !.stamp = g]
      /\ Proceeds(g, u)
      /\ UNCHANGED <<elected, source, steady, catalog>>
  BY <1>1, <1>2 DEF WriteView
<1>4. /\ {"at", "key", "value"} \subseteq DOMAIN t /\ catalog.there /\ ~(g > elected)
      /\ elected \in Elected /\ view.stamp \in 0 .. elected /\ DOMAIN view.buses = Nodes
      /\ {"there", "buses", "revision", "stamp"} \subseteq DOMAIN view
  BY <1>1, <1>3 DEF ViewInv, StoresFine, WorkerFine
<1>5. {"at", "key", "value"} \subseteq DOMAIN u /\ u.at = "publish" /\ u.key = t.key
  BY <1>2, <1>4
<1>6. g <= elected /\ (g # elected => g < elected)
  BY <1>4 DEF Elected
<1>7. /\ {"there", "buses", "revision", "stamp"} \subseteq DOMAIN view' /\ DOMAIN view'.buses = Nodes
      /\ view'.stamp \in {view.stamp, g}
  BY <1>3, <1>4
<1>8. ViewIsListed'
  BY <1>3, <1>4 DEF ViewIsListed
<1>9. CASE Leads(g)
  <2> DEFINE w == worker[g]
             W == [w EXCEPT !.task = u, !.registered = TRUE]
  <2>1. worker' = [worker EXCEPT ![g] = W]
    BY <1>3, <1>9 DEF Proceeds
  <2>2. /\ g = elected /\ WorkerFine(g) /\ w.alive /\ \A k \in steady : k \in Nodes /\ Shows(w, k)
    BY <1>9, Leading
  <2>3. Fields \subseteq DOMAIN w
    BY <2>2 DEF WorkerFine
  <2>4. But(W, w, {"task", "registered"}) /\ W.task = u
    BY <2>3 DEF But, Fields
  <2> HIDE DEF W
  <2>5. /\ Fields \subseteq DOMAIN W /\ W.alive = w.alive
        /\ W.replay = w.replay /\ W.again = w.again
        /\ W.told = w.told /\ W.published = w.published /\ W.starting = w.starting
    BY <2>3, <2>4 DEF But, Fields
  <2>6. view'.stamp = elected
    BY <1>3, <1>4, <1>6, <2>2 DEF Elected
  <2>7. \A k \in Nodes : view'.buses[k] = IF k = t.key THEN t.value ELSE view.buses[k]
    BY <1>3, <1>4, <1>6, <2>2 DEF Elected
  <2>8. StoresFine'
    BY <1>3, <1>6, <1>7, <1>8, <2>1, <2>2, <2>5, StoresWritten
  <2>9. worker'[elected] = W
    BY <2>1, <2>2 DEF ViewInv, StoresFine
  <2>10. WorkerFine(elected)'
    <3>1. ~(elected > elected) /\ W.replay = "off" => ~W.again
      BY <2>2, <2>5 DEF WorkerFine
    <3>2. ~(elected > elected)
      BY <1>4 DEF Elected
    <3> QED BY <1>3, <1>4, <1>5, <2>4, <2>5, <2>9, <3>1, <3>2 DEF WorkerFine
  <2>11. ASSUME NEW k \in steady PROVE KeyFine(k)'
    <3>1. Shows(w, k) /\ k \in Nodes
      BY <2>2
    <3>2. k = t.key => t.value = source[k]
      BY <1>1, <1>3, <3>1 DEF Shows
    <3>3. view'.buses[k] = (IF k = t.key THEN t.value ELSE view.buses[k])
      BY <2>7, <3>1
    <3>4. k = t.key => Current(k)'
      BY <1>3, <2>6, <3>2, <3>3 DEF Current
    <3>5. (Current(k) => Current(k)') /\ (Safe(k) => Safe(k)')
      BY <1>3, <2>6, <3>2, <3>3 DEF Current, Safe
    <3> QED BY <1>3, <1>5, <2>4, <2>5, <2>6, <2>9, <3>1, <3>4, <3>5 DEF KeyFine, Shows, Ahead
  <2> QED BY <1>3, <2>1, <2>2, <2>8, <2>10, <2>11, LeaderKeeps
<1>10. CASE ~Leads(g)
  <2>1. worker' = [worker EXCEPT ![g] = Off] /\ g # elected
    BY <1>3, <1>10, NotLeading DEF Proceeds
  <2>2. StoresFine'
    BY <1>3, <1>6, <1>7, <1>8, <2>1, StoresWritten
  <2>3. view.stamp = elected => view' = view
    BY <1>3, <1>6, <2>1 DEF Elected
  <2> QED BY <1>1, <1>3, <2>1, <2>2, <2>3, DeposedKeeps
<1> QED BY <1>9, <1>10

LEMMA RestoreKeeps ==
    ASSUME ViewInv, NEW g \in Elected, Restore(g) PROVE ViewInv'
<1> USE ProjectionAssumption
<1>1. PICK w : w = worker[g]
  OBVIOUS
<1>2. PICK n : n = Lineage(view, w.floor)
  OBVIOUS
<1> DEFINE W == IF Leads(g) THEN [w EXCEPT !.replay = "list", !.found = view'] ELSE Off
<1>3. /\ w.replay = "restore"
      /\ view' = IF view.stamp > g THEN view ELSE [view EXCEPT !.there = TRUE, !.revision = n, !.stamp = g]
      /\ worker' = [worker EXCEPT ![g] = W]
      /\ UNCHANGED <<elected, source, steady, catalog>>
  BY <1>1, <1>2 DEF Restore
<1>4. /\ ~(g > elected) /\ ViewIsListed
      /\ elected \in Elected /\ view.stamp \in 0 .. elected /\ DOMAIN view.buses = Nodes
      /\ {"there", "buses", "revision", "stamp"} \subseteq DOMAIN view
  BY <1>1, <1>3 DEF ViewInv, StoresFine, WorkerFine
<1>5. g <= elected /\ (g # elected => g < elected)
  BY <1>4 DEF Elected
<1>6. /\ {"there", "buses", "revision", "stamp"} \subseteq DOMAIN view' /\ view'.buses = view.buses
      /\ view'.stamp \in {view.stamp, g}
  BY <1>3, <1>4
<1>7. ViewIsListed'
  BY <1>3, <1>4, <1>6 DEF ViewIsListed, Available
<1>8. CASE Leads(g)
  <2>1. W = [w EXCEPT !.replay = "list", !.found = view']
    BY <1>8
  <2>2. /\ g = elected /\ WorkerFine(g) /\ w.alive /\ \A k \in steady : Shows(w, k)
    BY <1>1, <1>8, Leading
  <2>3. Fields \subseteq DOMAIN w
    BY <1>1, <2>2 DEF WorkerFine
  <2> HIDE DEF W
  <2>4. But(W, w, {"replay", "found"}) /\ W.replay = "list"
    BY <2>1, <2>3 DEF But, Fields
  <2>5. /\ Fields \subseteq DOMAIN W /\ W.alive = w.alive /\ W.task = w.task /\ W.registered = w.registered
        /\ W.again = w.again /\ W.told = w.told /\ W.published = w.published /\ W.starting = w.starting
    BY <2>3, <2>4 DEF But, Fields
  <2>6. view'.stamp = elected
    BY <1>3, <1>4, <1>5, <2>2 DEF Elected
  <2>7. StoresFine'
    BY <1>3, <1>4, <1>5, <1>6, <1>7, <2>2, <2>5, StoresWritten
  <2>8. worker'[elected] = W
    BY <1>3, <2>2 DEF ViewInv, StoresFine
  <2>9. WorkerFine(elected)'
    <3>1. ~(elected > elected)
      BY <1>4 DEF Elected
    <3> QED BY <1>1, <1>3, <2>2, <2>4, <2>5, <2>8, <3>1 DEF WorkerFine
  <2>10. ASSUME NEW k \in steady PROVE KeyFine(k)'
    <3>1. (Current(k) => Current(k)') /\ (Safe(k) => Safe(k)')
      BY <1>3, <1>6, <2>6 DEF Current, Safe
    <3> QED BY <1>3, <2>2, <2>4, <2>5, <2>6, <2>8, <3>1 DEF KeyFine, Shows, Ahead
  <2> QED BY <1>3, <2>2, <2>7, <2>9, <2>10, LeaderKeeps
<1>9. CASE ~Leads(g)
  <2>1. worker' = [worker EXCEPT ![g] = Off] /\ g # elected
    BY <1>3, <1>9, NotLeading
  <2>2. StoresFine'
    BY <1>3, <1>4, <1>5, <1>6, <1>7, <2>1, StoresWritten
  <2>3. view.stamp = elected => view' = view
    BY <1>3, <1>5, <2>1 DEF Elected
  <2> QED BY <1>3, <1>6, <2>1, <2>2, <2>3, DeposedKeeps
<1> QED BY <1>8, <1>9

LEMMA EntryKeeps ==
    ASSUME StoresFine, NEW g, NEW buses, NEW revision, catalog' = Entry(g, buses, revision)
    PROVE  CatalogKept
BY DEF Entry, StoresFine, CatalogKept

LEMMA PublishKeeps ==
    ASSUME ViewInv, NEW g \in Elected, Publish(g) PROVE ViewInv'
<1>1. PICK t : t = worker[g].task
  OBVIOUS
<1>2. PICK l : l = Listed(g, t.buses)
  OBVIOUS
<1>3. /\ t.at = "publish"
      /\ catalog' = Entry(g, t.buses, t.revision)
      /\ worker' = [worker EXCEPT ![g] =
           IF Leads(g)
           THEN [worker[g] EXCEPT !.task = NoTask, !.listed = l,
                                  !.published = @ \union {t.key}, !.starting = @ \ {t.key}]
           ELSE Off]
      /\ UNCHANGED <<elected, source, steady, view>>
  BY <1>1, <1>2 DEF Publish
<1>4. CatalogKept
  BY <1>3, EntryKeeps DEF ViewInv
<1>5. CASE Leads(g)
  <2> DEFINE w == worker[g]
             W == [w EXCEPT !.task = NoTask, !.listed = l, !.published = @ \union {t.key}, !.starting = @ \ {t.key}]
  <2>1. worker' = [worker EXCEPT ![g] = W]
    BY <1>3, <1>5
  <2>2. /\ g = elected /\ StoresFine /\ WorkerFine(g) /\ w.alive /\ \A k \in steady : Shows(w, k)
    BY <1>5, Leading
  <2>3. Fields \subseteq DOMAIN w
    BY <2>2 DEF WorkerFine
  <2>4. /\ But(W, w, {"task", "listed", "published", "starting"}) /\ W.task = NoTask
        /\ W.published = w.published \union {t.key} /\ W.starting = w.starting \ {t.key}
    BY <2>3 DEF But, Fields
  <2> HIDE DEF W
  <2>5. /\ Fields \subseteq DOMAIN W /\ W.alive = w.alive /\ W.registered = w.registered
        /\ W.replay = w.replay /\ W.again = w.again /\ W.told = w.told
    BY <2>3, <2>4 DEF But, Fields
  <2>6. {"at", "key", "value"} \subseteq DOMAIN NoTask /\ NoTask.at = "idle"
    BY DEF NoTask
  <2>7. ASSUME NEW k \in steady PROVE Shows(W, k)
    <3>1. Shows(w, k)
      BY <2>2
    <3>2. k = t.key => Current(k) /\ Safe(k)
      BY <1>1, <1>3, <3>1 DEF Shows, Current, Safe
    <3>3. k # t.key => (k \in W.published <=> k \in w.published) /\ (k \in W.starting <=> k \in w.starting)
      BY <2>4
    <3> QED BY <2>4, <2>5, <2>6, <3>1, <3>2, <3>3 DEF Shows, Ahead
  <2> QED BY <1>3, <1>4, <2>1, <2>2, <2>4, <2>5, <2>6, <2>7, LeaderStep DEF WorkerFine, CatalogKept
<1>6. CASE ~Leads(g)
  <2>1. worker' = [worker EXCEPT ![g] = Off] /\ g # elected
    BY <1>3, <1>6, NotLeading
  <2>2. StoresFine'
    BY <1>3, <1>4, <2>1, StoresStay
  <2> QED BY <1>3, <1>4, <2>1, <2>2, DeposedKeeps DEF CatalogKept
<1> QED BY <1>5, <1>6

LEMMA PublishEmptyKeeps ==
    ASSUME ViewInv, NEW g \in Elected, PublishEmpty(g) PROVE ViewInv'
<1>1. PICK w : w = worker[g]
  OBVIOUS
<1>2. PICK l : l = Listed(g, Available(w.found.buses))
  OBVIOUS
<1>3. /\ w.replay = "empty"
      /\ catalog' = Entry(g, Available(w.found.buses), w.found.revision)
      /\ worker' = [worker EXCEPT ![g] = IF Leads(g) THEN EndsReplay([w EXCEPT !.listed = l]) ELSE Off]
      /\ UNCHANGED <<elected, source, steady, view>>
  BY <1>1, <1>2 DEF PublishEmpty
<1>4. CatalogKept
  BY <1>3, EntryKeeps DEF ViewInv
<1>5. CASE Leads(g)
  <2> DEFINE v == [w EXCEPT !.listed = l]
             W == EndsReplay(v)
  <2>1. worker' = [worker EXCEPT ![g] = W]
    BY <1>3, <1>5
  <2>2. /\ g = elected /\ StoresFine /\ WorkerFine(g) /\ w.alive /\ \A k \in steady : Shows(w, k)
    BY <1>1, <1>5, Leading
  <2>3. Fields \subseteq DOMAIN w /\ {"at", "key", "value"} \subseteq DOMAIN w.task
    BY <1>1, <2>2 DEF WorkerFine
  <2>4. But(v, w, {"listed"})
    BY <2>3 DEF But, Fields
  <2> HIDE DEF v
  <2>5. /\ Fields \subseteq DOMAIN v /\ v.alive = w.alive /\ v.task = w.task /\ v.registered = w.registered
        /\ v.again = w.again /\ v.told = w.told /\ v.published = w.published /\ v.starting = w.starting
    BY <2>3, <2>4 DEF But, Fields
  <2>6. /\ But(W, v, {"replay", "again", "found", "floor"})
        /\ W.replay = (IF v.again THEN "live" ELSE "off") /\ W.again = FALSE
    BY <2>5, EndKeeps
  <2> HIDE DEF W
  <2>7. /\ Fields \subseteq DOMAIN W /\ W.alive = v.alive /\ W.task = v.task /\ W.registered = v.registered
        /\ W.told = v.told /\ W.published = v.published /\ W.starting = v.starting
    BY <2>5, <2>6 DEF But, Fields
  <2>8. ASSUME NEW k \in steady PROVE Shows(W, k)
    BY <1>3, <2>2, <2>5, <2>6, <2>7 DEF Shows, Ahead
  <2>9. W.registered \/ W.task.at \in {"read", "write", "publish"} => catalog.there
    BY <1>1, <2>2, <2>5, <2>7 DEF WorkerFine
  <2>10. W.replay = "off" => ~W.again
    BY <2>6
  <2>11. W.registered \/ W.task.at \in {"read", "write", "publish"} => catalog'.there
    BY <1>4, <2>9 DEF CatalogKept
  <2>12. worker' = [worker EXCEPT ![elected] = W] /\ W.alive /\ UNCHANGED <<elected, view, steady, source>>
    BY <1>3, <2>1, <2>2, <2>5, <2>7
  <2>13. Fields \subseteq DOMAIN W /\ {"at", "key", "value"} \subseteq DOMAIN W.task
    BY <2>3, <2>5, <2>7
  <2> QED BY <1>4, <2>8, <2>10, <2>11, <2>12, <2>13, LeaderStep
<1>6. CASE ~Leads(g)
  <2>1. worker' = [worker EXCEPT ![g] = Off] /\ g # elected
    BY <1>3, <1>6, NotLeading
  <2>2. StoresFine'
    BY <1>3, <1>4, <2>1, StoresStay
  <2> QED BY <1>1, <1>3, <1>4, <2>1, <2>2, DeposedKeeps DEF CatalogKept
<1> QED BY <1>5, <1>6

LEMMA ViewInductive ==
    ASSUME ViewInv, [ProjectionNext]_projectionVars PROVE ViewInv'
<1>1. CASE \E k \in Nodes : Move(k) \/ \E g \in Elected : Begin(g, k)
  BY <1>1, MoveKeeps, BeginKeeps
<1>2. CASE Elect \/ LoseView
  BY <1>2, ElectKeeps, LoseViewKeeps
<1>3. CASE \E g \in Elected : Recover(g) \/ ReplayStep(g) \/ ViewStep(g) \/ Fail(g)
                              \/ Tell(g, "not ready") \/ Tell(g, "ready")
  BY <1>3, RecoverKeeps, ReadPageKeeps, RestoreKeeps, PublishEmptyKeeps, RegisterKeeps, ReadSourceKeeps,
     WriteViewKeeps, PublishKeeps, FailKeeps, TellKeeps DEF ReplayStep, ViewStep
<1>4. CASE UNCHANGED projectionVars
  BY <1>4 DEF projectionVars, ViewInv, StoresFine, WorkerFine, KeyFine, Shows, Ahead, Current, Safe,
              ViewIsListed, Available
<1> QED BY <1>1, <1>2, <1>3, <1>4 DEF ProjectionNext

\* A worker that says that the views are complete has nothing left to find, to
\* write or to list.
LEMMA ToldWhole ==
    ASSUME ViewInv, ProjectionNext, announced'.public, ~announced.public
    PROVE  \A k \in steady : view.buses[k] = source[k]
<1>1. PICK g \in Elected, state \in {"ready", "not ready"} : Tell(g, state)
  <2>1. announced' # announced
    OBVIOUS
  <2> QED BY <2>1 DEF ProjectionNext, Move, Begin, Elect, LoseView, Recover, ReplayStep, ReadPage, Restore,
        PublishEmpty, ViewStep, Register, ReadSource, WriteView, Publish, Fail
<1>2. state = "ready"
  BY <1>1 DEF Tell
<1>3. Leads(g) /\ worker[g].told # "ready" /\ worker[g].replay = "off" /\ worker[g].starting = {}
  BY <1>1, <1>2 DEF Tell, Covered
<1>4. WorkerFine(g) /\ \A k \in steady : Shows(worker[g], k)
  BY <1>3, Leading
<1>5. ~worker[g].again
  BY <1>3, <1>4 DEF WorkerFine
<1> QED BY <1>3, <1>4, <1>5 DEF Shows, Ahead, Safe

\* Every bus of a view is of a route that a recovery finds, whatever worker
\* stopped where; and readiness is announced of complete views only
\* (startLiveBusProjection, liveBusProjection.ts:146-315).
THEOREM ViewsAreWholeAlways == ProjectionSpec => ViewsAreWhole
<1> DEFINE Whole == /\ ViewIsListed'
                    /\ announced'.public /\ ~announced.public => \A k \in steady : view.buses[k] = source[k]
<1>1. ProjectionInit => ViewInv
  BY ViewStart
<1>2. ViewInv /\ [ProjectionNext]_projectionVars => ViewInv'
  BY ViewInductive
<1>3. ViewInv /\ ViewInv' /\ [ProjectionNext]_projectionVars => [Whole]_projectionVars
  <2>1. ViewInv' => ViewIsListed'
    BY DEF ViewInv, StoresFine
  <2> QED BY <2>1, ToldWhole
<1> QED BY <1>1, <1>2, <1>3, PTL DEF ProjectionSpec, ViewsAreWhole

\* A behaviour of WorkerParts is one of the lease and one of the projection,
\* which share no variable.
THEOREM WorkerHasParts == WorkerSpec => LeaseSpec /\ ProjectionSpec
<1>1. WorkerInit => LeaseInit /\ ProjectionInit
  BY DEF WorkerInit
<1>2. [WorkerNext]_workerVars => [LeaseNext]_leaseVars
  BY DEF WorkerNext, workerVars
<1>3. [WorkerNext]_workerVars => [ProjectionNext]_projectionVars
  BY DEF WorkerNext, workerVars
<1> QED BY <1>1, <1>2, <1>3, PTL DEF WorkerSpec, LeaseSpec, ProjectionSpec

\* What the worker promises, it promises together: one leader, an election as
\* the fenced writes assume it, and whole views.
THEOREM WorkerKeepsItsPromises ==
    WorkerSpec => []SingleLeader /\ ImplementsLeadership /\ ViewsAreWhole
BY WorkerHasParts, SingleLeaderAlways, LeaseImplementsLeadership, ViewsAreWholeAlways, PTL
=============================================================================
