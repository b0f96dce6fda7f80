----------------------------- MODULE AdminProofs ------------------------------
(* Proofs about the parts of AdminParts, for every set of processes, keys,      *)
(* accounts, routes and saves.                                                  *)
EXTENDS AdminParts, TLAPS

-----------------------------------------------------------------------------
\* WorkerFence.

\* A step of p's operation replaces p's record by a lawful one.
LEMMA JobReplaced ==
    ASSUME FenceInv, UNCHANGED leaderVars, NEW p \in Procs,
           NEW v \in Jobs, JobInv(p, v), job' = [job EXCEPT ![p] = v],
           committed' \in Nat, committed' <= generation, node' \in NodeValues
    PROVE  FenceInv'
<1>1. job' \in [Procs -> Jobs]
    BY DEF FenceInv, FenceTypeOK
<1>2. \A q \in Procs : JobInv(q, job'[q])
    BY DEF FenceInv, FenceTypeOK
<1>3. \A q \in Procs : JobInv(q, job[q])'
    BY <1>2 DEF JobInv, leaderVars
<1> QED BY <1>1, <1>3 DEF FenceInv, FenceTypeOK, leaderVars

\* A step of one of p's operations.
LEMMA JobStepKeeps ==
    ASSUME FenceInv, NEW p \in Procs, JobStep(p)
    PROVE  FenceInv' /\ committed' >= committed
<1> DEFINE j == job[p]
<1>0. /\ j \in Jobs /\ JobInv(p, j) /\ NoJob \in Jobs /\ JobInv(p, NoJob)
      /\ committed \in Nat /\ generation \in Nat /\ committed <= generation
      /\ node \in NodeValues /\ NoNode \in NodeValues /\ fence[p] \in Nat
    BY DEF FenceInv, FenceTypeOK, Jobs, NoJob, JobInv, NodeValues, NoNode
<1>K. ASSUME NEW v \in Jobs, JobInv(p, v), job' = [job EXCEPT ![p] = v],
             UNCHANGED leaderVars, UNCHANGED committed, UNCHANGED node
      PROVE  FenceInv' /\ committed' >= committed
  <2>1. committed' \in Nat /\ committed' <= generation /\ node' \in NodeValues
      BY <1>0, <1>K
  <2>2. FenceInv'
      BY ONLY FenceInv, <1>K, <2>1, JobReplaced
  <2> QED BY <1>0, <1>K, <2>2
<1>1. ASSUME Abandon(p), UNCHANGED leaderVars, UNCHANGED committed, UNCHANGED node
      PROVE  FenceInv' /\ committed' >= committed
    BY ONLY <1>0, <1>1, <1>K DEF Abandon
<1>2. CASE FsBegin(p) \/ RtBegin(p)
  <2>1. PICK step \in {"fsCallback", "rtCallback"} : Begin(p, step)
      BY <1>2 DEF FsBegin, RtBegin
  <2> DEFINE v == [NoJob EXCEPT !.pc = step, !.gen = fence[p], !.bound = TRUE]
  <2>2. /\ v.pc = step /\ v.gen = fence[p] /\ v.fresh = FALSE
        /\ v.seen = NoNode /\ v.next = NoNode
      BY DEF NoJob
  <2>3. v \in Jobs
      BY <1>0 DEF Jobs
  <2>4. JobInv(p, v)
    <3> HIDE DEF v
    <3> QED BY <1>0, <2>2 DEF JobInv, NoNode
  <2>5. job' = [job EXCEPT ![p] = v] /\ UNCHANGED <<leaderVars, committed, node>>
      BY <2>1 DEF Begin
  <2> HIDE DEF v
  <2> QED BY <2>3, <2>4, <2>5, <1>K
<1>3. CASE FsRead(p)
  <2> DEFINE v == [j EXCEPT !.fresh = TRUE]
  <2>1. CASE /\ holder = p /\ generation = j.gen
             /\ job' = [job EXCEPT ![p] = v]
    <3>1. v \in Jobs /\ JobInv(p, v)
        BY <1>0, <2>1 DEF Jobs, JobInv
    <3> HIDE DEF v
    <3>2. UNCHANGED leaderVars /\ UNCHANGED committed /\ UNCHANGED node
        BY <1>3 DEF FsRead
    <3> QED BY <2>1, <3>1, <3>2, <1>K
  <2> QED BY <1>1, <1>3, <2>1 DEF FsRead
<1>4. CASE FsSend(p)
  <2> DEFINE v == [j EXCEPT !.pc = "fsSent"]
  <2>1. v \in Jobs /\ JobInv(p, v)
      BY <1>0 DEF Jobs, JobInv
  <2>2. UNCHANGED <<leaderVars, committed, node>>
        /\ (job' = [job EXCEPT ![p] = v] \/ Abandon(p))
      BY <1>4 DEF FsSend
  <2> HIDE DEF v
  <2> QED BY <1>1, <2>1, <2>2, <1>K
<1>5. CASE FsCommit(p)
  <2> DEFINE v == [j EXCEPT !.pc = "fsCallback"]
  <2>1. v \in Jobs /\ JobInv(p, v)
      BY <1>0 DEF Jobs, JobInv
  <2>2. CASE j.fresh /\ committed' = j.gen /\ Abandon(p)
    <3>1. UNCHANGED leaderVars /\ UNCHANGED node /\ job' = [job EXCEPT ![p] = NoJob]
        BY <1>5, <2>2 DEF FsCommit, Abandon
    <3>2. committed' = generation
        BY <1>0, <2>2 DEF JobInv
    <3>3. committed <= generation
        BY DEF FenceInv
    <3>4. committed' \in Nat /\ committed' <= generation /\ node' \in NodeValues
        BY <1>0, <3>1, <3>2
    <3>5. FenceInv'
        BY ONLY FenceInv, <1>0, <3>1, <3>4, JobReplaced
    <3> QED BY <1>0, <3>2, <3>3, <3>5
  <2>3. CASE job' = [job EXCEPT ![p] = v] /\ UNCHANGED committed
    <3> HIDE DEF v
    <3>1. UNCHANGED leaderVars /\ UNCHANGED node
        BY <1>5 DEF FsCommit
    <3> QED BY <2>1, <2>3, <3>1, <1>K
  <2> QED BY <1>5, <2>2, <2>3 DEF FsCommit
<1>6. CASE RtCallback(p)
  <2>1. CASE ~Superseded(p)
             /\ \E next \in {NoNode} \union [gen : {j.gen}, data : Payloads] :
                  job' = [job EXCEPT ![p] = [@ EXCEPT !.pc = "rtSent", !.seen = node,
                                                      !.next = next]]
    <3>1. PICK next \in {NoNode} \union [gen : {j.gen}, data : Payloads] :
                  job' = [job EXCEPT ![p] = [@ EXCEPT !.pc = "rtSent", !.seen = node,
                                                      !.next = next]]
        BY <2>1
    <3> DEFINE v == [j EXCEPT !.pc = "rtSent", !.seen = node, !.next = next]
    <3>2. next \in NodeValues /\ node.gen <= j.gen
        BY <1>0, <2>1 DEF NodeValues, Jobs, Superseded, NoNode
    <3>3. v \in Jobs /\ JobInv(p, v)
        BY <1>0, <3>2 DEF Jobs, JobInv
    <3>4. job' = [job EXCEPT ![p] = v]
        BY <3>1
    <3> HIDE DEF v
    <3>5. UNCHANGED leaderVars /\ UNCHANGED committed /\ UNCHANGED node
        BY <1>6 DEF RtCallback
    <3> QED BY <3>3, <3>4, <3>5, <1>K
  <2> QED BY <1>1, <1>6, <2>1 DEF RtCallback
<1>7. CASE RtCommit(p)
  <2> DEFINE v == [j EXCEPT !.pc = "rtCallback", !.seen = NoNode, !.next = NoNode]
  <2>0. /\ v.fresh = j.fresh /\ v.gen = j.gen /\ v.seen = NoNode /\ v.next = NoNode
        /\ v \in Jobs
      BY <1>0 DEF Jobs
  <2>1. v \in Jobs /\ JobInv(p, v)
    <3>1. NoNode.gen = 0 /\ j.gen \in Nat
        BY <1>0 DEF Jobs, NoNode
    <3> HIDE DEF v
    <3> QED BY <1>0, <2>0, <3>1 DEF JobInv
  <2>2. CASE node' = j.next /\ Abandon(p)
    <3>1. /\ UNCHANGED leaderVars /\ UNCHANGED committed
          /\ job' = [job EXCEPT ![p] = NoJob]
        BY <1>7, <2>2 DEF RtCommit, Abandon
    <3>2. node' \in NodeValues
        BY <1>0, <2>2 DEF Jobs
    <3>3. committed' \in Nat /\ committed' <= generation
        BY <1>0, <3>1
    <3>4. FenceInv'
        BY ONLY FenceInv, <1>0, <3>1, <3>2, <3>3, JobReplaced
    <3> QED BY <1>0, <3>1, <3>4
  <2>3. CASE job' = [job EXCEPT ![p] = v] /\ UNCHANGED node
    <3> HIDE DEF v
    <3>1. UNCHANGED leaderVars /\ UNCHANGED committed
        BY <1>7 DEF RtCommit
    <3> QED BY <2>1, <2>3, <3>1, <1>K
  <2> QED BY <1>7, <2>2, <2>3 DEF RtCommit
<1>8. CASE SentFails(p)
    BY <1>1, <1>8 DEF SentFails
<1> QED BY <1>2, <1>3, <1>4, <1>5, <1>6, <1>7, <1>8 DEF JobStep

\* A step of the election, or a device's write of the node.
LEMMA ElectionKeeps ==
    ASSUME FenceInv, FenceStep \/ LeaseWrite \/ Telemetry
    PROVE  FenceInv' /\ committed' >= committed
<1> USE DEF FenceInv
<1>0. /\ \A q \in Procs : job[q] \in Jobs /\ JobInv(q, job[q])
      /\ committed \in Nat /\ generation \in Nat /\ node \in NodeValues
    BY DEF FenceTypeOK
<1>1. CASE FenceStep
  <2>1. UNCHANGED <<holder, generation, committed, node>>
      BY <1>1 DEF FenceStep, Admit, Revoke, Lapse
  <2>2. fence' \in [Procs -> Nat] /\ usable' \in [Procs -> BOOLEAN]
    <3>1. CASE \E p \in Procs : Admit(p) \/ Revoke(p)
      <4>1. PICK p \in Procs : Admit(p) \/ Revoke(p)
          BY <3>1
      <4>2. CASE Admit(p)
          BY <1>0, <4>2 DEF Admit, FenceTypeOK
      <4>3. CASE Revoke(p)
          BY <4>3 DEF Revoke, FenceTypeOK
      <4> QED BY <4>1, <4>2, <4>3
    <3>2. CASE \E ps \in SUBSET Procs : Lapse(ps)
        BY <3>2 DEF Lapse, FenceTypeOK
    <3> QED BY <1>1, <3>1, <3>2 DEF FenceStep
  <2>3. \A q \in Procs :
           [job[q] EXCEPT !.bound = job[q].bound /\ fence'[q] # 0] \in Jobs
      BY <1>0 DEF Jobs
  <2>4. job' = [q \in Procs |-> [job[q] EXCEPT !.bound = job[q].bound /\ fence'[q] # 0]]
      BY <1>1 DEF FenceStep, UnbindRevoked
  <2>5. \A q \in Procs : job'[q] \in Jobs /\ JobInv(q, job'[q])
      BY <1>0, <2>3, <2>4 DEF Jobs, JobInv
  <2> QED BY <1>0, <2>1, <2>2, <2>4, <2>5 DEF FenceTypeOK, JobInv
<1>2. CASE LeaseWrite
  <2>1. /\ UNCHANGED <<fence, usable, committed, node>>
        /\ generation' \in Nat /\ generation' >= generation
        /\ holder' \in Procs \union {NoOwner}
      BY <1>2 DEF LeaseWrite, Take, Release, leaderVars, FenceTypeOK
  <2>2. \A q \in Procs : [job[q] EXCEPT !.fresh = FALSE] \in Jobs
      BY <1>0 DEF Jobs
  <2>3. job' = [q \in Procs |-> [job[q] EXCEPT !.fresh = FALSE]]
      BY <1>2 DEF LeaseWrite, TrackedRead
  <2>4. \A q \in Procs : job'[q] \in Jobs /\ ~job'[q].fresh /\ JobInv(q, job'[q])
      BY <1>0, <2>2, <2>3 DEF Jobs, JobInv
  <2> QED BY <1>0, <2>1, <2>3, <2>4 DEF FenceTypeOK, JobInv
<1>3. CASE Telemetry
  <2>1. node' \in NodeValues /\ UNCHANGED <<leaderVars, job, committed>>
      BY <1>3 DEF Telemetry, NodeValues, NoNode, FenceTypeOK
  <2> QED BY <1>0, <2>1 DEF FenceTypeOK, JobInv, leaderVars
<1> QED BY <1>1, <1>2, <1>3

LEMMA FenceInitially == FenceInit => FenceInv
BY DEF FenceInit, LeaderInit, FenceInv, FenceTypeOK, Jobs, JobInv, NoJob, NodeValues, NoNode

LEMMA FenceInductive ==
    FenceInv /\ [FenceNext]_fenceVars => FenceInv' /\ committed' >= committed
<1>1. ASSUME FenceInv, UNCHANGED fenceVars PROVE FenceInv' /\ committed' >= committed
    BY <1>1 DEF fenceVars, leaderVars, FenceInv, FenceTypeOK, JobInv
<1> QED BY <1>1, JobStepKeeps, ElectionKeeps DEF FenceNext

\* Types, and what sent operations know of lease and record.
THEOREM FenceInvariant == FenceSpec => []FenceInv
<1>1. FenceInv /\ [FenceNext]_fenceVars => FenceInv'
    BY FenceInductive
<1> QED BY <1>1, FenceInitially, PTL DEF FenceSpec

\* A fenced Firestore commit never follows one of a later generation.
THEOREM CommitsFollowGenerationsAlways == FenceSpec => CommitsFollowGenerations
<1>1. FenceInv /\ [FenceNext]_fenceVars => [committed' >= committed]_fenceVars
    BY FenceInductive
<1> QED BY <1>1, FenceInvariant, PTL DEF FenceSpec, CommitsFollowGenerations

\* Only a transaction of the lease's present generation can still commit.
THEOREM CommittableIsCurrentAlways == FenceSpec => []CommittableIsCurrent
<1>1. FenceInv => CommittableIsCurrent
    BY DEF FenceInv, JobInv, CommittableIsCurrent
<1> QED BY <1>1, FenceInvariant, PTL

\* No fenced or unfenced write lowers the generation of a record in place.
THEOREM RecordNeverRegressesAlways == FenceSpec => RecordNeverRegresses
<1> DEFINE Ordered == node # NoNode /\ node' # NoNode => node'.gen >= node.gen
<1>1. ASSUME FenceInv, FenceNext PROVE Ordered
  <2>1. CASE node' = node
      BY <1>1, <2>1 DEF FenceInv, FenceTypeOK, NodeValues, NoNode
  <2>2. CASE Telemetry
      BY <1>1, <2>2 DEF Telemetry, FenceInv, FenceTypeOK, NodeValues, NoNode
  <2>3. ASSUME NEW p \in Procs, RtCommit(p), node' # node PROVE Ordered
      BY <1>1, <2>3 DEF RtCommit, FenceInv, FenceTypeOK, Jobs, JobInv, NodeValues, NoNode
  <2>4. Telemetry \/ node' = node \/ \E p \in Procs : RtCommit(p)
      BY <1>1 DEF FenceNext, FenceStep, LeaseWrite, JobStep, FsBegin, RtBegin, Begin,
         FsRead, FsSend, FsCommit, RtCallback, SentFails
  <2> QED BY <2>1, <2>2, <2>3, <2>4
<1>2. FenceInv /\ [FenceNext]_fenceVars => [Ordered]_fenceVars
    BY <1>1
<1> QED BY <1>2, FenceInvariant, PTL DEF FenceSpec, RecordNeverRegresses

\* No write of a deposed worker, in either store, replaces its successor's.
THEOREM FencedWritesInOrderAlways == FenceSpec => FencedWritesInOrder
BY CommitsFollowGenerationsAlways, RecordNeverRegressesAlways DEF FencedWritesInOrder


-----------------------------------------------------------------------------
\* RideRetention.

Cleaning == [at : {"idle", "job", "assert", "recursing", "projections", "done"},
             kind : Kinds, fenced : BOOLEAN, found : BOOLEAN]

RetentionTypeOK ==
    /\ jobs \subseteq Kinds
    /\ clean \in [Cleaners -> Cleaning]
    /\ trip \in BOOLEAN

\* A deletion that goes on has its job, unless another finished the recursion;
\* one that is past the recursion left nothing.
CleaningInv(k) ==
    /\ k.at \in {"assert", "recursing"} => k.kind \in jobs \/ AllIsGone
    /\ k.at \in {"projections", "done"} => AllIsGone

RetentionInv ==
    /\ RetentionTypeOK
    /\ \A c \in Cleaners : CleaningInv(clean[c])
    /\ LeftoversHaveJob

LEMMA RetentionStarts == RetentionInit => RetentionInv
<1>1. Clean \in Cleaning /\ CleaningInv(Clean)
    BY DEF Cleaning, Kinds, Clean, CleaningInv
<1> QED BY <1>1 DEF RetentionInit, RetentionInv, RetentionTypeOK, CleaningInv, LeftoversHaveJob

\* A step of the deletion c executes that keeps what there is and the jobs.
LEMMA CleaningGoesOn ==
    ASSUME RetentionInv, NEW c \in Cleaners, NEW k \in Cleaning, CleaningInv(k),
           clean' = [clean EXCEPT ![c] = k], UNCHANGED <<ride, below, jobs>>, trip' \in BOOLEAN
    PROVE  RetentionInv'
BY DEF RetentionInv, RetentionTypeOK, CleaningInv, LeftoversHaveJob, AllIsGone

LEMMA RetentionKept == RetentionInv /\ [RetentionNext]_retentionVars => RetentionInv'
<1> SUFFICES ASSUME RetentionInv, [RetentionNext]_retentionVars
             PROVE  RetentionInv'
    OBVIOUS
<1>0. /\ jobs \subseteq Kinds /\ clean \in [Cleaners -> Cleaning] /\ trip \in BOOLEAN
      /\ \A c \in Cleaners : clean[c] \in Cleaning /\ CleaningInv(clean[c])
      /\ Clean \in Cleaning /\ CleaningInv(Clean)
    BY DEF RetentionInv, RetentionTypeOK, Cleaning, Kinds, Clean, CleaningInv
<1>1. CASE UNCHANGED retentionVars
    BY <1>1 DEF retentionVars, RetentionInv, RetentionTypeOK, CleaningInv, LeftoversHaveJob, AllIsGone
<1>2. CASE EndOfRide
    BY <1>2 DEF EndOfRide, RetentionInv, RetentionTypeOK, CleaningInv, LeftoversHaveJob, AllIsGone
<1>3. ASSUME NEW c \in Cleaners, DeleteHistory(c) PROVE RetentionInv'
  <2>1. PICK fenced \in BOOLEAN :
            clean' = [clean EXCEPT ![c] = [at |-> "job", kind |-> "manual", fenced |-> fenced, found |-> trip]]
      BY <1>3 DEF DeleteHistory
  <2> DEFINE k == [at |-> "job", kind |-> "manual", fenced |-> fenced, found |-> trip]
  <2>2. k \in Cleaning /\ CleaningInv(k)
      BY <1>0 DEF Cleaning, Kinds, CleaningInv
  <2> QED BY <1>0, <1>3, <2>1, <2>2, CleaningGoesOn DEF DeleteHistory
<1>4. ASSUME NEW c \in Cleaners, SweepRide(c) PROVE RetentionInv'
  <2>1. CASE clean' = [clean EXCEPT ![c] = [Clean EXCEPT !.at = "job", !.fenced = TRUE]]
    <3> DEFINE k == [Clean EXCEPT !.at = "job", !.fenced = TRUE]
    <3>1. k \in Cleaning /\ CleaningInv(k)
        BY DEF Cleaning, Kinds, Clean, CleaningInv
    <3> QED BY <1>0, <1>4, <2>1, <3>1, CleaningGoesOn DEF SweepRide
  <2>2. CASE "aged" \in jobs /\ clean' = [clean EXCEPT ![c] = [Clean EXCEPT !.at = "assert", !.fenced = TRUE]]
    <3> DEFINE k == [Clean EXCEPT !.at = "assert", !.fenced = TRUE]
    <3>1. k \in Cleaning /\ CleaningInv(k)
        BY <2>2 DEF Cleaning, Kinds, Clean, CleaningInv
    <3> QED BY <1>0, <1>4, <2>2, <3>1, CleaningGoesOn DEF SweepRide
  <2> QED BY <1>0, <1>4, <2>1, <2>2 DEF SweepRide
<1>5. ASSUME NEW c \in Cleaners, WriteJob(c) PROVE RetentionInv'
    BY <1>0, <1>5 DEF WriteJob, CleanAt, CleanGoes, RetentionInv, RetentionTypeOK, Cleaning, CleaningInv,
                      LeftoversHaveJob, AllIsGone
<1>6. ASSUME NEW c \in Cleaners, BeginRecursion(c) PROVE RetentionInv'
    BY <1>0, <1>6 DEF BeginRecursion, CleanAt, CleanGoes, RetentionInv, RetentionTypeOK, Cleaning, CleaningInv,
                      LeftoversHaveJob, AllIsGone
<1>7. ASSUME NEW c \in Cleaners, DeleteOne(c) PROVE RetentionInv'
  <2>1. clean[c].kind \in jobs \/ AllIsGone
      BY <1>0, <1>7 DEF DeleteOne, CleanAt, CleaningInv
  <2>2. AllIsGone => AllIsGone'
      BY <1>7 DEF DeleteOne, AllIsGone
  <2>3. jobs # {} \/ AllIsGone'
      BY <2>1, <2>2
  <2> QED BY <1>0, <1>7, <2>2, <2>3 DEF DeleteOne, RetentionInv, RetentionTypeOK, CleaningInv, LeftoversHaveJob, AllIsGone
<1>8. ASSUME NEW c \in Cleaners, EndRecursion(c) PROVE RetentionInv'
  <2> DEFINE k == [clean[c] EXCEPT !.at = IF clean[c].kind = "manual" THEN "projections" ELSE "done"]
  <2>1. k \in Cleaning /\ CleaningInv(k)
      BY <1>0, <1>8 DEF EndRecursion, Cleaning, CleaningInv
  <2>2. clean' = [clean EXCEPT ![c] = k]
      BY <1>8 DEF EndRecursion, CleanGoes
  <2> QED BY <1>0, <1>8, <2>1, <2>2, CleaningGoesOn DEF EndRecursion
<1>9. ASSUME NEW c \in Cleaners, DeleteProjections(c) PROVE RetentionInv'
  <2> DEFINE k == [clean[c] EXCEPT !.at = "done"]
  <2>1. k \in Cleaning /\ CleaningInv(k)
      BY <1>0, <1>9 DEF DeleteProjections, CleanAt, Cleaning, CleaningInv
  <2>2. clean' = [clean EXCEPT ![c] = k]
      BY <1>9 DEF DeleteProjections, CleanGoes
  <2> QED BY <1>0, <1>9, <2>1, <2>2, CleaningGoesOn DEF DeleteProjections
<1>10. ASSUME NEW c \in Cleaners, DeleteJob(c) PROVE RetentionInv'
  <2>1. AllIsGone /\ UNCHANGED <<ride, below>>
      BY <1>0, <1>10 DEF DeleteJob, CleanAt, CleaningInv
  <2>2. AllIsGone'
      BY <2>1 DEF AllIsGone
  <2> QED BY <1>0, <1>10, <2>2 DEF DeleteJob, CleanEnds, RetentionInv, RetentionTypeOK, CleaningInv,
                                    LeftoversHaveJob, AllIsGone
<1>11. ASSUME NEW c \in Cleaners, CleanFails(c) PROVE RetentionInv'
    BY <1>0, <1>11, CleaningGoesOn DEF CleanFails, Abandons, CleanEnds
<1>12. ASSUME NEW c \in Cleaners, NextSweeper(c) PROVE RetentionInv'
    BY <1>0, <1>12 DEF NextSweeper, RetentionInv, RetentionTypeOK, CleaningInv, LeftoversHaveJob, AllIsGone
<1> QED BY <1>1, <1>2, <1>3, <1>4, <1>5, <1>6, <1>7, <1>8, <1>9, <1>10, <1>11, <1>12 DEF RetentionNext

THEOREM RetentionInvariant == RetentionSpec => []RetentionInv
BY RetentionStarts, RetentionKept, PTL DEF RetentionSpec

\* What a deletion left below a ride that is gone has a job, however many
\* processes delete it, fail, resume one another's jobs and lose the lead
\* (services/rideHistoryDeletion.ts, retentionSweeper.ts).
THEOREM LeftoversHaveJobAlways == RetentionSpec => []LeftoversHaveJob
<1>1. RetentionInv => LeftoversHaveJob
    BY DEF RetentionInv
<1> QED BY RetentionInvariant, <1>1, PTL

-----------------------------------------------------------------------------
\* FleetOperations.

Task == [at : {"idle", "queued", "claiming", "claimed", "locking", "creating", "working", "unlocking",
               "settling"},
         key : Keys \cup {NoKey}, current : BOOLEAN, owner : Nat, good : BOOLEAN, sent : BOOLEAN]
Mutex == [owner : Nat, executor : Servers \cup {"nobody"}, key : Keys \cup {NoKey}]

OperationTypeOK ==
    /\ server \in [Servers -> {"up", "draining", "down"}]
    /\ task \in [Servers -> Task]
    /\ mutex \in Mutex /\ form \in Mutex /\ owners \in Nat

\* A process takes the mutex for a token that was never in it.
MayCreate(s) == task[s].at = "creating" /\ (Running(s) \/ task[s].sent)

\* A token belongs to one task and to one use of the mutex, so an administrator
\* who saw a token saw the mutex of its use.
TokenInv ==
    /\ \A s \in Servers : task[s].owner <= owners
    /\ mutex.owner <= owners /\ form.owner <= owners
    /\ mutex.owner = 0 => mutex = NoMutex
    /\ form.owner = 0 => form = NoMutex
    /\ \A s \in Servers : task[s].at \in {"creating", "working", "unlocking"} => task[s].owner # 0
    /\ \A s, t \in Servers : task[s].owner = task[t].owner /\ task[s].owner # 0 => s = t
    /\ \A s \in Servers : MayCreate(s) => task[s].owner \notin {mutex.owner, form.owner}
    /\ form.owner = mutex.owner => form = mutex

\* Who works has the mutex.
WorkingInv ==
    \A s \in Servers : At(s, "working") => mutex.owner = task[s].owner /\ mutex.executor = s

OperationInv == OperationTypeOK /\ TokenInv /\ WorkingInv

LEMMA OperationStarts == OperationInit => OperationInv
<1> SUFFICES ASSUME OperationInit PROVE OperationInv
    OBVIOUS
<1>1. Idle \in Task /\ NoMutex \in Mutex
    BY DEF Idle, Task, NoMutex, Mutex
<1>2. OperationTypeOK
    BY <1>1 DEF OperationInit, OperationTypeOK
<1>3. TokenInv /\ WorkingInv
    BY DEF OperationInit, TokenInv, WorkingInv, MayCreate, At, Idle, NoMutex
<1> QED BY <1>2, <1>3 DEF OperationInv

\* A step of one task that leaves the mutex alone and draws no token: it keeps
\* its token or has none.
LEMMA TaskGoesOn ==
    ASSUME OperationInv, NEW s \in Servers, NEW k \in Task,
           task' = [task EXCEPT ![s] = k], UNCHANGED <<server, mutex, owners, form>>,
           k.owner = 0 \/ k.owner = task[s].owner,
           k.at \in {"creating", "working", "unlocking"} =>
               k.owner = task[s].owner /\ task[s].at \in {"creating", "working", "unlocking"},
           k.at = "creating" => task[s].at = "creating" /\ k.sent = task[s].sent,
           k.at = "working" => task[s].at = "working"
    PROVE  OperationInv'
<1>1. OperationTypeOK'
    BY DEF OperationInv, OperationTypeOK
<1>2. TokenInv'
  <2>1. task'[s] = k /\ \A t \in Servers \ {s} : task'[t] = task[t]
      BY DEF OperationInv, OperationTypeOK
  <2>2. \A t \in Servers : task[t].owner \in Nat
      BY DEF OperationInv, OperationTypeOK, Task
  <2>3. \A t \in Servers : task'[t].owner <= owners
      BY <2>1, <2>2 DEF OperationInv, OperationTypeOK, TokenInv
  <2>4. \A t \in Servers : task'[t].at \in {"creating", "working", "unlocking"} => task'[t].owner # 0
      BY <2>1 DEF OperationInv, TokenInv
  <2>5. \A t, u \in Servers : task'[t].owner = task'[u].owner /\ task'[t].owner # 0 => t = u
      BY <2>1 DEF OperationInv, TokenInv
  <2>6. \A t \in Servers : MayCreate(t)' => MayCreate(t) /\ task'[t].owner = task[t].owner
      BY <2>1 DEF MayCreate, Running
  <2>7. \A t \in Servers : MayCreate(t)' => task'[t].owner \notin {mutex.owner, form.owner}
      BY <2>6 DEF OperationInv, TokenInv
  <2> QED BY <2>3, <2>4, <2>5, <2>7 DEF OperationInv, TokenInv
<1>3. WorkingInv'
    BY DEF OperationInv, OperationTypeOK, WorkingInv, At, Running
<1> QED BY <1>1, <1>2, <1>3 DEF OperationInv

\* A step that leaves the tasks, the mutex and the form alone.
LEMMA TokensKept ==
    ASSUME OperationInv, UNCHANGED <<server, task, mutex, owners, form>>
    PROVE  OperationInv'
BY DEF OperationInv, OperationTypeOK, TokenInv, WorkingInv, MayCreate, At, Running

\* A new token: no task, mutex or form has it.
LEMMA TokenDrawn ==
    ASSUME OperationInv, NEW s \in Servers, NEW k \in Task,
           task' = [task EXCEPT ![s] = k], owners' = owners + 1, UNCHANGED <<server, mutex, form>>,
           k.owner = owners + 1, k.at = "creating"
    PROVE  OperationInv'
<1>1. task'[s] = k /\ \A t \in Servers \ {s} : task'[t] = task[t]
    BY DEF OperationInv, OperationTypeOK
<1>2. /\ owners \in Nat /\ mutex.owner \in Nat /\ form.owner \in Nat
      /\ \A t \in Servers : task[t].owner \in Nat
    BY DEF OperationInv, OperationTypeOK, Task, Mutex
<1>3. OperationTypeOK'
    BY <1>2 DEF OperationInv, OperationTypeOK
<1>4. TokenInv'
  <2>1. \A t \in Servers : task'[t].owner <= owners'
      BY <1>1, <1>2 DEF OperationInv, TokenInv
  <2>2. \A t \in Servers : task'[t].at \in {"creating", "working", "unlocking"} => task'[t].owner # 0
      BY <1>1, <1>2 DEF OperationInv, TokenInv
  <2>3. \A t, u \in Servers : task'[t].owner = task'[u].owner /\ task'[t].owner # 0 => t = u
      BY <1>1, <1>2 DEF OperationInv, TokenInv
  <2>4. \A t \in Servers : MayCreate(t)' => task'[t].owner \notin {mutex.owner, form.owner}
      BY <1>1, <1>2 DEF OperationInv, TokenInv, MayCreate, Running
  <2> QED BY <1>2, <2>1, <2>2, <2>3, <2>4 DEF OperationInv, TokenInv
<1>5. WorkingInv'
    BY <1>1 DEF OperationInv, WorkingInv, At, Running
<1> QED BY <1>3, <1>4, <1>5 DEF OperationInv

\* The mutex is created, by a task that goes on to work or away.
LEMMA MutexCreated ==
    ASSUME OperationInv, NEW s \in Servers, NEW k \in Task, MayCreate(s), CreateMutex(s),
           task' = [task EXCEPT ![s] = k], UNCHANGED <<server, owners, form>>,
           \/ k.at = "working" /\ k.owner = task[s].owner
           \/ k.at \notin {"creating", "working", "unlocking"} /\ k.owner = 0
           \/ k.at = "creating" /\ k.owner = task[s].owner /\ ~k.sent /\ ~Running(s)
    PROVE  OperationInv'
<1>1. task'[s] = k /\ \A t \in Servers \ {s} : task'[t] = task[t]
    BY DEF OperationInv, OperationTypeOK
<1>2. /\ task[s].key \in Keys \cup {NoKey} /\ mutex = NoMutex /\ task[s].owner # 0
      /\ \A t \in Servers : task[t].owner \in Nat
    BY DEF OperationInv, OperationTypeOK, Task, CreateMutex, TokenInv, MayCreate
<1>3. mutex' = [owner |-> task[s].owner, executor |-> s, key |-> task[s].key]
    BY DEF CreateMutex
<1>4. OperationTypeOK'
    BY <1>2, <1>3 DEF OperationInv, OperationTypeOK, Mutex
<1>5. TokenInv'
  <2>1. \A t \in Servers : task'[t].owner <= owners
      BY <1>1, <1>2 DEF OperationInv, OperationTypeOK, TokenInv
  <2>2. \A t \in Servers : task'[t].at \in {"creating", "working", "unlocking"} => task'[t].owner # 0
      BY <1>1, <1>2 DEF OperationInv, TokenInv
  <2>3. \A t, u \in Servers : task'[t].owner = task'[u].owner /\ task'[t].owner # 0 => t = u
      BY <1>1, <1>2 DEF OperationInv, TokenInv
  <2>4. ~MayCreate(s)'
      BY <1>1 DEF MayCreate, Running
  <2>5. \A t \in Servers : MayCreate(t)' => task'[t].owner \notin {mutex'.owner, form.owner}
      BY <1>1, <1>2, <1>3, <2>4 DEF OperationInv, TokenInv, MayCreate, Running
  <2>6. task[s].owner # form.owner
      BY DEF OperationInv, TokenInv
  <2>7. mutex'.owner = task[s].owner /\ task[s].owner <= owners
      BY <1>3 DEF OperationInv, TokenInv
  <2> QED BY <1>2, <2>1, <2>2, <2>3, <2>5, <2>6, <2>7 DEF OperationInv, TokenInv
<1>6. WorkingInv'
  <2>1. ASSUME NEW t \in Servers, At(t, "working")'
        PROVE  mutex'.owner = task'[t].owner /\ mutex'.executor = t
    <3>1. CASE t = s
        BY <1>1, <1>2, <1>3, <2>1, <3>1 DEF At
    <3>2. CASE t # s
      <4>1. At(t, "working")
          BY <1>1, <2>1, <3>2 DEF At, Running
      <4>2. task[t].owner = 0
          BY <1>2, <4>1 DEF OperationInv, WorkingInv, NoMutex
      <4> QED BY <4>1, <4>2 DEF OperationInv, TokenInv, At
    <3> QED BY <3>1, <3>2
  <2> QED BY <2>1 DEF WorkingInv
<1> QED BY <1>4, <1>5, <1>6 DEF OperationInv

\* A task gives back what its token holds, or nothing.
LEMMA MutexDeleted ==
    ASSUME OperationInv, NEW s \in Servers, NEW k \in Task, task[s].at = "unlocking", DeleteMutex(s),
           task' = [task EXCEPT ![s] = k], UNCHANGED <<server, owners, form>>,
           \/ k.at \notin {"creating", "working", "unlocking"} /\ k.owner = 0
           \/ k.at = "unlocking" /\ k.owner = task[s].owner
    PROVE  OperationInv'
<1>1. task'[s] = k /\ \A t \in Servers \ {s} : task'[t] = task[t]
    BY DEF OperationInv, OperationTypeOK
<1>2. /\ mutex' \in {NoMutex, mutex} /\ mutex' = (IF mutex.owner = task[s].owner THEN NoMutex ELSE mutex)
      /\ task[s].owner # 0 /\ mutex.owner \in Nat /\ owners \in Nat
      /\ \A t \in Servers : task[t].owner \in Nat
    BY DEF OperationInv, OperationTypeOK, Task, Mutex, DeleteMutex, TokenInv
<1>3. OperationTypeOK'
    BY <1>2 DEF OperationInv, OperationTypeOK, Mutex, NoMutex
<1>4. NoMutex.owner = 0
    BY DEF NoMutex
<1>5. TokenInv'
  <2>1. \A t \in Servers : task'[t].owner <= owners
      BY <1>1, <1>2 DEF OperationInv, OperationTypeOK, TokenInv
  <2>2. \A t \in Servers : task'[t].at \in {"creating", "working", "unlocking"} => task'[t].owner # 0
      BY <1>1, <1>2 DEF OperationInv, TokenInv
  <2>3. \A t, u \in Servers : task'[t].owner = task'[u].owner /\ task'[t].owner # 0 => t = u
      BY <1>1, <1>2 DEF OperationInv, TokenInv
  <2>4. \A t \in Servers : MayCreate(t)' => task'[t].owner \notin {mutex'.owner, form.owner}
      BY <1>1, <1>2, <1>4, <2>2 DEF OperationInv, TokenInv, MayCreate, Running
  <2>5. form.owner = mutex'.owner => form = mutex'
      BY <1>2, <1>4 DEF OperationInv, TokenInv
  <2> QED BY <1>2, <1>4, <2>1, <2>2, <2>3, <2>4, <2>5 DEF OperationInv, TokenInv
<1>6. WorkingInv'
    BY <1>1, <1>2 DEF OperationInv, WorkingInv, TokenInv, At, Running
<1> QED BY <1>3, <1>5, <1>6 DEF OperationInv

\* What a task becomes after the mutex has no token.
LEMMA TaskLeaves ==
    ASSUME OperationInv, NEW s \in Servers, NEW good \in BOOLEAN, Leaves(s, good)
    PROVE  \E k \in Task : /\ task' = [task EXCEPT ![s] = k]
                           /\ k.at \in {"idle", "settling"} /\ k.owner = 0
<1> DEFINE k == IF task[s].key = NoKey THEN Idle
                ELSE [task[s] EXCEPT !.at = "settling", !.owner = 0, !.good = @ /\ good]
<1>1. task[s] \in Task /\ Idle \in Task
    BY DEF OperationInv, OperationTypeOK, Task, Idle
<1>2. k \in Task /\ k.at \in {"idle", "settling"} /\ k.owner = 0
    BY <1>1 DEF Task, Idle
<1>3. task' = [task EXCEPT ![s] = k]
    BY DEF Leaves
<1> QED BY <1>2, <1>3

LEMMA OperationKept == OperationInv /\ [OperationNext]_operationVars => OperationInv'
<1> SUFFICES ASSUME OperationInv, [OperationNext]_operationVars
             PROVE  OperationInv'
    OBVIOUS
<1>0. /\ task \in [Servers -> Task] /\ Idle \in Task /\ Idle.owner = 0 /\ Idle.at = "idle"
      /\ \A s \in Servers : task[s] \in Task
    BY DEF OperationInv, OperationTypeOK, Task, Idle
<1>A. ASSUME NEW s \in Servers, Ends(s), UNCHANGED <<server, mutex, owners, form>>
      PROVE  OperationInv'
    BY <1>0, <1>A, TaskGoesOn DEF Ends
<1>B. ASSUME NEW s \in Servers, NEW place \in {"claiming", "claimed", "locking", "unlocking", "settling"},
             Goes(s, place) \/ Fails(s, place), UNCHANGED <<server, mutex, owners, form>>,
             place = "unlocking" => task[s].at = "working"
      PROVE  OperationInv'
  <2> DEFINE k == [task[s] EXCEPT !.at = place]
             kf == [task[s] EXCEPT !.at = place, !.good = FALSE]
  <2>1. /\ k \in Task /\ k.owner = task[s].owner /\ k.at = place
        /\ kf \in Task /\ kf.owner = task[s].owner /\ kf.at = place
      BY <1>0 DEF Task
  <2>2. task' = [task EXCEPT ![s] = k] \/ task' = [task EXCEPT ![s] = kf]
      BY <1>B DEF Goes, Fails
  <2> HIDE DEF k, kf
  <2> QED BY <1>B, <2>1, <2>2, TaskGoesOn
<1>1. CASE UNCHANGED operationVars
    BY <1>1, TokensKept DEF operationVars
<1>2. ASSUME NEW s \in Servers, TaskStep(s) PROVE OperationInv'
  <2>1. CASE CallerLeaves(s)
    <3> DEFINE k == [task[s] EXCEPT !.current = FALSE]
    <3>1. k \in Task /\ k.owner = task[s].owner /\ k.at = task[s].at /\ k.at \in {"queued", "claiming", "claimed"}
        BY <1>0, <2>1 DEF Task, CallerLeaves
    <3>2. task' = [task EXCEPT ![s] = k] /\ UNCHANGED <<server, mutex, owners, form>>
        BY <2>1 DEF CallerLeaves
    <3> HIDE DEF k
    <3> QED BY <3>1, <3>2, TaskGoesOn
  <2>2. CASE Dequeue(s)
      BY <1>A, <1>B, <2>2 DEF Dequeue
  <2>3. CASE Claim(s)
      BY <1>A, <1>B, <2>3 DEF Claim
  <2>4. CASE Launch(s)
      BY <1>A, <1>B, <2>4 DEF Launch
  <2>5. CASE Settle(s)
      BY <1>A, <2>5 DEF Settle
  <2>6. CASE Mutate(s)
    <3> DEFINE n == owners + 1
               k == [Idle EXCEPT !.at = "creating", !.owner = n]
    <3>0. n \in Nat
        BY DEF OperationInv, OperationTypeOK
    <3> HIDE DEF n
    <3>1. k \in Task /\ k.owner = n /\ k.at = "creating"
        BY <3>0 DEF Task, Idle
    <3> USE DEF n
    <3>2. task' = [task EXCEPT ![s] = k] /\ owners' = owners + 1 /\ UNCHANGED <<server, mutex, form>>
        BY <2>6 DEF Mutate
    <3> HIDE DEF k
    <3> QED BY <3>1, <3>2, TokenDrawn
  <2>7. CASE RecordLocking(s)
    <3>1. CASE /\ owners' = owners + 1
               /\ task' = [task EXCEPT ![s].at = "creating", ![s].owner = owners + 1]
      <4> DEFINE n == owners + 1
                 k == [task[s] EXCEPT !.at = "creating", !.owner = n]
      <4>0. n \in Nat
          BY DEF OperationInv, OperationTypeOK
      <4> HIDE DEF n
      <4>1. k \in Task /\ k.owner = n /\ k.at = "creating"
          BY <1>0, <4>0 DEF Task
      <4> USE DEF n
      <4>2. task' = [task EXCEPT ![s] = k] /\ owners' = owners + 1 /\ UNCHANGED <<server, mutex, form>>
          BY <1>0, <2>7, <3>1 DEF RecordLocking
      <4> HIDE DEF k
      <4> QED BY <4>1, <4>2, TokenDrawn
    <3> QED BY <1>B, <2>7, <3>1 DEF RecordLocking
  <2>8. CASE Lock(s)
    <3>0. MayCreate(s) /\ UNCHANGED <<server, owners, form>> /\ task[s].at = "creating"
        BY <2>8 DEF Lock, At, MayCreate
    <3>1. CASE CreateMutex(s) /\ Goes(s, "working")
      <4> DEFINE k == [task[s] EXCEPT !.at = "working"]
      <4>1. k \in Task /\ k.owner = task[s].owner /\ k.at = "working"
          BY <1>0 DEF Task
      <4>2. task' = [task EXCEPT ![s] = k]
          BY <3>1 DEF Goes
      <4> HIDE DEF k
      <4> QED BY <3>0, <3>1, <4>1, <4>2, MutexCreated
    <3>2. CASE CreateMutex(s) /\ Leaves(s, FALSE)
        BY <3>0, <3>2, TaskLeaves, MutexCreated
    <3>3. CASE UNCHANGED mutex /\ Leaves(s, FALSE)
        BY <3>0, <3>3, TaskLeaves, TaskGoesOn
    <3> QED BY <2>8, <3>1, <3>2, <3>3 DEF Lock
  <2>9. CASE Work(s)
    <3>1. CASE UNCHANGED task
        BY <2>9, <3>1, TokensKept DEF Work
    <3> QED BY <1>B, <2>9, <3>1 DEF Work, At
  <2>10. CASE Unlock(s)
    <3>0. task[s].at = "unlocking" /\ UNCHANGED <<server, owners, form>>
        BY <2>10 DEF Unlock, At
    <3>1. CASE DeleteMutex(s) /\ Leaves(s, TRUE)
        BY <3>0, <3>1, TaskLeaves, MutexDeleted
    <3>2. CASE UNCHANGED mutex /\ Leaves(s, FALSE)
        BY <3>0, <3>2, TaskLeaves, TaskGoesOn
    <3> QED BY <2>10, <3>1, <3>2 DEF Unlock
  <2> QED BY <1>2, <2>1, <2>2, <2>3, <2>4, <2>5, <2>6, <2>7, <2>8, <2>9, <2>10 DEF TaskStep
<1>3. ASSUME NEW s \in Servers, ServerStep(s) PROVE OperationInv'
  <2>1. CASE Drain(s)
    <3>1. UNCHANGED <<task, mutex, owners, form>> /\ server' = [server EXCEPT ![s] = "draining"]
        BY <2>1 DEF Drain
    <3>2. \A t \in Servers : Running(t)' => Running(t)
        BY <2>1, <3>1 DEF OperationInv, OperationTypeOK, Drain, Running
    <3> QED BY <3>1, <3>2 DEF OperationInv, OperationTypeOK, TokenInv, WorkingInv, MayCreate, At
  <2>2. CASE Stop(s)
    <3>1. PICK sent \in BOOLEAN : task' = task \/ task' = [task EXCEPT ![s].sent = sent]
        BY <2>2 DEF Stop
    <3>2. UNCHANGED <<mutex, owners, form>> /\ server' = [server EXCEPT ![s] = "down"] /\ Running(s)
        BY <2>2 DEF OperationInv, OperationTypeOK, Stop, Running
    <3>3. task' \in [Servers -> Task]
        BY <1>0, <3>1 DEF Task
    <3>4. \A t \in Servers : /\ task'[t].at = task[t].at /\ task'[t].owner = task[t].owner
                             /\ Running(t)' => Running(t) /\ task'[t] = task[t]
                             /\ t # s => task'[t] = task[t] /\ (Running(t)' <=> Running(t))
        BY <1>0, <3>1, <3>2 DEF OperationInv, OperationTypeOK, Running, Task
    <3>5. OperationTypeOK'
        BY <3>2, <3>3 DEF OperationInv, OperationTypeOK
    <3>6. \A t \in Servers : MayCreate(t)' => MayCreate(t)
        BY <3>2, <3>4 DEF MayCreate
    <3>7. TokenInv'
        BY <3>2, <3>4, <3>6 DEF OperationInv, TokenInv
    <3>8. WorkingInv'
        BY <3>2, <3>4 DEF OperationInv, WorkingInv, At
    <3> QED BY <3>5, <3>7, <3>8 DEF OperationInv
  <2>3. CASE LateWrite(s)
    <3> DEFINE k == [task[s] EXCEPT !.sent = FALSE]
    <3>1. k \in Task /\ k.owner = task[s].owner /\ k.at = task[s].at /\ k.sent = FALSE
        BY <1>0 DEF Task
    <3>2. /\ task' = [task EXCEPT ![s] = k] /\ UNCHANGED <<server, owners, form>>
          /\ ~Running(s) /\ task[s].sent
        BY <2>3 DEF LateWrite
    <3> HIDE DEF k
    <3>3. CASE task[s].at = "creating" /\ CreateMutex(s)
        BY <3>1, <3>2, <3>3, MutexCreated DEF MayCreate
    <3>4. CASE task[s].at = "unlocking" /\ DeleteMutex(s)
        BY <3>1, <3>2, <3>4, MutexDeleted
    <3>5. CASE UNCHANGED mutex /\ task[s].at \in {"claiming", "settling"}
        BY <3>1, <3>2, <3>5, TaskGoesOn
    <3> QED BY <2>3, <3>3, <3>4, <3>5 DEF LateWrite
  <2>4. CASE SeeMutex(s)
    <3>1. UNCHANGED <<server, task, mutex, owners>> /\ form' = mutex
        BY <2>4 DEF SeeMutex
    <3>2. OperationTypeOK' /\ WorkingInv'
        BY <3>1 DEF OperationInv, OperationTypeOK, WorkingInv, At, Running
    <3>3. TokenInv'
        BY <3>1 DEF OperationInv, TokenInv, MayCreate, Running
    <3> QED BY <3>2, <3>3 DEF OperationInv
  <2>5. CASE RecoverMutex(s)
    <3>1. UNCHANGED <<server, task, owners>> /\ form' = NoMutex /\ mutex' = NoMutex
        BY <2>5 DEF RecoverMutex
    <3>2. /\ form = mutex /\ ~OwnsLocally(s, mutex.owner) /\ Attested(s, mutex.executor)
          /\ mutex # NoMutex
        BY <2>5 DEF RecoverMutex, Identity, OperationInv, TokenInv
    <3>3. mutex.owner # 0
        BY <3>2 DEF OperationInv, TokenInv
    <3>4. \A t \in Servers : ~At(t, "working")
      <4>1. SUFFICES ASSUME NEW t \in Servers, At(t, "working") PROVE FALSE
          OBVIOUS
      <4>2. mutex.owner = task[t].owner /\ mutex.executor = t
          BY <4>1 DEF OperationInv, WorkingInv
      <4>3. t = s
          BY <3>2, <4>1, <4>2 DEF Attested, At, Running
      <4> QED BY <3>2, <3>3, <4>2, <4>3 DEF OwnsLocally
    <3>5. NoMutex \in Mutex /\ NoMutex.owner = 0
        BY DEF NoMutex, Mutex
    <3>6. OperationTypeOK' /\ WorkingInv'
        BY <3>1, <3>4, <3>5 DEF OperationInv, OperationTypeOK, WorkingInv, At, Running
    <3>7. TokenInv'
      <4>1. \A t \in Servers : MayCreate(t)' => task[t].owner # 0
          BY <3>1 DEF OperationInv, TokenInv, MayCreate
      <4> QED BY <3>1, <3>5, <4>1 DEF OperationInv, OperationTypeOK, TokenInv
    <3> QED BY <3>6, <3>7 DEF OperationInv
  <2> QED BY <1>3, <2>1, <2>2, <2>3, <2>4, <2>5 DEF ServerStep
<1>4. ASSUME NEW s \in Servers, NEW k \in Keys, Submit(s, k) PROVE OperationInv'
  <2> DEFINE j == [Idle EXCEPT !.at = "queued", !.key = k, !.current = TRUE]
  <2>1. j \in Task /\ j.owner = 0 /\ j.at = "queued"
      BY DEF Task, Idle
  <2>2. task' = [task EXCEPT ![s] = j] /\ UNCHANGED <<server, mutex, owners, form>>
      BY <1>4 DEF Submit
  <2> HIDE DEF j
  <2> QED BY <2>1, <2>2, TaskGoesOn
<1>5. ASSUME NEW s \in Servers, NEW k \in Keys, ReadOperation(s, k) \/ RecoverOperation(s, k)
      PROVE  OperationInv'
    BY <1>5, TokensKept DEF ReadOperation, RecoverOperation
<1>6. ASSUME NEW k \in Keys, Expire(k) PROVE OperationInv'
    BY <1>6, TokensKept DEF Expire
<1> QED BY <1>1, <1>2, <1>3, <1>4, <1>5, <1>6 DEF OperationNext

THEOREM OperationInvariant == OperationSpec => []OperationInv
BY OperationStarts, OperationKept, PTL DEF OperationSpec

Operation == [status : {"missing", "processing", "succeeded", "failed"},
              phase : {"none", "claimed", "executing", "locking", "authorizing", "completed", "not_started",
                       "recovery_required", "recovered"},
              executor : Servers \cup {"nobody"}, generation : Nat, expired : BOOLEAN]

RecordTypeOK == record \in [Keys -> Operation]

\* A settled record is not processing: no write of an execution, of a reader or
\* of an administrator is for it.
LEMMA RecordsKept ==
    ASSUME RecordTypeOK, [OperationNext]_operationVars
    PROVE  RecordTypeOK' /\ SettledStays
<1> DEFINE Kept == record' \in [Keys -> Operation] /\ \A k \in Keys : Settled(k) => record'[k] = record[k]
<1> SUFFICES Kept
    BY DEF RecordTypeOK, SettledStays
<1>0. record \in [Keys -> Operation] /\ \A k \in Keys : record[k] \in Operation
    BY DEF RecordTypeOK
<1>1. CASE UNCHANGED record
    BY <1>0, <1>1
<1>W. ASSUME NEW j, NEW op \in Operation, record' = [record EXCEPT ![j] = op],
             j \in Keys => record[j].status \in {"missing", "processing"}
      PROVE  Kept
  <2>1. CASE j \in Keys
      BY <1>0, <1>W, <2>1 DEF Settled
  <2>2. CASE j \notin Keys
      BY <1>0, <1>W, <2>2
  <2> QED BY <2>1, <2>2
<1>O. ASSUME NEW s \in Servers, NEW j, record[j].status = "processing",
             NEW phase \in {"executing", "locking", "authorizing", "completed", "not_started", "recovery_required"},
             \/ Checkpoint(s, j, phase)
             \/ Outcome(j, "failed", phase)
             \/ Outcome(j, "succeeded", phase)
      PROVE  Kept
  <2>0. CASE j \notin Keys
      BY <1>0, <1>1, <1>O, <2>0 DEF Checkpoint, Outcome
  <2>1. CASE j \in Keys /\ Checkpoint(s, j, phase)
    <3> DEFINE op == [record[j] EXCEPT !.phase = phase]
    <3>1. op \in Operation
        BY <1>0, <1>O, <2>1 DEF Operation
    <3>2. record' = [record EXCEPT ![j] = op]
        BY <1>0, <1>O, <2>1 DEF Checkpoint
    <3> HIDE DEF op
    <3> QED BY <1>O, <1>W, <3>1, <3>2
  <2>2. ASSUME j \in Keys, NEW status \in {"failed", "succeeded"}, Outcome(j, status, phase) PROVE Kept
    <3> DEFINE op == [record[j] EXCEPT !.status = status, !.phase = phase]
    <3>1. op \in Operation
        BY <1>0, <1>O, <2>2 DEF Operation
    <3>2. record' = [record EXCEPT ![j] = op]
        BY <1>0, <1>O, <2>2 DEF Outcome
    <3> HIDE DEF op
    <3> QED BY <1>O, <1>W, <3>1, <3>2
  <2> QED BY <1>O, <2>0, <2>1, <2>2
<1>C. ASSUME NEW s \in Servers, NEW j, record[j] = NoOperation, Claims(s, j) PROVE Kept
  <2> DEFINE op == [status |-> "processing", phase |-> "claimed", executor |-> s, generation |-> 1,
                    expired |-> FALSE]
  <2>1. op \in Operation
      BY DEF Operation
  <2>2. record' = [record EXCEPT ![j] = op] /\ record[j].status = "missing"
      BY <1>C DEF Claims, NoOperation
  <2> HIDE DEF op
  <2> QED BY <1>W, <2>1, <2>2
<1> HIDE DEF Kept
<1>2. ASSUME NEW s \in Servers, TaskStep(s) PROVE Kept
  <2>1. CASE Claim(s)
      BY <1>1, <1>C, <2>1 DEF Claim
  <2>2. CASE Launch(s)
      BY <1>1, <1>O, <2>2 DEF Launch, Owned
  <2>3. CASE Settle(s)
      BY <1>1, <1>O, <2>3 DEF Settle, Owned
  <2>4. CASE RecordLocking(s)
      BY <1>1, <1>O, <2>4 DEF RecordLocking, Owned
  <2>5. CASE Work(s)
      BY <1>1, <1>O, <2>5 DEF Work, Owned
  <2>6. CASE CallerLeaves(s) \/ Dequeue(s) \/ Mutate(s) \/ Lock(s) \/ Unlock(s)
      BY <1>1, <2>6 DEF CallerLeaves, Dequeue, Mutate, Lock, Unlock
  <2> QED BY <1>2, <2>1, <2>2, <2>3, <2>4, <2>5, <2>6 DEF TaskStep
<1>3. ASSUME NEW s \in Servers, ServerStep(s) PROVE Kept
  <2>1. CASE LateWrite(s)
      BY <1>1, <1>C, <1>O, <2>1 DEF LateWrite, Owned
  <2> QED BY <1>1, <1>3, <2>1 DEF ServerStep, Drain, Stop, SeeMutex, RecoverMutex
<1>4. ASSUME NEW s \in Servers, NEW k \in Keys, Submit(s, k) \/ ReadOperation(s, k) PROVE Kept
    BY <1>1, <1>4, <1>O DEF Submit, ReadOperation
<1>5. ASSUME NEW s \in Servers, NEW k \in Keys, RecoverOperation(s, k) PROVE Kept
  <2> DEFINE n == record[k].generation + 1
             op == [record[k] EXCEPT !.status = "failed", !.phase = "recovered", !.generation = n]
  <2>0. n \in Nat
      BY <1>0 DEF Operation
  <2> HIDE DEF n
  <2>1. op \in Operation
      BY <1>0, <2>0 DEF Operation
  <2> USE DEF n
  <2>2. record' = [record EXCEPT ![k] = op] /\ record[k].status = "processing"
      BY <1>0, <1>5 DEF RecoverOperation
  <2> HIDE DEF op
  <2> QED BY <1>W, <2>1, <2>2
<1>6. ASSUME NEW k \in Keys, Expire(k) PROVE Kept
  <2> DEFINE op == [record[k] EXCEPT !.expired = TRUE]
  <2>1. op \in Operation
      BY <1>0 DEF Operation
  <2>2. record' = [record EXCEPT ![k] = op] /\ record[k].status = "processing"
      BY <1>0, <1>6 DEF Expire
  <2> HIDE DEF op
  <2> QED BY <1>W, <2>1, <2>2
<1> QED BY <1>1, <1>2, <1>3, <1>4, <1>5, <1>6 DEF OperationNext, operationVars

\* Two processes are never inside fleet work together, and the outcome of an
\* operation is written once, whatever administrators recover, processes are
\* killed and answers are lost (services/fleetMutationLock.ts, httpOperations.ts).
THEOREM RecoveryIsSafeAlways == OperationSpec => RecoveryIsSafe
<1>1. OperationInv => FleetMutex
    BY DEF OperationInv, WorkingInv, FleetMutex, TokenInv, At
<1>2. OperationInit => RecordTypeOK
    BY DEF OperationInit, RecordTypeOK, Operation, NoOperation
<1>3. RecordTypeOK /\ [OperationNext]_operationVars => RecordTypeOK' /\ SettledStays
    BY RecordsKept
<1>4. FleetMutex' /\ SettledStays => [FleetMutex' /\ SettledStays]_operationVars
    OBVIOUS
<1> QED BY OperationInvariant, <1>1, <1>2, <1>3, <1>4, PTL DEF OperationSpec, RecoveryIsSafe

-----------------------------------------------------------------------------
\* FleetRegistry.

Versions == 1..6
Roles == {"passenger", "blocked", "driver"}
RightSets == [role : Roles, driver : Drivers \cup {"none"}, bus : Buses \cup {"none"}]
Records == [version : Versions \cup {0}, role : Roles, driver : Drivers \cup {"none"}, bus : Buses \cup {"none"}]
Grants == [bus : Buses \cup {"none"}, routes : Nat]
Publications == [account : Accounts \cup {"none"}, at : {"none", "block", "claims", "activate"},
                 version : Versions \cup {0}, rights : RightSets]
GrantWrites == [driver : Drivers \cup {"none"}, value : Grants]
Changes == [kind : {"none", "put", "delete", "bus", "unbus", "reconcile"},
            at : {"none", "register", "authorize", "remove", "done", "unassign", "reconciled"},
            driver : Drivers \cup {"none"}, account : Accounts \cup {"none"}, bus : Buses \cup {"none"},
            todo : SUBSET Drivers, pub : Publications, write : GrantWrites, failed : BOOLEAN]
LateWrites == [store : Stores, account : Accounts, record : Records]

RegistryTypeOK ==
    /\ registry \in [Drivers -> [account : Accounts \cup {"none"}, bus : Buses \cup {"none"}]]
    /\ bus \in [Buses -> Nat]
    /\ grant \in [Drivers -> Grants]
    /\ claims \in [Accounts -> Records]
    /\ active \in [Stores \X Accounts -> Records]
    /\ late \subseteq LateWrites
    /\ change \in Changes
    /\ \A w, x \in late : w = x

\* No two drivers have one account; a driver without one is not registered.
AccountsOwn ==
    /\ \A d \in Drivers : registry[d].account = "none" => registry[d] = Nobody
    /\ \A d, e \in Drivers : registry[d].account = registry[e].account /\ registry[d].account # "none" => d = e

\* An activation that is late is for a version its account has no more, or is
\* what the registry says; and it is what the claims say of that version.
LateOwn(w) ==
    /\ w.record.driver # "none" /\ active[<<w.store, w.account>>].version = w.record.version
          => registry[w.record.driver].account = w.account
    /\ claims[w.account].version = w.record.version => claims[w.account] = w.record

\* A publication has a version of its own, blocks both records before it moves
\* the claims, and gives no rights but the registry's.
PubOwn ==
    IF change.pub.at = "none" THEN change.pub = NoPublication
    ELSE /\ change.pub.account \in Accounts
         /\ \A w \in late : w.account = change.pub.account => w.record.version # change.pub.version
         /\ change.pub.rights.driver # "none" => registry[change.pub.rights.driver].account = change.pub.account
         /\ change.pub.at \in {"claims", "activate"} =>
               \A s \in Stores : active[<<s, change.pub.account>>] = Blocked(change.pub.version)
         /\ change.pub.at = "activate" =>
               claims[change.pub.account] = Versioned(change.pub.rights, change.pub.version)

\* An account that is to lose its driver is being demoted, or was: no record of
\* it, and nothing late, drives.
Demoted(u) ==
    IF change.pub.at # "none" THEN change.pub.account = u /\ change.pub.rights = Passenger
    ELSE /\ \A s \in Stores : active[<<s, u>>].driver = "none"
         /\ \A w \in late :
               w.account = u /\ active[<<w.store, u>>].version = w.record.version => w.record.driver = "none"

MutationOwn ==
    /\ change.at = "register" =>
          /\ change.kind = "put" /\ change.driver \in Drivers /\ change.account \in Accounts
          /\ \A o \in Drivers \ {change.driver} : registry[o].account # change.account
          /\ ~change.failed /\ registry[change.driver].account \notin {"none", change.account} =>
                Demoted(registry[change.driver].account)
    /\ change.at = "remove" =>
          /\ change.kind = "delete" /\ change.driver \in Drivers
          /\ registry[change.driver].account # "none"
          /\ ~change.failed => Demoted(registry[change.driver].account)

\* What a reconciliation has done with a driver: its account has its rights in
\* all three stores, or is getting them; its grant is right, or is being written.
Reconciled(d) ==
    LET u == registry[d].account
        rights == Driver(d, registry[d].bus)
    IN /\ IF change.pub.account = u THEN change.pub.rights = rights
          ELSE Rights(claims[u]) = rights /\ \A s \in Stores : active[<<s, u>>] = claims[u]
       /\ grant[d] = Expected(d) \/ change.write = [driver |-> d, value |-> Expected(d)]

ReconcileOwn ==
    /\ change.kind = "reconcile" =>
          /\ change.at = "authorize"
          /\ change.write # NoWrite => change.write.value = Expected(change.write.driver)
    /\ change.at = "reconciled" => change = [Rest EXCEPT !.at = "reconciled"]
    /\ (change.kind = "reconcile" \/ change.at = "reconciled") /\ ~change.failed =>
          \A d \in Drivers \ change.todo : registry[d] # Nobody => Reconciled(d)

RegistryInv ==
    /\ RegistryTypeOK /\ AccountsOwn /\ PubOwn /\ MutationOwn /\ ReconcileOwn
    /\ \A w \in late : LateOwn(w)
    /\ OnlyRegisteredDrive

LEMMA NothingOfTheFleet ==
    /\ Nothing \in Records /\ Passenger \in RightSets /\ NoGrant \in Grants /\ NoWrite \in GrantWrites
    /\ NoPublication \in Publications /\ NoPublication.at = "none" /\ NoPublication.account = "none"
    /\ Rest \in Changes /\ Rest.pub = NoPublication /\ Rest.write = NoWrite /\ Rest.at = "none" /\ Rest.kind = "none"
    /\ Rest.todo = {} /\ Rest.failed = FALSE
<1>1. Nothing \in Records /\ Passenger \in RightSets /\ NoGrant \in Grants
    BY DEF Nothing, Records, Roles, Passenger, RightSets, NoGrant, Grants, Gone
<1>2. NoWrite \in GrantWrites /\ NoPublication \in Publications
    BY <1>1 DEF NoWrite, GrantWrites, NoPublication, Publications
<1>3. Rest \in Changes
    BY <1>2 DEF Rest, Changes
<1> QED BY <1>1, <1>2, <1>3 DEF NoPublication, Rest

LEMMA RecordsOfVersions ==
    ASSUME NEW v \in Versions, NEW rights \in RightSets
    PROVE  /\ Blocked(v) \in Records /\ Blocked(v).version = v /\ Blocked(v).driver = "none"
           /\ Versioned(rights, v) \in Records /\ Versioned(rights, v).version = v
           /\ Versioned(rights, v).driver = rights.driver /\ Rights(Versioned(rights, v)) = rights
BY DEF Blocked, Versioned, Records, Roles, RightSets, Rights

LEMMA DriversRights ==
    ASSUME NEW d \in Drivers, NEW b \in Buses \cup {"none"}
    PROVE  Driver(d, b) \in RightSets /\ Driver(d, b).driver \in {"none", d}
BY DEF Driver, RightSets, Roles

\* Of six versions at most four are in use.
LEMMA FreshIsFresh ==
    ASSUME RegistryTypeOK, NEW u \in Accounts
    PROVE  /\ Fresh(u) \in Versions
           /\ \A w \in late : w.account = u => w.record.version # Fresh(u)
           /\ Fresh(u) # claims[u].version
<1> DEFINE Least(v) == Unused(u, v) /\ \A x \in 1..6 : Unused(u, x) => v <= x
<1>1. PICK d : \A w \in late : w.record.version = d
  <2>1. CASE late = {}
      BY <2>1
  <2>2. ASSUME NEW x \in late PROVE \A w \in late : w.record.version = x.record.version
      BY DEF RegistryTypeOK
  <2> QED BY <2>1, <2>2
<1>2. \A v : v \notin {claims[u].version, active[<<"document", u>>].version, active[<<"mirror", u>>].version, d} => Unused(u, v)
    BY <1>1 DEF Unused, Stores
<1>3. \E v \in 1..6 : Least(v)
  <2>1. CASE Unused(u, 1)
      BY <2>1
  <2>2. CASE ~Unused(u, 1) /\ Unused(u, 2)
      BY <2>2
  <2>3. CASE ~Unused(u, 1) /\ ~Unused(u, 2) /\ Unused(u, 3)
      BY <2>3
  <2>4. CASE ~Unused(u, 1) /\ ~Unused(u, 2) /\ ~Unused(u, 3) /\ Unused(u, 4)
      BY <2>4
  <2>5. CASE ~Unused(u, 1) /\ ~Unused(u, 2) /\ ~Unused(u, 3) /\ ~Unused(u, 4)
    <3>1. Unused(u, 5)
        BY <1>2, <2>5
    <3> QED BY <2>5, <3>1
  <2> QED BY <2>1, <2>2, <2>3, <2>4, <2>5
<1>4. Fresh(u) = CHOOSE v \in 1..6 : Least(v)
    BY DEF Fresh
<1>5. Fresh(u) \in 1..6 /\ Least(Fresh(u))
  <2> HIDE DEF Least
  <2> QED BY <1>3, <1>4
<1> QED BY <1>5 DEF Versions, Unused

LEMMA PublishIsOwn ==
    ASSUME RegistryTypeOK, NEW u \in Accounts, NEW rights \in RightSets
    PROVE  /\ Publish(u, rights) \in Publications /\ Publish(u, rights).at = "block"
           /\ Publish(u, rights).account = u /\ Publish(u, rights).rights = rights
           /\ \A w \in late : w.account = u => w.record.version # Publish(u, rights).version
<1>1. Fresh(u) \in Versions /\ \A w \in late : w.account = u => w.record.version # Fresh(u)
    BY FreshIsFresh
<1> QED BY <1>1 DEF Publish, Publications

LEMMA RegistryStarts == RegistryInit => RegistryInv
<1> SUFFICES ASSUME RegistryInit PROVE RegistryInv
    OBVIOUS
<1>1. RegistryTypeOK
    BY NothingOfTheFleet DEF RegistryInit, RegistryTypeOK, Nobody
<1>2. AccountsOwn /\ PubOwn /\ MutationOwn /\ ReconcileOwn
    BY NothingOfTheFleet DEF RegistryInit, AccountsOwn, PubOwn, MutationOwn, ReconcileOwn, Nobody
<1>3. \A w \in late : LateOwn(w)
    BY DEF RegistryInit
<1>4. OnlyRegisteredDrive
    BY DEF RegistryInit, OnlyRegisteredDrive, Nothing
<1> QED BY <1>1, <1>2, <1>3, <1>4 DEF RegistryInv

\* Steps of the mutation that write nothing.
LEMMA ChangeKeeps ==
    ASSUME RegistryInv, UNCHANGED <<registry, bus, grant, claims, active, late>>, change' \in Changes,
           PubOwn', MutationOwn', ReconcileOwn'
    PROVE  RegistryInv'
BY DEF RegistryInv, RegistryTypeOK, AccountsOwn, LateOwn, OnlyRegisteredDrive

LEMMA ResetKeeps ==
    ASSUME RegistryInv, UNCHANGED <<registry, bus, grant, claims, active, late>>, change' = Rest
    PROVE  RegistryInv'
BY ChangeKeeps, NothingOfTheFleet DEF PubOwn, MutationOwn, ReconcileOwn

LEMMA CloseKeeps == ASSUME RegistryInv, Close \/ (Answer /\ change' = Rest) PROVE RegistryInv'
BY ResetKeeps DEF Close, Answer

LEMMA AnswerKeeps == ASSUME RegistryInv, Answer PROVE RegistryInv'
<1>1. CASE change' = Rest
    BY <1>1, CloseKeeps
<1>2. CASE change.kind = "reconcile" /\ ~change.failed /\ change' = [Rest EXCEPT !.at = "reconciled"]
  <2>0. UNCHANGED <<registry, bus, grant, claims, active, late>> /\ change.todo = {} /\ Quiet
      BY <1>2 DEF Answer, RegistryInv, ReconcileOwn
  <2>1. /\ change' \in Changes /\ change'.pub = NoPublication /\ change'.write = NoWrite
        /\ change'.at = "reconciled" /\ change'.kind = "none" /\ change'.todo = {} /\ change'.failed = FALSE
      BY <1>2, NothingOfTheFleet DEF Changes, Rest
  <2>2. PubOwn' /\ MutationOwn'
      BY <2>1, NothingOfTheFleet DEF PubOwn, MutationOwn
  <2>3. ReconcileOwn'
    <3>1. \A d \in Drivers : registry[d] # Nobody => Reconciled(d)
        BY <1>2, <2>0 DEF RegistryInv, ReconcileOwn
    <3>2. \A d \in Drivers : registry[d] # Nobody => Reconciled(d)'
        BY <2>0, <2>1, <3>1 DEF Reconciled, Quiet, Expected
    <3> QED BY <1>2, <2>0, <2>1, <3>2 DEF ReconcileOwn
  <2> QED BY <2>0, <2>1, <2>2, <2>3, ChangeKeeps
<1> QED BY <1>1, <1>2 DEF Answer

LEMMA PutKeepsRegistry ==
    ASSUME RegistryInv, NEW d \in Drivers, NEW u \in Accounts, NEW b \in Buses \cup {"none"}, PutDriver(d, u, b)
    PROVE  RegistryInv'
<1> DEFINE was == registry[d].account
           asked == [Rest EXCEPT !.kind = "put", !.at = "register", !.driver = d, !.account = u, !.bus = b]
           pub == IF was \notin {"none", u} THEN Publish(was, Passenger) ELSE NoPublication
<1>0. /\ UNCHANGED <<registry, bus, grant, claims, active, late>> /\ RegistryTypeOK
      /\ \A o \in Drivers \ {d} : registry[o].account # u
      /\ change' = IF was \notin {"none", u} THEN [asked EXCEPT !.pub = Publish(was, Passenger)] ELSE asked
    BY DEF PutDriver, RegistryInv
<1>1. pub \in Publications /\ (was \notin {"none", u} =>
          /\ pub.at = "block" /\ pub.account = was /\ pub.rights = Passenger /\ was \in Accounts
          /\ \A w \in late : w.account = was => w.record.version # pub.version)
  <2>1. was \in Accounts \cup {"none"}
      BY <1>0 DEF RegistryTypeOK
  <2> QED BY <1>0, <2>1, PublishIsOwn, NothingOfTheFleet
<1>2. asked \in Changes /\ asked.pub = NoPublication
    BY NothingOfTheFleet DEF Changes
<1>3. change' = [asked EXCEPT !.pub = pub]
    BY <1>0, <1>2 DEF Changes
<1>4. was \in {"none", u} => pub = NoPublication
    OBVIOUS
<1>7. asked.kind = "put" /\ asked.at = "register" /\ asked.driver = d /\ asked.account = u
    BY NothingOfTheFleet DEF Rest
<1> HIDE DEF pub, asked
<1>5. /\ change' \in Changes /\ change'.pub = pub /\ change'.at = "register" /\ change'.kind = "put"
      /\ change'.driver = d /\ change'.account = u
    BY <1>1, <1>2, <1>3, <1>7 DEF Changes
<1>6. PubOwn' /\ MutationOwn' /\ ReconcileOwn'
  <2>1. PubOwn'
      BY <1>0, <1>1, <1>4, <1>5, NothingOfTheFleet DEF PubOwn, Passenger
  <2>2. MutationOwn'
      BY <1>0, <1>1, <1>5 DEF MutationOwn, Demoted
  <2>3. ReconcileOwn'
      BY <1>5 DEF ReconcileOwn
  <2> QED BY <2>1, <2>2, <2>3
<1> QED BY <1>0, <1>5, <1>6, ChangeKeeps

LEMMA DeleteKeepsRegistry == ASSUME RegistryInv, NEW d \in Drivers, DeleteDriver(d) PROVE RegistryInv'
<1> DEFINE was == registry[d].account
           pub == Publish(was, Passenger)
           asked == [Rest EXCEPT !.kind = "delete", !.at = "remove", !.driver = d, !.pub = pub]
<1>0. /\ UNCHANGED <<registry, bus, grant, claims, active, late>> /\ RegistryTypeOK
      /\ registry[d] # Nobody /\ change' = asked
    BY DEF DeleteDriver, RegistryInv
<1>1. was \in Accounts /\ was # "none"
    BY <1>0 DEF RegistryInv, AccountsOwn, RegistryTypeOK
<1>2. /\ pub \in Publications /\ pub.at = "block" /\ pub.account = was /\ pub.rights = Passenger
      /\ \A w \in late : w.account = was => w.record.version # pub.version
    BY <1>0, <1>1, PublishIsOwn, NothingOfTheFleet
<1> HIDE DEF pub
<1>3. asked.kind = "delete" /\ asked.at = "remove" /\ asked.driver = d /\ asked.pub = pub
    BY NothingOfTheFleet DEF Rest
<1>4. asked \in Changes
    BY <1>2, NothingOfTheFleet DEF Changes
<1> HIDE DEF asked
<1>5. PubOwn' /\ MutationOwn' /\ ReconcileOwn'
  <2>1. PubOwn'
      BY <1>0, <1>1, <1>2, <1>3 DEF PubOwn, Passenger
  <2>2. MutationOwn'
      BY <1>0, <1>1, <1>2, <1>3 DEF MutationOwn, Demoted
  <2>3. ReconcileOwn'
      BY <1>0, <1>3 DEF ReconcileOwn
  <2> QED BY <2>1, <2>2, <2>3
<1> QED BY <1>0, <1>4, <1>5, ChangeKeeps

LEMMA BusesKeep ==
    ASSUME RegistryInv, NEW b \in Buses, PutBus(b) \/ DeleteBus(b)
    PROVE  RegistryInv'
<1> DEFINE p == [Rest EXCEPT !.kind = "bus", !.at = "authorize", !.todo = DriversOf(b)]
           q == [Rest EXCEPT !.kind = "unbus", !.at = "unassign", !.bus = b, !.todo = DriversOf(b)]
<1>0. UNCHANGED <<registry, grant, claims, active, late>> /\ change' \in {p, q} /\ RegistryTypeOK /\ bus' \in [Buses -> Nat]
    BY DEF PutBus, DeleteBus, RegistryInv, RegistryTypeOK
<1>1. DriversOf(b) \in SUBSET Drivers
    BY DEF DriversOf
<1>2. p \in Changes /\ q \in Changes
    BY <1>1, NothingOfTheFleet DEF Changes
<1>3. /\ p.kind = "bus" /\ p.at = "authorize" /\ p.pub = NoPublication
      /\ q.kind = "unbus" /\ q.at = "unassign" /\ q.pub = NoPublication
    BY NothingOfTheFleet DEF Rest
<1> HIDE DEF p, q
<1>4. RegistryTypeOK'
    BY <1>0, <1>2 DEF RegistryTypeOK
<1>5. PubOwn' /\ MutationOwn' /\ ReconcileOwn'
    BY <1>0, <1>3, NothingOfTheFleet DEF PubOwn, MutationOwn, ReconcileOwn
<1> QED BY <1>0, <1>4, <1>5 DEF RegistryInv, AccountsOwn, LateOwn, OnlyRegisteredDrive

LEMMA ReconcileKeeps == ASSUME RegistryInv, Reconcile PROVE RegistryInv'
<1> DEFINE t == {d \in Drivers : registry[d] # Nobody}
           p == [Rest EXCEPT !.kind = "reconcile", !.at = "authorize", !.todo = t]
<1>0. UNCHANGED <<registry, bus, grant, claims, active, late>> /\ change' = p
    BY DEF Reconcile
<1>1. t \in SUBSET Drivers /\ \A d \in Drivers \ t : registry[d] = Nobody
    OBVIOUS
<1> HIDE DEF t
<1>2. p \in Changes
    BY <1>1, NothingOfTheFleet DEF Changes
<1>3. p.kind = "reconcile" /\ p.at = "authorize" /\ p.pub = NoPublication /\ p.write = NoWrite /\ p.todo = t
    BY NothingOfTheFleet DEF Rest
<1> HIDE DEF p
<1>4. PubOwn' /\ MutationOwn' /\ ReconcileOwn'
    BY <1>0, <1>1, <1>3, NothingOfTheFleet DEF PubOwn, MutationOwn, ReconcileOwn
<1> QED BY <1>0, <1>2, <1>4, ChangeKeeps

\* What a mutation authorizes comes from the registry.
LEMMA AppliesOwn ==
    ASSUME RegistryTypeOK, NEW c \in Changes, NEW d \in Drivers, c.pub = NoPublication, c.write = NoWrite
    PROVE  LET e == Apply(c, d)
               u == registry[d].account
               rights == Driver(d, registry[d].bus)
           IN /\ e \in Changes /\ e.kind = c.kind /\ e.at = c.at /\ e.todo = c.todo
              /\ e.failed \/ e.pub.at # "none" \/ (e.pub = NoPublication /\ Agrees(u, rights))
              /\ IF e.pub.at = "none" THEN e.pub = NoPublication
                 ELSE /\ e.pub.account = u /\ u \in Accounts /\ e.pub.rights = rights /\ e.pub.at = "block"
                      /\ \A w \in late : w.account = u => w.record.version # e.pub.version
              /\ e.failed \/ (e.write = NoWrite /\ grant[d] = Expected(d))
                          \/ e.write = [driver |-> d, value |-> Expected(d)]
              /\ e.write # NoWrite => e.write = [driver |-> d, value |-> Expected(d)]
<1> DEFINE u == registry[d].account
           b == registry[d].bus
           rights == Driver(d, b)
           refused == u = "none" \/ (b # "none" /\ bus[b] = Gone)
           pub == IF Agrees(u, rights) THEN NoPublication ELSE Publish(u, rights)
           write == IF grant[d] = Expected(d) THEN NoWrite ELSE [driver |-> d, value |-> Expected(d)]
           e == Apply(c, d)
<1>0. u \in Accounts \cup {"none"} /\ b \in Buses \cup {"none"}
    BY DEF RegistryTypeOK
<1>1. Expected(d) \in Grants
    BY <1>0, NothingOfTheFleet DEF RegistryTypeOK, Expected, Grants
<1>2. rights \in RightSets
    BY <1>0, DriversRights
<1>3. CASE refused
  <2>1. e = [c EXCEPT !.failed = TRUE]
      BY <1>3 DEF Apply
  <2>2. e \in Changes /\ e.failed /\ e.pub = NoPublication /\ e.write = NoWrite
        /\ e.kind = c.kind /\ e.at = c.at /\ e.todo = c.todo
      BY <2>1 DEF Changes
  <2> QED BY <2>2, NothingOfTheFleet
<1>4. CASE ~refused
  <2>1. u \in Accounts
      BY <1>0, <1>4
  <2>2. pub \in Publications /\ (pub # NoPublication =>
            /\ pub.account = u /\ pub.rights = rights /\ pub.at = "block"
            /\ \A w \in late : w.account = u => w.record.version # pub.version)
      BY <1>2, <2>1, PublishIsOwn, NothingOfTheFleet
  <2>3. write \in GrantWrites
      BY <1>1, NothingOfTheFleet DEF GrantWrites
  <2>4. e = [c EXCEPT !.pub = pub, !.write = write]
      BY <1>4 DEF Apply
  <2>5. pub.at # "none" \/ (pub = NoPublication /\ Agrees(u, rights))
      BY <2>2, <2>1, <1>2, PublishIsOwn
  <2>6. (write = NoWrite /\ grant[d] = Expected(d)) \/ write = [driver |-> d, value |-> Expected(d)]
      OBVIOUS
  <2> HIDE DEF pub, write, e, rights, refused
  <2>7. e \in Changes /\ e.pub = pub /\ e.write = write /\ e.kind = c.kind /\ e.at = c.at /\ e.todo = c.todo
      BY <2>2, <2>3, <2>4 DEF Changes
  <2> QED BY <2>1, <2>2, <2>5, <2>6, <2>7, NothingOfTheFleet DEF rights, e
<1> QED BY <1>3, <1>4

LEMMA AuthorizeKeeps == ASSUME RegistryInv, Authorize PROVE RegistryInv'
<1>0. /\ UNCHANGED <<registry, bus, grant, claims, active, late>> /\ RegistryTypeOK
      /\ change \in Changes /\ change.at = "authorize" /\ Quiet
    BY DEF Authorize, Step, RegistryInv, RegistryTypeOK
<1>1. PICK d \in change.todo : change' = Apply([change EXCEPT !.todo = @ \ {d},
                                   !.at = IF change.kind = "unbus" THEN "unassign" ELSE @], d)
    BY DEF Authorize
<1> DEFINE c == [change EXCEPT !.todo = @ \ {d}, !.at = IF change.kind = "unbus" THEN "unassign" ELSE @]
           u == registry[d].account
           rights == Driver(d, registry[d].bus)
<1>2. /\ c \in Changes /\ c.kind = change.kind /\ c.at \in {"authorize", "unassign"}
      /\ (change.kind # "unbus" => c.at = "authorize")
      /\ c.todo = change.todo \ {d} /\ c.pub = NoPublication /\ c.write = NoWrite /\ c.failed = change.failed
      /\ d \in Drivers
    BY <1>0 DEF Changes, Quiet
<1>3. change' = Apply(c, d)
    BY <1>1
<1> HIDE DEF c
<1>3a. change' = Apply(c, d) /\ (~change'.failed => ~change.failed)
  <2>1. CASE change.failed
    <3>1. Apply(c, d).failed = TRUE
        BY <1>2, <2>1 DEF Apply, Changes
    <3> QED BY <1>3, <3>1
  <2> QED BY <1>3, <2>1
<1>4. /\ change' \in Changes /\ change'.kind = c.kind /\ change'.at = c.at /\ change'.todo = c.todo
      /\ change'.failed \/ change'.pub.at # "none" \/ (change'.pub = NoPublication /\ Agrees(u, rights))
      /\ IF change'.pub.at = "none" THEN change'.pub = NoPublication
         ELSE /\ change'.pub.account = u /\ u \in Accounts /\ change'.pub.rights = rights /\ change'.pub.at = "block"
              /\ \A w \in late : w.account = u => w.record.version # change'.pub.version
      /\ change'.failed \/ (change'.write = NoWrite /\ grant[d] = Expected(d))
                        \/ change'.write = [driver |-> d, value |-> Expected(d)]
      /\ change'.write # NoWrite => change'.write = [driver |-> d, value |-> Expected(d)]
    BY <1>0, <1>2, <1>3, AppliesOwn
<1>5. rights.driver \in {"none", d}
    BY <1>0, <1>2, DriversRights DEF RegistryTypeOK
<1>6. PubOwn'
    BY <1>0, <1>4, <1>5 DEF PubOwn
<1>7. MutationOwn'
    BY <1>2, <1>4 DEF MutationOwn
<1>8. ReconcileOwn'
  <2>1. (change.kind = "reconcile" =>
            /\ change.at = "authorize"
            /\ change.write # NoWrite => change.write.value = Expected(change.write.driver))'
    <3>1. change'.kind = "reconcile" => change'.at = "authorize"
        BY <1>2, <1>4
    <3>2. change'.write # NoWrite => change'.write.driver = d /\ change'.write.value = Expected(d)
        BY <1>4
    <3> QED BY <1>0, <3>1, <3>2 DEF Expected
  <2>2. change'.at # "reconciled"
      BY <1>2, <1>4
  <2>3. ASSUME change'.kind = "reconcile", ~change'.failed, NEW x \in Drivers \ change'.todo, registry[x] # Nobody
        PROVE  Reconciled(x)'
    <3>1. CASE x = d
      <4>1. IF change'.pub.account = u THEN change'.pub.rights = rights
            ELSE Rights(claims[u]) = rights /\ \A s \in Stores : active[<<s, u>>] = claims[u]
        <5>1. CASE change'.pub.at # "none"
            BY <1>4, <5>1
        <5>2. CASE change'.pub.at = "none"
          <6>1. Agrees(u, rights) /\ change'.pub = NoPublication
              BY <1>4, <2>3, <5>2
          <6>2. u # "none"
              BY <1>0, <2>3, <3>1 DEF RegistryInv, AccountsOwn
          <6> QED BY <6>1, <6>2, NothingOfTheFleet DEF Agrees
        <5> QED BY <5>1, <5>2
      <4>2. grant[d] = Expected(d) \/ change'.write = [driver |-> d, value |-> Expected(d)]
          BY <1>4, <2>3
      <4> QED BY <1>0, <3>1, <4>1, <4>2 DEF Reconciled, Expected
    <3>2. CASE x # d
      <4>1. change.kind = "reconcile" /\ ~change.failed /\ x \in Drivers \ change.todo
          BY <1>2, <1>3a, <1>4, <2>3, <3>2
      <4>2. Reconciled(x)
          BY <2>3, <4>1 DEF RegistryInv, ReconcileOwn
      <4>3. registry[x].account # "none" /\ registry[x].account # u
          BY <1>0, <1>2, <2>3, <3>2 DEF RegistryInv, AccountsOwn
      <4>4. /\ Rights(claims[registry[x].account]) = Driver(x, registry[x].bus)
            /\ \A s \in Stores : active[<<s, registry[x].account>>] = claims[registry[x].account]
            /\ grant[x] = Expected(x)
        <5>1. change.pub.account # registry[x].account /\ change.write # [driver |-> x, value |-> Expected(x)]
            BY <1>0, <2>3, <4>3, NothingOfTheFleet, NameAssumption DEF Quiet, NoWrite
        <5> QED BY <4>2, <5>1 DEF Reconciled
      <4>5. change'.pub.account # registry[x].account
          BY <1>4, <4>3, NothingOfTheFleet
      <4> QED BY <1>0, <4>4, <4>5 DEF Reconciled, Expected
    <3> QED BY <3>1, <3>2
  <2> QED BY <1>0, <2>1, <2>2, <2>3 DEF ReconcileOwn
<1> QED BY <1>0, <1>4, <1>6, <1>7, <1>8, ChangeKeeps

\* Steps beside the publication: it is as it was.
LEMMA UnassignKeeps == ASSUME RegistryInv, Unassign PROVE RegistryInv'
<1>0. /\ UNCHANGED <<bus, grant, claims, active, late>> /\ RegistryTypeOK /\ change \in Changes
      /\ change.at = "unassign" /\ change.pub = NoPublication
    BY DEF Unassign, Step, Quiet, RegistryInv, RegistryTypeOK
<1>1. PICK d \in change.todo : /\ registry' = [registry EXCEPT ![d].bus = "none"]
                               /\ change' = [change EXCEPT !.at = "authorize", !.driver = d]
    BY DEF Unassign
<1>2. d \in Drivers
    BY <1>0 DEF Changes
<1> DEFINE x == [registry[d] EXCEPT !.bus = "none"]
<1>3. /\ x \in [account : Accounts \cup {"none"}, bus : Buses \cup {"none"}] /\ x.account = registry[d].account
      /\ registry[d] = Nobody => x = Nobody
    BY <1>0, <1>2 DEF RegistryTypeOK, Nobody
<1>4. registry' = [registry EXCEPT ![d] = x]
    BY <1>0, <1>1, <1>2 DEF RegistryTypeOK
<1> HIDE DEF x
<1>5. \A e \in Drivers : registry'[e].account = registry[e].account /\ (registry[e] = Nobody => registry'[e] = Nobody)
    BY <1>0, <1>2, <1>3, <1>4 DEF RegistryTypeOK
<1>6. change' \in Changes /\ change'.pub = NoPublication /\ change'.at = "authorize" /\ change'.kind = change.kind
    BY <1>0, <1>1, <1>2 DEF Changes
<1>7. RegistryTypeOK'
    BY <1>0, <1>2, <1>3, <1>4, <1>6 DEF RegistryTypeOK
<1>8. AccountsOwn'
    BY <1>5 DEF AccountsOwn, RegistryInv
<1>9. PubOwn' /\ MutationOwn' /\ ReconcileOwn'
  <2>1. change.kind # "reconcile"
      BY <1>0 DEF RegistryInv, ReconcileOwn
  <2> QED BY <1>6, <2>1, NothingOfTheFleet DEF PubOwn, MutationOwn, ReconcileOwn
<1>10. (\A w \in late : LateOwn(w)') /\ OnlyRegisteredDrive'
  <2>1. \A w \in late : w.record.driver \in Drivers \cup {"none"}
      BY <1>0 DEF RegistryTypeOK, LateWrites, Records
  <2>2. \A s \in Stores, u \in Accounts : active[<<s, u>>].driver \in Drivers \cup {"none"}
      BY <1>0 DEF RegistryTypeOK, Records
  <2>3. \A w \in late : LateOwn(w)'
      BY <1>0, <1>5, <2>1 DEF RegistryInv, LateOwn
  <2>4. OnlyRegisteredDrive'
      BY <1>0, <1>5, <2>2 DEF RegistryInv, OnlyRegisteredDrive
  <2> QED BY <2>3, <2>4
<1> QED BY <1>0, <1>7, <1>8, <1>9, <1>10 DEF RegistryInv

LEMMA DropKeeps == ASSUME RegistryInv, DropBus PROVE RegistryInv'
<1>0. /\ UNCHANGED <<registry, grant, claims, active, late>> /\ RegistryTypeOK /\ change \in Changes
      /\ change.at = "unassign" /\ change.pub = NoPublication /\ change' = [change EXCEPT !.at = "done"]
      /\ bus' = [bus EXCEPT ![change.bus] = Gone]
    BY DEF DropBus, Step, Quiet, RegistryInv, RegistryTypeOK
<1>1. change' \in Changes /\ change'.pub = NoPublication /\ change'.at = "done" /\ change'.kind = change.kind
    BY <1>0 DEF Changes
<1>2. bus' \in [Buses -> Nat]
    BY <1>0 DEF RegistryTypeOK, Gone
<1>3. RegistryTypeOK'
    BY <1>0, <1>1, <1>2 DEF RegistryTypeOK
<1>4. PubOwn' /\ MutationOwn' /\ ReconcileOwn'
  <2>1. change.kind # "reconcile"
      BY <1>0 DEF RegistryInv, ReconcileOwn
  <2> QED BY <1>1, <2>1, NothingOfTheFleet DEF PubOwn, MutationOwn, ReconcileOwn
<1> QED BY <1>0, <1>3, <1>4 DEF RegistryInv, AccountsOwn, LateOwn, OnlyRegisteredDrive

LEMMA GrantKeeps == ASSUME RegistryInv, WriteGrant PROVE RegistryInv'
<1>0. /\ UNCHANGED <<registry, bus, claims, active, late>> /\ RegistryTypeOK /\ change \in Changes
      /\ change.write # NoWrite /\ change.write \in GrantWrites /\ grant \in [Drivers -> Grants]
    BY DEF WriteGrant, RegistryInv, RegistryTypeOK, Changes
<1>1. PICK f \in BOOLEAN : change' = [change EXCEPT !.write = NoWrite, !.failed = f]
      /\ \/ f = change.failed /\ grant' = [grant EXCEPT ![change.write.driver] = change.write.value]
         \/ f = TRUE /\ grant' = grant
  <2>1. CASE /\ grant' = [grant EXCEPT ![change.write.driver] = change.write.value]
             /\ change' = [change EXCEPT !.write = NoWrite]
    <3>1. change.failed \in BOOLEAN /\ change' = [change EXCEPT !.write = NoWrite, !.failed = change.failed]
        BY <1>0, <2>1 DEF Changes
    <3> QED BY <2>1, <3>1
  <2> QED BY <2>1 DEF WriteGrant
<1>2. /\ change' \in Changes /\ change'.write = NoWrite /\ change'.failed = f
      /\ change'.pub = change.pub /\ change'.at = change.at /\ change'.kind = change.kind
      /\ change'.driver = change.driver /\ change'.account = change.account /\ change'.todo = change.todo
    BY <1>0, <1>1, NothingOfTheFleet DEF Changes
<1>3. grant' \in [Drivers -> Grants]
    BY <1>0, <1>1 DEF GrantWrites
<1>4. RegistryTypeOK'
    BY <1>0, <1>2, <1>3 DEF RegistryTypeOK
<1>5. PubOwn'
    BY <1>0, <1>2 DEF RegistryInv, PubOwn
<1>6. MutationOwn'
  <2>1. ~change'.failed => ~change.failed
      BY <1>1, <1>2
  <2>2. \A u : Demoted(u) => Demoted(u)'
      BY <1>0, <1>2 DEF Demoted
  <2> QED BY <1>0, <1>2, <2>1, <2>2 DEF RegistryInv, MutationOwn
<1>7. ReconcileOwn'
  <2>1. change.at # "reconciled"
      BY <1>0, NothingOfTheFleet DEF RegistryInv, ReconcileOwn, Rest
  <2>2. ASSUME change.kind = "reconcile", ~change'.failed, NEW d \in Drivers \ change.todo, registry[d] # Nobody
        PROVE  Reconciled(d)'
    <3>1. Reconciled(d) /\ ~change.failed /\ grant' = [grant EXCEPT ![change.write.driver] = change.write.value]
          /\ change.write.value = Expected(change.write.driver)
        BY <1>0, <1>1, <1>2, <2>2 DEF RegistryInv, ReconcileOwn
    <3>2. grant'[d] = Expected(d)
      <4>1. CASE change.write.driver = d
          BY <1>0, <3>1, <4>1
      <4>2. CASE change.write.driver # d
          BY <1>0, <3>1, <4>2 DEF Reconciled
      <4> QED BY <4>1, <4>2
    <3>3. Expected(d)' = Expected(d)
        BY <1>0 DEF Expected
    <3> QED BY <1>0, <1>2, <3>1, <3>2, <3>3 DEF Reconciled
  <2> QED BY <1>0, <1>2, <2>1, <2>2 DEF RegistryInv, ReconcileOwn
<1> QED BY <1>0, <1>4, <1>5, <1>6, <1>7 DEF RegistryInv, AccountsOwn, LateOwn, OnlyRegisteredDrive

LEMMA PublicationGoesOn ==
    ASSUME RegistryTypeOK, NEW x \in Publications, NEW f \in BOOLEAN,
           change' = [change EXCEPT !.pub = x, !.failed = f]
    PROVE  /\ change' \in Changes /\ change'.pub = x /\ change'.failed = f
           /\ change'.at = change.at /\ change'.kind = change.kind /\ change'.driver = change.driver
           /\ change'.account = change.account /\ change'.todo = change.todo /\ change'.write = change.write
BY DEF RegistryTypeOK, Changes

\* A publication that fails leaves what was promised of it to the next mutation.
LEMMA FailureIsOwn ==
    ASSUME RegistryInv, UNCHANGED <<registry, bus, grant>>,
           change' = [change EXCEPT !.pub = NoPublication, !.failed = TRUE], change.pub.at # "none"
    PROVE  change' \in Changes /\ PubOwn' /\ MutationOwn' /\ ReconcileOwn'
<1>1. RegistryTypeOK
    BY DEF RegistryInv
<1>2. /\ change' \in Changes /\ change'.pub = NoPublication /\ change'.failed = TRUE
      /\ change'.at = change.at /\ change'.kind = change.kind /\ change'.driver = change.driver
      /\ change'.account = change.account /\ change'.todo = change.todo /\ change'.write = change.write
    BY <1>1, NothingOfTheFleet, PublicationGoesOn
<1>3. PubOwn' /\ MutationOwn'
    BY <1>2, NothingOfTheFleet DEF RegistryInv, PubOwn, MutationOwn
<1>4. ReconcileOwn'
  <2>1. change.at # "reconciled"
      BY NothingOfTheFleet DEF RegistryInv, ReconcileOwn, Rest
  <2> QED BY <1>2, <2>1 DEF RegistryInv, ReconcileOwn, Expected
<1> QED BY <1>2, <1>3, <1>4

LEMMA BlockKeeps == ASSUME RegistryInv, Block PROVE RegistryInv'
<1> DEFINE p == change.pub
           u == p.account
<1>0. /\ UNCHANGED <<registry, bus, grant, claims, late>> /\ RegistryTypeOK /\ change \in Changes
      /\ p \in Publications /\ p.at = "block" /\ u \in Accounts /\ PubOwn
    BY DEF Block, RegistryInv, RegistryTypeOK, Changes, PubOwn
<1>1. PICK done \in SUBSET Stores :
          /\ active' = [k \in Stores \X Accounts |->
                          IF k[1] \in done /\ k[2] = u THEN Blocked(p.version) ELSE active[k]]
          /\ change' = IF done = Stores THEN [change EXCEPT !.pub.at = "claims"]
                       ELSE [change EXCEPT !.pub = NoPublication, !.failed = TRUE]
    BY DEF Block
<1>2. Blocked(p.version) \in Records /\ Blocked(p.version).version = p.version /\ Blocked(p.version).driver = "none"
    BY <1>0 DEF Blocked, Records, Roles, Publications
<1>3. active' \in [Stores \X Accounts -> Records]
    BY <1>0, <1>1, <1>2 DEF RegistryTypeOK
<1>4. \A s \in Stores, v \in Accounts : active'[<<s, v>>] = IF s \in done /\ v = u THEN Blocked(p.version) ELSE active[<<s, v>>]
    BY <1>1
<1>5. OnlyRegisteredDrive'
    BY <1>0, <1>2, <1>4 DEF RegistryInv, OnlyRegisteredDrive
<1>6. ASSUME NEW w \in late PROVE LateOwn(w)'
  <2>1. w.store \in Stores /\ w.account \in Accounts
      BY <1>0 DEF RegistryTypeOK, LateWrites
  <2>2. w.account = u => w.record.version # p.version
      BY <1>0 DEF PubOwn
  <2> QED BY <1>0, <1>2, <1>4, <2>1, <2>2 DEF RegistryInv, LateOwn
<1>7. CASE done # Stores
  <2>1. change' \in Changes /\ PubOwn' /\ MutationOwn' /\ ReconcileOwn'
      BY <1>0, <1>1, <1>7, FailureIsOwn
  <2>2. RegistryTypeOK'
      BY <1>0, <1>3, <2>1 DEF RegistryTypeOK
  <2> QED BY <1>0, <1>5, <1>6, <2>1, <2>2 DEF RegistryInv, AccountsOwn
<1>8. CASE done = Stores
  <2> DEFINE x == [p EXCEPT !.at = "claims"]
  <2>1. x \in Publications /\ x.at = "claims" /\ x.account = u /\ x.version = p.version /\ x.rights = p.rights
      BY <1>0 DEF Publications
  <2>2. change.failed \in BOOLEAN /\ change' = [change EXCEPT !.pub = x, !.failed = change.failed]
      BY <1>0, <1>1, <1>8 DEF Changes
  <2> HIDE DEF x
  <2>3. /\ change' \in Changes /\ change'.pub = x /\ change'.failed = change.failed
        /\ change'.at = change.at /\ change'.kind = change.kind /\ change'.driver = change.driver
        /\ change'.account = change.account /\ change'.todo = change.todo /\ change'.write = change.write
      BY <1>0, <2>1, <2>2, PublicationGoesOn
  <2>4. RegistryTypeOK'
      BY <1>0, <1>3, <2>3 DEF RegistryTypeOK
  <2>5. PubOwn'
      BY <1>0, <1>4, <1>8, <2>1, <2>3 DEF PubOwn
  <2>6. MutationOwn'
    <3>1. \A v : Demoted(v) => Demoted(v)'
        BY <1>0, <2>1, <2>3 DEF Demoted
    <3> QED BY <1>0, <2>3, <3>1 DEF RegistryInv, MutationOwn
  <2>7. ReconcileOwn'
    <3>1. change.at # "reconciled"
        BY <1>0, NothingOfTheFleet DEF RegistryInv, ReconcileOwn, Rest
    <3>2. ASSUME NEW d \in Drivers, Reconciled(d), registry[d].account # "none" PROVE Reconciled(d)'
      <4>1. registry[d].account \in Accounts
          BY <1>0, <3>2 DEF RegistryTypeOK
      <4>2. registry[d].account # u => \A s \in Stores : active'[<<s, registry[d].account>>] = active[<<s, registry[d].account>>]
          BY <1>4, <4>1
      <4> QED BY <1>0, <2>1, <2>3, <3>2, <4>2 DEF Reconciled, Expected
    <3> QED BY <1>0, <2>3, <3>1, <3>2 DEF RegistryInv, ReconcileOwn, AccountsOwn, Expected
  <2> QED BY <1>0, <1>5, <1>6, <2>4, <2>5, <2>6, <2>7 DEF RegistryInv, AccountsOwn
<1> QED BY <1>7, <1>8

LEMMA ClaimsKeep == ASSUME RegistryInv, SetClaims PROVE RegistryInv'
<1> DEFINE p == change.pub
           u == p.account
           entry == Versioned(p.rights, p.version)
<1>0. /\ UNCHANGED <<registry, bus, grant, active, late>> /\ RegistryTypeOK /\ change \in Changes
      /\ p \in Publications /\ p.at = "claims" /\ u \in Accounts /\ PubOwn
    BY DEF SetClaims, RegistryInv, RegistryTypeOK, Changes, PubOwn
<1>1. CASE UNCHANGED claims /\ change' = [change EXCEPT !.pub = NoPublication, !.failed = TRUE]
  <2>1. change' \in Changes /\ PubOwn' /\ MutationOwn' /\ ReconcileOwn'
      BY <1>0, <1>1, FailureIsOwn
  <2> QED BY <1>0, <1>1, <2>1, ChangeKeeps
<1>2. CASE claims' = [claims EXCEPT ![u] = entry] /\ change' = [change EXCEPT !.pub.at = "activate"]
  <2> DEFINE x == [p EXCEPT !.at = "activate"]
  <2>1. x \in Publications /\ x.at = "activate" /\ x.account = u /\ x.version = p.version /\ x.rights = p.rights
      BY <1>0 DEF Publications
  <2>2. change.failed \in BOOLEAN /\ change' = [change EXCEPT !.pub = x, !.failed = change.failed]
      BY <1>0, <1>2 DEF Changes
  <2> HIDE DEF x
  <2>3. /\ change' \in Changes /\ change'.pub = x /\ change'.failed = change.failed
        /\ change'.at = change.at /\ change'.kind = change.kind /\ change'.driver = change.driver
        /\ change'.account = change.account /\ change'.todo = change.todo /\ change'.write = change.write
      BY <1>0, <2>1, <2>2, PublicationGoesOn
  <2>4. entry \in Records /\ entry.version = p.version
      BY <1>0 DEF Versioned, Records, Publications, RightSets
  <2>5. claims' \in [Accounts -> Records] /\ claims'[u] = entry /\ \A v \in Accounts \ {u} : claims'[v] = claims[v]
      BY <1>0, <1>2, <2>4 DEF RegistryTypeOK
  <2>6. RegistryTypeOK'
      BY <1>0, <2>3, <2>5 DEF RegistryTypeOK
  <2>7. PubOwn'
      BY <1>0, <2>1, <2>3, <2>5 DEF PubOwn
  <2>8. MutationOwn'
    <3>1. \A v : Demoted(v) => Demoted(v)'
        BY <1>0, <2>1, <2>3 DEF Demoted
    <3> QED BY <1>0, <2>3, <3>1 DEF RegistryInv, MutationOwn
  <2>9. ReconcileOwn'
    <3>1. change.at # "reconciled"
        BY <1>0, NothingOfTheFleet DEF RegistryInv, ReconcileOwn, Rest
    <3>2. ASSUME NEW d \in Drivers, Reconciled(d), registry[d].account # "none" PROVE Reconciled(d)'
      <4>1. registry[d].account \in Accounts
          BY <1>0, <3>2 DEF RegistryTypeOK
      <4> QED BY <1>0, <2>1, <2>3, <2>5, <3>2, <4>1 DEF Reconciled, Expected
    <3> QED BY <1>0, <2>3, <3>1, <3>2 DEF RegistryInv, ReconcileOwn, AccountsOwn, Expected
  <2>10. ASSUME NEW w \in late PROVE LateOwn(w)'
    <3>1. w.account \in Accounts /\ (w.account = u => w.record.version # p.version)
        BY <1>0 DEF RegistryTypeOK, LateWrites, PubOwn
    <3> QED BY <1>0, <2>4, <2>5, <3>1 DEF RegistryInv, LateOwn
  <2> QED BY <1>0, <2>6, <2>7, <2>8, <2>9, <2>10 DEF RegistryInv, AccountsOwn, OnlyRegisteredDrive
<1> QED BY <1>1, <1>2 DEF SetClaims

LEMMA ActivateKeeps == ASSUME RegistryInv, Activate PROVE RegistryInv'
<1> DEFINE p == change.pub
           u == p.account
           entry == Versioned(p.rights, p.version)
<1>0. /\ UNCHANGED <<registry, bus, grant, claims, late>> /\ RegistryTypeOK /\ change \in Changes
      /\ p \in Publications /\ p.at = "activate" /\ u \in Accounts /\ PubOwn
      /\ claims[u] = entry /\ \A s \in Stores : active[<<s, u>>] = Blocked(p.version)
    BY DEF Activate, RegistryInv, RegistryTypeOK, Changes, PubOwn
<1>1. PICK done \in SUBSET Stores, back \in SUBSET Stores :
          /\ done = Stores => back = {}
          /\ active' = [k \in Stores \X Accounts |->
                          IF k[2] # u \/ ~StillOurs(k[1], u, entry) THEN active[k]
                          ELSE IF k[1] \in back THEN Blocked(p.version)
                          ELSE IF k[1] \in done THEN entry ELSE active[k]]
          /\ change' = [change EXCEPT !.pub = NoPublication, !.failed = @ \/ done # Stores]
    BY DEF Activate
<1>2. /\ entry \in Records /\ entry.version = p.version /\ entry.driver = p.rights.driver /\ Rights(entry) = p.rights
      /\ Blocked(p.version) \in Records /\ Blocked(p.version).version = p.version /\ Blocked(p.version).driver = "none"
  <2>1. p.rights \in RightSets /\ p.version \in Versions \cup {0}
      BY <1>0 DEF Publications
  <2> QED BY <2>1 DEF Versioned, Blocked, Records, Roles, RightSets, Rights
<1>3. active' \in [Stores \X Accounts -> Records]
    BY <1>0, <1>1, <1>2 DEF RegistryTypeOK
<1>4. \A s \in Stores, v \in Accounts :
          active'[<<s, v>>] = IF v # u THEN active[<<s, v>>]
                              ELSE IF s \in done /\ s \notin back THEN entry ELSE Blocked(p.version)
    BY <1>0, <1>1, <1>2 DEF StillOurs
<1>5. \A s \in Stores, v \in Accounts :
          active'[<<s, v>>].version = active[<<s, v>>].version
          /\ (v # u => active'[<<s, v>>] = active[<<s, v>>])
          /\ (v = u => active'[<<s, v>>].driver \in {"none", p.rights.driver})
          /\ (v = u /\ done = Stores => active'[<<s, v>>] = entry)
  <2> SUFFICES ASSUME NEW s \in Stores, NEW v \in Accounts
               PROVE  /\ active'[<<s, v>>].version = active[<<s, v>>].version
                      /\ (v # u => active'[<<s, v>>] = active[<<s, v>>])
                      /\ (v = u => active'[<<s, v>>].driver \in {"none", p.rights.driver})
                      /\ (v = u /\ done = Stores => active'[<<s, v>>] = entry)
      OBVIOUS
  <2>1. CASE v # u
      BY <1>4, <2>1
  <2>2. CASE v = u /\ s \in done /\ s \notin back
    <3>1. active'[<<s, v>>] = entry /\ active[<<s, v>>].version = p.version
        BY <1>0, <1>2, <1>4, <2>2
    <3> QED BY <1>2, <2>2, <3>1
  <2>3. CASE v = u /\ ~(s \in done /\ s \notin back)
    <3>1. active'[<<s, v>>] = Blocked(p.version) /\ active[<<s, v>>] = Blocked(p.version) /\ done # Stores
        BY <1>0, <1>1, <1>4, <2>3
    <3> QED BY <1>2, <2>3, <3>1
  <2> QED BY <2>1, <2>2, <2>3
<1>6. OnlyRegisteredDrive'
    BY <1>0, <1>5 DEF RegistryInv, OnlyRegisteredDrive, PubOwn
<1>7. ASSUME NEW w \in late PROVE LateOwn(w)'
  <2>1. w.store \in Stores /\ w.account \in Accounts
      BY <1>0 DEF RegistryTypeOK, LateWrites
  <2> QED BY <1>0, <1>5, <2>1 DEF RegistryInv, LateOwn
<1>8. PICK f \in BOOLEAN : f = (change.failed \/ done # Stores) /\ change' = [change EXCEPT !.pub = NoPublication, !.failed = f]
  <2>1. (change.failed \/ done # Stores) \in BOOLEAN
      OBVIOUS
  <2>2. change' = [change EXCEPT !.pub = NoPublication, !.failed = change.failed \/ done # Stores]
      BY <1>1
  <2> QED BY <2>1, <2>2
<1>9. /\ change' \in Changes /\ change'.pub = NoPublication /\ change'.failed = f
      /\ change'.at = change.at /\ change'.kind = change.kind /\ change'.driver = change.driver
      /\ change'.account = change.account /\ change'.todo = change.todo /\ change'.write = change.write
    BY <1>0, <1>8, NothingOfTheFleet, PublicationGoesOn
<1>10. RegistryTypeOK'
    BY <1>0, <1>3, <1>9 DEF RegistryTypeOK
<1>11. PubOwn'
    BY <1>9, NothingOfTheFleet DEF PubOwn
<1>12. MutationOwn'
  <2>1. ASSUME ~f, NEW v \in Accounts, Demoted(v) PROVE Demoted(v)'
    <3>1. v = u /\ p.rights = Passenger /\ done = Stores
        BY <1>0, <1>8, <2>1 DEF Demoted
    <3>2. \A s \in Stores : active'[<<s, v>>].driver = "none" /\ active'[<<s, v>>].version = p.version
        BY <1>0, <1>2, <1>5, <3>1 DEF Passenger
    <3>3. \A w \in late : w.account = v => w.store \in Stores /\ w.record.version # p.version
        BY <1>0, <3>1 DEF PubOwn, RegistryTypeOK, LateWrites
    <3> QED BY <1>0, <1>9, <3>2, <3>3, NothingOfTheFleet DEF Demoted
  <2>2. \A d \in Drivers : registry[d].account \in Accounts \cup {"none"}
      BY <1>0 DEF RegistryTypeOK
  <2> QED BY <1>0, <1>8, <1>9, <2>1, <2>2 DEF RegistryInv, MutationOwn
<1>13. ReconcileOwn'
  <2>1. change.at # "reconciled"
      BY <1>0, NothingOfTheFleet DEF RegistryInv, ReconcileOwn, Rest
  <2>2. ASSUME ~f, NEW d \in Drivers, Reconciled(d), registry[d].account # "none" PROVE Reconciled(d)'
    <3>1. registry[d].account \in Accounts /\ done = Stores
        BY <1>0, <1>8, <2>2 DEF RegistryTypeOK
    <3>2. CASE registry[d].account = u
      <4>1. \A s \in Stores : active'[<<s, u>>] = entry
          BY <1>0, <1>5, <3>1
      <4>2. p.rights = Driver(d, registry[d].bus)
          BY <2>2, <3>2 DEF Reconciled
      <4>3. grant[d] = Expected(d) \/ change.write = [driver |-> d, value |-> Expected(d)]
          BY <2>2 DEF Reconciled
      <4> HIDE DEF entry
      <4> QED BY <1>0, <1>2, <1>9, <2>2, <3>2, <4>1, <4>2, <4>3, NothingOfTheFleet DEF Reconciled, Expected
    <3>3. CASE registry[d].account # u
      <4>1. \A s \in Stores : active'[<<s, registry[d].account>>] = active[<<s, registry[d].account>>]
          BY <1>5, <3>1, <3>3
      <4> QED BY <1>0, <1>9, <2>2, <3>3, <4>1, NothingOfTheFleet DEF Reconciled, Expected
    <3> QED BY <3>2, <3>3
  <2> QED BY <1>0, <1>8, <1>9, <2>1, <2>2 DEF RegistryInv, ReconcileOwn, AccountsOwn, Expected
<1> QED BY <1>0, <1>6, <1>7, <1>10, <1>11, <1>12, <1>13 DEF RegistryInv, AccountsOwn

LEMMA LateKeeps == ASSUME RegistryInv, LateActivation PROVE RegistryInv'
<1>1. PICK w \in late :
          /\ late' = late \ {w}
          /\ active' = IF StillOurs(w.store, w.account, w.record)
                       THEN [active EXCEPT ![<<w.store, w.account>>] = w.record] ELSE active
          /\ UNCHANGED <<registry, bus, grant, claims, change>>
    BY DEF LateActivation
<1>0. /\ RegistryTypeOK /\ w.store \in Stores /\ w.account \in Accounts /\ w.record \in Records
      /\ LateOwn(w) /\ late' \subseteq late /\ change \in Changes
    BY <1>1 DEF RegistryInv, RegistryTypeOK, LateWrites
<1>2. active' \in [Stores \X Accounts -> Records]
    BY <1>0, <1>1 DEF RegistryTypeOK
<1>3. \A s \in Stores, v \in Accounts :
          \/ active'[<<s, v>>] = active[<<s, v>>]
          \/ s = w.store /\ v = w.account /\ active'[<<s, v>>] = w.record
             /\ active[<<s, v>>].version = w.record.version
    BY <1>0, <1>1 DEF RegistryTypeOK, StillOurs
<1>4. RegistryTypeOK' /\ AccountsOwn'
    BY <1>0, <1>1, <1>2 DEF RegistryInv, RegistryTypeOK, AccountsOwn
<1>5. PubOwn'
  <2>1. ASSUME change.pub.at \in {"claims", "activate"}, NEW s \in Stores
        PROVE  active'[<<s, change.pub.account>>] = active[<<s, change.pub.account>>]
    <3>1. change.pub.account \in Accounts /\ active[<<s, change.pub.account>>] = Blocked(change.pub.version)
          /\ (w.account = change.pub.account => w.record.version # change.pub.version)
        BY <2>1 DEF RegistryInv, PubOwn
    <3>2. active[<<s, change.pub.account>>].version = change.pub.version
        BY <3>1 DEF Blocked
    <3> QED BY <1>3, <3>1, <3>2
  <2> QED BY <1>0, <1>1, <2>1 DEF RegistryInv, PubOwn
<1>6. \A s \in Stores, v \in Accounts : active'[<<s, v>>].version = active[<<s, v>>].version
    BY <1>3
<1>7. MutationOwn'
  <2>1. ASSUME NEW v \in Accounts, Demoted(v) PROVE Demoted(v)'
    <3>1. CASE change.pub.at # "none"
        BY <1>1, <2>1, <3>1 DEF Demoted
    <3>2. CASE change.pub.at = "none"
      <4>1. \A s \in Stores : active'[<<s, v>>].driver = "none"
          BY <1>3, <2>1, <3>2 DEF Demoted
      <4>2. \A x \in late' : x.store \in Stores
          BY <1>0 DEF RegistryTypeOK, LateWrites
      <4> QED BY <1>0, <1>1, <1>6, <2>1, <3>2, <4>1, <4>2 DEF Demoted
    <3> QED BY <3>1, <3>2
  <2>2. \A d \in Drivers : registry[d].account \in Accounts \cup {"none"}
      BY <1>0 DEF RegistryTypeOK
  <2> QED BY <1>1, <2>1, <2>2 DEF RegistryInv, MutationOwn
<1>8. ReconcileOwn'
  <2>1. ASSUME NEW d \in Drivers, Reconciled(d), registry[d].account # "none" PROVE Reconciled(d)'
    <3>1. registry[d].account \in Accounts
        BY <1>0, <2>1 DEF RegistryTypeOK
    <3>2. ASSUME change.pub.account # registry[d].account, NEW s \in Stores
          PROVE  active'[<<s, registry[d].account>>] = claims[registry[d].account]
      <4>1. active[<<s, registry[d].account>>] = claims[registry[d].account]
          BY <2>1, <3>2 DEF Reconciled
      <4> QED BY <1>0, <1>3, <3>1, <4>1 DEF LateOwn
    <3> QED BY <1>1, <2>1, <3>2 DEF Reconciled, Expected
  <2> QED BY <1>1, <2>1 DEF RegistryInv, ReconcileOwn, AccountsOwn, Expected, Nobody
<1>9. \A x \in late' : LateOwn(x)'
  <2>1. \A x \in late' : x.store \in Stores /\ x.account \in Accounts /\ LateOwn(x)
      BY <1>0 DEF RegistryInv, RegistryTypeOK, LateWrites
  <2> QED BY <1>1, <1>6, <2>1 DEF LateOwn
<1>10. OnlyRegisteredDrive'
    BY <1>0, <1>1, <1>3 DEF RegistryInv, OnlyRegisteredDrive, LateOwn
<1> QED BY <1>4, <1>5, <1>7, <1>8, <1>9, <1>10 DEF RegistryInv

\* The registry takes an account from a driver that was demoted, and gives it one
\* no other driver has.
LEMMA RegisterKeeps ==
    ASSUME RegistryInv, NEW d \in Drivers, NEW x \in [account : Accounts \cup {"none"}, bus : Buses \cup {"none"}],
           registry' = [registry EXCEPT ![d] = x], x.account = "none" => x = Nobody,
           \A o \in Drivers \ {d} : x.account # "none" => registry[o].account # x.account,
           registry[d].account \notin {"none", x.account} => Demoted(registry[d].account),
           UNCHANGED <<claims, active, late>>, bus' = bus, grant' = grant,
           change' \in Changes, change.pub = NoPublication, change'.pub = NoPublication,
           MutationOwn', ReconcileOwn'
    PROVE  RegistryInv'
<1>0. RegistryTypeOK /\ registry'[d] = x /\ \A o \in Drivers \ {d} : registry'[o] = registry[o]
    BY DEF RegistryInv, RegistryTypeOK
<1>1. RegistryTypeOK'
    BY <1>0 DEF RegistryTypeOK
<1>2. AccountsOwn'
    BY <1>0 DEF RegistryInv, AccountsOwn
<1>3. PubOwn'
    BY NothingOfTheFleet DEF PubOwn
<1>4. registry[d].account \in Accounts \cup {"none"}
    BY <1>0 DEF RegistryTypeOK
<1>5. OnlyRegisteredDrive'
  <2> SUFFICES ASSUME NEW s \in Stores, NEW u \in Accounts, active[<<s, u>>].driver # "none"
               PROVE  registry'[active[<<s, u>>].driver].account = u
      BY DEF OnlyRegisteredDrive
  <2>1. active[<<s, u>>].driver \in Drivers /\ registry[active[<<s, u>>].driver].account = u
      BY <1>0 DEF RegistryInv, OnlyRegisteredDrive, RegistryTypeOK, Records
  <2>2. CASE active[<<s, u>>].driver = d
    <3>1. u # "none" /\ registry[d].account = u
        BY <2>1, <2>2, NameAssumption
    <3>2. ~Demoted(u)
        BY NothingOfTheFleet DEF Demoted
    <3> QED BY <1>0, <2>2, <3>1, <3>2
  <2> QED BY <1>0, <2>1, <2>2
<1>6. ASSUME NEW w \in late PROVE LateOwn(w)'
  <2>1. w.account \in Accounts /\ w.record.driver \in Drivers \cup {"none"}
      BY <1>0 DEF RegistryTypeOK, LateWrites, Records
  <2>2. LateOwn(w)
      BY DEF RegistryInv
  <2>3. ASSUME w.record.driver = d, active[<<w.store, w.account>>].version = w.record.version
        PROVE  x.account = w.account
    <3>1. registry[d].account = w.account /\ w.account # "none" /\ w.record.driver # "none"
        BY <2>1, <2>2, <2>3, NameAssumption DEF LateOwn
    <3>2. ~Demoted(w.account)
        BY <2>3, <3>1, NothingOfTheFleet DEF Demoted
    <3> QED BY <3>1, <3>2
  <2> QED BY <1>0, <2>1, <2>2, <2>3 DEF LateOwn
<1> QED BY <1>1, <1>2, <1>3, <1>5, <1>6 DEF RegistryInv

LEMMA RegistrationKeeps == ASSUME RegistryInv, Register PROVE RegistryInv'
<1> DEFINE d == change.driver
           x == [account |-> change.account, bus |-> change.bus]
<1>0. /\ UNCHANGED <<bus, grant, claims, active, late>> /\ RegistryTypeOK /\ change \in Changes
      /\ change.at = "register" /\ ~change.failed /\ change.pub = NoPublication /\ MutationOwn
      /\ registry' = [registry EXCEPT ![d] = x]
      /\ change' = [change EXCEPT !.at = "authorize", !.todo = {d}]
    BY DEF Register, Step, Quiet, RegistryInv, RegistryTypeOK
<1>1. /\ change.kind = "put" /\ d \in Drivers /\ change.account \in Accounts /\ change.bus \in Buses \cup {"none"}
      /\ \A o \in Drivers \ {d} : registry[o].account # change.account
      /\ registry[d].account \notin {"none", change.account} => Demoted(registry[d].account)
    BY <1>0 DEF MutationOwn, Changes
<1>2. x \in [account : Accounts \cup {"none"}, bus : Buses \cup {"none"}] /\ x.account = change.account
    BY <1>1
<1>3. change' \in Changes /\ change'.pub = NoPublication /\ change'.at = "authorize" /\ change'.kind = "put"
    BY <1>0, <1>1 DEF Changes
<1>4. MutationOwn' /\ ReconcileOwn'
    BY <1>3 DEF MutationOwn, ReconcileOwn
<1>5. /\ x.account # "none" /\ \A o \in Drivers \ {d} : registry[o].account # x.account
      /\ registry[d].account \notin {"none", x.account} => Demoted(registry[d].account)
    BY <1>1, <1>2, NameAssumption
<1>6. /\ UNCHANGED <<bus, grant, claims, active, late>> /\ RegistryInv /\ change.pub = NoPublication
      /\ registry' = [registry EXCEPT ![d] = x] /\ d \in Drivers
    BY <1>0, <1>1
<1> HIDE DEF x, d
<1> QED BY <1>2, <1>3, <1>4, <1>5, <1>6, RegisterKeeps

LEMMA RemovalKeeps == ASSUME RegistryInv, Remove PROVE RegistryInv'
<1> DEFINE d == change.driver
           write == [driver |-> d, value |-> NoGrant]
<1>0. /\ UNCHANGED <<bus, grant, claims, active, late>> /\ RegistryTypeOK /\ change \in Changes
      /\ change.at = "remove" /\ ~change.failed /\ change.pub = NoPublication /\ MutationOwn
      /\ registry' \in {registry, [registry EXCEPT ![d] = Nobody]}
      /\ change' = [change EXCEPT !.at = "done", !.write = write]
    BY DEF Remove, Step, Quiet, RegistryInv, RegistryTypeOK
<1>1. change.kind = "delete" /\ d \in Drivers /\ Demoted(registry[d].account)
    BY <1>0 DEF MutationOwn
<1>2. write \in GrantWrites
    BY <1>1, NothingOfTheFleet DEF GrantWrites
<1>3. change' \in Changes /\ change'.pub = NoPublication /\ change'.at = "done" /\ change'.kind = "delete"
    BY <1>0, <1>1, <1>2 DEF Changes
<1>4. MutationOwn' /\ ReconcileOwn'
    BY <1>3 DEF MutationOwn, ReconcileOwn
<1>5. PubOwn'
    BY <1>3, NothingOfTheFleet DEF PubOwn
<1>6. CASE registry' = registry
    BY <1>0, <1>3, <1>4, <1>5, <1>6, ChangeKeeps
<1>7. CASE registry' = [registry EXCEPT ![d] = Nobody]
  <2>1. Nobody \in [account : Accounts \cup {"none"}, bus : Buses \cup {"none"}] /\ Nobody.account = "none"
      BY DEF Nobody
  <2> HIDE DEF d, write
  <2> QED BY <1>0, <1>1, <1>3, <1>4, <1>7, <2>1, RegisterKeeps
<1> QED BY <1>0, <1>6, <1>7

\* What a stopped process had sent is what it had blocked and claimed.
LEMMA CrashKeeps == ASSUME RegistryInv, Crash PROVE RegistryInv'
<1> DEFINE p == change.pub
           entry == Versioned(p.rights, p.version)
<1>0. UNCHANGED <<registry, bus, grant, claims, active>> /\ RegistryTypeOK /\ change' = Rest /\ change \in Changes
    BY DEF Crash, RegistryInv, RegistryTypeOK
<1>1. PubOwn' /\ MutationOwn' /\ ReconcileOwn'
    BY <1>0, NothingOfTheFleet DEF PubOwn, MutationOwn, ReconcileOwn
<1>2. CASE late' = late
    BY <1>0, <1>1, <1>2, ResetKeeps
<1>3. ASSUME p.at = "activate", NEW s \in Stores, late' = {[store |-> s, account |-> p.account, record |-> entry]}
      PROVE  RegistryInv'
  <2> DEFINE w == [store |-> s, account |-> p.account, record |-> entry]
  <2>1. /\ p \in Publications /\ p.account \in Accounts /\ claims[p.account] = entry
        /\ p.rights.driver # "none" => registry[p.rights.driver].account = p.account
      BY <1>0, <1>3 DEF RegistryInv, PubOwn, Changes
  <2>2. entry \in Records /\ entry.driver = p.rights.driver
      BY <2>1 DEF Versioned, Records, Publications, RightSets
  <2>3. w \in LateWrites
      BY <2>1, <2>2 DEF LateWrites
  <2>4. LateOwn(w)
      BY <2>1, <2>2 DEF LateOwn
  <2> HIDE DEF w, entry, p
  <2>5. late' = {w}
      BY <1>3 DEF w
  <2>6. RegistryTypeOK'
      BY <1>0, <2>3, <2>5, NothingOfTheFleet DEF RegistryTypeOK
  <2>7. \A v \in late' : LateOwn(v)'
      BY <1>0, <2>4, <2>5 DEF LateOwn
  <2> QED BY <1>0, <1>1, <2>6, <2>7 DEF RegistryInv, AccountsOwn, OnlyRegisteredDrive
<1> QED BY <1>2, <1>3 DEF Crash

LEMMA RegistryKept == ASSUME RegistryInv, [RegistryNext]_registryVars PROVE RegistryInv'
<1>1. CASE UNCHANGED registryVars
    BY <1>1 DEF registryVars, RegistryInv, RegistryTypeOK, AccountsOwn, PubOwn, MutationOwn, ReconcileOwn, Reconciled,
                Demoted, Expected, LateOwn, OnlyRegisteredDrive
<1> QED BY <1>1, BlockKeeps, ClaimsKeep, ActivateKeeps, LateKeeps, GrantKeeps, PutKeepsRegistry, RegistrationKeeps,
           DeleteKeepsRegistry, RemovalKeeps, BusesKeep, UnassignKeeps, DropKeeps, ReconcileKeeps, AuthorizeKeeps,
           AnswerKeeps, CloseKeeps, CrashKeeps
        DEF RegistryNext

THEOREM RegistryInvariant == RegistrySpec => []RegistryInv
BY RegistryStarts, RegistryKept, PTL DEF RegistrySpec

\* No store lets an account drive as a driver the registry gives to another, at
\* any moment of any mutation, after any failure or crash; and a reconciliation
\* that reports no failure left nothing to repair (routes/fleet.ts,
\* services/userAuthorization.ts).
THEOREM RightsFollowRegistryAlways == RegistrySpec => []RightsFollowRegistry
<1>1. RegistryInv => ReconciledAgrees
  <2> SUFFICES ASSUME RegistryInv, change.at = "reconciled", NEW d \in Drivers, registry[d] # Nobody
               PROVE  LET u == registry[d].account IN
                      /\ grant[d] = Expected(d)
                      /\ \A s \in Stores : /\ active[<<s, u>>].version = claims[u].version
                                            /\ Rights(active[<<s, u>>]) = Driver(d, registry[d].bus)
      BY DEF ReconciledAgrees
  <2>1. change.pub = NoPublication /\ change.write = NoWrite /\ change.todo = {} /\ ~change.failed
      BY DEF RegistryInv, ReconcileOwn, Rest
  <2>2. Reconciled(d) /\ registry[d].account # "none"
      BY <2>1 DEF RegistryInv, ReconcileOwn, AccountsOwn
  <2>3. NoWrite # [driver |-> d, value |-> Expected(d)]
      BY NameAssumption DEF NoWrite
  <2> QED BY <2>1, <2>2, <2>3, NothingOfTheFleet DEF Reconciled
<1> QED BY RegistryInvariant, <1>1, PTL DEF RegistryInv, RightsFollowRegistry

-----------------------------------------------------------------------------
\* PrivacyDeletion.

Request == [status : {"none", "pending", "processing", "failed"},
            phase : {"cleaning", "auth_deletion_dispatched"},
            executor : Workers \cup {"nobody"}, gen : Nat, target : Nat, failures : Nat, overdue : BOOLEAN]
Deleting == [at : {"idle", "locking", "recording", "checking", "draining", "dispatching", "deleting", "called",
                   "finishing", "unlocking"},
             gen : Nat, busy : BOOLEAN, conflict : BOOLEAN]

PrivacyTypeOK ==
    /\ account \in [identity : Nat, operator : BOOLEAN]
    /\ request \in Request
    /\ deletion \in [Workers -> Deleting]
    /\ hold \in Workers \cup {"free", "fleet"}
    /\ asking \in Nat

\* An execution past the lock has the mutex.
HoldInv ==
    \A w \in Workers :
        deletion[w].at \in {"checking", "draining", "dispatching", "deleting", "called", "finishing", "unlocking"}
            => hold = w

\* A request names the identity that asked.
TargetInv ==
    /\ request.status = "none" => request = NoRequest
    /\ request.status # "none" => request.target # 0

\* What was checked at the dispatch still holds when Auth deletes: the mutex
\* keeps the fleet away, and no request of another identity replaces this one.
DispatchInv ==
    \A w \in Workers :
        deletion[w].at \in {"deleting", "called"} =>
            /\ ~account.operator
            /\ request.status # "none"
            /\ account.identity # 0 => request.target = account.identity

PrivacyInv == PrivacyTypeOK /\ HoldInv /\ TargetInv /\ DispatchInv

LEMMA PrivacyStarts == PrivacyInit => PrivacyInv
<1> SUFFICES ASSUME PrivacyInit PROVE PrivacyInv
    OBVIOUS
<1>1. NoRequest \in Request /\ Resting \in Deleting
    BY DEF NoRequest, Request, Resting, Deleting
<1>2. PrivacyTypeOK
    BY <1>1 DEF PrivacyInit, PrivacyTypeOK
<1>3. HoldInv /\ TargetInv /\ DispatchInv
    BY DEF PrivacyInit, HoldInv, TargetInv, DispatchInv, Resting, NoRequest
<1> QED BY <1>2, <1>3 DEF PrivacyInv

\* An execution goes on or ends; a dispatch is not part of it.
LEMMA DeletionGoesOn ==
    ASSUME PrivacyInv, NEW w \in Workers, NEW k \in Deleting,
           deletion' = [deletion EXCEPT ![w] = k],
           UNCHANGED <<account, hold, asking>>, request' \in Request, TargetInv',
           request.status # "none" => request'.status # "none" /\ request'.target = request.target,
           k.at \in {"checking", "draining", "dispatching", "deleting", "called", "finishing", "unlocking"} => hold = w,
           k.at \in {"deleting", "called"} => deletion[w].at \in {"deleting", "called"}
    PROVE  PrivacyInv'
<1>1. deletion'[w] = k /\ \A v \in Workers \ {w} : deletion'[v] = deletion[v]
    BY DEF PrivacyInv, PrivacyTypeOK
<1>2. PrivacyTypeOK'
    BY DEF PrivacyInv, PrivacyTypeOK
<1>3. HoldInv'
    BY <1>1 DEF PrivacyInv, HoldInv
<1>4. DispatchInv'
    BY <1>1 DEF PrivacyInv, DispatchInv
<1> QED BY <1>2, <1>3, <1>4 DEF PrivacyInv

\* The request changes, no execution does.
LEMMA RequestGoesOn ==
    ASSUME PrivacyInv, UNCHANGED <<account, hold, deletion>>, request' \in Request, TargetInv', asking' \in Nat,
           request.status # "none" => request'.status # "none" /\ request'.target = request.target
    PROVE  PrivacyInv'
BY DEF PrivacyInv, PrivacyTypeOK, HoldInv, DispatchInv

LEMMA PrivacyKept == PrivacyInv /\ [PrivacyNext]_privacyVars => PrivacyInv'
<1> SUFFICES ASSUME PrivacyInv, [PrivacyNext]_privacyVars
             PROVE  PrivacyInv'
    OBVIOUS
<1> DEFINE Held == {"checking", "draining", "dispatching", "deleting", "called", "finishing", "unlocking"}
<1>0. /\ \A w \in Workers : deletion[w] \in Deleting /\ (deletion[w].at \in Held => hold = w)
      /\ deletion \in [Workers -> Deleting] /\ request \in Request /\ TargetInv
      /\ Resting \in Deleting /\ Resting.at = "idle" /\ NoRequest \in Request /\ NoRequest.status = "none"
    BY DEF PrivacyInv, PrivacyTypeOK, HoldInv, Resting, Deleting, NoRequest, Request
<1>A. ASSUME NEW w \in Workers, NEW place \in Held \cup {"recording"}, Advance(w, place), deletion[w].at \in Held,
             UNCHANGED <<account, hold, asking>>,
             \/ UNCHANGED request
             \/ /\ request' \in Request /\ TargetInv'
                /\ request.status # "none" => request'.status # "none" /\ request'.target = request.target,
             place \in {"deleting", "called"} => deletion[w].at \in {"deleting", "called"}
      PROVE  PrivacyInv'
  <2> DEFINE k == [deletion[w] EXCEPT !.at = place]
  <2>1. k \in Deleting /\ k.at = place
      BY <1>0 DEF Deleting
  <2>2. deletion' = [deletion EXCEPT ![w] = k]
      BY <1>0, <1>A DEF Advance
  <2>3. request' \in Request /\ TargetInv' /\ (request.status # "none" => request'.status # "none" /\ request'.target = request.target)
      BY <1>0, <1>A DEF TargetInv
  <2> HIDE DEF k
  <2> QED BY <1>0, <1>A, <2>1, <2>2, <2>3, DeletionGoesOn
<1>B. ASSUME NEW w \in Workers, NEW conflict \in BOOLEAN, GiveUp(w, conflict), deletion[w].at \in Held,
             UNCHANGED <<account, hold, asking>>,
             \/ UNCHANGED request
             \/ /\ request' \in Request /\ TargetInv'
                /\ request.status # "none" => request'.status # "none" /\ request'.target = request.target
      PROVE  PrivacyInv'
  <2> DEFINE k == [deletion[w] EXCEPT !.at = "unlocking", !.conflict = conflict]
  <2>1. k \in Deleting /\ k.at = "unlocking"
      BY <1>0 DEF Deleting
  <2>2. deletion' = [deletion EXCEPT ![w] = k]
      BY <1>0, <1>B DEF GiveUp
  <2>3. request' \in Request /\ TargetInv' /\ (request.status # "none" => request'.status # "none" /\ request'.target = request.target)
      BY <1>0, <1>B DEF TargetInv
  <2> HIDE DEF k
  <2> QED BY <1>0, <1>B, <2>1, <2>2, <2>3, DeletionGoesOn
<1>R. ASSUME NEW w \in Workers, deletion' = [deletion EXCEPT ![w] = Resting], UNCHANGED <<account, hold, asking>>,
             \/ UNCHANGED request
             \/ /\ request' \in Request /\ TargetInv'
                /\ request.status # "none" => request'.status # "none" /\ request'.target = request.target
      PROVE  PrivacyInv'
  <2>3. request' \in Request /\ TargetInv' /\ (request.status # "none" => request'.status # "none" /\ request'.target = request.target)
      BY <1>0, <1>R DEF TargetInv
  <2> QED BY <1>0, <1>R, <2>3, DeletionGoesOn
<1>1. CASE UNCHANGED privacyVars
    BY <1>0, <1>1, RequestGoesOn DEF privacyVars, PrivacyInv, PrivacyTypeOK, TargetInv
<1>2. CASE Ask \/ BeginBootstrap \/ Bootstrap
  <2>1. asking' \in Nat /\ UNCHANGED <<account, hold, deletion, request>>
      BY <1>2 DEF Ask, BeginBootstrap, Bootstrap, PrivacyInv, PrivacyTypeOK
  <2> QED BY <1>0, <2>1, RequestGoesOn DEF TargetInv
<1>3. CASE Enqueue
  <2>0. asking \in Nat /\ asking # 0 /\ asking' = 0 /\ UNCHANGED <<account, hold, deletion>>
      BY <1>3 DEF Enqueue, PrivacyInv, PrivacyTypeOK
  <2>1. CASE UNCHANGED request
      BY <1>0, <2>0, <2>1, RequestGoesOn DEF TargetInv
  <2>2. CASE /\ request = NoRequest
             /\ request' = [NoRequest EXCEPT !.status = "pending", !.target = asking]
    <3>1. request' \in Request /\ request'.status = "pending" /\ request'.target = asking
        BY <2>0, <2>2 DEF NoRequest, Request
    <3> QED BY <1>0, <2>0, <2>2, <3>1, RequestGoesOn DEF TargetInv
  <2>3. CASE /\ request # NoRequest /\ request.target \in {0, asking}
             /\ request' = [request EXCEPT !.target = asking]
    <3>1. request' \in Request /\ request'.status = request.status /\ request'.target = asking
        BY <1>0, <2>0, <2>3 DEF Request
    <3>2. request.target = asking
        BY <1>0, <2>3 DEF TargetInv
    <3> QED BY <1>0, <2>0, <2>3, <3>1, <3>2, RequestGoesOn DEF TargetInv
  <2>4. CASE /\ request # NoRequest /\ request.target \in {0, asking}
             /\ request' = [request EXCEPT !.status = "pending", !.phase = "cleaning", !.target = asking,
                                           !.failures = 0, !.gen = @ + 1]
    <3> DEFINE n == request.gen + 1
    <3>0. n \in Nat
        BY <1>0 DEF Request
    <3> HIDE DEF n
    <3>1. request' = [request EXCEPT !.status = "pending", !.phase = "cleaning", !.target = asking,
                                     !.failures = 0, !.gen = n]
        BY <2>4 DEF n
    <3>2. request' \in Request /\ request'.status = "pending" /\ request'.target = asking
        BY <1>0, <2>0, <3>0, <3>1 DEF Request
    <3>3. request.target = asking
        BY <1>0, <2>4 DEF TargetInv
    <3> QED BY <1>0, <2>0, <3>2, <3>3, RequestGoesOn DEF TargetInv
  <2> QED BY <1>3, <2>1, <2>2, <2>3, <2>4 DEF Enqueue
<1>4. ASSUME NEW w \in Workers, WorkerStep(w) PROVE PrivacyInv'
  <2>0. Leads(w) \in BOOLEAN /\ Claimed(w) \in BOOLEAN /\ Eligible \in BOOLEAN /\ StillEligible \in BOOLEAN
      BY DEF Leads, Claimed, Eligible, StillEligible
  <2>1. CASE ClaimRequest(w)
    <3> DEFINE n == request.gen + 1
               k == [Resting EXCEPT !.at = "locking", !.gen = n]
    <3>0. n \in Nat
        BY <1>0 DEF Request
    <3> HIDE DEF n
    <3>1. k \in Deleting /\ k.at = "locking"
        BY <3>0 DEF Resting, Deleting
    <3>2. request' = [request EXCEPT !.status = "processing", !.phase = "cleaning", !.executor = w,
                                     !.gen = n, !.overdue = FALSE]
        BY <2>1 DEF ClaimRequest, n
    <3>3. request' \in Request /\ request'.status = "processing" /\ request'.target = request.target
        BY <1>0, <3>0, <3>2 DEF Request
    <3>4. deletion' = [deletion EXCEPT ![w] = k] /\ UNCHANGED <<account, hold, asking>> /\ request.status = "pending"
        BY <2>1 DEF ClaimRequest, n
    <3> HIDE DEF k
    <3> QED BY <1>0, <3>1, <3>3, <3>4, DeletionGoesOn DEF TargetInv
  <2>2. CASE Hold(w)
    <3>0. UNCHANGED <<account, request, asking>> /\ deletion[w].at = "locking"
        BY <2>2 DEF Hold, Executing
    <3>1. CASE hold = "free" /\ hold' = w /\ Advance(w, "checking")
      <4> DEFINE k == [deletion[w] EXCEPT !.at = "checking"]
      <4>1. k \in Deleting /\ k.at = "checking"
          BY <1>0 DEF Deleting
      <4>2. deletion' = [deletion EXCEPT ![w] = k]
          BY <1>0, <3>1 DEF Advance
      <4>3. deletion'[w] = k /\ \A v \in Workers \ {w} : deletion'[v] = deletion[v]
          BY <1>0, <4>2
      <4>4. \A v \in Workers : deletion[v].at \notin Held
          BY <1>0, <3>1, WorkerAssumption
      <4> HIDE DEF k
      <4>5. PrivacyTypeOK'
          BY <1>0, <3>0, <3>1, <4>1, <4>2 DEF PrivacyInv, PrivacyTypeOK
      <4>6. HoldInv'
          BY <3>1, <4>1, <4>3, <4>4 DEF HoldInv
      <4>7. TargetInv' /\ DispatchInv'
          BY <1>0, <3>0, <4>1, <4>3, <4>4 DEF TargetInv, DispatchInv
      <4> QED BY <4>5, <4>6, <4>7 DEF PrivacyInv
    <3>2. CASE deletion' = [deletion EXCEPT ![w].at = "recording", ![w].busy = TRUE] /\ UNCHANGED hold
      <4> DEFINE k == [deletion[w] EXCEPT !.at = "recording", !.busy = TRUE]
      <4>1. k \in Deleting /\ k.at = "recording"
          BY <1>0 DEF Deleting
      <4>2. deletion' = [deletion EXCEPT ![w] = k]
          BY <1>0, <3>2
      <4> HIDE DEF k
      <4> QED BY <1>0, <3>0, <3>2, <4>1, <4>2, DeletionGoesOn DEF TargetInv
    <3> QED BY <2>2, <3>1, <3>2 DEF Hold
  <2>3. CASE Check(w)
    <3>0. UNCHANGED <<account, hold, asking>> /\ deletion[w].at = "checking"
        BY <2>3 DEF Check, Executing
    <3>1. CASE /\ Claimed(w) /\ Advance(w, "draining")
               /\ request' = [request EXCEPT !.target = IF @ = 0 THEN account.identity ELSE @]
      <4>1. request.target # 0
          BY <1>0, <3>1 DEF Claimed, TargetInv
      <4>2. request' = request
          BY <1>0, <3>1, <4>1 DEF Request
      <4> QED BY <1>A, <3>0, <3>1, <4>2
    <3> QED BY <1>B, <2>0, <2>3, <3>0, <3>1 DEF Check
  <2>4. CASE DrainPage(w)
    <3>0. UNCHANGED <<account, hold, asking>> /\ deletion[w].at = "draining"
        BY <2>4 DEF DrainPage, Executing
    <3>1. CASE /\ Claimed(w) /\ GiveUp(w, FALSE)
               /\ request' = [request EXCEPT !.status = "pending", !.failures = 0]
      <4>1. request' \in Request /\ request'.status = "pending" /\ request'.target = request.target
          BY <1>0, <3>1 DEF Request
      <4>2. TargetInv'
          BY <1>0, <3>1, <4>1 DEF TargetInv, Claimed
      <4> QED BY <1>B, <3>0, <3>1, <4>1, <4>2
    <3> QED BY <1>A, <1>B, <2>0, <2>4, <3>0, <3>1 DEF DrainPage
  <2>5. CASE Dispatch(w)
    <3>0. UNCHANGED <<account, hold, asking>> /\ deletion[w].at = "dispatching" /\ hold = w
        BY <1>0, <2>5 DEF Dispatch, Executing
    <3>1. CASE /\ StillEligible /\ Claimed(w) /\ Advance(w, "deleting")
               /\ request' = [request EXCEPT !.phase = "auth_deletion_dispatched"]
      <4> DEFINE k == [deletion[w] EXCEPT !.at = "deleting"]
      <4>1. k \in Deleting /\ k.at = "deleting"
          BY <1>0 DEF Deleting
      <4>2. deletion' = [deletion EXCEPT ![w] = k]
          BY <1>0, <3>1 DEF Advance
      <4>3. deletion'[w] = k /\ \A v \in Workers \ {w} : deletion'[v] = deletion[v]
          BY <1>0, <4>2
      <4>4. request' \in Request /\ request'.status = "processing" /\ request'.target = request.target
            /\ request.status = "processing"
          BY <1>0, <3>1 DEF Request, Claimed
      <4> HIDE DEF k
      <4>5. PrivacyTypeOK'
          BY <1>0, <3>0, <4>1, <4>2, <4>4 DEF PrivacyInv, PrivacyTypeOK
      <4>6. HoldInv'
          BY <1>0, <3>0, <4>3 DEF HoldInv
      <4>7. TargetInv'
          BY <1>0, <4>4 DEF TargetInv
      <4>8. ~account.operator /\ (account.identity # 0 => request.target = account.identity)
          BY <1>0, <3>1, <4>4 DEF StillEligible, Eligible, TargetInv
      <4>9. DispatchInv'
          BY <3>0, <4>3, <4>4, <4>8 DEF DispatchInv, PrivacyInv
      <4> QED BY <4>5, <4>6, <4>7, <4>9 DEF PrivacyInv
    <3> QED BY <1>B, <2>0, <2>5, <3>0, <3>1 DEF Dispatch
  <2>6. CASE CallDelete(w)
      BY <1>A, <1>B, <2>6 DEF CallDelete, Executing
  <2>7. CASE DeleteAccount(w)
    <3>0. UNCHANGED <<request, hold, asking>> /\ deletion[w].at = "called" /\ hold = w
        BY <1>0, <2>7 DEF DeleteAccount, Executing
    <3>1. CASE UNCHANGED account
        BY <1>A, <1>B, <2>7, <3>0, <3>1 DEF DeleteAccount
    <3>2. CASE account' = NoAccount
      <4>0. PICK k \in Deleting : k.at \in {"finishing", "unlocking"} /\ deletion' = [deletion EXCEPT ![w] = k]
        <5> DEFINE kf == [deletion[w] EXCEPT !.at = "finishing"]
                   ku == [deletion[w] EXCEPT !.at = "unlocking", !.conflict = FALSE]
        <5>1. kf \in Deleting /\ kf.at = "finishing"
            BY <1>0 DEF Deleting
        <5>2. ku \in Deleting /\ ku.at = "unlocking"
            BY <1>0 DEF Deleting
        <5>3. deletion' = [deletion EXCEPT ![w] = kf] \/ deletion' = [deletion EXCEPT ![w] = ku]
            BY <1>0, <2>7, <3>2 DEF DeleteAccount, Advance, GiveUp
        <5> HIDE DEF kf, ku
        <5> QED BY <5>1, <5>2, <5>3
      <4>1. deletion'[w] = k /\ \A v \in Workers \ {w} : deletion'[v] = deletion[v]
          BY <1>0, <4>0
      <4>2. \A v \in Workers \ {w} : deletion[v].at \notin Held
          BY <1>0, <3>0
      <4>3. account' \in [identity : Nat, operator : BOOLEAN]
          BY <3>2 DEF NoAccount
      <4>4. PrivacyTypeOK'
          BY <1>0, <3>0, <4>0, <4>3 DEF PrivacyInv, PrivacyTypeOK
      <4>5. HoldInv' /\ TargetInv' /\ DispatchInv'
          BY <1>0, <3>0, <4>0, <4>1, <4>2 DEF HoldInv, TargetInv, DispatchInv
      <4> QED BY <4>4, <4>5 DEF PrivacyInv
    <3> QED BY <2>7, <3>1, <3>2 DEF DeleteAccount
  <2>8. CASE Finish(w)
    <3>0. UNCHANGED <<account, hold, asking>> /\ deletion[w].at = "finishing" /\ hold = w /\ GiveUp(w, ~Claimed(w))
        BY <1>0, <2>8 DEF Finish, Executing
    <3>1. CASE UNCHANGED request
        BY <1>B, <2>0, <3>0, <3>1
    <3>2. CASE request' = NoRequest
      <4> DEFINE k == [deletion[w] EXCEPT !.at = "unlocking", !.conflict = ~Claimed(w)]
      <4>1. k \in Deleting /\ k.at = "unlocking"
          BY <1>0, <2>0 DEF Deleting
      <4>2. deletion' = [deletion EXCEPT ![w] = k]
          BY <1>0, <3>0 DEF GiveUp
      <4> HIDE DEF k
      <4>3. deletion'[w] = k /\ \A v \in Workers \ {w} : deletion'[v] = deletion[v]
          BY <1>0, <4>2
      <4>4. \A v \in Workers \ {w} : deletion[v].at \notin Held
          BY <1>0, <3>0
      <4>5. PrivacyTypeOK'
          BY <1>0, <3>0, <3>2, <4>1, <4>2 DEF PrivacyInv, PrivacyTypeOK
      <4>6. HoldInv' /\ TargetInv' /\ DispatchInv'
          BY <1>0, <3>0, <3>2, <4>1, <4>3, <4>4 DEF HoldInv, TargetInv, DispatchInv
      <4> QED BY <4>5, <4>6 DEF PrivacyInv
    <3> QED BY <2>8, <3>1, <3>2 DEF Finish
  <2>9. CASE Unhold(w)
    <3>0. UNCHANGED <<account, request, asking>> /\ deletion[w].at = "unlocking" /\ hold = w /\ hold' \in {hold, "free"}
        BY <1>0, <2>9 DEF Unhold, Executing
    <3>1. PICK k \in Deleting : k.at \in {"idle", "recording"} /\ deletion' = [deletion EXCEPT ![w] = k]
      <4> DEFINE kr == [deletion[w] EXCEPT !.at = "recording"]
      <4>1. kr \in Deleting /\ kr.at = "recording"
          BY <1>0 DEF Deleting
      <4>2. deletion' = [deletion EXCEPT ![w] = kr] \/ deletion' = [deletion EXCEPT ![w] = Resting]
          BY <1>0, <2>9 DEF Unhold, Advance
      <4> HIDE DEF kr
      <4> QED BY <1>0, <4>1, <4>2
    <3>2. deletion'[w] = k /\ \A v \in Workers \ {w} : deletion'[v] = deletion[v]
        BY <1>0, <3>1
    <3>3. \A v \in Workers \ {w} : deletion[v].at \notin Held
        BY <1>0, <3>0
    <3>4. PrivacyTypeOK'
        BY <1>0, <3>0, <3>1 DEF PrivacyInv, PrivacyTypeOK
    <3>5. HoldInv' /\ TargetInv' /\ DispatchInv'
        BY <1>0, <3>0, <3>1, <3>2, <3>3 DEF HoldInv, TargetInv, DispatchInv
    <3> QED BY <3>4, <3>5 DEF PrivacyInv
  <2>10. CASE RecordFailure(w)
    <3>0. UNCHANGED <<account, hold, asking>> /\ deletion' = [deletion EXCEPT ![w] = Resting]
        BY <2>10 DEF RecordFailure
    <3>1. CASE UNCHANGED request
        BY <1>R, <3>0, <3>1
    <3>2. CASE Claimed(w) /\ request' # request
      <4>1. PICK status \in {"failed", "pending"}, n \in Nat :
                request' = [request EXCEPT !.status = status, !.failures = n]
        <5>1. request.failures + (IF deletion[w].busy THEN 0 ELSE 1) \in Nat
            BY <1>0 DEF Request
        <5> QED BY <2>10, <3>2, <5>1 DEF RecordFailure
      <4>2. request' \in Request /\ request'.status \in {"failed", "pending"} /\ request'.target = request.target
          BY <1>0, <4>1 DEF Request
      <4>3. TargetInv'
          BY <1>0, <3>2, <4>2 DEF TargetInv, Claimed
      <4> QED BY <1>R, <3>0, <4>2, <4>3
    <3> QED BY <2>10, <3>1, <3>2 DEF RecordFailure
  <2>11. CASE Lead(w)
      BY <1>0, <2>11, RequestGoesOn DEF Lead, TargetInv, PrivacyInv, PrivacyTypeOK
  <2>12. CASE Restart(w)
      BY <1>R, <2>12 DEF Restart
  <2> QED BY <1>4, <2>1, <2>2, <2>3, <2>4, <2>5, <2>6, <2>7, <2>8, <2>9, <2>10, <2>11, <2>12 DEF WorkerStep
<1>5. CASE Overdue
  <2>1. request' \in Request /\ request'.status = request.status /\ request'.target = request.target
        /\ request.status = "processing"
      BY <1>0, <1>5 DEF Overdue, Request
  <2>2. UNCHANGED <<account, hold, deletion, asking>> /\ asking' \in Nat
      BY <1>5 DEF Overdue, PrivacyInv, PrivacyTypeOK
  <2> QED BY <1>0, <2>1, <2>2, RequestGoesOn DEF TargetInv
<1>6. CASE RecoverRequest
  <2> DEFINE n == request.gen + 1
  <2>0. n \in Nat
      BY <1>0 DEF Request
  <2> HIDE DEF n
  <2>1. request' = [request EXCEPT !.status = "pending", !.gen = n, !.failures = 0] /\ request.status # "none"
      BY <1>6 DEF RecoverRequest, n
  <2>2. request' \in Request /\ request'.status = "pending" /\ request'.target = request.target
      BY <1>0, <2>0, <2>1 DEF Request
  <2>3. UNCHANGED <<account, hold, deletion, asking>> /\ asking' \in Nat
      BY <1>6 DEF RecoverRequest, PrivacyInv, PrivacyTypeOK
  <2> QED BY <1>0, <2>1, <2>2, <2>3, RequestGoesOn DEF TargetInv
<1>7. CASE RecoverHold \/ BeginPromotion
  <2>1. /\ UNCHANGED <<account, request, deletion, asking>>
        /\ hold' \in {"free", "fleet"} /\ \A w \in Workers : deletion[w].at \notin Held
      BY <1>0, <1>7, WorkerAssumption DEF RecoverHold, BeginPromotion, MutexFree
  <2> QED BY <1>0, <2>1 DEF PrivacyInv, PrivacyTypeOK, HoldInv, TargetInv, DispatchInv
<1>8. CASE Promote
  <2>1. /\ UNCHANGED <<request, deletion, asking>> /\ hold' = "free"
        /\ account' \in [identity : Nat, operator : BOOLEAN]
        /\ \A w \in Workers : deletion[w].at \notin Held
      BY <1>0, <1>8, WorkerAssumption DEF Promote, PrivacyInv, PrivacyTypeOK
  <2> QED BY <1>0, <2>1 DEF PrivacyInv, PrivacyTypeOK, HoldInv, TargetInv, DispatchInv
<1>9. CASE Recreate
  <2>1. PICK i \in (account.identity + 1) .. MaxIdentity : account' = [identity |-> i, operator |-> FALSE]
      BY <1>9 DEF Recreate
  <2>2. i \in Nat
      BY DEF PrivacyInv, PrivacyTypeOK
  <2>3. /\ UNCHANGED <<request, deletion, hold, asking>>
        /\ account' \in [identity : Nat, operator : BOOLEAN]
        /\ \A w \in Workers : deletion[w].at \notin {"deleting", "called"}
      BY <1>9, <2>1, <2>2 DEF Recreate
  <2> QED BY <1>0, <2>3 DEF PrivacyInv, PrivacyTypeOK, HoldInv, TargetInv, DispatchInv
<1> QED BY <1>1, <1>2, <1>3, <1>4, <1>5, <1>6, <1>7, <1>8, <1>9 DEF PrivacyNext

THEOREM PrivacyInvariant == PrivacySpec => []PrivacyInv
BY PrivacyStarts, PrivacyKept, PTL DEF PrivacySpec

\* Auth deletes the account that asked, and no operator's: only the call of an
\* execution removes it, and what the dispatch checked still holds then
\* (services/privacyDeletionWorker.ts, routes/users.ts).
THEOREM OnlyTheAskingAccountAlways == PrivacySpec => OnlyTheAskingAccount
<1> DEFINE Goal == account.identity # 0 /\ account' = NoAccount =>
                       ~account.operator /\ request.target = account.identity
<1>1. ASSUME PrivacyInv, PrivacyNext PROVE Goal
  <2> SUFFICES ASSUME account.identity # 0, account' = NoAccount
               PROVE  ~account.operator /\ request.target = account.identity
      OBVIOUS
  <2>0. account \in [identity : Nat, operator : BOOLEAN] /\ account'.identity = 0
      BY <1>1 DEF PrivacyInv, PrivacyTypeOK, NoAccount
  <2>1. ~Promote
    <3> SUFFICES ASSUME Promote PROVE FALSE
        OBVIOUS
    <3>1. account'.identity = account.identity
        BY <2>0 DEF Promote
    <3> QED BY <2>0, <3>1
  <2>2. ~Recreate
    <3> SUFFICES ASSUME Recreate PROVE FALSE
        OBVIOUS
    <3>1. PICK i \in (account.identity + 1) .. MaxIdentity : account' = [identity |-> i, operator |-> FALSE]
        BY DEF Recreate
    <3>2. i # 0
        BY <2>0
    <3> QED BY <2>0, <3>1, <3>2
  <2>3. PICK w \in Workers : DeleteAccount(w)
    <3>1. account' # account
        BY <2>0
    <3> QED BY <1>1, <2>1, <2>2, <3>1
            DEF PrivacyNext, Ask, Enqueue, BeginBootstrap, Bootstrap, WorkerStep, ClaimRequest, Hold, Check, DrainPage,
                Dispatch, CallDelete, Finish, Unhold, RecordFailure, Lead, Restart, Overdue, RecoverRequest,
                RecoverHold, BeginPromotion
  <2> QED BY <1>1, <2>3 DEF DeleteAccount, Executing, PrivacyInv, DispatchInv
<1>2. ASSUME PrivacyInv, [PrivacyNext]_privacyVars PROVE [Goal]_privacyVars
    BY <1>1, <1>2
<1> HIDE DEF Goal
<1> QED BY PrivacyInvariant, <1>2, PTL DEF PrivacySpec, OnlyTheAskingAccount, Goal

-----------------------------------------------------------------------------
\* RouteCatalog.

SavedRoutes == [config : Nat, geometry : Nat, shape : Shapes \cup {"none"}]
Sent == {"create", "edit"} \X Nat \X (Shapes \cup {"none"})

SaveRecords == [status : {"none", "processing", "succeeded", "failed"}, payload : Sent \cup {<<>>},
                owner : Nat, claims : Nat, over : BOOLEAN, unknown : BOOLEAN]
Attempts == [at : {"idle", "claiming", "computing", "committing", "failing", "unknown"},
             id : Saves \cup {"none"}, payload : Sent \cup {<<>>}, owner : Nat, seen : SavedRoutes]

CatalogTypeOK ==
    /\ route \in SavedRoutes
    /\ save \in [Saves -> SaveRecords]
    /\ attempt \in [Requests -> Attempts]

\* A request under way is for a payload and has an operation.
SentInv ==
    \A r \in Requests :
        attempt[r] = NoAttempt \/ (attempt[r].at # "idle" /\ attempt[r].id \in Saves /\ attempt[r].payload \in Sent)

CatalogInv == CatalogTypeOK /\ SentInv

\* What a step may do to the route.
RouteStep ==
    /\ route' # route /\ route' # NoRoute =>
          \E i \in Saves : save[i].status # "succeeded" /\ save'[i].status = "succeeded"
    /\ route # NoRoute /\ route' # route =>
          IF route' = NoRoute THEN pin # "riding" ELSE pin = "none"

LEMMA NothingOf == NoRoute \in SavedRoutes /\ NoSave \in SaveRecords /\ NoAttempt \in Attempts /\ NoAttempt.at = "idle"
BY DEF NoRoute, SavedRoutes, NoSave, SaveRecords, NoAttempt, Attempts

LEMMA CatalogStarts == CatalogInit => CatalogInv
<1> SUFFICES ASSUME CatalogInit PROVE CatalogInv
    OBVIOUS
<1>1. (CHOOSE s \in Shapes : TRUE) \in Shapes
    BY ShapeAssumption
<1>2. route \in SavedRoutes
    BY <1>1, NothingOf DEF CatalogInit, SavedRoutes
<1> QED BY <1>2, NothingOf DEF CatalogInit, CatalogInv, CatalogTypeOK, SentInv

\* A request goes on, or ends.
LEMMA AttemptGoesOn ==
    ASSUME CatalogInv, NEW r \in Requests, NEW a \in Attempts,
           a = NoAttempt \/ (a.at # "idle" /\ a.id \in Saves /\ a.payload \in Sent),
           attempt' = [attempt EXCEPT ![r] = a]
    PROVE  attempt' \in [Requests -> Attempts] /\ SentInv'
BY DEF CatalogInv, CatalogTypeOK, SentInv

LEMMA PutKeeps ==
    ASSUME CatalogInv, NEW r \in Requests, NEW i \in Saves, NEW p \in Sent, UNCHANGED <<route, save, pin, bound>>,
           attempt' = [attempt EXCEPT ![r] = [NoAttempt EXCEPT !.at = "claiming", !.id = i, !.payload = p]]
    PROVE  CatalogInv' /\ RouteStep
<1> DEFINE a == [NoAttempt EXCEPT !.at = "claiming", !.id = i, !.payload = p]
<1>1. a \in Attempts /\ a.at # "idle" /\ a.id \in Saves /\ a.payload \in Sent
    BY NothingOf DEF Attempts
<1>2. attempt' = [attempt EXCEPT ![r] = a]
    OBVIOUS
<1> HIDE DEF a
<1>3. attempt' \in [Requests -> Attempts] /\ SentInv'
    BY <1>1, <1>2, AttemptGoesOn
<1> QED BY <1>3 DEF CatalogInv, CatalogTypeOK, RouteStep

LEMMA EndKeeps ==
    ASSUME CatalogInv, NEW r \in Requests, End(r)
    PROVE  attempt' \in [Requests -> Attempts] /\ SentInv'
BY NothingOf, AttemptGoesOn DEF End

LEMMA ClaimKeeps ==
    ASSUME CatalogInv, NEW r \in Requests, ClaimSave(r)
    PROVE  CatalogInv' /\ RouteStep
<1> DEFINE i == attempt[r].id
           p == attempt[r].payload
           owner == save[i].claims + 1
<1>0. /\ i \in Saves /\ p \in Sent /\ attempt[r] \in Attempts /\ route \in SavedRoutes /\ save[i] \in SaveRecords
      /\ UNCHANGED <<route, pin, bound>>
    BY NothingOf DEF ClaimSave, CatalogInv, CatalogTypeOK, SentInv
<1>1. CASE End(r) /\ UNCHANGED save
    BY <1>0, <1>1, EndKeeps DEF CatalogInv, CatalogTypeOK, RouteStep
<1>2. CASE /\ save' = [save EXCEPT ![i] = [status |-> "processing", payload |-> p, owner |-> owner,
                                          claims |-> owner, over |-> FALSE, unknown |-> FALSE]]
           /\ \/ attempt' = [attempt EXCEPT ![r].at = "computing", ![r].owner = owner, ![r].seen = route]
              \/ End(r)
  <2>0. owner \in Nat
      BY <1>0 DEF SaveRecords
  <2> HIDE DEF owner
  <2> DEFINE o == [status |-> "processing", payload |-> p, owner |-> owner,
                   claims |-> owner, over |-> FALSE, unknown |-> FALSE]
             a == [attempt[r] EXCEPT !.at = "computing", !.owner = owner, !.seen = route]
  <2>1. o \in SaveRecords
      BY <1>0, <2>0 DEF SaveRecords
  <2>2. a \in Attempts /\ a.at # "idle" /\ a.id \in Saves /\ a.payload \in Sent
      BY <1>0, <2>0 DEF Attempts
  <2>3. save' = [save EXCEPT ![i] = o]
      BY <1>2
  <2>4. attempt' = [attempt EXCEPT ![r] = a] \/ End(r)
      BY <1>2 DEF CatalogInv, CatalogTypeOK
  <2> HIDE DEF o, a
  <2>5. attempt' \in [Requests -> Attempts] /\ SentInv'
      BY <2>2, <2>4, EndKeeps, AttemptGoesOn
  <2> QED BY <1>0, <2>1, <2>3, <2>5 DEF CatalogInv, CatalogTypeOK, RouteStep
<1> QED BY <1>1, <1>2 DEF ClaimSave

LEMMA ComputeKeeps ==
    ASSUME CatalogInv, NEW r \in Requests, Compute(r)
    PROVE  CatalogInv' /\ RouteStep
<1>0. /\ attempt[r].id \in Saves /\ attempt[r].payload \in Sent /\ attempt[r] \in Attempts
      /\ UNCHANGED <<route, save, pin, bound>>
    BY NothingOf DEF Compute, CatalogInv, CatalogTypeOK, SentInv
<1>1. PICK at \in {"committing", "failing"} : attempt' = [attempt EXCEPT ![r].at = at]
    BY DEF Compute
<1> DEFINE a == [attempt[r] EXCEPT !.at = at]
<1>2. a \in Attempts /\ a.at # "idle" /\ a.id \in Saves /\ a.payload \in Sent /\ attempt' = [attempt EXCEPT ![r] = a]
    BY <1>0, <1>1 DEF Attempts, CatalogInv, CatalogTypeOK
<1> HIDE DEF a
<1> QED BY <1>0, <1>2, AttemptGoesOn DEF CatalogInv, CatalogTypeOK, RouteStep

\* The one step that writes the route: the commit of the operation that is still
\* this request's.
LEMMA CommitKeeps ==
    ASSUME CatalogInv, NEW r \in Requests, Commit(r)
    PROVE  CatalogInv' /\ RouteStep
<1> DEFINE i == attempt[r].id
           p == attempt[r].payload
<1>0. /\ i \in Saves /\ p \in Sent /\ attempt[r] \in Attempts /\ save[i] \in SaveRecords
      /\ UNCHANGED <<pin, bound>> /\ Expects(p) \in Nat /\ Mode(p) \in {"create", "edit"}
      /\ Shape(p) \in Shapes \cup {"none"}
    BY NothingOf DEF Commit, CatalogInv, CatalogTypeOK, SentInv, Sent, Expects, Mode, Shape
<1>1. ASSUME NEW at \in {"failing", "unknown"}, attempt' = [attempt EXCEPT ![r].at = at], UNCHANGED <<route, save>>
      PROVE  CatalogInv' /\ RouteStep
  <2> DEFINE a == [attempt[r] EXCEPT !.at = at]
  <2>2. a \in Attempts /\ a.at # "idle" /\ a.id \in Saves /\ a.payload \in Sent /\ attempt' = [attempt EXCEPT ![r] = a]
      BY <1>0, <1>1 DEF Attempts, CatalogInv, CatalogTypeOK
  <2> HIDE DEF a
  <2> QED BY <1>0, <1>1, <2>2, AttemptGoesOn DEF CatalogInv, CatalogTypeOK, RouteStep
<1>2. CASE /\ Mine(r) /\ Current(p) /\ StillUnridden(p)
           /\ route' = Saved(r)
           /\ save' = [save EXCEPT ![i].status = "succeeded"]
           /\ End(r)
  <2> DEFINE o == [save[i] EXCEPT !.status = "succeeded"]
  <2>1. o \in SaveRecords /\ o.status = "succeeded"
      BY <1>0 DEF SaveRecords
  <2>2. save' = [save EXCEPT ![i] = o]
      BY <1>2 DEF CatalogInv, CatalogTypeOK
  <2> HIDE DEF o
  <2>3. save[i].status # "succeeded" /\ save'[i].status = "succeeded"
      BY <1>0, <1>2, <2>1, <2>2 DEF Mine, CatalogInv, CatalogTypeOK
  <2>4. route \in SavedRoutes /\ attempt[r].seen \in SavedRoutes
      BY <1>0 DEF Attempts, CatalogInv, CatalogTypeOK
  <2>5. route' \in SavedRoutes /\ route' # NoRoute
    <3>1. Expects(p) + 1 \in Nat /\ Expects(p) + 1 # 0
        BY <1>0
    <3>2. attempt[r].seen.geometry \in Nat /\ attempt[r].seen.geometry + 1 \in Nat
        BY <2>4 DEF SavedRoutes
    <3> QED BY <1>0, <1>2, <3>1, <3>2 DEF Saved, SavedRoutes, NoRoute
  <2>6. route # NoRoute => pin = "none"
      BY <1>0, <1>2 DEF Current, Exists, StillUnridden, Unridden
  <2>7. RouteStep
      BY <1>0, <2>3, <2>5, <2>6 DEF RouteStep
  <2>8. attempt' \in [Requests -> Attempts] /\ SentInv'
      BY <1>2, EndKeeps
  <2> QED BY <1>0, <2>1, <2>2, <2>5, <2>7, <2>8 DEF CatalogInv, CatalogTypeOK
<1> QED BY <1>1, <1>2 DEF Commit

LEMMA FailureKeeps ==
    ASSUME CatalogInv, NEW r \in Requests, RecordFailed(r) \/ Lose(r)
    PROVE  CatalogInv' /\ RouteStep
<1>0. UNCHANGED <<route, pin, bound>> /\ End(r)
    BY DEF RecordFailed, Lose
<1>1. CASE UNCHANGED save
    BY <1>0, <1>1, EndKeeps DEF CatalogInv, CatalogTypeOK, RouteStep
<1>2. CASE RecordFailed(r) /\ Mine(r)
           /\ save' = [save EXCEPT ![attempt[r].id].status = "failed",
                                   ![attempt[r].id].unknown = attempt[r].at = "unknown"]
  <2> DEFINE i == attempt[r].id
             o == [save[i] EXCEPT !.status = "failed", !.unknown = attempt[r].at = "unknown"]
  <2>0. i \in Saves /\ save[i] \in SaveRecords
      BY <1>2, NothingOf DEF RecordFailed, CatalogInv, CatalogTypeOK, SentInv
  <2>1. o \in SaveRecords
      BY <2>0 DEF SaveRecords
  <2>2. save' = [save EXCEPT ![i] = o]
      BY <1>2, <2>0 DEF CatalogInv, CatalogTypeOK
  <2> HIDE DEF o
  <2> QED BY <1>0, <2>0, <2>1, <2>2, EndKeeps DEF CatalogInv, CatalogTypeOK, RouteStep
<1> QED BY <1>1, <1>2 DEF RecordFailed, Lose

LEMMA LeaseKeeps ==
    ASSUME CatalogInv, NEW i \in Saves, LeaseEnds(i)
    PROVE  CatalogInv' /\ RouteStep
<1> DEFINE o == [save[i] EXCEPT !.over = TRUE]
<1>1. o \in SaveRecords
    BY DEF SaveRecords, CatalogInv, CatalogTypeOK
<1>2. save' = [save EXCEPT ![i] = o] /\ UNCHANGED <<route, attempt, pin, bound>>
    BY DEF LeaseEnds, CatalogInv, CatalogTypeOK
<1> HIDE DEF o
<1> QED BY <1>1, <1>2 DEF CatalogInv, CatalogTypeOK, SentInv, RouteStep

LEMMA DeletionKeeps == ASSUME CatalogInv, DeleteRoute PROVE CatalogInv' /\ RouteStep
BY NothingOf DEF DeleteRoute, CatalogInv, CatalogTypeOK, SentInv, RouteStep

LEMMA RouteIsLeft ==
    ASSUME CatalogInv, UNCHANGED <<route, save, attempt>>
    PROVE  CatalogInv' /\ RouteStep
BY DEF CatalogInv, CatalogTypeOK, SentInv, RouteStep

LEMMA CatalogKept == ASSUME CatalogInv, [CatalogNext]_catalogVars PROVE CatalogInv' /\ RouteStep
<1>1. ASSUME NEW r \in Requests, NEW i \in Saves, Send(r, i) PROVE CatalogInv' /\ RouteStep
  <2>1. PICK p \in SavePayloads :
            attempt' = [attempt EXCEPT ![r] = [NoAttempt EXCEPT !.at = "claiming", !.id = i, !.payload = p]]
      BY <1>1 DEF Send
  <2>2. p \in Sent
      BY DEF SavePayloads, Sent
  <2> QED BY <1>1, <2>1, <2>2, PutKeeps DEF Send
<1>2. CASE UNCHANGED catalogVars
    BY <1>2, RouteIsLeft DEF catalogVars
<1>3. CASE Bind \/ Unbind \/ PinRoute \/ Ride \/ EndRide
    BY <1>3, RouteIsLeft DEF Bind, Unbind, PinRoute, Ride, EndRide
<1> QED BY <1>1, <1>2, <1>3, ClaimKeeps, ComputeKeeps, CommitKeeps, FailureKeeps, LeaseKeeps, DeletionKeeps
        DEF CatalogNext

THEOREM CatalogInvariant == CatalogSpec => []CatalogInv
BY CatalogStarts, CatalogKept, PTL DEF CatalogSpec

\* However saves are retried, overtaken and cut off, a version of the route is
\* made by one operation that had made none, and never under a ride; a route a
\* bus drives is not deleted (routes/polyline.ts, lib/routeSaveContract.ts).
THEOREM RoutesAreKeptAlways == CatalogSpec => RoutesAreKept
<1>1. CatalogInv /\ [CatalogNext]_catalogVars => [RouteStep]_catalogVars
    BY CatalogKept
<1>2. CatalogSpec => [][RouteStep]_catalogVars
    BY CatalogInvariant, <1>1, PTL DEF CatalogSpec
<1>3. [RouteStep]_catalogVars
      => /\ [route' # route /\ route' # NoRoute =>
               \E i \in Saves : save[i].status # "succeeded" /\ save'[i].status = "succeeded"]_catalogVars
         /\ [route # NoRoute /\ route' # route =>
               IF route' = NoRoute THEN pin # "riding" ELSE pin = "none"]_catalogVars
    BY DEF RouteStep
<1> QED BY <1>2, <1>3, PTL DEF RoutesAreKept, SavedOnce, RiddenRouteStays

-----------------------------------------------------------------------------
\* RouteEditor.

CallRecords == [at : {"idle", "putting", "again", "polling", "checking"}, id : Saves \cup {"none"},
                request : Requests \cup {"none"}, payload : Sent \cup {<<>>}]
RefRecords == [id : Saves \cup {"none"}, payload : Sent \cup {<<>>}]
EditorRecords == [page : Pages \cup {"none"}, mode : {"none", "create", "edit"}, version : Nat,
                  draft : Shapes \cup {"none"}, ref : RefRecords, call : CallRecords]

PageTypeOK ==
    /\ editor \in [Editors -> EditorRecords]
    /\ shown \in [Pages -> Editors \cup {0}]
    /\ sender \in [Saves -> Editors \cup {0}]
    /\ told \in [Saves -> {"nothing", "saved", "failed", "unknown"}]

\* What an editor holds on to is its own: the operation it would send again, the
\* one it waits for, and the request that serves it.
EditorOwn(n) ==
    /\ editor[n].mode = "none" => editor[n] = Unopened
    /\ editor[n].ref.payload # <<>> => editor[n].ref.id \in Saves /\ sender[editor[n].ref.id] = n
    /\ editor[n].call.at # "idle" =>
          /\ editor[n].call.id \in Saves /\ sender[editor[n].call.id] = n
          /\ editor[n].call.payload \in Sent /\ Expects(editor[n].call.payload) = editor[n].version
    /\ editor[n].call.request \in Requests =>
          /\ editor[n].call.at # "idle"
          /\ attempt[editor[n].call.request].at # "idle"
          /\ attempt[editor[n].call.request].id = editor[n].call.id

OneListener ==
    \A n, m \in Editors :
        editor[n].call.request = editor[m].call.request /\ editor[n].call.request \in Requests => n = m

\* A request, and a save, are of one editor and name the version it was opened
\* with; the route is past every version whose save it took.
AttemptOwn(r) ==
    attempt[r].at # "idle" =>
        /\ sender[attempt[r].id] \in Editors
        /\ Expects(attempt[r].payload) = editor[sender[attempt[r].id]].version

SaveOwn(i) ==
    /\ sender[i] \in Editors => editor[sender[i]].mode # "none"
    /\ save[i].status # "none" => sender[i] \in Editors
    /\ save[i].status = "succeeded" /\ i \notin erased => route.config > editor[sender[i]].version

EditorInv ==
    /\ CatalogInv /\ PageTypeOK
    /\ \A n \in Editors : EditorOwn(n)
    /\ OneListener
    /\ \A r \in Requests : AttemptOwn(r)
    /\ \A i \in Saves : SaveOwn(i)
    /\ SaidIsStored
    /\ OneSaveOfAnEditor

\* What a step of the backend does to requests, operations and the route.
CatalogEffect ==
    /\ \A r \in Requests : attempt'[r].at # "idle" =>
          attempt[r].at # "idle" /\ attempt'[r].id = attempt[r].id /\ attempt'[r].payload = attempt[r].payload
    /\ \A i \in Saves : save'[i].status # "none" =>
          save[i].status # "none" \/ \E r \in Requests : attempt[r].at # "idle" /\ attempt[r].id = i
    /\ \A i \in Saves : save[i].status = "succeeded" => save'[i].status = "succeeded"
    /\ \/ /\ route' = route
          /\ \A i \in Saves : save'[i].status = "succeeded" => save[i].status = "succeeded"
       \/ \E r \in Requests :
             /\ attempt[r].at # "idle"
             /\ route.config = Expects(attempt[r].payload) /\ route'.config = route.config + 1
             /\ \A i \in Saves : save'[i].status = "succeeded" => save[i].status = "succeeded" \/ i = attempt[r].id

\* What an answer, or its absence, does to the editor that waits for it.
Hears(n) ==
    /\ editor[n].call.at # "idle"
    /\ editor'[n].mode = editor[n].mode /\ editor'[n].version = editor[n].version
    /\ editor'[n].ref \in {NoRef, editor[n].ref}
    /\ \/ editor'[n].call = NoCall
       \/ /\ editor'[n].call.at # "idle" /\ editor'[n].call.request = "none"
          /\ editor'[n].call.id = editor[n].call.id /\ editor'[n].call.payload = editor[n].call.payload

LEMMA NothingOfAnEditor ==
    /\ NoCall \in CallRecords /\ NoRef \in RefRecords /\ Unopened \in EditorRecords
    /\ NoCall.at = "idle" /\ NoCall.request = "none" /\ NoRef.payload = <<>>
BY DEF NoCall, CallRecords, NoRef, RefRecords, Unopened, EditorRecords

LEMMA EffectsKeep ==
    ASSUME EditorInv, CatalogInv', PageTypeOK', UNCHANGED <<sender, erased>>, CatalogEffect,
           \A n \in Editors : editor'[n] = editor[n] \/ Hears(n),
           \A n \in Editors : editor'[n].call.request \in Requests => attempt'[editor'[n].call.request].at # "idle",
           \A i \in Saves : told'[i] = "saved" => told[i] = "saved" \/ save'[i].status = "succeeded"
    PROVE  EditorInv'
<1>0. \A n \in Editors : editor'[n].mode = editor[n].mode /\ editor'[n].version = editor[n].version
    BY DEF Hears
<1>1. \A n \in Editors : editor'[n].call.request \in Requests => editor'[n].call = editor[n].call
    BY NothingOfAnEditor, RequestAssumption DEF Hears
<1>2. ASSUME NEW n \in Editors PROVE EditorOwn(n)'
  <2>0. EditorOwn(n)
      BY DEF EditorInv
  <2>1. (editor[n].mode = "none" => editor[n] = Unopened)'
    <3>1. editor[n].call.at # "idle" => editor[n].mode # "none"
        BY <2>0, NothingOfAnEditor DEF EditorOwn, Unopened
    <3> QED BY <2>0, <3>1 DEF EditorOwn, Hears
  <2>2. (editor[n].ref.payload # <<>> => editor[n].ref.id \in Saves /\ sender[editor[n].ref.id] = n)'
      BY <2>0, NothingOfAnEditor DEF EditorOwn, Hears
  <2>3. (editor[n].call.at # "idle" =>
            /\ editor[n].call.id \in Saves /\ sender[editor[n].call.id] = n
            /\ editor[n].call.payload \in Sent /\ Expects(editor[n].call.payload) = editor[n].version)'
      BY <2>0, NothingOfAnEditor DEF EditorOwn, Hears
  <2>4. (editor[n].call.request \in Requests =>
            /\ editor[n].call.at # "idle"
            /\ attempt[editor[n].call.request].at # "idle"
            /\ attempt[editor[n].call.request].id = editor[n].call.id)'
      BY <1>1, <2>0 DEF EditorOwn, CatalogEffect
  <2> QED BY <2>1, <2>2, <2>3, <2>4 DEF EditorOwn
<1>3. OneListener'
    BY <1>1 DEF OneListener, EditorInv
<1>4. ASSUME NEW r \in Requests PROVE AttemptOwn(r)'
    BY <1>0 DEF AttemptOwn, EditorInv, CatalogEffect
<1>5. ASSUME NEW i \in Saves PROVE SaveOwn(i)'
  <2>0. SaveOwn(i) /\ route.config \in Nat /\ route'.config \in Nat
      BY DEF EditorInv, CatalogInv, CatalogTypeOK, SavedRoutes
  <2>1. (save[i].status # "none" => sender[i] \in Editors)'
      BY <2>0 DEF SaveOwn, EditorInv, AttemptOwn, CatalogEffect
  <2>2. ASSUME save'[i].status = "succeeded", i \notin erased PROVE route'.config > editor[sender[i]].version
    <3>0. sender[i] \in Editors /\ editor[sender[i]].version \in Nat
        BY <2>1, <2>2 DEF EditorInv, PageTypeOK, EditorRecords
    <3>1. CASE save[i].status = "succeeded"
      <4>1. route.config > editor[sender[i]].version
          BY <2>0, <2>2, <3>1 DEF SaveOwn
      <4>2. route'.config = route.config \/ route'.config = route.config + 1
          BY DEF CatalogEffect
      <4> QED BY <2>0, <3>0, <4>1, <4>2
    <3>2. CASE save[i].status # "succeeded"
      <4>1. PICK r \in Requests :
                /\ attempt[r].at # "idle" /\ i = attempt[r].id
                /\ route.config = Expects(attempt[r].payload) /\ route'.config = route.config + 1
          BY <2>2, <3>2 DEF CatalogEffect
      <4>2. route.config = editor[sender[i]].version
          BY <4>1 DEF EditorInv, AttemptOwn
      <4> QED BY <2>0, <4>1, <4>2
    <3> QED BY <3>1, <3>2
  <2> QED BY <1>0, <2>0, <2>1, <2>2 DEF SaveOwn, EditorInv
<1>6. SaidIsStored'
    BY DEF SaidIsStored, EditorInv, CatalogEffect
<1>7. OneSaveOfAnEditor'
  <2> SUFFICES ASSUME NEW n \in Editors, NEW i \in Saves \ erased, NEW j \in Saves \ erased, i # j,
                      sender[i] = n, sender[j] = n, save'[i].status = "succeeded", save'[j].status = "succeeded"
               PROVE  FALSE
      BY DEF OneSaveOfAnEditor
  <2>1. ~(save[i].status = "succeeded" /\ save[j].status = "succeeded")
      BY DEF EditorInv, OneSaveOfAnEditor
  <2>2. PICK r \in Requests :
            /\ attempt[r].at # "idle"
            /\ route.config = Expects(attempt[r].payload)
            /\ \A k \in Saves : save'[k].status = "succeeded" => save[k].status = "succeeded" \/ k = attempt[r].id
      BY <2>1 DEF CatalogEffect
  <2>3. PICK k \in {i, j} : save[k].status = "succeeded"
      BY <2>1, <2>2
  <2>4. sender[attempt[r].id] = n
      BY <2>1, <2>2
  <2>5. route.config > editor[n].version /\ route.config = editor[n].version
      BY <2>2, <2>3, <2>4 DEF EditorInv, SaveOwn, AttemptOwn
  <2>6. editor[n].version \in Nat
      BY DEF EditorInv, PageTypeOK, EditorRecords
  <2> QED BY <2>5, <2>6
<1> QED BY <1>2, <1>3, <1>4, <1>5, <1>6, <1>7 DEF EditorInv

\* A save is told of once it is stored, and no page is closed but its editor's.
PageEffect(n) ==
    /\ editor' \in [Editors -> EditorRecords]
    /\ shown' \in [Pages -> Editors \cup {0}]
    /\ told' \in [Saves -> {"nothing", "saved", "failed", "unknown"}]
    /\ Hears(n) /\ editor'[n].call.request = "none"
    /\ \A m \in Editors \ {n} : editor'[m] = editor[m]
    /\ \A i \in Saves : told'[i] = "saved" => told[i] = "saved" \/ save'[i].status = "succeeded"
    /\ DraftsStay

LEMMA EndIsHeard ==
    ASSUME EditorInv, NEW n \in Editors, NEW said \in {"saved", "failed", "unknown"}, editor[n].call.at # "idle",
           said = "saved" => save'[editor[n].call.id].status = "succeeded", EndSave(n, said)
    PROVE  PageEffect(n)
<1> DEFINE i == editor[n].call.id
           e == [editor[n] EXCEPT !.call = NoCall, !.ref = IF said = "failed" THEN NoRef ELSE @]
<1>0. editor \in [Editors -> EditorRecords] /\ EditorOwn(n) /\ i \in Saves /\ sender[i] = n
    BY DEF EditorInv, PageTypeOK, EditorOwn
<1>1. /\ e \in EditorRecords /\ e.call = NoCall /\ e.ref \in {NoRef, editor[n].ref}
      /\ e.mode = editor[n].mode /\ e.version = editor[n].version
    BY <1>0, NothingOfAnEditor DEF EditorRecords
<1>2. editor' = [editor EXCEPT ![n] = e]
    BY <1>0 DEF EndSave
<1> HIDE DEF e
<1>3. Hears(n) /\ editor'[n].call.request = "none" /\ editor' \in [Editors -> EditorRecords]
      /\ \A m \in Editors \ {n} : editor'[m] = editor[m]
    BY <1>0, <1>1, <1>2, NothingOfAnEditor DEF Hears
<1>4. told' = [told EXCEPT ![i] = said] /\ told \in [Saves -> {"nothing", "saved", "failed", "unknown"}]
    BY DEF EndSave, EditorInv, PageTypeOK
<1>5. told' \in [Saves -> {"nothing", "saved", "failed", "unknown"}]
      /\ \A j \in Saves : told'[j] = "saved" => told[j] = "saved" \/ save'[j].status = "succeeded"
    BY <1>0, <1>4
<1>6. shown' \in [Pages -> Editors \cup {0}]
    BY DEF EndSave, EditorInv, PageTypeOK
<1>7. DraftsStay
  <2> SUFFICES ASSUME NEW p \in Pages, shown'[p] # shown[p], shown[p] # 0
               PROVE  sender[i] = shown[p] /\ told'[i] = "saved"
      BY <1>0 DEF DraftsStay
  <2>1. said = "saved" /\ shown[editor[n].page] = n /\ shown' = [shown EXCEPT ![editor[n].page] = 0]
      BY DEF EndSave, Closes
  <2>2. p = editor[n].page
      BY <2>1 DEF EditorInv, PageTypeOK
  <2> QED BY <1>0, <1>4, <2>1, <2>2
<1> QED BY <1>3, <1>5, <1>6, <1>7 DEF PageEffect

LEMMA WaitIsHeard ==
    ASSUME EditorInv, NEW n \in Editors, NEW at \in {"polling", "checking"}, editor[n].call.at # "idle",
           editor' = [editor EXCEPT ![n].call.at = at, ![n].call.request = "none"], UNCHANGED <<shown, told>>
    PROVE  PageEffect(n)
<1> DEFINE c == [editor[n].call EXCEPT !.at = at, !.request = "none"]
           e == [editor[n] EXCEPT !.call = c]
<1>0. editor \in [Editors -> EditorRecords] /\ editor[n].call \in CallRecords
    BY DEF EditorInv, PageTypeOK, EditorRecords
<1>1. c \in CallRecords /\ c.at = at /\ c.request = "none" /\ c.id = editor[n].call.id
      /\ c.payload = editor[n].call.payload
    BY <1>0 DEF CallRecords
<1>2. editor' = [editor EXCEPT ![n] = e]
    BY <1>0 DEF EditorRecords
<1> HIDE DEF c
<1>3. e \in EditorRecords /\ e.call = c /\ e.ref = editor[n].ref
      /\ e.mode = editor[n].mode /\ e.version = editor[n].version
    BY <1>0, <1>1 DEF EditorRecords
<1> HIDE DEF e
<1>4. Hears(n) /\ editor'[n].call.request = "none" /\ editor' \in [Editors -> EditorRecords]
      /\ \A m \in Editors \ {n} : editor'[m] = editor[m]
  <2>1. editor'[n] = e /\ editor' \in [Editors -> EditorRecords] /\ \A m \in Editors \ {n} : editor'[m] = editor[m]
      BY <1>0, <1>2, <1>3
  <2>2. c.at # "idle"
      BY <1>1
  <2> QED BY <1>1, <1>3, <2>1, <2>2 DEF Hears
<1> QED BY <1>4 DEF PageEffect, DraftsStay, EditorInv, PageTypeOK

LEMMA UnansweredIsHeard ==
    ASSUME EditorInv, NEW n \in Editors, editor[n].call.at # "idle", Unanswered(n)
    PROVE  PageEffect(n)
BY EndIsHeard, WaitIsHeard DEF Unanswered

LEMMA AnswerIsHeard ==
    ASSUME EditorInv, NEW n \in Editors, NEW answer \in {"saved", "failed", "processing"}, editor[n].call.at # "idle",
           answer = "saved" => save'[editor[n].call.id].status = "succeeded", Hear(n, answer)
    PROVE  PageEffect(n)
BY EndIsHeard, WaitIsHeard DEF Hear

LEMMA HeardKeeps ==
    ASSUME EditorInv, CatalogInv', CatalogEffect, UNCHANGED <<sender, erased>>, NEW n \in Editors, PageEffect(n),
           \A m \in Editors \ {n} : editor[m].call.request \in Requests =>
               attempt'[editor[m].call.request].at # "idle"
    PROVE  EditorInv' /\ DraftsStay
<1>1. \A m \in Editors : editor'[m].call.request \in Requests => attempt'[editor'[m].call.request].at # "idle"
    BY RequestAssumption DEF PageEffect
<1>2. PageTypeOK'
    BY DEF PageEffect, PageTypeOK, EditorInv
<1> QED BY <1>1, <1>2, EffectsKeep DEF PageEffect

LEMMA UnheardKeeps ==
    ASSUME EditorInv, CatalogInv', CatalogEffect, UNCHANGED <<editor, shown, sender, told, erased>>,
           \A m \in Editors : editor[m].call.request \in Requests =>
               attempt'[editor[m].call.request].at # "idle"
    PROVE  EditorInv' /\ DraftsStay
<1>1. PageTypeOK'
    BY DEF PageTypeOK, EditorInv
<1> QED BY <1>1, EffectsKeep DEF DraftsStay

\* What the backend does for a request is one of those effects, and disturbs no
\* other request.
ServesOnly(r) ==
    /\ attempt[r].at # "idle"
    /\ attempt'[r] = NoAttempt \/ attempt'[r].at # "idle"
    /\ \A q \in Requests \ {r} : attempt'[q] = attempt[q]

LEMMA AttemptEffect ==
    ASSUME CatalogInv, NEW r \in Requests, attempt[r].at # "idle", NEW a \in Attempts,
           a = NoAttempt \/ (a.at # "idle" /\ a.id = attempt[r].id /\ a.payload = attempt[r].payload),
           attempt' = [attempt EXCEPT ![r] = a]
    PROVE  /\ ServesOnly(r)
           /\ \A q \in Requests : attempt'[q].at # "idle" =>
                attempt[q].at # "idle" /\ attempt'[q].id = attempt[q].id /\ attempt'[q].payload = attempt[q].payload
BY NothingOf DEF CatalogInv, CatalogTypeOK, ServesOnly

LEMMA ClaimEffect == ASSUME CatalogInv, NEW r \in Requests, ClaimSave(r) PROVE CatalogEffect /\ ServesOnly(r)
<1> DEFINE i == attempt[r].id
           a == [attempt[r] EXCEPT !.at = "computing", !.owner = save[i].claims + 1, !.seen = route]
<1>0. /\ i \in Saves /\ attempt[r] \in Attempts /\ route \in SavedRoutes /\ save[i] \in SaveRecords
      /\ attempt[r].at = "claiming" /\ UNCHANGED route /\ save \in [Saves -> SaveRecords]
    BY NothingOf DEF ClaimSave, CatalogInv, CatalogTypeOK, SentInv
<1>1. a \in Attempts /\ a.at = "computing" /\ a.id = i /\ a.payload = attempt[r].payload
  <2>1. save[i].claims + 1 \in Nat
      BY <1>0 DEF SaveRecords
  <2> QED BY <1>0, <2>1 DEF Attempts
<1>2. attempt' = [attempt EXCEPT ![r] = a] \/ attempt' = [attempt EXCEPT ![r] = NoAttempt]
  <2>1. \/ attempt' = [attempt EXCEPT ![r].at = "computing", ![r].owner = save[i].claims + 1, ![r].seen = route]
        \/ End(r)
      BY DEF ClaimSave
  <2> QED BY <1>0, <2>1 DEF End, CatalogInv, CatalogTypeOK
<1> HIDE DEF a
<1>3. UNCHANGED save \/ (\E o : o.status = "processing" /\ save[i].status # "succeeded"
                                /\ save' = [save EXCEPT ![i] = o])
  <2>1. CASE End(r) /\ UNCHANGED save
      BY <2>1
  <2>2. CASE Claimable(save[i]) /\ save' = [save EXCEPT ![i] = [status |-> "processing",
                payload |-> attempt[r].payload, owner |-> save[i].claims + 1,
                claims |-> save[i].claims + 1, over |-> FALSE, unknown |-> FALSE]]
    <3>1. save[i].status # "succeeded"
        BY <2>2 DEF Claimable, NoSave
    <3> QED BY <2>2, <3>1
  <2> QED BY <2>1, <2>2 DEF ClaimSave
<1>4. ServesOnly(r) /\ \A q \in Requests : attempt'[q].at # "idle" =>
          attempt[q].at # "idle" /\ attempt'[q].id = attempt[q].id /\ attempt'[q].payload = attempt[q].payload
    BY <1>0, <1>1, <1>2, AttemptEffect, NothingOf
<1>5. \A j \in Saves : /\ save'[j].status # "none" => save[j].status # "none" \/ j = i
                       /\ save[j].status = "succeeded" => save'[j].status = "succeeded"
                       /\ save'[j].status = "succeeded" => save[j].status = "succeeded"
    BY <1>0, <1>3
<1> QED BY <1>0, <1>4, <1>5 DEF CatalogEffect

LEMMA ComputeEffect == ASSUME CatalogInv, NEW r \in Requests, Compute(r) PROVE CatalogEffect /\ ServesOnly(r)
<1>0. attempt[r] \in Attempts /\ attempt[r].at # "idle" /\ UNCHANGED <<route, save>>
    BY DEF Compute, CatalogInv, CatalogTypeOK
<1>1. PICK at \in {"committing", "failing"} : attempt' = [attempt EXCEPT ![r].at = at]
    BY DEF Compute
<1> DEFINE a == [attempt[r] EXCEPT !.at = at]
<1>2. a \in Attempts /\ a.at # "idle" /\ a.id = attempt[r].id /\ a.payload = attempt[r].payload
      /\ attempt' = [attempt EXCEPT ![r] = a]
    BY <1>0, <1>1 DEF Attempts, CatalogInv, CatalogTypeOK
<1> HIDE DEF a
<1> QED BY <1>0, <1>2, AttemptEffect DEF CatalogEffect

LEMMA CommitEffect ==
    ASSUME CatalogInv, NEW r \in Requests, Commit(r)
    PROVE  /\ CatalogEffect /\ ServesOnly(r)
           /\ attempt'[r] = NoAttempt => save'[attempt[r].id].status = "succeeded"
<1> DEFINE i == attempt[r].id
           p == attempt[r].payload
<1>0. /\ i \in Saves /\ p \in Sent /\ attempt[r] \in Attempts /\ attempt[r].at # "idle"
      /\ save \in [Saves -> SaveRecords]
    BY NothingOf DEF Commit, CatalogInv, CatalogTypeOK, SentInv
<1>1. ASSUME NEW at \in {"failing", "unknown"}, attempt' = [attempt EXCEPT ![r].at = at], UNCHANGED <<route, save>>
      PROVE  CatalogEffect /\ ServesOnly(r) /\ attempt'[r] # NoAttempt
  <2> DEFINE a == [attempt[r] EXCEPT !.at = at]
  <2>2. a \in Attempts /\ a.at # "idle" /\ a.id = attempt[r].id /\ a.payload = attempt[r].payload
        /\ attempt' = [attempt EXCEPT ![r] = a]
      BY <1>0, <1>1 DEF Attempts, CatalogInv, CatalogTypeOK
  <2> HIDE DEF a
  <2> QED BY <1>0, <1>1, <2>2, AttemptEffect, NothingOf DEF CatalogEffect, CatalogInv, CatalogTypeOK
<1>2. CASE /\ Mine(r) /\ Current(p)
           /\ route' = Saved(r)
           /\ save' = [save EXCEPT ![i].status = "succeeded"]
           /\ End(r)
  <2>1. route.config = Expects(p) /\ route'.config = route.config + 1
      BY <1>2 DEF Current, Saved
  <2>2. ServesOnly(r) /\ \A q \in Requests : attempt'[q].at # "idle" =>
            attempt[q].at # "idle" /\ attempt'[q].id = attempt[q].id /\ attempt'[q].payload = attempt[q].payload
      BY <1>0, <1>2, AttemptEffect, NothingOf DEF End
  <2>3. /\ save'[i].status = "succeeded" /\ save[i].status # "none"
        /\ \A j \in Saves \ {i} : save'[j] = save[j]
      BY <1>0, <1>2 DEF Mine, SaveRecords
  <2>4. \A j \in Saves : /\ save'[j].status # "none" => save[j].status # "none"
                         /\ save[j].status = "succeeded" => save'[j].status = "succeeded"
                         /\ save'[j].status = "succeeded" => save[j].status = "succeeded" \/ j = i
      BY <2>3
  <2> QED BY <1>0, <2>1, <2>2, <2>3, <2>4 DEF CatalogEffect
<1> QED BY <1>1, <1>2 DEF Commit

LEMMA FailureEffect ==
    ASSUME CatalogInv, NEW r \in Requests, RecordFailed(r) \/ Lose(r)
    PROVE  CatalogEffect /\ ServesOnly(r)
<1> DEFINE i == attempt[r].id
<1>0. UNCHANGED route /\ End(r) /\ save \in [Saves -> SaveRecords]
    BY DEF RecordFailed, Lose, CatalogInv, CatalogTypeOK
<1>1. CASE attempt[r].at # "idle"
  <2>1. ServesOnly(r) /\ \A q \in Requests : attempt'[q].at # "idle" =>
            attempt[q].at # "idle" /\ attempt'[q].id = attempt[q].id /\ attempt'[q].payload = attempt[q].payload
      BY <1>0, <1>1, AttemptEffect, NothingOf DEF End
  <2>2. CASE UNCHANGED save
      BY <1>0, <2>1, <2>2 DEF CatalogEffect
  <2>3. CASE Mine(r) /\ save' = [save EXCEPT ![i].status = "failed", ![i].unknown = attempt[r].at = "unknown"]
    <3>1. i \in Saves
        BY <1>1, NothingOf DEF CatalogInv, SentInv
    <3>2. save[i].status = "processing" /\ save'[i].status = "failed" /\ \A j \in Saves \ {i} : save'[j] = save[j]
        BY <1>0, <2>3, <3>1 DEF Mine, SaveRecords
    <3>3. \A j \in Saves : /\ save'[j].status # "none" => save[j].status # "none"
                           /\ save[j].status = "succeeded" => save'[j].status = "succeeded"
                           /\ save'[j].status = "succeeded" => save[j].status = "succeeded"
        BY <3>2
    <3> QED BY <1>0, <2>1, <3>3 DEF CatalogEffect
  <2> QED BY <2>2, <2>3 DEF RecordFailed, Lose
<1> QED BY <1>1 DEF RecordFailed, Lose, CatalogInv, SentInv

\* The answer to a request reaches the one editor that waits for it.
LEMMA AnswersKeep ==
    ASSUME EditorInv, NEW r \in Requests, CatalogInv', CatalogEffect, ServesOnly(r),
           NEW answer, Answers(r, TRUE, answer),
           attempt'[r] = NoAttempt => /\ answer \in {"saved", "failed", "processing"}
                                      /\ answer = "saved" => save'[attempt[r].id].status = "succeeded"
    PROVE  EditorInv' /\ DraftsStay
<1>0. UNCHANGED <<sender, erased>> /\ \A n \in Editors : EditorOwn(n)
    BY DEF Answers, EditorInv
<1>1. CASE attempt'[r] = NoAttempt /\ \E n \in Editors : editor[n].call.request = r
  <2> DEFINE n == CHOOSE m \in Editors : editor[m].call.request = r
  <2>1. n \in Editors /\ editor[n].call.request = r /\ Hear(n, answer)
      BY <1>1 DEF Answers
  <2> HIDE DEF n
  <2>2. editor[n].call.at # "idle" /\ editor[n].call.id = attempt[r].id
      BY <1>0, <2>1 DEF EditorOwn
  <2>3. PageEffect(n)
      BY <1>1, <2>1, <2>2, AnswerIsHeard
  <2>4. \A m \in Editors \ {n} : editor[m].call.request \in Requests =>
            attempt'[editor[m].call.request].at # "idle"
      BY <1>0, <2>1 DEF EditorOwn, EditorInv, OneListener, ServesOnly
  <2> QED BY <1>0, <2>1, <2>3, <2>4, HeardKeeps
<1>2. CASE ~(attempt'[r] = NoAttempt /\ \E n \in Editors : editor[n].call.request = r)
  <2>1. UNCHANGED <<editor, shown, told>>
      BY <1>2 DEF Answers
  <2>2. \A m \in Editors : editor[m].call.request \in Requests => attempt'[editor[m].call.request].at # "idle"
      BY <1>0, <1>2 DEF EditorOwn, ServesOnly
  <2> QED BY <1>0, <2>1, <2>2, UnheardKeeps
<1> QED BY <1>1, <1>2

LEMMA ServeKeeps == ASSUME EditorInv, NEW r \in Requests, Serve(r) PROVE EditorInv' /\ DraftsStay
<1>0. CatalogInv
    BY DEF EditorInv
<1>1. CASE Answers(r, ClaimSave(r), ClaimAnswer(attempt[r].id))
  <2>1. ClaimSave(r) /\ Answers(r, TRUE, ClaimAnswer(attempt[r].id))
      BY <1>1 DEF Answers
  <2>2. CatalogInv' /\ CatalogEffect /\ ServesOnly(r)
      BY <1>0, <2>1, ClaimKeeps, ClaimEffect
  <2>3. ClaimAnswer(attempt[r].id) \in {"saved", "failed", "processing"}
        /\ (ClaimAnswer(attempt[r].id) = "saved" => save[attempt[r].id].status = "succeeded")
      BY DEF ClaimAnswer
  <2>4. attempt[r].id \in Saves
      BY <1>0, <2>2 DEF ServesOnly, CatalogInv, SentInv, NoAttempt
  <2>5. ClaimAnswer(attempt[r].id) = "saved" => save'[attempt[r].id].status = "succeeded"
      BY <2>2, <2>3, <2>4 DEF CatalogEffect
  <2> QED BY <2>1, <2>2, <2>3, <2>5, AnswersKeep
<1>2. CASE Answers(r, Compute(r), "none")
  <2>1. Compute(r) /\ Answers(r, TRUE, "none")
      BY <1>2 DEF Answers
  <2>2. CatalogInv' /\ CatalogEffect /\ ServesOnly(r)
      BY <1>0, <2>1, ComputeKeeps, ComputeEffect
  <2>3. attempt'[r] # NoAttempt
      BY <1>0, <2>1 DEF Compute, CatalogInv, CatalogTypeOK, Attempts, NoAttempt
  <2> QED BY <2>1, <2>2, <2>3, AnswersKeep
<1>3. CASE Answers(r, Commit(r), "saved")
  <2>1. Commit(r) /\ Answers(r, TRUE, "saved")
      BY <1>3 DEF Answers
  <2>2. CatalogInv' /\ CatalogEffect /\ ServesOnly(r)
        /\ (attempt'[r] = NoAttempt => save'[attempt[r].id].status = "succeeded")
      BY <1>0, <2>1, CommitKeeps, CommitEffect
  <2> QED BY <2>1, <2>2, AnswersKeep
<1>4. CASE Answers(r, RecordFailed(r), "failed") \/ Refuse(r)
  <2>1. (RecordFailed(r) \/ Lose(r)) /\ Answers(r, TRUE, "failed")
      BY <1>4 DEF Answers, Refuse
  <2>2. CatalogInv' /\ CatalogEffect /\ ServesOnly(r)
      BY <1>0, <2>1, FailureKeeps, FailureEffect
  <2> QED BY <2>1, <2>2, AnswersKeep
<1>5. CASE Cut(r)
  <2>1. Lose(r) /\ UNCHANGED <<sender, erased>>
      BY <1>5 DEF Cut
  <2>2. CatalogInv' /\ CatalogEffect /\ ServesOnly(r)
      BY <1>0, <2>1, FailureKeeps, FailureEffect
  <2>3. \A n \in Editors : EditorOwn(n)
      BY DEF EditorInv
  <2>4. CASE (\A n \in Editors : editor[n].call.request # r) /\ UNCHANGED <<editor, shown, told>>
    <3>1. \A m \in Editors : editor[m].call.request \in Requests => attempt'[editor[m].call.request].at # "idle"
        BY <2>2, <2>3, <2>4 DEF EditorOwn, ServesOnly
    <3> QED BY <2>1, <2>2, <2>4, <3>1, UnheardKeeps
  <2>5. ASSUME NEW n \in Editors, editor[n].call.request = r, Unanswered(n) PROVE EditorInv' /\ DraftsStay
    <3>1. editor[n].call.at # "idle"
        BY <2>3, <2>5 DEF EditorOwn
    <3>2. PageEffect(n)
        BY <2>5, <3>1, UnansweredIsHeard
    <3>3. \A m \in Editors \ {n} : editor[m].call.request \in Requests =>
              attempt'[editor[m].call.request].at # "idle"
        BY <2>2, <2>3, <2>5 DEF EditorOwn, EditorInv, OneListener, ServesOnly
    <3> QED BY <2>1, <2>2, <3>2, <3>3, HeardKeeps
  <2> QED BY <1>5, <2>4, <2>5 DEF Cut
<1> QED BY <1>1, <1>2, <1>3, <1>4, <1>5 DEF Serve

\* A page gives up waiting, or asks what became of its save.
LEMMA WaitingKeeps ==
    ASSUME EditorInv, NEW n \in Editors, TimeOut(n) \/ StopAsking(n)
    PROVE  EditorInv' /\ DraftsStay
<1>0. UNCHANGED <<catalogVars, sender, erased>> /\ editor[n].call.at # "idle"
    BY DEF TimeOut, StopAsking, Waiting, Polling
<1>1. PageEffect(n)
    BY <1>0, UnansweredIsHeard, EndIsHeard DEF TimeOut, StopAsking
<1>2. CatalogInv' /\ CatalogEffect
    BY <1>0 DEF CatalogEffect, EditorInv, CatalogInv, CatalogTypeOK, SentInv, catalogVars
<1>3. \A m \in Editors : editor[m].call.request \in Requests => attempt'[editor[m].call.request].at # "idle"
    BY <1>0 DEF EditorInv, EditorOwn, catalogVars
<1> QED BY <1>0, <1>1, <1>2, <1>3, HeardKeeps

\* An editor sends an operation that is its own, or that is no one's yet, with a
\* request nobody waits for.
LEMMA SendKeeps ==
    ASSUME EditorInv, NEW n \in Editors, NEW r \in Requests, NEW i \in Saves, NEW p \in Sent, NEW e \in EditorRecords,
           attempt[r] = NoAttempt, Put(r, i, p), editor' = [editor EXCEPT ![n] = e],
           e.mode = editor[n].mode, e.version = editor[n].version, editor[n].mode # "none",
           Expects(p) = editor[n].version, sender[i] \in {0, n}, sender' = [sender EXCEPT ![i] = n],
           e.ref = editor[n].ref \/ e.ref.id = i,
           e.call.at # "idle", e.call.id = i, e.call.request = r, e.call.payload = p,
           UNCHANGED <<shown, told, erased>>
    PROVE  EditorInv' /\ DraftsStay
<1>0. /\ CatalogInv /\ PageTypeOK /\ (\A m \in Editors : EditorOwn(m)) /\ \A q \in Requests : AttemptOwn(q)
      /\ \A j \in Saves : SaveOwn(j)
    BY DEF EditorInv
<1>1. CatalogInv' /\ UNCHANGED <<route, save>>
    BY <1>0, PutKeeps DEF Put
<1>2. /\ attempt'[r].at = "claiming" /\ attempt'[r].id = i /\ attempt'[r].payload = p
      /\ \A q \in Requests \ {r} : attempt'[q] = attempt[q]
  <2>1. attempt \in [Requests -> Attempts]
      BY <1>0 DEF CatalogInv, CatalogTypeOK
  <2> QED BY <2>1 DEF Put, NoAttempt
<1>3. editor'[n] = e /\ (\A m \in Editors \ {n} : editor'[m] = editor[m]) /\ PageTypeOK'
    BY <1>0 DEF PageTypeOK
<1>4. sender'[i] = n /\ \A j \in Saves \ {i} : sender'[j] = sender[j]
    BY <1>0 DEF PageTypeOK
<1>5. \A j \in Saves : sender[j] \in Editors => sender'[j] = sender[j]
    BY <1>4 DEF Editors
<1>6. \A m \in Editors : editor[m].call.request # r
    BY <1>0, NothingOf DEF EditorOwn
<1>7. ASSUME NEW m \in Editors PROVE EditorOwn(m)'
  <2>1. CASE m = n
      BY <1>0, <1>2, <1>3, <1>4, <1>5, <2>1 DEF EditorOwn
  <2>2. CASE m # n
      BY <1>0, <1>2, <1>3, <1>5, <1>6, <2>2 DEF EditorOwn
  <2> QED BY <2>1, <2>2
<1>8. OneListener'
    BY <1>3, <1>6 DEF OneListener, EditorInv
<1>9. \A m \in Editors : editor'[m].version = editor[m].version /\ editor'[m].mode = editor[m].mode
    BY <1>3
<1>10. \A q \in Requests : AttemptOwn(q)'
    BY <1>0, <1>2, <1>4, <1>5, <1>9 DEF AttemptOwn
<1>11. \A j \in Saves : SaveOwn(j)'
    BY <1>0, <1>1, <1>4, <1>5, <1>9 DEF SaveOwn
<1>12. SaidIsStored' /\ DraftsStay
    BY <1>1 DEF EditorInv, SaidIsStored, DraftsStay
<1>13. OneSaveOfAnEditor'
  <2>1. \A j \in Saves : save[j].status = "succeeded" => sender'[j] = sender[j]
      BY <1>0, <1>5 DEF SaveOwn
  <2> QED BY <1>1, <2>1 DEF OneSaveOfAnEditor, EditorInv
<1> QED BY <1>1, <1>3, <1>7, <1>8, <1>10, <1>11, <1>12, <1>13 DEF EditorInv

LEMMA SaveKeeps ==
    ASSUME EditorInv, NEW n \in Editors, editor[n] # Unopened, SaveDraft(n)
    PROVE  EditorInv' /\ DraftsStay
<1> DEFINE p == Payload(n)
           known == editor[n].ref.payload = p
           i == IF known THEN editor[n].ref.id ELSE FreshSave
           r == FreeRequest
           ref == [id |-> i, payload |-> p]
           c == [at |-> "putting", id |-> i, request |-> r, payload |-> p]
           e == [editor[n] EXCEPT !.ref = ref, !.call = c]
<1>0. EditorOwn(n) /\ editor \in [Editors -> EditorRecords] /\ editor[n] \in EditorRecords
    BY DEF EditorInv, PageTypeOK
<1>1. p \in Sent /\ Expects(p) = editor[n].version /\ editor[n].mode # "none" /\ p # <<>>
    BY <1>0 DEF Payload, Sent, Expects, EditorOwn, EditorRecords
<1>2. r \in Requests /\ attempt[r] = NoAttempt
    BY DEF SaveDraft, FreeRequest
<1>3. i \in Saves /\ sender[i] \in {0, n}
  <2>1. CASE known
      BY <1>0, <1>1, <2>1 DEF EditorOwn
  <2>2. CASE ~known
    <3>1. \E free \in Saves : sender[free] = 0
        BY <2>2 DEF SaveDraft
    <3> QED BY <2>2, <3>1 DEF FreshSave
  <2> QED BY <2>1, <2>2
<1>4. Put(r, i, p) /\ sender' = [sender EXCEPT ![i] = n] /\ UNCHANGED <<shown, told, erased>>
      /\ editor' = [editor EXCEPT ![n] = e]
    BY <1>0 DEF SaveDraft
<1> HIDE DEF p, known, i, r
<1>5. ref \in RefRecords /\ c \in CallRecords /\ ref.id = i
      /\ c.at = "putting" /\ c.id = i /\ c.request = r /\ c.payload = p
    BY <1>1, <1>2, <1>3 DEF RefRecords, CallRecords
<1> HIDE DEF ref, c
<1>6. e \in EditorRecords /\ e.mode = editor[n].mode /\ e.version = editor[n].version /\ e.ref = ref /\ e.call = c
    BY <1>0, <1>5 DEF EditorRecords
<1> HIDE DEF e
<1>7. e.call.at # "idle"
    BY <1>5, <1>6
<1> QED BY <1>1, <1>2, <1>3, <1>4, <1>5, <1>6, <1>7, SendKeeps

LEMMA PollKeeps == ASSUME EditorInv, NEW n \in Editors, Poll(n) PROVE EditorInv' /\ DraftsStay
<1> DEFINE i == editor[n].call.id
           p == editor[n].call.payload
           r == FreeRequest
           c == [editor[n].call EXCEPT !.at = "again", !.request = r]
           e == [editor[n] EXCEPT !.call = c]
<1>0. /\ EditorOwn(n) /\ editor[n].call.at # "idle" /\ UNCHANGED erased /\ editor \in [Editors -> EditorRecords]
      /\ editor[n] \in EditorRecords /\ editor[n].call \in CallRecords /\ sender \in [Saves -> Editors \cup {0}]
    BY DEF Poll, Polling, EditorInv, PageTypeOK, EditorRecords
<1>1. i \in Saves /\ sender[i] = n /\ p \in Sent /\ Expects(p) = editor[n].version
    BY <1>0 DEF EditorOwn
<1>2. CASE /\ UNCHANGED <<catalogVars, sender>>
           /\ (save[i].status = "succeeded" /\ EndSave(n, "saved")) \/ EndSave(n, "failed")
  <2>3. save' = save
      BY <1>2 DEF catalogVars
  <2>4. PageEffect(n)
      BY <1>0, <1>2, <2>3, EndIsHeard
  <2>5. CatalogInv' /\ CatalogEffect
      BY <1>2 DEF CatalogEffect, EditorInv, CatalogInv, CatalogTypeOK, SentInv, catalogVars
  <2>6. \A m \in Editors : editor[m].call.request \in Requests => attempt'[editor[m].call.request].at # "idle"
      BY <1>2 DEF EditorInv, EditorOwn, catalogVars
  <2> QED BY <1>0, <1>2, <2>4, <2>5, <2>6, HeardKeeps
<1>3. CASE /\ \E q \in Requests : attempt[q] = NoAttempt
           /\ Put(r, i, p)
           /\ editor' = [editor EXCEPT ![n].call.at = "again", ![n].call.request = r]
           /\ UNCHANGED <<shown, told, sender>>
  <2>1. r \in Requests /\ attempt[r] = NoAttempt
      BY <1>3 DEF FreeRequest
  <2>2. editor' = [editor EXCEPT ![n] = e]
      BY <1>0, <1>3
  <2>3. sender' = [sender EXCEPT ![i] = n]
      BY <1>0, <1>1, <1>3
  <2>4. editor[n].mode # "none"
      BY <1>0 DEF EditorOwn, Unopened, NoCall
  <2> HIDE DEF r, i, p
  <2>5. c \in CallRecords /\ c.at = "again" /\ c.request = r /\ c.id = i /\ c.payload = p
      BY <1>0, <2>1 DEF CallRecords, i, p
  <2> HIDE DEF c
  <2>6. e \in EditorRecords /\ e.mode = editor[n].mode /\ e.version = editor[n].version
        /\ e.ref = editor[n].ref /\ e.call = c
      BY <1>0, <2>5 DEF EditorRecords
  <2> HIDE DEF e
  <2>7. e.call.at # "idle"
      BY <2>5, <2>6
  <2> QED BY <1>0, <1>1, <1>3, <2>1, <2>2, <2>3, <2>4, <2>5, <2>6, <2>7, SendKeeps
<1> QED BY <1>2, <1>3 DEF Poll

LEMMA OpenKeeps ==
    ASSUME EditorInv, NEW n \in Editors, NEW p \in Pages, NEW mode \in {"create", "edit"}, NEW version \in Nat,
           NEW draft \in Shapes \cup {"none"}, Open(n, p, mode, version, draft)
    PROVE  EditorInv' /\ DraftsStay
<1> DEFINE e == [Unopened EXCEPT !.page = p, !.mode = mode, !.version = version, !.draft = draft]
<1>0. /\ editor[n] = Unopened /\ editor' = [editor EXCEPT ![n] = e] /\ shown' = [shown EXCEPT ![p] = n] /\ shown[p] = 0
      /\ UNCHANGED <<route, save, attempt, pin, bound, sender, told, erased>>
    BY DEF Open, catalogVars
<1>1. e \in EditorRecords /\ e.mode = mode /\ e.ref = NoRef /\ e.call = NoCall
    BY NothingOfAnEditor DEF Unopened, EditorRecords
<1> HIDE DEF e
<1>2. PageTypeOK' /\ editor'[n] = e /\ \A m \in Editors \ {n} : editor'[m] = editor[m]
    BY <1>0, <1>1 DEF EditorInv, PageTypeOK
<1>3. CatalogInv'
    BY <1>0, RouteIsLeft DEF EditorInv
<1>4. \A i \in Saves : sender[i] # n
    BY <1>0 DEF EditorInv, SaveOwn, Unopened
<1>5. ASSUME NEW m \in Editors PROVE EditorOwn(m)'
  <2>1. CASE m = n
      BY <1>1, <1>2, <2>1, NothingOfAnEditor, RequestAssumption DEF EditorOwn
  <2>2. CASE m # n
      BY <1>0, <1>2, <2>2 DEF EditorOwn, EditorInv
  <2> QED BY <2>1, <2>2
<1>6. OneListener'
    BY <1>1, <1>2, NothingOfAnEditor, RequestAssumption DEF EditorInv, OneListener
<1>7. ASSUME NEW i \in Saves PROVE SaveOwn(i)'
  <2>1. sender[i] \in Editors => editor'[sender[i]] = editor[sender[i]]
      BY <1>2, <1>4
  <2> QED BY <1>0, <2>1 DEF EditorInv, SaveOwn
<1>8. ASSUME NEW r \in Requests PROVE AttemptOwn(r)'
  <2>0. CatalogInv
      BY DEF EditorInv
  <2>1. attempt[r].at # "idle" => attempt[r].id \in Saves
      BY <2>0, NothingOf DEF CatalogInv, SentInv
  <2>2. attempt[r].at # "idle" => editor'[sender[attempt[r].id]] = editor[sender[attempt[r].id]]
      BY <1>2, <1>4, <2>1 DEF EditorInv, AttemptOwn
  <2> QED BY <1>0, <2>2 DEF EditorInv, AttemptOwn
<1>9. SaidIsStored' /\ OneSaveOfAnEditor' /\ DraftsStay
  <2>1. SaidIsStored' /\ OneSaveOfAnEditor'
      BY <1>0 DEF EditorInv, SaidIsStored, OneSaveOfAnEditor
  <2>2. DraftsStay
      BY <1>0 DEF EditorInv, PageTypeOK, DraftsStay
  <2> QED BY <2>1, <2>2
<1> QED BY <1>2, <1>3, <1>5, <1>6, <1>7, <1>8, <1>9 DEF EditorInv

LEMMA DrawKeeps ==
    ASSUME EditorInv, NEW n \in Editors, NEW s \in Shapes, editor[n] # Unopened, Draw(n, s)
    PROVE  EditorInv' /\ DraftsStay
<1> DEFINE e == [editor[n] EXCEPT !.draft = s]
<1>0. /\ editor' = [editor EXCEPT ![n] = e] /\ editor \in [Editors -> EditorRecords]
      /\ UNCHANGED <<route, save, attempt, pin, bound, shown, sender, told, erased>>
    BY DEF Draw, catalogVars, EditorInv, PageTypeOK
<1>1. /\ e \in EditorRecords /\ e.mode = editor[n].mode /\ e.version = editor[n].version
      /\ e.ref = editor[n].ref /\ e.call = editor[n].call
    BY <1>0 DEF EditorRecords
<1> HIDE DEF e
<1>2. PageTypeOK' /\ \A m \in Editors :
          /\ m # n => editor'[m] = editor[m]
          /\ editor'[m].mode = editor[m].mode /\ editor'[m].version = editor[m].version
          /\ editor'[m].ref = editor[m].ref /\ editor'[m].call = editor[m].call
    BY <1>0, <1>1 DEF EditorInv, PageTypeOK
<1>3. CatalogInv'
    BY <1>0, RouteIsLeft DEF EditorInv
<1>4. \A m \in Editors : EditorOwn(m)'
    BY <1>0, <1>2 DEF EditorInv, EditorOwn
<1>5. OneListener' /\ (\A r \in Requests : AttemptOwn(r)') /\ (\A i \in Saves : SaveOwn(i)')
  <2>1. OneListener'
      BY <1>2 DEF EditorInv, OneListener
  <2>2. \A r \in Requests : AttemptOwn(r)'
      BY <1>0, <1>2 DEF EditorInv, AttemptOwn
  <2>3. \A i \in Saves : SaveOwn(i)'
      BY <1>0, <1>2 DEF EditorInv, SaveOwn
  <2> QED BY <2>1, <2>2, <2>3
<1>6. SaidIsStored' /\ OneSaveOfAnEditor' /\ DraftsStay
    BY <1>0 DEF EditorInv, SaidIsStored, OneSaveOfAnEditor, DraftsStay
<1> QED BY <1>2, <1>3, <1>4, <1>5, <1>6 DEF EditorInv

LEMMA CancelKeeps ==
    ASSUME EditorInv, NEW p \in Pages, Cancel(p)
    PROVE  EditorInv' /\ DraftsStay
<1>0. UNCHANGED <<catalogVars, editor, sender, told, erased>> /\ PageTypeOK'
    BY DEF Cancel, EditorInv, PageTypeOK
<1>1. CatalogInv'
    BY <1>0, RouteIsLeft DEF EditorInv, catalogVars
<1> QED BY <1>0, <1>1 DEF EditorInv, EditorOwn, OneListener, AttemptOwn, SaveOwn, SaidIsStored,
                          OneSaveOfAnEditor, DraftsStay, catalogVars

LEMMA EraseKeeps == ASSUME EditorInv, Erase PROVE EditorInv' /\ DraftsStay
<1>0. UNCHANGED <<save, attempt, editor, shown, sender, told>> /\ erased' = {i \in Saves : save[i].status = "succeeded"}
      /\ DeleteRoute
    BY DEF Erase, DeleteRoute
<1>1. CatalogInv' /\ PageTypeOK'
    BY <1>0, DeletionKeeps DEF EditorInv, PageTypeOK
<1> QED BY <1>0, <1>1 DEF EditorInv, EditorOwn, OneListener, AttemptOwn, SaveOwn, SaidIsStored,
                          OneSaveOfAnEditor, DraftsStay

LEMMA LeaseEndKeeps ==
    ASSUME EditorInv, NEW i \in Saves, LeaseEnds(i), UNCHANGED <<editor, shown, sender, told, erased>>
    PROVE  EditorInv' /\ DraftsStay
<1>0. save \in [Saves -> SaveRecords] /\ UNCHANGED <<route, attempt>>
    BY DEF EditorInv, CatalogInv, CatalogTypeOK, LeaseEnds
<1>1. \A j \in Saves : save'[j].status = save[j].status
    BY <1>0 DEF LeaseEnds, SaveRecords
<1>2. CatalogInv' /\ CatalogEffect
    BY <1>0, <1>1, LeaseKeeps DEF EditorInv, CatalogEffect
<1>3. \A m \in Editors : editor[m].call.request \in Requests => attempt'[editor[m].call.request].at # "idle"
    BY <1>0 DEF EditorInv, EditorOwn
<1> QED BY <1>2, <1>3, UnheardKeeps

LEMMA EditorStarts == EditorInit => EditorInv
<1> SUFFICES ASSUME EditorInit PROVE EditorInv
    OBVIOUS
<1>1. CatalogInv /\ save = [i \in Saves |-> NoSave] /\ attempt = [r \in Requests |-> NoAttempt]
    BY CatalogStarts DEF EditorInit, CatalogInit
<1>2. PageTypeOK
    BY NothingOfAnEditor DEF EditorInit, PageTypeOK
<1>3. (\A n \in Editors : EditorOwn(n)) /\ OneListener
    BY NothingOfAnEditor, RequestAssumption DEF EditorInit, EditorOwn, OneListener, Unopened
<1>4. \A r \in Requests : AttemptOwn(r)
    BY <1>1, NothingOf DEF AttemptOwn
<1>5. (\A i \in Saves : SaveOwn(i)) /\ SaidIsStored /\ OneSaveOfAnEditor
    BY <1>1 DEF EditorInit, SaveOwn, SaidIsStored, OneSaveOfAnEditor, NoSave, Editors
<1> QED BY <1>1, <1>2, <1>3, <1>4, <1>5 DEF EditorInv

LEMMA EditorKept == ASSUME EditorInv, [EditorNext]_editorVars PROVE EditorInv' /\ (DraftsStay \/ UNCHANGED editorVars)
<1>1. CASE UNCHANGED editorVars
  <2>1. CatalogInv' /\ UNCHANGED <<route, save, attempt, editor, shown, sender, told, erased>>
      BY <1>1, RouteIsLeft DEF EditorInv, editorVars, catalogVars, pageVars
  <2> QED BY <1>1, <2>1 DEF EditorInv, PageTypeOK, EditorOwn, OneListener, AttemptOwn, SaveOwn, SaidIsStored,
                          OneSaveOfAnEditor
<1>2. ASSUME NEW n \in Editors, NEW p \in Pages, OpenCreate(n, p) \/ OpenEdit(n, p) PROVE EditorInv' /\ DraftsStay
  <2>1. route.config \in Nat /\ route.shape \in Shapes \cup {"none"}
      BY DEF EditorInv, CatalogInv, CatalogTypeOK, SavedRoutes
  <2> QED BY <1>2, <2>1, OpenKeeps DEF OpenCreate, OpenEdit
<1> QED BY <1>1, <1>2, DrawKeeps, CancelKeeps, SaveKeeps, WaitingKeeps, PollKeeps, ServeKeeps, EraseKeeps, LeaseEndKeeps
        DEF EditorNext

THEOREM EditorInvariant == EditorSpec => []EditorInv
BY EditorStarts, EditorKept, PTL DEF EditorSpec

\* "Route updated!" is said of a save that is stored, the route takes one save of
\* an editor, and a page is closed by its own editor's success, however often
\* requests time out, are sent again under one id or another, and outlive their
\* editor (RouteManagementPanel.tsx, lib/routeSaveClient.ts).
THEOREM DraftsAreSavedOnceAlways == EditorSpec => DraftsAreSavedOnce
<1>1. EditorInv /\ EditorInv' /\ [EditorNext]_editorVars => [SaidIsStored' /\ OneSaveOfAnEditor' /\ DraftsStay]_editorVars
    BY EditorKept DEF EditorInv
<1> QED BY EditorInvariant, <1>1, PTL DEF EditorSpec, DraftsAreSavedOnce

\* The route is written as in the catalogue alone: no page adds a way to change it.
LEMMA EditorLeavesRoute == ASSUME EditorInv, [EditorNext]_editorVars PROVE [RouteStep]_catalogVars
<1>0. CatalogInv
    BY DEF EditorInv
<1>1. CASE UNCHANGED catalogVars
    BY <1>1
<1>2. CASE \E r \in Requests : Serve(r)
    BY <1>0, <1>2, ClaimKeeps, ComputeKeeps, CommitKeeps, FailureKeeps DEF Serve, Answers, Refuse, Cut
<1>3. CASE Erase \/ \E i \in Saves : LeaseEnds(i)
    BY <1>0, <1>3, DeletionKeeps, LeaseKeeps DEF Erase
<1>4. ASSUME NEW n \in Editors, SaveDraft(n) \/ Poll(n) PROVE [RouteStep]_catalogVars
  <2>1. UNCHANGED catalogVars \/ UNCHANGED <<route, save, pin, bound>>
      BY <1>4 DEF SaveDraft, Poll, Put
  <2> QED BY <2>1 DEF RouteStep, catalogVars
<1> QED BY <1>1, <1>2, <1>3, <1>4
        DEF EditorNext, editorVars, OpenCreate, OpenEdit, Open, Draw, Cancel, TimeOut, StopAsking

-----------------------------------------------------------------------------
\* AdminParts: the composition keeps what its parts keep.

LEMMA PartsStep ==
    ASSUME [AdminNext]_adminVars
    PROVE  /\ [FenceNext]_fenceVars /\ [OperationNext]_operationVars /\ [RegistryNext]_registryVars
           /\ [PrivacyNext]_privacyVars /\ [RetentionNext]_retentionVars /\ UNCHANGED scene
           /\ (scene = "editor" => [EditorNext]_editorVars) /\ (scene # "editor" => [CatalogNext]_catalogVars)
BY DEF AdminNext, adminVars, editorVars

THEOREM AdminHasParts ==
    AdminSpec => FenceSpec /\ OperationSpec /\ RegistrySpec /\ PrivacySpec /\ RetentionSpec
<1>1. AdminInit => FenceInit /\ OperationInit /\ RegistryInit /\ PrivacyInit /\ RetentionInit
    BY DEF AdminInit
<1>2. [AdminNext]_adminVars => /\ [FenceNext]_fenceVars /\ [OperationNext]_operationVars /\ [RegistryNext]_registryVars
                               /\ [PrivacyNext]_privacyVars /\ [RetentionNext]_retentionVars
    BY PartsStep
<1> QED BY <1>1, <1>2, PTL DEF AdminSpec, FenceSpec, OperationSpec, RegistrySpec, PrivacySpec, RetentionSpec

\* The pages send in a scene of their own; in the others they rest.
PagesRest == \A i \in Saves : sender[i] = 0 /\ told[i] = "nothing"

RoutesInv == IF scene = "editor" THEN EditorInv ELSE CatalogInv /\ PagesRest

LEMMA RoutesStart == AdminInit => RoutesInv
BY EditorStarts, CatalogStarts DEF AdminInit, EditorInit, RoutesInv, PagesRest

LEMMA RoutesKept ==
    ASSUME RoutesInv, [AdminNext]_adminVars
    PROVE  /\ RoutesInv' /\ [RouteStep]_catalogVars
           /\ [SaidIsStored' /\ OneSaveOfAnEditor' /\ DraftsStay]_editorVars
<1>1. CASE scene = "editor"
  <2>1. EditorInv /\ [EditorNext]_editorVars /\ scene' = scene
      BY <1>1, PartsStep DEF RoutesInv
  <2>2. EditorInv' /\ [RouteStep]_catalogVars
      BY <2>1, EditorKept, EditorLeavesRoute
  <2>3. [SaidIsStored' /\ OneSaveOfAnEditor' /\ DraftsStay]_editorVars
      BY <2>1, <2>2, EditorKept DEF EditorInv
  <2> QED BY <1>1, <2>1, <2>2, <2>3 DEF RoutesInv
<1>2. CASE scene # "editor"
  <2>1. CatalogInv /\ PagesRest /\ [CatalogNext]_catalogVars /\ scene' = scene
      BY <1>2, PartsStep DEF RoutesInv
  <2>2. CatalogInv' /\ [RouteStep]_catalogVars
      BY <2>1, CatalogKept
  <2>3. UNCHANGED pageVars
      BY <1>2 DEF AdminNext, adminVars, editorVars
  <2>4. PagesRest'
      BY <2>1, <2>3 DEF PagesRest, pageVars
  <2>5. SaidIsStored' /\ OneSaveOfAnEditor' /\ DraftsStay
      BY <2>3, <2>4 DEF PagesRest, pageVars, SaidIsStored, OneSaveOfAnEditor, DraftsStay, Editors
  <2> QED BY <1>2, <2>1, <2>2, <2>4, <2>5 DEF RoutesInv
<1> QED BY <1>1, <1>2

\* Whatever part a behaviour of administrators and background workers follows,
\* it keeps the promise of that part: all that is checked of AdminParts.
THEOREM AdminKeepsItsPromises ==
    AdminSpec => /\ [](RightsFollowRegistry /\ LeftoversHaveJob)
                 /\ FencedWritesInOrder /\ RecoveryIsSafe /\ OnlyTheAskingAccount
                 /\ RoutesAreKept /\ DraftsAreSavedOnce
<1>1. AdminSpec => []RoutesInv
    BY RoutesStart, RoutesKept, PTL DEF AdminSpec
<1>2. AdminSpec => [][RouteStep]_catalogVars /\ DraftsAreSavedOnce
    BY <1>1, RoutesKept, PTL DEF AdminSpec, DraftsAreSavedOnce
<1>3. [RouteStep]_catalogVars
      => /\ [route' # route /\ route' # NoRoute =>
               \E i \in Saves : save[i].status # "succeeded" /\ save'[i].status = "succeeded"]_catalogVars
         /\ [route # NoRoute /\ route' # route =>
               IF route' = NoRoute THEN pin # "riding" ELSE pin = "none"]_catalogVars
    BY DEF RouteStep
<1>4. AdminSpec => RoutesAreKept
    BY <1>2, <1>3, PTL DEF RoutesAreKept, SavedOnce, RiddenRouteStays
<1> QED BY <1>2, <1>4, AdminHasParts, FencedWritesInOrderAlways, RecoveryIsSafeAlways, OnlyTheAskingAccountAlways,
           RightsFollowRegistryAlways, LeftoversHaveJobAlways, PTL
=============================================================================
