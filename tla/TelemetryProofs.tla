--------------------------- MODULE TelemetryProofs ---------------------------
(* What TLAPS proves of the backend's door for telemetry: that a credential    *)
(* cache never outlives a revocation it was told of, that a node left behind   *)
(* is retired before its retirement is forgotten, that no sample is taken for  *)
(* a newer one, and that replicas sharing a budget never exceed it.            *)
EXTENDS TelemetryIngest, FiniteSetTheorems, TLAPS

-----------------------------------------------------------------------------
(* The registry and the credential caches.                                     *)

Places == Nodes \cup {NoNode}
Retirements == [node : Places, rev : Nat]
Documents == [node : Places, rev : Nat, enabled : BOOLEAN, pending : Retirements, writes : Nat]
Entries == [verdict : {"none", "assigned", "refused"}, node : Places, rev : Nat, writes : Nat, fresh : BOOLEAN]
Fills == [step : {"none", "read", "verify"}, node : Places, rev : Nat, enabled : BOOLEAN,
          writes : Nat, current : BOOLEAN]

\* Every variable of the registry that its two properties speak of has its type;
\* a PUT request under way is about a device.
RegistryType ==
    /\ doc \in [Devices -> Documents]
    /\ announced \in [Devices -> Nat]
    /\ heard \in [Replicas -> [Devices -> Nat]]
    /\ cache \in [Replicas -> [Devices -> Entries]]
    /\ fill \in [Replicas -> [Devices -> Fills]]
    /\ DOMAIN put = Puts
    /\ \A p \in Puts : put[p] # IdlePut =>
          /\ put[p].device \in Devices
          /\ put[p].retirement \in Retirements

\* What was read as of the write w is the document, or a write since has not
\* been announced or not been heard of.
Known(r, d, w) ==
    \/ w = doc[d].writes
    \/ announced[d] < doc[d].writes
    \/ heard[r][d] # announced[d]

\* Announcements follow the writes, replicas follow the announcements, and
\* neither an entry nor a fill that may publish is older than what is known.
CachesFollow ==
    /\ \A d \in Devices : announced[d] <= doc[d].writes
    /\ \A r \in Replicas, d \in Devices : heard[r][d] <= announced[d]
    /\ \A r \in Replicas, d \in Devices : cache[r][d] # NoEntry => Known(r, d, cache[r][d].writes)
    /\ \A r \in Replicas, d \in Devices :
          fill[r][d].step = "verify" /\ fill[r][d].current => Known(r, d, fill[r][d].writes)

\* A pending retirement carries a revision of its own: of the requests under
\* way, only one for the same node carries the same.
RetirementsOwn ==
    /\ \A d \in Devices : doc[d].pending # NoPending => doc[d].pending.rev \in 1 .. doc[d].rev
    /\ \A p \in Puts : put[p] # IdlePut /\ put[p].retirement # NoPending =>
          /\ put[p].retirement.rev <= doc[put[p].device].rev
          /\ doc[put[p].device].pending # NoPending
                /\ doc[put[p].device].pending.rev = put[p].retirement.rev
             => doc[put[p].device].pending = put[p].retirement

\* What a request is about to clear has been retired.
ClearedIsRetired ==
    \A p \in Puts :
        /\ put[p].step \in {"retire", "clear"} => put[p].retirement # NoPending
        /\ put[p].step = "clear" =>
              [device |-> put[p].device, node |-> put[p].retirement.node, rev |-> put[p].retirement.rev] \in retired

DeviceInv == RegistryType /\ CachesFollow /\ RetirementsOwn /\ ClearedIsRetired /\ OneDevicePerNode

LEMMA DeviceInit == RegistryInit => DeviceInv
<1> SUFFICES ASSUME RegistryInit PROVE DeviceInv
  OBVIOUS
<1>1. RegistryType
  <2>1. NoPending \in Retirements
    BY DEF NoPending, Retirements, Places
  <2>2. NoEntry \in Entries
    BY DEF NoEntry, Entries, Places
  <2>3. NoFill \in Fills
    BY DEF NoFill, Fills, Places
  <2>4. \A d \in Devices : doc[d] \in Documents
    BY <2>1 DEF RegistryInit, Documents, Places
  <2> QED
    BY <2>2, <2>3, <2>4 DEF RegistryInit, RegistryType
<1>2. CachesFollow
  BY DEF RegistryInit, CachesFollow, NoFill
<1>3. RetirementsOwn /\ ClearedIsRetired
  BY DEF RegistryInit, RetirementsOwn, ClearedIsRetired, IdlePut
<1>4. OneDevicePerNode
  BY DEF RegistryInit, OneDevicePerNode
<1> QED
  BY <1>1, <1>2, <1>3, <1>4 DEF DeviceInv

LEMMA RecordTypes ==
    /\ NoPending \in Retirements /\ NoEntry \in Entries /\ NoFill \in Fills
    /\ ~NoFill.current /\ NoFill.step = "none"
  BY DEF NoPending, Retirements, NoEntry, Entries, NoFill, Fills, Places

\* A write of the registry: the document of one device goes on by a write, and
\* the request that made it has the announcement before it.
LEMMA WriteKeeps ==
    ASSUME NEW p \in Puts, NEW d \in Devices, NEW k \in Documents, NEW t \in Retirements, DeviceInv,
           put[p] = IdlePut,
           k.writes = doc[d].writes + 1, k.rev >= doc[d].rev,
           k.pending # NoPending => k.pending.rev \in 1 .. k.rev,
           \/ t = NoPending
           \/ t = k.pending,
           \/ k.pending = doc[d].pending
           \/ k.pending.rev = doc[d].rev + 1,
           k.node # NoNode => \A e \in Devices \ {d} : doc[e].node # k.node,
           doc' = [doc EXCEPT ![d] = k],
           put' = [put EXCEPT ![p] = [step |-> "announce", device |-> d, retirement |-> t]],
           UNCHANGED <<announced, heard, cache, fill, retired>>
    PROVE  DeviceInv'
<1>1. doc \in [Devices -> Documents] /\ DOMAIN put = Puts
  BY DEF DeviceInv, RegistryType
<1>2. doc'[d] = k /\ \A e \in Devices \ {d} : doc'[e] = doc[e]
  BY <1>1
<1>3. put'[p] = [step |-> "announce", device |-> d, retirement |-> t] /\ \A q \in Puts \ {p} : put'[q] = put[q]
  BY <1>1
<1>4. RegistryType'
  BY <1>1, <1>3 DEF DeviceInv, RegistryType
<1>5. CachesFollow'
  <2>1. \A e \in Devices : /\ doc[e].writes \in Nat /\ doc'[e].writes \in Nat
                           /\ announced[e] \in Nat /\ announced[e] <= doc[e].writes
                           /\ \A r \in Replicas : heard[r][e] \in Nat
    BY <1>1, <1>4 DEF DeviceInv, RegistryType, CachesFollow, Documents
  <2>2. \A r \in Replicas, e \in Devices, w \in Nat : Known(r, e, w) => (Known(r, e, w))'
    BY <1>2, <2>1 DEF Known
  <2>3. \A r \in Replicas, e \in Devices : cache[r][e].writes \in Nat /\ fill[r][e].writes \in Nat
    BY DEF DeviceInv, RegistryType, Entries, Fills
  <2>4. \A e \in Devices : announced'[e] <= doc'[e].writes
    BY <1>2, <2>1
  <2> QED
    BY <2>1, <2>2, <2>3, <2>4 DEF DeviceInv, CachesFollow, Known
<1>6. RetirementsOwn'
  <2>1. \A e \in Devices : doc[e].rev \in Nat /\ doc'[e].rev \in Nat /\ doc[e].pending \in Retirements
    BY <1>1, <1>4 DEF RegistryType, Documents
  <2>2. \A e \in Devices : doc[e].pending.rev \in Nat /\ k.pending.rev \in Nat /\ t.rev \in Nat
    BY <2>1 DEF Documents, Retirements
  <2>3. \A e \in Devices : doc'[e].pending # NoPending => doc'[e].pending.rev \in 1 .. doc'[e].rev
    BY <1>2 DEF DeviceInv, RetirementsOwn
  <2>4. ASSUME NEW q \in Puts, put'[q] # IdlePut, put'[q].retirement # NoPending
        PROVE  /\ put'[q].retirement.rev <= doc'[put'[q].device].rev
               /\ doc'[put'[q].device].pending # NoPending
                     /\ doc'[put'[q].device].pending.rev = put'[q].retirement.rev
                  => doc'[put'[q].device].pending = put'[q].retirement
    <3>1. CASE q = p
      BY <1>2, <1>3, <2>1, <2>2, <2>3, <2>4, <3>1
    <3>2. CASE q # p
      <4>1. put'[q] = put[q] /\ put[q].device \in Devices /\ put[q].retirement.rev \in Nat
        BY <1>3, <2>4, <3>2 DEF DeviceInv, RegistryType, Retirements
      <4>2. /\ put[q].retirement.rev <= doc[put[q].device].rev
            /\ doc[put[q].device].pending # NoPending /\ doc[put[q].device].pending.rev = put[q].retirement.rev
                 => doc[put[q].device].pending = put[q].retirement
        BY <2>4, <4>1 DEF DeviceInv, RetirementsOwn
      <4>3. CASE put[q].device = d
        BY <1>2, <2>1, <2>2, <4>1, <4>2, <4>3 DEF Documents
      <4>4. CASE put[q].device # d
        BY <1>2, <4>1, <4>2, <4>4
      <4> QED
        BY <4>3, <4>4
    <3> QED
      BY <3>1, <3>2
  <2> QED
    BY <2>3, <2>4 DEF RetirementsOwn
<1>7. ClearedIsRetired'
  BY <1>3 DEF DeviceInv, ClearedIsRetired
<1>8. OneDevicePerNode'
  BY <1>2 DEF DeviceInv, OneDevicePerNode
<1> QED
  BY <1>4, <1>5, <1>6, <1>7, <1>8 DEF DeviceInv

LEMMA AssignKeeps ==
    ASSUME NEW p \in Puts, NEW d \in Devices, NEW n \in Nodes, DeviceInv, Assign(p, d, n)
    PROVE  DeviceInv'
<1>1. doc[d] \in Documents /\ doc[d].pending \in Retirements /\ doc[d].rev \in Nat /\ doc[d].writes \in Nat
  BY DEF DeviceInv, RegistryType, Documents
<1> DEFINE changed == doc[d].node # n
           rev == doc[d].rev + IF changed THEN 1 ELSE 0
           t == IF changed /\ doc[d].node # NoNode THEN [node |-> doc[d].node, rev |-> rev] ELSE doc[d].pending
<1>2. PICK enabled \in {doc[d].enabled, TRUE, FALSE} :
          doc' = [doc EXCEPT ![d] = [node |-> n, rev |-> rev, enabled |-> enabled,
                                     pending |-> t, writes |-> doc[d].writes + 1]]
  BY <1>1 DEF Assign, DeviceInv, RegistryType
<1>3. /\ put' = [put EXCEPT ![p] = [step |-> "announce", device |-> d, retirement |-> t]]
      /\ changed => doc[d].pending = NoPending
  BY DEF Assign
<1>4. rev \in Nat /\ rev >= doc[d].rev /\ t \in Retirements
  BY <1>1 DEF Documents, Retirements, Places
<1> DEFINE k == [node |-> n, rev |-> rev, enabled |-> enabled, pending |-> t, writes |-> doc[d].writes + 1]
<1>5. k \in Documents
  <2>1. enabled \in BOOLEAN
    BY <1>1, <1>2 DEF Documents
  <2> QED
    BY <1>1, <1>4, <2>1 DEF Documents, Places
<1>6. t # NoPending => t.rev \in 1 .. rev
  BY <1>1, <1>3, <1>4 DEF DeviceInv, RetirementsOwn
<1>7. t = doc[d].pending \/ t.rev = doc[d].rev + 1
  BY <1>1
<1>8. \A e \in Devices \ {d} : doc[e].node # n
  BY DEF Assign, Conflict
<1>9. put[p] = IdlePut /\ UNCHANGED <<announced, heard, cache, fill, retired>>
  BY DEF Assign
<1>10. /\ k.writes = doc[d].writes + 1 /\ k.rev = rev /\ k.pending = t /\ k.node = n
       /\ doc' = [doc EXCEPT ![d] = k]
  BY <1>2
<1> HIDE DEF k, t, rev
<1> QED
  BY <1>3, <1>4, <1>5, <1>6, <1>7, <1>8, <1>9, <1>10, WriteKeeps

LEMMA DisableKeeps ==
    ASSUME NEW p \in Puts, NEW d \in Devices, DeviceInv, Disable(p, d)
    PROVE  DeviceInv'
<1>1. doc[d] \in Documents /\ doc[d].pending \in Retirements /\ doc[d].rev \in Nat /\ doc[d].writes \in Nat
  BY DEF DeviceInv, RegistryType, Documents
<1> DEFINE k == [doc[d] EXCEPT !.enabled = FALSE, !.writes = @ + 1]
<1>2. /\ k \in Documents
      /\ k.writes = doc[d].writes + 1 /\ k.rev = doc[d].rev /\ k.pending = doc[d].pending /\ k.node = doc[d].node
  <2>1. ASSUME NEW m \in Nat
        PROVE  /\ [doc[d] EXCEPT !.enabled = FALSE, !.writes = m] \in Documents
               /\ [doc[d] EXCEPT !.enabled = FALSE, !.writes = m].writes = m
               /\ [doc[d] EXCEPT !.enabled = FALSE, !.writes = m].rev = doc[d].rev
               /\ [doc[d] EXCEPT !.enabled = FALSE, !.writes = m].pending = doc[d].pending
               /\ [doc[d] EXCEPT !.enabled = FALSE, !.writes = m].node = doc[d].node
    BY <1>1 DEF Documents
  <2>2. k = [doc[d] EXCEPT !.enabled = FALSE, !.writes = doc[d].writes + 1]
    BY <1>1 DEF Documents
  <2>3. doc[d].writes + 1 \in Nat
    BY <1>1
  <2> HIDE DEF k
  <2> QED
    BY <2>1, <2>2, <2>3
<1>3. doc' = [doc EXCEPT ![d] = k]
  BY <1>1 DEF Disable, DeviceInv, RegistryType
<1>4. put' = [put EXCEPT ![p] = [step |-> "announce", device |-> d, retirement |-> NoPending]]
  BY DEF Disable
<1>5. put[p] = IdlePut /\ UNCHANGED <<announced, heard, cache, fill, retired>>
  BY DEF Disable
<1>6. doc[d].pending # NoPending => doc[d].pending.rev \in 1 .. doc[d].rev
  BY DEF DeviceInv, RetirementsOwn
<1>7. doc[d].node # NoNode => \A e \in Devices \ {d} : doc[e].node # doc[d].node
  BY DEF DeviceInv, OneDevicePerNode
<1>8. k.writes = doc[d].writes + 1 /\ k.rev >= doc[d].rev
  BY <1>1, <1>2
<1> HIDE DEF k
<1> QED
  BY <1>1, <1>2, <1>3, <1>4, <1>5, <1>6, <1>7, <1>8, RecordTypes, WriteKeeps
\* A request that only moves on, over the same device and the same retirement,
\* or that ends: the registry and its caches keep what they had.
LEMMA RequestKeeps ==
    ASSUME NEW p \in Puts, NEW k, DeviceInv,
           put' = [put EXCEPT ![p] = k],
           \/ k = IdlePut
           \/ /\ put[p] # IdlePut
              /\ k.device = put[p].device /\ k.retirement = put[p].retirement
              /\ k.step \in {"retire", "clear"}
              /\ k.retirement # NoPending
              /\ k.step = "clear" =>
                    [device |-> k.device, node |-> k.retirement.node, rev |-> k.retirement.rev] \in retired',
           retired \subseteq retired',
           UNCHANGED doc
    PROVE  /\ DOMAIN put' = Puts
           /\ \A q \in Puts : put'[q] # IdlePut => put'[q].device \in Devices /\ put'[q].retirement \in Retirements
           /\ RetirementsOwn' /\ ClearedIsRetired' /\ OneDevicePerNode'
<1>1. DOMAIN put = Puts
  BY DEF DeviceInv, RegistryType
<1>2. put'[p] = k /\ \A q \in Puts \ {p} : put'[q] = put[q]
  BY <1>1
<1>3. IdlePut.step = "idle"
  BY DEF IdlePut
<1>4. \A q \in Puts : put'[q] # IdlePut =>
          /\ put[q] # IdlePut
          /\ put'[q].device = put[q].device /\ put'[q].retirement = put[q].retirement
  BY <1>2
<1>5. \A q \in Puts : put'[q] # IdlePut => put'[q].device \in Devices /\ put'[q].retirement \in Retirements
  BY <1>4 DEF DeviceInv, RegistryType
<1>6. RetirementsOwn'
  <2>1. \A d \in Devices : doc'[d].pending # NoPending => doc'[d].pending.rev \in 1 .. doc'[d].rev
    BY DEF DeviceInv, RetirementsOwn
  <2>2. ASSUME NEW q \in Puts, put'[q] # IdlePut, put'[q].retirement # NoPending
        PROVE  /\ put'[q].retirement.rev <= doc'[put'[q].device].rev
               /\ doc'[put'[q].device].pending # NoPending
                     /\ doc'[put'[q].device].pending.rev = put'[q].retirement.rev
                  => doc'[put'[q].device].pending = put'[q].retirement
    BY <1>4, <2>2 DEF DeviceInv, RetirementsOwn
  <2> QED
    BY <2>1, <2>2 DEF RetirementsOwn
<1>7. ClearedIsRetired'
  BY <1>2, <1>3 DEF DeviceInv, ClearedIsRetired
<1>8. OneDevicePerNode'
  BY DEF DeviceInv, OneDevicePerNode
<1> QED
  BY <1>1, <1>5, <1>6, <1>7, <1>8

\* What a replica does with its cache and its fills.
LEMMA ReplicaKeeps ==
    ASSUME DeviceInv, UNCHANGED <<doc, announced, put, retired>>,
           heard' \in [Replicas -> [Devices -> Nat]],
           cache' \in [Replicas -> [Devices -> Entries]],
           fill' \in [Replicas -> [Devices -> Fills]],
           \A r \in Replicas, d \in Devices :
              /\ heard'[r][d] <= announced[d]
              /\ cache'[r][d] # NoEntry => (Known(r, d, cache[r][d].writes))'
              /\ fill'[r][d].step = "verify" /\ fill'[r][d].current => (Known(r, d, fill[r][d].writes))'
    PROVE  DeviceInv'
<1>1. RegistryType'
  BY DEF DeviceInv, RegistryType
<1>2. CachesFollow'
  BY DEF DeviceInv, CachesFollow
<1>3. RetirementsOwn' /\ ClearedIsRetired' /\ OneDevicePerNode'
  BY DEF DeviceInv, RetirementsOwn, ClearedIsRetired, OneDevicePerNode
<1> QED
  BY <1>1, <1>2, <1>3 DEF DeviceInv

\* An invalidation at one replica empties one entry and voids one fill.
LEMMA InvalidatedEffect ==
    ASSUME NEW r \in Replicas, NEW d \in Devices, DeviceInv, Invalidated(r, d)
    PROVE  /\ cache' \in [Replicas -> [Devices -> Entries]]
           /\ fill' \in [Replicas -> [Devices -> Fills]]
           /\ cache'[r][d] = NoEntry /\ ~fill'[r][d].current
           /\ \A x \in Replicas, y \in Devices :
                 <<x, y>> # <<r, d>> => cache'[x][y] = cache[x][y] /\ fill'[x][y] = fill[x][y]
<1>1. cache \in [Replicas -> [Devices -> Entries]] /\ fill \in [Replicas -> [Devices -> Fills]]
  BY DEF DeviceInv, RegistryType
<1> DEFINE k == [fill[r][d] EXCEPT !.current = FALSE]
<1>2. fill[r][d] \in Fills
  BY <1>1
<1>3. k \in Fills /\ ~k.current
  BY <1>2 DEF Fills
<1>4. fill' = [fill EXCEPT ![r][d] = k]
  BY <1>1 DEF Invalidated
<1>5. cache' = [cache EXCEPT ![r][d] = NoEntry]
  BY DEF Invalidated
<1> HIDE DEF k
<1> QED
  BY <1>1, <1>3, <1>4, <1>5, RecordTypes

LEMMA AnnounceKeeps ==
    ASSUME NEW p \in Puts, NEW r \in Replicas, DeviceInv, Announce(p, r)
    PROVE  DeviceInv'
<1> DEFINE d == put[p].device
           k == IF put[p].retirement = NoPending THEN IdlePut ELSE [put[p] EXCEPT !.step = "retire"]
<1>1. put[p].step = "announce" /\ put[p] # IdlePut /\ d \in Devices
  BY DEF Announce, IdlePut, DeviceInv, RegistryType
<1>2. put' = [put EXCEPT ![p] = k]
  BY DEF Announce, DeviceInv, RegistryType
<1>3. \/ k = IdlePut
      \/ /\ k.device = put[p].device /\ k.retirement = put[p].retirement
         /\ k.step = "retire" /\ k.retirement # NoPending
  <2>1. CASE put[p].retirement = NoPending
    BY <2>1
  <2>2. CASE put[p].retirement # NoPending
    BY <2>2 DEF Announce, DeviceInv, RegistryType
  <2> QED
    BY <2>1, <2>2
<1>4. UNCHANGED <<doc, heard, retired>> /\ announced' = [announced EXCEPT ![d] = doc[d].writes]
  BY DEF Announce
<1>5. Invalidated(r, d)
  BY DEF Announce
<1> HIDE DEF k, d
<1>6. /\ DOMAIN put' = Puts
      /\ \A q \in Puts : put'[q] # IdlePut => put'[q].device \in Devices /\ put'[q].retirement \in Retirements
      /\ RetirementsOwn' /\ ClearedIsRetired' /\ OneDevicePerNode'
  BY <1>1, <1>2, <1>3, <1>4, RequestKeeps
<1>7. /\ \A e \in Devices : announced[e] \in Nat /\ doc[e].writes \in Nat /\ announced[e] <= doc[e].writes
      /\ \A x \in Replicas, e \in Devices : heard[x][e] \in Nat /\ heard[x][e] <= announced[e]
      /\ announced \in [Devices -> Nat]
  BY DEF DeviceInv, RegistryType, CachesFollow, Documents
<1>8. RegistryType'
  BY <1>1, <1>4, <1>5, <1>6, <1>7, InvalidatedEffect DEF DeviceInv, RegistryType
<1>9. CachesFollow'
  <2>1. announced'[d] = doc[d].writes /\ \A e \in Devices \ {d} : announced'[e] = announced[e]
    BY <1>1, <1>4, <1>7
  <2>3. \A e \in Devices : announced'[e] <= doc'[e].writes
    BY <1>4, <1>7, <2>1
  <2>4. \A x \in Replicas, e \in Devices : heard'[x][e] <= announced'[e]
    BY <1>1, <1>4, <1>7, <2>1
  <2>5. ASSUME NEW x \in Replicas, NEW e \in Devices
        PROVE  /\ cache'[x][e] # NoEntry => (Known(x, e, cache[x][e].writes))'
               /\ fill'[x][e].step = "verify" /\ fill'[x][e].current => (Known(x, e, fill[x][e].writes))'
    <3>1. CASE <<x, e>> = <<r, d>>
      BY <1>1, <1>5, <3>1, InvalidatedEffect
    <3>2. CASE <<x, e>> # <<r, d>>
      <4>1. cache'[x][e] = cache[x][e] /\ fill'[x][e] = fill[x][e]
        BY <1>1, <1>5, <3>2, InvalidatedEffect
      <4>2. /\ cache[x][e] # NoEntry => Known(x, e, cache[x][e].writes)
            /\ fill[x][e].step = "verify" /\ fill[x][e].current => Known(x, e, fill[x][e].writes)
        BY DEF DeviceInv, CachesFollow
      <4> QED
        BY <1>4, <1>7, <2>1, <4>1, <4>2 DEF Known
    <3> QED
      BY <3>1, <3>2
  <2> QED
    BY <2>3, <2>4, <2>5 DEF CachesFollow
<1> QED
  BY <1>6, <1>8, <1>9 DEF DeviceInv
\* What holds of the registry and the caches when no step is taken there.
LEMMA CachesStay ==
    ASSUME DeviceInv, UNCHANGED <<announced, heard, cache, fill>>,
           doc' \in [Devices -> Documents],
           \A d \in Devices : doc'[d].writes = doc[d].writes
    PROVE  CachesFollow'
BY DEF DeviceInv, CachesFollow, Known

LEMMA RetireKeeps ==
    ASSUME NEW p \in Puts, DeviceInv, Retire(p) PROVE DeviceInv'
<1> DEFINE k == [put[p] EXCEPT !.step = "clear"]
<1>1. put[p].step = "retire" /\ put[p] # IdlePut /\ put[p].retirement # NoPending
  <2>1. put[p].step = "retire"
    BY DEF Retire
  <2>2. put[p] # IdlePut
    BY <2>1 DEF IdlePut
  <2> QED
    BY <2>1, <2>2 DEF DeviceInv, ClearedIsRetired
<1>2. put' = [put EXCEPT ![p] = k]
  BY DEF Retire, DeviceInv, RegistryType
<1>3. UNCHANGED <<doc, announced, heard, cache, fill>>
  BY DEF Retire
<1>4. retired' = retired \cup {[device |-> put[p].device, node |-> put[p].retirement.node, rev |-> put[p].retirement.rev]}
  BY DEF Retire
<1>6. k.device = put[p].device /\ k.retirement = put[p].retirement
  BY <1>1 DEF Retire
<1>7. k.step \in {"retire", "clear"}
  BY <1>1
<1> HIDE DEF k
<1>8. /\ DOMAIN put' = Puts
      /\ \A q \in Puts : put'[q] # IdlePut => put'[q].device \in Devices /\ put'[q].retirement \in Retirements
      /\ RetirementsOwn' /\ ClearedIsRetired' /\ OneDevicePerNode'
  BY <1>1, <1>2, <1>3, <1>4, <1>6, <1>7, RequestKeeps
<1>9. RegistryType'
  BY <1>3, <1>8 DEF DeviceInv, RegistryType
<1>10. CachesFollow'
  BY <1>3, <1>9, CachesStay DEF RegistryType
<1> QED
  BY <1>8, <1>9, <1>10 DEF DeviceInv

LEMMA ClearKeeps ==
    ASSUME NEW p \in Puts, DeviceInv, ClearPending(p) PROVE DeviceInv'
<1> DEFINE d == put[p].device
<1>1. put[p].step = "clear" /\ put[p] # IdlePut /\ d \in Devices
  BY DEF ClearPending, IdlePut, DeviceInv, RegistryType
<1>2. put' = [put EXCEPT ![p] = IdlePut] /\ UNCHANGED <<announced, heard, cache, fill, retired>>
  BY DEF ClearPending
<1>3. doc' = doc \/ doc' = [doc EXCEPT ![d] = [doc[d] EXCEPT !.pending = NoPending]]
  BY <1>1 DEF ClearPending, DeviceInv, RegistryType
<1>4. doc \in [Devices -> Documents] /\ doc[d] \in Documents
  BY <1>1 DEF DeviceInv, RegistryType
<1>5. [doc[d] EXCEPT !.pending = NoPending] \in Documents
  BY <1>4, RecordTypes DEF Documents
<1> HIDE DEF d
<1>6. doc' \in [Devices -> Documents]
  BY <1>1, <1>3, <1>4, <1>5
<1>7. \A e \in Devices : /\ doc'[e].writes = doc[e].writes /\ doc'[e].rev = doc[e].rev /\ doc'[e].node = doc[e].node
                         /\ doc'[e].pending = NoPending \/ doc'[e].pending = doc[e].pending
  BY <1>1, <1>3, <1>4 DEF Documents
<1>8. \A q \in Puts : /\ put'[q] = IdlePut \/ put'[q] = put[q]
                      /\ q \in DOMAIN put'
  BY <1>2 DEF DeviceInv, RegistryType
<1>9. DOMAIN put' = Puts /\ \A q \in Puts : put'[q] # IdlePut => put'[q].device \in Devices /\ put'[q].retirement \in Retirements
  BY <1>2, <1>8 DEF DeviceInv, RegistryType
<1>10. RegistryType'
  BY <1>2, <1>6, <1>9 DEF DeviceInv, RegistryType
<1>11. CachesFollow'
  BY <1>2, <1>6, <1>7, CachesStay
<1>12. RetirementsOwn'
  <2>1. \A e \in Devices : doc'[e].pending # NoPending => doc'[e].pending.rev \in 1 .. doc'[e].rev
    BY <1>7 DEF DeviceInv, RetirementsOwn
  <2>2. ASSUME NEW q \in Puts, put'[q] # IdlePut, put'[q].retirement # NoPending
        PROVE  /\ put'[q].retirement.rev <= doc'[put'[q].device].rev
               /\ doc'[put'[q].device].pending # NoPending
                     /\ doc'[put'[q].device].pending.rev = put'[q].retirement.rev
                  => doc'[put'[q].device].pending = put'[q].retirement
    <3>1. put'[q] = put[q] /\ put[q].device \in Devices
      BY <1>8, <1>9, <2>2
    <3>2. /\ put[q].retirement.rev <= doc[put[q].device].rev
          /\ doc[put[q].device].pending # NoPending /\ doc[put[q].device].pending.rev = put[q].retirement.rev
               => doc[put[q].device].pending = put[q].retirement
      BY <2>2, <3>1 DEF DeviceInv, RetirementsOwn
    <3> QED
      BY <1>7, <3>1, <3>2
  <2> QED
    BY <2>1, <2>2 DEF RetirementsOwn
<1>13. ClearedIsRetired'
  BY <1>2, <1>8 DEF DeviceInv, ClearedIsRetired, IdlePut
<1>14. OneDevicePerNode'
  BY <1>7 DEF DeviceInv, OneDevicePerNode
<1> QED
  BY <1>10, <1>11, <1>12, <1>13, <1>14 DEF DeviceInv

LEMMA PutFailsKeeps ==
    ASSUME NEW p \in Puts, DeviceInv, PutFails(p) PROVE DeviceInv'
<1>1. put' = [put EXCEPT ![p] = IdlePut] /\ UNCHANGED <<doc, announced, heard, cache, fill, retired>>
  BY DEF PutFails
<1>2. /\ DOMAIN put' = Puts
      /\ \A q \in Puts : put'[q] # IdlePut => put'[q].device \in Devices /\ put'[q].retirement \in Retirements
      /\ RetirementsOwn' /\ ClearedIsRetired' /\ OneDevicePerNode'
  BY <1>1, RequestKeeps
<1>3. RegistryType'
  BY <1>1, <1>2 DEF DeviceInv, RegistryType
<1>4. CachesFollow'
  BY <1>1, <1>3, CachesStay DEF RegistryType
<1> QED
  BY <1>2, <1>3, <1>4 DEF DeviceInv

\* What the caches hold, replica by replica: the part of the invariant that a
\* step of a replica starts from.
LEMMA ReplicaFacts ==
    ASSUME DeviceInv
    PROVE  /\ heard \in [Replicas -> [Devices -> Nat]]
           /\ cache \in [Replicas -> [Devices -> Entries]]
           /\ fill \in [Replicas -> [Devices -> Fills]]
           /\ \A d \in Devices : doc[d] \in Documents /\ announced[d] \in Nat
           /\ \A r \in Replicas, d \in Devices :
                 /\ heard[r][d] <= announced[d] /\ 0 <= announced[d]
                 /\ cache[r][d] # NoEntry => Known(r, d, cache[r][d].writes)
                 /\ fill[r][d].step = "verify" /\ fill[r][d].current => Known(r, d, fill[r][d].writes)
BY DEF DeviceInv, RegistryType, CachesFollow

LEMMA DeliverKeeps ==
    ASSUME NEW r \in Replicas, NEW d \in Devices, DeviceInv, Deliver(r, d) PROVE DeviceInv'
<1>1. Invalidated(r, d) /\ UNCHANGED <<doc, announced, put, retired>>
  BY DEF Deliver
<1>2. heard' = [heard EXCEPT ![r][d] = announced[d]]
  BY DEF Deliver
<1>3. heard' \in [Replicas -> [Devices -> Nat]]
  BY <1>2, ReplicaFacts
<1>4. heard'[r][d] = announced[d] /\ \A x \in Replicas, e \in Devices : <<x, e>> # <<r, d>> => heard'[x][e] = heard[x][e]
  BY <1>2, ReplicaFacts
<1>5. ASSUME NEW x \in Replicas, NEW e \in Devices
      PROVE  /\ heard'[x][e] <= announced[e]
             /\ cache'[x][e] # NoEntry => (Known(x, e, cache[x][e].writes))'
             /\ fill'[x][e].step = "verify" /\ fill'[x][e].current => (Known(x, e, fill[x][e].writes))'
  <2>1. CASE <<x, e>> = <<r, d>>
    <3>1. announced[d] <= announced[d]
      BY ReplicaFacts
    <3> QED
      BY <1>1, <1>4, <2>1, <3>1, InvalidatedEffect
  <2>2. CASE <<x, e>> # <<r, d>>
    BY <1>1, <1>4, <2>2, ReplicaFacts, InvalidatedEffect DEF Known
  <2> QED
    BY <2>1, <2>2
<1> QED
  BY <1>1, <1>3, <1>5, InvalidatedEffect, ReplicaKeeps

LEMMA ListenerFailsKeeps ==
    ASSUME NEW r \in Replicas, DeviceInv, ListenerFails(r) PROVE DeviceInv'
<1>1. /\ heard' = [heard EXCEPT ![r] = [d \in Devices |-> 0]]
      /\ cache' = [cache EXCEPT ![r] = [d \in Devices |-> NoEntry]]
      /\ UNCHANGED <<doc, announced, put, retired>>
  BY DEF ListenerFails
<1> DEFINE row == [d \in Devices |-> [fill[r][d] EXCEPT !.current = FALSE]]
<1>2. row \in [Devices -> Fills] /\ \A d \in Devices : ~row[d].current
  <2>1. ASSUME NEW d \in Devices
        PROVE  [fill[r][d] EXCEPT !.current = FALSE] \in Fills /\ ~[fill[r][d] EXCEPT !.current = FALSE].current
    <3>1. fill[r][d] \in Fills
      BY ReplicaFacts
    <3> QED
      BY <3>1 DEF Fills
  <2> QED
    BY <2>1
<1>3. fill' = [fill EXCEPT ![r] = row]
  BY DEF ListenerFails
<1> HIDE DEF row
<1>4. /\ heard' \in [Replicas -> [Devices -> Nat]]
      /\ cache' \in [Replicas -> [Devices -> Entries]]
      /\ fill' \in [Replicas -> [Devices -> Fills]]
  BY <1>1, <1>2, <1>3, ReplicaFacts, RecordTypes
<1>5. ASSUME NEW x \in Replicas, NEW e \in Devices
      PROVE  /\ heard'[x][e] <= announced[e]
             /\ cache'[x][e] # NoEntry => (Known(x, e, cache[x][e].writes))'
             /\ fill'[x][e].step = "verify" /\ fill'[x][e].current => (Known(x, e, fill[x][e].writes))'
  <2>1. CASE x = r
    BY <1>1, <1>2, <1>3, <2>1, ReplicaFacts
  <2>2. CASE x # r
    BY <1>1, <1>3, <2>2, ReplicaFacts DEF Known
  <2> QED
    BY <2>1, <2>2
<1> QED
  BY <1>1, <1>4, <1>5, ReplicaKeeps
\* One entry and one fill of a replica go on, each to something that is known.
LEMMA CellKeeps ==
    ASSUME NEW r \in Replicas, NEW d \in Devices, NEW e \in Entries, NEW f \in Fills, DeviceInv,
           UNCHANGED <<doc, announced, put, retired, heard>>,
           \/ UNCHANGED cache
           \/ cache' = [cache EXCEPT ![r][d] = e] /\ (e # NoEntry => Known(r, d, e.writes)),
           \/ UNCHANGED fill
           \/ /\ fill' = [fill EXCEPT ![r][d] = f]
              /\ f.step = "verify" /\ f.current => Known(r, d, f.writes)
    PROVE  DeviceInv'
<1>1. cache' \in [Replicas -> [Devices -> Entries]] /\ fill' \in [Replicas -> [Devices -> Fills]]
  <2>1. cache \in [Replicas -> [Devices -> Entries]] /\ fill \in [Replicas -> [Devices -> Fills]]
    BY ReplicaFacts
  <2>2. cache' \in [Replicas -> [Devices -> Entries]]
    <3>1. CASE UNCHANGED cache
      BY <2>1, <3>1
    <3>2. CASE cache' = [cache EXCEPT ![r][d] = e]
      BY <2>1, <3>2
    <3> QED
      BY <3>1, <3>2
  <2>3. fill' \in [Replicas -> [Devices -> Fills]]
    <3>1. CASE UNCHANGED fill
      BY <2>1, <3>1
    <3>2. CASE fill' = [fill EXCEPT ![r][d] = f]
      BY <2>1, <3>2
    <3> QED
      BY <3>1, <3>2
  <2> QED
    BY <2>2, <2>3
<1>2. /\ \A x \in Replicas, y \in Devices :
            <<x, y>> # <<r, d>> => cache'[x][y] = cache[x][y] /\ fill'[x][y] = fill[x][y]
      /\ cache'[r][d] = cache[r][d] \/ (cache'[r][d] = e /\ (e # NoEntry => Known(r, d, e.writes)))
      /\ \/ fill'[r][d] = fill[r][d]
         \/ fill'[r][d] = f /\ (f.step = "verify" /\ f.current => Known(r, d, f.writes))
  BY ReplicaFacts
<1>3. ASSUME NEW x \in Replicas, NEW y \in Devices
      PROVE  /\ heard'[x][y] <= announced[y]
             /\ cache'[x][y] # NoEntry => (Known(x, y, cache[x][y].writes))'
             /\ fill'[x][y].step = "verify" /\ fill'[x][y].current => (Known(x, y, fill[x][y].writes))'
  <2>1. CASE <<x, y>> = <<r, d>>
    BY SMTT(30), <1>2, <2>1, ReplicaFacts DEF Known
  <2>2. CASE <<x, y>> # <<r, d>>
    BY SMTT(30), <1>2, <2>2, ReplicaFacts DEF Known
  <2> QED
    BY <2>1, <2>2
<1> QED
  BY <1>1, <1>3, ReplicaFacts, ReplicaKeeps

LEMMA CellStays ==
    ASSUME NEW r \in Replicas, NEW d \in Devices, DeviceInv
    PROVE  /\ cache[r][d] \in Entries /\ fill[r][d] \in Fills /\ doc[d] \in Documents
           /\ cache[r][d] # NoEntry => Known(r, d, cache[r][d].writes)
           /\ fill[r][d].step = "verify" /\ fill[r][d].current => Known(r, d, fill[r][d].writes)
BY ReplicaFacts

LEMMA EntryExpiresKeeps ==
    ASSUME NEW r \in Replicas, NEW d \in Devices, DeviceInv, EntryExpires(r, d) PROVE DeviceInv'
<1> DEFINE e == IF cache[r][d].verdict = "assigned" THEN [cache[r][d] EXCEPT !.fresh = FALSE] ELSE NoEntry
<1>1. e \in Entries /\ (e # NoEntry => e.writes = cache[r][d].writes /\ cache[r][d] # NoEntry)
  BY CellStays, RecordTypes DEF Entries, NoEntry
<1>2. cache' = [cache EXCEPT ![r][d] = e] /\ UNCHANGED <<doc, announced, put, retired, heard, fill>>
  BY ReplicaFacts DEF EntryExpires
<1> HIDE DEF e
<1> QED
  BY <1>1, <1>2, CellStays, CellKeeps

LEMMA StartFillKeeps ==
    ASSUME NEW r \in Replicas, NEW d \in Devices, DeviceInv, StartFill(r, d) PROVE DeviceInv'
<1> DEFINE f == [NoFill EXCEPT !.step = "read", !.current = TRUE]
<1>1. f \in Fills /\ f.step = "read"
  BY RecordTypes DEF Fills
<1>2. fill' = [fill EXCEPT ![r][d] = f] /\ UNCHANGED <<doc, announced, put, retired, heard, cache>>
  BY DEF StartFill
<1> HIDE DEF f
<1> QED
  BY <1>1, <1>2, CellStays, CellKeeps

LEMMA ReadDocumentKeeps ==
    ASSUME NEW r \in Replicas, NEW d \in Devices, DeviceInv, ReadDocument(r, d) PROVE DeviceInv'
<1> DEFINE f == IF ~fill[r][d].current THEN NoFill
                ELSE [step |-> "verify", node |-> doc[d].node, rev |-> doc[d].rev,
                      enabled |-> doc[d].enabled, writes |-> doc[d].writes, current |-> TRUE]
<1>1. f \in Fills
  <2>1. doc[d] \in Documents
    BY CellStays
  <2> QED
    BY <2>1, RecordTypes DEF Fills, Documents
<1>2. f.step = "verify" => Known(r, d, f.writes)
  BY RecordTypes DEF Known
<1>3. fill' = [fill EXCEPT ![r][d] = f] /\ UNCHANGED <<doc, announced, put, retired, heard, cache>>
  BY ReplicaFacts DEF ReadDocument
<1> HIDE DEF f
<1> QED
  BY <1>1, <1>2, <1>3, CellStays, CellKeeps

LEMMA PublishVerdictKeeps ==
    ASSUME NEW r \in Replicas, NEW d \in Devices, NEW q \in Reqs, DeviceInv, PublishVerdict(r, d, q)
    PROVE  DeviceInv'
<1>1. fill' = [fill EXCEPT ![r][d] = NoFill] /\ UNCHANGED <<doc, announced, put, retired, heard>>
  BY DEF PublishVerdict
<1>2. fill[r][d].step = "verify"
  BY DEF PublishVerdict
<1>3. CASE UNCHANGED cache
  BY <1>1, <1>3, CellStays, CellKeeps, RecordTypes
<1> DEFINE e == [verdict |-> "assigned", node |-> fill[r][d].node, rev |-> fill[r][d].rev,
                 writes |-> fill[r][d].writes, fresh |-> TRUE]
           g == [NoEntry EXCEPT !.verdict = "refused", !.writes = fill[r][d].writes, !.fresh = TRUE]
<1>4. e \in Entries /\ e.writes = fill[r][d].writes
  <2>1. fill[r][d] \in Fills
    BY CellStays
  <2> QED
    BY <2>1 DEF Entries, Fills
<1>5. g \in Entries /\ g.writes = fill[r][d].writes
  <2>1. fill[r][d].writes \in Nat
    BY CellStays DEF Fills
  <2> QED
    BY <2>1, RecordTypes DEF Entries
<1>6. \/ UNCHANGED cache
      \/ fill[r][d].current /\ cache' = [cache EXCEPT ![r][d] = e]
      \/ fill[r][d].current /\ cache' = [cache EXCEPT ![r][d] = g]
  BY DEF PublishVerdict, StillCurrent
<1> HIDE DEF e, g
<1>7. CASE fill[r][d].current /\ cache' = [cache EXCEPT ![r][d] = e]
  BY ZenonT(60), <1>1, <1>2, <1>4, <1>7, CellStays, CellKeeps, RecordTypes
<1>8. CASE fill[r][d].current /\ cache' = [cache EXCEPT ![r][d] = g]
  BY ZenonT(60), <1>1, <1>2, <1>5, <1>8, CellStays, CellKeeps, RecordTypes
<1> QED
  BY <1>3, <1>6, <1>7, <1>8

LEMMA DeviceStays ==
    ASSUME DeviceInv, UNCHANGED <<doc, announced, heard, cache, fill, put, retired>> PROVE DeviceInv'
BY DEF DeviceInv, RegistryType, CachesFollow, Known, RetirementsOwn, ClearedIsRetired, OneDevicePerNode

LEMMA DeviceNext == DeviceInv /\ [RegistryNext]_registryVars => DeviceInv'
<1> SUFFICES ASSUME DeviceInv, [RegistryNext]_registryVars PROVE DeviceInv'
  OBVIOUS
<1>1. CASE AdminStep
  <2>1. ASSUME NEW p \in Puts, NEW d \in Devices, Disable(p, d) PROVE DeviceInv'
    BY <2>1, DisableKeeps
  <2>2. ASSUME NEW p \in Puts, NEW d \in Devices, NEW n \in Nodes, Assign(p, d, n) PROVE DeviceInv'
    BY <2>2, AssignKeeps
  <2>3. ASSUME NEW p \in Puts, Retire(p) \/ ClearPending(p) \/ PutFails(p) PROVE DeviceInv'
    BY <2>3, RetireKeeps, ClearKeeps, PutFailsKeeps
  <2>4. ASSUME NEW p \in Puts, NEW r \in Replicas, Announce(p, r) PROVE DeviceInv'
    BY <2>4, AnnounceKeeps
  <2> QED
    BY <1>1, <2>1, <2>2, <2>3, <2>4 DEF AdminStep
<1>2. CASE CacheStep
  <2>1. ASSUME NEW r \in Replicas, ListenerFails(r) PROVE DeviceInv'
    BY <2>1, ListenerFailsKeeps
  <2>2. ASSUME NEW r \in Replicas, NEW d \in Devices,
               Deliver(r, d) \/ EntryExpires(r, d) \/ StartFill(r, d) \/ ReadDocument(r, d)
        PROVE  DeviceInv'
    BY <2>2, DeliverKeeps, EntryExpiresKeeps, StartFillKeeps, ReadDocumentKeeps
  <2>3. ASSUME NEW r \in Replicas, NEW d \in Devices, NEW q \in Reqs, PublishVerdict(r, d, q) PROVE DeviceInv'
    BY <2>3, PublishVerdictKeeps
  <2>4. ASSUME NEW r \in Replicas, NEW d \in Devices, NEW q \in Reqs, Hit(r, d, q) PROVE DeviceInv'
    BY <2>4, DeviceStays DEF Hit
  <2> QED
    BY <1>2, <2>1, <2>2, <2>3, <2>4 DEF CacheStep
<1>3. CASE \E n \in Nodes : RideChanges(n)
  BY <1>3, DeviceStays DEF RideChanges
<1>4. CASE \E q \in Reqs : PersistPresence(q)
  BY <1>4, DeviceStays DEF PersistPresence
<1>5. CASE UNCHANGED registryVars
  BY <1>5, DeviceStays DEF registryVars
<1> QED
  BY <1>1, <1>2, <1>3, <1>4, <1>5 DEF RegistryNext

\* The invariant of the registry: documents, announcements, what the replicas
\* heard of them, and the retirements of requests under way fit together.
THEOREM DeviceInvariant == RegistrySpec => []DeviceInv
BY DeviceInit, DeviceNext, PTL DEF RegistrySpec

\* What a credential cache still answers is what the registry says, or the write
\* since has not been announced or heard of (invalidateDeviceCredentialCache()).
THEOREM CacheIsCurrentAlways == RegistrySpec => []CacheIsCurrent
<1>1. DeviceInv => CacheIsCurrent
  BY DEF DeviceInv, CachesFollow, CacheIsCurrent, Known
<1> QED
  BY <1>1, DeviceInvariant, PTL

\* No two trackers are assigned the same bus and route (the conflict of PUT
\* /devices/:id), however requests overlap.
THEOREM OneDevicePerNodeAlways == RegistrySpec => []OneDevicePerNode
<1>1. DeviceInv => OneDevicePerNode
  BY DEF DeviceInv
<1> QED
  BY <1>1, DeviceInvariant, PTL

\* What a step may do to what is pending.
LeftBehind ==
    \A d \in Devices :
        doc[d].pending # NoPending /\ doc'[d].pending # doc[d].pending =>
            [device |-> d, node |-> doc[d].pending.node, rev |-> doc[d].pending.rev] \in retired

LEMMA LeftBehindStep == DeviceInv /\ [RegistryNext]_registryVars => LeftBehind
<1> SUFFICES ASSUME DeviceInv, [RegistryNext]_registryVars PROVE LeftBehind
  OBVIOUS
<1>1. doc \in [Devices -> Documents]
  BY DEF DeviceInv, RegistryType
<1>2. ASSUME NEW p \in Puts, NEW d \in Devices, NEW n \in Nodes, Assign(p, d, n) PROVE LeftBehind
  <2> DEFINE changed == doc[d].node # n
             rev == doc[d].rev + IF changed THEN 1 ELSE 0
             t == IF changed /\ doc[d].node # NoNode THEN [node |-> doc[d].node, rev |-> rev] ELSE doc[d].pending
  <2>1. PICK enabled \in {doc[d].enabled, TRUE, FALSE} :
            doc' = [doc EXCEPT ![d] = [node |-> n, rev |-> rev, enabled |-> enabled,
                                       pending |-> t, writes |-> doc[d].writes + 1]]
    BY <1>1, <1>2 DEF Assign
  <2>2. changed => doc[d].pending = NoPending
    BY <1>2 DEF Assign
  <2>3. doc[d].pending # NoPending => t = doc[d].pending
    BY <2>2
  <2>4. doc'[d].pending = t /\ \A e \in Devices \ {d} : doc'[e] = doc[e]
    BY <1>1, <2>1
  <2> HIDE DEF t
  <2> QED
    BY <2>3, <2>4 DEF LeftBehind
<1>3. ASSUME NEW p \in Puts, NEW d \in Devices, Disable(p, d) PROVE LeftBehind
  <2>1. \A e \in Devices : doc'[e].pending = doc[e].pending
    BY <1>1, <1>3 DEF Disable, Documents
  <2> QED
    BY <2>1 DEF LeftBehind
<1>4. ASSUME NEW p \in Puts, ClearPending(p) PROVE LeftBehind
  <2> DEFINE d == put[p].device
  <2>1. put[p].step = "clear" /\ put[p] # IdlePut /\ d \in Devices
    BY <1>4 DEF ClearPending, IdlePut, DeviceInv, RegistryType
  <2>2. \/ doc' = doc
        \/ /\ doc[d].pending.rev = put[p].retirement.rev
           /\ doc' = [doc EXCEPT ![d] = [doc[d] EXCEPT !.pending = NoPending]]
    BY <1>1, <1>4, <2>1 DEF ClearPending, OwnPending
  <2>3. put[p].retirement # NoPending
        /\ [device |-> d, node |-> put[p].retirement.node, rev |-> put[p].retirement.rev] \in retired
    BY <2>1 DEF DeviceInv, ClearedIsRetired
  <2>4. doc[d].pending # NoPending /\ doc[d].pending.rev = put[p].retirement.rev => doc[d].pending = put[p].retirement
    BY <2>1, <2>3 DEF DeviceInv, RetirementsOwn
  <2>5. \A e \in Devices \ {d} : doc'[e] = doc[e]
    BY <1>1, <2>2
  <2> HIDE DEF d
  <2> QED
    BY <2>2, <2>3, <2>4, <2>5 DEF LeftBehind
<1>5. CASE UNCHANGED doc
  BY <1>5 DEF LeftBehind
<1> QED
  BY ZenonT(60), <1>2, <1>3, <1>4, <1>5 DEF RegistryNext, AdminStep, CacheStep, registryVars, Retire, PutFails, Announce,
     ListenerFails, Deliver, EntryExpires, StartFill, ReadDocument, PublishVerdict, Hit, RideChanges, PersistPresence

\* A reassignment that stops half-way loses no retirement, and a slow request
\* never clears the retirement of a later one (PUT /devices/:id, its last step).
THEOREM LeftBehindIsRetiredAlways == RegistrySpec => LeftBehindIsRetired
<1>1. DeviceInv /\ [RegistryNext]_registryVars =>
         [\A d \in Devices :
            doc[d].pending # NoPending /\ doc'[d].pending # doc[d].pending =>
               [device |-> d, node |-> doc[d].pending.node, rev |-> doc[d].pending.rev] \in retired]_registryVars
  BY LeftBehindStep DEF LeftBehind
<1> QED
  BY <1>1, DeviceInvariant, PTL DEF RegistrySpec, LeftBehindIsRetired
-----------------------------------------------------------------------------
(* The budget. The tokens of a window are numbered in the order in which the   *)
(* bucket gives them out; every request let through has spent one, and every   *)
(* lease holds some, none of them twice.                                       *)

Instants == 0 .. MaxInstant
Buckets == [start : Instants, count : Nat, exists : BOOLEAN]
Leases == [remaining : Nat, until : Nat]

BudgetType ==
    /\ time \in Instants
    /\ mode \in {"local", "distributed"}
    /\ bucket \in Buckets
    /\ lease \in [Limiters -> Leases]
    /\ spent \in [Instants -> Nat]
    /\ overtaken \in BOOLEAN

\* Tokens of the window v that the bucket has given out.
Issued(v) == IF v = bucket.start THEN 1 .. bucket.count ELSE 1 .. Limit

Holds(r, v) == IF lease[r].until = v + Window THEN lease[r].remaining ELSE 0

\* The tokens S are spent and the tokens T[r] are held by each replica r.
Backs(v, S, T) ==
    /\ S \subseteq Issued(v) /\ Cardinality(S) = spent[v]
    /\ \A r \in Limiters :
          /\ T[r] \subseteq Issued(v) \ S
          /\ Cardinality(T[r]) = Holds(r, v)
          /\ \A q \in Limiters \ {r} : T[r] \cap T[q] = {}

Backed(v) == \E S \in SUBSET Nat, T \in [Limiters -> SUBSET Nat] : Backs(v, S, T)

\* Windows that let something through, and the bucket's window after them, do
\* not overlap; a lease is of one of them.
WindowsApart ==
    /\ \A v \in Instants : spent[v] > 0 =>
          /\ bucket.exists
          /\ v = bucket.start \/ v + Window <= bucket.start
    /\ \A v, w \in Instants : v < w /\ spent[v] > 0 /\ spent[w] > 0 => v + Window <= w

LeaseOfWindow ==
    \A r \in Limiters :
        lease[r].until # 0 => \E v \in Instants : lease[r].until = v + Window /\ spent[v] > 0

SharedBudget == bucket.count <= Limit /\ LeaseOfWindow /\ \A v \in Instants : Backed(v)

LocalBudget ==
    /\ \A v \in Instants : spent[v] <= Limit
    /\ spent[bucket.start] <= bucket.count

BudgetInv ==
    /\ BudgetType
    /\ ~overtaken => WindowsApart /\ (mode = "distributed" => SharedBudget) /\ (mode = "local" => LocalBudget)

LEMMA Tokens ==
    ASSUME NEW n \in Nat, NEW S \in SUBSET (1 .. n)
    PROVE  IsFiniteSet(S) /\ Cardinality(S) \in Nat /\ Cardinality(S) <= n
<1>1. IsFiniteSet(1 .. n) /\ Cardinality(1 .. n) = n
  BY FS_Interval
<1>2. IsFiniteSet(S) /\ Cardinality(S) <= Cardinality(1 .. n)
  BY <1>1, FS_Subset
<1> QED
  BY <1>1, <1>2, FS_CardinalityType

LEMMA IssuedTokens ==
    ASSUME NEW v \in Instants, BudgetType, bucket.count <= Limit
    PROVE  Issued(v) \subseteq 1 .. Limit
BY BudgetAssumption DEF Issued, BudgetType, Buckets

LEMMA BudgetStart == BudgetInit => BudgetInv
<1> SUFFICES ASSUME BudgetInit PROVE BudgetInv
  OBVIOUS
<1>1. BudgetType
  <2>1. 0 \in Instants /\ 0 \in Nat
    BY BudgetAssumption DEF Instants
  <2>2. NoBucket \in Buckets /\ NoLease \in Leases
    BY <2>1 DEF Buckets, Leases, NoBucket, NoLease
  <2> QED
    BY <2>1, <2>2 DEF BudgetInit, BudgetType, Instants
<1>2. WindowsApart /\ LocalBudget /\ LeaseOfWindow /\ bucket.count <= Limit
  BY BudgetAssumption DEF BudgetInit, WindowsApart, LocalBudget, LeaseOfWindow, NoBucket, NoLease, Instants
<1>3. ASSUME NEW v \in Instants PROVE Backed(v)
  <2> DEFINE T == [r \in Limiters |-> {}]
  <2>1. T \in [Limiters -> SUBSET Nat] /\ \A r \in Limiters : T[r] = {}
    OBVIOUS
  <2>2. spent[v] = 0 /\ \A r \in Limiters : Holds(r, v) = 0
    BY DEF BudgetInit, NoLease, Holds, Instants
  <2> HIDE DEF T
  <2>3. Backs(v, {}, T)
    BY <2>1, <2>2, FS_EmptySet DEF Backs
  <2> QED
    BY <2>1, <2>3 DEF Backed
<1> QED
  BY <1>1, <1>2, <1>3 DEF BudgetInv, SharedBudget

\* A lease pays: one of its tokens is spent.
LEMMA LeasePays ==
    ASSUME NEW r \in Limiters, NEW at \in Nat, BudgetInv, ~overtaken, mode = "distributed",
           lease[r].until > at, lease[r].remaining > 0,
           lease' = [lease EXCEPT ![r].remaining = @ - 1],
           spent' = [spent EXCEPT ![lease[r].until - Window] = @ + 1],
           UNCHANGED <<time, mode, bucket, overtaken>>
    PROVE  BudgetInv'
<1>1. BudgetType /\ WindowsApart /\ SharedBudget
  BY DEF BudgetInv
<1>2. lease[r] \in Leases /\ lease[r].remaining \in Nat /\ lease[r].until \in Nat /\ Window \in Nat \ {0}
  BY <1>1, BudgetAssumption DEF BudgetType, Leases
<1>3. PICK w \in Instants : lease[r].until = w + Window /\ spent[w] > 0
  BY <1>1, <1>2 DEF SharedBudget, LeaseOfWindow
<1>4. w \in Nat /\ lease[r].until - Window = w
  BY <1>2, <1>3, BudgetAssumption DEF Instants
<1>5. spent' = [spent EXCEPT ![w] = spent[w] + 1] /\ spent \in [Instants -> Nat]
  BY <1>1, <1>3, <1>4 DEF BudgetType
<1>6. spent'[w] = spent[w] + 1 /\ \A v \in Instants \ {w} : spent'[v] = spent[v]
  BY <1>5
<1> DEFINE n == lease[r].remaining - 1
<1>7. n \in Nat /\ n + 1 = lease[r].remaining
  BY <1>2
<1>8. lease' = [lease EXCEPT ![r] = [lease[r] EXCEPT !.remaining = n]]
  BY <1>1 DEF BudgetType
<1> HIDE DEF n
<1>9. lease'[r].remaining = n /\ lease'[r].until = lease[r].until /\ \A q \in Limiters \ {r} : lease'[q] = lease[q]
  BY <1>1, <1>2, <1>8 DEF BudgetType, Leases
<1>10. BudgetType'
  <2>1. spent' \in [Instants -> Nat]
    BY <1>3, <1>5
  <2>2. [lease[r] EXCEPT !.remaining = n] \in Leases
    BY <1>2, <1>7 DEF Leases
  <2>3. lease' \in [Limiters -> Leases]
    BY <1>1, <1>8, <2>2 DEF BudgetType
  <2> QED
    BY <1>1, <2>1, <2>3 DEF BudgetType
<1>11. \A v \in Instants : spent[v] \in Nat /\ (spent'[v] > 0 <=> spent[v] > 0)
  BY <1>3, <1>5, <1>6
<1>12. WindowsApart'
  BY <1>1, <1>11 DEF WindowsApart
<1>13. LeaseOfWindow'
  <2>1. \A q \in Limiters : lease'[q].until = lease[q].until
    BY <1>9
  <2> QED
    BY <1>1, <1>11, <2>1 DEF SharedBudget, LeaseOfWindow
<1>14. ASSUME NEW v \in Instants PROVE Backed(v)'
  <2>1. PICK S \in SUBSET Nat, T \in [Limiters -> SUBSET Nat] : Backs(v, S, T)
    BY <1>1 DEF SharedBudget, Backed
  <2>2. Issued(v)' = Issued(v) /\ Issued(v) \subseteq 1 .. Limit
    BY <1>1, IssuedTokens DEF Issued, SharedBudget
  <2>3. CASE v # w
    <3>1. \A q \in Limiters : Holds(q, v)' = Holds(q, v)
      BY <1>2, <1>3, <1>9, <2>3, BudgetAssumption DEF Holds, Instants
    <3>2. spent'[v] = spent[v]
      BY <1>6, <2>3
    <3>3. (Backs(v, S, T))'
      BY <2>1, <2>2, <3>1, <3>2 DEF Backs
    <3> QED
      BY <3>3 DEF Backed
  <2>4. CASE v = w
    <3>1. Cardinality(T[r]) = lease[r].remaining /\ T[r] \subseteq Issued(v) \ S
      BY <1>3, <2>1, <2>4 DEF Backs, Holds
    <3>2. T[r] # {}
      <4>1. Cardinality({}) = 0
        BY FS_EmptySet
      <4>2. Cardinality(T[r]) # 0
        BY <1>2, <3>1
      <4> QED
        BY <4>1, <4>2
    <3>3. PICK x \in T[r] : TRUE
      BY <3>2
    <3>4. IsFiniteSet(S) /\ IsFiniteSet(T[r])
      BY <2>1, <2>2, <3>1, BudgetAssumption, Tokens DEF Backs
    <3>5. Cardinality(S \cup {x}) = spent[w] + 1
      BY <2>1, <2>4, <3>1, <3>3, <3>4, FS_AddElement DEF Backs
    <3>6. Cardinality(T[r] \ {x}) = n
      <4>1. Cardinality(T[r] \ {x}) = Cardinality(T[r]) - 1
        BY <3>3, <3>4, FS_RemoveElement
      <4> QED
        BY <1>7, <3>1, <4>1
    <3> DEFINE U == [T EXCEPT ![r] = T[r] \ {x}]
    <3>7. U \in [Limiters -> SUBSET Nat] /\ U[r] = T[r] \ {x} /\ \A q \in Limiters \ {r} : U[q] = T[q]
      BY <2>1
    <3> HIDE DEF U
    <3>8. Holds(r, v)' = n
      BY <1>3, <1>9, <2>4 DEF Holds
    <3>9. \A q \in Limiters \ {r} : Holds(q, v)' = Holds(q, v)
      BY <1>9 DEF Holds
    <3>10. x \in Issued(v) /\ x \in Nat
      BY <2>1, <3>1, <3>3
    <3>11. (Backs(v, S \cup {x}, U))'
      <4>1. (S \cup {x}) \subseteq Issued(v) /\ Cardinality(S \cup {x}) = spent'[v]
        BY <1>6, <2>1, <2>4, <3>5, <3>10 DEF Backs
      <4>2. ASSUME NEW q \in Limiters
            PROVE  /\ U[q] \subseteq Issued(v) \ (S \cup {x})
                   /\ Cardinality(U[q]) = Holds(q, v)'
                   /\ \A z \in Limiters \ {q} : U[q] \cap U[z] = {}
        <5>1. CASE q = r
          BY <2>1, <3>1, <3>6, <3>7, <3>8, <5>1 DEF Backs
        <5>2. CASE q # r
          <6>1. x \notin T[q]
            BY <2>1, <3>3, <5>2 DEF Backs
          <6> QED
            BY <2>1, <3>7, <3>9, <5>2, <6>1 DEF Backs
        <5> QED
          BY <5>1, <5>2
      <4> QED
        BY <2>2, <4>1, <4>2 DEF Backs
    <3>12. S \cup {x} \in SUBSET Nat
      BY <2>1, <3>10
    <3> QED
      BY <3>7, <3>11, <3>12 DEF Backed
  <2> QED
    BY <2>3, <2>4
<1>15. bucket'.count <= Limit
  BY <1>1 DEF SharedBudget
<1> QED
  BY <1>10, <1>12, <1>13, <1>14, <1>15 DEF BudgetInv, SharedBudget
\* The bucket a request finds or opens.
LEMMA OpenBucket ==
    ASSUME NEW at \in Instants, BudgetType
    PROVE  /\ Open(at) \in Buckets
           /\ Open(at).exists
           /\ \/ Open(at) = bucket /\ bucket.exists
              \/ /\ Open(at).start = at /\ Open(at).count = 0
                 /\ bucket.exists => bucket.start > at \/ at >= bucket.start + Window
<1>1. bucket \in Buckets /\ bucket.start \in Nat /\ at \in Nat /\ Window \in Nat
  BY BudgetAssumption DEF BudgetType, Buckets, Instants
<1>2. CASE bucket.exists /\ bucket.start <= at /\ at - bucket.start < Window
  BY <1>1, <1>2 DEF Open
<1>3. CASE ~(bucket.exists /\ bucket.start <= at /\ at - bucket.start < Window)
  <2>1. Open(at) = [start |-> at, count |-> 0, exists |-> TRUE]
    BY <1>3 DEF Open
  <2>2. ~bucket.exists \/ bucket.start > at \/ at >= bucket.start + Window
    BY <1>1, <1>3
  <2> QED
    BY <2>1, <2>2 DEF Buckets
<1> QED
  BY <1>2, <1>3

\* Behind no window, the bucket found or opened is the last one or begins after
\* it: what it has given out is what is spent and held of its window.
LEMMA OpenBacked ==
    ASSUME NEW at \in Instants, BudgetType, WindowsApart, ~(bucket.exists /\ bucket.start > at)
    PROVE  /\ \A v \in Instants : spent[v] > 0 => v = Open(at).start \/ v + Window <= Open(at).start
           /\ SharedBudget =>
                 /\ Open(at).count <= Limit
                 /\ \E S \in SUBSET Nat, T \in [Limiters -> SUBSET Nat] :
                       /\ Backs(Open(at).start, S, T)
                       /\ S \subseteq 1 .. Open(at).count
                       /\ \A r \in Limiters : T[r] \subseteq 1 .. Open(at).count
<1> DEFINE b == Open(at)
<1>1. /\ b \in Buckets /\ b.start \in Instants /\ b.start \in Nat /\ bucket.start \in Nat
      /\ Window \in Nat \ {0} /\ Limit \in Nat
  <2>1. b \in Buckets /\ bucket \in Buckets
    BY OpenBucket DEF BudgetType
  <2>2. b.start \in Instants /\ bucket.start \in Instants
    BY <2>1 DEF Buckets
  <2> HIDE DEF b
  <2> QED
    BY <2>1, <2>2, BudgetAssumption DEF Instants
<1>2. CASE b = bucket
  <2>1. \A v \in Instants : spent[v] > 0 => v = b.start \/ v + Window <= b.start
    BY <1>2 DEF WindowsApart
  <2>2. ASSUME SharedBudget
        PROVE  /\ b.count <= Limit
               /\ \E S \in SUBSET Nat, T \in [Limiters -> SUBSET Nat] :
                     /\ Backs(b.start, S, T)
                     /\ S \subseteq 1 .. b.count
                     /\ \A r \in Limiters : T[r] \subseteq 1 .. b.count
    <3>1. PICK S \in SUBSET Nat, T \in [Limiters -> SUBSET Nat] : Backs(b.start, S, T)
      BY <1>1, <2>2 DEF SharedBudget, Backed
    <3>2. Issued(b.start) = 1 .. b.count
      BY <1>2 DEF Issued
    <3>3. S \subseteq 1 .. b.count /\ \A r \in Limiters : T[r] \subseteq 1 .. b.count
      BY <3>1, <3>2 DEF Backs
    <3>4. b.count <= Limit
      BY <1>2, <2>2 DEF SharedBudget
    <3> HIDE DEF b
    <3> QED
      BY <3>1, <3>3, <3>4
  <2> QED
    BY <2>1, <2>2
<1>3. CASE b # bucket
  <2>1. b.start = at /\ b.count = 0 /\ (bucket.exists => at >= bucket.start + Window)
    <3>1. at \in Nat
      BY BudgetAssumption DEF Instants
    <3> QED
      BY <1>1, <1>3, <3>1, OpenBucket
  <2>2. \A v \in Instants : spent[v] > 0 => v + Window <= b.start
    <3>1. \A v \in Instants : v \in Nat
      BY DEF Instants
    <3> QED
      BY <1>1, <2>1, <3>1 DEF WindowsApart
  <2>3. spent[b.start] = 0
    BY <1>1, <2>2 DEF BudgetType
  <2>4. ASSUME SharedBudget
        PROVE  /\ b.count <= Limit
               /\ \E S \in SUBSET Nat, T \in [Limiters -> SUBSET Nat] :
                     /\ Backs(b.start, S, T)
                     /\ S \subseteq 1 .. b.count
                     /\ \A r \in Limiters : T[r] \subseteq 1 .. b.count
    <3>1. PICK S \in SUBSET Nat, T \in [Limiters -> SUBSET Nat] : Backs(b.start, S, T)
      BY <1>1, <2>4 DEF SharedBudget, Backed
    <3>2. Issued(b.start) \subseteq 1 .. Limit
      BY <1>1, <2>4, IssuedTokens DEF SharedBudget
    <3>3. S = {}
      <4>1. IsFiniteSet(S) /\ Cardinality(S) = 0
        BY <1>1, <2>3, <3>1, <3>2, Tokens DEF Backs
      <4> QED
        BY <4>1, FS_EmptySet
    <3>4. ASSUME NEW r \in Limiters PROVE T[r] = {}
      <4>1. Holds(r, b.start) = 0
        <5>1. lease[r].until # b.start + Window
          <6>1. SUFFICES ASSUME lease[r].until = b.start + Window PROVE FALSE
            OBVIOUS
          <6>2. PICK v \in Instants : lease[r].until = v + Window /\ spent[v] > 0
            BY <1>1, <2>4, <6>1 DEF SharedBudget, LeaseOfWindow
          <6>3. v \in Nat
            BY DEF Instants
          <6> QED
            BY <1>1, <2>2, <6>1, <6>2, <6>3
        <5> QED
          BY <5>1 DEF Holds
      <4>2. T[r] \subseteq 1 .. Limit /\ Cardinality(T[r]) = 0
        BY <3>1, <3>2, <4>1 DEF Backs
      <4>3. IsFiniteSet(T[r])
        BY <1>1, <4>2, Tokens
      <4> QED
        BY <4>2, <4>3, FS_EmptySet
    <3>5. b.count <= Limit
      BY <1>1, <2>1
    <3> HIDE DEF b
    <3> QED
      BY <3>1, <3>3, <3>4, <3>5
  <2>5. \A v \in Instants : spent[v] > 0 => v = b.start \/ v + Window <= b.start
    BY <2>2
  <2> QED
    BY <2>4, <2>5
<1> QED
  BY <1>2, <1>3

\* Windows stay apart when a request spends from the bucket it found or opened.
LEMMA ApartStays ==
    ASSUME NEW at \in Instants, NEW n \in Nat, BudgetType, WindowsApart, ~(bucket.exists /\ bucket.start > at),
           bucket'.start = Open(at).start, bucket'.exists,
           spent' = [spent EXCEPT ![Open(at).start] = n] \/ spent' = spent
    PROVE  WindowsApart'
<1> DEFINE u == Open(at).start
<1>1. u \in Instants /\ spent \in [Instants -> Nat] /\ Window \in Nat \ {0}
  BY OpenBucket, BudgetAssumption DEF BudgetType, Buckets
<1>2. \A v \in Instants : spent[v] > 0 => v = u \/ v + Window <= u
  BY OpenBacked
<1> HIDE DEF u
<1>3. \A v \in Instants : v # u => spent'[v] = spent[v]
  BY <1>1 DEF u
<1>4. \A v \in Instants : spent'[v] > 0 => v = u \/ v + Window <= u
  BY <1>2, <1>3
<1>5. \A v, w \in Instants : v < w /\ spent'[v] > 0 /\ spent'[w] > 0 => v + Window <= w
  <2> SUFFICES ASSUME NEW v \in Instants, NEW w \in Instants, v < w, spent'[v] > 0, spent'[w] > 0
               PROVE  v + Window <= w
    OBVIOUS
  <2>1. v \in Nat /\ w \in Nat /\ u \in Nat
    BY <1>1 DEF Instants
  <2>2. CASE v = u
    BY <1>1, <1>4, <2>1, <2>2
  <2>3. CASE v # u /\ w = u
    BY <1>4, <2>3
  <2>4. CASE v # u /\ w # u
    BY <1>3, <2>4 DEF WindowsApart
  <2> QED
    BY <2>2, <2>3, <2>4
<1> QED
  BY <1>4, <1>5 DEF WindowsApart, u
\* A lease is reserved: the bucket gives out g tokens, of which one is spent.
LEMMA ReserveKeeps ==
    ASSUME NEW r \in Limiters, NEW at \in Instants, NEW g \in Nat \ {0},
           BudgetInv, ~overtaken, ~(bucket.exists /\ bucket.start > at), mode = "distributed",
           Open(at).count + g <= Limit,
           bucket' = [Open(at) EXCEPT !.count = Open(at).count + g],
           lease' = [lease EXCEPT ![r] = [remaining |-> g - 1, until |-> Open(at).start + Window]],
           spent' = [spent EXCEPT ![Open(at).start] = spent[Open(at).start] + 1],
           BudgetType'
    PROVE  WindowsApart' /\ SharedBudget'
<1>0. PICK u, c : u = Open(at).start /\ c = Open(at).count
  OBVIOUS
<1>1. BudgetType /\ WindowsApart /\ SharedBudget
  BY DEF BudgetInv
<1>2. /\ Open(at) \in Buckets /\ Open(at).exists
      /\ u \in Instants /\ u \in Nat /\ c \in Nat /\ Window \in Nat \ {0} /\ Limit \in Nat
  <2>1. Open(at) \in Buckets /\ Open(at).exists
    BY <1>1, OpenBucket
  <2> QED
    BY <1>0, <2>1, BudgetAssumption DEF Buckets, Instants
<1>3. bucket'.start = u /\ bucket'.count = c + g /\ bucket'.exists
  BY <1>0, <1>2 DEF Buckets
<1>4. \A v \in Instants : spent[v] > 0 => v = u \/ v + Window <= u
  BY <1>0, <1>1, OpenBacked
<1>5. PICK S \in SUBSET Nat, T \in [Limiters -> SUBSET Nat] :
          /\ Backs(u, S, T) /\ S \subseteq 1 .. c
          /\ \A q \in Limiters : T[q] \subseteq 1 .. c
  BY <1>0, <1>1, OpenBacked
<1>6. \A v \in Instants : v # u => Issued(v) \subseteq Issued(v)'
  <2> SUFFICES ASSUME NEW v \in Instants, v # u PROVE Issued(v) \subseteq Issued(v)'
    OBVIOUS
  <2>1. Issued(v)' = 1 .. Limit
    BY <1>3 DEF Issued
  <2> QED
    BY <1>1, <2>1, IssuedTokens DEF SharedBudget
<1>7. spent[u] \in Nat /\ spent \in [Instants -> Nat]
  BY <1>1, <1>2 DEF BudgetType
<1>8. WindowsApart'
  <2>1. spent[u] + 1 \in Nat
    BY <1>7
  <2> QED
    BY <1>0, <1>1, <1>3, <2>1, ApartStays
<1> DEFINE n == g - 1
<1>9. /\ lease' = [lease EXCEPT ![r] = [remaining |-> n, until |-> u + Window]]
      /\ spent' = [spent EXCEPT ![u] = spent[u] + 1] /\ n \in Nat /\ n + 1 = g /\ c + g <= Limit /\ g \in Nat
  BY <1>0
<1> HIDE DEF n
<1>10. /\ spent'[u] = spent[u] + 1 /\ \A v \in Instants : v # u => spent'[v] = spent[v]
  BY <1>2, <1>7, <1>9
<1>11. /\ lease'[r].remaining = n /\ lease'[r].until = u + Window
       /\ \A q \in Limiters \ {r} : lease'[q] = lease[q]
  BY <1>1, <1>9 DEF BudgetType
<1>12. LeaseOfWindow'
  <2> SUFFICES ASSUME NEW q \in Limiters, lease'[q].until # 0
               PROVE  \E v \in Instants : lease'[q].until = v + Window /\ spent'[v] > 0
    BY DEF LeaseOfWindow
  <2>1. CASE q = r
    BY <1>2, <1>7, <1>10, <1>11, <2>1
  <2>2. CASE q # r
    <3>1. PICK v \in Instants : lease[q].until = v + Window /\ spent[v] > 0
      BY <1>1, <1>11, <2>2 DEF SharedBudget, LeaseOfWindow
    <3>2. spent'[v] > 0
      BY <1>7, <1>10, <3>1
    <3> QED
      BY <1>11, <2>2, <3>1, <3>2
  <2> QED
    BY <2>1, <2>2
<1>13. ASSUME NEW v \in Instants, v # u PROVE Backed(v)'
  <2>1. PICK R \in SUBSET Nat, U \in [Limiters -> SUBSET Nat] : Backs(v, R, U)
    BY <1>1 DEF SharedBudget, Backed
  <2> DEFINE W == [U EXCEPT ![r] = {}]
  <2>2. W \in [Limiters -> SUBSET Nat] /\ W[r] = {} /\ \A q \in Limiters \ {r} : W[q] = U[q]
    BY <2>1
  <2> HIDE DEF W
  <2>3. Holds(r, v)' = 0
    <3>1. v \in Nat
      BY DEF Instants
    <3>2. lease'[r].until # v + Window
      BY <1>2, <1>11, <1>13, <3>1
    <3> QED
      BY <3>2 DEF Holds
  <2>4. \A q \in Limiters \ {r} : Holds(q, v)' = Holds(q, v)
    BY <1>11 DEF Holds
  <2>5. (Backs(v, R, W))'
    <3>1. R \subseteq Issued(v)' /\ Cardinality(R) = spent'[v]
      BY <1>6, <1>10, <1>13, <2>1 DEF Backs
    <3>2. ASSUME NEW q \in Limiters
          PROVE  /\ W[q] \subseteq Issued(v)' \ R
                 /\ Cardinality(W[q]) = Holds(q, v)'
                 /\ \A z \in Limiters \ {q} : W[q] \cap W[z] = {}
      <4>1. CASE q = r
        BY <2>2, <2>3, <4>1, FS_EmptySet
      <4>2. CASE q # r
        BY <1>6, <1>13, <2>1, <2>2, <2>4, <4>2 DEF Backs
      <4> QED
        BY <4>1, <4>2
    <3> QED
      BY <3>1, <3>2 DEF Backs
  <2> QED
    BY <2>2, <2>5 DEF Backed
<1>14. Backed(u)'
  <2> DEFINE new == (c + 2) .. (c + g)
             W == [T EXCEPT ![r] = new]
             R == S \cup {c + 1}
  <2>1. Issued(u)' = 1 .. c + g
    BY <1>3 DEF Issued
  <2>2. IsFiniteSet(new) /\ Cardinality(new) = n
    <3>1. c + 2 \in Int /\ c + g \in Int /\ (IF c + 2 > c + g THEN 0 ELSE (c + g) - (c + 2) + 1) = n
      BY <1>2, <1>9
    <3> QED
      BY <3>1, FS_Interval
  <2>3. new \subseteq 1 .. c + g /\ c + 1 \notin new /\ new \cap (1 .. c) = {} /\ 1 .. c \subseteq 1 .. c + g
        /\ new \in SUBSET Nat /\ c + 1 \in 1 .. c + g /\ c + 1 \notin 1 .. c
    BY <1>2, <1>9
  <2> HIDE DEF new
  <2>4. W \in [Limiters -> SUBSET Nat] /\ W[r] = new /\ \A q \in Limiters \ {r} : W[q] = T[q]
    BY <1>5, <2>3
  <2> HIDE DEF W
  <2>5. Cardinality(R) = spent'[u] /\ R \in SUBSET Nat /\ R \subseteq 1 .. c + g
    <3>1. IsFiniteSet(S) /\ Cardinality(S) = spent[u]
      BY <1>2, <1>5, Tokens DEF Backs
    <3>2. Cardinality(S \cup {c + 1}) = Cardinality(S) + 1
      BY ZenonT(60), <1>5, <2>3, <3>1, FS_AddElement
    <3> QED
      BY <1>5, <1>10, <2>3, <3>1, <3>2
  <2>6. ASSUME NEW q \in Limiters
        PROVE  /\ W[q] \subseteq (1 .. c + g) \ R
               /\ Cardinality(W[q]) = Holds(q, u)'
               /\ \A z \in Limiters \ {q} : W[q] \cap W[z] = {}
    <3>1. CASE q = r
      <4>1. Holds(q, u)' = n
        BY <1>11, <3>1 DEF Holds
      <4> QED
        BY <1>5, <2>2, <2>3, <2>4, <3>1, <4>1
    <3>2. CASE q # r
      <4>1. Holds(q, u)' = Holds(q, u)
        BY <1>11, <3>2 DEF Holds
      <4>2. Cardinality(W[q]) = Holds(q, u)' /\ T[q] \cap S = {} /\ W[q] = T[q]
        BY <1>5, <2>4, <3>2, <4>1 DEF Backs
      <4>3. ASSUME NEW z \in Limiters \ {q} PROVE W[q] \cap W[z] = {}
        <5>1. CASE z = r
          BY <1>5, <2>3, <2>4, <4>2, <5>1
        <5>2. CASE z # r
          BY <1>5, <2>4, <4>2, <5>2 DEF Backs
        <5> QED
          BY <5>1, <5>2
      <4>4. W[q] \subseteq 1 .. c
        BY <1>5, <4>2
      <4> QED
        BY <2>3, <4>2, <4>3, <4>4
    <3> QED
      BY <3>1, <3>2
  <2> HIDE DEF R
  <2>7. (Backs(u, R, W))'
    BY <2>1, <2>5, <2>6 DEF Backs
  <2> QED
    BY <2>4, <2>5, <2>7 DEF Backed
<1>15. bucket'.count <= Limit
  BY <1>3, <1>9
<1> QED
  BY <1>8, <1>12, <1>13, <1>14, <1>15 DEF SharedBudget

\* A lease is gone: its tokens are nobody's.
LEMMA LeaseLost ==
    ASSUME NEW r \in Limiters, BudgetType, SharedBudget,
           lease' = [lease EXCEPT ![r] = NoLease], UNCHANGED <<bucket, spent>>
    PROVE  SharedBudget'
<1>1. lease'[r] = NoLease /\ \A q \in Limiters \ {r} : lease'[q] = lease[q]
  BY DEF BudgetType
<1>2. LeaseOfWindow'
  <2>1. \A q \in Limiters : lease'[q].until = 0 \/ lease'[q] = lease[q]
    BY <1>1 DEF NoLease
  <2> QED
    BY <2>1 DEF SharedBudget, LeaseOfWindow
<1>3. ASSUME NEW v \in Instants PROVE Backed(v)'
  <2>1. PICK R \in SUBSET Nat, U \in [Limiters -> SUBSET Nat] : Backs(v, R, U)
    BY DEF SharedBudget, Backed
  <2> DEFINE W == [U EXCEPT ![r] = {}]
  <2>2. W \in [Limiters -> SUBSET Nat] /\ W[r] = {} /\ \A q \in Limiters \ {r} : W[q] = U[q]
    BY <2>1
  <2> HIDE DEF W
  <2>3. Holds(r, v)' = 0 /\ \A q \in Limiters \ {r} : Holds(q, v)' = Holds(q, v)
    BY <1>1 DEF Holds, NoLease
  <2>4. Issued(v)' = Issued(v)
    BY DEF Issued
  <2>5. ASSUME NEW q \in Limiters
        PROVE  /\ W[q] \subseteq Issued(v) \ R
               /\ Cardinality(W[q]) = Holds(q, v)'
               /\ \A z \in Limiters \ {q} : W[q] \cap W[z] = {}
    <3>1. CASE q = r
      BY <2>2, <2>3, <3>1, FS_EmptySet
    <3>2. CASE q # r
      BY <2>1, <2>2, <2>3, <3>2 DEF Backs
    <3> QED
      BY <3>1, <3>2
  <2>6. (Backs(v, R, W))'
    BY <2>1, <2>4, <2>5 DEF Backs
  <2> QED
    BY <2>2, <2>6 DEF Backed
<1> QED
  BY <1>2, <1>3 DEF SharedBudget
LEMMA ConsumeSharedKeeps ==
    ASSUME NEW r \in Limiters, NEW at \in Instants, BudgetInv, ConsumeShared(r, at)
    PROVE  BudgetInv'
<1>1. BudgetType /\ mode = "distributed" /\ UNCHANGED <<time, mode>>
  BY DEF BudgetInv, ConsumeShared
<1>2. lease[r] \in Leases /\ lease[r].remaining \in Nat /\ lease[r].until \in Nat /\ at \in Nat /\ Window \in Nat
  <2>1. lease[r] \in Leases
    BY <1>1 DEF BudgetType
  <2> QED
    BY <2>1, BudgetAssumption DEF Leases, Instants
<1>3. CASE /\ lease[r].until > at /\ lease[r].remaining > 0
           /\ lease' = [lease EXCEPT ![r].remaining = @ - 1]
           /\ spent' = [spent EXCEPT ![lease[r].until - Window] = @ + 1]
           /\ UNCHANGED <<bucket, overtaken>>
  <2>1. CASE overtaken
    <3> DEFINE n == lease[r].remaining - 1
    <3>1. n \in Nat
      BY <1>2, <1>3
    <3>2. lease' = [lease EXCEPT ![r] = [lease[r] EXCEPT !.remaining = n]]
      BY <1>1, <1>3 DEF BudgetType
    <3> HIDE DEF n
    <3>3. [lease[r] EXCEPT !.remaining = n] \in Leases
      BY <1>2, <3>1 DEF Leases
    <3>4. lease' \in [Limiters -> Leases]
      BY <1>1, <3>2, <3>3 DEF BudgetType
    <3>5. spent' \in [Instants -> Nat]
      <4>1. spent \in [Instants -> Nat]
        BY <1>1 DEF BudgetType
      <4>2. \A x \in Instants : spent[x] + 1 \in Nat
        BY <4>1
      <4> QED
        BY <1>3, <4>1, <4>2
    <3>6. BudgetType'
      BY <1>1, <1>3, <3>4, <3>5 DEF BudgetType
    <3> QED
      BY <1>3, <2>1, <3>6 DEF BudgetInv
  <2>2. CASE ~overtaken
    BY <1>1, <1>2, <1>3, <2>2, LeasePays
  <2> QED
    BY <2>1, <2>2
<1>4. CASE /\ Overtaken(at)
           /\ Granted(Open(at)) <= 0
           /\ lease' = [lease EXCEPT ![r] = NoLease]
           /\ UNCHANGED <<bucket, spent>>
  <2>1. NoLease \in Leases
    BY DEF NoLease, Leases
  <2>2. BudgetType'
    BY <1>1, <1>4, <2>1 DEF BudgetType, Overtaken
  <2>3. ~overtaken' => ~overtaken
    BY <1>4 DEF Overtaken
  <2>4. ASSUME ~overtaken' PROVE WindowsApart' /\ SharedBudget'
    BY <1>1, <1>4, <2>3, <2>4, LeaseLost DEF BudgetInv, WindowsApart
  <2> QED
    BY <1>1, <2>2, <2>4 DEF BudgetInv
<1>5. CASE /\ Overtaken(at)
           /\ Granted(Open(at)) > 0
           /\ bucket' = [Open(at) EXCEPT !.count = @ + Granted(Open(at))]
           /\ lease' = [lease EXCEPT ![r] = [remaining |-> Granted(Open(at)) - 1, until |-> Open(at).start + Window]]
           /\ spent' = [spent EXCEPT ![Open(at).start] = @ + 1]
  <2>1. Open(at) \in Buckets
    BY <1>1, OpenBucket
  <2>2. PICK g, c, u : g = Granted(Open(at)) /\ c = Open(at).count /\ u = Open(at).start
    OBVIOUS
  <2>3. c \in Nat /\ u \in Instants /\ u \in Nat
    BY <2>1, <2>2, BudgetAssumption DEF Buckets, Instants
  <2>4. g \in Nat \ {0} /\ c + g <= Limit
    <3>1. g = (IF Limit - c < LeaseSize THEN Limit - c ELSE LeaseSize) /\ g > 0
      BY <1>5, <2>2 DEF Granted
    <3> QED
      BY <2>3, <3>1, BudgetAssumption
  <2>5. bucket' = [Open(at) EXCEPT !.count = c + g]
    BY <1>5, <2>1, <2>2 DEF Buckets
  <2>6. spent' = [spent EXCEPT ![u] = spent[u] + 1] /\ spent \in [Instants -> Nat]
    BY <1>1, <1>5, <2>2, <2>3 DEF BudgetType
  <2>7. lease' = [lease EXCEPT ![r] = [remaining |-> g - 1, until |-> u + Window]]
    BY <1>5, <2>2
  <2>8. BudgetType'
    <3>1. c + g \in Nat /\ g - 1 \in Nat /\ u + Window \in Nat /\ spent[u] + 1 \in Nat
      BY <1>2, <2>3, <2>4, <2>6
    <3>2. bucket' \in Buckets
      <4>1. \A m \in Nat : [Open(at) EXCEPT !.count = m] \in Buckets
        BY <2>1 DEF Buckets
      <4> QED
        BY <2>5, <3>1, <4>1
    <3>3. lease' \in [Limiters -> Leases]
      <4>1. [remaining |-> g - 1, until |-> u + Window] \in Leases
        BY <3>1 DEF Leases
      <4> QED
        BY <1>1, <2>7, <4>1 DEF BudgetType
    <3>4. spent' \in [Instants -> Nat]
      BY <2>6, <3>1
    <3> QED
      BY <1>1, <1>5, <3>2, <3>3, <3>4 DEF BudgetType, Overtaken
  <2>9. ASSUME ~overtaken' PROVE WindowsApart' /\ SharedBudget'
    <3>1. ~overtaken /\ ~(bucket.exists /\ bucket.start > at)
      BY <1>5, <2>9 DEF Overtaken
    <3> QED
      BY <1>1, <2>2, <2>4, <2>5, <2>6, <2>7, <2>8, <3>1, ReserveKeeps
  <2> QED
    BY <1>1, <2>8, <2>9 DEF BudgetInv
<1> QED
  BY <1>3, <1>4, <1>5 DEF ConsumeShared

LEMMA ConsumeLocalKeeps ==
    ASSUME NEW at \in Instants, BudgetInv, ConsumeLocal(at)
    PROVE  BudgetInv'
<1>1. BudgetType /\ mode = "local" /\ UNCHANGED <<time, mode, lease>> /\ Overtaken(at)
  BY DEF BudgetInv, ConsumeLocal
<1>2. Open(at) \in Buckets /\ Open(at).exists
  BY <1>1, OpenBucket
<1>3. PICK c, u : c = Open(at).count /\ u = Open(at).start
  OBVIOUS
<1>4. c \in Nat /\ u \in Instants /\ Limit \in Nat /\ spent \in [Instants -> Nat] /\ spent[u] \in Nat
  BY <1>1, <1>2, <1>3, BudgetAssumption DEF Buckets, BudgetType
<1>5. bucket' = [Open(at) EXCEPT !.count = c + 1]
  BY <1>2, <1>3 DEF ConsumeLocal, Buckets
<1>6. spent' = IF c < Limit THEN [spent EXCEPT ![u] = spent[u] + 1] ELSE spent
  BY <1>3, <1>4 DEF ConsumeLocal
<1>7. BudgetType'
  <2>1. c + 1 \in Nat /\ spent[u] + 1 \in Nat
    BY <1>4
  <2>2. bucket' \in Buckets
    <3>1. \A m \in Nat : [Open(at) EXCEPT !.count = m] \in Buckets
      BY <1>2 DEF Buckets
    <3> QED
      BY <1>5, <2>1, <3>1
  <2>3. spent' \in [Instants -> Nat]
    BY <1>4, <1>6, <2>1
  <2> QED
    BY <1>1, <2>2, <2>3 DEF BudgetType, Overtaken
<1>8. ASSUME ~overtaken' PROVE WindowsApart' /\ LocalBudget'
  <2>1. ~overtaken /\ ~(bucket.exists /\ bucket.start > at)
    BY <1>1, <1>8 DEF Overtaken
  <2>2. WindowsApart /\ LocalBudget
    BY <1>1, <2>1 DEF BudgetInv
  <2>3. bucket'.start = u /\ bucket'.count = c + 1 /\ bucket'.exists
    BY <1>2, <1>3, <1>5 DEF Buckets
  <2>4. WindowsApart'
    <3>1. spent[u] + 1 \in Nat
      BY <1>4
    <3> QED
      BY <1>1, <1>3, <1>6, <2>1, <2>2, <2>3, <3>1, ApartStays
  <2>5. spent[u] <= c
    <3>1. CASE Open(at) = bucket
      BY <1>3, <2>2, <3>1 DEF LocalBudget
    <3>2. CASE Open(at) # bucket
      <4>1. u = at /\ c = 0 /\ (bucket.exists => bucket.start > at \/ at >= bucket.start + Window)
        BY <1>1, <1>3, <3>2, OpenBucket
      <4>2. at \in Nat /\ bucket.start \in Nat /\ Window \in Nat \ {0}
        BY <1>1, BudgetAssumption DEF BudgetType, Buckets, Instants
      <4>3. ~(spent[u] > 0)
        BY <1>4, <2>1, <2>2, <4>1, <4>2 DEF WindowsApart
      <4> QED
        BY <1>4, <4>1, <4>3
    <3> QED
      BY <3>1, <3>2
  <2>6. spent'[u] <= c + 1
    BY <1>4, <1>6, <2>5
  <2>7. ASSUME NEW v \in Instants PROVE spent'[v] <= Limit
    BY <1>4, <1>6, <2>2, <2>5 DEF LocalBudget
  <2> QED
    BY <2>3, <2>4, <2>6, <2>7 DEF LocalBudget
<1> QED
  BY <1>1, <1>7, <1>8 DEF BudgetInv

LEMMA BudgetStays ==
    ASSUME BudgetInv, UNCHANGED <<mode, bucket, lease, spent, overtaken>>, time' \in Instants
    PROVE  BudgetInv'
<1>1. BudgetType'
  BY DEF BudgetInv, BudgetType
<1>2. \A v \in Instants : Backed(v) => Backed(v)'
  BY DEF Backed, Backs, Issued, Holds
<1> QED
  BY <1>1, <1>2 DEF BudgetInv, WindowsApart, LocalBudget, SharedBudget, LeaseOfWindow

LEMMA BudgetStep == BudgetInv /\ [BudgetNext]_budgetVars => BudgetInv'
<1> SUFFICES ASSUME BudgetInv, [BudgetNext]_budgetVars PROVE BudgetInv'
  OBVIOUS
<1>1. BudgetType /\ time \in Nat /\ time \in Instants
  BY BudgetAssumption DEF BudgetInv, BudgetType, Instants
<1>2. CASE Pass
  <2>1. time' \in Instants
    BY <1>1, <1>2, BudgetAssumption DEF Pass, Instants
  <2> QED
    BY <1>2, <2>1, BudgetStays DEF Pass
<1>3. ASSUME NEW r \in Limiters, LoseLease(r) PROVE BudgetInv'
  <2>1. lease' = [lease EXCEPT ![r] = NoLease] /\ UNCHANGED <<time, mode, bucket, spent, overtaken>>
    BY <1>3 DEF LoseLease
  <2>2. BudgetType'
    BY <1>1, <2>1 DEF BudgetType, Leases, NoLease
  <2>3. SharedBudget => SharedBudget'
    BY <1>1, <2>1, LeaseLost
  <2> QED
    BY <2>1, <2>2, <2>3 DEF BudgetInv, WindowsApart, LocalBudget
<1>4. ASSUME NEW lag \in Lags, lag <= time,
             ConsumeLocal(time - lag) \/ \E r \in Limiters : ConsumeShared(r, time - lag)
      PROVE  BudgetInv'
  <2>1. time - lag \in Instants
    BY <1>1, <1>4, BudgetAssumption DEF Instants
  <2> QED
    BY <1>4, <2>1, ConsumeLocalKeeps, ConsumeSharedKeeps
<1>5. CASE UNCHANGED budgetVars
  BY <1>1, <1>5, BudgetStays DEF budgetVars
<1> QED
  BY <1>2, <1>3, <1>4, <1>5 DEF BudgetNext

LEMMA BudgetHolds == BudgetInv => BudgetKept
<1> SUFFICES ASSUME BudgetInv, ~overtaken PROVE
        \A v, w \in Instants : spent[v] <= Limit /\ (v < w /\ spent[v] > 0 /\ spent[w] > 0 => v + Window <= w)
  BY DEF BudgetKept, Instants
<1>1. BudgetType /\ WindowsApart
  BY DEF BudgetInv
<1>2. ASSUME NEW v \in Instants PROVE spent[v] <= Limit
  <2>1. CASE mode = "local"
    BY <2>1 DEF BudgetInv, LocalBudget
  <2>2. CASE mode = "distributed"
    <3>1. SharedBudget
      BY <2>2 DEF BudgetInv
    <3>2. PICK S \in SUBSET Nat, T \in [Limiters -> SUBSET Nat] : Backs(v, S, T)
      BY <3>1 DEF SharedBudget, Backed
    <3>3. S \subseteq 1 .. Limit /\ Cardinality(S) = spent[v]
      BY <1>1, <3>1, <3>2, IssuedTokens DEF SharedBudget, Backs
    <3>4. Limit \in Nat
      BY BudgetAssumption
    <3> QED
      BY <3>3, <3>4, Tokens
  <2> QED
    BY <1>1, <2>1, <2>2 DEF BudgetType
<1> QED
  BY <1>1, <1>2 DEF WindowsApart
\* The invariant of the budget: every request let through spent a token of its
\* own, and every token a replica still holds is nobody else's.
THEOREM BudgetInvariant == BudgetSpec => []BudgetInv
BY BudgetStart, BudgetStep, PTL DEF BudgetSpec

\* However replicas share, lose and outlive their leases, no window lets more
\* requests through than the limit and no two windows overlap, unless a request
\* came behind the start of a window (reserveRateLimitTokens()).
THEOREM BudgetKeptAlways == BudgetSpec => []BudgetKept
BY BudgetInvariant, BudgetHolds, PTL

-----------------------------------------------------------------------------
(* The delivery of samples.                                                    *)

Captures == [seq : Nat, at : Nat, when : Nat, epoch : Nat, fast : Nat]
Stages == {"none", "sent", "admitted", "202", "200", "401", "retry", "reject"}
Calls == [sample : Nat, stage : Stages, stamp : Nat]
Taken == 1 .. Len(taken)

DeliveryType ==
    /\ now \in Nat
    /\ device \in [offset : Nat, resets : Nat, fault : BOOLEAN]
    /\ rtc \in [queue : SUBSET Taken, next : Nat]
    /\ saved \in {NoSample} \cup Taken /\ unsure \subseteq Taken
    /\ taken \in Seq(Captures)
    /\ call \in Calls /\ late \subseteq Calls
    /\ live \in [sample : Nat, seq : Nat, stamp : Nat, raw : Nat]

\* Samples are captured in the order of time; those of one epoch of the clock
\* bear sequence numbers and device times in that order too.
TakenInOrder ==
    /\ \A m, n \in Taken : m < n =>
          /\ taken[m].when < taken[n].when
          /\ taken[m].epoch = taken[n].epoch =>
                taken[m].fast = taken[n].fast /\ taken[m].seq < taken[n].seq
    /\ \A n \in Taken :
          /\ taken[n].at = taken[n].when + taken[n].fast /\ taken[n].when <= now
          /\ taken[n].epoch <= device.resets
          /\ taken[n].epoch = device.resets => taken[n].fast = device.offset /\ taken[n].seq < rtc.next

\* A call under way is about a sample, and what the backend admitted is stamped
\* with the time of its capture when the clock of the tracker was right.
GoodCall(c) ==
    /\ c.sample \in Taken
    /\ c.stage = "admitted" /\ taken[c.sample].fast = 0 => c.stamp = taken[c.sample].at

CallsGood == (call.stage # "none" => GoodCall(call)) /\ \A c \in late : GoodCall(c)

\* The sequence numbers of the queue go with the order of capture, also against
\* the sample of the call.
QueueInOrder ==
    /\ \A m \in rtc.queue : taken[m].seq < rtc.next
    /\ \A m, n \in rtc.queue : m < n => taken[m].seq < taken[n].seq
    /\ call.stage # "none" =>
          /\ taken[call.sample].seq < rtc.next
          /\ \A m \in rtc.queue : m > call.sample => taken[m].seq > taken[call.sample].seq

\* What the live record holds of its sample is what the sample carries.
LiveIsTaken ==
    live.sample # NoSample =>
        /\ live.sample \in Taken
        /\ live.seq = taken[live.sample].seq /\ live.raw = taken[live.sample].at
        /\ taken[live.sample].fast = 0 => live.stamp = taken[live.sample].at

DeliveryInv == DeliveryType /\ TakenInOrder /\ CallsGood /\ QueueInOrder /\ LiveIsTaken

LEMMA NoCallTypes ==
    /\ NoCall \in Calls /\ NoCall.stage = "none"
    /\ NothingShown \in [sample : Nat, seq : Nat, stamp : Nat, raw : Nat] /\ NothingShown.sample = NoSample
    /\ NoSample \in Nat
BY DEF NoCall, Calls, Stages, NothingShown, NoSample

LEMMA DeliveryStart == DeliveryInit => DeliveryInv
<1> SUFFICES ASSUME DeliveryInit PROVE DeliveryInv
  OBVIOUS
<1>1. taken = <<>> /\ Taken = {} /\ rtc = [queue |-> {}, next |-> 1] /\ late = {} /\ call = NoCall /\ live = NothingShown
  BY DEF DeliveryInit, Taken
<1>2. saved = NoSample /\ unsure = {} /\ now = 0
  BY DEF DeliveryInit, Flash!CheckpointInit, NoSample
<1>3. device \in [offset : Nat, resets : Nat, fault : BOOLEAN]
  <2>1. PICK o \in Offsets : device = [offset |-> o, resets |-> 0, fault |-> FALSE]
    BY DEF DeliveryInit
  <2>2. o \in Nat
    BY DeliveryAssumption
  <2> QED
    BY <2>1, <2>2
<1>4. taken \in Seq(Captures)
  BY <1>1
<1> QED
  BY <1>1, <1>2, <1>3, <1>4, NoCallTypes DEF DeliveryInv, DeliveryType, TakenInOrder, CallsGood, QueueInOrder, LiveIsTaken

LEMMA TakenTypes ==
    ASSUME DeliveryInv
    PROVE  /\ taken \in Seq(Captures) /\ Len(taken) \in Nat
           /\ \A m \in Taken :
                 /\ m \in Nat /\ taken[m].seq \in Nat /\ taken[m].at \in Nat /\ taken[m].when \in Nat
                 /\ taken[m].epoch \in Nat /\ taken[m].fast \in Nat
           /\ rtc.next \in Nat /\ rtc.queue \subseteq Taken
           /\ device.offset \in Nat /\ device.resets \in Nat /\ now \in Nat
<1>1. taken \in Seq(Captures)
  BY DEF DeliveryInv, DeliveryType
<1>2. Len(taken) \in Nat /\ \A m \in Taken : m \in Nat /\ taken[m] \in Captures
  BY <1>1 DEF Taken
<1>3. rtc.next \in Nat /\ rtc.queue \subseteq Taken /\ device.offset \in Nat /\ device.resets \in Nat /\ now \in Nat
  BY DEF DeliveryInv, DeliveryType
<1> QED
  BY <1>1, <1>2, <1>3 DEF Captures

\* A capture adds one sample behind all others.
LEMMA CaptureEffect ==
    ASSUME DeliveryInv, Capture
    PROVE  LET n == Len(taken) + 1 IN
           /\ taken' \in Seq(Captures) /\ Len(taken') = n /\ n \in Nat /\ n \notin Taken /\ Taken' = Taken \cup {n}
           /\ \A m \in Taken : taken'[m] = taken[m] /\ m < n /\ taken'[m] \in Captures
           /\ taken'[n].seq = rtc.next /\ taken'[n].at = now + device.offset /\ taken'[n].when = now
           /\ taken'[n].epoch = device.resets /\ taken'[n].fast = device.offset
           /\ \A m \in Taken : taken[m].when < now
           /\ rtc'.queue \subseteq rtc.queue \cup {n} /\ rtc'.next = rtc.next + 1
           /\ rtc' \in [queue : SUBSET (Taken'), next : Nat]
           /\ saved' \in {NoSample, n, saved} /\ unsure' \subseteq unsure \cup {n}
           /\ UNCHANGED <<now, device, call, late, live>>
<1> DEFINE n == Len(taken) + 1
           x == [seq |-> rtc.next, at |-> Clock, when |-> now, epoch |-> device.resets, fast |-> device.offset]
<1>1. taken \in Seq(Captures) /\ Len(taken) \in Nat /\ rtc.next \in Nat /\ device.offset \in Nat /\ device.resets \in Nat
      /\ now \in Nat /\ rtc.queue \subseteq Taken
  BY DEF DeliveryInv, DeliveryType
<1>2. x \in Captures
  BY <1>1 DEF Captures, Clock
<1>3. taken' = Append(taken, x)
  BY DEF Capture
<1>4. x.seq = rtc.next /\ x.at = now + device.offset /\ x.when = now /\ x.epoch = device.resets /\ x.fast = device.offset
  BY DEF Clock
<1> HIDE DEF x
<1>5. taken' \in Seq(Captures) /\ Len(taken') = n /\ taken'[n] = x /\ \A m \in Taken : taken'[m] = taken[m]
  BY <1>1, <1>2, <1>3 DEF Taken
<1>6. Taken' = Taken \cup {n} /\ n \notin Taken /\ \A m \in Taken : m < n
  BY <1>1, <1>5 DEF Taken
<1>7. \A m \in Taken : taken'[m] \in Captures
  BY <1>1, <1>5 DEF Taken
<1>8. \A m \in Taken : taken[m].when < now
  <2> SUFFICES ASSUME NEW m \in Taken PROVE taken[m].when < now
    OBVIOUS
  <2>1. Len(taken) \in Taken /\ m <= Len(taken) /\ taken # <<>>
    BY <1>1 DEF Taken
  <2>2. taken[Len(taken)].when < now
    BY <1>1, <2>1 DEF Capture
  <2>3. m = Len(taken) \/ taken[m].when < taken[Len(taken)].when
    BY <1>1, <2>1 DEF DeliveryInv, TakenInOrder, Taken
  <2>4. taken[m] \in Captures /\ taken[Len(taken)] \in Captures
    BY <1>1, <2>1 DEF Taken
  <2> DEFINE v == taken[m].when
             w == taken[Len(taken)].when
  <2>5. v \in Nat /\ w \in Nat
    BY <2>4 DEF Captures
  <2>6. w < now /\ (m = Len(taken) => v = w) /\ (m # Len(taken) => v < w)
    BY <2>2, <2>3
  <2> HIDE DEF v, w
  <2>7. v < now
    BY <1>1, <2>5, <2>6
  <2> QED
    BY <2>7 DEF v
<1>9. rtc' = [queue |-> Pushed(rtc.queue, n), next |-> rtc.next + 1]
  BY DEF Capture
<1>10. Pushed(rtc.queue, n) \subseteq rtc.queue \cup {n}
  BY DEF Pushed
<1>11. saved' \in {NoSample, n, saved} /\ unsure' \subseteq unsure \cup {n}
  BY DEF Capture, Flash!Save, flashVars
<1>12. UNCHANGED <<now, device, call, late, live>>
  BY DEF Capture
<1>13. rtc' \in [queue : SUBSET (Taken'), next : Nat] /\ rtc'.queue = Pushed(rtc.queue, n) /\ rtc'.next = rtc.next + 1
  BY <1>1, <1>6, <1>9, <1>10
<1> QED
  BY <1>1, <1>4, <1>5, <1>6, <1>7, <1>8, <1>10, <1>11, <1>12, <1>13

LEMMA CaptureKeeps == ASSUME DeliveryInv, Capture PROVE DeliveryInv'
<1> PICK n : n = Len(taken) + 1
  OBVIOUS
<1>1. /\ taken' \in Seq(Captures) /\ n \in Nat /\ n \notin Taken /\ Taken' = Taken \cup {n}
      /\ \A m \in Taken : taken'[m] = taken[m] /\ m < n /\ taken'[m] \in Captures /\ taken[m].when < now
      /\ taken'[n].seq = rtc.next /\ taken'[n].at = now + device.offset /\ taken'[n].when = now
      /\ taken'[n].epoch = device.resets /\ taken'[n].fast = device.offset
      /\ rtc'.queue \subseteq rtc.queue \cup {n} /\ rtc'.next = rtc.next + 1
      /\ rtc' \in [queue : SUBSET (Taken'), next : Nat]
      /\ saved' \in {NoSample, n, saved} /\ unsure' \subseteq unsure \cup {n}
      /\ UNCHANGED <<now, device, call, late, live>>
  BY CaptureEffect
<1>2. /\ \A m \in Taken : taken[m].seq \in Nat /\ taken[m].when \in Nat /\ taken[m].fast \in Nat /\ taken[m].epoch \in Nat /\ m \in Nat
      /\ rtc.next \in Nat /\ device.offset \in Nat /\ device.resets \in Nat /\ now \in Nat /\ rtc.queue \subseteq Taken
  BY TakenTypes
<1>3. DeliveryType'
  BY <1>1 DEF DeliveryInv, DeliveryType
<1>4. TakenInOrder'
  <2>1. \A m, k \in Taken' : m < k => m \in Taken
    BY <1>1, <1>2
  <2>2. ASSUME NEW m \in Taken', NEW k \in Taken', m < k
        PROVE  /\ taken'[m].when < taken'[k].when
               /\ taken'[m].epoch = taken'[k].epoch =>
                     taken'[m].fast = taken'[k].fast /\ taken'[m].seq < taken'[k].seq
    <3>1. CASE k \in Taken
      BY <1>1, <2>1, <2>2, <3>1 DEF DeliveryInv, TakenInOrder
    <3>2. CASE k = n
      BY <1>1, <2>1, <2>2, <3>2 DEF DeliveryInv, TakenInOrder
    <3> QED
      BY <1>1, <3>1, <3>2
  <2>3. ASSUME NEW m \in Taken'
        PROVE  /\ taken'[m].at = taken'[m].when + taken'[m].fast /\ taken'[m].when <= now'
               /\ taken'[m].epoch <= device'.resets
               /\ taken'[m].epoch = device'.resets => taken'[m].fast = device'.offset /\ taken'[m].seq < rtc'.next
    <3>1. CASE m \in Taken
      <4>1. /\ taken[m].at = taken[m].when + taken[m].fast /\ taken[m].when <= now
            /\ taken[m].epoch <= device.resets
            /\ taken[m].epoch = device.resets => taken[m].fast = device.offset /\ taken[m].seq < rtc.next
        BY <3>1 DEF DeliveryInv, TakenInOrder
      <4>2. taken[m].seq < rtc.next => taken[m].seq < rtc.next + 1
        BY <1>2, <3>1
      <4> QED
        BY <1>1, <3>1, <4>1, <4>2
    <3>2. CASE m = n
      BY <1>1, <1>2, <3>2
    <3> QED
      BY <1>1, <3>1, <3>2
  <2> QED
    BY <2>2, <2>3 DEF TakenInOrder
<1>5. CallsGood'
  <2>1. \A c \in Calls : GoodCall(c) => (GoodCall(c))'
    BY <1>1 DEF GoodCall
  <2>2. call \in Calls /\ late \subseteq Calls
    BY DEF DeliveryInv, DeliveryType
  <2>3. GoodCall(call) => GoodCall(call)'
    BY <1>1 DEF GoodCall
  <2> QED
    BY <1>1, <2>1, <2>2, <2>3 DEF DeliveryInv, CallsGood
<1>6. QueueInOrder'
  <2>1. \A m \in rtc'.queue : (m \in rtc.queue /\ m \in Taken /\ m # n /\ taken'[m] = taken[m]) \/ m = n
    BY <1>1, <1>2
  <2>2. \A m \in rtc.queue : taken[m].seq < rtc.next
    BY DEF DeliveryInv, QueueInOrder
  <2>3. \A m \in rtc'.queue : taken'[m].seq < rtc'.next
    BY <1>1, <1>2, <2>1, <2>2
  <2>4. \A m, k \in rtc'.queue : m < k => taken'[m].seq < taken'[k].seq
    <3> SUFFICES ASSUME NEW m \in rtc'.queue, NEW k \in rtc'.queue, m < k PROVE taken'[m].seq < taken'[k].seq
      OBVIOUS
    <3>1. CASE m \in rtc.queue /\ k \in rtc.queue
      BY <1>1, <1>2, <3>1 DEF DeliveryInv, QueueInOrder
    <3>2. CASE k = n
      BY <1>1, <1>2, <2>1, <2>2, <3>2
    <3>3. CASE m = n /\ k # n
      BY <1>1, <1>2, <2>1, <3>3
    <3> QED
      BY <2>1, <3>1, <3>2, <3>3
  <2>5. ASSUME call'.stage # "none"
        PROVE  /\ taken'[call'.sample].seq < rtc'.next
               /\ \A m \in rtc'.queue : m > call'.sample => taken'[m].seq > taken'[call'.sample].seq
    <3>1. call' = call /\ call.sample \in Taken /\ taken'[call.sample] = taken[call.sample]
      BY <1>1, <2>5 DEF DeliveryInv, CallsGood, GoodCall
    <3>2. /\ taken[call.sample].seq < rtc.next
          /\ \A m \in rtc.queue : m > call.sample => taken[m].seq > taken[call.sample].seq
      BY <2>5, <3>1 DEF DeliveryInv, QueueInOrder
    <3>3. taken[call.sample].seq \in Nat
      BY <1>2, <3>1
    <3>4. taken'[call'.sample].seq < rtc'.next
      BY <1>1, <1>2, <3>1, <3>2, <3>3
    <3>5. ASSUME NEW m \in rtc'.queue, m > call.sample PROVE taken'[m].seq > taken[call.sample].seq
      <4>1. CASE m \in rtc.queue
        BY <1>1, <1>2, <2>1, <3>2, <3>5, <4>1
      <4>2. CASE m = n
        BY <1>1, <1>2, <3>2, <3>3, <4>2
      <4> QED
        BY <2>1, <4>1, <4>2
    <3> QED
      BY <3>1, <3>4, <3>5
  <2> QED
    BY <2>3, <2>4, <2>5 DEF QueueInOrder
<1>7. LiveIsTaken'
  BY <1>1 DEF DeliveryInv, LiveIsTaken
<1> QED
  BY <1>3, <1>4, <1>5, <1>6, <1>7 DEF DeliveryInv
\* The tracker's queue loses samples at most, and its call is over, goes on, or
\* is about a sample of the queue.
LEMMA QueueShrinks ==
    ASSUME DeliveryInv, UNCHANGED taken, rtc'.queue \subseteq rtc.queue, rtc'.next = rtc.next,
           \/ call'.stage = "none"
           \/ call'.sample = call.sample /\ call.stage # "none"
           \/ call'.sample \in rtc.queue
    PROVE  QueueInOrder'
<1>1. /\ \A m \in rtc.queue : taken[m].seq < rtc.next
      /\ \A m, n \in rtc.queue : m < n => taken[m].seq < taken[n].seq
      /\ \A m \in rtc.queue : m \in Nat /\ taken[m].seq \in Nat
  BY TakenTypes DEF DeliveryInv, QueueInOrder
<1>2. ASSUME call'.stage # "none"
      PROVE  /\ taken[call'.sample].seq < rtc.next
             /\ \A m \in rtc.queue : m > call'.sample => taken[m].seq > taken[call'.sample].seq
  <2>1. CASE call'.sample = call.sample /\ call.stage # "none"
    BY <2>1 DEF DeliveryInv, QueueInOrder
  <2>2. CASE call'.sample \in rtc.queue
    BY <1>1, <2>2
  <2> QED
    BY <1>2, <2>1, <2>2
<1> QED
  BY <1>1, <1>2 DEF QueueInOrder

\* What is enough for a step that captures nothing.
LEMMA NoCaptureKeeps ==
    ASSUME DeliveryInv, UNCHANGED taken,
           now' \in Nat, now' >= now,
           device' \in [offset : Nat, resets : Nat, fault : BOOLEAN],
           \/ device'.offset = device.offset /\ device'.resets = device.resets /\ rtc'.next = rtc.next
           \/ device'.resets = device.resets + 1,
           rtc' \in [queue : SUBSET Taken, next : Nat],
           saved' \in {saved} \cup unsure, unsure' \subseteq unsure,
           call' \in Calls, late' \subseteq Calls,
           live' \in [sample : Nat, seq : Nat, stamp : Nat, raw : Nat],
           CallsGood', QueueInOrder', LiveIsTaken'
    PROVE  DeliveryInv'
<1>1. Taken' = Taken
  BY DEF Taken
<1>2. DeliveryType'
  BY <1>1 DEF DeliveryInv, DeliveryType
<1>3. TakenInOrder'
  <2>1. ASSUME NEW n \in Taken
        PROVE  /\ taken[n].at = taken[n].when + taken[n].fast /\ taken[n].when <= now'
               /\ taken[n].epoch <= device'.resets
               /\ taken[n].epoch = device'.resets => taken[n].fast = device'.offset /\ taken[n].seq < rtc'.next
    <3>1. /\ taken[n].at = taken[n].when + taken[n].fast /\ taken[n].when <= now
          /\ taken[n].epoch <= device.resets
          /\ taken[n].epoch = device.resets => taken[n].fast = device.offset /\ taken[n].seq < rtc.next
      BY DEF DeliveryInv, TakenInOrder
    <3>2. /\ taken[n].when \in Nat /\ taken[n].epoch \in Nat /\ now \in Nat /\ device.resets \in Nat
      BY TakenTypes
    <3>3. taken[n].when <= now'
      BY <3>1, <3>2
    <3>4. CASE device'.resets = device.resets + 1
      <4>1. taken[n].epoch < device'.resets
        BY <3>1, <3>2, <3>4
      <4> QED
        BY <3>1, <3>2, <3>3, <4>1
    <3>5. CASE device'.offset = device.offset /\ device'.resets = device.resets /\ rtc'.next = rtc.next
      BY <3>1, <3>3, <3>5
    <3> QED
      BY <3>4, <3>5
  <2> QED
    BY <1>1, <2>1 DEF DeliveryInv, TakenInOrder
<1> QED
  BY <1>2, <1>3 DEF DeliveryInv

LEMMA DeliveryTypes ==
    ASSUME DeliveryInv
    PROVE  /\ now \in Nat /\ device \in [offset : Nat, resets : Nat, fault : BOOLEAN]
           /\ rtc \in [queue : SUBSET Taken, next : Nat]
           /\ saved \in {NoSample} \cup Taken /\ unsure \subseteq Taken
           /\ call \in Calls /\ late \subseteq Calls
           /\ live \in [sample : Nat, seq : Nat, stamp : Nat, raw : Nat]
BY DEF DeliveryInv, DeliveryType

\* The queue of a record of RTC memory is replaced by a part of it.
LEMMA QueueReplaced ==
    ASSUME DeliveryInv, NEW q \in SUBSET rtc.queue
    PROVE  /\ [rtc EXCEPT !.queue = q] \in [queue : SUBSET Taken, next : Nat]
           /\ [rtc EXCEPT !.queue = q].queue = q /\ [rtc EXCEPT !.queue = q].next = rtc.next
BY DeliveryTypes

LEMMA RetryEffect ==
    ASSUME NEW n, DeliveryInv, RetryLater(n)
    PROVE  /\ rtc' \in [queue : SUBSET Taken, next : Nat] /\ rtc'.queue \subseteq rtc.queue /\ rtc'.next = rtc.next
           /\ Removed(rtc.queue, n) \subseteq rtc'.queue
<1>1. Removed(rtc.queue, n) \in SUBSET rtc.queue
  BY DEF Removed
<1>2. rtc' = rtc \/ rtc' = [rtc EXCEPT !.queue = Removed(rtc.queue, n)]
  BY DEF RetryLater
<1> QED
  BY <1>1, <1>2, QueueReplaced, DeliveryTypes

LEMMA PublishFixKeeps == ASSUME DeliveryInv, PublishFix PROVE DeliveryInv'
<1>1. UNCHANGED <<now, device, saved, unsure, taken, late, live>>
  BY DEF PublishFix, flashVars
<1>2. PICK n \in Fresh(rtc.queue) :
          \/ /\ call' = [NoCall EXCEPT !.sample = n, !.stage = "sent"]
             /\ rtc' = [rtc EXCEPT !.queue = Fresh(rtc.queue)]
          \/ /\ rtc' = [rtc EXCEPT !.queue = Removed(Fresh(rtc.queue), n)]
             /\ UNCHANGED call
  BY DEF PublishFix
<1>3. Fresh(rtc.queue) \in SUBSET rtc.queue /\ Removed(Fresh(rtc.queue), n) \in SUBSET rtc.queue
  BY DEF Fresh, Removed
<1>4. n \in rtc.queue /\ n \in Taken /\ n \in Nat
  BY <1>2, <1>3, TakenTypes
<1>5. [NoCall EXCEPT !.sample = n, !.stage = "sent"] \in Calls
      /\ [NoCall EXCEPT !.sample = n, !.stage = "sent"].sample = n
      /\ [NoCall EXCEPT !.sample = n, !.stage = "sent"].stage = "sent"
  BY <1>4, NoCallTypes DEF Calls, Stages
<1>6. rtc' \in [queue : SUBSET Taken, next : Nat] /\ rtc'.queue \subseteq rtc.queue /\ rtc'.next = rtc.next
  BY <1>2, <1>3, QueueReplaced
<1>7. \/ call' \in Calls /\ call'.sample = n /\ call'.stage = "sent"
      \/ call' = call
  BY <1>2, <1>5
<1>8. CallsGood'
  BY <1>1, <1>4, <1>7 DEF DeliveryInv, CallsGood, GoodCall, Taken
<1>9. QueueInOrder'
  <2>1. CASE call' = call
    BY <1>1, <1>6, <2>1, QueueShrinks
  <2>2. CASE call'.sample = n
    BY <1>1, <1>4, <1>6, <2>2, QueueShrinks
  <2> QED
    BY <1>7, <2>1, <2>2
<1>10. LiveIsTaken'
  BY <1>1 DEF DeliveryInv, LiveIsTaken, Taken
<1>11. now >= now
  BY DeliveryTypes
<1> QED
  BY <1>1, <1>6, <1>7, <1>8, <1>9, <1>10, <1>11, DeliveryTypes, NoCaptureKeeps

\* The device stops waiting: the call ends, and the backend may go on with it.
LEMMA CallEnds ==
    ASSUME DeliveryInv, UNCHANGED <<now, taken, live>>, call' = NoCall, Abandoned \/ UNCHANGED late,
           device' \in [offset : Nat, resets : Nat, fault : BOOLEAN],
           \/ device'.offset = device.offset /\ device'.resets = device.resets /\ rtc'.next = rtc.next
           \/ device'.resets = device.resets + 1,
           rtc' \in [queue : SUBSET Taken, next : Nat],
           saved' \in {saved} \cup unsure, unsure' \subseteq unsure,
           QueueInOrder'
    PROVE  DeliveryInv'
<1>1. late' \subseteq late \cup {call} /\ (call \in late' => call \in late \/ call.stage # "none")
  BY DEF Abandoned
<1>2. CallsGood'
  BY <1>1, NoCallTypes DEF DeliveryInv, CallsGood, GoodCall, Taken
<1>3. LiveIsTaken'
  BY DEF DeliveryInv, LiveIsTaken, Taken
<1>4. late' \subseteq Calls /\ call' \in Calls /\ now' \in Nat /\ now' >= now
      /\ live' \in [sample : Nat, seq : Nat, stamp : Nat, raw : Nat]
  BY <1>1, DeliveryTypes, NoCallTypes
<1> QED
  BY <1>2, <1>3, <1>4, NoCaptureKeeps

LEMMA GiveUpKeeps == ASSUME DeliveryInv, GiveUp PROVE DeliveryInv'
<1>1. RetryLater(call.sample) /\ call' = NoCall /\ Abandoned /\ UNCHANGED <<now, device, saved, unsure, taken, live>>
  BY DEF GiveUp, flashVars
<1>2. rtc' \in [queue : SUBSET Taken, next : Nat] /\ rtc'.queue \subseteq rtc.queue /\ rtc'.next = rtc.next
  BY <1>1, RetryEffect
<1>3. QueueInOrder'
  BY <1>1, <1>2, NoCallTypes, QueueShrinks
<1> QED
  BY <1>1, <1>2, <1>3, DeliveryTypes, CallEnds

LEMMA AnswerEffect ==
    ASSUME DeliveryInv, Answer
    PROVE  /\ rtc' \in [queue : SUBSET Taken, next : Nat] /\ rtc'.queue \subseteq rtc.queue /\ rtc'.next = rtc.next
           /\ \A m \in rtc.queue : m \in rtc'.queue
                 \/ SeqNo(m) = SeqNo(call.sample)
                 \/ \E h \in rtc.queue : SeqNo(h) = SeqNo(call.sample) /\ ~(m > h)
           /\ device' \in [offset : Nat, resets : Nat, fault : BOOLEAN]
           /\ device'.offset = device.offset /\ device'.resets = device.resets
           /\ call' = NoCall /\ call.stage # "none"
           /\ UNCHANGED <<now, saved, unsure, taken, late, live>>
<1>1. call' = NoCall /\ call.stage # "none" /\ UNCHANGED <<now, saved, unsure, taken, late, live>>
  BY DEF Answer, flashVars
<1>2. device' \in [offset : Nat, resets : Nat, fault : BOOLEAN] /\ device'.offset = device.offset /\ device'.resets = device.resets
  BY DeliveryTypes DEF Answer
<1>3. \/ rtc' = [rtc EXCEPT !.queue = Acknowledged(rtc.queue, call.sample)]
      \/ rtc' = [rtc EXCEPT !.queue = Removed(rtc.queue, call.sample)]
      \/ rtc' = rtc
      \/ RetryLater(call.sample)
  BY DEF Answer
<1>4. Acknowledged(rtc.queue, call.sample) \in SUBSET rtc.queue /\ Removed(rtc.queue, call.sample) \in SUBSET rtc.queue
  BY DEF Acknowledged, Removed
<1>5. CASE rtc' = [rtc EXCEPT !.queue = Acknowledged(rtc.queue, call.sample)]
  <2>1. rtc'.queue = Acknowledged(rtc.queue, call.sample)
    BY <1>4, <1>5, QueueReplaced
  <2>2. \A m \in rtc.queue : m \in rtc'.queue \/ \E h \in rtc.queue : SeqNo(h) = SeqNo(call.sample) /\ ~(m > h)
    BY <2>1 DEF Acknowledged
  <2> QED
    BY <1>1, <1>2, <1>4, <1>5, <2>2, QueueReplaced
<1>6. CASE rtc' = [rtc EXCEPT !.queue = Removed(rtc.queue, call.sample)]
  <2>1. rtc'.queue = Removed(rtc.queue, call.sample)
    BY <1>4, <1>6, QueueReplaced
  <2>2. \A m \in rtc.queue : m \in rtc'.queue \/ SeqNo(m) = SeqNo(call.sample)
    BY <2>1 DEF Removed
  <2> QED
    BY <1>1, <1>2, <1>4, <1>6, <2>2, QueueReplaced
<1>7. CASE rtc' = rtc
  BY <1>1, <1>2, <1>7, DeliveryTypes
<1>8. CASE RetryLater(call.sample)
  BY <1>1, <1>2, <1>8, RetryEffect DEF Removed
<1> QED
  BY <1>3, <1>5, <1>6, <1>7, <1>8

LEMMA AnswerKeeps == ASSUME DeliveryInv, Answer PROVE DeliveryInv'
<1>1. QueueInOrder'
  BY AnswerEffect, NoCallTypes, QueueShrinks
<1> QED
  BY <1>1, AnswerEffect, CallEnds
LEMMA CorrectClockKeeps == ASSUME DeliveryInv, CorrectClock PROVE DeliveryInv'
<1>1. PICK o \in Offsets : device' = [device EXCEPT !.offset = o, !.resets = @ + 1]
  BY DEF CorrectClock
<1>2. UNCHANGED <<now, rtc, saved, unsure, taken, call, late, live>>
  BY DEF CorrectClock, flashVars
<1>3. o \in Nat /\ device.resets + 1 \in Nat
  BY DeliveryAssumption, TakenTypes
<1>4. device' = [device EXCEPT !.offset = o, !.resets = device.resets + 1]
  BY <1>1, DeliveryTypes
<1>5. device' \in [offset : Nat, resets : Nat, fault : BOOLEAN] /\ device'.resets = device.resets + 1
  <2>1. ASSUME NEW m \in Nat
        PROVE  /\ [device EXCEPT !.offset = o, !.resets = m] \in [offset : Nat, resets : Nat, fault : BOOLEAN]
               /\ [device EXCEPT !.offset = o, !.resets = m].resets = m
    BY <1>3, DeliveryTypes
  <2> QED
    BY <1>3, <1>4, <2>1
<1>6. CallsGood' /\ QueueInOrder' /\ LiveIsTaken'
  BY <1>2 DEF DeliveryInv, CallsGood, GoodCall, QueueInOrder, LiveIsTaken, Taken
<1>7. now >= now
  BY DeliveryTypes
<1> QED
  BY <1>2, <1>5, <1>6, <1>7, DeliveryTypes, NoCaptureKeeps

LEMMA ResetKeeps == ASSUME DeliveryInv, Reset PROVE DeliveryInv'
<1>1. PICK o \in Offsets : device' = [offset |-> o, resets |-> device.resets + 1, fault |-> FALSE]
  BY DEF Reset
<1>2. device' \in [offset : Nat, resets : Nat, fault : BOOLEAN] /\ device'.resets = device.resets + 1
  <2>1. o \in Nat /\ device.resets + 1 \in Nat
    BY DeliveryAssumption, TakenTypes
  <2> QED
    BY <1>1, <2>1
<1>3. /\ saved' \in {saved} \cup unsure /\ unsure' \subseteq unsure
      /\ call' = NoCall /\ Abandoned /\ UNCHANGED <<now, taken, live>>
  BY DEF Reset, Flash!Boot
<1>4. CASE UNCHANGED rtc
  <2>1. QueueInOrder'
    BY <1>3, <1>4, NoCallTypes, QueueShrinks
  <2> QED
    BY <1>2, <1>3, <1>4, <2>1, DeliveryTypes, CallEnds
<1>5. CASE rtc' = [queue |-> {}, next |-> 1]
  <2>1. QueueInOrder'
    BY <1>3, <1>5, NoCallTypes DEF QueueInOrder
  <2>2. rtc' \in [queue : SUBSET Taken, next : Nat]
    BY <1>5
  <2> QED
    BY <1>2, <1>3, <2>1, <2>2, CallEnds
<1>6. CASE saved' # NoSample /\ rtc' = [queue |-> {saved'}, next |-> SeqNo(saved') + 1]
  <2>1. saved' \in Taken /\ SeqNo(saved') \in Nat /\ saved' \in Nat
    <3>1. saved' \in Taken
      BY <1>3, <1>6, DeliveryTypes
    <3> QED
      BY <3>1, TakenTypes DEF SeqNo
  <2>2. rtc' \in [queue : SUBSET Taken, next : Nat]
    BY <1>6, <2>1
  <2>3. rtc'.queue = {saved'} /\ rtc'.next = taken[saved'].seq + 1 /\ taken[saved'].seq \in Nat
    BY <1>6, <2>1 DEF SeqNo
  <2>4. QueueInOrder'
    BY <1>3, <2>1, <2>3, NoCallTypes DEF QueueInOrder
  <2> QED
    BY <1>2, <1>3, <2>2, <2>4, CallEnds
<1> QED
  BY <1>4, <1>5, <1>6 DEF Reset

\* A sample that is captured before another and whose order the backend can tell
\* is not taken for a newer one (telemetrySampleIsNewer()).
LEMMA OrderIsTold ==
    ASSUME NEW c \in Calls, DeliveryInv, GoodCall(c), c.stage = "admitted", live.sample # NoSample,
           Comparable(live.sample, c.sample), c.sample < live.sample
    PROVE  ~IsNewer(c.sample, c.stamp)
<1> PICK m, n : m = live.sample /\ n = c.sample
  OBVIOUS
<1>1. m \in Taken /\ n \in Taken /\ n < m
  BY DEF DeliveryInv, LiveIsTaken, GoodCall
<1>2. /\ live.seq = taken[m].seq /\ live.raw = taken[m].at
      /\ taken[m].fast = 0 => live.stamp = taken[m].at
      /\ taken[n].fast = 0 => c.stamp = taken[n].at
  BY DEF DeliveryInv, LiveIsTaken, GoodCall
<1>3. live # NothingShown
  BY DEF NothingShown
<1>4. /\ taken[n].when < taken[m].when
      /\ taken[n].epoch = taken[m].epoch => taken[n].fast = taken[m].fast /\ taken[n].seq < taken[m].seq
      /\ taken[n].at = taken[n].when + taken[n].fast /\ taken[m].at = taken[m].when + taken[m].fast
  BY <1>1 DEF DeliveryInv, TakenInOrder
<1>5. /\ taken[n].seq \in Nat /\ taken[m].seq \in Nat /\ taken[n].at \in Nat /\ taken[m].at \in Nat
      /\ taken[n].when \in Nat /\ taken[m].when \in Nat /\ taken[n].fast \in Nat /\ taken[m].fast \in Nat
      /\ c.stamp \in Nat /\ live.stamp \in Nat
  BY <1>1, TakenTypes, DeliveryTypes DEF Calls
<1>6. CASE taken[m].epoch = taken[n].epoch
  <2>1. taken[n].at < taken[m].at /\ taken[n].seq < taken[m].seq
    BY <1>4, <1>5, <1>6
  <2> QED
    BY <1>2, <1>3, <2>1 DEF IsNewer, SeqNo, TakenAt
<1>7. CASE taken[m].fast = 0 /\ taken[n].fast = 0
  <2>1. c.stamp < live.stamp
    BY <1>2, <1>4, <1>5, <1>7
  <2>2. ~(c.stamp > live.stamp) /\ c.stamp # live.stamp
    BY <1>5, <2>1
  <2> QED
    BY <1>3, <2>2 DEF IsNewer
<1> QED
  BY <1>6, <1>7 DEF Comparable

NoOlder == live.sample # NoSample /\ Comparable(live.sample, live'.sample) => live'.sample >= live.sample

LEMMA PersistEffect ==
    ASSUME NEW c \in Calls, DeliveryInv, GoodCall(c), c.stage = "admitted", Persist(c), UNCHANGED taken
    PROVE  /\ live' \in [sample : Nat, seq : Nat, stamp : Nat, raw : Nat]
           /\ LiveIsTaken' /\ NoOlder
<1>1. CASE IsNewer(c.sample, c.stamp)
  <2>1. live' = [sample |-> c.sample, seq |-> SeqNo(c.sample), stamp |-> c.stamp, raw |-> TakenAt(c.sample)]
    BY <1>1 DEF Persist
  <2>2. c.sample \in Taken /\ c.sample \in Nat /\ SeqNo(c.sample) \in Nat /\ c.stamp \in Nat /\ TakenAt(c.sample) \in Nat
    BY TakenTypes DEF GoodCall, SeqNo, TakenAt, Calls
  <2>3. live' \in [sample : Nat, seq : Nat, stamp : Nat, raw : Nat]
    BY <2>1, <2>2
  <2>4. LiveIsTaken'
    BY <2>1, <2>2 DEF LiveIsTaken, GoodCall, SeqNo, TakenAt, Taken
  <2>5. NoOlder
    <3>1. live.sample \in Nat /\ live'.sample = c.sample
      BY <2>1, DeliveryTypes
    <3>2. live.sample # NoSample /\ Comparable(live.sample, c.sample) => ~(c.sample < live.sample)
      BY <1>1, OrderIsTold
    <3>3. ~(c.sample < live.sample) => c.sample >= live.sample
      BY <2>2, <3>1
    <3> QED
      BY <3>1, <3>2, <3>3 DEF NoOlder
  <2> QED
    BY <2>3, <2>4, <2>5
<1>2. CASE ~IsNewer(c.sample, c.stamp)
  <2>1. live' = live /\ live.sample \in Nat
    BY <1>2, DeliveryTypes DEF Persist
  <2> QED
    BY <2>1, DeliveryTypes DEF DeliveryInv, LiveIsTaken, NoOlder, Taken
<1> QED
  BY <1>1, <1>2

\* The backend's part of a call: what it received it stamps, what it answers is
\* about the same sample.
LEMMA ReceivedEffect ==
    ASSUME NEW c \in Calls, DeliveryInv, GoodCall(c), NEW d \in Received(c)
    PROVE  d \in Calls /\ d.stage # "none" /\ GoodCall(d) /\ d.sample = c.sample
<1>1. c.sample \in Taken /\ taken[c.sample].at \in Nat /\ taken[c.sample].when \in Nat /\ now \in Nat
  BY TakenTypes DEF GoodCall
<1>2. taken[c.sample].fast = 0 => ~(taken[c.sample].at > now)
  <2>1. taken[c.sample].at = taken[c.sample].when + taken[c.sample].fast /\ taken[c.sample].when <= now
    BY <1>1 DEF DeliveryInv, TakenInOrder
  <2> QED
    BY <1>1, <2>1
<1>3. PICK stamp \in Nat : stamp = (IF taken[c.sample].at > now THEN now ELSE taken[c.sample].at)
  BY <1>1
<1>4. CASE d = [c EXCEPT !.stage = "reject"]
  <2>1. d \in Calls /\ d.stage = "reject" /\ d.sample = c.sample
    BY <1>4 DEF Calls, Stages
  <2> QED
    BY <1>1, <2>1 DEF GoodCall
<1>5. CASE \E stage \in {"admitted", "retry", "401"} : d = [c EXCEPT !.stage = stage, !.stamp = stamp]
  <2>1. d \in Calls /\ d.stage # "none" /\ d.sample = c.sample /\ d.stamp = stamp
    BY <1>5 DEF Calls, Stages
  <2> QED
    BY <1>1, <1>2, <1>3, <2>1 DEF GoodCall
<1> QED
  BY <1>3, <1>4, <1>5 DEF Received, TakenAt

LEMMA ServeEffect ==
    ASSUME DeliveryInv, Serve
    PROVE  /\ UNCHANGED <<now, device, rtc, saved, unsure, taken, late>>
           /\ call' \in Calls /\ call'.stage # "none" /\ call.stage # "none" /\ call'.sample = call.sample
           /\ GoodCall(call)'
           /\ live' \in [sample : Nat, seq : Nat, stamp : Nat, raw : Nat] /\ LiveIsTaken' /\ NoOlder
<1>1. UNCHANGED <<now, device, rtc, saved, unsure, taken, late>> /\ call \in Calls
  BY DeliveryTypes DEF Serve, flashVars
<1>2. call.stage # "none" /\ GoodCall(call)
  BY DEF Serve, DeliveryInv, CallsGood
<1>3. ASSUME UNCHANGED live
      PROVE live' \in [sample : Nat, seq : Nat, stamp : Nat, raw : Nat] /\ LiveIsTaken' /\ NoOlder
  <2>1. live.sample \in Nat
    BY DeliveryTypes
  <2> QED
    BY <1>1, <1>3, <2>1, DeliveryTypes DEF DeliveryInv, LiveIsTaken, NoOlder, Taken
<1>4. CASE call.stage = "sent" /\ call' \in Received(call) /\ UNCHANGED live
  <2>1. call' \in Calls /\ call'.stage # "none" /\ call'.sample = call.sample /\ GoodCall(call')
    BY <1>1, <1>2, <1>4, ReceivedEffect
  <2>2. GoodCall(call)'
    BY <1>1, <2>1 DEF GoodCall, Taken
  <2> QED
    BY <1>1, <1>2, <1>3, <1>4, <2>1, <2>2
<1>5. CASE call.stage = "admitted" /\ call' \in Persisted(call) /\ Persist(call)
  <2>1. \E stage \in {"202", "retry", "200"} : call' = [call EXCEPT !.stage = stage]
    BY <1>5 DEF Persisted
  <2>2. call' \in Calls /\ call'.stage \notin {"none", "admitted"} /\ call'.sample = call.sample
    BY <1>1, <2>1 DEF Calls, Stages
  <2>3. GoodCall(call)'
    BY <1>1, <1>2, <2>2 DEF GoodCall, Taken
  <2> QED
    BY <1>1, <1>2, <1>5, <2>2, <2>3, PersistEffect
<1>6. CASE call.stage = "admitted" /\ call' = [call EXCEPT !.stage = "retry"] /\ UNCHANGED live
  <2>1. call' \in Calls /\ call'.stage = "retry" /\ call'.sample = call.sample
    BY <1>1, <1>6 DEF Calls, Stages
  <2>2. GoodCall(call)'
    BY <1>1, <1>2, <2>1 DEF GoodCall, Taken
  <2> QED
    BY <1>1, <1>2, <1>3, <1>6, <2>1, <2>2
<1> QED
  BY <1>4, <1>5, <1>6 DEF Serve

LEMMA ServeLateEffect ==
    ASSUME NEW c \in late, DeliveryInv, ServeLate(c)
    PROVE  /\ UNCHANGED <<now, device, rtc, saved, unsure, taken, call>>
           /\ late' \subseteq Calls /\ \A d \in late' : GoodCall(d)
           /\ live' \in [sample : Nat, seq : Nat, stamp : Nat, raw : Nat] /\ LiveIsTaken' /\ NoOlder
<1>1. UNCHANGED <<now, device, rtc, saved, unsure, taken, call>> /\ late \subseteq Calls /\ c \in Calls
  BY DeliveryTypes DEF ServeLate, flashVars
<1>2. GoodCall(c) /\ \A d \in late : GoodCall(d)
  BY DEF DeliveryInv, CallsGood
<1>3. CASE /\ c.stage = "sent" /\ UNCHANGED live
           /\ \E r \in Received(c) : late' = (late \ {c}) \cup (IF r.stage = "admitted" THEN {r} ELSE {})
  <2>1. PICK r \in Received(c) : late' = (late \ {c}) \cup (IF r.stage = "admitted" THEN {r} ELSE {})
    BY <1>3
  <2>2. r \in Calls /\ GoodCall(r)
    BY <1>1, <1>2, ReceivedEffect
  <2>3. live.sample \in Nat
    BY DeliveryTypes
  <2> QED
    BY <1>1, <1>2, <1>3, <2>1, <2>2, <2>3, DeliveryTypes DEF DeliveryInv, LiveIsTaken, NoOlder, Taken
<1>4. CASE c.stage = "admitted" /\ Persist(c) /\ late' = late \ {c}
  BY <1>1, <1>2, <1>4, PersistEffect
<1> QED
  BY <1>3, <1>4 DEF ServeLate

LEMMA BackendKeeps == ASSUME DeliveryInv, BackendStep PROVE DeliveryInv' /\ NoOlder
<1>1. now >= now
  BY DeliveryTypes
<1>2. CASE Serve
  <2>1. CallsGood'
    BY <1>2, ServeEffect DEF DeliveryInv, CallsGood, GoodCall, Taken
  <2>2. QueueInOrder'
    BY <1>2, ServeEffect, QueueShrinks
  <2> QED
    BY <1>1, <1>2, <2>1, <2>2, ServeEffect, DeliveryTypes, NoCaptureKeeps
<1>3. CASE \E c \in late : ServeLate(c)
  <2>1. PICK c \in late : ServeLate(c)
    BY <1>3
  <2>2. CallsGood' /\ QueueInOrder'
    BY <2>1, ServeLateEffect DEF DeliveryInv, CallsGood, GoodCall, QueueInOrder, Taken
  <2> QED
    BY <1>1, <2>1, <2>2, ServeLateEffect, DeliveryTypes, NoCaptureKeeps
<1> QED
  BY <1>2, <1>3 DEF BackendStep
LEMMA DeviceStepStays == ASSUME DeliveryInv, DeviceStep PROVE UNCHANGED live
<1> QED
  BY DEF DeviceStep, Capture, PublishFix, GiveUp, Answer, CorrectClock, Reset

LEMMA DeliveryStep == DeliveryInv /\ [DeliveryNext]_deliveryVars => DeliveryInv' /\ NoOlder
<1> SUFFICES ASSUME DeliveryInv, [DeliveryNext]_deliveryVars PROVE DeliveryInv' /\ NoOlder
  OBVIOUS
<1>1. live.sample \in Nat /\ (UNCHANGED live => NoOlder)
  BY DeliveryTypes DEF NoOlder
<1>2. CASE DeviceStep
  <2>1. DeliveryInv'
    BY <1>2, CaptureKeeps, PublishFixKeeps, GiveUpKeeps, AnswerKeeps, CorrectClockKeeps, ResetKeeps DEF DeviceStep
  <2> QED
    BY <1>1, <1>2, <2>1, DeviceStepStays
<1>3. CASE BackendStep
  BY <1>3, BackendKeeps
<1>4. CASE Tick
  <2>1. UNCHANGED <<device, rtc, saved, unsure, taken, call, late, live>> /\ now' = now + 1
    BY <1>4 DEF Tick, flashVars
  <2>2. now' \in Nat /\ now' >= now
    BY <2>1, DeliveryTypes
  <2>3. CallsGood' /\ QueueInOrder' /\ LiveIsTaken'
    BY <2>1 DEF DeliveryInv, CallsGood, GoodCall, QueueInOrder, LiveIsTaken, Taken
  <2> QED
    BY <1>1, <2>1, <2>2, <2>3, DeliveryTypes, NoCaptureKeeps
<1>5. CASE UNCHANGED deliveryVars
  <2>1. UNCHANGED <<now, device, rtc, saved, unsure, taken, call, late, live>>
    BY <1>5 DEF deliveryVars, flashVars
  <2>2. CallsGood' /\ QueueInOrder' /\ LiveIsTaken' /\ now >= now
    BY <2>1, DeliveryTypes DEF DeliveryInv, CallsGood, GoodCall, QueueInOrder, LiveIsTaken, Taken
  <2> QED
    BY <1>1, <2>1, <2>2, DeliveryTypes, NoCaptureKeeps
<1> QED
  BY <1>2, <1>3, <1>4, <1>5 DEF DeliveryNext

\* What an answer takes out of the queue.
KeptNewer == Answer => \A m \in rtc.queue : m > call.sample => m \in rtc'.queue

LEMMA AnswerStep == DeliveryInv => KeptNewer
<1> SUFFICES ASSUME DeliveryInv, Answer, NEW m \in rtc.queue, m > call.sample PROVE m \in rtc'.queue
  BY DEF KeptNewer
<1>1. call.stage # "none"
  BY AnswerEffect
<1>2. /\ taken[call.sample].seq < taken[m].seq /\ call.sample \in Taken
      /\ \A h \in rtc.queue : m < h => taken[m].seq < taken[h].seq
  BY <1>1 DEF DeliveryInv, QueueInOrder, CallsGood, GoodCall
<1>3. /\ m \in Nat /\ taken[m].seq \in Nat /\ taken[call.sample].seq \in Nat
      /\ \A h \in rtc.queue : h \in Nat /\ taken[h].seq \in Nat
  BY <1>2, TakenTypes
<1>4. ASSUME NEW h \in rtc.queue, SeqNo(h) = SeqNo(call.sample) PROVE m > h
  BY <1>2, <1>3, <1>4 DEF SeqNo
<1>5. SeqNo(m) # SeqNo(call.sample)
  BY <1>2, <1>3 DEF SeqNo
<1> QED
  BY <1>4, <1>5, AnswerEffect

\* The invariant of the delivery: samples, the queue, the calls under way and
\* the live record agree on what was captured, in which order and when.
THEOREM DeliveryInvariant == DeliverySpec => []DeliveryInv
BY DeliveryStart, DeliveryStep, PTL DEF DeliverySpec

\* However calls are delayed, repeated and overtaken, the live record never goes
\* back to an older sample (telemetrySampleIsNewer()), and no answer takes what
\* was captured after its sample out of the queue (acknowledgeThrough()).
THEOREM NothingGoesBackAlways == DeliverySpec => NothingGoesBack
<1>1. DeliveryInv /\ [DeliveryNext]_deliveryVars =>
         [live.sample # NoSample /\ Comparable(live.sample, live'.sample)
            => live'.sample >= live.sample]_deliveryVars
  BY DeliveryStep DEF NoOlder
<1>2. DeliveryInv => [Answer => \A m \in rtc.queue : m > call.sample => m \in rtc'.queue]_deliveryVars
  BY AnswerStep DEF KeptNewer
<1> QED
  BY <1>1, <1>2, DeliveryInvariant, PTL DEF DeliverySpec, NothingGoesBack, NeverOlder, AnswerKeepsNewer

-----------------------------------------------------------------------------
\* The composition has the behaviours of its parts.
THEOREM IngestHasParts == IngestSpec => DeliverySpec /\ RegistrySpec /\ BudgetSpec
<1>1. IngestInit => DeliveryInit /\ RegistryInit /\ BudgetInit
  BY DEF IngestInit
<1>2. [IngestNext]_ingestVars => [DeliveryNext]_deliveryVars
  BY DEF IngestNext, ingestVars
<1>3. [IngestNext]_ingestVars => [RegistryNext]_registryVars
  BY DEF IngestNext, ingestVars
<1>4. [IngestNext]_ingestVars => [BudgetNext]_budgetVars
  BY DEF IngestNext, ingestVars
<1> QED
  BY <1>1, <1>2, <1>3, <1>4, PTL DEF IngestSpec, DeliverySpec, RegistrySpec, BudgetSpec

\* Everything that is checked of the backend's door for telemetry holds of every
\* number of trackers, nodes, replicas, requests, samples and tokens.
THEOREM IngestKeepsItsPromises ==
    IngestSpec => /\ []CacheIsCurrent
                  /\ []BudgetKept
                  /\ NothingGoesBack
                  /\ LeftBehindIsRetired
BY IngestHasParts, CacheIsCurrentAlways, BudgetKeptAlways, NothingGoesBackAlways, LeftBehindIsRetiredAlways, PTL
=============================================================================
