----------------------- MODULE CronJobReconcilerProofs -----------------------
(***************************************************************************)
(* What holds of CronJobReconciler for any specs, schedule and bounds.     *)
(***************************************************************************)
EXTENDS CronJobReconciler, SequenceTheorems, WellFoundedInduction, TLAPS

------------------------------------------------------------------------------
(* Least and greatest elements, and what the loop over the slots finds.    *)

LEMMA Least ==
    ASSUME NEW S, S \subseteq Nat, S # {}
    PROVE  \E i \in S : \A j \in S : i <= j
<1>1. IsWellFoundedOn(OpToRel(<, Nat), Nat)
  BY NatLessThanWellFounded
<1>2. PICK i \in S : \A j \in S : ~ (<<j, i>> \in OpToRel(<, Nat))
  BY <1>1, WFMin
<1>3. \A j \in S : ~ (j < i)
  BY <1>2 DEF OpToRel
<1> QED
  BY <1>3

LEMMA TimesAre ==
    /\ Slots \subseteq Nat /\ Slots \subseteq Times
    /\ Times \subseteq Nat /\ Zero \in Times /\ Never \in Times
  BY BoundsAssumption, SlotsAssumption DEF Times, Zero, Never

LEMMA OldestIs ==
    ASSUME NEW S, S \subseteq Nat, S # {}
    PROVE  Oldest(S) \in S /\ \A j \in S : Oldest(S) <= j
  BY Least DEF Oldest

LEMMA LatestIs ==
    ASSUME NEW S, S \subseteq Times, S # {}
    PROVE  Latest(S) \in S /\ \A u \in S : u <= Latest(S)
<1> DEFINE T == {Never - u : u \in S}
<1>1. Never \in Nat /\ \A u \in S : u \in Nat /\ u <= Never
  BY BoundsAssumption DEF Times, Never, Zero
<1>2. T \subseteq Nat /\ T # {}
  BY <1>1
<1>3. PICK i \in T : \A j \in T : i <= j
  BY <1>2, Least
<1>4. PICK t \in S : i = Never - t
  OBVIOUS
<1>5. \A u \in S : u <= t
  BY <1>1, <1>3, <1>4
<1> QED
  BY <1>5 DEF Latest

LEMMA NextSlotIs ==
    ASSUME NEW t \in Times
    PROVE  \/ /\ NextSlot(t) \in Slots /\ NextSlot(t) > t
              /\ \A u \in Slots : u > t => NextSlot(t) <= u
           \/ NextSlot(t) = Never /\ \A u \in Slots : u <= t
<1> DEFINE later == {s \in Slots : s > t}
<1>1. t \in Nat /\ \A s \in Slots : s \in Nat
  BY BoundsAssumption, SlotsAssumption DEF Times, Zero, Never
<1>2. CASE later = {}
  BY <1>1, <1>2 DEF NextSlot
<1>3. CASE later # {}
  <2>1. \E s \in later : \A u \in later : s <= u
    BY <1>1, <1>3, Least
  <2> QED
    BY <1>3, <2>1 DEF NextSlot
<1> QED
  BY <1>2, <1>3

\* One row of the table that Scan is, and the table of the rows up to k.
Row(f, left) ==
    [t \in Times |->
       LET s == NextSlot(t)
       IN  IF Beyond(s) \/ left = 0
           THEN [missed |-> LastMissed(t, left), error |-> left = 0]
           ELSE f[left - 1][s]]

Rows(f, k) == f = [left \in 0..k |-> Row(f, left)]

LEMMA RowBefore ==
    ASSUME NEW f, NEW g, NEW left \in Nat, left # 0 => f[left - 1] = g[left - 1]
    PROVE  Row(f, left) = Row(g, left)
<1>1. CASE left = 0
  BY <1>1 DEF Row
<1>2. CASE left # 0
  BY <1>2 DEF Row
<1> QED
  BY <1>1, <1>2

LEMMA RowsExist == \A k \in Nat : \E f : Rows(f, k)
<1> DEFINE bad == {k \in Nat : ~ \E f : Rows(f, k)}
<1>1. SUFFICES ASSUME bad # {} PROVE FALSE
  OBVIOUS
<1>2. PICK k \in bad : \A j \in bad : k <= j
  BY <1>1, Least
<1>3. SUFFICES \E f : Rows(f, k)
  BY <1>2
<1>4. CASE k = 0
  <2> DEFINE f == [left \in 0..0 |-> Row([i \in {} |-> {}], left)]
  <2>1. f = [left \in 0..0 |-> Row(f, left)]
    BY RowBefore
  <2> QED
    BY <1>4, <2>1 DEF Rows
<1>5. CASE k # 0
  <2>1. k - 1 \in Nat /\ k - 1 \notin bad
    BY <1>2, <1>5
  <2>2. PICK g : Rows(g, k - 1)
    BY <2>1
  <2>3. \A left \in 0..(k - 1) : g[left] = Row(g, left)
    BY <2>2 DEF Rows
  <2> DEFINE f == [left \in 0..k |-> IF left = k THEN Row(g, k) ELSE g[left]]
  <2>4. \A left \in 0..k : f[left] = Row(g, left)
    BY <2>3
  <2>5. \A left \in 0..k : left # 0 => f[left - 1] = g[left - 1]
    BY <2>1
  <2>6. f = [left \in 0..k |-> f[left]]
    OBVIOUS
  <2> HIDE DEF f
  <2>7. \A left \in 0..k : Row(f, left) = Row(g, left)
    BY <2>5, RowBefore
  <2> QED
    BY <2>4, <2>6, <2>7 DEF Rows
<1> QED
  BY <1>4, <1>5

LEMMA ScanIs == Rows(Scan, MaxMissed + 1)
<1>1. \E f : Rows(f, MaxMissed + 1)
  BY RowsExist, BoundsAssumption
<1>2. Scan = CHOOSE f : Rows(f, MaxMissed + 1)
  BY DEF Scan, Rows, Row
<1> QED
  BY <1>1, <1>2

\* What the loop makes of the slots after t that have come.
Missed(t) == {s \in Slots : t < s /\ s <= now}

Finds(left, t) ==
    /\ Scan[left][t].missed \in Missed(t) \cup {LastMissed(t, left)}
    /\ ~ Scan[left][t].error =>
         Scan[left][t].missed = IF Missed(t) = {} THEN LastMissed(t, left)
                                ELSE Latest(Missed(t))

LEMMA ScanFinds ==
    ASSUME now \in 0..Horizon
    PROVE  \A left \in 0..(MaxMissed + 1) : \A t \in Times :
             (left # MaxMissed + 1 => t \in Slots /\ t <= now) => Finds(left, t)
<1> DEFINE Right(left) == \A t \in Times :
             (left # MaxMissed + 1 => t \in Slots /\ t <= now) => Finds(left, t)
           bad == {left \in 0..(MaxMissed + 1) : ~ Right(left)}
<1>1. SUFFICES ASSUME bad # {} PROVE FALSE
  OBVIOUS
<1>2. bad \subseteq Nat
  BY BoundsAssumption
<1>3. PICK left \in bad : \A j \in bad : left <= j
  BY <1>1, <1>2, Least
<1>4. SUFFICES ASSUME NEW t \in Times, left # MaxMissed + 1 => t \in Slots /\ t <= now
               PROVE  Finds(left, t)
  BY <1>3
<1> DEFINE s == NextSlot(t)
<1>5. left \in 0..(MaxMissed + 1) /\ t \in Nat /\ now \in Nat /\ now < Never
  BY <1>3, BoundsAssumption DEF Times, Never, Zero
<1>a. Slots \subseteq Nat /\ Slots \subseteq Times /\ Never \notin Slots
  BY BoundsAssumption, SlotsAssumption DEF Times, Never, Zero
<1>b. /\ s # Never => s \in Slots /\ s > t
      /\ \A u \in Slots : u > t => s <= u
  BY <1>5, <1>a, NextSlotIs
<1>c. s \in Nat
  <2>1. Never \in Nat
    BY BoundsAssumption DEF Never
  <2> QED
    BY <1>a, <1>b, <2>1
<1> HIDE DEF s
<1>6. Scan[left][t] = IF Beyond(s) \/ left = 0
                      THEN [missed |-> LastMissed(t, left), error |-> left = 0]
                      ELSE Scan[left - 1][s]
  <2>1. Scan[left] = Row(Scan, left)
    BY <1>5, ScanIs DEF Rows
  <2> QED
    BY <2>1 DEF Row, s
<1>7. CASE Beyond(s)
  <2>1. \A u \in Slots : ~ (t < u /\ u <= now)
    BY <1>5, <1>7, <1>a, <1>b, <1>c DEF Beyond
  <2>2. Missed(t) = {}
    BY <2>1 DEF Missed
  <2> QED
    BY <1>6, <1>7, <2>2 DEF Finds
<1>8. CASE left = 0
  <2>1. Scan[left][t] = [missed |-> LastMissed(t, left), error |-> TRUE]
    BY <1>6, <1>8
  <2> QED
    BY <2>1 DEF Finds
<1>9. CASE ~ Beyond(s) /\ left # 0
  <2>1. s \in Slots /\ t < s /\ s <= now
    BY <1>5, <1>9, <1>b, <1>c DEF Beyond
  <2>2. left - 1 \in 0..(MaxMissed + 1) /\ left - 1 < left /\ left - 1 # MaxMissed + 1
    BY <1>5, <1>9, BoundsAssumption
  <2>3. Finds(left - 1, s)
    BY <1>3, <1>a, <2>1, <2>2
  <2>4. LastMissed(s, left - 1) = s
    BY <2>2 DEF LastMissed
  <2>5. Missed(t) = {s} \cup Missed(s)
    <3>1. \A u \in Slots : t < u /\ u <= now <=> u = s \/ (s < u /\ u <= now)
      BY <1>5, <1>a, <1>b, <2>1
    <3> QED
      BY <2>1, <3>1 DEF Missed
  <2>6. Latest(Missed(t)) = IF Missed(s) = {} THEN s ELSE Latest(Missed(s))
    <3> DEFINE l == Latest(Missed(t))
               m == IF Missed(s) = {} THEN s ELSE Latest(Missed(s))
    <3>1. Missed(t) \subseteq Times /\ Missed(s) \subseteq Times /\ Missed(t) # {}
      BY <1>a, <2>5 DEF Missed
    <3>2. l \in Missed(t) /\ \A u \in Missed(t) : u <= l
      BY <3>1, LatestIs
    <3>3. Missed(s) # {} => m \in Missed(s) /\ \A u \in Missed(s) : u <= m
      BY <3>1, LatestIs
    <3>4. m \in Missed(t) /\ \A u \in Missed(t) : u <= m
      <4>1. CASE Missed(s) = {}
        BY <1>a, <2>1, <2>5, <4>1
      <4>2. CASE Missed(s) # {}
        <5>1. m \in Missed(s) /\ s < m
          BY <3>3, <4>2 DEF Missed
        <5> HIDE DEF m
        <5> QED
          BY <1>a, <2>1, <2>5, <3>3, <4>2, <5>1 DEF Missed
      <4> QED
        BY <4>1, <4>2
    <3>5. l \in Nat /\ m \in Nat /\ l <= m /\ m <= l
      BY <1>a, <3>2, <3>4 DEF Missed
    <3> HIDE DEF l, m
    <3>6. l = m
      BY <3>5
    <3> QED
      BY <3>6 DEF l, m
  <2>7. Scan[left][t] = Scan[left - 1][s]
    BY <1>6, <1>9
  <2> QED
    BY <2>3, <2>4, <2>5, <2>6, <2>7 DEF Finds
<1> QED
  BY <1>7, <1>8, <1>9

LEMMA EarliestIs ==
    ASSUME now \in 0..Horizon, NEW c \in CronJob
    PROVE  Earliest(c) \in Times /\ Earliest(c) >= c.last
<1>1. /\ c.last \in Nat /\ c.created \in Nat /\ now \in Nat /\ now <= Never
      /\ c.last <= Never /\ c.created <= Never
      /\ c.spec.deadline \in Nat \cup {Unset}
  BY BoundsAssumption, SpecsAssumption DEF CronJob, Times, Never, Zero, Spec_
<1> QED
  BY <1>1, BoundsAssumption DEF Earliest, Times, Never, Zero, Unset


------------------------------------------------------------------------------
(* The invariant. *)

Cancelled(i) == pods[i].phase # "Active" \/ pods[i].deleting

\* The copy p of the pod i may be old.
PodSeen(i, p) ==
    /\ i \in DOMAIN pods
    /\ p.slot = pods[i].slot
    /\ p.phase # "Active" => pods[i].phase \in {p.phase, "Gone"}

\* The cache of pods and the events on their way to it.
Mirror ==
    /\ Len(pods) <= MaxPods
    /\ \A i \in DOMAIN podCache : PodSeen(i, podCache[i])
    /\ \A j \in DOMAIN podWatch : PodSeen(podWatch[j].id, podWatch[j].pod)
    /\ \A j \in DOMAIN podWatch :
         \/ podWatch[j].id <= Len(podCache) + 1
         \/ \E k \in DOMAIN podWatch : k < j /\ podWatch[k].id = podWatch[j].id - 1
    /\ up => \A i \in DOMAIN pods :
               i <= Len(podCache) \/ \E k \in DOMAIN podWatch : podWatch[k].id = i

\* The copy c of a CronJob may be old, or of an earlier one of the name.  With the version
\* that is stored it has the spec that is stored.
CronSeen(c) ==
    c # None =>
      /\ c.uid <= lastUid
      /\ cron # None /\ cron.uid = c.uid =>
           /\ cron.created = c.created
           /\ c.rv <= cron.rv
           /\ c.rv = cron.rv => c.spec = cron.spec

Copies ==
    /\ CronSeen(cron) /\ CronSeen(cronCache) /\ CronSeen(rec.inst)
    /\ \A i \in DOMAIN cronWatch : CronSeen(cronWatch[i])

Owned == \A i \in DOMAIN pods : pods[i].owner <= lastUid

\* What the pass knows when it comes to each stage.
Planned == {"deadline", "policy", "replace", "create"}

Undecided == {"get", "list", "status", "cleanFailed", "cleanSucceeded", "suspend", "schedule"}

Listing == (Undecided \ {"get", "list"}) \cup {"plan"} \cup Planned

Pass ==
    /\ rec.pc = "list" => rec.inst \in CronJob
    /\ rec.pc \in Listing =>
         /\ rec.inst \in CronJob
         /\ rec.inst.created <= rec.inst.last
         /\ \A i \in rec.active \cup rec.failed \cup rec.succeeded :
              i \in DOMAIN pods /\ pods[i].slot <= rec.inst.last
         /\ \A i \in rec.failed : pods[i].phase \in {"Failed", "Gone"}
         /\ \A i \in rec.succeeded : pods[i].phase \in {"Succeeded", "Gone"}
         /\ rec.active = {a[1] : a \in rec.inst.active}
    /\ rec.pc = "status" =>
         \/ rec.inst.last = rec.inst.created
         \/ \E i \in DOMAIN pods : pods[i].slot = rec.inst.last
    /\ rec.pc \in Undecided => rec.missed = Zero
    /\ rec.pc = "schedule" => ~ rec.inst.spec.suspend
    /\ rec.pc \in {"plan"} \cup Planned /\ rec.missed # Zero =>
         rec.inst.last < rec.missed /\ rec.missed <= now
    /\ rec.pc \in Planned => rec.missed # Zero
    /\ rec.pc = "replace" =>
         /\ rec.inst.spec.policy = "Replace"
         /\ rec.todo \subseteq rec.active /\ \A i \in rec.active \ rec.todo : Cancelled(i)
    /\ rec.pc = "create" /\ rec.inst.spec.policy = "Forbid" => rec.active = {}
    /\ rec.pc = "create" /\ rec.inst.spec.policy = "Replace" =>
         \A i \in rec.active : Cancelled(i)

Sound ==
    /\ TypeOK /\ now <= Horizon
    /\ Mirror /\ Copies /\ Owned /\ RunsAreDue /\ Pass
    /\ ~ up => podCache = <<>> /\ podWatch = <<>>

------------------------------------------------------------------------------
(* The parts of a step. *)

LEMMA IdleIs == Idle \in Reconcile_ /\ Idle.pc = "idle" /\ Idle.inst = None
  BY BoundsAssumption DEF Idle, Reconcile_, PCs, Zero, Never

LEMMA NewQueueType == NewQueue({Key}) \in WorkQueues({Key}, Times)
  BY DEF WorkQueues, NewQueue, NoTimer

LEMMA QueueTypes ==
    ASSUME NEW q \in WorkQueues({Key}, Times), NEW t \in Times
    PROVE  /\ Add(q, Key) \in WorkQueues({Key}, Times)
           /\ Get(q, Key) \in WorkQueues({Key}, Times)
           /\ Fire(q, Key) \in WorkQueues({Key}, Times)
           /\ Done(q, Key) \in WorkQueues({Key}, Times)
           /\ Forget(q, Key) \in WorkQueues({Key}, Times)
           /\ AddAfter(q, Key, t) \in WorkQueues({Key}, Times)
           /\ AddRateLimited(q, Key, t) \in WorkQueues({Key}, Times)
  BY DEF WorkQueues, Add, AddAll, Get, Fire, Done, Forget, AddAfter, AddRateLimited,
         NoTimer

LEMMA PutIs ==
    ASSUME NEW S, NEW ps \in Seq(S), NEW p \in S, NEW i \in 1..(Len(ps) + 1)
    PROVE  /\ Put(ps, i, p) \in Seq(S)
           /\ Len(Put(ps, i, p)) = IF i > Len(ps) THEN Len(ps) + 1 ELSE Len(ps)
           /\ DOMAIN Put(ps, i, p) = 1..Len(Put(ps, i, p))
           /\ Put(ps, i, p)[i] = p
           /\ \A j \in DOMAIN ps : j # i => Put(ps, i, p)[j] = ps[j]
<1>1. CASE i > Len(ps)
  BY <1>1, AppendProperties DEF Put
<1>2. CASE ~ (i > Len(ps))
  BY <1>2, ExceptSeq DEF Put
<1> QED
  BY <1>1, <1>2

\* What no step takes back.
Grows ==
    \A i \in DOMAIN pods :
      /\ i \in DOMAIN pods'
      /\ pods'[i].slot = pods[i].slot /\ pods'[i].owner = pods[i].owner
      /\ pods[i].phase # "Active" => pods'[i].phase \in {pods[i].phase, "Gone"}
      /\ Cancelled(i) => Cancelled(i)'

\* p is a later version of the pod that was o.
Succeeds(p, o) ==
    /\ p.slot = o.slot /\ p.owner = o.owner
    /\ o.phase # "Active" => p.phase \in {o.phase, "Gone"}
    /\ o.deleting => p.deleting

LEMMA StorePodKept ==
    ASSUME Sound, NEW p \in Pod, NEW i \in PodIds, StorePod(i, p), UNCHANGED <<podCache, up>>,
           \/ i \in DOMAIN pods /\ Succeeds(p, pods[i])
           \/ i = Len(pods) + 1
    PROVE  /\ pods' \in Seq(Pod) /\ podWatch' \in Seq([id : PodIds, pod : Pod])
           /\ Mirror' /\ Grows
           /\ ~ up => podWatch' = <<>>
           /\ pods'[i] = p
           /\ \A j \in DOMAIN pods' : j # i => j \in DOMAIN pods /\ pods'[j] = pods[j]
<1> DEFINE e == [id |-> i, pod |-> p]
<1>1. /\ pods \in Seq(Pod) /\ podCache \in Seq(Pod)
      /\ podWatch \in Seq([id : PodIds, pod : Pod])
      /\ Len(pods) \in Nat /\ Len(podCache) \in Nat /\ Len(podWatch) \in Nat
      /\ DOMAIN pods = 1..Len(pods) /\ DOMAIN podCache = 1..Len(podCache)
      /\ DOMAIN podWatch = 1..Len(podWatch)
  BY DEF Sound, TypeOK
<1>2. i \in 1..(Len(pods) + 1) /\ i \in Nat /\ i <= MaxPods
  BY <1>1, BoundsAssumption DEF PodIds
<1>a. /\ pods' = Put(pods, i, p) /\ podCache' = podCache /\ up' = up
      /\ podWatch' = IF up THEN Append(podWatch, e) ELSE podWatch
  BY DEF StorePod
<1>3. /\ pods' \in Seq(Pod) /\ DOMAIN pods' = 1..Len(pods') /\ pods'[i] = p
      /\ Len(pods') = IF i > Len(pods) THEN Len(pods) + 1 ELSE Len(pods)
      /\ \A j \in DOMAIN pods : j # i => pods'[j] = pods[j]
  <2>1. pods \in Seq(Pod) /\ p \in Pod /\ i \in 1..(Len(pods) + 1)
    BY <1>1, <1>2
  <2>2. /\ Put(pods, i, p) \in Seq(Pod)
        /\ Len(Put(pods, i, p)) = IF i > Len(pods) THEN Len(pods) + 1 ELSE Len(pods)
        /\ DOMAIN Put(pods, i, p) = 1..Len(Put(pods, i, p))
        /\ Put(pods, i, p)[i] = p
        /\ \A j \in DOMAIN pods : j # i => Put(pods, i, p)[j] = pods[j]
    BY ONLY <2>1, PutIs
  <2> QED
    BY <1>a, <2>2
<1>4. Grows
  BY <1>1, <1>2, <1>3 DEF Grows, Cancelled, Succeeds
<1>5. e \in [id : PodIds, pod : Pod]
  OBVIOUS
<1> HIDE DEF e
<1>6. /\ podWatch' \in Seq([id : PodIds, pod : Pod])
      /\ \A j \in DOMAIN podWatch : j \in DOMAIN podWatch' /\ podWatch'[j] = podWatch[j]
      /\ \A j \in DOMAIN podWatch' :
           j \in DOMAIN podWatch \/ (up /\ j = Len(podWatch) + 1 /\ podWatch'[j] = e)
      /\ up => /\ Len(podWatch) + 1 \in DOMAIN podWatch'
               /\ podWatch'[Len(podWatch) + 1] = e
  <2>1. CASE up
    BY <1>1, <1>5, <1>a, <2>1, AppendProperties
  <2>2. CASE ~ up
    BY <1>1, <1>a, <2>2
  <2> QED
    BY <2>1, <2>2
<1>10. \A j \in PodIds : \A q \in Pod : PodSeen(j, q) => PodSeen(j, q)'
  BY <1>4 DEF PodSeen, Grows
<1>11. PodSeen(i, p)'
  BY <1>1, <1>2, <1>3 DEF PodSeen
<1>12. Len(pods') <= MaxPods
  BY <1>1, <1>2, <1>3 DEF Sound, Mirror
<1>13. \A j \in DOMAIN podCache' : PodSeen(j, podCache[j])'
  <2>1. \A j \in DOMAIN podCache : j \in PodIds /\ podCache[j] \in Pod /\ PodSeen(j, podCache[j])
    BY <1>1, BoundsAssumption DEF Sound, Mirror, PodSeen, PodIds
  <2> QED
    BY <1>10, <1>a, <2>1
<1>14. \A j \in DOMAIN podWatch' : PodSeen(podWatch[j].id, podWatch[j].pod)'
  <2>1. \A j \in DOMAIN podWatch : /\ podWatch[j].id \in PodIds /\ podWatch[j].pod \in Pod
                                  /\ PodSeen(podWatch[j].id, podWatch[j].pod)
    <3>1. \A j \in DOMAIN podWatch : podWatch[j] \in [id : PodIds, pod : Pod]
      BY <1>1, ElementOfSeq, Zenon
    <3> QED
      BY <3>1 DEF Sound, Mirror
  <2>2. e.id = i /\ e.pod = p
    BY DEF e
  <2> QED
    BY <1>6, <1>10, <1>11, <2>1, <2>2
<1>15. ASSUME NEW j \in DOMAIN podWatch'
       PROVE  \/ podWatch'[j].id <= Len(podCache) + 1
              \/ \E k \in DOMAIN podWatch' : k < j /\ podWatch'[k].id = podWatch'[j].id - 1
  <2>1. CASE j \in DOMAIN podWatch
    BY <1>6, <2>1 DEF Sound, Mirror
  <2>2. CASE up /\ j = Len(podWatch) + 1 /\ podWatch'[j] = e
    <3>1. podWatch'[j].id = i
      BY <2>2 DEF e
    <3>2. CASE i - 1 \in DOMAIN pods
      <4>1. \/ i - 1 <= Len(podCache)
            \/ \E k \in DOMAIN podWatch : podWatch[k].id = i - 1
        BY <2>2, <3>2 DEF Sound, Mirror
      <4>2. CASE i - 1 <= Len(podCache)
        BY <1>1, <1>2, <3>1, <4>2
      <4>3. ASSUME NEW k \in DOMAIN podWatch, podWatch[k].id = i - 1
            PROVE  k \in DOMAIN podWatch' /\ k < j /\ podWatch'[k].id = podWatch'[j].id - 1
        BY <1>1, <1>6, <2>2, <3>1, <4>3
      <4> QED
        BY <4>1, <4>2, <4>3
    <3>3. CASE i = 1
      BY <1>1, <3>1, <3>3
    <3> QED
      BY <1>1, <1>2, <3>2, <3>3
  <2> QED
    BY <1>6, <2>1, <2>2
<1>16. ASSUME up, NEW j \in DOMAIN pods'
       PROVE  j <= Len(podCache) \/ \E k \in DOMAIN podWatch' : podWatch'[k].id = j
  <2>1. CASE j = i
    <3>1. Len(podWatch) + 1 \in DOMAIN podWatch' /\ podWatch'[Len(podWatch) + 1].id = i
      BY <1>1, <1>6, <1>16 DEF e
    <3> QED
      BY <2>1, <3>1
  <2>2. CASE j # i
    <3>1. j \in DOMAIN pods
      BY <1>1, <1>2, <1>3, <2>2
    <3> QED
      BY <1>6, <1>16, <3>1 DEF Sound, Mirror
  <2> QED
    BY <2>1, <2>2
<1>17. Mirror'
  BY <1>12, <1>13, <1>14, <1>15, <1>16, <1>a DEF Mirror
<1>18. \A j \in DOMAIN pods' : j # i => j \in DOMAIN pods /\ pods'[j] = pods[j]
  BY <1>1, <1>2, <1>3
<1> QED
  BY <1>3, <1>4, <1>6, <1>17, <1>18, <1>a DEF Sound

LEMMA DeletePodIs ==
    ASSUME Sound, NEW i \in DOMAIN pods, DeletePod(i)
    PROVE  \/ UNCHANGED <<pods, podWatch>> /\ Cancelled(i)
           \/ \E p \in Pod : /\ Succeeds(p, pods[i]) /\ StorePod(i, p)
                             /\ p.deleting \/ p.phase # "Active"
<1>1. pods[i] \in Pod
  BY DEF Sound, TypeOK
<1>2. CASE pods[i].phase = "Active" /\ ~ pods[i].deleting
  <2> DEFINE p == [pods[i] EXCEPT !.deleting = TRUE]
  <2>1. p \in Pod /\ Succeeds(p, pods[i]) /\ p.deleting
    BY <1>1 DEF Pod, Succeeds
  <2>2. StorePod(i, p)
    BY <1>2 DEF DeletePod, Finished
  <2> QED
    BY <2>1, <2>2
<1>3. CASE pods[i].phase \in Finished
  <2> DEFINE p == [pods[i] EXCEPT !.phase = "Gone"]
  <2>1. p \in Pod /\ Succeeds(p, pods[i]) /\ p.phase # "Active"
    BY <1>1 DEF Pod, Succeeds
  <2>2. StorePod(i, p)
    BY <1>3 DEF DeletePod, Finished
  <2> QED
    BY <2>1, <2>2
<1>4. CASE pods[i].phase = "Gone" \/ (pods[i].phase = "Active" /\ pods[i].deleting)
  BY <1>1, <1>4 DEF DeletePod, Cancelled, Finished
<1> QED
  BY <1>1, <1>2, <1>3, <1>4 DEF DeletePod, Pod

\* The clock goes on, the pods grow older, and the pass stays where it is.
LEMMA PassKept ==
    ASSUME Sound, Grows, UNCHANGED rec, now' \in Nat, now <= now'
    PROVE  Pass'
<1>1. Pass /\ rec \in Reconcile_ /\ now \in Nat
  BY BoundsAssumption DEF Sound, TypeOK, Times, Zero, Never
<1>2. rec.missed \in Nat
  <2>1. rec.missed \in Slots \cup {Zero}
    BY <1>1 DEF Reconcile_
  <2> QED
    BY <2>1, TimesAre
<1>3. \A i : Cancelled(i) /\ i \in DOMAIN pods => Cancelled(i)'
  BY DEF Grows
<1> QED
  BY <1>1, <1>2, <1>3 DEF Pass, Grows, Listing, Planned, Undecided

\* A request about the pod i, and what the pass makes of the answer.
LEMMA PodSound ==
    ASSUME Sound, NEW i \in DOMAIN pods, NEW p \in Pod, Succeeds(p, pods[i]), StorePod(i, p),
           UNCHANGED <<cron, lastUid, now, cronCache, podCache, cronWatch, up, queue>>,
           budget' \in [Kinds -> Nat], rec' \in Reconcile_, rec'.inst \in {rec.inst, None},
           Grows => Pass'
    PROVE  Sound'
<1>1. i \in PodIds
  BY BoundsAssumption DEF Sound, TypeOK, Mirror, PodIds
<1>2. /\ pods' \in Seq(Pod) /\ podWatch' \in Seq([id : PodIds, pod : Pod])
      /\ Mirror' /\ Grows
      /\ ~ up => podWatch' = <<>>
      /\ pods'[i] = p
      /\ \A j \in DOMAIN pods' : j # i => j \in DOMAIN pods /\ pods'[j] = pods[j]
  BY <1>1, StorePodKept
<1>3. \A j \in DOMAIN pods' : j \in DOMAIN pods /\ pods'[j].slot = pods[j].slot
                                               /\ pods'[j].owner = pods[j].owner
  BY <1>2 DEF Succeeds
<1>4. TypeOK'
  BY <1>2 DEF Sound, TypeOK
<1>5. Owned' /\ RunsAreDue'
  BY <1>3 DEF Sound, Owned, RunsAreDue
<1>6. Copies'
  BY DEF Sound, Copies, CronSeen
<1> QED
  BY <1>2, <1>4, <1>5, <1>6 DEF Sound

\* Nothing that is stored or cached changes.
LEMMA LocalSound ==
    ASSUME Sound, UNCHANGED <<api, now, caches, up>>,
           budget' \in [Kinds -> Nat], queue' \in WorkQueues({Key}, Times),
           rec' \in Reconcile_, CronSeen(rec'.inst), Pass'
    PROVE  Sound'
<1>1. TypeOK'
  BY DEF Sound, TypeOK, api, caches
<1>2. Mirror'
  BY DEF Sound, Mirror, PodSeen, api, caches
<1>3. Copies'
  BY DEF Sound, Copies, CronSeen, api, caches
<1>4. Owned' /\ RunsAreDue'
  BY DEF Sound, Owned, RunsAreDue, api, caches
<1> QED
  BY <1>1, <1>2, <1>3, <1>4 DEF Sound, api, caches

\* A CronJob is written: a new one, or the stored one as it was made.
LEMMA CronSound ==
    ASSUME Sound, NEW c \in CronJob \cup {None}, StoreCron(c), lastUid' \in 0..MaxUid,
           \/ c # None /\ c.uid = lastUid + 1 /\ lastUid' = lastUid + 1
           \/ /\ cron # None /\ c # None /\ c.uid = cron.uid /\ c.created = cron.created
              /\ c.rv = cron.rv + 1
              /\ UNCHANGED lastUid
           \/ c = None /\ UNCHANGED lastUid,
           UNCHANGED <<pods, now, cronCache, podCache, podWatch, up, queue>>,
           budget' \in [Kinds -> Nat], rec' \in Reconcile_, Pass',
           \/ rec'.inst \in {rec.inst, None}
           \/ rec'.inst = c
    PROVE  Sound'
<1>1. /\ cron' = c /\ lastUid \in Nat /\ cron \in CronJob \cup {None}
      /\ cronWatch \in Seq(CronJob \cup {None})
      /\ cronWatch' = IF up THEN Append(cronWatch, c) ELSE cronWatch
      /\ cronCache \in CronJob \cup {None} /\ rec.inst \in CronJob \cup {None}
  BY DEF StoreCron, Sound, TypeOK, Reconcile_
<1>2. /\ cronWatch' \in Seq(CronJob \cup {None})
      /\ \A i \in DOMAIN cronWatch' :
            cronWatch'[i] = c \/ \E j \in DOMAIN cronWatch : cronWatch'[i] = cronWatch[j]
  BY <1>1, AppendProperties
<1>3. TypeOK'
  BY <1>1, <1>2 DEF Sound, TypeOK
<1>4. Mirror'
  BY DEF Sound, Mirror, PodSeen
<1>5. \A d \in CronJob \cup {None} : CronSeen(d) => CronSeen(d)'
  <2> SUFFICES ASSUME NEW d \in CronJob, CronSeen(d) PROVE CronSeen(d)'
    BY DEF CronSeen
  <2>1. \A e \in CronJob : e # None /\ e.uid \in Nat /\ e.rv \in Nat
    BY NoneAssumption DEF CronJob
  <2>2. d.uid <= lastUid /\ lastUid <= lastUid'
    BY <1>1, <2>1 DEF CronSeen
  <2>3. d.uid <= lastUid'
    BY <1>1, <2>1, <2>2
  <2>4. CASE c # None /\ c.uid = lastUid + 1
    BY <1>1, <2>1, <2>2, <2>3, <2>4 DEF CronSeen
  <2>5. CASE cron # None /\ c # None /\ c.uid = cron.uid /\ c.created = cron.created
             /\ c.rv = cron.rv + 1
    BY <1>1, <2>1, <2>3, <2>5 DEF CronSeen
  <2>6. CASE c = None
    BY <1>1, <2>3, <2>6 DEF CronSeen
  <2> QED
    BY <2>4, <2>5, <2>6
<1>6. CronSeen(c)'
  <2>1. c # None => c.rv \in Nat /\ c.uid <= lastUid'
    BY <1>1 DEF CronSeen, Sound, Copies, CronJob
  <2> QED
    BY <1>1, <2>1 DEF CronSeen
<1>7. \A i \in DOMAIN cronWatch : cronWatch[i] \in CronJob \cup {None} /\ CronSeen(cronWatch[i])
  BY <1>1, ElementOfSeq DEF Sound, Copies
<1>8. /\ CronSeen(cron)' /\ CronSeen(cronCache)'
      /\ \A i \in DOMAIN cronWatch' : CronSeen(cronWatch[i])'
  BY <1>1, <1>2, <1>5, <1>6, <1>7 DEF Sound, Copies
<1>9. CronSeen(rec.inst)'
  <2>1. CronSeen(rec.inst)
    BY DEF Sound, Copies
  <2>2. \A d \in {rec.inst, None, c} : CronSeen(d)'
    BY <1>1, <1>5, <1>6, <2>1 DEF CronSeen
  <2> QED
    BY <2>2
<1>10. Copies'
  BY <1>8, <1>9 DEF Copies
<1>11. Owned' /\ RunsAreDue'
  <2>1. \A i \in DOMAIN pods : pods[i].owner \in Nat /\ pods[i].owner <= lastUid
    <3>1. \A i \in DOMAIN pods : pods[i] \in Pod
      BY DEF Sound, TypeOK
    <3> QED
      BY <3>1 DEF Sound, Owned, Pod
  <2> QED
    BY <1>1, <2>1 DEF Sound, Owned, RunsAreDue
<1> QED
  BY <1>3, <1>4, <1>10, <1>11 DEF Sound

LEMMA DownSound ==
    ASSUME Sound, Down, budget' \in [Kinds -> Nat]
    PROVE  Sound'
<1>1. /\ up' = FALSE /\ cronCache' = None /\ podCache' = <<>> /\ cronWatch' = <<>>
      /\ podWatch' = <<>> /\ queue' = NewQueue({Key}) /\ rec' = Idle
      /\ UNCHANGED <<cron, pods, lastUid, now>>
  BY DEF Down, api
<1>3. TypeOK'
  BY <1>1, IdleIs, NewQueueType, EmptySeq DEF Sound, TypeOK
<1>4. Mirror'
  BY <1>1 DEF Sound, Mirror
<1>5. Copies'
  BY <1>1, IdleIs DEF Sound, Copies, CronSeen
<1>6. Owned' /\ RunsAreDue'
  BY <1>1 DEF Sound, Owned, RunsAreDue
<1>7. Pass'
  BY <1>1, IdleIs DEF Pass, Listing, Planned, Undecided
<1> QED
  BY <1>1, <1>3, <1>4, <1>5, <1>6, <1>7 DEF Sound

LEMMA SpendTypes ==
    ASSUME TypeOK, NEW kind \in Kinds, Spend(kind)
    PROVE  budget' \in [Kinds -> Nat]
  BY DEF TypeOK, Spend

LEMMA SoundInit == Init => Sound
<1> SUFFICES ASSUME Init PROVE Sound
  OBVIOUS
<1>1. now = 1 /\ 1 \in Times /\ 1 <= Horizon /\ 0 \in 0..MaxUid
  BY BoundsAssumption DEF Init, Times, Zero, Never
<1>2. TypeOK
  BY <1>1, IdleIs, NewQueueType, EmptySeq, BoundsAssumption DEF Init, TypeOK
<1>3. Mirror /\ Copies /\ Owned /\ RunsAreDue
  BY IdleIs, BoundsAssumption DEF Init, Mirror, Copies, CronSeen, Owned, RunsAreDue
<1>4. Pass
  BY IdleIs DEF Init, Pass, Listing, Undecided, Planned
<1> QED
  BY <1>1, <1>2, <1>3, <1>4 DEF Init, Sound

LEMMA ClusterSound == Sound /\ Cluster => Sound'
<1> SUFFICES ASSUME Sound, Cluster PROVE Sound'
  OBVIOUS
<1>1. /\ rec \in Reconcile_ /\ budget \in [Kinds -> Nat] /\ cron \in CronJob \cup {None}
      /\ lastUid \in 0..MaxUid /\ now \in Times /\ \A i \in DOMAIN pods : pods[i] \in Pod
  BY DEF Sound, TypeOK
<1>2. ASSUME UNCHANGED <<rec, pods, now>> PROVE Pass'
  BY <1>2 DEF Sound, Pass, Cancelled
<1>3. ASSUME NEW i \in DOMAIN pods, NEW p \in Pod, Succeeds(p, pods[i]), StorePod(i, p),
             PodChanges, budget' \in [Kinds -> Nat]
      PROVE  Sound'
  <2>1. UNCHANGED <<cron, lastUid, now, cronCache, podCache, cronWatch, up, queue, rec>>
    BY <1>3 DEF PodChanges
  <2>2. now \in Nat
    BY <1>1, BoundsAssumption DEF Times, Zero, Never
  <2>3. Grows => Pass'
    BY <2>1, <2>2, PassKept
  <2> QED
    BY <1>1, <1>3, <2>1, <2>3, PodSound
<1>4. ASSUME NEW i \in DOMAIN pods, DeletePod(i), PodChanges, budget' \in [Kinds -> Nat]
      PROVE  Sound'
  <2>1. CASE UNCHANGED <<pods, podWatch>>
    <3>1. UNCHANGED <<api, now, caches, up, queue, rec>>
      BY <1>4, <2>1 DEF PodChanges, api, caches
    <3>2. CronSeen(rec.inst) /\ queue \in WorkQueues({Key}, Times)
      BY DEF Sound, Copies, TypeOK
    <3> QED
      BY <1>1, <1>2, <1>4, <3>1, <3>2, LocalSound DEF api
  <2>2. ASSUME NEW p \in Pod, Succeeds(p, pods[i]), StorePod(i, p)
        PROVE  Sound'
    BY <1>3, <1>4, <2>2
  <2> QED
    BY <1>4, <2>1, <2>2, DeletePodIs
<1>5. ASSUME NEW s \in Specs, CreateCronJob(s) PROVE Sound'
  <2> DEFINE c == [uid |-> lastUid + 1, rv |-> 1, created |-> now, spec |-> s,
                   last |-> Zero, active |-> {}]
  <2>1. c \in CronJob /\ lastUid + 1 \in 0..MaxUid
    BY <1>1, <1>5, BoundsAssumption DEF CronJob, CreateCronJob, Times, Zero, Never
  <2>2. /\ StoreCron(c) /\ c.uid = lastUid + 1 /\ lastUid' = lastUid + 1
        /\ UNCHANGED <<pods, now, budget, cronCache, podCache, podWatch, up, queue, rec>>
    BY <1>5 DEF CreateCronJob
  <2> HIDE DEF c
  <2> QED
    BY <1>1, <1>2, <2>1, <2>2, NoneAssumption, CronSound
<1>6. ASSUME NEW s \in Specs, EditCronJob(s) PROVE Sound'
  <2> DEFINE c == [cron EXCEPT !.spec = s, !.rv = @ + 1]
  <2>1. cron # None /\ c \in CronJob /\ c.uid = cron.uid /\ c.created = cron.created
        /\ c.rv = cron.rv + 1
    <3>1. cron \in CronJob /\ cron.rv + 1 \in Nat
      BY <1>1, <1>6 DEF CronJob, EditCronJob
    <3> QED
      BY <1>6, <3>1 DEF CronJob, EditCronJob
  <2>2. /\ StoreCron(c) /\ budget' \in [Kinds -> Nat]
        /\ UNCHANGED <<pods, lastUid, now, cronCache, podCache, podWatch, up, queue, rec>>
    BY <1>6, SpendTypes DEF EditCronJob, Kinds, Sound
  <2> HIDE DEF c
  <2> QED
    BY <1>1, <1>2, <2>1, <2>2, NoneAssumption, CronSound
<1>7. CASE DeleteCronJob
  <2>1. /\ StoreCron(None) /\ budget' \in [Kinds -> Nat]
        /\ UNCHANGED <<pods, lastUid, now, cronCache, podCache, podWatch, up, queue, rec>>
    BY <1>7, SpendTypes DEF DeleteCronJob, Kinds, Sound
  <2> QED
    BY <1>1, <1>2, <2>1, CronSound
<1>8. ASSUME NEW i \in DOMAIN pods, NEW v \in Finished, PodEnds(i, v) PROVE Sound'
  <2> DEFINE p == [pods[i] EXCEPT !.phase = v]
  <2>1. p \in Pod /\ Succeeds(p, pods[i])
    BY <1>1, <1>8 DEF Pod, Succeeds, Finished, PodEnds
  <2> QED
    BY <1>1, <1>3, <1>8, <2>1 DEF PodEnds
<1>9. ASSUME NEW i \in DOMAIN pods, PodStopped(i) PROVE Sound'
  <2> DEFINE p == [pods[i] EXCEPT !.phase = "Gone"]
  <2>1. p \in Pod /\ Succeeds(p, pods[i])
    BY <1>1 DEF Pod, Succeeds
  <2> QED
    BY <1>1, <1>3, <1>9, <2>1 DEF PodStopped
<1>10. ASSUME NEW i \in DOMAIN pods, EvictPod(i) \/ CollectOrphan(i) PROVE Sound'
  <2>1. budget' \in [Kinds -> Nat]
    BY <1>1, <1>10, SpendTypes DEF EvictPod, CollectOrphan, Kinds, Sound
  <2> QED
    BY <1>4, <1>10, <2>1 DEF EvictPod, CollectOrphan
<1>11. CASE Tick
  <2>1. /\ UNCHANGED <<api, budget, caches, up, queue, rec>>
        /\ now' \in Times /\ now' <= Horizon /\ now' \in Nat /\ now \in Nat /\ now <= now'
    BY <1>1, <1>11, BoundsAssumption DEF Tick, Times, Zero, Never
  <2>2. Grows
    BY <2>1 DEF Grows, Cancelled, api
  <2>3. TypeOK' /\ Mirror' /\ Copies' /\ Owned'
    BY <2>1 DEF Sound, TypeOK, Mirror, PodSeen, Copies, CronSeen, Owned, api, caches
  <2>4. RunsAreDue'
    <3>1. \A i \in DOMAIN pods : pods[i].slot \in Nat
      BY <1>1, TimesAre DEF Pod
    <3> QED
      BY <2>1, <3>1 DEF Sound, RunsAreDue, api
  <2> QED
    BY <2>1, <2>2, <2>3, <2>4, PassKept DEF Sound, caches
<1> QED
  BY <1>5, <1>6, <1>7, <1>8, <1>9, <1>10, <1>11 DEF Cluster

LEMMA ManagerSound == Sound /\ Manager => Sound'
<1> SUFFICES ASSUME Sound, Manager PROVE Sound'
  OBVIOUS
<1>1. /\ TypeOK /\ rec \in Reconcile_ /\ queue \in WorkQueues({Key}, Times) /\ Zero \in Times
      /\ budget \in [Kinds -> Nat] /\ CronSeen(rec.inst)
  BY TimesAre DEF Sound, TypeOK, Copies
<1>2. ASSUME UNCHANGED <<rec, pods, now>> PROVE Pass'
  BY <1>2 DEF Sound, Pass, Cancelled
<1>3. CASE WatchCron
  <2>1. /\ up /\ cronWatch # <<>> /\ cronCache' = Head(cronWatch) /\ cronWatch' = Tail(cronWatch)
        /\ queue' = Add(queue, Key)
        /\ UNCHANGED <<cron, pods, lastUid, now, budget, podCache, podWatch, up, rec>>
    BY <1>3 DEF WatchCron, api
  <2>2. /\ cronWatch \in Seq(CronJob \cup {None}) /\ cronWatch' \in Seq(CronJob \cup {None})
        /\ 1 \in DOMAIN cronWatch /\ cronCache' = cronWatch[1]
        /\ \A i \in DOMAIN cronWatch' :
              i + 1 \in DOMAIN cronWatch /\ cronWatch'[i] = cronWatch[i + 1]
    BY <1>1, <2>1, HeadTailProperties DEF TypeOK
  <2>3. cronCache' \in CronJob \cup {None}
    BY <2>2, ElementOfSeq
  <2>4. TypeOK'
    BY <1>1, <2>1, <2>2, <2>3, QueueTypes DEF TypeOK
  <2>5. Copies'
    BY <2>1, <2>2 DEF Sound, Copies, CronSeen
  <2>6. Mirror' /\ Owned' /\ RunsAreDue'
    BY <2>1 DEF Sound, Mirror, PodSeen, Owned, RunsAreDue
  <2> QED
    BY <1>2, <2>1, <2>4, <2>5, <2>6 DEF Sound
<1>4. CASE WatchPods
  <2> DEFINE e == Head(podWatch)
  <2>1. /\ up /\ podWatch # <<>> /\ podCache' = Put(podCache, e.id, e.pod)
        /\ podWatch' = Tail(podWatch)
        /\ UNCHANGED <<cron, pods, lastUid, now, budget, cronCache, cronWatch, up, queue, rec>>
    BY <1>4 DEF WatchPods, api
  <2>2. /\ podWatch \in Seq([id : PodIds, pod : Pod]) /\ podWatch' \in Seq([id : PodIds, pod : Pod])
        /\ 1 \in DOMAIN podWatch /\ e = podWatch[1]
        /\ DOMAIN podWatch = 1..Len(podWatch) /\ DOMAIN podWatch' = 1..(Len(podWatch) - 1)
        /\ Len(podWatch) \in Nat
        /\ \A j \in DOMAIN podWatch' : podWatch'[j] = podWatch[j + 1]
    BY <1>1, <2>1, HeadTailProperties DEF TypeOK
  <2>3. \A j \in DOMAIN podWatch : podWatch[j] \in [id : PodIds, pod : Pod]
    BY <2>2, ElementOfSeq, Zenon
  <2>4. e.id \in PodIds /\ e.pod \in Pod
    BY <2>2, <2>3
  <2> HIDE DEF e
  <2>5. /\ podCache \in Seq(Pod) /\ Len(podCache) \in Nat /\ DOMAIN podCache = 1..Len(podCache)
        /\ Mirror
    BY <1>1 DEF TypeOK, Sound
  <2>6. e.id \in 1..(Len(podCache) + 1)
    <3>1. \/ podWatch[1].id <= Len(podCache) + 1
          \/ \E k \in DOMAIN podWatch : k < 1 /\ podWatch[k].id = podWatch[1].id - 1
      BY <2>2, <2>5 DEF Mirror
    <3>2. podWatch[1].id <= Len(podCache) + 1
      BY <2>2, <3>1
    <3>3. e.id \in Nat /\ 1 <= e.id
      BY <2>4 DEF PodIds
    <3> QED
      BY <2>2, <2>5, <3>2, <3>3
  <2>7. /\ podCache' \in Seq(Pod) /\ DOMAIN podCache' = 1..Len(podCache')
        /\ Len(podCache') = IF e.id > Len(podCache) THEN Len(podCache) + 1 ELSE Len(podCache)
        /\ podCache'[e.id] = e.pod
        /\ \A j \in DOMAIN podCache : j # e.id => podCache'[j] = podCache[j]
    <3>1. podCache \in Seq(Pod) /\ e.pod \in Pod /\ e.id \in 1..(Len(podCache) + 1)
      BY <2>4, <2>5, <2>6
    <3>2. podCache' = Put(podCache, e.id, e.pod)
      BY <2>1
    <3>3. /\ Put(podCache, e.id, e.pod) \in Seq(Pod)
          /\ Len(Put(podCache, e.id, e.pod)) = IF e.id > Len(podCache) THEN Len(podCache) + 1
                                               ELSE Len(podCache)
          /\ DOMAIN Put(podCache, e.id, e.pod) = 1..Len(Put(podCache, e.id, e.pod))
          /\ Put(podCache, e.id, e.pod)[e.id] = e.pod
          /\ \A j \in DOMAIN podCache : j # e.id => Put(podCache, e.id, e.pod)[j] = podCache[j]
      BY ONLY <3>1, PutIs
    <3> QED
      BY ONLY <3>2, <3>3
  <2>8. \A j \in DOMAIN podCache' : PodSeen(j, podCache'[j])
    <3>1. PodSeen(e.id, e.pod)
      BY <2>2, <2>5 DEF Mirror
    <3>2. \A j \in DOMAIN podCache' : j = e.id \/ j \in DOMAIN podCache
      BY <2>5, <2>6, <2>7
    <3> QED
      BY <2>5, <2>7, <3>1, <3>2 DEF Mirror
  <2>9. \A j \in DOMAIN podWatch' : j + 1 \in DOMAIN podWatch /\ podWatch'[j] = podWatch[j + 1]
    BY <2>2
  <2>10. \A j \in DOMAIN podWatch' : PodSeen(podWatch'[j].id, podWatch'[j].pod)
    BY <2>5, <2>9 DEF Mirror
  <2>11. ASSUME NEW j \in DOMAIN podWatch'
         PROVE  \/ podWatch'[j].id <= Len(podCache') + 1
                \/ \E k \in DOMAIN podWatch' : k < j /\ podWatch'[k].id = podWatch'[j].id - 1
    <3>1. podWatch[j + 1].id \in Nat /\ e.id \in Nat
      BY <2>3, <2>4, <2>9 DEF PodIds
    <3>2. CASE podWatch[j + 1].id <= Len(podCache) + 1
      BY <2>5, <2>7, <2>9, <3>1, <3>2
    <3>3. ASSUME NEW k \in DOMAIN podWatch, k < j + 1, podWatch[k].id = podWatch[j + 1].id - 1
          PROVE  \/ podWatch'[j].id <= Len(podCache') + 1
                 \/ \E l \in DOMAIN podWatch' : l < j /\ podWatch'[l].id = podWatch'[j].id - 1
      <4>1. CASE k = 1
        <5>1. e.id = podWatch'[j].id - 1
          BY <2>2, <2>9, <3>3, <4>1
        <5> QED
          BY <2>5, <2>6, <2>7, <2>9, <3>1, <5>1
      <4>2. CASE k # 1
        <5>1. k - 1 \in DOMAIN podWatch' /\ k - 1 < j /\ podWatch'[k - 1] = podWatch[k]
          BY <2>2, <3>3, <4>2
        <5> QED
          BY <2>9, <3>3, <5>1
      <4> QED
        BY <4>1, <4>2
    <3>4. \/ podWatch[j + 1].id <= Len(podCache) + 1
          \/ \E k \in DOMAIN podWatch : k < j + 1 /\ podWatch[k].id = podWatch[j + 1].id - 1
      BY <2>5, <2>9 DEF Mirror
    <3> QED
      BY <3>2, <3>3, <3>4
  <2>12. ASSUME NEW i \in DOMAIN pods
         PROVE  i <= Len(podCache') \/ \E k \in DOMAIN podWatch' : podWatch'[k].id = i
    <3>1. CASE i <= Len(podCache)
      BY <1>1, <2>5, <2>7, <3>1 DEF TypeOK
    <3>2. ASSUME NEW k \in DOMAIN podWatch, podWatch[k].id = i
          PROVE  i <= Len(podCache') \/ \E l \in DOMAIN podWatch' : podWatch'[l].id = i
      <4>1. CASE k = 1
        BY <2>2, <2>5, <2>6, <2>7, <3>2, <4>1
      <4>2. CASE k # 1
        <5>1. k - 1 \in DOMAIN podWatch' /\ podWatch'[k - 1] = podWatch[k]
          BY <2>2, <4>2
        <5> QED
          BY <3>2, <5>1
      <4> QED
        BY <4>1, <4>2
    <3> QED
      BY <2>1, <2>5, <3>1, <3>2 DEF Mirror
  <2>13. Mirror'
    BY <2>1, <2>5, <2>8, <2>10, <2>11, <2>12 DEF Mirror, PodSeen
  <2>14. TypeOK'
    BY <1>1, <2>1, <2>2, <2>7 DEF TypeOK
  <2>15. Copies' /\ Owned' /\ RunsAreDue'
    BY <2>1 DEF Sound, Copies, CronSeen, Owned, RunsAreDue
  <2> QED
    BY <1>2, <2>1, <2>13, <2>14, <2>15 DEF Sound
<1>5. CASE Resync
  BY <1>1, <1>2, <1>5, LocalSound, QueueTypes DEF Resync, api
<1>6. CASE Expire
  BY <1>1, <1>2, <1>6, LocalSound, QueueTypes DEF Expire, api
<1>7. CASE Crash
  BY <1>1, <1>7, DownSound, SpendTypes DEF Crash, Kinds
<1>8. CASE Restart
  <2>1. /\ ~ up /\ up' /\ cronCache' = cron /\ podCache' = pods /\ podWatch = <<>>
        /\ queue' \in {queue, Add(queue, Key)}
        /\ UNCHANGED <<cron, pods, lastUid, now, budget, cronWatch, podWatch, rec>>
    BY <1>8 DEF Restart, Sound, api
  <2>2. TypeOK'
    BY <1>1, <1>8, <2>1, QueueTypes DEF TypeOK, Restart
  <2>3. Mirror'
    BY <1>1, <2>1 DEF Sound, Mirror, PodSeen, TypeOK
  <2>4. Copies' /\ Owned' /\ RunsAreDue'
    BY <2>1 DEF Sound, Copies, CronSeen, Owned, RunsAreDue
  <2> QED
    BY <1>2, <2>1, <2>2, <2>3, <2>4 DEF Sound
<1> QED
  BY <1>3, <1>4, <1>5, <1>6, <1>7, <1>8 DEF Manager

------------------------------------------------------------------------------
(* The stages of a pass. *)

LEMMA ReturnIs ==
    ASSUME NEW pc \in {"ok", "error"}, NEW after \in (0 - Never)..Never, Return(pc, after)
    PROVE  rec' \in Reconcile_ /\ rec'.inst = None /\ rec'.pc = pc /\ Pass'
<1>1. rec' \in Reconcile_ /\ rec'.inst = None /\ rec'.pc = pc
  BY IdleIs DEF Return, Reconcile_, PCs
<1> QED
  BY <1>1 DEF Pass, Listing, Planned, Undecided

\* Another place in the code, and the locals as they were.
LEMMA GotoIs ==
    ASSUME rec \in Reconcile_, NEW pc \in PCs, Goto(pc)
    PROVE  /\ rec' \in Reconcile_ /\ rec'.pc = pc
           /\ rec'.inst = rec.inst /\ rec'.active = rec.active /\ rec'.failed = rec.failed
           /\ rec'.succeeded = rec.succeeded /\ rec'.todo = rec.todo
           /\ rec'.missed = rec.missed /\ rec'.after = rec.after
  BY DEF Goto, Reconcile_

LEMMA ChildrenAre ==
    ASSUME Sound
    PROVE  /\ Children \subseteq PodIds
           /\ \A i \in Children : PodSeen(i, podCache[i]) /\ podCache[i].slot \in Times
<1>1. /\ podCache \in Seq(Pod) /\ \A i \in DOMAIN podCache : podCache[i] \in Pod
      /\ pods \in Seq(Pod) /\ Len(pods) <= MaxPods
      /\ \A i \in DOMAIN podCache : PodSeen(i, podCache[i])
  BY DEF Sound, TypeOK, Mirror
<1>2. \A i \in DOMAIN podCache : i \in PodIds
  BY <1>1, BoundsAssumption DEF PodSeen, PodIds
<1> QED
  BY <1>1, <1>2, TimesAre DEF Children, Pod

LEMMA ListPodsSound == Sound /\ ListPods => Sound'
<1> SUFFICES ASSUME Sound, ListPods PROVE Sound'
  OBVIOUS
<1> DEFINE created == rec.inst.created
           slots == {podCache[i].slot : i \in Children}
           last == LastScheduled
           refs == {<<i, podCache[i].deleting>> : i \in Listed({"Active"})}
<1>1. /\ rec \in Reconcile_ /\ rec.inst \in CronJob /\ CronSeen(rec.inst)
      /\ queue \in WorkQueues({Key}, Times) /\ budget \in [Kinds -> Nat]
      /\ \A i \in DOMAIN podCache : podCache[i] \in Pod
      /\ rec.missed = Zero
  BY DEF Sound, TypeOK, Pass, Undecided, Copies, ListPods, At
<1>2. created \in Times /\ slots \subseteq Times
  BY <1>1, ChildrenAre DEF CronJob
<1>3. last \in {created} \cup slots /\ \A u \in {created} \cup slots : u <= last
  BY <1>2, LatestIs DEF LastScheduled
<1>4. last \in Times
  BY <1>2, <1>3
<1>5. \A S : Listed(S) \subseteq Children /\ \A i \in Listed(S) : podCache[i].phase \in S
  BY DEF Listed
<1>6. refs \subseteq PodIds \X BOOLEAN
  BY <1>1, <1>5, ChildrenAre DEF Pod, Children
<1>a. Listed({"Active"}) = {a[1] : a \in refs}
  <2> DEFINE L == Listed({"Active"})
  <2> HIDE DEF L
  <2>1. refs = {<<i, podCache[i].deleting>> : i \in L}
    BY DEF L
  <2> HIDE DEF refs
  <2>2. \A a \in refs : a[1] \in L
    BY <2>1
  <2>3. ASSUME NEW i \in L PROVE \E a \in refs : a[1] = i
    <3>1. <<i, podCache[i].deleting>> \in refs
      BY <2>1
    <3> QED
      BY <3>1
  <2>4. L = {a[1] : a \in refs}
    BY <2>2, <2>3
  <2> QED
    BY <2>4 DEF L
<1> HIDE DEF last, refs
<1>7. rec' = [rec EXCEPT !.pc = "status", !.active = Listed({"Active"}),
                         !.failed = Listed({"Failed"}), !.succeeded = Listed({"Succeeded"}),
                         !.inst = [rec.inst EXCEPT !.last = last, !.active = refs]]
  BY DEF ListPods, last, refs
<1>8. /\ rec'.pc = "status" /\ rec'.inst = [rec.inst EXCEPT !.last = last, !.active = refs]
      /\ rec'.active = Listed({"Active"}) /\ rec'.failed = Listed({"Failed"})
      /\ rec'.succeeded = Listed({"Succeeded"}) /\ rec'.missed = Zero
  BY <1>1, <1>7 DEF Reconcile_
<1>9. rec'.inst \in CronJob /\ rec'.inst.last = last /\ rec'.inst.created = created
      /\ rec'.inst.uid = rec.inst.uid /\ rec'.inst.active = refs
      /\ rec'.inst.rv = rec.inst.rv /\ rec'.inst.spec = rec.inst.spec
  BY <1>1, <1>4, <1>6, <1>8 DEF CronJob
<1>10. /\ Listed({"Active"}) \in SUBSET PodIds /\ Listed({"Failed"}) \in SUBSET PodIds
       /\ Listed({"Succeeded"}) \in SUBSET PodIds
  BY <1>5, ChildrenAre
<1>11. rec' \in Reconcile_
  BY <1>1, <1>7, <1>8, <1>9, <1>10 DEF Reconcile_, PCs
<1>12. UNCHANGED <<api, now, budget, caches, up, queue>>
  BY DEF ListPods, Quiet
<1>13. Pass'
  <2>1. \A i \in Children : i \in DOMAIN pods /\ pods[i].slot <= last
    BY <1>3, ChildrenAre DEF PodSeen
  <2>2. /\ \A i \in Listed({"Failed"}) : pods[i].phase \in {"Failed", "Gone"}
        /\ \A i \in Listed({"Succeeded"}) : pods[i].phase \in {"Succeeded", "Gone"}
    BY <1>5, ChildrenAre DEF PodSeen
  <2>3. last = created \/ \E i \in DOMAIN pods : pods[i].slot = last
    BY <1>3, ChildrenAre DEF PodSeen
  <2> QED
    BY <1>3, <1>5, <1>8, <1>9, <1>12, <1>a, <2>1, <2>2, <2>3 DEF Pass, Listing, Planned, Undecided, api
<1>14. CronSeen(rec'.inst)
  BY <1>1, <1>9, NoneAssumption DEF CronSeen
<1> QED
  BY <1>1, <1>11, <1>12, <1>13, <1>14, LocalSound

\* A stage that only moves on: what is known of the pass still holds there.
LEMMA StageSound ==
    ASSUME Sound, UNCHANGED <<api, now, caches, up, queue>>, budget' \in [Kinds -> Nat],
           \/ Return("ok", 0) \/ Return("error", 0)
           \/ rec' \in Reconcile_ /\ rec'.inst = rec.inst /\ Pass'
    PROVE  Sound'
<1>1. 0 \in (0 - Never)..Never
  BY BoundsAssumption DEF Never
<1>2. rec' \in Reconcile_ /\ rec'.inst \in {rec.inst, None} /\ Pass'
  BY <1>1, ReturnIs
<1>3. CronSeen(rec'.inst) /\ queue' \in WorkQueues({Key}, Times)
  BY <1>2 DEF Sound, Copies, CronSeen, TypeOK
<1> QED
  BY <1>2, <1>3, LocalSound

LEMMA UpdateStatusSound == Sound /\ UpdateStatus => Sound'
<1> SUFFICES ASSUME Sound, UpdateStatus PROVE Sound'
  OBVIOUS
<1>1. /\ rec \in Reconcile_ /\ rec.pc = "status" /\ rec.inst \in CronJob /\ CronSeen(rec.inst)
      /\ budget \in [Kinds -> Nat] /\ lastUid \in 0..MaxUid /\ TypeOK
  BY DEF Sound, TypeOK, Pass, Listing, Undecided, Copies, UpdateStatus, At
<1>2. UNCHANGED <<pods, lastUid, now, cronCache, podCache, podWatch, up, queue>>
  BY DEF UpdateStatus
<1>3. 0 \in (0 - Never)..Never
  BY BoundsAssumption DEF Never
<1>4. budget' \in [Kinds -> Nat]
  BY <1>1, SpendTypes DEF UpdateStatus, Answered, Kinds
<1>5. ASSUME rec' \in Reconcile_, rec'.pc = "cleanFailed", rec'.inst \in CronJob,
             rec'.inst.created = rec.inst.created, rec'.inst.last = rec.inst.last,
             rec'.active = rec.active, rec'.failed = rec.failed, rec'.succeeded = rec.succeeded,
             rec'.inst.active = rec.inst.active, rec'.missed = rec.missed
      PROVE  Pass'
  BY <1>1, <1>2, <1>5 DEF Sound, Pass, Listing, Undecided, Planned
<1>6. CASE Current /\ cron = rec.inst /\ Answered("cleanFailed") /\ UNCHANGED <<cron, cronWatch>>
  <2>1. CASE Goto("cleanFailed")
    <3>1. rec' \in Reconcile_ /\ rec'.inst = rec.inst /\ Pass'
      BY <1>1, <1>5, <2>1, GotoIs DEF PCs
    <3> QED
      BY <1>2, <1>4, <1>6, <3>1, StageSound DEF api, caches
  <2>2. CASE Return("error", 0)
    BY <1>2, <1>4, <1>6, <2>2, StageSound DEF api, caches
  <2> QED
    BY <1>6, <2>1, <2>2 DEF Answered
<1>7. CASE /\ Current
           /\ StoreCron([rec.inst EXCEPT !.rv = @ + 1])
           /\ \/ rec' = [rec EXCEPT !.pc = "cleanFailed", !.inst.rv = @ + 1]
              \/ Return("error", 0)
  <2> DEFINE c == [rec.inst EXCEPT !.rv = @ + 1]
  <2>1. /\ c \in CronJob /\ c.uid = rec.inst.uid /\ c.created = rec.inst.created
        /\ c.last = rec.inst.last /\ c.active = rec.inst.active /\ c.rv = rec.inst.rv + 1
    BY <1>1 DEF CronJob
  <2>2. cron # None /\ c.uid = cron.uid /\ c.created = cron.created /\ c # None
        /\ c.rv = cron.rv + 1
    BY <1>1, <1>7, <2>1, NoneAssumption DEF Current, CronSeen
  <2>3. StoreCron(c)
    BY <1>7
  <2>4. CASE Return("error", 0)
    <3>1. rec' \in Reconcile_ /\ rec'.inst = None /\ Pass'
      BY <1>3, <2>4, ReturnIs
    <3> HIDE DEF c
    <3> QED
      BY <1>1, <1>2, <1>4, <2>1, <2>2, <2>3, <3>1, CronSound
  <2>5. CASE rec' = [rec EXCEPT !.pc = "cleanFailed", !.inst.rv = @ + 1]
    <3>1. /\ rec'.pc = "cleanFailed" /\ rec'.inst = c /\ rec'.active = rec.active
          /\ rec'.failed = rec.failed /\ rec'.succeeded = rec.succeeded
          /\ rec'.missed = rec.missed
      BY <1>1, <2>5 DEF Reconcile_
    <3>2. rec' = [rec EXCEPT !.pc = "cleanFailed", !.inst = c]
      BY <2>5
    <3> HIDE DEF c
    <3>3. rec' \in Reconcile_
      BY <1>1, <2>1, <3>2 DEF Reconcile_, PCs
    <3>4. Pass'
      BY <1>5, <2>1, <3>1, <3>3
    <3>5. rec.inst # None /\ rec'.inst # None
      BY <1>1, <2>2, <3>1, NoneAssumption
    <3> QED
      BY <1>1, <1>2, <1>4, <2>1, <2>2, <2>3, <3>1, <3>3, <3>4, <3>5, CronSound
  <2> QED
    BY <1>7, <2>4, <2>5
<1>8. CASE Return("error", 0) /\ UNCHANGED <<cron, cronWatch, budget>>
  BY <1>2, <1>4, <1>8, StageSound DEF api, caches
<1> QED
  BY <1>6, <1>7, <1>8 DEF UpdateStatus

LEMMA CleanSound ==
    ASSUME Sound, NEW S, NEW limit, NEW pc,
           \/ rec.pc = "cleanFailed" /\ S = rec.failed /\ pc = "cleanSucceeded"
           \/ rec.pc = "cleanSucceeded" /\ S = rec.succeeded /\ pc = "suspend",
           Clean(S, limit, pc)
    PROVE  Sound'
<1> DEFINE left == S \ rec.todo
<1>1. /\ rec \in Reconcile_ /\ rec.inst \in CronJob /\ S \subseteq PodIds
      /\ budget \in [Kinds -> Nat] /\ TypeOK /\ Pass
      /\ S \subseteq DOMAIN pods
  BY DEF Sound, TypeOK, Pass, Listing, Undecided, Reconcile_
<1>2. ASSUME UNCHANGED <<api, now, budget, caches, up, queue>>,
             rec' = [rec EXCEPT !.pc = pc, !.todo = {}]
      PROVE  Sound'
  <2>1. rec' \in Reconcile_ /\ rec'.inst = rec.inst
    BY <1>1, <1>2 DEF Reconcile_, PCs
  <2>2. Pass'
    BY <1>1, <1>2 DEF Pass, Listing, Planned, Undecided, Reconcile_, api
  <2> QED
    BY <1>1, <1>2, <2>1, <2>2, StageSound
<1>3. ASSUME left # {}, rec' = [rec EXCEPT !.todo = @ \cup {Oldest(left)}],
             \/ DeletePod(Oldest(left)) /\ UNCHANGED budget
             \/ Spend("fault") /\ UNCHANGED <<pods, podWatch>>,
             UNCHANGED <<cron, lastUid, now, cronCache, podCache, cronWatch, up, queue>>
      PROVE  Sound'
  <2>1. left \subseteq Nat /\ Oldest(left) \in left
    BY <1>1, <1>3, OldestIs, BoundsAssumption DEF PodIds
  <2>2. /\ rec' \in Reconcile_ /\ rec'.pc = rec.pc /\ rec'.inst = rec.inst
        /\ rec'.active = rec.active /\ rec'.failed = rec.failed /\ rec'.succeeded = rec.succeeded
        /\ rec'.missed = rec.missed
    BY <1>1, <1>3, <2>1 DEF Reconcile_
  <2>3. Grows /\ now' = now => Pass'
    BY <1>1, <2>2 DEF Pass, Grows, Listing, Planned, Undecided
  <2>4. budget' \in [Kinds -> Nat]
    BY <1>1, <1>3, SpendTypes DEF Kinds
  <2>5. CASE UNCHANGED <<pods, podWatch>>
    <3>1. Grows
      BY <2>5 DEF Grows, Cancelled
    <3> QED
      BY <1>3, <2>2, <2>3, <2>4, <2>5, <3>1, StageSound DEF api, caches
  <2>6. ASSUME NEW p \in Pod, Succeeds(p, pods[Oldest(left)]), StorePod(Oldest(left), p)
        PROVE  Sound'
    BY <1>1, <1>3, <2>1, <2>2, <2>3, <2>4, <2>6, PodSound
  <2> QED
    BY <1>1, <1>3, <2>1, <2>5, <2>6, DeletePodIs
<1>4. ASSUME Down, UNCHANGED budget PROVE Sound'
  BY <1>1, <1>4, DownSound
<1> QED
  BY <1>2, <1>3, <1>4 DEF Clean

LEMMA ScheduleSound == Sound /\ GetNextScheduledTime => Sound'
<1> SUFFICES ASSUME Sound, GetNextScheduledTime PROVE Sound'
  OBVIOUS
<1> DEFINE earliest == Earliest(rec.inst)
           scan == Scan[MaxMissed + 1][earliest]
<1>1. /\ rec \in Reconcile_ /\ rec.pc = "schedule" /\ rec.inst \in CronJob
      /\ budget \in [Kinds -> Nat] /\ now \in 0..Horizon /\ now \in Times
  BY DEF Sound, TypeOK, Pass, Listing, Undecided, GetNextScheduledTime, At, Times, Zero
<1>2. UNCHANGED <<api, now, budget, caches, up, queue>>
  BY DEF GetNextScheduledTime, Quiet
<1>3. earliest \in Times /\ earliest >= rec.inst.last
  BY <1>1, EarliestIs
<1>4. scan.missed \in Missed(earliest) \cup {Zero}
  <2>1. MaxMissed + 1 \in 0..(MaxMissed + 1)
    BY BoundsAssumption
  <2>2. Finds(MaxMissed + 1, earliest)
    BY <1>1, <1>3, <2>1, ScanFinds
  <2> QED
    BY <2>2 DEF Finds, LastMissed
<1>5. CASE Return("ok", 0)
  BY <1>1, <1>2, <1>5, StageSound
<1>6. CASE rec' = [rec EXCEPT !.pc = "plan", !.missed = scan.missed, !.next = NextSlot(now)]
  <2>1. NextSlot(now) \in Slots \cup {Never}
    BY <1>1, NextSlotIs
  <2>2. scan.missed \in Slots \cup {Zero}
    BY <1>4 DEF Missed
  <2> HIDE DEF scan
  <2>3. rec' \in Reconcile_
    BY <1>1, <1>6, <2>1, <2>2 DEF Reconcile_, PCs
  <2>4. /\ rec'.pc = "plan" /\ rec'.inst = rec.inst /\ rec'.active = rec.active
        /\ rec'.failed = rec.failed /\ rec'.succeeded = rec.succeeded
        /\ rec'.missed = scan.missed
    BY <1>1, <1>6 DEF Reconcile_
  <2>5. scan.missed # Zero => rec.inst.last < scan.missed /\ scan.missed <= now
    <3>1. rec.inst.last \in Nat
      BY <1>1, TimesAre DEF CronJob
    <3> HIDE DEF earliest
    <3>2. earliest \in Nat
      BY <1>3, TimesAre
    <3>3. scan.missed # Zero => /\ scan.missed \in Nat /\ earliest < scan.missed
                               /\ scan.missed <= now
      BY <1>4, TimesAre DEF Missed
    <3> QED
      BY <1>3, <3>1, <3>2, <3>3
  <2>6. Pass'
    BY <1>1, <1>2, <2>4, <2>5 DEF Sound, Pass, Listing, Planned, Undecided, api
  <2> QED
    BY <1>1, <1>2, <2>3, <2>4, <2>6, StageSound
<1> QED
  BY <1>5, <1>6 DEF GetNextScheduledTime

LEMMA PlanSound == Sound /\ Plan => Sound'
<1> SUFFICES ASSUME Sound, Plan PROVE Sound'
  OBVIOUS
<1>1. /\ rec \in Reconcile_ /\ rec.pc = "plan" /\ rec.inst \in CronJob /\ CronSeen(rec.inst)
      /\ budget \in [Kinds -> Nat] /\ queue \in WorkQueues({Key}, Times)
  BY DEF Sound, TypeOK, Pass, Listing, Undecided, Copies, Plan, At
<1>2. UNCHANGED <<api, now, budget, caches, up, queue>>
  BY DEF Plan, Quiet
<1>3. rec.next - now \in (0 - Never)..Never
  <2>1. rec.next \in Slots \cup {Zero, Never} /\ now \in Times
    BY <1>1 DEF Reconcile_, Sound, TypeOK
  <2>2. rec.next \in Times
    BY <2>1, TimesAre
  <2>3. Never \in Nat /\ \A t \in Times : t \in Nat /\ t <= Never
    BY BoundsAssumption DEF Times, Zero, Never
  <2>4. rec.next \in Nat /\ rec.next <= Never /\ now \in Nat /\ now <= Never /\ Never \in Nat
    BY <2>1, <2>2, <2>3
  <2> QED
    BY <2>4
<1>4. CASE Return("ok", rec.next - now)
  <2>1. rec' \in Reconcile_ /\ rec'.inst = None /\ Pass'
    BY <1>3, <1>4, ReturnIs
  <2> QED
    BY <1>1, <1>2, <2>1, LocalSound DEF CronSeen
<1>5. CASE rec.missed # Zero /\ rec' = [rec EXCEPT !.pc = "deadline", !.after = rec.next - now]
  <2>1. /\ rec' \in Reconcile_ /\ rec'.pc = "deadline" /\ rec'.inst = rec.inst
        /\ rec'.active = rec.active /\ rec'.failed = rec.failed
        /\ rec'.succeeded = rec.succeeded /\ rec'.missed = rec.missed
    BY <1>1, <1>3, <1>5 DEF Reconcile_, PCs
  <2>2. Pass'
    BY <1>1, <1>2, <1>5, <2>1 DEF Sound, Pass, Listing, Planned, Undecided, api
  <2> QED
    BY <1>1, <1>2, <2>1, <2>2, StageSound
<1> QED
  BY <1>4, <1>5 DEF Plan

LEMMA CheckSound == Sound /\ (CheckSuspend \/ CheckDeadline \/ CheckPolicy) => Sound'
<1> SUFFICES ASSUME Sound, CheckSuspend \/ CheckDeadline \/ CheckPolicy PROVE Sound'
  OBVIOUS
<1>1. /\ rec \in Reconcile_ /\ CronSeen(rec.inst)
      /\ rec.pc \in {"suspend", "deadline", "policy"} /\ rec.inst \in CronJob
      /\ budget \in [Kinds -> Nat] /\ queue \in WorkQueues({Key}, Times)
  BY DEF Sound, TypeOK, Pass, Listing, Planned, Undecided, Copies, CheckSuspend, CheckDeadline,
     CheckPolicy, At
<1>2. UNCHANGED <<api, now, budget, caches, up, queue>>
  BY DEF CheckSuspend, CheckDeadline, CheckPolicy, Quiet
<1>3. CASE Return("ok", 0)
  BY <1>1, <1>2, <1>3, StageSound
<1>4. CASE Return("ok", rec.after)
  <2>1. rec.after \in (0 - Never)..Never
    BY <1>1 DEF Reconcile_
  <2>2. rec' \in Reconcile_ /\ rec'.inst = None /\ Pass'
    BY <1>4, <2>1, ReturnIs
  <2> QED
    BY <1>1, <1>2, <2>2, LocalSound DEF CronSeen
<1>5. ASSUME NEW pc \in {"schedule", "policy", "create"}, Goto(pc),
             pc \in Planned => rec.pc \in Planned,
             pc = "schedule" => rec.pc = "suspend" /\ ~ rec.inst.spec.suspend,
             pc = "create" => /\ rec.inst.spec.policy # "Replace"
                              /\ rec.inst.spec.policy = "Forbid" => rec.active = {}
      PROVE  Sound'
  <2>1. /\ rec' \in Reconcile_ /\ rec'.pc = pc
        /\ rec'.inst = rec.inst /\ rec'.active = rec.active /\ rec'.failed = rec.failed
        /\ rec'.succeeded = rec.succeeded /\ rec'.todo = rec.todo
        /\ rec'.missed = rec.missed
    BY <1>1, <1>5, GotoIs DEF PCs
  <2>2. Pass'
    BY <1>1, <1>2, <1>5, <2>1 DEF Sound, Pass, Listing, Planned, Undecided, api
  <2> QED
    BY <1>1, <1>2, <2>1, <2>2, StageSound
<1>6. CASE /\ rec.pc = "policy" /\ rec.inst.spec.policy = "Replace"
           /\ rec' = [rec EXCEPT !.pc = "replace", !.todo = rec.active]
  <2>1. /\ rec' \in Reconcile_ /\ rec'.pc = "replace"
        /\ rec'.inst = rec.inst /\ rec'.active = rec.active /\ rec'.failed = rec.failed
        /\ rec'.succeeded = rec.succeeded /\ rec'.todo = rec.active
        /\ rec'.missed = rec.missed
    BY <1>1, <1>6 DEF Reconcile_, PCs
  <2>2. Pass'
    BY <1>1, <1>2, <1>6, <2>1 DEF Sound, Pass, Listing, Planned, Undecided, api
  <2> QED
    BY <1>1, <1>2, <2>1, <2>2, StageSound
<1>7. CASE CheckSuspend
  BY <1>3, <1>5, <1>7 DEF CheckSuspend, Planned, At
<1>8. CASE CheckDeadline
  BY <1>4, <1>5, <1>8 DEF CheckDeadline, Planned, At
<1>9. CASE CheckPolicy
  BY <1>4, <1>5, <1>6, <1>9 DEF CheckPolicy, Planned, At
<1> QED
  BY <1>7, <1>8, <1>9

LEMMA ReplaceSound == Sound /\ Replace => Sound'
<1> SUFFICES ASSUME Sound, Replace PROVE Sound'
  OBVIOUS
<1>a. PICK i : i = Oldest(rec.todo)
  OBVIOUS
<1>1. /\ rec \in Reconcile_ /\ rec.pc = "replace" /\ rec.inst \in CronJob
      /\ budget \in [Kinds -> Nat] /\ TypeOK /\ Pass
      /\ rec.todo \subseteq rec.active /\ rec.active \subseteq DOMAIN pods
      /\ rec.todo \subseteq PodIds
  BY DEF Sound, TypeOK, Pass, Listing, Planned, Undecided, Replace, At, Reconcile_
<1>2. UNCHANGED <<cron, lastUid, now, cronCache, podCache, cronWatch, up, queue>>
  BY DEF Replace
<1>3. 0 \in (0 - Never)..Never
  BY BoundsAssumption DEF Never
<1>4. CASE rec.todo = {} /\ Goto("create") /\ UNCHANGED <<pods, podWatch, budget>>
  <2>1. /\ rec' \in Reconcile_ /\ rec'.pc = "create"
        /\ rec'.inst = rec.inst /\ rec'.active = rec.active /\ rec'.failed = rec.failed
        /\ rec'.succeeded = rec.succeeded /\ rec'.missed = rec.missed
    BY <1>1, <1>4, GotoIs DEF PCs
  <2>2. Pass'
    BY <1>1, <1>2, <1>4, <2>1 DEF Pass, Listing, Planned, Undecided, Cancelled
  <2> QED
    BY <1>1, <1>2, <1>4, <2>1, <2>2, StageSound DEF api, caches
<1>5. ASSUME rec.todo # {}, DeletePod(i),
             \/ rec' = [rec EXCEPT !.todo = @ \ {i}] /\ UNCHANGED budget
             \/ Return("error", 0) /\ Spend("fault")
      PROVE  Sound'
  <2>1. i \in rec.todo /\ i \in DOMAIN pods
    BY <1>1, <1>5, <1>a, OldestIs, BoundsAssumption DEF PodIds
  <2>2. budget' \in [Kinds -> Nat]
    BY <1>1, <1>5, SpendTypes DEF Kinds
  <2>3. ASSUME Grows, Cancelled(i)'
        PROVE  rec' \in Reconcile_ /\ rec'.inst \in {rec.inst, None} /\ Pass'
    <3>1. CASE Return("error", 0)
      BY <1>3, <3>1, ReturnIs
    <3>2. CASE rec' = [rec EXCEPT !.todo = @ \ {i}]
      <4>1. /\ rec' \in Reconcile_ /\ rec'.pc = "replace"
            /\ rec'.inst = rec.inst /\ rec'.active = rec.active /\ rec'.failed = rec.failed
            /\ rec'.succeeded = rec.succeeded /\ rec'.todo = rec.todo \ {i}
            /\ rec'.missed = rec.missed
        BY <1>1, <3>2 DEF Reconcile_
      <4>2. \A j \in rec.active \ rec.todo : Cancelled(j)'
        BY <1>1, <2>3 DEF Pass, Grows
      <4>3. \A j \in rec'.active \ rec'.todo : Cancelled(j)'
        BY <2>3, <4>1, <4>2
      <4> QED
        BY <1>1, <1>2, <2>3, <4>1, <4>3 DEF Pass, Listing, Planned, Undecided, Grows
    <3> QED
      BY <1>5, <3>1, <3>2
  <2>4. CASE UNCHANGED <<pods, podWatch>> /\ Cancelled(i)
    <3>1. Grows /\ Cancelled(i)'
      BY <2>4 DEF Grows, Cancelled
    <3>2. rec' \in Reconcile_ /\ rec'.inst \in {rec.inst, None} /\ Pass'
      BY <2>3, <3>1
    <3>3. CronSeen(rec'.inst) /\ queue' \in WorkQueues({Key}, Times)
      BY <1>2, <3>2 DEF Sound, Copies, CronSeen, TypeOK
    <3> QED
      BY <1>2, <2>2, <2>4, <3>2, <3>3, LocalSound DEF api, caches
  <2>5. ASSUME NEW p \in Pod, Succeeds(p, pods[i]), StorePod(i, p),
               p.deleting \/ p.phase # "Active"
        PROVE  Sound'
    <3>1. i \in PodIds
      BY <1>1, <2>1
    <3>2. Grows /\ pods'[i] = p
      BY <1>2, <2>1, <2>5, <3>1, StorePodKept
    <3>3. Cancelled(i)'
      BY <2>5, <3>2 DEF Cancelled
    <3>4. rec' \in Reconcile_ /\ rec'.inst \in {rec.inst, None} /\ Pass'
      BY <2>3, <3>2, <3>3
    <3> QED
      BY <1>2, <2>1, <2>2, <2>5, <3>4, PodSound
  <2> QED
    BY <1>5, <2>1, <2>4, <2>5, DeletePodIs
<1> QED
  BY <1>4, <1>5, <1>a DEF Replace

LEMMA CreatePodSound == Sound /\ CreatePod => Sound'
<1> SUFFICES ASSUME Sound, CreatePod PROVE Sound'
  OBVIOUS
<1> DEFINE p == [owner |-> rec.inst.uid, slot |-> rec.missed, phase |-> "Active",
                 deleting |-> FALSE]
<1>a. PICK i : i = Len(pods) + 1
  OBVIOUS
<1>1. /\ rec \in Reconcile_ /\ rec.pc = "create" /\ rec.inst \in CronJob /\ CronSeen(rec.inst)
      /\ budget \in [Kinds -> Nat] /\ TypeOK /\ Pass /\ rec.missed # Zero
      /\ rec.inst.created <= rec.inst.last /\ rec.inst.last < rec.missed /\ rec.missed <= now
  BY DEF Sound, TypeOK, Pass, Listing, Planned, Undecided, Copies, CreatePod, At
<1>2. UNCHANGED <<cron, lastUid, now, cronCache, podCache, cronWatch, up, queue>>
  BY DEF CreatePod
<1>3. rec.missed \in Slots
  <2>1. rec.missed \in Slots \cup {Zero}
    BY <1>1 DEF Reconcile_
  <2> QED
    BY <1>1, <2>1
<1>4. /\ p \in Pod /\ p.owner = rec.inst.uid /\ p.slot = rec.missed
      /\ rec.inst.uid \in Nat /\ rec.inst.uid <= lastUid
  <2>1. rec.inst.uid \in 1..MaxUid /\ rec.inst # None
    BY <1>1, NoneAssumption DEF CronJob
  <2> QED
    BY <1>1, <1>3, <2>1, BoundsAssumption DEF Pod, CronSeen
<1>5. i \in PodIds /\ StorePod(i, p)
  <2>1. Len(pods) \in Nat /\ Len(pods) < MaxPods /\ StorePod(Len(pods) + 1, p)
    BY <1>1 DEF CreatePod, TypeOK
  <2> QED
    BY <1>a, <2>1, BoundsAssumption DEF PodIds
<1> HIDE DEF p
<1>6. /\ pods' \in Seq(Pod) /\ podWatch' \in Seq([id : PodIds, pod : Pod])
      /\ Mirror' /\ Grows
      /\ ~ up => podWatch' = <<>>
      /\ pods'[i] = p
      /\ \A j \in DOMAIN pods' : j # i => j \in DOMAIN pods /\ pods'[j] = pods[j]
  BY <1>2, <1>4, <1>5, <1>a, StorePodKept
<1>7. rec' \in Reconcile_ /\ rec'.inst = None /\ Pass'
  <2>1. rec.after \in (0 - Never)..Never /\ 0 \in (0 - Never)..Never
    BY <1>1, BoundsAssumption DEF Reconcile_, Never
  <2> QED
    BY <2>1, ReturnIs DEF CreatePod
<1>8. budget' \in [Kinds -> Nat]
  BY <1>1, SpendTypes DEF CreatePod, Kinds
<1>9. TypeOK'
  BY <1>1, <1>2, <1>6, <1>7, <1>8 DEF TypeOK
<1>10. Copies'
  BY <1>2, <1>7 DEF Sound, Copies, CronSeen
<1>11. Owned'
  BY <1>2, <1>4, <1>6 DEF Sound, Owned
<1>12. RunsAreDue'
  <2>1. cron # None /\ cron.uid = rec.inst.uid => cron.created < rec.missed
    <3>1. rec.inst.created \in Nat /\ rec.inst.last \in Nat /\ rec.missed \in Nat /\ rec.inst # None
      BY <1>1, <1>3, TimesAre, NoneAssumption DEF CronJob
    <3> QED
      BY <1>1, <3>1 DEF CronSeen
  <2> QED
    BY <1>1, <1>2, <1>4, <1>6, <2>1 DEF Sound, RunsAreDue
<1> QED
  BY <1>2, <1>6, <1>7, <1>9, <1>10, <1>11, <1>12 DEF Sound

LEMMA QueueSound == Sound /\ (Get_ \/ Finish) => Sound'
<1> SUFFICES ASSUME Sound, Get_ \/ Finish PROVE Sound'
  OBVIOUS
<1>1. /\ rec \in Reconcile_ /\ budget \in [Kinds -> Nat] /\ now \in Times
      /\ queue \in WorkQueues({Key}, Times)
  BY DEF Sound, TypeOK
<1>2. UNCHANGED <<api, now, budget, caches, up>>
  BY DEF Get_, Finish, Quiet
<1>3. rec' \in Reconcile_ /\ rec'.inst = None /\ Pass'
  <2>1. rec' \in Reconcile_ /\ rec'.inst = None /\ rec'.pc \in {"idle", "get"}
        /\ rec'.missed = Zero
    BY IdleIs DEF Idle, Get_, Finish, Reconcile_, PCs
  <2> QED
    BY <2>1 DEF Pass, Listing, Planned, Undecided
<1>4. CASE Get_
  BY <1>1, <1>2, <1>3, <1>4, QueueTypes, LocalSound DEF Get_, CronSeen
<1>5. CASE Finish
  <2> DEFINE due == now + rec.after
             t == IF due < Never THEN due ELSE Never
  <2>1. rec.pc = "ok" /\ rec.after > 0 => t \in Times
    <3>1. now \in Nat /\ rec.after \in Int /\ Never \in Nat
      BY <1>1, TimesAre, BoundsAssumption DEF Reconcile_, Never
    <3> QED
      BY <3>1 DEF Times, Zero
  <2> HIDE DEF t
  <2>2. Forget(queue, Key) \in WorkQueues({Key}, Times)
    BY <1>1, QueueTypes
  <2>3. queue' \in WorkQueues({Key}, Times)
    <3>1. CASE rec.pc = "error"
      BY <1>1, <1>5, <3>1, QueueTypes DEF Finish
    <3>2. CASE rec.pc = "ok" /\ rec.after > 0
      <4>1. queue' = Done(AddAfter(Forget(queue, Key), Key, t), Key)
        BY <1>1, <1>5, <3>2 DEF Finish, Reconcile_, t
      <4> QED
        BY <2>1, <2>2, <3>2, <4>1, QueueTypes
    <3>3. CASE queue' = Done(Forget(queue, Key), Key)
      BY <1>1, <2>2, <3>3, QueueTypes
    <3> QED
      BY <1>5, <3>1, <3>2, <3>3 DEF Finish
  <2> QED
    BY <1>1, <1>2, <1>3, <2>3, LocalSound DEF CronSeen
<1> QED
  BY <1>4, <1>5

LEMMA GetCronJobSound == Sound /\ GetCronJob => Sound'
<1> SUFFICES ASSUME Sound, GetCronJob PROVE Sound'
  OBVIOUS
<1>1. /\ rec \in Reconcile_ /\ budget \in [Kinds -> Nat] /\ CronSeen(cronCache)
      /\ queue \in WorkQueues({Key}, Times) /\ cronCache \in CronJob \cup {None}
  BY DEF Sound, TypeOK, Copies
<1>2. UNCHANGED <<api, now, budget, caches, up, queue>>
  BY DEF GetCronJob, Quiet
<1>3. CASE Return("ok", 0)
  BY <1>1, <1>2, <1>3, StageSound
<1>4. CASE cronCache # None /\ rec' = [rec EXCEPT !.pc = "list", !.inst = cronCache]
  <2>1. rec' \in Reconcile_ /\ rec'.pc = "list" /\ rec'.inst = cronCache
        /\ rec'.missed = Zero
    BY <1>1, <1>4 DEF Reconcile_, PCs, GetCronJob, At, Sound, Pass, Undecided
  <2>2. Pass'
    BY <1>1, <1>4, <2>1 DEF Pass, Listing, Planned, Undecided
  <2> QED
    BY <1>1, <1>2, <2>1, <2>2, LocalSound
<1> QED
  BY <1>3, <1>4 DEF GetCronJob

LEMMA ReconcileSound == Sound /\ Reconcile => Sound'
<1>1. Sound /\ RequestLost => Sound'
  <2> SUFFICES ASSUME Sound, RequestLost PROVE Sound'
    OBVIOUS
  <2>1. budget' \in [Kinds -> Nat]
    BY SpendTypes DEF RequestLost, Kinds, Sound
  <2> QED
    BY <2>1, StageSound DEF RequestLost
<1>2. Sound /\ (CleanFailed \/ CleanSucceeded) => Sound'
  BY CleanSound DEF CleanFailed, CleanSucceeded, At
<1> QED
  BY <1>1, <1>2, QueueSound, GetCronJobSound, ListPodsSound, UpdateStatusSound, CheckSound,
     ScheduleSound, PlanSound, ReplaceSound, CreatePodSound DEF Reconcile

LEMMA SoundStep == Sound /\ [Next]_vars => Sound'
<1>1. Sound /\ UNCHANGED vars => Sound'
  <2> SUFFICES ASSUME Sound, UNCHANGED vars PROVE Sound'
    OBVIOUS
  <2>1. /\ UNCHANGED <<api, now, caches, up, rec>> /\ budget' \in [Kinds -> Nat]
        /\ queue' \in WorkQueues({Key}, Times) /\ rec' \in Reconcile_ /\ CronSeen(rec.inst)
    BY DEF vars, Sound, TypeOK, Copies
  <2>2. Pass'
    BY <2>1 DEF Sound, Pass, Cancelled, api
  <2> QED
    BY <2>1, <2>2, LocalSound
<1> QED
  BY <1>1, ClusterSound, ManagerSound, ReconcileSound DEF Next

------------------------------------------------------------------------------
\* What is stored, cached, queued and held by a pass keeps its type, with any number of
\* events behind and after any crash.
THEOREM Typed == Spec => []TypeOK
<1>1. Sound => TypeOK
  BY DEF Sound
<1> QED
  BY <1>1, SoundInit, SoundStep, PTL DEF Spec

\* Every pod was made for a time that had come, after the creation of the CronJob that
\* owns it, whatever schedule and however many CronJobs of the name there were.
THEOREM Due == Spec => []RunsAreDue
<1>1. Sound => RunsAreDue
  BY DEF Sound
<1> QED
  BY <1>1, SoundInit, SoundStep, PTL DEF Spec

\* A pass makes no pod for a time that a pod it has listed had.
THEOREM Repeats == Spec => NeverRepeatsListed
<1>1. ASSUME Sound, CreatePod, NEW i \in rec.active \cup rec.failed \cup rec.succeeded
      PROVE  pods[i].slot < pods'[Len(pods')].slot
  <2>1. /\ rec \in Reconcile_ /\ rec.inst \in CronJob /\ rec.missed # Zero
        /\ rec.inst.last < rec.missed /\ i \in DOMAIN pods /\ pods[i].slot <= rec.inst.last
        /\ pods \in Seq(Pod)
    BY <1>1 DEF Sound, TypeOK, Pass, Listing, Planned, Undecided, CreatePod, At
  <2>2. pods'[Len(pods')].slot = rec.missed
    <3> DEFINE p == [owner |-> rec.inst.uid, slot |-> rec.missed, phase |-> "Active",
                     deleting |-> FALSE]
    <3>1. pods' = Append(pods, p)
      BY <1>1, <2>1 DEF CreatePod, StorePod, Put
    <3>2. p.slot = rec.missed
      OBVIOUS
    <3> HIDE DEF p
    <3>3. pods'[Len(pods')] = p
      BY <2>1, <3>1
    <3> QED
      BY <3>2, <3>3
  <2>3. pods[i].slot \in Nat /\ rec.inst.last \in Nat /\ rec.missed \in Nat
    <3>1. pods[i] \in Pod /\ rec.missed \in Slots \cup {Zero}
      BY <2>1 DEF Reconcile_
    <3> QED
      BY <2>1, <3>1, TimesAre DEF Pod, CronJob
  <2> QED
    BY <2>1, <2>2, <2>3
<1>2. Sound => [CreatePod => \A i \in rec.active \cup rec.failed \cup rec.succeeded :
                  pods[i].slot < pods'[Len(pods')].slot]_vars
  BY <1>1
<1> QED
  BY <1>2, SoundInit, SoundStep, PTL DEF Spec, NeverRepeatsListed

\* What a pass that gets to the plan has found.
LEMMA NewestFound ==
    ASSUME Sound, GetNextScheduledTime, rec'.pc = "plan"
    PROVE  /\ rec.inst.spec.valid /\ rec'.inst = rec.inst
           /\ rec'.missed = LET missed == Missed(Earliest(rec.inst))
                            IN  IF missed = {} THEN Zero ELSE Latest(missed)
<1> DEFINE earliest == Earliest(rec.inst)
           scan == Scan[MaxMissed + 1][earliest]
<1>1. /\ rec \in Reconcile_ /\ rec.inst \in CronJob /\ now \in 0..Horizon
  BY DEF Sound, TypeOK, Pass, Listing, Undecided, GetNextScheduledTime, At, Times, Zero
<1>2. earliest \in Times
  BY <1>1, EarliestIs
<1>3. Finds(MaxMissed + 1, earliest)
  BY <1>1, <1>2, ScanFinds, BoundsAssumption
<1>4. /\ rec.inst.spec.valid /\ ~ scan.error
      /\ rec'.missed = scan.missed /\ rec'.inst = rec.inst
  <2>1. ~ Return("ok", 0)
    BY IdleIs DEF Return, Reconcile_
  <2>2. /\ rec.inst.spec.valid /\ ~ scan.error
        /\ rec' = [rec EXCEPT !.pc = "plan", !.missed = scan.missed, !.next = NextSlot(now)]
    BY <2>1, Zenon DEF GetNextScheduledTime
  <2> HIDE DEF scan
  <2> QED
    BY <1>1, <2>2 DEF Reconcile_
<1>5. rec'.missed = IF Missed(earliest) = {} THEN Zero ELSE Latest(Missed(earliest))
  BY <1>3, <1>4 DEF Finds, LastMissed
<1> QED
  BY <1>4, <1>5

\* The times that the CronJob c has missed at this moment: after its last run, and not
\* past its deadline.
Overdue(c) ==
    {s \in Slots : /\ c.last < s /\ s <= now
                   /\ c.spec.deadline # Unset => now - c.spec.deadline < s}

\* Starting the walk at Earliest leaves out the times that are not overdue, and no other.
LEMMA EarliestBounds ==
    ASSUME Sound, At("schedule")
    PROVE  Overdue(rec.inst) = Missed(Earliest(rec.inst))
<1> DEFINE c == rec.inst
<1>1. /\ c \in CronJob /\ c.created <= c.last /\ now \in Nat /\ Slots \subseteq Nat
      /\ c.created \in Nat /\ c.last \in Nat /\ c.spec.deadline \in Nat \cup {Unset}
  BY TimesAre, SpecsAssumption DEF Sound, TypeOK, Pass, Listing, Undecided, At, CronJob, Spec_
<1>2. Earliest(c) = IF c.spec.deadline # Unset /\ now - c.spec.deadline > c.last
                    THEN now - c.spec.deadline ELSE c.last
  BY <1>1 DEF Earliest, Zero
<1> HIDE DEF c
<1>3. ASSUME NEW s \in Slots
      PROVE  /\ c.last < s /\ s <= now
             /\ c.spec.deadline # Unset => now - c.spec.deadline < s
             <=> Earliest(c) < s /\ s <= now
  BY <1>1, <1>2, <1>3
<1>4. Overdue(c) = {s \in Slots : Earliest(c) < s /\ s <= now}
  BY <1>3 DEF Overdue
<1> QED
  BY <1>4 DEF Missed, c

\* The loop of getNextScheduledTime finds the newest time that came after the last run
\* and is not past the deadline, for any schedule, any deadline and any limit of missed
\* times.
THEOREM FindsNewest == Spec => MissesNothing
<1> DEFINE FoundNewest == LET deadline == rec.inst.spec.deadline
                              missed == {s \in Slots : /\ rec.inst.last < s /\ s <= now
                                                       /\ deadline # Unset => now - deadline < s}
                          IN  rec'.missed = IF missed = {} THEN Zero ELSE Latest(missed)
<1>1. ASSUME Sound, GetNextScheduledTime, rec'.pc = "plan"
      PROVE  FoundNewest
  <2>1. At("schedule")
    BY <1>1 DEF GetNextScheduledTime
  <2> QED
    BY <1>1, <2>1, NewestFound, EarliestBounds DEF Overdue
<1>2. Sound => [GetNextScheduledTime /\ rec'.pc = "plan" => FoundNewest]_vars
  BY <1>1
<1> QED
  BY <1>2, SoundInit, SoundStep, PTL DEF Spec, MissesNothing

\* Under Replace, a pod is made only after every pod that the pass listed as running has
\* ended or is being deleted.
THEOREM Cancels == Spec => ReplaceCancels
<1>1. Sound => [CreatePod /\ rec.inst.spec.policy = "Replace" =>
                  \A i \in rec.active : pods[i].phase # "Active" \/ pods[i].deleting]_vars
  BY DEF Sound, Pass, Cancelled, CreatePod, At
<1> QED
  BY <1>1, SoundInit, SoundStep, PTL DEF Spec, ReplaceCancels

\* The history limits cost only pods that have ended, and of those listed the oldest first.
THEOREM Cleans == Spec => CleansOldest
<1> DEFINE listed == IF rec.pc = "cleanFailed" THEN rec.failed ELSE rec.succeeded
           Right == \A i \in DOMAIN pods : pods'[i] # pods[i] =>
                      /\ pods[i].phase \in Finished
                      /\ \A j \in listed : j < i => j \in rec.todo
<1>1. ASSUME Sound, CleanFailed \/ CleanSucceeded, NEW i \in DOMAIN pods, pods'[i] # pods[i]
      PROVE  pods[i].phase \in Finished /\ \A j \in listed : j < i => j \in rec.todo
  <2> DEFINE left == listed \ rec.todo
  <2>1. /\ rec \in Reconcile_ /\ listed \subseteq PodIds /\ listed \subseteq DOMAIN pods
        /\ \A j \in listed : pods[j].phase # "Active"
    BY <1>1 DEF Sound, TypeOK, Pass, Listing, Undecided, Reconcile_, CleanFailed,
       CleanSucceeded, At
  <2>2. left # {} /\ DeletePod(Oldest(left))
    BY <1>1 DEF CleanFailed, CleanSucceeded, Clean, Down, At, api
  <2>3. Oldest(left) \in left /\ \A j \in left : Oldest(left) <= j
    <3>1. left \subseteq Nat
      BY <2>1, BoundsAssumption DEF PodIds
    <3> QED
      BY <2>2, <3>1, OldestIs
  <2>0. /\ listed \subseteq Nat /\ left \subseteq listed
        /\ \A j \in listed : j \notin left => j \in rec.todo
    BY <2>1, BoundsAssumption DEF PodIds
  <2> HIDE DEF left, listed
  <2>4. PICK o : o = Oldest(left)
    OBVIOUS
  <2>5. o \in listed /\ o \in Nat /\ o \in DOMAIN pods /\ DeletePod(o) /\ pods[o].phase # "Active"
    BY <2>1, <2>2, <2>3, <2>4, <2>0
  <2>6. pods[o].phase \in Finished /\ \E p \in Pod : pods' = Put(pods, o, p)
    <3>1. pods' # pods /\ pods[o] \in Pod
      BY <1>1, <2>5 DEF Sound, TypeOK
    <3>2. pods[o].phase \in Finished
      BY <2>5, <3>1 DEF DeletePod
    <3> QED
      BY <1>1, <2>5, <3>1, <3>2, DeletePodIs DEF StorePod
  <2>7. o = i
    <3>1. pods \in Seq(Pod) /\ o \in 1..(Len(pods) + 1)
      BY <1>1, <2>5 DEF Sound, TypeOK
    <3> QED
      BY <1>1, <2>6, <3>1, PutIs
  <2>8. \A j \in left : j \in Nat /\ o <= j
    BY <2>3, <2>4, <2>0
  <2>9. ASSUME NEW j \in listed, j < i PROVE j \in rec.todo
    BY <2>5, <2>7, <2>8, <2>9, <2>0
  <2> QED
    BY <2>6, <2>7, <2>9
<1>2. Sound => [CleanFailed \/ CleanSucceeded => Right]_vars
  BY <1>1
<1> QED
  BY <1>2, SoundInit, SoundStep, PTL DEF Spec, CleansOldest
==============================================================================
