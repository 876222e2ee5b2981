----------------------- MODULE CronJobRefinementProofs -----------------------
(***************************************************************************)
(* CronJobReconciler implements CronJobSchedule, for any specs, schedule   *)
(* and bounds.                                                             *)
(***************************************************************************)
EXTENDS CronJobReconcilerProofs

\* The values of job and plans under the mapping.
Stored == IF cron = None THEN None ELSE Shown(cron)

Plans == IF rec.pc \in Acting THEN {[job |-> Shown(rec.inst), slot |-> rec.missed]} ELSE {}

\* What every step but an eviction keeps.
Unevicted == budget'["evict"] = budget["evict"]

------------------------------------------------------------------------------
(* The mapping. *)

LEMMA ShownIs ==
    ASSUME NEW c \in CronJob
    PROVE  /\ Shown(c) # None
           /\ Shown(c).uid = c.uid /\ Shown(c).created = c.created /\ Shown(c).spec = c.spec
           /\ Shown(c).last = c.last /\ Shown(c).active = {a[1] : a \in c.active}
<1>1. {a[1] : a \in c.active} \subseteq PodIds
  BY DEF CronJob
<1>2. Shown(c) \in Job
  BY <1>1 DEF Shown, Job, CronJob
<1> QED
  BY <1>2, JobAssumption DEF Shown

LEMMA StoredIs ==
    ASSUME TypeOK
    PROVE  /\ Stored = None <=> cron = None
           /\ cron # None => cron \in CronJob /\ Stored = Shown(cron)
  BY ShownIs DEF TypeOK, Stored

LEMMA Spends ==
    ASSUME TypeOK, NEW kind \in Kinds, kind # "evict", Spend(kind)
    PROVE  Unevicted
  BY DEF TypeOK, Spend, Unevicted, Kinds

\* The step of a pass that ends it.
LEMMA Dropped ==
    ASSUME UNCHANGED <<cron, pods, lastUid, now>>, Unevicted, rec'.pc \notin Acting
    PROVE  Schedule!Drop
<1>1. Stored' = Stored /\ Plans' = {}
  BY DEF Stored, Plans, Acting, Shown
<1> QED
  BY <1>1 DEF Schedule!Drop, Stored, Plans, Unevicted

LEMMA Returned ==
    ASSUME UNCHANGED <<cron, pods, lastUid, now>>, Unevicted,
           NEW pc \in {"ok", "error"}, NEW after, Return(pc, after)
    PROVE  Schedule!Drop
<1>1. rec'.pc = pc
  BY DEF Return, Idle
<1> QED
  BY <1>1, Dropped DEF Acting

\* The step of a pass that changes nothing of what it is about.
LEMMA Stays ==
    ASSUME UNCHANGED <<cron, pods, lastUid, now>>, Unevicted,
           \/ rec.pc \notin Acting /\ rec'.pc \notin Acting
           \/ /\ rec.pc \in Acting /\ rec'.pc \in Acting
              /\ rec'.inst = rec.inst /\ rec'.missed = rec.missed
    PROVE  UNCHANGED Schedule!vars
<1>1. Stored' = Stored /\ Plans' = Plans
  BY DEF Stored, Plans, Acting, Shown
<1> QED
  BY <1>1 DEF Schedule!vars, Stored, Plans, Unevicted

LEMMA ScheduleInit == Init => Schedule!Init
<1> SUFFICES ASSUME Init PROVE Schedule!Init
  OBVIOUS
<1>1. budget["evict"] \in Nat
  BY BoundsAssumption DEF Init, Kinds
<1>2. Stored = None /\ Plans = {}
  BY DEF Init, Stored, Plans, Idle, Acting
<1> QED
  BY <1>1, <1>2 DEF Init, Schedule!Init, Stored, Plans, Schedule!Zero

------------------------------------------------------------------------------
(* Pods. *)

LEMMA StorePodShown ==
    ASSUME NEW i \in DOMAIN pods, NEW p, StorePod(i, p), pods \in Seq(Pod)
    PROVE  pods' = [pods EXCEPT ![i] = p]
<1>1. ~ (i > Len(pods))
  OBVIOUS
<1> QED
  BY <1>1 DEF StorePod, Put

LEMMA DeletePodShown ==
    ASSUME TypeOK, NEW i \in DOMAIN pods, DeletePod(i)
    PROVE  Schedule!Deleted(i)
<1>1. pods[i] \in Pod /\ pods \in Seq(Pod)
  BY DEF TypeOK
<1>2. CASE pods[i].phase = "Active" /\ ~ pods[i].deleting
  <2>1. StorePod(i, [pods[i] EXCEPT !.deleting = TRUE])
    BY <1>2 DEF DeletePod, Finished
  <2>2. pods' = [pods EXCEPT ![i].deleting = TRUE]
    BY <1>1, <2>1, StorePodShown
  <2> QED
    BY <1>2, <2>2 DEF Schedule!Deleted
<1>3. CASE pods[i].phase \in Finished
  <2>1. StorePod(i, [pods[i] EXCEPT !.phase = "Gone"])
    BY <1>3 DEF DeletePod, Finished
  <2>2. pods' = [pods EXCEPT ![i].phase = "Gone"]
    BY <1>1, <2>1, StorePodShown
  <2> QED
    BY <1>3, <2>2 DEF Schedule!Deleted, Finished
<1>4. CASE UNCHANGED pods /\ pods[i].phase = "Gone"
  <2>1. pods = [pods EXCEPT ![i].phase = "Gone"]
    BY <1>1, <1>4 DEF Pod
  <2> QED
    BY <1>4, <2>1 DEF Schedule!Deleted
<1>5. CASE UNCHANGED pods /\ pods[i].phase = "Active" /\ pods[i].deleting
  <2>1. pods = [pods EXCEPT ![i].deleting = TRUE]
    BY <1>1, <1>5 DEF Pod
  <2> QED
    BY <1>5, <2>1 DEF Schedule!Deleted
<1> QED
  BY <1>2, <1>3, <1>4, <1>5 DEF DeletePod
------------------------------------------------------------------------------
(* Users, the cluster and the clock. *)

LEMMA PodChangesShown ==
    ASSUME PodChanges
    PROVE  /\ UNCHANGED <<lastUid, now>> /\ Stored' = Stored /\ Plans' = Plans
           /\ UNCHANGED <<cron, rec>>
  BY DEF PodChanges, Stored, Plans, Acting, Shown

LEMMA ScheduleCluster == Sound /\ Cluster => Schedule!Next
<1> SUFFICES ASSUME Sound, Cluster PROVE Schedule!Next
  OBVIOUS
<1>1. /\ TypeOK /\ cron \in CronJob \cup {None} /\ pods \in Seq(Pod)
      /\ lastUid \in 0..MaxUid /\ now \in Times
      /\ \A i \in DOMAIN pods : pods[i] \in Pod
  BY DEF Sound, TypeOK
<1>2. rec' = rec => Plans' = Plans
  BY DEF Plans, Acting, Shown
<1>3. ASSUME NEW s \in Specs, CreateCronJob(s) PROVE Schedule!Submit(s)
  <2> DEFINE c == [uid |-> lastUid + 1, rv |-> 1, created |-> now, spec |-> s,
                   last |-> Zero, active |-> {}]
  <2>1. c \in CronJob /\ {a[1] : a \in c.active} = {}
    BY <1>1, <1>3, BoundsAssumption DEF CronJob, CreateCronJob, Times, Zero, Never
  <2>2. cron' = c /\ c # None /\ cron = None
    BY <1>3, <2>1, NoneAssumption DEF CreateCronJob, StoreCron
  <2>3. Stored' = [uid |-> lastUid + 1, created |-> now, spec |-> s, last |-> Zero,
                   active |-> {}]
    BY <2>1, <2>2 DEF Stored, Shown
  <2>4. Stored = None
    BY <2>2 DEF Stored
  <2> QED
    BY <1>2, <1>3, <2>3, <2>4
       DEF CreateCronJob, Schedule!Submit, Schedule!Zero, Zero, Stored, Plans
<1>4. ASSUME NEW s \in Specs, EditCronJob(s) PROVE Schedule!Edit(s)
  <2> DEFINE c == [cron EXCEPT !.spec = s, !.rv = @ + 1]
  <2>1. cron # None /\ cron \in CronJob /\ cron' = c
    BY <1>1, <1>4 DEF EditCronJob, StoreCron
  <2>2. c \in CronJob /\ c.uid = cron.uid /\ c.created = cron.created /\ c.spec = s
        /\ c.last = cron.last /\ c.active = cron.active
    <3>1. cron \in CronJob /\ cron.rv + 1 \in Nat
      BY <2>1 DEF CronJob
    <3> QED
      BY <3>1 DEF CronJob
  <2> HIDE DEF c
  <2>3. Stored' = Shown(c) /\ Stored = Shown(cron) /\ Stored # None
    BY <1>1, <2>1, <2>2, StoredIs, NoneAssumption DEF Stored, Shown
  <2>4. Shown(c) = [Shown(cron) EXCEPT !.spec = s]
    <3> DEFINE ids == {a[1] : a \in cron.active}
    <3>1. {a[1] : a \in c.active} = ids
      BY <2>2
    <3>2. Shown(cron) = [uid |-> cron.uid, created |-> cron.created, spec |-> cron.spec,
                         last |-> cron.last, active |-> ids]
      BY DEF Shown
    <3>3. Shown(c) = [uid |-> cron.uid, created |-> cron.created, spec |-> s,
                      last |-> cron.last, active |-> ids]
      BY <2>2, <3>1 DEF Shown
    <3> HIDE DEF ids
    <3> QED
      BY <3>2, <3>3
  <2>5. Unevicted
    BY <1>1, <1>4, Spends DEF EditCronJob, Kinds
  <2> QED
    BY <1>2, <1>4, <2>3, <2>4, <2>5 DEF EditCronJob, Schedule!Edit, Stored, Plans, Unevicted
<1>5. CASE DeleteCronJob
  <2>1. Stored # None /\ Stored' = None
    BY <1>1, <1>5, StoredIs DEF DeleteCronJob, StoreCron, Stored
  <2>2. Unevicted
    BY <1>1, <1>5, Spends DEF DeleteCronJob, Kinds
  <2>3. Schedule!Withdraw
    BY <1>2, <1>5, <2>1, <2>2 DEF DeleteCronJob, Schedule!Withdraw, Stored, Plans, Unevicted
  <2> QED
    BY <2>3 DEF Schedule!Next
<1>6. ASSUME NEW i \in DOMAIN pods, NEW v \in Finished, PodEnds(i, v)
      PROVE  Schedule!PodEnds(i, v)
  <2>1. pods' = [pods EXCEPT ![i].phase = v]
    BY <1>1, <1>6, StorePodShown DEF PodEnds
  <2> QED
    BY <1>6, <2>1, PodChangesShown DEF PodEnds, Schedule!PodEnds, Stored, Plans
<1>7. ASSUME NEW i \in DOMAIN pods, PodStopped(i) PROVE Schedule!PodStopped(i)
  <2>1. pods' = [pods EXCEPT ![i].phase = "Gone"]
    BY <1>1, <1>7, StorePodShown DEF PodStopped
  <2> QED
    BY <1>7, <2>1, PodChangesShown DEF PodStopped, Schedule!PodStopped, Stored, Plans
<1>8. ASSUME NEW i \in DOMAIN pods, EvictPod(i) PROVE Schedule!Evict(i)
  <2>1. Schedule!Deleted(i) /\ budget["evict"] > 0 /\ budget'["evict"] = budget["evict"] - 1
    BY <1>1, <1>8, DeletePodShown DEF EvictPod, Spend, TypeOK, Kinds
  <2> QED
    BY <1>8, <2>1, PodChangesShown DEF EvictPod, Schedule!Evict, Stored, Plans
<1>9. ASSUME NEW i \in DOMAIN pods, CollectOrphan(i) PROVE Schedule!CollectOrphan(i)
  <2>1. Schedule!Deleted(i)
    BY <1>1, <1>9, DeletePodShown DEF CollectOrphan
  <2>2. Stored # None => Stored.uid # pods[i].owner
    BY <1>1, <1>9, StoredIs, ShownIs DEF CollectOrphan
  <2> QED
    BY <1>9, <2>1, <2>2, PodChangesShown DEF CollectOrphan, Schedule!CollectOrphan, Stored, Plans
<1>10. CASE Tick
  <2>1. Stored' = Stored /\ Plans' = Plans
    BY <1>2, <1>10 DEF Tick, api, Stored, Shown
  <2>2. now' > now
    BY <1>10, TimesAre, BoundsAssumption DEF Tick, Sound, TypeOK, Times
  <2>3. Schedule!Tick
    BY <1>10, <2>1, <2>2 DEF Tick, api, Schedule!Tick, Stored, Plans
  <2> QED
    BY <2>3 DEF Schedule!Next
<1>11. ASSUME NEW s \in Specs, CreateCronJob(s) \/ EditCronJob(s) PROVE Schedule!Next
  BY <1>3, <1>4, <1>11 DEF Schedule!Next
<1>12. ASSUME NEW i \in DOMAIN pods,
              \/ \E v \in Finished : PodEnds(i, v)
              \/ PodStopped(i) \/ EvictPod(i) \/ CollectOrphan(i)
       PROVE  Schedule!Next
  <2>1. Finished = Schedule!Finished
    BY DEF Finished, Schedule!Finished
  <2> QED
    BY <1>6, <1>7, <1>8, <1>9, <1>12, <2>1 DEF Schedule!Next
<1> QED
  BY <1>5, <1>10, <1>11, <1>12 DEF Cluster

------------------------------------------------------------------------------
(* The manager. *)

LEMMA ScheduleManager == Sound /\ Manager => Schedule!Next \/ UNCHANGED Schedule!vars
<1> SUFFICES ASSUME Sound, Manager PROVE Schedule!Next \/ UNCHANGED Schedule!vars
  OBVIOUS
<1>1. CASE Crash
  <2>1. UNCHANGED <<cron, pods, lastUid, now>> /\ rec'.pc \notin Acting
    BY <1>1 DEF Crash, Down, api, Idle, Acting
  <2>2. Unevicted
    BY <1>1, Spends DEF Crash, Kinds, Sound
  <2> QED
    BY <2>1, <2>2, Dropped DEF Schedule!Next
<1>2. CASE UNCHANGED <<api, now, budget, rec>>
  BY <1>2, Stays DEF api, Unevicted
<1> QED
  BY <1>1, <1>2 DEF Manager, WatchCron, WatchPods, Resync, Expire, Restart
------------------------------------------------------------------------------
(* The stages of a pass. *)

LEMMA SameShown ==
    ASSUME NEW c, NEW d, c.uid = d.uid, c.created = d.created, c.spec = d.spec,
           c.last = d.last, c.active = d.active
    PROVE  Shown(c) = Shown(d)
<1> DEFINE ids == {a[1] : a \in d.active}
<1>1. {a[1] : a \in c.active} = ids
  OBVIOUS
<1>2. Shown(d) = [uid |-> d.uid, created |-> d.created, spec |-> d.spec, last |-> d.last,
                  active |-> ids]
  BY DEF Shown
<1>3. Shown(c) = [uid |-> d.uid, created |-> d.created, spec |-> d.spec, last |-> d.last,
                  active |-> ids]
  BY <1>1 DEF Shown
<1> HIDE DEF ids
<1> QED
  BY <1>2, <1>3

\* What the stored status becomes when the API server accepts it: the copy that is
\* written has the version that is stored, so that nothing else of it differs.
LEMMA StatusShown ==
    ASSUME Sound, At("status"), Current
    PROVE  /\ cron \in CronJob /\ rec.inst \in CronJob
           /\ Shown(rec.inst) = [Shown(cron) EXCEPT !.last = rec.inst.last, !.active = rec.active]
<1>1. /\ cron \in CronJob /\ rec.inst \in CronJob /\ CronSeen(rec.inst) /\ rec.inst # None
      /\ rec.active = {a[1] : a \in rec.inst.active}
  BY NoneAssumption DEF Sound, TypeOK, Copies, Pass, Listing, Undecided, At, Current
<1>2. cron.uid = rec.inst.uid /\ cron.created = rec.inst.created /\ cron.spec = rec.inst.spec
  BY <1>1 DEF CronSeen, Current
<1>3. Shown(rec.inst) = [uid |-> cron.uid, created |-> cron.created, spec |-> cron.spec,
                         last |-> rec.inst.last, active |-> rec.active]
  BY <1>1, <1>2 DEF Shown
<1> DEFINE ids == {a[1] : a \in cron.active}
<1>4. Shown(cron) = [uid |-> cron.uid, created |-> cron.created, spec |-> cron.spec,
                     last |-> cron.last, active |-> ids]
  BY DEF Shown
<1> HIDE DEF ids
<1>5. Shown(rec.inst) = [Shown(cron) EXCEPT !.last = rec.inst.last, !.active = rec.active]
  <2>1. PICK j, last, active : j = Shown(cron) /\ last = rec.inst.last /\ active = rec.active
    OBVIOUS
  <2>2. j = [uid |-> cron.uid, created |-> cron.created, spec |-> cron.spec,
             last |-> cron.last, active |-> ids]
    BY <1>4, <2>1
  <2>3. PICK k : k = [j EXCEPT !.last = last]
    OBVIOUS
  <2>4. k = [uid |-> cron.uid, created |-> cron.created, spec |-> cron.spec,
             last |-> last, active |-> ids]
    BY <2>2, <2>3
  <2>5. [k EXCEPT !.active = active]
          = [uid |-> cron.uid, created |-> cron.created, spec |-> cron.spec,
             last |-> last, active |-> active]
    BY <2>4
  <2>6. [j EXCEPT !.last = last, !.active = active] = [k EXCEPT !.active = active]
    BY <2>3
  <2> QED
    BY <1>3, <2>1, <2>5, <2>6
<1> QED
  BY <1>1, <1>5

LEMMA Recorded ==
    ASSUME Sound, At("status"), Current, UNCHANGED <<pods, lastUid, now>>, Unevicted,
           Stored' = Shown(rec.inst),
           Plans' \in {{}, {[job |-> Shown(rec.inst), slot |-> Zero]}}
    PROVE  Schedule!Record
<1> DEFINE last == rec.inst.last
<1>1. /\ rec.inst \in CronJob /\ cron \in CronJob /\ TypeOK /\ Plans = {}
      /\ Stored' = [Stored EXCEPT !.last = last, !.active = rec.active]
      /\ Stored # None /\ Stored.created = rec.inst.created
  <2>1. /\ rec.inst \in CronJob /\ cron \in CronJob
        /\ Shown(rec.inst) = [Shown(cron) EXCEPT !.last = last, !.active = rec.active]
    BY StatusShown
  <2>2. TypeOK /\ Plans = {}
    BY DEF Sound, At, Plans, Acting
  <2>3. Stored = Shown(cron) /\ Stored # None /\ Stored.created = cron.created
    BY <2>1, <2>2, StoredIs, ShownIs DEF Current
  <2>4. cron.created = rec.inst.created
    BY <2>1, NoneAssumption DEF Sound, Copies, CronSeen, Current
  <2> QED
    BY <2>1, <2>2, <2>3, <2>4
<1>2. /\ last >= rec.inst.created
      /\ \A i \in rec.active : i \in DOMAIN pods /\ pods[i].slot <= last
      /\ last = rec.inst.created \/ \E i \in DOMAIN pods : pods[i].slot = last
  <2>1. last \in Nat /\ rec.inst.created \in Nat
    BY <1>1, TimesAre DEF CronJob
  <2> QED
    BY <2>1 DEF Sound, Pass, Listing, Undecided, At
<1> HIDE DEF last
<1>3. /\ last \in {Stored.created} \cup {pods[i].slot : i \in DOMAIN pods}
      /\ rec.active \in SUBSET DOMAIN pods
  BY <1>1, <1>2
<1>4. Plans' \in {{}, {[job |-> Stored', slot |-> Zero]}}
  BY <1>1
<1> QED
  BY <1>1, <1>2, <1>3, <1>4
     DEF Schedule!Record, Schedule!Zero, Zero, Stored, Plans, Unevicted

LEMMA ScheduleUpdateStatus == Sound /\ UpdateStatus => Schedule!Next
<1> SUFFICES ASSUME Sound, UpdateStatus PROVE Schedule!Next
  OBVIOUS
<1>1. /\ At("status") /\ rec \in Reconcile_ /\ TypeOK /\ rec.inst \in CronJob
      /\ rec.missed = Zero
      /\ UNCHANGED <<pods, lastUid, now>>
  BY DEF UpdateStatus, Sound, TypeOK, Pass, Listing, Undecided, At
<1>2. Unevicted
  BY <1>1, Spends DEF UpdateStatus, Answered, Kinds, Unevicted
<1>3. ASSUME Return("error", 0) PROVE Plans' = {}
  BY <1>3 DEF Return, Idle, Plans, Acting
<1>4. CASE Current /\ cron = rec.inst /\ Answered("cleanFailed") /\ UNCHANGED cron
  <2>1. Stored' = Shown(rec.inst)
    BY <1>4 DEF Stored, Shown, Current
  <2>2. CASE Goto("cleanFailed")
    <3>1. rec'.pc = "cleanFailed" /\ rec'.inst = rec.inst /\ rec'.missed = Zero
      BY <1>1, <2>2 DEF Goto, Reconcile_
    <3>2. Plans' = {[job |-> Shown(rec.inst), slot |-> Zero]}
      BY <3>1 DEF Plans, Acting, Shown
    <3> QED
      BY <1>1, <1>2, <1>4, <2>1, <3>2, Recorded DEF Schedule!Next
  <2>3. CASE Return("error", 0)
    BY <1>1, <1>2, <1>3, <1>4, <2>1, <2>3, Recorded DEF Schedule!Next
  <2> QED
    BY <1>4, <2>2, <2>3 DEF Answered
<1>5. CASE /\ Current
           /\ StoreCron([rec.inst EXCEPT !.rv = @ + 1])
           /\ \/ rec' = [rec EXCEPT !.pc = "cleanFailed", !.inst.rv = @ + 1]
              \/ Return("error", 0)
  <2> DEFINE c == [rec.inst EXCEPT !.rv = @ + 1]
  <2>1. /\ c \in CronJob /\ c.uid = rec.inst.uid /\ c.created = rec.inst.created
        /\ c.spec = rec.inst.spec /\ c.last = rec.inst.last /\ c.active = rec.inst.active
    BY <1>1 DEF CronJob
  <2>2. cron' = c
    BY <1>5 DEF StoreCron
  <2>3. rec' = [rec EXCEPT !.pc = "cleanFailed", !.inst.rv = @ + 1]
          => rec'.pc = "cleanFailed" /\ rec'.inst = c /\ rec'.missed = Zero
    BY <1>1 DEF Reconcile_
  <2> HIDE DEF c
  <2>4. Shown(c) = Shown(rec.inst) /\ c # None
    BY <2>1, SameShown, NoneAssumption
  <2>5. Stored' = Shown(rec.inst)
    BY <2>2, <2>4 DEF Stored, Shown
  <2>6. CASE rec' = [rec EXCEPT !.pc = "cleanFailed", !.inst.rv = @ + 1]
    <3>1. Plans' = {[job |-> Shown(c), slot |-> Zero]}
      BY <2>3, <2>6 DEF Plans, Acting, Shown
    <3> QED
      BY <1>1, <1>2, <1>5, <2>4, <2>5, <3>1, Recorded DEF Schedule!Next
  <2>7. CASE Return("error", 0)
    BY <1>1, <1>2, <1>3, <1>5, <2>5, <2>7, Recorded DEF Schedule!Next
  <2> QED
    BY <1>5, <2>6, <2>7
<1>6. CASE Return("error", 0) /\ UNCHANGED cron
  BY <1>1, <1>2, <1>6, Returned DEF Schedule!Next
<1> QED
  BY <1>4, <1>5, <1>6 DEF UpdateStatus

\* The steps that end the pass or only move it on.
LEMMA ScheduleMoves ==
    ASSUME Sound, Get_ \/ GetCronJob \/ ListPods \/ RequestLost \/ CheckSuspend \/ Plan
                  \/ CheckDeadline \/ CheckPolicy \/ Finish
    PROVE  Schedule!Next \/ UNCHANGED Schedule!vars
<1>1. rec \in Reconcile_ /\ TypeOK
  BY DEF Sound, TypeOK
<1>2. /\ UNCHANGED <<cron, pods, lastUid, now>>
      /\ Unevicted
  BY <1>1, Spends DEF Get_, GetCronJob, ListPods, RequestLost, CheckSuspend, Plan,
     CheckDeadline, CheckPolicy, Finish, Quiet, api, Kinds, Unevicted
<1>3. ASSUME NEW pc \in {"ok", "error"}, NEW after, Return(pc, after)
      PROVE  Schedule!Next
  BY <1>2, <1>3, Returned DEF Schedule!Next
<1>4. CASE Get_ \/ GetCronJob \/ ListPods \/ Finish
  <2>1. rec.pc \notin Acting
    BY <1>4 DEF Get_, GetCronJob, ListPods, Finish, At, Acting
  <2>2. Get_ \/ Finish => rec'.pc \in {"get", "idle"}
    BY DEF Get_, Finish, Idle
  <2>3. GetCronJob => rec'.pc \in {"ok", "list"}
    BY <1>1 DEF GetCronJob, Return, Idle, Reconcile_
  <2>4. ListPods => rec'.pc = "status"
    BY <1>1, Zenon DEF ListPods, Reconcile_
  <2>5. rec'.pc \notin Acting
    BY <1>4, <2>2, <2>3, <2>4 DEF Acting
  <2> QED
    BY <1>2, <2>1, <2>5, Stays
<1>5. CASE RequestLost
  BY <1>3, <1>5 DEF RequestLost
<1>6. CASE CheckSuspend \/ Plan \/ CheckDeadline \/ CheckPolicy
  <2>1. \/ \E after : Return("ok", after)
        \/ /\ rec.pc \in Acting /\ rec'.pc \in Acting
           /\ rec'.inst = rec.inst /\ rec'.missed = rec.missed
    BY <1>1, <1>6 DEF CheckSuspend, Plan, CheckDeadline, CheckPolicy, Goto, At, Acting, Reconcile_
  <2> QED
    BY <1>2, <1>3, <2>1, Stays
<1> QED
  BY <1>4, <1>5, <1>6

\* A step of the abstract controller that follows the plan.
LEMMA Follows ==
    ASSUME rec.pc \in Acting, NEW p, p = [job |-> Shown(rec.inst), slot |-> rec.missed],
           \/ Schedule!Decide(p) \/ Schedule!Launch(p)
           \/ \E i \in DOMAIN pods : Schedule!Clean(p, i) \/ Schedule!Cancel(p, i)
    PROVE  Schedule!Next
  BY DEF Schedule!Next

LEMMA ScheduleClean ==
    ASSUME Sound, NEW S, NEW limit, NEW pc, NEW phase,
           \/ /\ rec.pc = "cleanFailed" /\ S = rec.failed /\ pc = "cleanSucceeded"
              /\ limit = rec.inst.spec.failed /\ phase = "Failed"
           \/ /\ rec.pc = "cleanSucceeded" /\ S = rec.succeeded /\ pc = "suspend"
              /\ limit = rec.inst.spec.succeeded /\ phase = "Succeeded",
           Clean(S, limit, pc)
    PROVE  Schedule!Next \/ UNCHANGED Schedule!vars
<1> DEFINE left == S \ rec.todo
<1>1. /\ rec \in Reconcile_ /\ rec.inst \in CronJob /\ rec.missed = Zero
      /\ S \subseteq PodIds /\ S \subseteq DOMAIN pods
      /\ \A i \in S : pods[i].phase \in {phase, "Gone"}
      /\ TypeOK /\ rec.pc \in Acting
  BY DEF Sound, TypeOK, Pass, Listing, Undecided, Reconcile_, Acting
<1>2. CASE /\ UNCHANGED <<api, now, budget>>
           /\ rec' = [rec EXCEPT !.pc = pc, !.todo = {}]
  <2>1. rec'.pc \in Acting /\ rec'.inst = rec.inst /\ rec'.missed = rec.missed
    BY <1>1, <1>2 DEF Reconcile_, Acting
  <2> QED
    BY <1>1, <1>2, <2>1, Stays DEF api, Unevicted
<1>3. ASSUME limit # Unset, left # {}, rec' = [rec EXCEPT !.todo = @ \cup {Oldest(left)}],
             \/ DeletePod(Oldest(left)) /\ UNCHANGED budget
             \/ Spend("fault") /\ UNCHANGED <<pods, podWatch>>,
             UNCHANGED <<cron, lastUid, now>>
      PROVE  Schedule!Next \/ UNCHANGED Schedule!vars
  <2>1. Oldest(left) \in left
    <3>1. PodIds \subseteq Nat
      BY BoundsAssumption DEF PodIds
    <3>2. S \subseteq PodIds
      BY <1>1
    <3>3. left \subseteq Nat /\ left # {}
      BY <1>3, <3>1, <3>2
    <3> HIDE DEF left
    <3> QED
      BY <3>3, OldestIs
  <2>2. PICK i : i = Oldest(left)
    OBVIOUS
  <2>3. i \in DOMAIN pods /\ pods[i].phase \in {phase, "Gone"} /\ pods \in Seq(Pod)
    BY <1>1, <2>1, <2>2 DEF TypeOK
  <2>4. /\ rec'.pc = rec.pc /\ rec'.inst = rec.inst /\ rec'.missed = rec.missed
    BY <1>1, <1>3 DEF Reconcile_
  <2>5. Unevicted
    BY <1>1, <1>3, Spends DEF Kinds, Unevicted
  <2>6. CASE UNCHANGED pods
    BY <1>1, <1>3, <2>4, <2>5, <2>6, Stays
  <2>7. CASE pods[i].phase = phase /\ DeletePod(i) /\ pods' # pods
    <3>1. StorePod(i, [pods[i] EXCEPT !.phase = "Gone"])
      BY <2>7 DEF DeletePod, Finished
    <3>2. pods' = [pods EXCEPT ![i].phase = "Gone"]
      BY <2>3, <3>1, StorePodShown
    <3>3. Stored' = Stored /\ Plans' = Plans
      BY <1>3, <2>4 DEF Stored, Plans, Shown, Acting
    <3>4. PICK p : p = [job |-> Shown(rec.inst), slot |-> rec.missed]
      OBVIOUS
    <3>5. p.slot = Zero /\ p.job = Shown(rec.inst) /\ p.job.spec = rec.inst.spec
      BY <1>1, <3>4, ShownIs
    <3>6. Schedule!Clean(p, i)
      BY <1>3, <2>5, <2>7, <3>2, <3>3, <3>5
         DEF Schedule!Clean, Schedule!Zero, Schedule!Unset, Zero, Unset, Stored, Plans, Unevicted
    <3> QED
      BY <1>1, <2>3, <3>4, <3>6, Follows
  <2>8. pods[i].phase = "Gone" /\ DeletePod(i) => UNCHANGED pods
    BY DEF DeletePod, Finished
  <2> QED
    BY <1>3, <2>2, <2>3, <2>6, <2>7, <2>8
<1>4. CASE Down /\ UNCHANGED budget
  <2>1. rec'.pc \notin Acting /\ UNCHANGED <<cron, pods, lastUid, now>>
    BY <1>4 DEF Down, Idle, Acting, api
  <2> QED
    BY <1>4, <2>1, Dropped DEF Schedule!Next, Unevicted
<1> QED
  BY <1>2, <1>3, <1>4 DEF Clean, LoopRuns

LEMMA DueIs ==
    ASSUME Sound, At("schedule")
    PROVE  Schedule!Due(Shown(rec.inst)) = Missed(Earliest(rec.inst))
<1>1. rec.inst \in CronJob
  BY DEF Sound, TypeOK, Pass, Listing, Undecided, At
<1>2. Schedule!Due(Shown(rec.inst)) = Overdue(rec.inst)
  BY <1>1, ShownIs DEF Schedule!Due, Schedule!Unset, Unset, Overdue
<1> QED
  BY <1>2, EarliestBounds

LEMMA ScheduleDecides ==
    ASSUME Sound, GetNextScheduledTime
    PROVE  Schedule!Next \/ UNCHANGED Schedule!vars
<1>1. /\ rec \in Reconcile_ /\ rec.inst \in CronJob /\ rec.missed = Zero
      /\ ~ rec.inst.spec.suspend /\ At("schedule") /\ rec.pc \in Acting
      /\ UNCHANGED <<cron, pods, lastUid, now>> /\ Unevicted
  BY DEF Sound, TypeOK, Pass, Listing, Undecided, GetNextScheduledTime, At, Quiet, api, Acting,
     Unevicted
<1>2. CASE Return("ok", 0)
  BY <1>1, <1>2, Returned DEF Schedule!Next
<1>3. CASE ~ Return("ok", 0)
  <2>1. rec'.pc = "plan"
    BY <1>1, <1>3 DEF GetNextScheduledTime, Reconcile_
  <2> DEFINE due == Missed(Earliest(rec.inst))
  <2>2. /\ rec.inst.spec.valid /\ rec'.inst = rec.inst
        /\ rec'.missed = IF due = {} THEN Zero ELSE Latest(due)
    BY <2>1, NewestFound
  <2>3. due = Schedule!Due(Shown(rec.inst)) /\ due \subseteq Times
    BY <1>1, DueIs, TimesAre DEF Missed
  <2> HIDE DEF due
  <2>4. CASE due = {}
    BY <1>1, <2>1, <2>2, <2>4, Stays DEF Acting
  <2>5. CASE due # {}
    <3>1. rec'.missed \in due /\ \A u \in due : u <= rec'.missed
      BY <2>2, <2>3, <2>5, LatestIs
    <3>2. PICK p, s : p = [job |-> Shown(rec.inst), slot |-> rec.missed] /\ s = rec'.missed
      OBVIOUS
    <3>3. p.slot = Zero /\ p.job = Shown(rec.inst) /\ p.job.spec = rec.inst.spec
      BY <1>1, <3>2, ShownIs
    <3>4. Plans' = {[job |-> Shown(rec.inst), slot |-> s]}
      BY <2>1, <2>2, <3>2 DEF Plans, Acting, Shown
    <3>5. [p EXCEPT !.slot = s] = [job |-> Shown(rec.inst), slot |-> s]
      BY <3>2
    <3>6. Stored' = Stored
      BY <1>1 DEF Stored, Shown
    <3>7. s \in Schedule!Due(p.job) /\ \A u \in Schedule!Due(p.job) : u <= s
      BY <2>3, <3>1, <3>2, <3>3
    <3>8. Schedule!Decide(p)
      BY <1>1, <2>2, <3>3, <3>4, <3>5, <3>6, <3>7
         DEF Schedule!Decide, Schedule!Zero, Zero, Stored, Plans, Unevicted
    <3> QED
      BY <1>1, <3>2, <3>8, Follows
  <2> QED
    BY <2>4, <2>5
<1> QED
  BY <1>2, <1>3

LEMMA ScheduleReplace ==
    ASSUME Sound, Replace
    PROVE  Schedule!Next \/ UNCHANGED Schedule!vars
<1>0. /\ TypeOK /\ Pass /\ rec \in Reconcile_ /\ rec.pc = "replace"
      /\ UNCHANGED <<cron, lastUid, now>>
  BY DEF Sound, TypeOK, Replace, At
<1>1. /\ rec.inst \in CronJob /\ rec.missed # Zero
      /\ rec.inst.spec.policy = "Replace" /\ rec.todo \subseteq rec.active
      /\ rec.active \subseteq DOMAIN pods /\ rec.todo \subseteq Nat
      /\ rec.active = {a[1] : a \in rec.inst.active}
      /\ TypeOK /\ rec.pc \in Acting /\ UNCHANGED <<cron, lastUid, now>>
      /\ rec \in Reconcile_
  <2>1. PodIds \subseteq Nat /\ rec.todo \subseteq PodIds
    BY <1>0, BoundsAssumption DEF Reconcile_, PodIds
  <2> QED
    BY <1>0, <2>1 DEF Pass, Listing, Planned, Acting
<1>2. CASE rec.todo = {} /\ Goto("create") /\ UNCHANGED <<pods, podWatch, budget>>
  <2>1. rec'.pc \in Acting /\ rec'.inst = rec.inst /\ rec'.missed = rec.missed
    BY <1>1, <1>2 DEF Goto, Reconcile_, Acting
  <2> QED
    BY <1>1, <1>2, <2>1, Stays DEF Unevicted
<1>3. CASE /\ rec.todo # {} /\ DeletePod(Oldest(rec.todo))
           /\ \/ rec' = [rec EXCEPT !.todo = @ \ {Oldest(rec.todo)}] /\ UNCHANGED budget
              \/ Return("error", 0) /\ Spend("fault")
  <2>1. PICK i, p : i = Oldest(rec.todo) /\ p = [job |-> Shown(rec.inst), slot |-> rec.missed]
    OBVIOUS
  <2>2. i \in rec.active /\ i \in DOMAIN pods /\ DeletePod(i)
    BY <1>1, <1>3, <2>1, OldestIs
  <2>3. Schedule!Deleted(i)
    BY <1>1, <2>2, DeletePodShown
  <2>4. /\ p.slot # Zero /\ p.job = Shown(rec.inst) /\ p.job.spec = rec.inst.spec
        /\ i \in p.job.active
    BY <1>1, <2>1, <2>2, ShownIs
  <2>5. Stored' = Stored /\ Unevicted
    BY <1>1, <1>3, Spends DEF Stored, Shown, Kinds, Unevicted
  <2>6. Plans' \in {Plans, {}}
    <3>1. CASE Return("error", 0)
      BY <3>1 DEF Return, Idle, Plans, Acting
    <3>2. CASE rec' = [rec EXCEPT !.todo = @ \ {Oldest(rec.todo)}]
      <4>1. rec'.pc = rec.pc /\ rec'.inst = rec.inst /\ rec'.missed = rec.missed
        BY <1>1, <3>2 DEF Reconcile_
      <4> QED
        BY <4>1 DEF Plans, Acting, Shown
    <3> QED
      BY <1>3, <3>1, <3>2
  <2>7. Schedule!Cancel(p, i)
    BY <1>1, <2>3, <2>4, <2>5, <2>6
       DEF Schedule!Cancel, Schedule!Zero, Zero, Stored, Plans, Unevicted
  <2> QED
    BY <1>1, <2>1, <2>2, <2>7, Follows
<1> QED
  BY <1>2, <1>3 DEF Replace

LEMMA ScheduleCreatePod == ASSUME Sound, CreatePod PROVE Schedule!Next
<1>1. /\ rec \in Reconcile_ /\ rec.inst \in CronJob /\ rec.missed # Zero
      /\ rec.inst.spec.policy = "Forbid" => rec.active = {}
      /\ rec.inst.spec.policy = "Replace" => \A i \in rec.active : Cancelled(i)
      /\ rec.active = {a[1] : a \in rec.inst.active}
      /\ TypeOK /\ rec.pc \in Acting /\ UNCHANGED <<cron, lastUid, now>>
  BY DEF Sound, TypeOK, Pass, Listing, Planned, Undecided, CreatePod, At, Acting
<1>2. pods' = Append(pods, [owner |-> rec.inst.uid, slot |-> rec.missed,
                            phase |-> "Active", deleting |-> FALSE])
  BY <1>1 DEF CreatePod, StorePod, Put, TypeOK
<1>3. Plans' = {} /\ Unevicted /\ Stored' = Stored
  BY <1>1, Spends DEF CreatePod, Return, Idle, Plans, Stored, Acting, Shown, Kinds, Unevicted
<1>4. PICK p : p = [job |-> Shown(rec.inst), slot |-> rec.missed]
  OBVIOUS
<1>5. /\ p.slot = rec.missed /\ p.job = Shown(rec.inst) /\ p.job.spec = rec.inst.spec
      /\ p.job.active = rec.active /\ p.job.uid = rec.inst.uid
  BY <1>1, <1>4, ShownIs
<1>6. /\ p.slot # Zero
      /\ p.job.spec.policy = "Forbid" => p.job.active = {}
      /\ p.job.spec.policy = "Replace" =>
           \A i \in p.job.active : pods[i].phase # "Active" \/ pods[i].deleting
  BY <1>1, <1>5 DEF Cancelled
<1>7. pods' = Append(pods, [owner |-> p.job.uid, slot |-> p.slot, phase |-> "Active",
                            deleting |-> FALSE])
  BY <1>2, <1>5
<1>8. Schedule!Launch(p)
  BY <1>1, <1>3, <1>6, <1>7
     DEF Schedule!Launch, Schedule!Zero, Zero, Stored, Plans, Unevicted
<1> QED
  BY <1>1, <1>4, <1>8, Follows

------------------------------------------------------------------------------
LEMMA ScheduleStep == Sound /\ [Next]_vars => [Schedule!Next]_(Schedule!vars)
<1>1. Sound /\ (CleanFailed \/ CleanSucceeded) => Schedule!Next \/ UNCHANGED Schedule!vars
  BY ScheduleClean DEF CleanFailed, CleanSucceeded, At
<1>2. UNCHANGED vars => UNCHANGED Schedule!vars
  BY Stays DEF vars, api, Unevicted
<1> QED
  BY <1>1, <1>2, ScheduleCluster, ScheduleManager, ScheduleUpdateStatus, ScheduleMoves,
     ScheduleDecides, ScheduleReplace, ScheduleCreatePod DEF Next, Reconcile

\* The reconciler keeps to the schedule: with caches any number of events behind, refused
\* updates, lost answers and crashes, what it does to pods follows from a status that was
\* stored, and each stored status leads to one pod at most.
THEOREM Implements == Spec => KeepsSchedule
  BY SoundInit, SoundStep, ScheduleInit, ScheduleStep, PTL DEF Spec, KeepsSchedule, Schedule!Spec
==============================================================================
