----------------------- MODULE GreeterRefinementProofs -----------------------
(***************************************************************************)
(* GreeterController implements GreeterLifecycle, for any number of        *)
(* Greeters and workers: a write of UpdateStatus is a Begin or a Conclude, *)
(* because it replaces the very object its snapshot justifies, and what    *)
(* happens in caches, queue and workers stutters.                          *)
(***************************************************************************)
EXTENDS GreeterSafetyProofs

Jobs == [n \in Names |-> Job(greeters[n])]

LEMMA JobFields ==
    ASSUME NEW g \in Greeter
    PROVE  /\ Job(g) = [uid |-> g.uid, schedule |-> g.schedule, phase |-> g.phase]
           /\ Job(g) # None /\ Job(None) = None
<1>1. g # None
  BY NoneAssumption
<1>2. g.uid \in 1..MaxUid /\ g.schedule \in Schedules /\ g.phase \in Phases
  BY DEF Greeter
<1>3. [uid |-> g.uid, schedule |-> g.schedule, phase |-> g.phase] # None
  BY <1>2, JobAssumption
<1> QED
  BY <1>1, <1>3 DEF Job

\* A write of one Greeter is a write of one job.
LEMMA WriteJobs ==
    ASSUME TypeInv, NEW n \in Names, NEW g \in Greeter \cup {None}, StoreGreeter(n, g)
    PROVE  /\ Jobs' = [Jobs EXCEPT ![n] = Job(g)]
           /\ Jobs[n] = Job(greeters[n])
<1>1. greeters' = [greeters EXCEPT ![n] = g] /\ DOMAIN greeters = Names
  BY DEF StoreGreeter, TypeInv, TypeOK
<1>2. Jobs' = [m \in Names |-> Job(greeters'[m])]
  BY DEF Jobs, Job
<1> QED
  BY <1>1, <1>2 DEF Jobs

LEMMA SameJobs == greeters' = greeters => Jobs' = Jobs
  BY DEF Jobs, Job

LEMMA LifecycleInit == Init => Lifecycle!Init
<1> SUFFICES ASSUME Init PROVE Lifecycle!Init
  OBVIOUS
<1>1. \A n \in Names : Job(greeters[n]) = None
  BY DEF Init, Nothing, Job
<1> QED
  BY <1>1 DEF Init, Lifecycle!Init

\* Names of the abstract module that have the value of one here.
LEMMA LifecycleNames == Lifecycle!Unset = Unset
  BY DEF Lifecycle!Unset, Unset

LEMMA LifecycleEnvironment ==
    ASSUME TypeInv, Safe, Environment
    PROVE  Lifecycle!Next \/ UNCHANGED Lifecycle!vars
<1> USE DEF Lifecycle!vars
<1>0. greeters \in [Names -> Greeter \cup {None}] /\ lastUid \in Nat
  BY DEF TypeInv, TypeOK
<1>1. ASSUME NEW n \in Names, NEW s \in Schedules, CreateGreeter(n, s)
      PROVE  Lifecycle!Submit(n, s)
  <2> DEFINE g == [uid |-> lastUid + 1, rv |-> 1, schedule |-> s, phase |-> Unset]
  <2>1. /\ greeters[n] = None /\ lastUid < MaxUid /\ lastUid' = lastUid + 1
        /\ StoreGreeter(n, g) /\ UNCHANGED <<ended, now>>
    BY <1>1 DEF CreateGreeter
  <2>2. g \in Greeter
    BY <1>0, <2>1, BoundsAssumption DEF Greeter, Phases
  <2>3. Job(g) = [uid |-> lastUid + 1, schedule |-> s, phase |-> Unset]
    BY <2>2, JobFields
  <2>4. Job(greeters[n]) = None
    BY <2>1 DEF Job
  <2> HIDE DEF g
  <2>5. Jobs' = [Jobs EXCEPT ![n] = Job(g)] /\ Jobs[n] = None
    BY <2>1, <2>2, <2>4, WriteJobs
  <2> QED
    BY <2>1, <2>3, <2>5, LifecycleNames DEF Lifecycle!Submit, Jobs
<1>2. ASSUME NEW n \in Names, NEW s \in Schedules, EditSchedule(n, s)
      PROVE  Lifecycle!Reschedule(n, s)
  <2> DEFINE g == [greeters[n] EXCEPT !.schedule = s, !.rv = @ + 1]
  <2>1. greeters[n] \in Greeter /\ StoreGreeter(n, g) /\ UNCHANGED <<lastUid, ended, now>>
    BY <1>0, <1>2 DEF EditSchedule
  <2>2. g \in Greeter
    BY <2>1, RewrittenTypes
  <2>3. g.uid = greeters[n].uid /\ g.schedule = s /\ g.phase = greeters[n].phase
    BY <2>1 DEF Greeter
  <2> HIDE DEF g
  <2>4. Jobs' = [Jobs EXCEPT ![n] = Job(g)] /\ Jobs[n] = Job(greeters[n])
    BY <2>1, <2>2, WriteJobs
  <2>5. Jobs[n] # None /\ Job(g) = [Jobs[n] EXCEPT !.schedule = s]
    BY <2>1, <2>2, <2>3, <2>4, JobFields
  <2> QED
    BY <2>1, <2>4, <2>5 DEF Lifecycle!Reschedule, Jobs
<1>3. ASSUME NEW n \in Names, DeleteGreeter(n) PROVE Lifecycle!Withdraw(n)
  <2>1. /\ greeters[n] \in Greeter /\ StoreGreeter(n, None)
        /\ UNCHANGED <<lastUid, ended, now>>
    BY <1>0, <1>3 DEF DeleteGreeter
  <2>2. Jobs' = [Jobs EXCEPT ![n] = None] /\ Jobs[n] # None
    BY <2>1, WriteJobs, JobFields
  <2> QED
    BY <2>1, <2>2 DEF Lifecycle!Withdraw, Jobs
<1>4. ASSUME NEW n \in Names, NEW v \in Verdicts, PodEnds(n, v)
      PROVE  \E u \in 0..lastUid : Lifecycle!PodEnds(u, v)
  <2>1. pods[n].owner \in 0..lastUid
    <3>1. pods[n] \in Pod \cup {None} /\ pods[n] # None
      BY <1>4 DEF PodEnds, TypeInv, TypeOK
    <3>2. pods[n].owner \in Nat /\ pods[n].owner <= lastUid
      BY <3>1, PodFields DEF Safe, Owned
    <3> QED
      BY <1>0, <3>2
  <2>2. /\ greeters' = greeters /\ ended' = ended \cup {<<pods[n].owner, v>>}
        /\ UNCHANGED <<lastUid, now>>
    BY <1>4 DEF PodEnds, StorePod
  <2> QED
    BY <2>1, <2>2, SameJobs DEF Lifecycle!PodEnds, Jobs
<1>5. ASSUME NEW n \in Names, EvictPod(n) \/ ForeignPod(n) \/ CollectOrphan(n)
      PROVE  UNCHANGED Lifecycle!vars
  BY <1>5, SameJobs DEF EvictPod, ForeignPod, CollectOrphan, StorePod, Jobs
<1>6. ASSUME Tick PROVE Lifecycle!Tick
  BY <1>6, SameJobs DEF Tick, api, Lifecycle!Tick, Jobs
<1> QED
  BY <1>1, <1>2, <1>3, <1>4, <1>5, <1>6 DEF Environment, Lifecycle!Next

LEMMA LifecycleUpdateStatus ==
    ASSUME TypeInv, Safe, NEW w \in Workers, UpdateStatus(w)
    PROVE  Lifecycle!Next \/ UNCHANGED Lifecycle!vars
<1> DEFINE n == workers[w].key
           i == workers[w].inst
           want == workers[w].want
           g == [greeters[n] EXCEPT !.phase = want, !.rv = @ + 1]
<1>1. /\ now \in Nat /\ n \in Names /\ want \in Phases /\ workers[w].pc = "update"
      /\ UNCHANGED <<lastUid, ended, now>>
  BY DEF TypeInv, TypeOK, Busy, UpdateStatus, Worker
<1>2. CASE Unchanged(n, i) /\ StoreGreeter(n, g)
  <2>1. greeters[n] = i /\ greeters[n] \in Greeter
    BY <1>1, <1>2, UpdateStatusSnapshot DEF TypeInv, TypeOK, Unchanged
  <2>2. g \in Greeter
    BY <1>1, <2>1, RewrittenTypes
  <2>3. g.uid = i.uid /\ g.schedule = i.schedule /\ g.phase = want
    BY <2>1 DEF Greeter
  <2>4. \/ want = "Running" /\ i.phase = Unset /\ i.schedule \in 0..now
        \/ want \in Verdicts /\ i.phase = "Running" /\ <<i.uid, want>> \in ended
    BY <1>1 DEF Safe, JustifiedWorkers, Justified
  <2> HIDE DEF g, n, i, want
  <2>5. Jobs' = [Jobs EXCEPT ![n] = Job(g)] /\ Jobs[n] = Job(i)
    BY <1>1, <1>2, <2>1, <2>2, WriteJobs
  <2>6. /\ Jobs[n] = [uid |-> i.uid, schedule |-> i.schedule, phase |-> i.phase]
        /\ Jobs[n] # None /\ Job(g) = [Jobs[n] EXCEPT !.phase = want]
    BY <2>1, <2>2, <2>3, <2>5, JobFields
  <2>7. CASE want = "Running" /\ i.phase = Unset /\ i.schedule \in 0..now
    <3>1. Lifecycle!Begin(n)
      BY <1>1, <2>5, <2>6, <2>7, LifecycleNames DEF Lifecycle!Begin, Jobs
    <3> QED
      BY <1>1, <3>1 DEF Lifecycle!Next
  <2>8. CASE want \in Verdicts /\ i.phase = "Running" /\ <<i.uid, want>> \in ended
    <3>1. Lifecycle!Conclude(n, want)
      BY <1>1, <2>5, <2>6, <2>8 DEF Lifecycle!Conclude, Jobs
    <3> QED
      BY <1>1, <2>8, <3>1 DEF Lifecycle!Next
  <2> QED
    BY <2>4, <2>7, <2>8
<1>3. CASE greeters' = greeters
  BY <1>1, <1>3, SameJobs DEF Lifecycle!vars, Jobs
<1> QED
  BY <1>2, <1>3 DEF UpdateStatus

LEMMA LifecycleStep == TypeInv /\ Safe /\ [Next]_vars => [Lifecycle!Next]_(Lifecycle!vars)
<1> SUFFICES ASSUME TypeInv, Safe, [Next]_vars
             PROVE  Lifecycle!Next \/ UNCHANGED Lifecycle!vars
  OBVIOUS
<1>1. CASE UNCHANGED <<greeters, lastUid, ended, now>>
  BY <1>1, SameJobs DEF Lifecycle!vars, Jobs
<1>2. CASE Informers
  BY <1>1, <1>2 DEF Informers, ListGreeters, ListPods, WatchGreeters, WatchPods,
     ResyncGreeter, ResyncPod, api
<1>3. CASE Process
  BY <1>1, <1>3 DEF Process, StartWorkers, Signal, RunReturns, Abort, Exit, Crash,
     Restart, Forgotten, api
<1>4. ASSUME NEW w \in Workers, WorkerStep(w) \/ (\E n \in Names : Get_(w, n)),
             ~ UpdateStatus(w)
      PROVE  UNCHANGED <<greeters, lastUid, ended, now>>
  BY <1>4 DEF WorkerStep, Requests, SyncHandler, ReadPod, CreatePod, StorePod,
     RequestLost, FinishOk, FinishError, FinishLater, Finish, Get_, api
<1>5. CASE UNCHANGED vars \/ \E n \in Names : Expire(n)
  BY <1>1, <1>5 DEF vars, Expire, api
<1> QED
  BY <1>1, <1>2, <1>3, <1>4, <1>5, LifecycleEnvironment, LifecycleUpdateStatus DEF Next

\* Whatever the caches, the queue, the workers and the process do, what is stored
\* goes through the life of GreeterLifecycle and no other.
THEOREM Implements == Spec => KeepsPromise
<1> QED
  BY TypesInit, TypesStep, SafeInit, SafeStep, LifecycleInit, LifecycleStep, PTL
     DEF Spec, KeepsPromise, Lifecycle!Spec
==============================================================================
