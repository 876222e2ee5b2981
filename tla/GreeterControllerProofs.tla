----------------------- MODULE GreeterControllerProofs -----------------------
(***************************************************************************)
(* What holds of GreeterController for any number of Greeters and workers  *)
(* and any bounds.                                                         *)
(***************************************************************************)
EXTENDS GreeterController, SequenceTheorems, TLAPS

\* What a worker that is not idle has in its locals.
Busy(w) ==
    /\ workers[w].pc # "idle" => workers[w].key \in Names
    /\ workers[w].pc \in {"pod", "create", "update"} => workers[w].inst \in Greeter

TypeInv == TypeOK /\ \A w \in Workers : Busy(w)

LEMMA NewQueueType == NewQueue(Names) \in WorkQueues(Names, 0..Horizon)
  BY DEF WorkQueues, NewQueue, NoTimer

LEMMA SentTypes ==
    ASSUME NEW Objects, NEW watch \in Seq(Event(Objects)), NEW informer,
           NEW n \in Names, NEW obj \in Objects \cup {None}
    PROVE  Sent(watch, informer, n, obj) \in Seq(Event(Objects))
<1>1. [key |-> n, obj |-> obj] \in Event(Objects)
  BY DEF Event
<1> QED
  BY <1>1, AppendProperties DEF Sent

LEMMA NothingType == \A S : Nothing \in [Names -> S \cup {None}]
  BY DEF Nothing

LEMMA IdleType == Idle \in Worker /\ Idle.pc = "idle"
  BY DEF Idle, Worker, PCs, Phases

LEMMA TypesInit == Init => TypeInv
<1> SUFFICES ASSUME Init PROVE TypeInv
  OBVIOUS
<1>1. /\ greeters \in [Names -> Greeter \cup {None}]
      /\ pods \in [Names -> Pod \cup {None}]
      /\ greeterCache \in [Names -> Greeter \cup {None}]
      /\ podCache \in [Names -> Pod \cup {None}]
  BY NothingType DEF Init
<1>2. lastUid \in 0..MaxUid /\ now \in 0..Horizon /\ budget \in [Kinds -> Nat]
  BY BoundsAssumption DEF Init
<1>3. greeterWatch \in Seq(Event(Greeter)) /\ podWatch \in Seq(Event(Pod))
  BY EmptySeq DEF Init
<1>4. queue \in WorkQueues(Names, 0..Horizon)
  BY NewQueueType DEF Init
<1>5. workers \in [Workers -> Worker] /\ \A w \in Workers : Busy(w)
  BY IdleType DEF Init, Busy
<1> QED
  BY <1>1, <1>2, <1>3, <1>4, <1>5 DEF TypeInv, TypeOK, Init, Runs

LEMMA StoreGreeterTypes ==
    ASSUME TypeOK, NEW n \in Names, NEW g \in Greeter \cup {None}, StoreGreeter(n, g)
    PROVE  /\ greeters' \in [Names -> Greeter \cup {None}]
           /\ greeterWatch' \in Seq(Event(Greeter))
           /\ UNCHANGED <<pods, podWatch>>
  BY SentTypes DEF TypeOK, StoreGreeter

LEMMA StorePodTypes ==
    ASSUME TypeOK, NEW n \in Names, NEW p \in Pod \cup {None}, StorePod(n, p)
    PROVE  /\ pods' \in [Names -> Pod \cup {None}]
           /\ podWatch' \in Seq(Event(Pod))
           /\ UNCHANGED <<greeters, greeterWatch>>
  BY SentTypes DEF TypeOK, StorePod

LEMMA SpendTypes ==
    ASSUME TypeOK, NEW kind \in Kinds, Spend(kind)
    PROVE  budget' \in [Kinds -> Nat]
  BY DEF TypeOK, Spend

LEMMA FaultyTypes ==
    ASSUME TypeOK, Faulty
    PROVE  budget' \in [Kinds -> Nat]
  BY SpendTypes DEF TypeOK, Faulty, Kinds

LEMMA DecideTypes ==
    ASSUME TypeInv, NEW w \in Workers, NEW pc \in {"ok", "error"},
           workers[w].pc # "idle", Decide(w, pc)
    PROVE  workers' \in [Workers -> Worker] /\ \A v \in Workers : Busy(v)'
<1>1. [Idle EXCEPT !.pc = pc, !.key = workers[w].key] \in Worker
  BY DEF TypeInv, TypeOK, Busy, Idle, Worker, PCs, Phases
<1> QED
  BY <1>1 DEF TypeInv, TypeOK, Busy, Decide, Idle

LEMMA RewrittenTypes ==
    ASSUME NEW g \in Greeter
    PROVE  /\ \A s \in Schedules : [g EXCEPT !.schedule = s, !.rv = @ + 1] \in Greeter
           /\ \A p \in Phases : [g EXCEPT !.phase = p, !.rv = @ + 1] \in Greeter
<1>1. g.rv + 1 \in Nat
  BY DEF Greeter
<1> QED
  BY <1>1 DEF Greeter

LEMMA EnvironmentTypes == TypeInv /\ Environment => TypeInv'
<1> SUFFICES ASSUME TypeInv, Environment PROVE TypeInv'
  OBVIOUS
<1> USE DEF TypeInv
<1> DEFINE Same == UNCHANGED <<caches, process>>
<1>a. ASSUME Same, NEW n \in Names, NEW g \in Greeter \cup {None}, StoreGreeter(n, g),
             lastUid' \in 0..MaxUid, UNCHANGED <<ended, now>>, budget' \in [Kinds -> Nat]
      PROVE  TypeInv'
  BY <1>a, StoreGreeterTypes DEF TypeOK, Busy, caches, process
<1>b. ASSUME Same, NEW n \in Names, NEW p \in Pod \cup {None}, StorePod(n, p),
             ended' \subseteq (0..MaxUid) \X Verdicts, UNCHANGED <<lastUid, now>>,
             budget' \in [Kinds -> Nat]
      PROVE  TypeInv'
  BY <1>b, StorePodTypes DEF TypeOK, Busy, caches, process
<1>1. ASSUME NEW n \in Names, NEW s \in Schedules, CreateGreeter(n, s)
      PROVE  TypeInv'
  <2>0. lastUid \in 0..MaxUid /\ lastUid < MaxUid
    BY <1>1 DEF CreateGreeter, TypeOK
  <2>1. lastUid + 1 \in 1..MaxUid /\ lastUid + 1 \in 0..MaxUid
    BY <2>0, BoundsAssumption
  <2>2. [uid |-> lastUid + 1, rv |-> 1, schedule |-> s, phase |-> Unset] \in Greeter
    BY <2>1 DEF Greeter, Phases
  <2>3. /\ Same /\ UNCHANGED <<ended, now>> /\ lastUid' = lastUid + 1
        /\ budget' \in [Kinds -> Nat]
    BY <1>1 DEF CreateGreeter, TypeOK
  <2>4. StoreGreeter(n, [uid |-> lastUid + 1, rv |-> 1, schedule |-> s, phase |-> Unset])
    BY <1>1 DEF CreateGreeter
  <2> QED
    BY <1>a, <2>1, <2>2, <2>3, <2>4
<1>2. ASSUME NEW n \in Names, NEW s \in Schedules, EditSchedule(n, s)
      PROVE  TypeInv'
  <2>1. greeters[n] \in Greeter
    BY <1>2 DEF EditSchedule, TypeOK
  <2>2. [greeters[n] EXCEPT !.schedule = s, !.rv = @ + 1] \in Greeter
    BY <2>1, RewrittenTypes
  <2>3. Same /\ UNCHANGED <<lastUid, ended, now>> /\ budget' \in [Kinds -> Nat]
    BY <1>2, SpendTypes DEF EditSchedule, Kinds
  <2>4. StoreGreeter(n, [greeters[n] EXCEPT !.schedule = s, !.rv = @ + 1])
    BY <1>2 DEF EditSchedule
  <2> QED
    BY <1>a, <2>2, <2>3, <2>4 DEF TypeOK
<1>3. ASSUME NEW n \in Names, DeleteGreeter(n) PROVE TypeInv'
  BY <1>3, <1>a, SpendTypes DEF DeleteGreeter, TypeOK, Kinds
<1>4. ASSUME NEW n \in Names, NEW v \in Verdicts, PodEnds(n, v) PROVE TypeInv'
  <2>1. [pods[n] EXCEPT !.phase = v] \in Pod /\ pods[n].owner \in 0..MaxUid
    BY <1>4 DEF PodEnds, TypeOK, Pod
  <2>2. ended' \subseteq (0..MaxUid) \X Verdicts
    BY <1>4, <2>1 DEF PodEnds, TypeOK
  <2>3. Same /\ UNCHANGED <<lastUid, now>> /\ budget' \in [Kinds -> Nat]
    BY <1>4 DEF PodEnds, TypeOK
  <2>4. StorePod(n, [pods[n] EXCEPT !.phase = v])
    BY <1>4 DEF PodEnds
  <2> QED
    BY <1>b, <2>1, <2>2, <2>3, <2>4
<1>5. ASSUME NEW n \in Names, EvictPod(n) PROVE TypeInv'
  BY <1>5, <1>b, SpendTypes DEF EvictPod, TypeOK, Kinds
<1>6. ASSUME NEW n \in Names, ForeignPod(n) PROVE TypeInv'
  <2>1. [owner |-> NoOwner, phase |-> "Active"] \in Pod
    BY BoundsAssumption DEF Pod, NoOwner
  <2> QED
    BY <1>6, <1>b, <2>1, SpendTypes DEF ForeignPod, TypeOK, Kinds
<1>7. ASSUME NEW n \in Names, CollectOrphan(n) PROVE TypeInv'
  BY <1>7, <1>b DEF CollectOrphan, TypeOK
<1>8. ASSUME Tick PROVE TypeInv'
  BY <1>8, BoundsAssumption
     DEF Tick, TypeOK, Busy, api, caches, watches, process
<1> QED
  BY <1>1, <1>2, <1>3, <1>4, <1>5, <1>6, <1>7, <1>8 DEF Environment

\* A step that leaves the API server, the clock and the workers alone.
LEMMA InformerTypes == TypeInv /\ Informers => TypeInv'
<1> SUFFICES ASSUME TypeInv, Informers PROVE TypeInv'
  OBVIOUS
<1> USE DEF TypeInv
<1>a. ASSUME UNCHANGED <<api, now, run, workers>>, budget' \in [Kinds -> Nat],
             greeterCache' \in [Names -> Greeter \cup {None}],
             podCache' \in [Names -> Pod \cup {None}],
             greeterWatch' \in Seq(Event(Greeter)), podWatch' \in Seq(Event(Pod)),
             synced' \subseteq {"greeters", "pods"},
             queue' \in WorkQueues(Names, 0..Horizon)
      PROVE  TypeInv'
  BY <1>a DEF TypeOK, Busy, api
<1>1. CASE ListGreeters
  <2>1. budget' \in [Kinds -> Nat]
    BY <1>1, SpendTypes DEF ListGreeters, TypeOK, Kinds
  <2>2. greeterWatch' \in Seq(Event(Greeter))
    BY <1>1, EmptySeq DEF ListGreeters
  <2>3. queue' \in WorkQueues(Names, 0..Horizon)
    BY <1>1 DEF ListGreeters, TypeOK, WorkQueues, AddAll
  <2> QED
    BY <1>1, <1>a, <2>1, <2>2, <2>3 DEF ListGreeters, TypeOK
<1>2. CASE ListPods
  <2>1. budget' \in [Kinds -> Nat]
    BY <1>2, SpendTypes DEF ListPods, TypeOK, Kinds
  <2>2. podWatch' \in Seq(Event(Pod))
    BY <1>2, EmptySeq DEF ListPods
  <2>3. queue' \in WorkQueues(Names, 0..Horizon)
    BY <1>2 DEF ListPods, TypeOK, WorkQueues, AddAll
  <2> QED
    BY <1>2, <1>a, <2>1, <2>2, <2>3 DEF ListPods, TypeOK
<1>3. CASE WatchGreeters
  <2> DEFINE e == Head(greeterWatch)
  <2>1. e \in Event(Greeter) /\ greeterWatch' \in Seq(Event(Greeter))
    BY <1>3, HeadTailProperties DEF WatchGreeters, TypeOK
  <2>2. e.key \in Names /\ e.obj \in Greeter \cup {None}
    BY <2>1 DEF Event
  <2>3. queue' \in WorkQueues(Names, 0..Horizon)
    BY <1>3, <2>2 DEF WatchGreeters, TypeOK, WorkQueues, AddAll, Add
  <2>4. greeterCache' \in [Names -> Greeter \cup {None}]
    BY <1>3, <2>2 DEF WatchGreeters, TypeOK
  <2> QED
    BY <1>3, <1>a, <2>1, <2>3, <2>4 DEF WatchGreeters, TypeOK
<1>4. CASE WatchPods
  <2> DEFINE e == Head(podWatch)
  <2>1. e \in Event(Pod) /\ podWatch' \in Seq(Event(Pod))
    BY <1>4, HeadTailProperties DEF WatchPods, TypeOK
  <2>2. e.key \in Names /\ e.obj \in Pod \cup {None}
    BY <2>1 DEF Event
  <2>3. queue' \in WorkQueues(Names, 0..Horizon)
    BY <1>4, <2>2 DEF WatchPods, TypeOK, WorkQueues, AddAll, Add
  <2>4. podCache' \in [Names -> Pod \cup {None}]
    BY <1>4, <2>2 DEF WatchPods, TypeOK
  <2> QED
    BY <1>4, <1>a, <2>1, <2>3, <2>4 DEF WatchPods, TypeOK
<1>5. CASE \E n \in Names : ResyncGreeter(n) \/ ResyncPod(n)
  <2>1. queue' \in WorkQueues(Names, 0..Horizon)
    <3>1. PICK n \in Names : queue' = Add(queue, n)
      BY <1>5 DEF ResyncGreeter, ResyncPod
    <3> QED
      BY <3>1 DEF TypeOK, WorkQueues, AddAll, Add
  <2> QED
    BY <1>5, <1>a, <2>1 DEF ResyncGreeter, ResyncPod, TypeOK, caches, watches
<1> QED
  BY <1>1, <1>2, <1>3, <1>4, <1>5 DEF Informers

LEMMA ProcessTypes == TypeInv /\ Process => TypeInv'
<1> SUFFICES ASSUME TypeInv, Process PROVE TypeInv'
  OBVIOUS
<1> USE DEF TypeInv
<1>a. ASSUME UNCHANGED <<api, now, caches, watches, workers>>, budget' \in [Kinds -> Nat],
             run' \in Runs, queue' \in WorkQueues(Names, 0..Horizon)
      PROVE  TypeInv'
  BY <1>a DEF TypeOK, Busy, api, caches, watches
<1>b. ASSUME Forgotten, budget' \in [Kinds -> Nat]
      PROVE  TypeInv'
  <2>1. /\ greeterCache' \in [Names -> Greeter \cup {None}]
        /\ podCache' \in [Names -> Pod \cup {None}]
    BY <1>b, NothingType DEF Forgotten
  <2>2. greeterWatch' \in Seq(Event(Greeter)) /\ podWatch' \in Seq(Event(Pod))
    BY <1>b, EmptySeq DEF Forgotten
  <2>3. queue' \in WorkQueues(Names, 0..Horizon)
    BY <1>b, NewQueueType DEF Forgotten
  <2>4. workers' \in [Workers -> Worker] /\ \A w \in Workers : Busy(w)'
    BY <1>b, IdleType DEF Forgotten, Busy
  <2>5. synced' \subseteq {"greeters", "pods"} /\ run' \in Runs /\ UNCHANGED <<api, now>>
    BY <1>b DEF Forgotten, Runs
  <2> QED
    BY <1>b, <2>1, <2>2, <2>3, <2>4, <2>5 DEF TypeOK, api
<1>1. CASE StartWorkers \/ Restart
  BY <1>1, <1>a DEF StartWorkers, Restart, TypeOK, Runs
<1>2. CASE Signal
  BY <1>2, <1>a, SpendTypes DEF Signal, TypeOK, Runs, Kinds
<1>3. CASE RunReturns
  <2>1. queue' \in WorkQueues(Names, 0..Horizon)
    BY <1>3 DEF RunReturns, TypeOK, WorkQueues, ShutDown
  <2> QED
    BY <1>3, <1>a, <2>1 DEF RunReturns, TypeOK, Runs
<1>4. CASE Abort \/ Crash
  BY <1>4, <1>b, SpendTypes DEF Abort, Crash, Kinds
<1>5. CASE Exit
  BY <1>5, <1>b DEF Exit, TypeOK
<1> QED
  BY <1>1, <1>2, <1>3, <1>4, <1>5 DEF Process

LEMMA ProcessedTypes ==
    ASSUME NEW q \in WorkQueues(Names, 0..Horizon), NEW n \in Names, NEW t \in 0..Horizon
    PROVE  /\ Get(q, n) \in WorkQueues(Names, 0..Horizon)
           /\ Fire(q, n) \in WorkQueues(Names, 0..Horizon)
           /\ Done(Forget(q, n), n) \in WorkQueues(Names, 0..Horizon)
           /\ Done(AddAfter(q, n, t), n) \in WorkQueues(Names, 0..Horizon)
           /\ Done(AddRateLimited(q, n, t), n) \in WorkQueues(Names, 0..Horizon)
<1>1. Get(q, n) \in WorkQueues(Names, 0..Horizon)
  BY DEF Get, WorkQueues
<1>2. Fire(q, n) \in WorkQueues(Names, 0..Horizon)
  BY DEF Fire, Add, AddAll, NoTimer, WorkQueues
<1>3. \A r \in WorkQueues(Names, 0..Horizon) :
         /\ Done(r, n) \in WorkQueues(Names, 0..Horizon)
         /\ Forget(r, n) \in WorkQueues(Names, 0..Horizon)
         /\ AddAfter(r, n, t) \in WorkQueues(Names, 0..Horizon)
  BY DEF Done, Forget, AddAfter, WorkQueues
<1>4. [q EXCEPT !.failing = @ \cup {n}] \in WorkQueues(Names, 0..Horizon)
  BY DEF WorkQueues
<1> QED
  BY <1>1, <1>2, <1>3, <1>4 DEF AddRateLimited

LEMMA WorkerTypes ==
    ASSUME TypeInv, NEW w \in Workers,
           WorkerStep(w) \/ \E n \in Names : Get_(w, n)
    PROVE  TypeInv'
<1> USE DEF TypeInv
<1>a. ASSUME UNCHANGED <<api, now, caches, watches, run>>, budget' \in [Kinds -> Nat],
             queue' \in WorkQueues(Names, 0..Horizon),
             workers' \in [Workers -> Worker] /\ \A v \in Workers : Busy(v)'
      PROVE  TypeInv'
  BY <1>a DEF TypeOK, Busy, api, caches, watches
<1>b. ASSUME NEW x \in Worker, x.pc # "idle" => x.key \in Names,
             x.pc \in {"pod", "create", "update"} => x.inst \in Greeter,
             workers' = [workers EXCEPT ![w] = x]
      PROVE  workers' \in [Workers -> Worker] /\ \A v \in Workers : Busy(v)'
  BY <1>b DEF TypeOK, Busy
<1>1. ASSUME NEW n \in Names, Get_(w, n) PROVE TypeInv'
  <2> DEFINE x == [Idle EXCEPT !.pc = "sync", !.key = n]
  <2>1. x \in Worker /\ x.key \in Names /\ x.pc = "sync"
    BY DEF Idle, Worker, PCs, Phases
  <2>2. workers' = [workers EXCEPT ![w] = x]
    BY <1>1 DEF Get_
  <2>3. workers' \in [Workers -> Worker] /\ \A v \in Workers : Busy(v)'
    BY <1>b, <2>1, <2>2
  <2>4. queue' \in WorkQueues(Names, 0..Horizon)
    BY <1>1 DEF Get_, Get, TypeOK, WorkQueues
  <2> QED
    BY <1>1, <1>a, <2>3, <2>4 DEF Get_, TypeOK
<1>2. CASE SyncHandler(w)
  <2> DEFINE g == greeterCache[workers[w].key]
  <2>1. workers[w] \in Worker /\ workers[w].key \in Names /\ workers[w].pc = "sync"
    BY <1>2 DEF SyncHandler, TypeOK, Busy
  <2>2. workers' \in [Workers -> Worker] /\ \A v \in Workers : Busy(v)'
    <3>1. CASE Decide(w, "ok") \/ Decide(w, "error")
      BY <2>1, <3>1, DecideTypes
    <3>2. CASE /\ g # None /\ NotYet(g)
               /\ workers' = [workers EXCEPT ![w].pc = "later",
                                             ![w].when = g.schedule - now]
      <4>1. g.schedule - now \in Nat
        <5>1. g \in Greeter /\ now \in 0..Horizon
          BY <2>1, <3>2 DEF TypeOK
        <5>2. g.schedule \in Int /\ g.schedule > now
          BY <5>1, <3>2, BoundsAssumption DEF Greeter, Schedules, Unparsable, NotYet
        <5> QED
          BY <5>1, <5>2, BoundsAssumption
      <4>2. [workers[w] EXCEPT !.pc = "later", !.when = g.schedule - now] \in Worker
        BY <2>1, <4>1 DEF Worker, PCs
      <4> QED
        BY <2>1, <3>2, <4>2, <1>b DEF Worker, TypeOK
    <3>3. ASSUME g # None, NEW pc \in {"pod", "update"}, NEW want \in {Unset, "Running"},
                 workers' = [workers EXCEPT ![w].pc = pc, ![w].inst = g, ![w].want = want]
          PROVE  workers' \in [Workers -> Worker] /\ \A v \in Workers : Busy(v)'
      <4>1. g \in Greeter
        BY <2>1, <3>3 DEF TypeOK
      <4>2. [workers[w] EXCEPT !.pc = pc, !.inst = g, !.want = want] \in Worker
        BY <2>1, <4>1 DEF Worker, PCs, Phases
      <4> QED
        BY <2>1, <3>3, <4>1, <4>2, <1>b DEF Worker, TypeOK
    <3> QED
      BY <1>2, <3>1, <3>2, <3>3 DEF SyncHandler
  <2> QED
    BY <1>2, <1>a, <2>2 DEF SyncHandler, TypeOK
<1>3. CASE ReadPod(w)
  <2> DEFINE p == podCache[workers[w].key]
  <2>1. /\ workers[w] \in Worker /\ workers[w].key \in Names
        /\ workers[w].inst \in Greeter /\ workers[w].pc = "pod"
    BY <1>3 DEF ReadPod, TypeOK, Busy
  <2>2. workers' \in [Workers -> Worker] /\ \A v \in Workers : Busy(v)'
    <3>1. CASE Decide(w, "ok") \/ Decide(w, "error")
      BY <2>1, <3>1, DecideTypes
    <3>2. CASE Goto(w, "create")
      <4>1. [workers[w] EXCEPT !.pc = "create"] \in Worker
        BY <2>1 DEF Worker, PCs
      <4> QED
        BY <2>1, <3>2, <4>1, <1>b DEF Worker, TypeOK, Goto
    <3>3. CASE /\ p.phase \in Verdicts
               /\ workers' = [workers EXCEPT ![w].pc = "update", ![w].want = p.phase]
      <4>1. [workers[w] EXCEPT !.pc = "update", !.want = p.phase] \in Worker
        BY <2>1, <3>3 DEF Worker, PCs, Phases
      <4> QED
        BY <2>1, <3>3, <4>1, <1>b DEF Worker, TypeOK
    <3> QED
      BY <1>3, <3>1, <3>2, <3>3 DEF ReadPod
  <2> QED
    BY <1>3, <1>a, <2>2 DEF ReadPod, TypeOK
<1>4. CASE RequestLost(w)
  <2>1. workers' \in [Workers -> Worker] /\ \A v \in Workers : Busy(v)'
    BY <1>4, DecideTypes DEF RequestLost
  <2> QED
    BY <1>4, <1>a, <2>1, FaultyTypes DEF RequestLost, TypeOK
<1>c. ASSUME Answered(w), workers[w].pc # "idle"
      PROVE  /\ budget' \in [Kinds -> Nat]
             /\ workers' \in [Workers -> Worker] /\ \A v \in Workers : Busy(v)'
  BY <1>c, DecideTypes, FaultyTypes DEF Answered, TypeOK
<1>5. CASE CreatePod(w)
  <2> DEFINE n == workers[w].key
             p == [owner |-> workers[w].inst.uid, phase |-> "Active"]
  <2>1. n \in Names /\ workers[w].inst \in Greeter /\ workers[w].pc = "create"
    BY <1>5 DEF CreatePod, TypeOK, Busy
  <2>2. p \in Pod
    BY <2>1, BoundsAssumption DEF Greeter, Pod
  <2>3. CASE StorePod(n, p) /\ Answered(w)
    BY <1>5, <1>c, <2>1, <2>2, <2>3, StorePodTypes DEF CreatePod, TypeOK, caches
  <2>4. CASE Decide(w, "error")
             /\ UNCHANGED <<pods, podWatch, greeters, greeterWatch, budget>>
    <3>1. workers' \in [Workers -> Worker] /\ \A v \in Workers : Busy(v)'
      BY <2>1, <2>4, DecideTypes
    <3> QED
      BY <1>5, <1>a, <2>4, <3>1 DEF CreatePod, TypeOK, api, watches
  <2> QED
    BY <1>5, <2>3, <2>4 DEF CreatePod
<1>6. CASE UpdateStatus(w)
  <2> DEFINE n == workers[w].key
             g == [greeters[n] EXCEPT !.phase = workers[w].want, !.rv = @ + 1]
  <2>1. n \in Names /\ workers[w].want \in Phases /\ workers[w].pc = "update"
    BY <1>6 DEF UpdateStatus, TypeOK, Busy, Worker
  <2>2. CASE Unchanged(n, workers[w].inst) /\ StoreGreeter(n, g) /\ Answered(w)
    <3>1. greeters[n] \in Greeter
      BY <2>1, <2>2 DEF Unchanged, TypeOK
    <3>2. g \in Greeter
      BY <2>1, <3>1, RewrittenTypes
    <3> QED
      BY <1>6, <1>c, <2>1, <2>2, <3>2, StoreGreeterTypes DEF UpdateStatus, TypeOK, caches
  <2>3. CASE Decide(w, "error")
             /\ UNCHANGED <<greeters, greeterWatch, pods, podWatch, budget>>
    <3>1. workers' \in [Workers -> Worker] /\ \A v \in Workers : Busy(v)'
      BY <2>1, <2>3, DecideTypes
    <3> QED
      BY <1>6, <1>a, <2>3, <3>1 DEF UpdateStatus, TypeOK, api, watches
  <2> QED
    BY <1>6, <2>2, <2>3 DEF UpdateStatus
<1>d. ASSUME NEW q, Finish(w, q), Done(q, workers[w].key) \in WorkQueues(Names, 0..Horizon)
      PROVE  TypeInv'
  <2>1. workers' \in [Workers -> Worker] /\ \A v \in Workers : Busy(v)'
    BY <1>b, <1>d, IdleType DEF Finish, Idle
  <2> QED
    BY <1>a, <1>d, <2>1 DEF Finish, TypeOK
<1>7. CASE FinishOk(w)
  BY <1>7, <1>d, ProcessedTypes, BoundsAssumption DEF FinishOk, TypeOK, Busy
<1>8. CASE FinishError(w)
  BY <1>8, <1>d, ProcessedTypes DEF FinishError, TypeOK, Busy
<1>9. CASE FinishLater(w)
  <2> DEFINE due == now + workers[w].when
             t == IF due < Horizon THEN due ELSE Horizon
  <2>1. workers[w].key \in Names /\ workers[w].when \in Nat /\ now \in 0..Horizon
    BY <1>9 DEF FinishLater, TypeOK, Busy, Worker
  <2>2. t \in 0..Horizon
    BY <2>1, BoundsAssumption
  <2> QED
    BY <1>9, <1>d, <2>1, <2>2, ProcessedTypes DEF FinishLater, TypeOK
<1> QED
  BY <1>1, <1>2, <1>3, <1>4, <1>5, <1>6, <1>7, <1>8, <1>9 DEF WorkerStep, Requests

LEMMA TypesStep == TypeInv /\ [Next]_vars => TypeInv'
<1> SUFFICES ASSUME TypeInv, [Next]_vars PROVE TypeInv'
  OBVIOUS
<1>1. ASSUME NEW n \in Names, Expire(n) PROVE TypeInv'
  <2>1. queue' \in WorkQueues(Names, 0..Horizon)
    BY <1>1, ProcessedTypes, BoundsAssumption DEF Expire, TypeInv, TypeOK
  <2> QED
    BY <1>1, <2>1 DEF Expire, TypeInv, TypeOK, Busy, api, caches, watches
<1>2. CASE UNCHANGED vars
  BY <1>2 DEF vars, api, caches, watches, process, TypeInv, TypeOK, Busy
<1> QED
  BY <1>1, <1>2, EnvironmentTypes, InformerTypes, ProcessTypes, WorkerTypes DEF Next

\* Whatever is lost, cached or restarted, every variable keeps its type: no
\* worker goes on with the key or the snapshot of another iteration.
THEOREM Types == Spec => []TypeOK
<1>1. TypeInv => TypeOK
  BY DEF TypeInv
<1> QED
  BY <1>1, TypesInit, TypesStep, PTL DEF Spec

------------------------------------------------------------------------------
(* Exclusion.  The queue's record of what is processed is exact enough: a   *)
(* key stays in it from Get to Done, so Ready never returns it in between.  *)

Held == \A w \in Workers : workers[w].pc # "idle" => workers[w].key \in queue.processing

Exclusive == Held /\ OneWorkerPerKey

LEMMA ProcessingKept ==
    ASSUME NEW q \in WorkQueues(Names, 0..Horizon), NEW n \in Names
    PROVE  Fire(q, n).processing = q.processing
  BY DEF WorkQueues, AddAll, Add, Fire

LEMMA ProcessingFinished ==
    ASSUME NEW q \in WorkQueues(Names, 0..Horizon), NEW n \in Names, NEW t \in 0..Horizon
    PROVE  /\ Get(q, n).processing = q.processing \cup {n}
           /\ Done(Forget(q, n), n).processing = q.processing \ {n}
           /\ Done(AddAfter(q, n, t), n).processing = q.processing \ {n}
           /\ Done(AddRateLimited(q, n, t), n).processing = q.processing \ {n}
  BY DEF WorkQueues, Get, Done, Forget, AddAfter, AddRateLimited

\* A busy worker that keeps its key, and leaves the others and the queue alone.
LEMMA BusyExclusive ==
    ASSUME Exclusive, queue' = queue, NEW w \in Workers, workers[w].pc # "idle",
           workers'[w].key = workers[w].key,
           \A v \in Workers : v # w => workers'[v] = workers[v]
    PROVE  Exclusive'
<1>1. Held'
  BY DEF Exclusive, Held
<1>2. \A v \in Workers : workers'[v].pc # "idle" =>
         workers[v].pc # "idle" /\ workers'[v].key = workers[v].key
  OBVIOUS
<1>3. OneWorkerPerKey'
  BY <1>2 DEF Exclusive, OneWorkerPerKey
<1> QED
  BY <1>1, <1>3 DEF Exclusive

\* An idle worker that takes a key which nobody processes.
LEMMA TakenExclusive ==
    ASSUME Exclusive, NEW w \in Workers, NEW n \in Names, n \notin queue.processing,
           queue'.processing = queue.processing \cup {n}, workers'[w].key = n,
           \A v \in Workers : v # w => workers'[v] = workers[v]
    PROVE  Exclusive'
<1>1. Held'
  BY DEF Exclusive, Held
<1>2. \A v \in Workers : v # w /\ workers'[v].pc # "idle" =>
         workers[v].pc # "idle" /\ workers'[v].key = workers[v].key /\ workers'[v].key # n
  BY DEF Exclusive, Held
<1>3. OneWorkerPerKey'
  BY <1>2 DEF Exclusive, OneWorkerPerKey
<1> QED
  BY <1>1, <1>3 DEF Exclusive

LEMMA ExclusiveWorker ==
    ASSUME TypeInv, Exclusive, NEW w \in Workers,
           WorkerStep(w) \/ \E n \in Names : Get_(w, n)
    PROVE  Exclusive'
<1> USE DEF TypeInv, TypeOK, Exclusive, Held, OneWorkerPerKey
<1>b. ASSUME NEW pc \in {"ok", "error"}, workers[w].pc # "idle", Decide(w, pc), queue' = queue
      PROVE  Exclusive'
  BY <1>b DEF Decide, Idle
<1>1. ASSUME NEW n \in Names, Get_(w, n) PROVE Exclusive'
  <2>1. queue'.processing = queue.processing \cup {n} /\ n \notin queue.processing
    BY <1>1, ProcessingFinished, BoundsAssumption DEF Get_, Ready
  <2>2. /\ workers'[w].key = n
        /\ \A v \in Workers : v # w => workers'[v] = workers[v]
    BY <1>1 DEF Get_, Idle
  <2> QED
    BY <2>1, <2>2, TakenExclusive
<1>2. CASE SyncHandler(w)
  <2>1. queue' = queue /\ workers[w].pc # "idle"
    BY <1>2 DEF SyncHandler
  <2>2. CASE Decide(w, "ok") \/ Decide(w, "error")
    BY <1>b, <2>1, <2>2
  <2>3. CASE ~ (Decide(w, "ok") \/ Decide(w, "error"))
    <3>1. /\ workers'[w].key = workers[w].key
          /\ \A v \in Workers : v # w => workers'[v] = workers[v]
      <4> DEFINE g == greeterCache[workers[w].key]
      <4>1. CASE workers' = [workers EXCEPT ![w].pc = "later", ![w].when = g.schedule - now]
        BY <4>1 DEF Worker
      <4>2. ASSUME NEW pc \in PCs, NEW want \in Phases,
                   workers' = [workers EXCEPT ![w].pc = pc, ![w].inst = g, ![w].want = want]
            PROVE  workers'[w].key = workers[w].key
        BY <4>2 DEF Worker
      <4> QED
        BY <1>2, <2>3, <4>1, <4>2 DEF SyncHandler, PCs, Phases
    <3> QED
      BY <2>1, <3>1, BusyExclusive
  <2> QED
    BY <2>2, <2>3
<1>3. CASE ReadPod(w)
  <2>1. queue' = queue /\ workers[w].pc # "idle"
    BY <1>3 DEF ReadPod
  <2>2. CASE Decide(w, "ok") \/ Decide(w, "error")
    BY <1>b, <2>1, <2>2
  <2>3. CASE ~ (Decide(w, "ok") \/ Decide(w, "error"))
    <3>1. /\ workers'[w].key = workers[w].key
          /\ \A v \in Workers : v # w => workers'[v] = workers[v]
      BY <1>3, <2>3 DEF ReadPod, Goto, Worker
    <3> QED
      BY <2>1, <3>1, BusyExclusive
  <2> QED
    BY <2>2, <2>3
<1>4. CASE Requests(w) \/ RequestLost(w)
  <2>1. /\ queue' = queue /\ workers[w].pc # "idle"
        /\ Decide(w, "ok") \/ Decide(w, "error")
    BY <1>4 DEF Requests, CreatePod, UpdateStatus, RequestLost, Answered
  <2> QED
    BY <1>b, <2>1
<1>5. CASE FinishOk(w) \/ FinishError(w) \/ FinishLater(w)
  <2>1. workers[w].pc # "idle" /\ workers[w].key \in Names
    BY <1>5 DEF FinishOk, FinishError, FinishLater, Busy
  <2>2. queue'.processing = queue.processing \ {workers[w].key}
    <3>1. CASE FinishOk(w)
      BY <2>1, <3>1, ProcessingFinished, BoundsAssumption DEF FinishOk, Finish
    <3>2. CASE FinishError(w)
      BY <2>1, <3>2, ProcessingFinished DEF FinishError, Finish
    <3>3. CASE FinishLater(w)
      <4> DEFINE due == now + workers[w].when
                 t == IF due < Horizon THEN due ELSE Horizon
      <4>1. workers[w].when \in Nat /\ now \in 0..Horizon
        BY DEF Worker
      <4>2. t \in 0..Horizon
        BY <4>1, BoundsAssumption
      <4> QED
        BY <2>1, <3>3, <4>2, ProcessingFinished DEF FinishLater, Finish
    <3> QED
      BY <1>5, <3>1, <3>2, <3>3
  <2>3. /\ workers'[w].pc = "idle"
        /\ \A v \in Workers : v # w => workers'[v] = workers[v]
    <3>1. workers' = [workers EXCEPT ![w] = Idle]
      BY <1>5 DEF FinishOk, FinishError, FinishLater, Finish
    <3> QED
      BY <3>1, IdleType
  <2> QED
    BY <2>1, <2>2, <2>3
<1> QED
  BY <1>1, <1>2, <1>3, <1>4, <1>5 DEF WorkerStep

LEMMA ExclusiveStep == TypeInv /\ Exclusive /\ [Next]_vars => Exclusive'
<1> SUFFICES ASSUME TypeInv, Exclusive, [Next]_vars PROVE Exclusive'
  OBVIOUS
<1>a. ASSUME workers' = workers, queue'.processing = queue.processing
      PROVE  Exclusive'
  BY <1>a DEF Exclusive, Held, OneWorkerPerKey
<1>b. queue \in WorkQueues(Names, 0..Horizon)
  BY DEF TypeInv, TypeOK
<1>1. CASE Environment
  BY <1>1, <1>a DEF Environment, CreateGreeter, EditSchedule, DeleteGreeter, PodEnds,
     EvictPod, ForeignPod, CollectOrphan, Tick, process
<1>2. CASE Informers
  <2>1. workers' = workers
    BY <1>2 DEF Informers, ListGreeters, ListPods, WatchGreeters, WatchPods,
       ResyncGreeter, ResyncPod
  <2>2. \E S : queue' = queue \/ queue' = AddAll(queue, S)
    BY <1>2 DEF Informers, ListGreeters, ListPods, WatchGreeters, WatchPods,
       ResyncGreeter, ResyncPod, Add
  <2> QED
    BY <1>a, <1>b, <2>1, <2>2 DEF AddAll, WorkQueues
<1>3. CASE Process
  <2>1. CASE Forgotten
    <3>1. \A w \in Workers : workers'[w].pc = "idle"
      BY <2>1, IdleType DEF Forgotten
    <3> QED
      BY <3>1 DEF Exclusive, Held, OneWorkerPerKey
  <2>2. CASE StartWorkers \/ Signal \/ RunReturns \/ Restart
    BY <1>a, <1>b, <2>2
       DEF StartWorkers, Signal, RunReturns, Restart, ShutDown, WorkQueues
  <2> QED
    BY <1>3, <2>1, <2>2 DEF Process, Abort, Exit, Crash
<1>4. ASSUME NEW n \in Names, Expire(n) PROVE Exclusive'
  BY <1>4, <1>a, <1>b, ProcessingKept DEF Expire
<1>5. CASE UNCHANGED vars
  BY <1>5, <1>a DEF vars, process
<1> QED
  BY <1>1, <1>2, <1>3, <1>4, <1>5, ExclusiveWorker DEF Next

\* However many workers there are, and however keys are added, retried and timed
\* while they are processed, no two workers have the same Greeter.
THEOREM Exclusion == Spec => []OneWorkerPerKey
<1>1. Init => Exclusive
  <2>1. Init => \A w \in Workers : workers[w].pc = "idle"
    BY IdleType DEF Init
  <2> QED
    BY <2>1 DEF Exclusive, Held, OneWorkerPerKey
<1>2. Exclusive => OneWorkerPerKey
  BY DEF Exclusive
<1> QED
  BY <1>1, <1>2, TypesInit, TypesStep, ExclusiveStep, PTL DEF Spec
==============================================================================
