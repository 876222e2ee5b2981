-------------------------- MODULE GreeterController --------------------------
(***************************************************************************)
(* The Greeter controller (greeter/internal/greeter/controller.go) with    *)
(* everything it talks to: the API server, the two informer caches it      *)
(* reads, the rate limited work queue, its workers, and the process that   *)
(* runs them.  A name stands for a namespace/name key; the pod of the      *)
(* Greeter n is the one pod called n-runner, so pods are keyed by n too.   *)
(*                                                                         *)
(* The phase Pending exists only in the worker's copy of the Greeter: what *)
(* is stored goes from "" to Running to a verdict.                         *)
(***************************************************************************)
EXTENDS Sequences, FiniteSets, WorkQueue

CONSTANTS
    Names,       \* keys of Greeters
    Workers,     \* worker goroutines
    Verdicts,    \* how a container ends: the pod phases Succeeded and Failed
    None,        \* no object, no key
    MaxUid,      \* bound: Greeters ever created
    MaxSchedule, \* bound: the latest schedule
    Horizon,     \* bound: the clock stops here
    MaxLag,      \* bound: events an informer may be behind
    Budgets      \* bounds: how often each Kind of disturbance happens, in one
                 \* behaviour or another

Kinds == {"edit", "delete", "evict", "foreign", "fault", "relist", "crash", "signal"}

\* A schedule that time.Parse rejects; the pattern of the CRD lets some through.
Unparsable == -1

Schedules == (0..MaxSchedule) \cup {Unparsable}

\* The phase of a Greeter whose status nobody has written yet.
Unset == ""

Phases == {Unset, "Running"} \cup Verdicts

\* rv is metadata.resourceVersion, counted for each object
Greeter == [uid : 1..MaxUid, rv : Nat, schedule : Schedules, phase : Phases]

\* The pod has no controller, or one that is not a Greeter.
NoOwner == 0

\* owner is the uid in the controller reference
Pod == [owner : 0..MaxUid, phase : {"Active"} \cup Verdicts]

ASSUME NoneAssumption ==
    None \notin Names /\ None \notin Greeter /\ None \notin Pod

ASSUME VerdictsAssumption ==
    Unset \notin Verdicts /\ "Running" \notin Verdicts /\ "Active" \notin Verdicts

ASSUME BoundsAssumption ==
    /\ MaxUid \in Nat
    /\ MaxSchedule \in Nat
    /\ Horizon \in Nat
    /\ MaxLag \in Nat
    /\ Budgets \subseteq [Kinds -> Nat]

VARIABLES
    greeters, pods,          \* what the API server stores
    lastUid,                 \* uid given out last
    ended,                   \* history: <<owner, verdict>> of the pods that ended
    now,                     \* the clock
    budget,                  \* disturbances left
    greeterCache, podCache,  \* what the listers return
    greeterWatch, podWatch,  \* events on their way to the informers
    synced,                  \* informers whose first list has arrived
    run,                     \* where Controller.Run is
    queue,                   \* c.workQueue
    workers                  \* locals and position of each worker

api == <<greeters, pods, lastUid, ended>>
caches == <<greeterCache, podCache, synced>>
watches == <<greeterWatch, podWatch>>
process == <<run, queue, workers>>
vars == <<api, now, budget, caches, watches, process>>

\* starting: waiting for the caches.  stopping: ctx is cancelled.
\* returned: Run is over but the process is still there.
Runs == {"down", "starting", "started", "stopping", "returned"}

Idle == [pc |-> "idle", key |-> None, inst |-> None, want |-> Unset, when |-> 0]

PCs == {"idle", "sync", "pod", "create", "update", "ok", "later", "error"}

Worker ==
    [pc : PCs, key : Names \cup {None}, inst : Greeter \cup {None},
     want : Phases, when : Nat]

Event(Objects) == [key : Names, obj : Objects \cup {None}]

Nothing == [n \in Names |-> None]

Init ==
    /\ greeters = Nothing /\ pods = Nothing
    /\ lastUid = 0 /\ ended = {} /\ now = 0 /\ budget \in Budgets
    /\ greeterCache = Nothing /\ podCache = Nothing /\ synced = {}
    /\ greeterWatch = <<>> /\ podWatch = <<>>
    /\ run = "starting"
    /\ queue = NewQueue(Names)
    /\ workers = [w \in Workers |-> Idle]

Spend(kind) ==
    /\ budget[kind] > 0
    /\ budget' = [budget EXCEPT ![kind] = @ - 1]

------------------------------------------------------------------------------
(* The API server.  A write is seen at once by the next request, and by an *)
(* informer that watches only through the event it causes.                 *)

Sent(watch, informer, n, obj) ==
    IF informer \in synced THEN Append(watch, [key |-> n, obj |-> obj]) ELSE watch

StoreGreeter(n, g) ==
    /\ Len(greeterWatch) < MaxLag
    /\ greeters' = [greeters EXCEPT ![n] = g]
    /\ greeterWatch' = Sent(greeterWatch, "greeters", n, g)
    /\ UNCHANGED <<pods, podWatch>>

StorePod(n, p) ==
    /\ Len(podWatch) < MaxLag
    /\ pods' = [pods EXCEPT ![n] = p]
    /\ podWatch' = Sent(podWatch, "pods", n, p)
    /\ UNCHANGED <<greeters, greeterWatch>>

CreateGreeter(n, s) ==
    /\ greeters[n] = None
    /\ lastUid < MaxUid
    /\ lastUid' = lastUid + 1
    /\ StoreGreeter(n, [uid |-> lastUid + 1, rv |-> 1, schedule |-> s, phase |-> Unset])
    /\ UNCHANGED <<ended, now, budget, caches, process>>

EditSchedule(n, s) ==
    /\ greeters[n] # None
    /\ s # greeters[n].schedule
    /\ Spend("edit")
    /\ StoreGreeter(n, [greeters[n] EXCEPT !.schedule = s, !.rv = @ + 1])
    /\ UNCHANGED <<lastUid, ended, now, caches, process>>

DeleteGreeter(n) ==
    /\ greeters[n] # None
    /\ Spend("delete")
    /\ StoreGreeter(n, None)
    /\ UNCHANGED <<lastUid, ended, now, caches, process>>

\* The container ends: restartPolicy is Never, so this is the pod's last phase.
PodEnds(n, v) ==
    /\ pods[n] # None
    /\ pods[n].phase = "Active"
    /\ StorePod(n, [pods[n] EXCEPT !.phase = v])
    /\ ended' = ended \cup {<<pods[n].owner, v>>}
    /\ UNCHANGED <<lastUid, now, budget, caches, process>>

\* Somebody deletes the pod: an eviction, a node that is drained, a user.
EvictPod(n) ==
    /\ pods[n] # None
    /\ Spend("evict")
    /\ StorePod(n, None)
    /\ UNCHANGED <<lastUid, ended, now, caches, process>>

\* Somebody else's pod takes the name n-runner.
ForeignPod(n) ==
    /\ pods[n] = None
    /\ Spend("foreign")
    /\ StorePod(n, [owner |-> NoOwner, phase |-> "Active"])
    /\ UNCHANGED <<lastUid, ended, now, caches, process>>

\* The garbage collector removes a pod whose owner is no longer stored.
CollectOrphan(n) ==
    /\ pods[n] # None
    /\ pods[n].owner # NoOwner
    /\ greeters[n] # None => greeters[n].uid # pods[n].owner
    /\ StorePod(n, None)
    /\ UNCHANGED <<lastUid, ended, now, budget, caches, process>>

Tick ==
    /\ now < Horizon
    /\ now' = now + 1
    /\ UNCHANGED <<api, budget, caches, watches, process>>

------------------------------------------------------------------------------
(* The informers.  An event changes the cache and runs the handler that    *)
(* NewController registered: there is one for adds and updates, and none   *)
(* for deletes.                                                            *)

Informing == run \in {"starting", "started"}

\* Mutant: the pod is recognised by its name alone.
NamedPod(p, g) == p # None /\ g # None /\ p.owner # NoOwner

\* metav1.IsControlledBy: the pod names a Greeter as its controller, by the uid
\* of this one.
ControlledPod(p, g) == p # None /\ g # None /\ p.owner = g.uid

ListGreeters ==
    /\ Informing
    /\ \/ "greeters" \notin synced /\ UNCHANGED budget
       \/ "greeters" \in synced /\ Spend("relist")
    /\ greeterCache' = greeters
    /\ greeterWatch' = <<>>
    /\ synced' = synced \cup {"greeters"}
    /\ queue' = AddAll(queue,
                  {n \in Names : greeters[n] # None /\ greeters[n] # greeterCache[n]})
    /\ UNCHANGED <<api, now, podCache, podWatch, run, workers>>

ListPods ==
    /\ Informing
    /\ \/ "pods" \notin synced /\ UNCHANGED budget
       \/ "pods" \in synced /\ Spend("relist")
    /\ podCache' = pods
    /\ podWatch' = <<>>
    /\ synced' = synced \cup {"pods"}
    /\ queue' = AddAll(queue,
                  {n \in Names : ControlledPod(pods[n], greeterCache[n])
                                   /\ pods[n] # podCache[n]})
    /\ UNCHANGED <<api, now, greeterCache, greeterWatch, run, workers>>

WatchGreeters ==
    /\ Informing
    /\ greeterWatch # <<>>
    /\ LET e == Head(greeterWatch)
       IN  /\ greeterCache' = [greeterCache EXCEPT ![e.key] = e.obj]
           /\ queue' = IF e.obj # None THEN Add(queue, e.key) ELSE queue
    /\ greeterWatch' = Tail(greeterWatch)
    /\ UNCHANGED <<api, now, budget, podCache, podWatch, synced, run, workers>>

WatchPods ==
    /\ Informing
    /\ podWatch # <<>>
    /\ LET e == Head(podWatch)
       IN  /\ podCache' = [podCache EXCEPT ![e.key] = e.obj]
           /\ queue' = IF ControlledPod(e.obj, greeterCache[e.key])
                       THEN Add(queue, e.key) ELSE queue
    /\ podWatch' = Tail(podWatch)
    /\ UNCHANGED <<api, now, budget, greeterCache, greeterWatch, synced, run, workers>>

\* Every 30 seconds (main.go) each informer sends an update of every object it caches.
NoResync(n) == FALSE  \* Mutant: the factories are built with resync 0.

ResyncGreeter(n) ==
    /\ Informing
    /\ greeterCache[n] # None
    /\ queue' = Add(queue, n)
    /\ UNCHANGED <<api, now, budget, caches, watches, run, workers>>

ResyncPod(n) ==
    /\ Informing
    /\ ControlledPod(podCache[n], greeterCache[n])
    /\ queue' = Add(queue, n)
    /\ UNCHANGED <<api, now, budget, caches, watches, run, workers>>

------------------------------------------------------------------------------
(* The process. *)

\* WaitForCacheSync is over, the workers start.
StartWorkers ==
    /\ run = "starting"
    /\ synced = {"greeters", "pods"}
    /\ run' = "started"
    /\ UNCHANGED <<api, now, budget, caches, watches, queue, workers>>

\* SIGTERM cancels the context, which also stops both informers.
Signal ==
    /\ run = "started"
    /\ Spend("signal")
    /\ run' = "stopping"
    /\ UNCHANGED <<api, now, caches, watches, queue, workers>>

\* Run returns, and its deferred ShutDown of the queue runs.
RunReturns ==
    /\ run = "stopping"
    /\ run' = "returned"
    /\ queue' = ShutDown(queue)
    /\ UNCHANGED <<api, now, budget, caches, watches, workers>>

\* The process is gone and with it all it kept in memory.
Forgotten ==
    /\ run' = "down"
    /\ greeterCache' = Nothing /\ podCache' = Nothing /\ synced' = {}
    /\ greeterWatch' = <<>> /\ podWatch' = <<>>
    /\ queue' = NewQueue(Names)
    /\ workers' = [w \in Workers |-> Idle]
    /\ UNCHANGED <<api, now>>

\* SIGTERM before the caches are there: Run fails, and main exits.
Abort ==
    /\ run = "starting"
    /\ Spend("signal")
    /\ Forgotten

\* main returns as soon as Run has.
Exit ==
    /\ run = "returned"
    /\ UNCHANGED budget
    /\ Forgotten

Crash ==
    /\ run # "down"
    /\ Spend("crash")
    /\ Forgotten

Restart ==
    /\ run = "down"
    /\ run' = "starting"
    /\ UNCHANGED <<api, now, budget, caches, watches, queue, workers>>

------------------------------------------------------------------------------
(* A worker: one iteration of processNextWorkItem, a step for each read of *)
(* a cache and each request.                                               *)

Goto(w, pc) == workers' = [workers EXCEPT ![w].pc = pc]

\* The iteration is decided: its locals are no longer read.
Decide(w, pc) ==
    workers' = [workers EXCEPT ![w] = [Idle EXCEPT !.pc = pc, !.key = workers[w].key]]

Get_(w, n) ==
    /\ run \in {"started", "stopping", "returned"}
    /\ workers[w].pc = "idle"
    /\ n \in Ready(queue)
    /\ queue' = Get(queue, n)
    /\ workers' = [workers EXCEPT ![w] = [Idle EXCEPT !.pc = "sync", !.key = n]]
    /\ UNCHANGED <<api, now, budget, caches, watches, run>>

NotEqual(g) == g.schedule # now  \* Mutant: when != 0 in place of when > 0.

\* timeUntilSchedule, of a schedule that parses
NotYet(g) == g.schedule > now

OneEarly(g) == g.schedule \in 0..(now + 1)  \* Mutant: the clock is ahead.

Due(g) == g.schedule \in 0..now

\* Mutant: the pod is created in the pass that starts the Greeter.
StartedOrNew(g) == g.phase \in {Unset, "Running"}

Started(g) == g.phase = "Running"

\* syncHandler and the switch of syncGreeter on the phase of the cached Greeter
SyncHandler(w) ==
    LET g == greeterCache[workers[w].key]
        Take(pc, want) == workers' = [workers EXCEPT ![w].pc = pc, ![w].inst = g,
                                                     ![w].want = want]
    IN  /\ workers[w].pc = "sync"
        /\ \/ g = None /\ Decide(w, "ok")
           \/ /\ g # None
              /\ \/ /\ g.phase = Unset
                    /\ \/ g.schedule = Unparsable /\ Decide(w, "error")
                       \/ /\ NotYet(g)
                          /\ workers' = [workers EXCEPT ![w].pc = "later",
                                                        ![w].when = g.schedule - now]
                       \/ Due(g) /\ Take("update", "Running")
                 \/ Started(g) /\ Take("pod", Unset)
                 \/ g.phase \in Verdicts /\ Decide(w, "ok")
        /\ UNCHANGED <<api, now, budget, caches, watches, run, queue>>

\* The lookup of the pod in the lister, and what follows when it is there.
ReadPod(w) ==
    LET p == podCache[workers[w].key]
    IN  /\ workers[w].pc = "pod"
        /\ \/ p = None /\ Goto(w, "create")
           \/ /\ p # None
              /\ ~ ControlledPod(p, workers[w].inst)
              /\ Decide(w, "error")
           \/ /\ ControlledPod(p, workers[w].inst)
              /\ \/ p.phase = "Active" /\ Decide(w, "ok")
                 \/ /\ p.phase \in Verdicts
                    /\ workers' = [workers EXCEPT ![w].pc = "update", ![w].want = p.phase]
        /\ UNCHANGED <<api, now, budget, caches, watches, run, queue>>

\* A request, or its answer, does not get through; once ctx is cancelled
\* none needs to.
Faulty ==
    \/ run \in {"stopping", "returned"} /\ UNCHANGED budget
    \/ Spend("fault")

RequestLost(w) ==
    /\ workers[w].pc \in {"create", "update"}
    /\ Faulty
    /\ Decide(w, "error")
    /\ UNCHANGED <<api, now, caches, watches, run, queue>>

\* The answer to a request that succeeded.
Answered(w) ==
    \/ Decide(w, "ok") /\ UNCHANGED budget
    \/ Decide(w, "error") /\ Faulty

CreatePod(w) ==
    LET n == workers[w].key
    IN  /\ workers[w].pc = "create"
        /\ \/ /\ pods[n] = None
              /\ StorePod(n, [owner |-> workers[w].inst.uid, phase |-> "Active"])
              /\ Answered(w)
           \/ /\ pods[n] # None  \* AlreadyExists
              /\ Decide(w, "error")
              /\ UNCHANGED <<pods, podWatch, greeters, greeterWatch, budget>>
        /\ UNCHANGED <<lastUid, ended, now, caches, run, queue>>

\* The API server compares uid and resourceVersion with what is stored.
SameUid(n, g) == greeters[n] # None /\ greeters[n].uid = g.uid  \* Mutant: no rv.

Unchanged(n, g) ==
    greeters[n] # None /\ greeters[n].uid = g.uid /\ greeters[n].rv = g.rv

UpdateStatus(w) ==
    LET n == workers[w].key
    IN  /\ workers[w].pc = "update"
        /\ \/ /\ Unchanged(n, workers[w].inst)
              /\ StoreGreeter(n, [greeters[n] EXCEPT !.phase = workers[w].want,
                                                     !.rv = @ + 1])
              /\ Answered(w)
           \/ /\ ~ Unchanged(n, workers[w].inst)  \* NotFound or Conflict
              /\ Decide(w, "error")
              /\ UNCHANGED <<greeters, greeterWatch, pods, podWatch, budget>>
        /\ UNCHANGED <<lastUid, ended, now, caches, run, queue>>

Finish(w, q) ==
    /\ queue' = Done(q, workers[w].key)
    /\ workers' = [workers EXCEPT ![w] = Idle]
    /\ UNCHANGED <<api, now, budget, caches, watches, run>>

FinishOk(w) ==
    /\ workers[w].pc = "ok"
    /\ Finish(w, Forget(queue, workers[w].key))

\* Mutant: an item that failed is forgotten.
DropError(w) ==
    /\ workers[w].pc = "error"
    /\ Finish(w, Forget(queue, workers[w].key))

\* A timer may go off at any time after it is due, so a back-off that is over
\* at once stands for all longer ones.
FinishError(w) ==
    /\ workers[w].pc = "error"
    /\ Finish(w, AddRateLimited(queue, workers[w].key, now))

\* Mutant: AddAfter is missing.
DropLater(w) ==
    /\ workers[w].pc = "later"
    /\ Finish(w, queue)

\* A timer that is due after the Horizon is due at the Horizon.
FinishLater(w) ==
    /\ workers[w].pc = "later"
    /\ LET due == now + workers[w].when
       IN  Finish(w, AddAfter(queue, workers[w].key,
                              IF due < Horizon THEN due ELSE Horizon))

\* The queue's own goroutine: a delayed Add falls due.
Expire(n) ==
    /\ run # "down"
    /\ ~ queue.shutdown
    /\ queue.waiting[n] \in 0..now
    /\ queue' = Fire(queue, n)
    /\ UNCHANGED <<api, now, budget, caches, watches, run, workers>>

------------------------------------------------------------------------------
Environment ==
    \/ \E n \in Names, s \in Schedules : CreateGreeter(n, s) \/ EditSchedule(n, s)
    \/ \E n \in Names, v \in Verdicts : PodEnds(n, v)
    \/ \E n \in Names :
         DeleteGreeter(n) \/ EvictPod(n) \/ ForeignPod(n) \/ CollectOrphan(n)
    \/ Tick

Informers ==
    \/ ListGreeters \/ ListPods \/ WatchGreeters \/ WatchPods
    \/ \E n \in Names : ResyncGreeter(n) \/ ResyncPod(n)

Process ==
    \/ StartWorkers \/ Signal \/ RunReturns
    \/ Abort \/ Exit \/ Crash \/ Restart

Requests(w) == CreatePod(w) \/ UpdateStatus(w)

WorkerStep(w) ==
    \/ SyncHandler(w) \/ ReadPod(w) \/ Requests(w) \/ RequestLost(w)
    \/ FinishOk(w) \/ FinishError(w) \/ FinishLater(w)

Next ==
    \/ Environment
    \/ Informers
    \/ Process
    \/ \E w \in Workers : WorkerStep(w) \/ (\E n \in Names : Get_(w, n))
    \/ \E n \in Names : Expire(n)

\* The scheduler runs every goroutine, connections come back, containers end,
\* the garbage collector runs, and the process is started again.  The queue is
\* first in, first out, so a key that is added again and again is got.
Fairness ==
    /\ WF_vars(Tick)
    /\ WF_vars(ListGreeters /\ "greeters" \notin synced)
    /\ WF_vars(ListPods /\ "pods" \notin synced)
    /\ WF_vars(WatchGreeters) /\ WF_vars(WatchPods)
    /\ WF_vars(StartWorkers \/ RunReturns \/ Exit \/ Restart)
    /\ \A n \in Names :
         /\ WF_vars(\E v \in Verdicts : PodEnds(n, v))
         /\ WF_vars(CollectOrphan(n))
         /\ WF_vars(ResyncGreeter(n))
         /\ WF_vars(Expire(n))
         /\ SF_vars(\E w \in Workers : Get_(w, n))
    /\ \A w \in Workers : WF_vars(WorkerStep(w))

Spec == Init /\ [][Next]_vars

FairSpec == Spec /\ Fairness

------------------------------------------------------------------------------
(* Properties. *)

\* Every variable keeps its type (the declarations of Controller and the two
\* API types).
TypeOK ==
    /\ greeters \in [Names -> Greeter \cup {None}]
    /\ pods \in [Names -> Pod \cup {None}]
    /\ lastUid \in 0..MaxUid
    /\ ended \subseteq (0..MaxUid) \X Verdicts
    /\ now \in 0..Horizon
    /\ budget \in [Kinds -> Nat]
    /\ greeterCache \in [Names -> Greeter \cup {None}]
    /\ podCache \in [Names -> Pod \cup {None}]
    /\ greeterWatch \in Seq(Event(Greeter))
    /\ podWatch \in Seq(Event(Pod))
    /\ synced \subseteq {"greeters", "pods"}
    /\ run \in Runs
    /\ queue \in WorkQueues(Names, 0..Horizon)
    /\ workers \in [Workers -> Worker]

\* "we are never processing the same item simultaneously in two different
\* workers" (comment of Controller.workQueue), also across a shutdown.
OneWorkerPerKey ==
    \A v, w \in Workers :
        workers[v].pc # "idle" /\ workers[w].pc # "idle" /\ v # w
          => workers[v].key # workers[w].key

\* A pod of the stored Greeter exists only if the API server already says that
\* the Greeter runs, whatever was lost, cached or crashed: syncGreeter stores
\* Running in one pass and creates the pod in a later one.
LaunchRecorded ==
    \A n \in Names :
        greeters[n] # None /\ ControlledPod(pods[n], greeters[n])
          => greeters[n].phase # Unset

\* A Greeter is stored as Succeeded or Failed only if a pod of that Greeter,
\* and not of an earlier one of the same name, ended that way.
VerdictEarned ==
    \A n \in Names :
        greeters[n] # None /\ greeters[n].phase \in Verdicts
          => <<greeters[n].uid, greeters[n].phase>> \in ended

\* The worker that has n, a delayed Add of n, or an event that will queue n or take
\* it out of the cache.
Awake(n) ==
    \/ n \in queue.dirty \cup queue.processing
    \/ queue.waiting[n] # NoTimer
    \/ \E i \in DOMAIN greeterWatch : greeterWatch[i].key = n

\* While the process runs, a cached Greeter that has not started, or whose pod
\* is cached as ended, is never dropped: between the handlers, the early
\* returns of processNextWorkItem and the timers something always brings its
\* key back, without counting on a resync.
NoLostWakeup ==
    \A n \in Names :
        /\ Informing
        /\ greeterCache[n] # None
        /\ \/ greeterCache[n].phase = Unset
           \/ /\ greeterCache[n].phase = "Running"
              /\ ControlledPod(podCache[n], greeterCache[n])
              /\ podCache[n].phase \in Verdicts
        => Awake(n)

Job(g) ==
    IF g = None THEN None ELSE [uid |-> g.uid, schedule |-> g.schedule, phase |-> g.phase]

ASSUME JobAssumption == None \notin [uid : 1..MaxUid, schedule : Schedules, phase : Phases]

Lifecycle == INSTANCE GreeterLifecycle WITH jobs <- [n \in Names |-> Job(greeters[n])]

\* The controller keeps the promise of GreeterLifecycle: a Greeter starts only
\* when the schedule stored at that very moment is due, its phase only moves
\* forward, and its verdict is that of a pod of its own.
KeepsPromise == Lifecycle!Spec

\* Nothing is left to do for the Greeter n: it is over, its schedule does not
\* parse, or somebody else's pod has the name of its pod.
Settled(n) ==
    \/ greeters[n] = None
    \/ greeters[n].phase \in Verdicts
    \/ greeters[n].phase = Unset /\ greeters[n].schedule = Unparsable
    \/ pods[n] # None /\ pods[n].owner = NoOwner

\* Once the disturbances are over every Greeter gets to its end, whatever
\* happened before: a conflict, a lost answer, a crash while it waited for its
\* schedule, a pod deleted while nobody handles deletes.
Converges == <>[](\A n \in Names : Settled(n))

\* "it will shutdown the workqueue and wait for workers to finish processing
\* their current work items" (comment of Run).
WaitsForWorkers ==
    [][RunReturns => \A w \in Workers : workers[w].pc = "idle"]_vars

\* "create a one-shot pod as per spec" (comment in syncGreeter): no pod is made
\* for a Greeter of which a pod has already ended.
OneShot ==
    [][\A n \in Names :
         pods[n] = None /\ pods'[n] # None /\ pods'[n].owner # NoOwner
           => \A v \in Verdicts : <<pods'[n].owner, v>> \notin ended]_vars
==============================================================================
