# Verification of the programs of bad-pen

The repository is a notebook.  Most of its files are text and manifests; its
programs are those under `kubernetes/programming-k8s/programming_k8s` (below:
`P`), two Kubernetes controllers, the code that client-gen and informer-gen wrote
for them, and some small demonstrations.  The specifications here are about the
two controllers, the informer factory, and the generated clients, informers and
builders through which programs read and write the API: the parts that keep
state, run concurrently and have to survive stale caches, lost requests and crashes.

## Inventory

| part | state | operations |
| --- | --- | --- |
| Greeter controller, `P/greeter/internal/greeter/controller.go`, `P/greeter/main.go` | the Greeters and pods on the API server, two informer caches, a work queue, two workers | event handlers for adds and updates, `processNextWorkItem`, `syncHandler`, `syncGreeter`, `Run`, `main` |
| Work queue (client-go, external) | dirty and processing items, delayed adds, failure counts, shutdown | `Add`, `Get`, `Done`, `AddAfter`, `AddRateLimited`, `Forget`, `ShutDown` |
| CronJob reconciler, `P/circle/internal/controller/cronjob_controller.go` | the CronJob with its status, its pods, the manager's caches, a queue with one worker | `Reconcile` in seven stages, `getNextScheduledTime`, `SetupWithManager` |
| Informer factory, `P/greeter/pkg/generated/informers/externalversions/factory.go` and its twin in `P/sample-controller` | `informers`, `startedInformers`, `wg`, `shuttingDown` under one lock | `InformerFor`, `Start`, `Shutdown`, `WaitForCacheSync` |
| Typed clients and clientsets, `P/*/pkg/*/clientset/versioned` | the rate limiter that the groups of a clientset share; the state they act on is the store of the API server | the methods of five resource interfaces, `NewForConfigAndClient` |
| Fake clientsets, `.../fake` | an object tracker (client-go, external) | the same methods as actions on the tracker |
| Informers and listers, `.../informers`, `.../listers` | an indexer (client-go, external) | `ListFunc` and `WatchFunc`, run by a reflector; reads of the indexer |
| API types and deep copies, `types*.go`, `zz_generated.deepcopy.go` | none; what an object carries through JSON, and what a copy shares with its original | `DeepCopyInto` |
| Apply configurations, `P/*/pkg/*/applyconfiguration` | a configuration that is being built | constructors, `ForKind`, `With...`, and `Apply`, `ApplyStatus` of the clients |
| `informer`, `watcher`, `quickstart`, `sample_controller`, `machinery`, the `http-whoami` servers, `node-hostname` | none, but for a counter in `http-whoami` | print or answer what they see |

How the parts interact.  `main` asks two factories for informers, hands them to
`NewController`, starts the factories and calls `Run`.  An informer lists and
watches the API server in a goroutine of its own, changes its cache and calls the
handlers; a handler adds a key to the queue.  A worker takes the key, reads the
caches, sends at most one request that changes something, and reports to the
queue how it went.  What the request changed comes back as an event.  The CronJob
reconciler lives in the same loop, but controller-runtime owns its queue, its
caches and its only worker, and a pass of it sends many requests.  All requests go
through typed clients built from one `rest.Config`; in a test the fake clientset
takes their place.  A caller reads an object with `Get` or from a lister, copies it
in the latter case, changes it and sends it back, or sends a patch or an apply
configuration; other callers do the same meanwhile, maybe through another version
of the API.

What is hard about it:

* every decision is made on a cache that may be behind the API server, and the
  caches of Greeters and of pods are behind by different amounts;
* a request may have been carried out although its answer was lost;
* the process may stop between any two requests, and only the API server remembers;
* a name may be deleted and used again, so that an object in hand, in a cache, in
  an event or as the owner of a pod may be that of an earlier incarnation;
* whether a key comes back to a worker is spread over handlers, early returns,
  timers and resyncs: no single place ensures that something eventually happens;
* the clock goes on during a pass;
* two programs write the same object from copies of different ages, maybe through two
  versions of its type;
* a watch ends or is refused at any moment, and the informer must not lose a
  deletion when it goes on;
* a deep copy that forgets one pointer is wrong only for callers that write to it.

What makes each part correct: a Greeter starts when its schedule is due, its
command runs once, its verdict is that of its own pod, and it does get there; a
CronJob runs what is due, obeys its policy, deadline and limits, and does not stop;
a factory runs each informer once, and its shutdown is final and comes to an end;
no change that a client was told is accepted is undone by a caller that had not seen
it; an indexer shows a state that the store has been in, and gets to the last one; one
limiter bounds a whole clientset.

`PROJECT.json` lists these hazards one by one with the line where they bite and
the properties that are about them.

## Modules

| module | what it is |
| --- | --- |
| `WorkQueue` | the queue of client-go as a record, each method an operator from queue to queue; both controllers use it |
| `GreeterLifecycle` | the abstract specification: what somebody who sees only the API server is promised about Greeters |
| `GreeterController` | the controller, its informers, queue, workers and process, with the API server, kubelet, garbage collector and users around them |
| `GreeterControllerProofs` | theorems about `GreeterController`: types and exclusion |
| `GreeterSafetyProofs` | the invariant about snapshots and versions, and the two safety theorems it gives |
| `GreeterWakeupProofs` | the invariant about events, keys and workers, and the theorem that no key with work left is dropped |
| `GreeterRefinementProofs` | the theorem that `GreeterController` implements `GreeterLifecycle` |
| `MCGreeterController` | bounds and symmetries of its runs |
| `SharedInformerFactory` | the generated factory, its callers and its goroutines |
| `AtomicInformers` | the abstract specification of a factory: every call at one moment, without a lock, a loop or a wait group |
| `SharedInformerFactoryProofs` | theorems about it: types, its three safety properties and the refinement of `AtomicInformers` |
| `CronJobReconciler` | the reconciler for one name, with the manager, the API server and the cluster |
| `CronJobSchedule` | the abstract specification: what somebody who sees only the API server is promised about a CronJob and its pods |
| `CronJobReconcilerProofs` | theorems about the reconciler: types and its five safety properties |
| `CronJobRefinementProofs` | the theorem that `CronJobReconciler` implements `CronJobSchedule` |
| `MCCronJobReconciler` | specs of CronJobs and bounds of its runs |
| `ApiTypes` | the Go types of the six resources, what they carry and what their deep copies share |
| `TypedClients` | the request of every method of every typed client, the action of every method of every fake one |
| `Clientsets` | the groups of a clientset and the limiter each of them gets |
| `ApplyConfigurations` | the builders of server-side apply |
| `ResourceClients` | composes these four: callers, an informer and the limiters, with an API server or an object tracker behind them |
| `ResourceClientsProofs` | theorems about it: types and its three safety properties |
| `MCResourceClients` | the systems that its runs look at |

### GreeterController

A name stands for a `namespace/name` key.  The pod of the Greeter `n` is the one
pod called `n-runner`, so pods are indexed by `n` as well; `ForeignPod` puts
somebody else's pod there.  The message of a Greeter, the logs and the recorded
events are left out.  Schedules and the clock are small numbers; `Unparsable` is a
schedule that matches the pattern of the CRD but is no date (month 13), which
`time.ParseInLocation` refuses.

| state | in the code |
| --- | --- |
| `greeters`, `pods` | objects on the API server; `rv` is `resourceVersion`, counted per object |
| `ended` | no code: the history of how pods ended, for the properties |
| `greeterWatch`, `podWatch` | watch events an informer has not handled yet |
| `greeterCache`, `podCache`, `synced` | indexers behind the listers, `HasSynced` |
| `run` | how far `Controller.Run` is; `"returned"` lies between its return and the end of `main` |
| `queue`, `workers` | `c.workQueue`; the locals and position of every worker |

A worker is cut at every point where another goroutine or the API server can come
in between: `Get_` (the queue), `SyncHandler` (the read of the Greeter lister and
the switch on the phase), `ReadPod` (the read of the pod lister), `CreatePod` and
`UpdateStatus` (requests, whose answer may be lost, `Answered`; or which may not
arrive at all, `RequestLost`), and `FinishOk`, `FinishError`, `FinishLater` (what
`processNextWorkItem` tells the queue, with the deferred `Done`).  The phase
`Pending` exists only in the worker's copy: the phase in the store goes from `""`
to `Running` to a verdict.  After a `Create` that succeeds, the code goes on to
look at the pod that came back; that pod has just been made and is controlled by
the Greeter, so nothing is written, and `CreatePod` ends the pass.

`WatchGreeters` and `WatchPods` change the cache and call the handler in one
step.  In client-go the handler runs a little later, on another goroutine; what a
handler reads later is at least as new, and a key that is added later is added to
the same queue.  Only `enqueuePod` looks at the other cache: run later, it may find
a Greeter that arrived in between, and add a key more, or find the Greeter gone or
replaced, and drop a key that is of no more use, since the pod is then not one of
the Greeter that is cached.  There is no action for a handler of
deletes, because `NewController` registers none.  A relist (`ListGreeters` and
`ListPods` under the budget `relist`) replaces the cache and skips the versions in
between, as a reflector does when its watch has expired.

A signal stops the informers and lets `Run` return.  `Exit` is a later step,
because the workers go on until the process is gone.  `Forgotten` is what any
end of the process does: everything but the API server is lost, requests that
were not sent with it.

### WorkQueue

`Ready` is what `Get` may return.  The FIFO order is left out: the fairness of
the specifications supplies what is needed of it.  The length of a back-off is
left out as well.  A timer that has expired may fire at any later time, so an
immediate back-off includes every longer one, and the failure counter only
records which items have one.

### SharedInformerFactory

Each method is cut where it takes and releases the lock; the loop of `Start` makes
one step per informer, `Shutdown` waits for the group after it has released the lock,
and `WaitForCacheSync` polls the informers it found under the lock; which of
them it reports as synced is left out.  The goroutines launched, run and end on their own.  `informer.Run` returns at once when the same
informer is already being run, as client-go's does.  Which `newFunc` makes the
informer and the resync period are not modelled.

`AtomicInformers` says what the comments of the interface promise to goroutines that share a
factory: a call takes effect at one moment between its beginning and its end.  `ActsAtomically`
is the refinement.  A `Start` takes effect when it has found `shuttingDown` unset: from then on
every informer that is made and not yet launched counts as started with the channel of this
`Start`, although the loop launches one after the other.  Nobody can tell, because the lock is
held until the loop is through; were it given back earlier (the mutant `StartUnlocked`), a
`WaitForCacheSync` would see half of a `Start`.  A `Shutdown` takes effect when it sets the
flag and returns when all that were started have ended, which the code knows only as a
counter that is zero.

### CronJobReconciler

One name, because the reconciler has one worker and no state shared between
names.  Pods are numbered in the order of their creation: `GenerateName` gives
each its own name, so a number is what distinguishes them.  It is assumed that pods start in
that order, which is the order the cleanup sorts by.  Times of the
schedule are the finite set `Slots`; the library of schedules gives a zero time for
one that never comes, which the model does not.

Every action of `Reconcile` is a stage of the code or one request in it; the
comments in the module name the stages.  `Clean` makes one turn of the loop over
the finished pods, with the bound of the code, and the turn that indexes past
the list ends the process as the panic does (controller-runtime v0.16 lets it
through).  `RequestLost` and the failing disjuncts are lost requests and lost answers.
The status is written with the `resourceVersion` of the cached CronJob; a write that
changes nothing makes no event, one that does queues the key again.  Pods are
not watched by the controller (`For(&batchv1.CronJob{})` is all there is), so
`WatchPods` changes the cache and queues nothing.  The clock may tick between any
two steps, in particular between the two readings in stages 5 and 6.

`CronJobSchedule` says what the comments of the stages promise to somebody who looks at the
API server only: "List all active jobs, and update the status", "Run a new job if it's on
schedule, not past the deadline, and not blocked by our concurrency policy".  It has no cache,
event, queue, version, lost answer or crash.  Its controller has a set `plans`, empty or with
one plan, the CronJob as its status was stored and the time a pod is to be made for.  `Record`
writes a status and may plan on it, `Decide` takes the newest time due after that
status, `Cancel` and `Launch` follow the policy, `Clean` needs a limit and a pod that has ended,
and everything else that ends a pass is `Drop`.  `KeepsSchedule` is the refinement.  A pass has a plan
from the stage after its status was accepted until it returns (`Acting`); of a CronJob the
mapping `Shown` hides the `resourceVersion` and, of each reference to a pod, the version of that
pod.  The plan keeps the CronJob as it was when the status was stored: it may be
edited or deleted while the pass goes on, and the pod is made all the same.  The promise is
about what a status says, not about which pods exist.  That the status may lack a
pod the cache does not show yet is what `cronjob_forbid` finds.  Without the comparison of
versions (the mutant `CurrentUid`) a status would be stored along with an old spec, and if a
refused update were only logged (`UpdateLogged`) a pass would act on a status nobody stored.

The branch in which `newPodForCronJob` fails (an owner in another namespace)
cannot happen with stored objects.  A pod without a parsable annotation is not
modelled: only this controller makes pods with that owner.

### ResourceClients and the modules it composes

The generated files repeat the same methods for `Greeter`, for `ClusterResource` and
`NamespacedResource` in two versions, each typed and fake.  `TypedClients` has
one definition for each of these files: which verb a method sends, whether the request
is scoped to a namespace, whether it names an object, and whether it goes to
the status.  A file that differs from its siblings changes what the API server does with
its requests and nothing else, and that is where `ResourceClients` picks it up: `Served`
is the API server (external), `Tracked` the object tracker (external).

An object is its `resourceVersion`, its labels, a counter for its spec and one for its
status.  A caller that changes an object adds one to a counter or
toggles a label, so that a lost change can be told from a kept one.  `promised`
is a history: what the accepted calls were meant to make of the store, each applied to
what the others were meant to.  `overwritten` records that the tracker has
taken an update of an old copy, which the API server would have refused.

| state | in the code |
| --- | --- |
| `log` | the states of the store, from the one that the informer has handled to the newest, which is `Store` |
| `held` | the object in a caller's hand, and whether it is a deep copy of a cached one |
| `panicked` | callers that have run into a nil pointer |
| `cache`, `informer` | the indexer; whether the reflector is about to list, about to watch, or in a watch |
| `used` | tokens taken from each limiter |
| `setup` | what is deployed: the CRD, the clients, the config; chosen once in `Init` |

A call, the request it sends and its answer are one step, in which the answer may
be lost (`Answer`).  Nothing of the generated code runs between them, and what a
caller knows is only what it has in `held`.  `Modify` makes the change to the copy, and to the cached
object as well when `Shared` says that the deep copy shares that part with it.

`List`, `Watch`, `Event` and `Close` are the reflector of client-go with the
`ListFunc` and `WatchFunc` of the generated informers.  A list may be answered from a
watch cache that is behind; a watch may be refused because where it wants to start
from is gone, after which the list asks for the newest.  The tracker does not
know resource versions: it sends the events that happen after the watch was opened.
Nothing is therefore claimed of an informer on fake clients: what is written between its
list and its watch is missing from its cache.

The CRDs of `sample-controller` define kinds of other names (`ClusterResources`,
`NamespacedResources`) and require a field `schedule` that their Go types do not
have.  `Refusing` is that deployment, where every write is refused; the other setups use
CRDs with the kinds of the Go types and without that requirement, so that something happens.
Those CRDs have no status subresource: a status is never written, and it makes no
difference that their schemas would drop its fields.

A configuration that is applied has labels and a spec, as every CRD requires a spec.
`Apply` makes an object that is not there, `ApplyStatus` does not,
and the tracker refuses both.  `Apply` and `ApplyStatus` of a nil configuration are errors, and so are those of
one without a name; one without metadata is the panic of `clients_for_kind`.  `ForKind` also returns the
builders of specs and statuses, and nil for types it does not know; the caller of
`ApplyForKind` asserts that it has the builder of an object.

## Runs

All bounds are CONSTANTS and appear in the guards, never as a state constraint.  Names,
verdicts and workers are model values.  `Budget` bounds how often each kind of
disturbance happens in a behaviour; everything else is unbounded.

| run | bounds | question |
| --- | --- | --- |
| `greeter_safe` | 1 name, 2 workers, 2 incarnations, schedules 0, 1 and unparsable, clock 0..1, 2 events of lag; one edit or deletion with an eviction and a relist, or one deletion, lost request, crash and signal | can two workers on stale caches, or after lost requests and crashes, start a pod that is not recorded, earn a verdict from an earlier incarnation, drop a key with work left, or break `GreeterLifecycle`? |
| `greeter_live` | 1 name, 2 workers, 2 incarnations, schedules 0, 1 and unparsable, clock 0..1, 2 events of lag; one eviction, foreign pod and fault, or one edit, fault and crash, or one deletion, or one signal and edit; fairness | does every Greeter get to its end, also one that waits for its schedule when the process stops or whose request or answer is lost? |
| `factory` | 2 callers that call anything any number of times, 2 informer types, 1 stop channel; fairness | are informers shared and run once, is a shutdown final, does every call return, and do overlapping calls do what they would do one after the other? |
| `cronjob_safe` | 2 times (3 and 4), 2 pods, 1 incarnation, 1 event of lag, clock at 1, 3 and 5, up to 2 missed times, one lost request; `Replace` with history limits, `Forbid`, `Allow` with a deadline | does a pass take a time that is not due, repeat what it listed, miss the newest time that is not past the deadline, replace without cancelling, clean up the wrong pod, or break `CronJobSchedule`? |
| `cronjob_live` | 1 time, 1 pod, 2 incarnations, 1 event of lag, clock 1..2; one edit, lost request, crash and eviction, or one deletion; `Forbid` with a deadline and a history, suspended with a limit of zero, unparsable; fairness | are pods made only for due times of their own CronJob, is a time that has come made up for, and does all this follow `CronJobSchedule` through edits and crashes? |
| `clients` | 2 callers, 2 names, 3 writes (4 for Greeters and for the two versions of `NamespacedResource`), labels `team`, `tier`, `edited`; fifteen setups: every resource, mixed versions, all methods, what `ForKind` returns, the refusing CRD, the fake clientsets, and clientsets with a rate of 0 or 1 and a burst of 0, 1 or 2; fairness | is an accepted change ever lost, does the cache show the store and get to its end, and is the rate kept? |

Why the bounds are enough.  The controllers couple keys only through the queue,
so one name shows every race between a key and itself; exclusion between workers
is proved for any number of names.  Two incarnations are needed, and suffice, to
mistake an object for an earlier one.  Two events of lag let a worker act on a
version two writes old.  A disturbance happens once because its effect
is to leave a stale object or a lost request behind, and the ones that interact
are put into the same run.  For the factory, every hazard is a race of two calls, and
each caller calls again and again; it has one stop channel, so that of which `Start` an
informer has its channel is left to the theorem `Linearizable`.  Two times of a schedule
are the least for which "the newest that was missed" is not "the only one".  `MaxMissed` is
100 in the code and 2 in `cronjob_safe`, so that a pass counts two missed times and takes
the newer.  `Stride` is the time between two readings of the clock that differ.  It is 2
in that run: at 3 the first time has just come, at 5 both have passed, and a deadline of one
second excuses both of them, or ends a pass that began before.  No run has more missed times
than its limit: the error for too many, which makes no change, is covered by the theorem
`FindsNewest` for every limit.  `cronjob_live` has one time and one pod, because
liveness multiplies the states; its deadline never runs out.  What it asks is
whether the time is made up for after whatever happened, and not which of several is.  A lost
change takes three writes (a create, one accepted change, one from an older copy);
the fourth lets one of them happen behind an informer that was refused.  Two names
are needed for `DeleteCollection` and for a request that forgets its name to differ
from one that does not.  The setups are alternatives, one per behaviour: they keep
the methods that interact together and the state space small.

Deadlock is checked in every run.

The runs that expect a violation each check one sentence of the repository
against the code, with bounds no larger than it needs:

| run | the sentence | what happens |
| --- | --- | --- |
| `greeter_shutdown` | `Run` will "wait for workers to finish processing their current work items" | nobody waits for them |
| `greeter_one_shot` | "create a one-shot pod as per spec" | a pod deleted after it ended, before its verdict is stored, is made again |
| `cronjob_forbid` | "forbids concurrent runs" | the list the policy is checked on lacks the pod of the last pass, and the status update of that same pass brings the key back at once |
| `cronjob_requeued` | "Requeue when [...] it's time for the next scheduled run" | `RequeueAfter` is not positive if the time comes between two readings of the clock |
| `cronjob_retains` | "number of successful finished jobs to retain", with an "explicit zero" | the loop makes one turn too many: a pod too few is kept, and with zero the process panics |
| `clients_for_kind` | "name must be provided to Apply" | a configuration from the exported `ForKind` has no metadata: reading its name dereferences a nil pointer before the check for a name |

Two more disagreements were met and are in the hazards only.  The comment
"We should be reconciled because either the pod or the CR changes" is wrong for a
pod that is deleted, since no delete handler is registered (the resync every 30
seconds makes up for it; `Converges` needs it).  The comment "we'll requeue once we
see the running pod" in the CronJob reconciler is wrong because pods are not watched.

### Fairness

`GreeterController!Fairness`: goroutines are scheduled (weak fairness of each worker's
steps, of both watches, of timers and of the process's own steps); the queue is
first in, first out, so a key that is ready again and again is got (strong fairness
of `Get_`); the resync of `main.go` happens every 30 seconds; containers end, the
garbage collector runs, and whoever deploys the program starts it again.  Nothing is
assumed of users, faults, signals and crashes, and `Faulty` requests are bounded by
the budget: a network that fails for ever lets nothing converge.

`SharedInformerFactory!Fairness`: scheduling, and a mutex that starves nobody (Go's does
not).  No caller has to call, no channel has to be closed and no cache has to sync.

`CronJobReconciler!Fairness`: the clock, the watches, the timers, the worker and the
manager go on, it is started again after a crash, and its caches are resynced
(every 10 hours by default, which is what rescues a lost timer).  Pods need not end.

`ResourceClients!Fairness`: tokens come back to every limiter (weak fairness); a
limiter serves requests in the order in which they came, so a list or watch
that could be sent again and again is (strong fairness of `List` and `Watch`); and the server does
not close every watch before its next event (strong fairness of `Event`).  No caller has to
do anything, and the number of writes is bounded.

## Proofs

`GreeterControllerProofs` proves with TLAPS, for any sets of names, workers and
verdicts and any bounds:

* `Types`: `Spec => []TypeOK`.  The type invariant is inductive as it stands.
  The lemmas go from the inside out: the operators of `WorkQueue` return queues,
  the writes of the API server keep stored objects and event queues well typed,
  then one lemma for each group of actions.
* `Exclusion`: `Spec => []OneWorkerPerKey`.  This is not inductive: one has to
  know that the key a worker holds is in `queue.processing`, that keys are only
  handed out when they are not, and that a worker removes only its own key when
  it is done.  The strengthened invariant says that busy workers hold keys that are
  being processed, and that no two hold the same.  It survives the end of the process because that
  empties workers and queue at once.

`GreeterSafetyProofs` proves `Recorded`, `Spec => []LaunchRecorded`, and `Earned`,
`Spec => []VerdictEarned`, with one invariant, `Safe`.  Neither property is inductive:
whether a write is right depends on the copy of the Greeter that the worker has, which
may be old.  `Safe` adds what can be relied on nevertheless.

* `Snapshots`: a Greeter that is cached, on its way in an event, or held by a
  worker that will use it was stored once.  If the stored one has the same uid, it is
  not older, it is the same object if it has the same `rv`, and it has a phase if the
  copy has one (`Seen`).  `Advance` says what a write may do, and `SeenKept` is the
  lemma that no write makes this false of any copy.
* `Owned`: pods name only uids that have been given out, so a Greeter that is
  made later does not own them.
* `HonestPods`: the verdict of a pod, stored, cached or on its way, is in the history.
* `JustifiedWorkers`: a worker about to send a request has a snapshot that calls for it.

`WriteGreeterSafe`, `WritePodSafe`, `LocalSafe` and `ReadSafe` are one lemma for each
kind of step; each action is then a case of one of them.

`GreeterWakeupProofs` proves `Awakened`, `Spec => []NoLostWakeup`, with the invariant
`Wakeful` on top of `TypeInv`, `Exclusive` and `Safe`.

* `Overtaken`: while an event of a stored Greeter is on its way, neither the cache nor an
  earlier event of that name shows what is stored.  A relist that replaces the cache and
  drops the events therefore finds a difference and queues the key.  It holds because every
  write makes an object that nobody has seen (`Unseen`, from `Snapshots`).
* `Attended`: if the cached Greeter has work left, and its key is neither dirty, nor timed,
  nor announced by an event, then the worker that took the key has not read that Greeter
  yet, has read just that one, or is on its way to `AddRateLimited` or `AddAfter`.
  `NoLostWakeup` alone is not inductive: it also holds of a worker about to call `Forget`
  with the work undone.
* `Stages`: in which stages of `Run` the queue is open, the cache empty and no worker busy.

`StepWakeful` is the lemma of the actions of one worker, `OutsideAttended` that of the others.

`GreeterRefinementProofs` proves `Implements`, `Spec => KeepsPromise`.  When
`UpdateStatus` is accepted, the snapshot has the `rv` that is stored, hence it is what
is stored (`UpdateStatusSnapshot`), and what `JustifiedWorkers` says of the snapshot
is the guard of `Begin` or of `Conclude`.  Every other action is an abstract step of
the same meaning or a stutter.

`SharedInformerFactoryProofs` proves, for any sets of callers, types and stop channels,
`Typed` (`TypeOK`), `Shared` (`SharedOnce`), `Quiet` (`NothingAfterShutdown`) and
`WaitAlone` (`NoAddDuringWait`) from one invariant, whose parts are:

* `Exclusive`: the lock is held by the one caller whose position is inside the critical
  section, and by nobody if there is none.
* `Counted`: `wg` is the number of goroutines that are launched and not done
  (`Cardinality(Alive)`).  This is what makes `wg.Wait` mean anything, and what keeps the
  counter from going below zero.
* `Launched`, `Handed`: what is started was made, once, and is what callers have been given.
* `Ended`: after a `Shutdown` returned, `shuttingDown` is set and nothing is alive.
  It is kept because `Start` looks at `shuttingDown` with the lock held.

`Linearizable`, `Spec => ActsAtomically`, is proved from that invariant and from `Mapped`: what
is marked as started was made and has a goroutine, and a goroutine is past `informer.Run` only
when its channel is closed.  `StartsSeen` states what the mapping of `started` amounts to in
each case, so that no step has to look into its two `CHOOSE`s.  `Exclusive` makes the caller in
the loop the only one; so the turns of the loop are stutters, the informers it launches having
been counted already, and a call of `InformerFor` cannot add one in the middle.  That a
`Shutdown` may return is `Counted`: the counter is zero only if every goroutine is done.

`ResourceClientsProofs` proves, for any names, callers, labels and setups, `Typed`
(`TypeOK`), `Lossless` (`NothingLost`), `CacheShows` (`CachedState`) and `OneBudget`
(`SharedBudget`).  The invariant has the three properties themselves and:

* `SeenLog`, `SeenCache`, `SeenHands`: no copy, in the log, in the cache or in a hand, is
  newer than the last write, and one with the stored `resourceVersion` is the stored
  object.  An update that the API server accepts was therefore made from what is
  stored, so that writing the whole object back adds the change and nothing else.
* `Locked`: on an API server no update of an old copy is ever accepted.
* `Metered`: when the config sets a rate, no limiter but the shared one is in use.

The tables of requests, types and deep copies enter as lemmas (`Methods`, `Requests` and
those that follow): that each method sends what its comment says, for every resource, and
that no deep copy shares a part with its original, is proved by cases over the
definitions of the generated files.  From there on the proofs use the lemmas only.

`CronJobReconcilerProofs` proves, for any schedule, specs, budgets and bounds, `Typed`
(`TypeOK`), `Due` (`RunsAreDue`), `Repeats` (`NeverRepeatsListed`), `FindsNewest`
(`MissesNothing`), `Cancels` (`ReplaceCancels`) and `Cleans` (`CleansOldest`).  The
invariant is `Sound`:

* `Mirror`: a pod in the cache or in an event is an earlier version of the stored one
  (`PodSeen`: made for the same time, and what has ended stays so); events
  of new pods come in the order in which the pods were made, and none is missing
  while the process is up.  A listing may therefore be old, but the times it shows are
  right, and a pod that it shows as ended has ended.
* `Copies`: copies of a CronJob with the same uid were created at the same time, so a pass
  with an old copy still counts from the right start; no copy is newer than what is
  stored, and one with the stored `resourceVersion` has the stored spec (`CronSeen`).
  `Owned`: pods name only uids that have been given out.
* `Pass`: what a pass knows at each stage: its lists are listed pods of the right
  phase, the missed time has come and is later than that of every pod listed, and
  under `Replace` all pods it listed as running and has passed have ended or are being
  deleted.  For the refinement it also says that the pods the status calls active are
  those listed as running, and that a pass comes to `create` under `Forbid` only if there are none.

Nothing of this is in the stored state alone: a pass decides on what it read several
requests ago, and each of these parts has to survive every request, clock tick and
event in between (`PassKept`, `StorePodKept`).  `getNextScheduledTime` is a recursive
function of the number of times it may still count (`Scan`).  That its rows exist
(`RowsExist`) and that they give the newest missed time (`ScanFinds`) is an
induction over that number.  It is carried out with a least counterexample: the set
of numbers for which the claim fails has no least member, so by `WFMin` and
`NatLessThanWellFounded` it is empty (`Least`).  `FindsNewest` does not speak of the
earliest time from which the scan starts, but of the last run and the deadline:
`EarliestBounds` shows that these are the times after the former that are not past the latter
(`Overdue`).

`CronJobRefinementProofs` proves `Implements`, `Spec => KeepsSchedule`, from the same
invariant.  When `UpdateStatus` is accepted, the copy has the `rv` that is stored, hence the
spec that is stored (`StatusShown`), so that the write changes the status only, which is
`Record`; `Pass` gives the conditions on what it writes.  From then on the plan is the
copy the pass holds, and no step of the cluster touches it.  `DueIs` shows that counting from
`Earliest` is the same as counting from the last time with the deadline as a second
condition; with `NewestFound` the pass decides on the newest of these times.  Every other
action is an abstract step of the same meaning, a `Drop` or a stutter.

The assumptions are those named in `GreeterController` (`NoneAssumption`,
`VerdictsAssumption`, `BoundsAssumption`, `JobAssumption`), `CronJobReconciler`
(`SpecsAssumption`, `BoundsAssumption`, `SlotsAssumption`, `NoneAssumption`, `JobAssumption`),
`SharedInformerFactory` and `ResourceClients` (`Assumption`); TLC evaluates them in the
runs of these modules.

Model-checked only: all liveness (the provers cannot treat `ENABLED`, hence neither
fairness).

## Plan

Done: the inventory; the two controllers, the factory and the generated clients with
their runs; every safety property of the passing runs as a theorem, and the refinement of
`GreeterLifecycle`, of `AtomicInformers` and of `CronJobSchedule`.  Next, in this order:

1. Both controllers on top of `ResourceClients`: a refinement mapping from their requests
   to its calls.
2. `CronJobReconciler` with several names, if the bounds allow it.

## Not modelled

* The setters of owners, finalizers and most other metadata, and of the fields of a spec,
  in the apply configurations: they set one field each.  Kind, name and labels (which go
  through the embedded metadata), spec and status are modelled.
* Namespaces beyond one, the timeout of lists, list types, registration with schemes, the
  accessors `RESTClient` and the parallel `expansion` interfaces: no state, no choice.
* The `sample_controller` program makes the calls of `SharedInformerFactory` and prints two
  lengths.  `informer`, `watcher`, `quickstart`, `machinery`, the `http-whoami` servers and
  `node-hostname` print or answer what they see.  What can go wrong in `informer`, in `watcher`
  and in the unlocked counter of `http-whoami` is listed as a hazard; `quickstart` also
  panics in `rand.Intn` when there is no pod.
* Of client-go, controller-runtime, robfig/cron and the API server only what the
  code relies on is modelled, and the map marks it external.
* Leader election: with it one manager runs at a time, which is what
  `CronJobReconciler` assumes.
