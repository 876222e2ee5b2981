-------------------------- MODULE CronJobReconciler --------------------------
(***************************************************************************)
(* The CronJob reconciler (circle/internal/controller/                     *)
(* cronjob_controller.go) for one name: the API server, the two caches of  *)
(* the manager's client, the queue and the single worker that              *)
(* controller-runtime gives a controller, the clock, kubelet and garbage   *)
(* collector.  The stages are those of the comments in Reconcile.          *)
(*                                                                         *)
(* A pod is known by its number, the order of creation: the names that     *)
(* GenerateName makes differ.  A pod that is no longer stored stays in the *)
(* sequence with the phase Gone.                                           *)
(***************************************************************************)
EXTENDS Sequences, FiniteSets, WorkQueue

CONSTANTS
    None,        \* no CronJob under the name
    Specs,       \* the specs that users write
    Slots,       \* times of the schedule
    MaxMissed,   \* missed starts that are still counted: 100 in the code
    MaxUid,      \* bound: CronJobs ever created
    MaxPods,     \* bound: pods ever created
    MaxLag,      \* bound: events a cache may be behind
    Horizon,     \* bound: the clock stops here
    Stride,      \* bound: seconds between two readings of the clock that differ
    Budgets      \* bounds: how often each Kind of disturbance happens, in one
                 \* behaviour or another

Kinds == {"edit", "delete", "evict", "fault", "crash"}

Policies == {"Allow", "Forbid", "Replace"}

\* An optional field that is nil.
Unset == -1

\* valid: the schedule parses.  failed and succeeded: the history limits.
Spec_ ==
    [valid : BOOLEAN, suspend : BOOLEAN, policy : Policies, deadline : Nat \cup {Unset},
     failed : Nat \cup {Unset}, succeeded : Nat \cup {Unset}]

ASSUME SpecsAssumption == Specs \subseteq Spec_
ASSUME BoundsAssumption ==
    /\ MaxMissed \in Nat /\ MaxUid \in Nat /\ MaxPods \in Nat
    /\ MaxLag \in Nat /\ Horizon \in Nat \ {0} /\ Stride \in Nat \ {0}
    /\ Budgets \subseteq [Kinds -> Nat]
ASSUME SlotsAssumption == Slots \subseteq 1..Horizon

\* The time 0 is zero, the value of a time.Time nobody assigned.
Zero == 0

Never == Horizon + 1

Times == Zero..Never

Finished == {"Succeeded", "Failed"}

Pod == [owner : 1..MaxUid, slot : Slots, phase : {"Active", "Gone"} \cup Finished,
        deleting : BOOLEAN]

PodIds == 1..MaxPods

\* last and active are the status; a reference to a pod holds the version of the
\* pod, which is told by whether it is being deleted.
CronJob == [uid : 1..MaxUid, rv : Nat, created : Times, spec : Specs,
            last : Times, active : SUBSET (PodIds \X BOOLEAN)]

ASSUME NoneAssumption == None \notin CronJob

VARIABLES
    cron, pods,             \* what the API server stores
    lastUid,
    now,
    budget,                 \* disturbances left
    cronCache, podCache,    \* what r.Get and r.List return
    cronWatch, podWatch,    \* events on their way to the caches
    up,                     \* the manager runs
    queue,                  \* of the controller; its only key is Key
    rec                     \* locals and position of Reconcile

api == <<cron, pods, lastUid>>
caches == <<cronCache, podCache, cronWatch, podWatch>>
vars == <<api, now, budget, caches, up, queue, rec>>

Key == "cronjob"

PCs == {"idle", "get", "list", "status", "cleanFailed", "cleanSucceeded", "suspend",
        "schedule", "plan", "deadline", "policy", "replace", "create", "ok", "error"}

\* active, failed, succeeded: pods listed.  todo: pods still to delete.
Reconcile_ ==
    [pc : PCs, inst : CronJob \cup {None}, active : SUBSET PodIds, failed : SUBSET PodIds,
     succeeded : SUBSET PodIds, todo : SUBSET PodIds, missed : Slots \cup {Zero}, next : Slots \cup {Zero, Never},
     after : (0 - Never)..Never]

Idle == [pc |-> "idle", inst |-> None, active |-> {}, failed |-> {}, succeeded |-> {},
         todo |-> {}, missed |-> Zero, next |-> Zero, after |-> 0]

Init ==
    /\ cron = None /\ pods = <<>> /\ lastUid = 0
    /\ now = 1 /\ budget \in Budgets
    /\ cronCache = None /\ podCache = <<>> /\ cronWatch = <<>> /\ podWatch = <<>>
    /\ up = TRUE
    /\ queue = NewQueue({Key})
    /\ rec = Idle

Spend(kind) ==
    /\ budget[kind] > 0
    /\ budget' = [budget EXCEPT ![kind] = @ - 1]

------------------------------------------------------------------------------
(* The API server and the cluster. *)

StoreCron(c) ==
    /\ Len(cronWatch) < MaxLag
    /\ cron' = c
    /\ cronWatch' = IF up THEN Append(cronWatch, c) ELSE cronWatch

Put(ps, i, p) == IF i > Len(ps) THEN Append(ps, p) ELSE [ps EXCEPT ![i] = p]

StorePod(i, p) ==
    /\ Len(podWatch) < MaxLag
    /\ pods' = Put(pods, i, p)
    /\ podWatch' = IF up THEN Append(podWatch, [id |-> i, pod |-> p]) ELSE podWatch

\* A pod that still runs is only marked, until the kubelet has stopped it.
DeletePod(i) ==
    \/ /\ pods[i].phase = "Active" /\ ~ pods[i].deleting
       /\ StorePod(i, [pods[i] EXCEPT !.deleting = TRUE])
    \/ /\ pods[i].phase \in Finished
       /\ StorePod(i, [pods[i] EXCEPT !.phase = "Gone"])
    \/ /\ pods[i].phase = "Gone" \/ (pods[i].phase = "Active" /\ pods[i].deleting)
       /\ UNCHANGED <<pods, podWatch>>

CreateCronJob(s) ==
    /\ cron = None
    /\ lastUid < MaxUid
    /\ lastUid' = lastUid + 1
    /\ StoreCron([uid |-> lastUid + 1, rv |-> 1, created |-> now, spec |-> s,
                  last |-> Zero, active |-> {}])
    /\ UNCHANGED <<pods, now, budget, cronCache, podCache, podWatch, up, queue, rec>>

EditCronJob(s) ==
    /\ cron # None
    /\ s # cron.spec
    /\ Spend("edit")
    /\ StoreCron([cron EXCEPT !.spec = s, !.rv = @ + 1])
    /\ UNCHANGED <<pods, lastUid, now, cronCache, podCache, podWatch, up, queue, rec>>

DeleteCronJob ==
    /\ cron # None
    /\ Spend("delete")
    /\ StoreCron(None)
    /\ UNCHANGED <<pods, lastUid, now, cronCache, podCache, podWatch, up, queue, rec>>

PodChanges == UNCHANGED <<cron, lastUid, now, cronCache, podCache, cronWatch, up, queue, rec>>

PodEnds(i, v) ==
    /\ pods[i].phase = "Active"
    /\ StorePod(i, [pods[i] EXCEPT !.phase = v])
    /\ UNCHANGED budget
    /\ PodChanges

\* The kubelet has stopped a pod that is being deleted.
PodStopped(i) ==
    /\ pods[i].phase # "Gone" /\ pods[i].deleting
    /\ StorePod(i, [pods[i] EXCEPT !.phase = "Gone"])
    /\ UNCHANGED budget
    /\ PodChanges

EvictPod(i) ==
    /\ pods[i].phase # "Gone"
    /\ Spend("evict")
    /\ DeletePod(i)
    /\ PodChanges

\* The garbage collector, after the owner is gone.
CollectOrphan(i) ==
    /\ pods[i].phase # "Gone"
    /\ cron # None => cron.uid # pods[i].owner
    /\ DeletePod(i)
    /\ UNCHANGED budget
    /\ PodChanges

Tick ==
    /\ now + Stride <= Horizon
    /\ now' = now + Stride
    /\ UNCHANGED <<api, budget, caches, up, queue, rec>>

------------------------------------------------------------------------------
(* The manager: caches, queue and process.  SetupWithManager registers     *)
(* For(CronJob) and nothing else: an event of a CronJob, deletion included, *)
(* adds the key, and an event of a pod does not.                           *)

WatchCron ==
    /\ up
    /\ cronWatch # <<>>
    /\ cronCache' = Head(cronWatch)
    /\ cronWatch' = Tail(cronWatch)
    /\ queue' = Add(queue, Key)
    /\ UNCHANGED <<api, now, budget, podCache, podWatch, up, rec>>

WatchPods ==
    /\ up
    /\ podWatch # <<>>
    /\ podCache' = Put(podCache, Head(podWatch).id, Head(podWatch).pod)
    /\ podWatch' = Tail(podWatch)
    /\ UNCHANGED <<api, now, budget, cronCache, cronWatch, up, queue, rec>>

\* The manager's resync of its caches, every 10 hours.
Resync ==
    /\ up
    /\ cronCache # None
    /\ queue' = Add(queue, Key)
    /\ UNCHANGED <<api, now, budget, caches, up, rec>>

Expire ==
    /\ up
    /\ queue.waiting[Key] \in 0..now
    /\ queue' = Fire(queue, Key)
    /\ UNCHANGED <<api, now, budget, caches, up, rec>>

Down ==
    /\ up' = FALSE
    /\ cronCache' = None /\ podCache' = <<>> /\ cronWatch' = <<>> /\ podWatch' = <<>>
    /\ queue' = NewQueue({Key})
    /\ rec' = Idle
    /\ UNCHANGED <<api, now>>

Crash ==
    /\ up
    /\ Spend("crash")
    /\ Down

\* Workers start after the caches have been filled.
Restart ==
    /\ ~ up
    /\ up' = TRUE
    /\ cronCache' = cron /\ podCache' = pods
    /\ queue' = IF cron = None THEN queue ELSE Add(queue, Key)
    /\ UNCHANGED <<api, now, budget, cronWatch, podWatch, rec>>

------------------------------------------------------------------------------
(* Reconcile. *)

At(pc) == up /\ rec.pc = pc

Goto(pc) == rec' = [rec EXCEPT !.pc = pc]

\* The pass is over: its result is an error, or after, the RequeueAfter.
Return(pc, after) == rec' = [Idle EXCEPT !.pc = pc, !.after = after]

Quiet == UNCHANGED <<api, now, budget, caches, up>>

Get_ ==
    /\ At("idle")
    /\ Key \in Ready(queue)
    /\ queue' = Get(queue, Key)
    /\ rec' = [Idle EXCEPT !.pc = "get"]
    /\ Quiet

GetCronJob ==
    /\ At("get")
    /\ \/ cronCache = None /\ Return("ok", 0)
       \/ cronCache # None /\ rec' = [rec EXCEPT !.pc = "list", !.inst = cronCache]
    /\ UNCHANGED queue
    /\ Quiet

\* The index jobOwnerKey holds the name of the owner, not its uid.
Children == {i \in DOMAIN podCache : podCache[i].phase # "Gone"}

Listed(phases) == {i \in Children : podCache[i].phase \in phases}

Latest(S) == CHOOSE t \in S : \A u \in S : u <= t

\* Mutant: only pods that still run are asked for their time.
LastActive == Latest({rec.inst.created} \cup
                     {podCache[i].slot : i \in Listed({"Active"})})

LastPass == now  \* Mutant: the time of the pass is recorded.

\* Stage 2: the last time is that of the newest pod still listed.
LastScheduled == Latest({rec.inst.created} \cup {podCache[i].slot : i \in Children})

ListPods ==
    /\ At("list")
    /\ rec' = [rec EXCEPT !.pc = "status", !.active = Listed({"Active"}),
                          !.failed = Listed({"Failed"}), !.succeeded = Listed({"Succeeded"}),
                          !.inst.last = LastScheduled,
                          !.inst.active = {<<i, podCache[i].deleting>> : i \in Listed({"Active"})}]
    /\ UNCHANGED queue
    /\ Quiet

\* A request or its answer is lost.
Answered(pc) ==
    \/ Goto(pc) /\ UNCHANGED budget
    \/ Return("error", 0) /\ Spend("fault")

\* Mutant: an error of the Delete of an active pod is only logged.
LoggedOnly ==
    /\ up
    /\ rec.pc = "replace"
    /\ rec.todo # {}
    /\ Spend("fault")
    /\ rec' = [rec EXCEPT !.todo = @ \ {CHOOSE i \in @ : \A j \in @ : i <= j}]
    /\ UNCHANGED <<api, now, caches, up, queue>>

RequestLost ==
    /\ up
    /\ rec.pc \in {"status", "replace", "create"}
    /\ rec.pc = "replace" => rec.todo # {}
    /\ Spend("fault")
    /\ Return("error", 0)
    /\ UNCHANGED <<api, now, caches, up, queue>>

\* Mutant: the update carries no resourceVersion.
CurrentUid == cron # None /\ cron.uid = rec.inst.uid

\* The API server refuses another uid or resourceVersion than the stored one.
Current == cron # None /\ cron.uid = rec.inst.uid /\ cron.rv = rec.inst.rv

\* Mutant: a refused update is only logged.
UpdateLogged ==
    /\ At("status")
    /\ \/ /\ Current
          /\ StoreCron([rec.inst EXCEPT !.rv = @ + 1])
          /\ rec' = [rec EXCEPT !.pc = "cleanFailed", !.inst.rv = @ + 1]
       \/ /\ ~ Current
          /\ Goto("cleanFailed")
          /\ UNCHANGED <<cron, cronWatch>>
    /\ UNCHANGED <<pods, lastUid, now, budget, cronCache, podCache, podWatch, up, queue>>

\* An update that changes nothing makes no event.
UpdateStatus ==
    /\ At("status")
    /\ \/ /\ Current
          /\ \/ /\ cron = rec.inst
                /\ Answered("cleanFailed")
                /\ UNCHANGED <<cron, cronWatch>>
             \/ /\ cron # rec.inst
                /\ StoreCron([rec.inst EXCEPT !.rv = @ + 1])
                /\ \/ /\ rec' = [rec EXCEPT !.pc = "cleanFailed", !.inst.rv = @ + 1]
                      /\ UNCHANGED budget
                   \/ Return("error", 0) /\ Spend("fault")
       \/ /\ ~ Current
          /\ Return("error", 0)
          /\ UNCHANGED <<cron, cronWatch, budget>>
    /\ UNCHANGED <<pods, lastUid, now, cronCache, podCache, podWatch, up, queue>>

Newest(S) == CHOOSE i \in S : \A j \in S : j <= i  \* Mutant: sorted backwards.

\* Stage 3.  The loop deletes the oldest of the listed pods first, and its index
\* runs to len - limit, so that limit - 1 are left; with the limit 0 it runs out
\* of the slice when all of them are deleted.
Oldest(S) == CHOOSE i \in S : \A j \in S : i <= j

LoopRuns(S, gone, limit) == limit # Unset /\ gone <= Cardinality(S) - limit

\* todo: listed pods the loop has already been through
Clean(S, limit, pc) ==
    LET left == S \ rec.todo
        runs == LoopRuns(S, Cardinality(rec.todo), limit)
    IN  \/ /\ ~ runs
           /\ rec' = [rec EXCEPT !.pc = pc, !.todo = {}]
           /\ UNCHANGED <<api, now, budget, caches, up, queue>>
        \/ /\ runs /\ left # {}
           /\ rec' = [rec EXCEPT !.todo = @ \cup {Oldest(left)}]
           /\ \/ DeletePod(Oldest(left)) /\ UNCHANGED budget
              \/ Spend("fault") /\ UNCHANGED <<pods, podWatch>>
           /\ UNCHANGED <<cron, lastUid, now, cronCache, podCache, cronWatch, up, queue>>
        \/ /\ runs /\ left = {}  \* index out of range: the process panics
           /\ Down
           /\ UNCHANGED budget

CleanFailed == At("cleanFailed") /\ Clean(rec.failed, rec.inst.spec.failed, "cleanSucceeded")

CleanSucceeded == At("cleanSucceeded") /\ Clean(rec.succeeded, rec.inst.spec.succeeded, "suspend")

\* Stage 4.
CheckSuspend ==
    /\ At("suspend")
    /\ \/ rec.inst.spec.suspend /\ Return("ok", 0)
       \/ ~ rec.inst.spec.suspend /\ Goto("schedule")
    /\ UNCHANGED queue
    /\ Quiet

\* schedule.Next of the cron library
NextSlot(t) ==
    LET later == {s \in Slots : s > t}
    IN  IF later = {} THEN Never ELSE CHOOSE s \in later : \A u \in later : s <= u

\* Mutant: the deadline counts alone, whatever has run.
DeadlineAlone(c) ==
    IF c.spec.deadline = Unset THEN c.last
    ELSE IF now - c.spec.deadline > Zero THEN now - c.spec.deadline ELSE Zero

\* getNextScheduledTime: the deadline moves the first time that still counts.
Earliest(c) ==
    LET first == IF c.last # Zero THEN c.last ELSE c.created
    IN  IF c.spec.deadline # Unset /\ now - c.spec.deadline > first
        THEN now - c.spec.deadline
        ELSE first

Soon(s) == s > now + 1  \* Mutant: a time that is about to come is taken.

Beyond(s) == s > now

LastOrStart(t, left) == t  \* Mutant: lastMissed starts as the earliest time.

\* lastMissed, when the loop has come to t and has so many turns left
LastMissed(t, left) == IF left = MaxMissed + 1 THEN Zero ELSE t

\* The loop from one slot to the next, started at t; one turn too many is an error.
Scan[left \in 0..(MaxMissed + 1)] ==
    [t \in Times |->
       LET s == NextSlot(t)
       IN  IF Beyond(s) \/ left = 0
           THEN [missed |-> LastMissed(t, left), error |-> left = 0]
           ELSE Scan[left - 1][s]]

\* Stage 5.
GetNextScheduledTime ==
    /\ At("schedule")
    /\ LET scan == Scan[MaxMissed + 1][Earliest(rec.inst)]
       IN  \/ /\ ~ rec.inst.spec.valid \/ scan.error
              /\ Return("ok", 0)
           \/ /\ rec.inst.spec.valid /\ ~ scan.error
              /\ rec' = [rec EXCEPT !.pc = "plan", !.missed = scan.missed,
                                    !.next = NextSlot(now)]
    /\ UNCHANGED queue
    /\ Quiet

\* Stage 6.  The clock is read again, and may have gone on.
Plan ==
    /\ At("plan")
    /\ \/ rec.missed = Zero /\ Return("ok", rec.next - now)
       \/ /\ rec.missed # Zero
          /\ rec' = [rec EXCEPT !.pc = "deadline", !.after = rec.next - now]
    /\ UNCHANGED queue
    /\ Quiet

CheckDeadline ==
    LET late == rec.inst.spec.deadline # Unset /\ rec.missed + rec.inst.spec.deadline < now
    IN  /\ At("deadline")
        /\ \/ late /\ Return("ok", rec.after)
           \/ ~ late /\ Goto("policy")
        /\ UNCHANGED queue
        /\ Quiet

CheckPolicy ==
    /\ At("policy")
    /\ \/ rec.inst.spec.policy = "Forbid" /\ rec.active # {} /\ Return("ok", rec.after)
       \/ rec.inst.spec.policy = "Forbid" /\ rec.active = {} /\ Goto("create")
       \/ rec.inst.spec.policy = "Allow" /\ Goto("create")
       \/ rec.inst.spec.policy = "Replace" /\ rec' = [rec EXCEPT !.pc = "replace",
                                                               !.todo = rec.active]
    /\ UNCHANGED queue
    /\ Quiet

Replace ==
    /\ At("replace")
    /\ \/ /\ rec.todo = {}
          /\ Goto("create")
          /\ UNCHANGED <<pods, podWatch, budget>>
       \/ /\ rec.todo # {}
          /\ DeletePod(Oldest(rec.todo))
          /\ \/ rec' = [rec EXCEPT !.todo = @ \ {Oldest(rec.todo)}] /\ UNCHANGED budget
             \/ Return("error", 0) /\ Spend("fault")
    /\ UNCHANGED <<cron, lastUid, now, cronCache, podCache, cronWatch, up, queue>>

CreatePod ==
    /\ At("create")
    /\ Len(pods) < MaxPods
    /\ StorePod(Len(pods) + 1, [owner |-> rec.inst.uid, slot |-> rec.missed,
                                phase |-> "Active", deleting |-> FALSE])
    /\ \/ Return("ok", rec.after) /\ UNCHANGED budget
       \/ Return("error", 0) /\ Spend("fault")
    /\ UNCHANGED <<cron, lastUid, now, cronCache, podCache, cronWatch, up, queue>>

\* controller-runtime adds the key again after a RequeueAfter greater than zero,
\* after a back-off if there was an error, and not at all otherwise.
Finish ==
    LET due == now + rec.after
    IN  /\ up
        /\ \/ /\ rec.pc = "error"
              /\ queue' = Done(AddRateLimited(queue, Key, now), Key)
           \/ /\ rec.pc = "ok" /\ rec.after > 0
              /\ queue' = Done(AddAfter(Forget(queue, Key), Key,
                                        IF due < Never THEN due ELSE Never), Key)
           \/ /\ rec.pc = "ok" /\ rec.after <= 0
              /\ queue' = Done(Forget(queue, Key), Key)
        /\ rec' = Idle
        /\ Quiet

------------------------------------------------------------------------------
Cluster ==
    \/ \E s \in Specs : CreateCronJob(s) \/ EditCronJob(s)
    \/ DeleteCronJob
    \/ \E i \in DOMAIN pods :
         \/ \E v \in Finished : PodEnds(i, v)
         \/ PodStopped(i) \/ EvictPod(i) \/ CollectOrphan(i)
    \/ Tick

Manager == WatchCron \/ WatchPods \/ Resync \/ Expire \/ Crash \/ Restart

Reconcile ==
    \/ Get_ \/ GetCronJob \/ ListPods \/ UpdateStatus \/ RequestLost
    \/ CleanFailed \/ CleanSucceeded \/ CheckSuspend \/ GetNextScheduledTime
    \/ Plan \/ CheckDeadline \/ CheckPolicy \/ Replace \/ CreatePod \/ Finish

Next == Cluster \/ Manager \/ Reconcile

\* The clock, the watches, the manager and its resync, and the worker go on.
Fairness ==
    /\ WF_vars(Tick)
    /\ WF_vars(WatchCron) /\ WF_vars(WatchPods)
    /\ WF_vars(Resync) /\ WF_vars(Expire) /\ WF_vars(Restart)
    /\ WF_vars(Reconcile)

Spec == Init /\ [][Next]_vars

FairSpec == Spec /\ Fairness

------------------------------------------------------------------------------
(* Properties. *)

\* What is stored, cached, queued and held by a pass keeps its type.
TypeOK ==
    /\ cron \in CronJob \cup {None} /\ pods \in Seq(Pod) /\ lastUid \in 0..MaxUid
    /\ now \in Times /\ budget \in [Kinds -> Nat]
    /\ cronCache \in CronJob \cup {None} /\ podCache \in Seq(Pod)
    /\ cronWatch \in Seq(CronJob \cup {None}) /\ podWatch \in Seq([id : PodIds, pod : Pod])
    /\ up \in BOOLEAN
    /\ queue \in WorkQueues({Key}, Times)
    /\ rec \in Reconcile_

\* Every pod was made for a time that had come, and that lies after the creation
\* of the CronJob that owns it, even if an earlier CronJob had the same name.
RunsAreDue ==
    \A i \in DOMAIN pods :
      /\ pods[i].slot <= now
      /\ cron # None /\ cron.uid = pods[i].owner => cron.created < pods[i].slot

\* No pass makes a pod for a time that a pod it has listed already had: what
\* makes a slot run twice is never the pass itself, only what it did not see.
NeverRepeatsListed ==
    [][CreatePod =>
         \A i \in rec.active \cup rec.failed \cup rec.succeeded :
           pods[i].slot < pods'[Len(pods')].slot]_vars

\* Of the times that came after the last run and are not past the deadline, the
\* loop of getNextScheduledTime finds the newest, and none only when there is none.
MissesNothing ==
    [][GetNextScheduledTime /\ rec'.pc = "plan" =>
         LET deadline == rec.inst.spec.deadline
             missed == {s \in Slots : /\ rec.inst.last < s /\ s <= now
                                      /\ deadline # Unset => now - deadline < s}
         IN  rec'.missed = IF missed = {} THEN Zero ELSE Latest(missed)]_vars

\* "cancels currently running job and replaces it": when the new pod is made,
\* each pod the pass listed as running has ended or is being deleted, whatever
\* failed on the way.
ReplaceCancels ==
    [][CreatePod /\ rec.inst.spec.policy = "Replace" =>
         \A i \in rec.active : pods[i].phase # "Active" \/ pods[i].deleting]_vars

\* The history limits cost only pods that have ended, the oldest of those that
\* were listed first, although the list may be old.
CleansOldest ==
    [][CleanFailed \/ CleanSucceeded =>
         \A i \in DOMAIN pods : pods'[i] # pods[i] =>
           /\ pods[i].phase \in Finished
           /\ \A j \in (IF rec.pc = "cleanFailed" THEN rec.failed ELSE rec.succeeded) :
                j < i => j \in rec.todo]_vars

\* What may keep a time s that has come from being made up for: users, the
\* deadline, the Forbid policy while a pod runs, or a bound of the model.
Excused(s) ==
    \/ cron = None
    \/ cron.spec.suspend \/ ~ cron.spec.valid
    \/ cron.spec.deadline # Unset /\ s + cron.spec.deadline <= now
    \/ cron.spec.policy = "Forbid" /\ \E i \in DOMAIN pods : pods[i].phase = "Active"
    \/ Len(pods) = MaxPods

\* A time that has come is not lost for good: some pod is made for it or for a
\* later one, through stale caches, conflicts, crashes and lost timers.
CatchesUp ==
    \A s \in Slots :
      cron # None /\ cron.created < s /\ s <= now
        ~> Excused(s) \/ \E i \in DOMAIN pods : pods[i].slot >= s

\* "forbids concurrent runs, skipping next run if previous hasn't finished yet"
\* (ForbidConcurrent).
OneRunAtATime ==
    cron # None /\ cron.spec.policy = "Forbid" =>
      Cardinality({i \in DOMAIN pods : pods[i].phase = "Active" /\ pods[i].owner = cron.uid}) <= 1

\* "Requeue when we either see a running pod or it's time for the next scheduled
\* run" (stage 7): between two passes something will bring the key back.
Requeued ==
    /\ up /\ rec.pc = "idle"
    /\ cronWatch = <<>>
    /\ cronCache # None /\ cronCache.spec.valid /\ ~ cronCache.spec.suspend
    => Key \in queue.dirty \/ queue.waiting[Key] # NoTimer

\* "The number of successful finished jobs to retain.  This is a pointer to
\* distinguish between explicit zero and not specified" (CronJobSpec): the
\* cleanup comes to its end, and leaves as many pods as that.
Retains ==
    [][CleanSucceeded /\ rec.inst.spec.succeeded # Unset =>
         /\ up'
         /\ \/ rec'.todo \subseteq rec.todo
            \/ Cardinality(rec.succeeded \ rec'.todo) >= rec.inst.spec.succeeded]_vars
\* The refinement mapping.  Somebody who looks at the API server sees no version, and of a
\* reference to a pod which pod it is.
Shown(c) == [uid |-> c.uid, created |-> c.created, spec |-> c.spec, last |-> c.last,
             active |-> {a[1] : a \in c.active}]

Job == [uid : 1..MaxUid, created : Times, spec : Specs, last : Times, active : SUBSET PodIds]

ASSUME JobAssumption == None \notin Job

\* The stages of a pass whose status has been written.
Acting == {"cleanFailed", "cleanSucceeded", "suspend", "schedule", "plan", "deadline", "policy",
           "replace", "create"}

Schedule == INSTANCE CronJobSchedule WITH
    job <- IF cron = None THEN None ELSE Shown(cron),
    evictions <- budget["evict"],
    plans <- IF rec.pc \in Acting THEN {[job |-> Shown(rec.inst), slot |-> rec.missed]} ELSE {}

\* "List all active jobs, and update the status" (stage 2), "Run a new job if it's on
\* schedule, not past the deadline, and not blocked by our concurrency policy" (stage 6):
\* all that is done to pods follows from a status that was stored, of the version that was
\* stored, and each such status leads to one pod at most, whatever goes wrong.
KeepsSchedule == Schedule!Spec
==============================================================================
