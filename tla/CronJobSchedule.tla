--------------------------- MODULE CronJobSchedule ---------------------------
(***************************************************************************)
(* What the CronJob reconciler promises to somebody who looks only at the  *)
(* API server: it acts on a status that it has written, decides on the     *)
(* newest time that is due after what the status records, and makes one    *)
(* pod for it, once the policy of that CronJob is met.  No cache, event,   *)
(* queue, version, lost answer or crash appears here.                      *)
(***************************************************************************)
EXTENDS Integers, Sequences

CONSTANTS
    None,        \* no CronJob under the name
    Specs,       \* the specs that users write
    Slots        \* times of the schedule

\* A history limit or a deadline that is nil, and no time.
Unset == -1
Zero == 0

VARIABLES
    job,         \* the CronJob with its status, or None
    pods,        \* every pod ever made; one that is no longer stored is Gone
    lastUid,
    now,
    evictions,   \* pods that users and drains may still delete
    plans        \* what the controller is about: nothing, or one plan

vars == <<job, pods, lastUid, now, evictions, plans>>

Finished == {"Succeeded", "Failed"}

Init ==
    /\ job = None /\ pods = <<>> /\ lastUid = 0 /\ now = 1
    /\ evictions \in Nat
    /\ plans = {}

------------------------------------------------------------------------------
(* Users, the cluster and the clock.  None of them touches a plan. *)

Submit(s) ==
    /\ job = None
    /\ lastUid' = lastUid + 1
    /\ job' = [uid |-> lastUid + 1, created |-> now, spec |-> s, last |-> Zero, active |-> {}]
    /\ UNCHANGED <<pods, now, evictions, plans>>

Edit(s) ==
    /\ job # None
    /\ job' = [job EXCEPT !.spec = s]
    /\ UNCHANGED <<pods, lastUid, now, evictions, plans>>

Withdraw ==
    /\ job # None
    /\ job' = None
    /\ UNCHANGED <<pods, lastUid, now, evictions, plans>>

PodEnds(i, v) ==
    /\ pods[i].phase = "Active"
    /\ pods' = [pods EXCEPT ![i].phase = v]
    /\ UNCHANGED <<job, lastUid, now, evictions, plans>>

PodStopped(i) ==
    /\ pods[i].deleting
    /\ pods' = [pods EXCEPT ![i].phase = "Gone"]
    /\ UNCHANGED <<job, lastUid, now, evictions, plans>>

\* A pod that runs is told to stop, one that has ended is removed.
Deleted(i) ==
    pods' = IF pods[i].phase = "Active" THEN [pods EXCEPT ![i].deleting = TRUE]
                                        ELSE [pods EXCEPT ![i].phase = "Gone"]

Evict(i) ==
    /\ evictions > 0
    /\ evictions' = evictions - 1
    /\ Deleted(i)
    /\ UNCHANGED <<job, lastUid, now, plans>>

CollectOrphan(i) ==
    /\ job # None => job.uid # pods[i].owner
    /\ Deleted(i)
    /\ UNCHANGED <<job, lastUid, now, evictions, plans>>

Tick ==
    /\ now' > now
    /\ UNCHANGED <<job, pods, lastUid, evictions, plans>>

------------------------------------------------------------------------------
(* The controller. *)

\* The status of the stored CronJob is written.  It names pods that were made, and no
\* time that is neither that of a pod nor the creation; nothing it calls active is
\* newer than the last time.  The rest of the CronJob is what it is.
Record ==
    /\ job # None /\ plans = {}
    /\ \E last \in {job.created} \cup {pods[i].slot : i \in DOMAIN pods},
          active \in SUBSET DOMAIN pods :
         /\ last >= job.created
         /\ \A i \in active : pods[i].slot <= last
         /\ job' = [job EXCEPT !.last = last, !.active = active]
    /\ plans' \in {{}, {[job |-> job', slot |-> Zero]}}
    /\ UNCHANGED <<pods, lastUid, now, evictions>>

\* A pod that has ended is removed, where a limit is set for pods that ended like it.
Clean(p, i) ==
    /\ p.slot = Zero
    /\ \/ pods[i].phase = "Failed" /\ p.job.spec.failed # Unset
       \/ pods[i].phase = "Succeeded" /\ p.job.spec.succeeded # Unset
    /\ pods' = [pods EXCEPT ![i].phase = "Gone"]
    /\ UNCHANGED <<job, lastUid, now, evictions, plans>>

\* Times that are due at this step, after what the status records and not too late.
Due(j) ==
    {s \in Slots : /\ j.last < s /\ s <= now
                   /\ j.spec.deadline # Unset => now - j.spec.deadline < s}

\* The newest of them is what a pod will be made for.
Decide(p) ==
    /\ p.slot = Zero
    /\ p.job.spec.valid /\ ~ p.job.spec.suspend
    /\ \E s \in Due(p.job) :
         /\ \A u \in Due(p.job) : u <= s
         /\ plans' = {[p EXCEPT !.slot = s]}
    /\ UNCHANGED <<job, pods, lastUid, now, evictions>>

\* Only for a pod that is about to be made, and only under Replace, are pods that the
\* status calls active told to stop.
Cancel(p, i) ==
    /\ p.slot # Zero
    /\ p.job.spec.policy = "Replace"
    /\ i \in p.job.active
    /\ Deleted(i)
    /\ plans' \in {plans, {}}
    /\ UNCHANGED <<job, lastUid, now, evictions>>

\* A plan is good for one pod.
Launch(p) ==
    /\ p.slot # Zero
    /\ p.job.spec.policy = "Forbid" => p.job.active = {}
    /\ p.job.spec.policy = "Replace" =>
         \A i \in p.job.active : pods[i].phase # "Active" \/ pods[i].deleting
    /\ pods' = Append(pods, [owner |-> p.job.uid, slot |-> p.slot, phase |-> "Active",
                             deleting |-> FALSE])
    /\ plans' = {}
    /\ UNCHANGED <<job, lastUid, now, evictions>>

\* There is nothing to do, something failed, or the process ended.
Drop ==
    /\ plans' = {}
    /\ UNCHANGED <<job, pods, lastUid, now, evictions>>

Next ==
    \/ \E s \in Specs : Submit(s) \/ Edit(s)
    \/ Withdraw
    \/ \E i \in DOMAIN pods :
         \/ \E v \in Finished : PodEnds(i, v)
         \/ PodStopped(i) \/ Evict(i) \/ CollectOrphan(i)
    \/ Tick
    \/ Record \/ Drop
    \/ \E p \in plans :
         \/ Decide(p) \/ Launch(p)
         \/ \E i \in DOMAIN pods : Clean(p, i) \/ Cancel(p, i)

Spec == Init /\ [][Next]_vars
==============================================================================
