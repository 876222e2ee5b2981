--------------------------- MODULE GreeterLifecycle ---------------------------
(***************************************************************************)
(* What the greeter controller promises to somebody who looks only at the  *)
(* API server: a Greeter starts once its stored schedule is due, and it is *)
(* reported with a verdict only if a pod of that very Greeter ended with   *)
(* that verdict.  The phase never goes back.  No cache, queue, worker,     *)
(* retry or crash appears here.                                            *)
(***************************************************************************)
EXTENDS Integers

CONSTANTS
    Names,       \* namespace/name keys
    None,        \* no Greeter is stored under a name
    MaxUid,      \* bound: Greeters ever submitted
    Verdicts,    \* how a Greeter can end
    Schedules    \* schedules, as times; a negative one does not parse

\* the phase of a Greeter that has not started
Unset == ""

VARIABLES
    jobs,        \* jobs[n]: the Greeter stored under n, or None
    lastUid,     \* uid of the Greeter submitted last
    ended,       \* <<uid, verdict>>: a pod of that Greeter ended with that verdict
    now

vars == <<jobs, lastUid, ended, now>>

Init ==
    /\ jobs = [n \in Names |-> None]
    /\ lastUid = 0
    /\ ended = {}
    /\ now = 0

Submit(n, s) ==
    /\ jobs[n] = None
    /\ lastUid < MaxUid
    /\ lastUid' = lastUid + 1
    /\ jobs' = [jobs EXCEPT ![n] = [uid |-> lastUid + 1, schedule |-> s, phase |-> Unset]]
    /\ UNCHANGED <<ended, now>>

Reschedule(n, s) ==
    /\ jobs[n] # None
    /\ jobs' = [jobs EXCEPT ![n].schedule = s]
    /\ UNCHANGED <<lastUid, ended, now>>

Withdraw(n) ==
    /\ jobs[n] # None
    /\ jobs' = [jobs EXCEPT ![n] = None]
    /\ UNCHANGED <<lastUid, ended, now>>

\* The stored schedule parses and is due at this very step.
Begin(n) ==
    /\ jobs[n] # None
    /\ jobs[n].phase = Unset
    /\ jobs[n].schedule \in 0..now
    /\ jobs' = [jobs EXCEPT ![n].phase = "Running"]
    /\ UNCHANGED <<lastUid, ended, now>>

Conclude(n, v) ==
    /\ jobs[n] # None
    /\ jobs[n].phase = "Running"
    /\ <<jobs[n].uid, v>> \in ended
    /\ jobs' = [jobs EXCEPT ![n].phase = v]
    /\ UNCHANGED <<lastUid, ended, now>>

PodEnds(u, v) ==
    /\ ended' = ended \cup {<<u, v>>}
    /\ UNCHANGED <<jobs, lastUid, now>>

Tick ==
    /\ now' = now + 1
    /\ UNCHANGED <<jobs, lastUid, ended>>

Next ==
    \/ \E n \in Names, s \in Schedules : Submit(n, s) \/ Reschedule(n, s)
    \/ \E n \in Names : Withdraw(n) \/ Begin(n)
    \/ \E n \in Names, v \in Verdicts : Conclude(n, v)
    \/ \E u \in 0..lastUid, v \in Verdicts : PodEnds(u, v)
    \/ Tick

Spec == Init /\ [][Next]_vars
==============================================================================
