------------------------------ MODULE WorkQueue ------------------------------
(***************************************************************************)
(* The rate limited work queue of client-go (workqueue.                    *)
(* RateLimitingInterface) as the controllers of this repository use it:    *)
(* the queue is a record and each method of its interface is an operator   *)
(* from a queue to a queue.  client-go is not part of the repository.      *)
(*                                                                         *)
(*   dirty       items that must be processed.  client-go also keeps the   *)
(*               slice of items a Get may return: it holds the dirty items *)
(*               that no worker is processing, which is Ready below.  Its  *)
(*               FIFO order is left out; the specifications that use the   *)
(*               queue assume a fair choice instead.                       *)
(*   processing  items handed out by Get and not yet given back by Done    *)
(*   waiting     for each item the time at which a delayed Add falls due,  *)
(*               NoTimer if there is none: client-go keeps one entry an    *)
(*               item and moves it only to an earlier time                 *)
(*   failing     items whose failure count is not zero: a back-off is      *)
(*               computed from that count, and Forget resets it            *)
(*   shutdown    ShutDown was called: every kind of Add is ignored, Get    *)
(*               still returns what is left                                *)
(***************************************************************************)
EXTENDS Integers

NoTimer == -1

WorkQueues(Keys, Times) ==
    [dirty : SUBSET Keys, processing : SUBSET Keys, failing : SUBSET Keys,
     waiting : [Keys -> Times \cup {NoTimer}], shutdown : BOOLEAN]

NewQueue(Keys) ==
    [dirty |-> {}, processing |-> {}, failing |-> {},
     waiting |-> [k \in Keys |-> NoTimer], shutdown |-> FALSE]

\* Mutant: an item that is being processed is handed out again.
AnyDirty(q) == q.dirty

\* The items Get may return.
Ready(q) == q.dirty \ q.processing

AddAll(q, S) == IF q.shutdown THEN q ELSE [q EXCEPT !.dirty = @ \cup S]

Add(q, k) == AddAll(q, {k})

Get(q, k) == [q EXCEPT !.dirty = @ \ {k}, !.processing = @ \cup {k}]

\* An item that was added while it was processed is dirty, so it is Ready again.
Done(q, k) == [q EXCEPT !.processing = @ \ {k}]

AddAfter(q, k, t) ==
    IF q.shutdown \/ (q.waiting[k] # NoTimer /\ q.waiting[k] <= t)
    THEN q
    ELSE [q EXCEPT !.waiting[k] = t]

\* When(k) counts the failure before the delayed Add; t is when the back-off ends.
AddRateLimited(q, k, t) == AddAfter([q EXCEPT !.failing = @ \cup {k}], k, t)

Forget(q, k) == [q EXCEPT !.failing = @ \ {k}]

\* A delayed Add falls due.
Fire(q, k) == Add([q EXCEPT !.waiting[k] = NoTimer], k)

ShutDown(q) == [q EXCEPT !.shutdown = TRUE]
==============================================================================
