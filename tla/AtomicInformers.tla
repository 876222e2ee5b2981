--------------------------- MODULE AtomicInformers ---------------------------
(***************************************************************************)
(* What the informer factory promises to goroutines that share it: every   *)
(* call takes effect at one moment between its beginning and its end, a    *)
(* Start for all informers at once, as if there were no lock, no loop and  *)
(* no wait group.  Shutdown is final and waits for every informer.         *)
(***************************************************************************)
CONSTANTS
    Threads,   \* goroutines that call the factory
    Types,     \* informer types
    Stops,     \* stop channels
    None       \* no channel

VARIABLES
    made,      \* types somebody has asked for
    started,   \* started[y]: the channel the informer of y was started with, or None
    ended,     \* types whose informer has come to its end
    synced,    \* types whose informer has synced
    closed,    \* stop channels that are closed
    down,      \* a Shutdown has taken effect
    calls      \* calls[t]: the call of t and whether it has taken effect

informers == <<made, started, ended, synced, closed, down>>
vars == <<informers, calls>>

Init ==
    /\ made = {} /\ started = [y \in Types |-> None] /\ ended = {}
    /\ synced = {} /\ closed = {} /\ down = FALSE
    /\ calls = [t \in Threads |-> [pc |-> "idle", op |-> "Start", type |-> None, stop |-> None,
                                   todo |-> {}]]

Running == {y \in Types : started[y] # None}

Call(t, op, y, c) ==
    /\ calls[t].pc = "idle"
    /\ calls' = [calls EXCEPT ![t] = [pc |-> "called", op |-> op, type |-> y, stop |-> c,
                                      todo |-> {}]]
    /\ UNCHANGED informers

Called(t, op) == calls[t].op = op /\ calls[t].pc = "called"

Served(t, op) == calls[t].op = op /\ calls[t].pc = "served"

Goto(t, pc) == calls' = [calls EXCEPT ![t].pc = pc]

InformerFor(t) ==
    /\ Called(t, "InformerFor")
    /\ made' = made \cup {calls[t].type}
    /\ Goto(t, "idle")
    /\ UNCHANGED <<started, ended, synced, closed, down>>

\* All informers that were made and not started yet are started together.
Start(t) ==
    /\ Called(t, "Start") /\ ~ down
    /\ started' = [y \in Types |-> IF y \in made \ Running THEN calls[t].stop ELSE started[y]]
    /\ Goto(t, "served")
    /\ UNCHANGED <<made, ended, synced, closed, down>>

StartRefused(t) ==
    /\ Called(t, "Start") /\ down
    /\ Goto(t, "idle")
    /\ UNCHANGED informers

Shutdown(t) ==
    /\ Called(t, "Shutdown")
    /\ down' = TRUE
    /\ Goto(t, "served")
    /\ UNCHANGED <<made, started, ended, synced, closed>>

\* The informers to wait for are those started at this moment.
WaitForCacheSync(t) ==
    /\ Called(t, "WaitForCacheSync")
    /\ calls' = [calls EXCEPT ![t].pc = "served", ![t].todo = Running]
    /\ UNCHANGED informers

SyncOne(t, y) ==
    /\ Served(t, "WaitForCacheSync")
    /\ y \in synced \/ calls[t].stop \in closed
    /\ calls' = [calls EXCEPT ![t].todo = @ \ {y}]
    /\ UNCHANGED informers

Return(t) ==
    /\ \/ Served(t, "Start")
       \/ Served(t, "Shutdown") /\ Running \subseteq ended
       \/ Served(t, "WaitForCacheSync") /\ calls[t].todo = {}
    /\ Goto(t, "idle")
    /\ UNCHANGED informers

Close(c) ==
    /\ closed' = closed \cup {c}
    /\ UNCHANGED <<made, started, ended, synced, down, calls>>

Sync(y) ==
    /\ y \in Running \ ended
    /\ synced' = synced \cup {y}
    /\ UNCHANGED <<made, started, ended, closed, down, calls>>

\* An informer ends once its own channel is closed, and not before.
End(y) ==
    /\ y \in Running \ ended
    /\ started[y] \in closed
    /\ ended' = ended \cup {y}
    /\ UNCHANGED <<made, started, synced, closed, down, calls>>

Next ==
    \/ \E t \in Threads :
         \/ \E y \in Types : Call(t, "InformerFor", y, None) \/ SyncOne(t, y)
         \/ \E c \in Stops, op \in {"Start", "WaitForCacheSync"} : Call(t, op, None, c)
         \/ Call(t, "Shutdown", None, None)
         \/ InformerFor(t) \/ Start(t) \/ StartRefused(t) \/ Shutdown(t)
         \/ WaitForCacheSync(t) \/ Return(t)
    \/ \E c \in Stops : Close(c)
    \/ \E y \in Types : Sync(y) \/ End(y)

Spec == Init /\ [][Next]_vars
==============================================================================
