------------------------ MODULE SharedInformerFactory ------------------------
(***************************************************************************)
(* The informer factory that client-gen wrote for this repository          *)
(* (informers/externalversions/factory.go, twice: for greeter and for      *)
(* sample-controller).  Any number of goroutines call its methods; the     *)
(* mutex is taken and released in steps of their own, and so is every turn *)
(* of Start's loop.  The informer that a goroutine runs is client-go's.    *)
(***************************************************************************)
EXTENDS Integers, Sequences, FiniteSets

CONSTANTS
    Threads,   \* goroutines that call the factory
    Types,     \* informer types, the keys of f.informers
    Stops,     \* stop channels
    None       \* nobody holds the lock

ASSUME NoneAssumption == None \notin Threads /\ None \notin Types /\ None \notin Stops

VARIABLES
    lock,              \* f.lock: who holds it
    informers,         \* f.informers: number of the informer made for a type, 0 if none
    created,           \* informers made so far
    startedInformers,  \* f.startedInformers
    wg,                \* f.wg: the counter of the wait group
    shuttingDown,      \* f.shuttingDown
    goroutines,        \* the goroutines Start launched, in order
    synced,            \* types whose informer has synced
    closed,            \* stop channels that are closed
    threads,           \* call and position of every caller
    handed,            \* history: informers InformerFor returned for a type
    over               \* history: a call of Shutdown has returned

factory == <<informers, created, startedInformers, shuttingDown>>
vars == <<lock, factory, wg, goroutines, synced, closed, threads, handed, over>>

Ops == {"InformerFor", "Start", "Shutdown", "WaitForCacheSync"}

\* lock: wants the lock.  body: has it.  loop: in the loop of Start.
\* wait: in wg.Wait.  sync: in the loop of WaitForCacheSync, lock released.
PCs == {"idle", "lock", "body", "loop", "wait", "sync"}

Thread ==
    [pc : PCs, op : Ops, type : Types \cup {None}, stop : Stops \cup {None},
     todo : SUBSET Types]

\* go: launched.  run: in informer.Run.  exit: Run has returned.  done: so has wg.Done.
Goroutine == [type : Types, stop : Stops, pc : {"go", "run", "exit", "done"}]

\* todo: informers that WaitForCacheSync still has to ask
Idle == [pc |-> "idle", op |-> "Start", type |-> None, stop |-> None,
         todo |-> {}]

Init ==
    /\ lock = None
    /\ informers = [y \in Types |-> 0] /\ created = 0
    /\ startedInformers = {} /\ shuttingDown = FALSE
    /\ wg = 0 /\ goroutines = <<>>
    /\ synced = {} /\ closed = {}
    /\ threads = [t \in Threads |-> Idle]
    /\ handed = [y \in Types |-> {}] /\ over = FALSE

At(t, op, pc) == threads[t].op = op /\ threads[t].pc = pc

Goto(t, pc) == threads' = [threads EXCEPT ![t].pc = pc]

Unlock == lock' = None

------------------------------------------------------------------------------
(* Callers. *)

Call(t, op, y, c) ==
    /\ threads[t].pc = "idle"
    /\ threads' = [threads EXCEPT ![t] =
                     [Idle EXCEPT !.pc = "lock", !.op = op, !.type = y, !.stop = c]]
    /\ UNCHANGED <<lock, factory, wg, goroutines, synced, closed, handed, over>>

CallSomething(t) ==
    \/ \E y \in Types : Call(t, "InformerFor", y, None)
    \/ \E c \in Stops, op \in {"Start", "WaitForCacheSync"} : Call(t, op, None, c)
    \/ Call(t, "Shutdown", None, None)

Lock(t) ==
    /\ threads[t].pc = "lock"
    /\ lock = None
    /\ lock' = t
    /\ Goto(t, "body")
    /\ UNCHANGED <<factory, wg, goroutines, synced, closed, handed, over>>

\* Mutant: the test whether the informer exists is missing.
NewInformer(y) ==
    /\ created' = created + 1
    /\ informers' = [informers EXCEPT ![y] = created + 1]

\* The informer of the type that exists, or a new one.
ExistingInformer(y) ==
    \/ informers[y] # 0 /\ UNCHANGED <<informers, created>>
    \/ informers[y] = 0 /\ NewInformer(y)

InformerFor(t) ==
    LET y == threads[t].type
    IN  /\ At(t, "InformerFor", "body")
        /\ ExistingInformer(y)
        /\ handed' = [handed EXCEPT ![y] = @ \cup {informers'[y]}]
        /\ Unlock
        /\ Goto(t, "idle")
        /\ UNCHANGED <<startedInformers, shuttingDown, wg, goroutines, synced, closed, over>>

Always == TRUE  \* Mutant: Start does not look at shuttingDown.

MayStart == ~ shuttingDown

\* Mutant: the early return leaves the factory locked.
StartLeaks(t) ==
    /\ At(t, "Start", "body")
    /\ \/ MayStart /\ Goto(t, "loop") /\ UNCHANGED lock
       \/ ~ MayStart /\ Goto(t, "idle") /\ UNCHANGED lock
    /\ UNCHANGED <<factory, wg, goroutines, synced, closed, handed, over>>

\* Mutant: the lock is given back before the loop.
StartUnlocked(t) ==
    /\ At(t, "Start", "body")
    /\ IF MayStart THEN Goto(t, "loop") ELSE Goto(t, "idle")
    /\ Unlock
    /\ UNCHANGED <<factory, wg, goroutines, synced, closed, handed, over>>

Start(t) ==
    /\ At(t, "Start", "body")
    /\ \/ MayStart /\ Goto(t, "loop") /\ UNCHANGED lock
       \/ ~ MayStart /\ Unlock /\ Goto(t, "idle")
    /\ UNCHANGED <<factory, wg, goroutines, synced, closed, handed, over>>

Made == {y \in Types : informers[y] # 0}

\* Informers the loop of Start has to launch.
Unstarted == {y \in Types : informers[y] # 0 /\ y \notin startedInformers}

\* Mutant: wg.Add is called by the goroutine itself.
LaunchUncounted(y, c) ==
    /\ goroutines' = Append(goroutines, [type |-> y, stop |-> c, pc |-> "go"])
    /\ UNCHANGED wg

Launch(y, c) ==
    /\ wg' = wg + 1
    /\ goroutines' = Append(goroutines, [type |-> y, stop |-> c, pc |-> "go"])

StartLoop(t) ==
    /\ At(t, "Start", "loop")
    /\ \/ \E y \in Unstarted :
            /\ Launch(y, threads[t].stop)
            /\ startedInformers' = startedInformers \cup {y}
            /\ UNCHANGED <<lock, threads>>
       \/ /\ Unstarted = {}
          /\ Unlock
          /\ Goto(t, "idle")
          /\ UNCHANGED <<wg, goroutines, startedInformers>>
    /\ UNCHANGED <<informers, created, shuttingDown, synced, closed, handed, over>>

\* Mutant: Shutdown gives the lock back only when it is over.
ShutdownLocked(t) ==
    /\ At(t, "Shutdown", "body")
    /\ shuttingDown' = TRUE
    /\ Goto(t, "wait")
    /\ UNCHANGED <<lock, informers, created, startedInformers, wg, goroutines, synced,
                   closed, handed, over>>

Shutdown(t) ==
    /\ At(t, "Shutdown", "body")
    /\ shuttingDown' = TRUE
    /\ Unlock
    /\ Goto(t, "wait")
    /\ UNCHANGED <<informers, created, startedInformers, wg, goroutines, synced,
                   closed, handed, over>>

ShutdownReturns(t) ==
    /\ At(t, "Shutdown", "wait")
    /\ wg = 0
    /\ over' = TRUE
    /\ Goto(t, "idle")
    /\ UNCHANGED <<lock, factory, wg, goroutines, synced, closed, handed>>

\* The informers to wait for are those started when the lock is held.
WaitForCacheSync(t) ==
    /\ At(t, "WaitForCacheSync", "body")
    /\ threads' = [threads EXCEPT ![t].pc = "sync", ![t].todo = startedInformers]
    /\ Unlock
    /\ UNCHANGED <<factory, wg, goroutines, synced, closed, handed, over>>

\* cache.WaitForCacheSync of one informer: it polls HasSynced before the channel.
SyncOne(t) ==
    /\ At(t, "WaitForCacheSync", "sync")
    /\ \E y \in threads[t].todo :
         /\ y \in synced \/ threads[t].stop \in closed
         /\ threads' = [threads EXCEPT ![t].todo = @ \ {y}]
    /\ UNCHANGED <<lock, factory, wg, goroutines, synced, closed, handed, over>>

SyncReturns(t) ==
    /\ At(t, "WaitForCacheSync", "sync")
    /\ threads[t].todo = {}
    /\ Goto(t, "idle")
    /\ UNCHANGED <<lock, factory, wg, goroutines, synced, closed, handed, over>>

Close(c) ==
    /\ closed' = closed \cup {c}
    /\ UNCHANGED <<lock, factory, wg, goroutines, synced, threads, handed, over>>

------------------------------------------------------------------------------
(* The goroutines. *)

\* informer.Run returns at once if the informer is being run already.
Run(i) ==
    /\ goroutines[i].pc = "go"
    /\ goroutines' = [goroutines EXCEPT ![i].pc =
         IF \E j \in DOMAIN goroutines \ {i} :
              goroutines[j].type = goroutines[i].type /\ goroutines[j].pc # "go"
         THEN "exit" ELSE "run"]
    /\ UNCHANGED <<lock, factory, wg, synced, closed, threads, handed, over>>

Sync(i) ==
    /\ goroutines[i].pc = "run"
    /\ synced' = synced \cup {goroutines[i].type}
    /\ UNCHANGED <<lock, factory, wg, goroutines, closed, threads, handed, over>>

Stop(i) ==
    /\ goroutines[i].pc = "run"
    /\ goroutines[i].stop \in closed
    /\ goroutines' = [goroutines EXCEPT ![i].pc = "exit"]
    /\ UNCHANGED <<lock, factory, wg, synced, closed, threads, handed, over>>

\* The deferred wg.Done
Done(i) ==
    /\ goroutines[i].pc = "exit"
    /\ wg' = wg - 1
    /\ goroutines' = [goroutines EXCEPT ![i].pc = "done"]
    /\ UNCHANGED <<lock, factory, synced, closed, threads, handed, over>>

------------------------------------------------------------------------------
Step(t) ==
    \/ InformerFor(t) \/ Start(t) \/ StartLoop(t) \/ Shutdown(t) \/ ShutdownReturns(t)
    \/ WaitForCacheSync(t) \/ SyncOne(t) \/ SyncReturns(t)

Goes(i) == Run(i) \/ Sync(i) \/ Stop(i) \/ Done(i)

Next ==
    \/ \E t \in Threads : CallSomething(t) \/ Lock(t) \/ Step(t)
    \/ \E c \in Stops : Close(c)
    \/ \E i \in DOMAIN goroutines : Goes(i)

\* Goroutines are scheduled and the mutex starves nobody.  Nobody has to call
\* anything, to close a channel, or to see a cache sync.
Fairness ==
    /\ \A t \in Threads : WF_vars(Step(t)) /\ SF_vars(Lock(t))
    /\ \A i \in 1..Cardinality(Types) :
         WF_vars(i \in DOMAIN goroutines /\ (Run(i) \/ Stop(i) \/ Done(i)))

Spec == Init /\ [][Next]_vars

FairSpec == Spec /\ Fairness

------------------------------------------------------------------------------
(* Properties. *)

\* Every field of the factory and every caller's call keeps its type.
TypeOK ==
    /\ lock \in Threads \cup {None}
    /\ informers \in [Types -> Nat]
    /\ created \in Nat
    /\ startedInformers \subseteq Types
    /\ wg \in Nat
    /\ shuttingDown \in BOOLEAN
    /\ goroutines \in Seq(Goroutine)
    /\ synced \subseteq Types
    /\ closed \subseteq Stops
    /\ threads \in [Threads -> Thread]
    /\ handed \in [Types -> SUBSET Nat]
    /\ over \in BOOLEAN

\* "This allows Start() to be called multiple times safely": however many calls
\* of Start and InformerFor overlap, no informer is run twice, and all callers
\* of InformerFor share the informer that runs.
SharedOnce ==
    /\ \A y \in Types : Cardinality(handed[y]) <= 1
    /\ \A i, j \in DOMAIN goroutines : goroutines[i].type = goroutines[j].type => i = j

\* "Shutdown blocks until all goroutines have terminated", and "no new informers
\* can be started anymore": once a Shutdown has returned there is never again a
\* goroutine of the factory, not even one that a Start already under way launches.
NothingAfterShutdown ==
    over => \A i \in DOMAIN goroutines : goroutines[i].pc = "done"

\* The rule of sync.WaitGroup: Add does not start from zero while somebody is in
\* Wait.  Nobody is in the loop of Start while a Shutdown waits.
NoAddDuringWait ==
    \A s, t \in Threads : ~ (At(s, "Start", "loop") /\ At(t, "Shutdown", "wait"))

\* Once the channels that the informers were started with are closed, every
\* call of Shutdown returns, also when several overlap.
ShutdownTerminates ==
    \A t \in Threads :
      /\ At(t, "Shutdown", "lock") \/ At(t, "Shutdown", "wait")
      /\ \A c \in Stops : c \in closed
      ~> threads[t].pc = "idle"

\* The lock is never held across a wait: while a Shutdown hangs because nobody
\* closes a channel, every other call still returns (WaitForCacheSync once its
\* own channel is closed).
CallsReturn ==
    \A t \in Threads :
      /\ threads[t].op # "Shutdown"
      /\ threads[t].op = "WaitForCacheSync" => threads[t].stop \in closed
      ~> threads[t].pc = "idle"

\* The refinement mapping.  A Start takes effect when it enters its loop: what the
\* loop has still to launch, with the lock held, counts as started.
Looping == {t \in Threads : At(t, "Start", "loop")}

StartedWith(y) ==
    LET launched == {i \in DOMAIN goroutines : goroutines[i].type = y}
    IN  IF launched # {} THEN goroutines[CHOOSE i \in launched : TRUE].stop
        ELSE IF y \in Made /\ Looping # {} THEN threads[CHOOSE t \in Looping : TRUE].stop
        ELSE None

Effective(pc) ==
    IF pc = "idle" THEN "idle" ELSE IF pc \in {"lock", "body"} THEN "called" ELSE "served"

Atomic == INSTANCE AtomicInformers WITH
    made <- Made,
    started <- [y \in Types |-> StartedWith(y)],
    ended <- {goroutines[i].type : i \in {j \in DOMAIN goroutines : goroutines[j].pc = "done"}},
    down <- shuttingDown,
    calls <- [t \in Threads |-> [threads[t] EXCEPT !.pc = Effective(@)]]

\* "This allows Start() to be called multiple times safely", and "Shutdown may be called
\* multiple times, even concurrently": calls that overlap in any way do what they would
\* do one after the other, each at one moment.  No Shutdown or WaitForCacheSync sees half
\* of a Start, and an informer ends only when the channel of its own Start is closed.
ActsAtomically == Atomic!Spec
==============================================================================
