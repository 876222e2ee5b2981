--------------------------- MODULE ResourceClients ---------------------------
(***************************************************************************)
(* Programs that read and write the resources of one kind through the      *)
(* generated code: typed or fake clients, apply configurations, an         *)
(* informer with its lister, and deep copies of what the lister returns.   *)
(* Behind them is an API server or the object tracker of the fake          *)
(* clientset.  A call and its answer are one step; an answer may be lost.  *)
(***************************************************************************)
EXTENDS TypedClients, Clientsets, ApplyConfigurations, ApiTypes, Sequences, FiniteSets

CONSTANTS
    Names,      \* names of objects
    Callers,    \* programs or goroutines with a client
    Applied,    \* labels that the callers set with Apply
    Edited,     \* a label that the callers set by Update and Patch
    None,       \* no object
    Setups      \* the systems to look at

Labels == Applied \cup {Edited}

\* What the CustomResourceDefinition of a kind says: its scope, whether it has the
\* status subresource, and whether it admits objects of the Go type: their kind is
\* the one it defines, and they have the fields that it requires.  Without the
\* subresource no method writes the status, so that it does not matter whether the
\* schema has the fields of the status or prunes them.
Definition == [scoped : BOOLEAN, status : BOOLEAN, admits : BOOLEAN]

\* clients: the resource interface of every caller; versions of a kind share their
\* objects.  methods: the methods in use.  selector: what tweakListOptions asks for.
\* maxWrites: bound on the writes of a behaviour.
Setup ==
    [backend : {"server", "tracker"}, crd : Definition, clients : [Callers -> Resources],
     informer : Resources, selector : SUBSET Labels, config : Configs,
     methods : SUBSET (DOMAIN Writes(TRUE) \cup {"Discover", "ForKind"}), maxWrites : Nat]

ASSUME Assumption ==
    /\ Edited \notin Applied
    /\ None \notin [rv : Nat, labels : SUBSET Labels, spec : Nat, status : Nat]
    /\ Setups \subseteq Setup
    /\ \A s \in Setups : s.config.limiter => s.config.burst > 0
    /\ \A s \in Setups : s.backend = "tracker" =>
         /\ s.informer # "cronjobs"
         /\ \A c \in Callers : s.clients[c] # "cronjobs"
    \* The client of CronJobs comes without builders for Apply.
    /\ \A s \in Setups : (\E c \in Callers : s.clients[c] = "cronjobs") =>
         s.methods \cap {"Apply", "ApplyStatus", "ForKind"} = {}

VARIABLES
    setup,        \* never changes
    log,          \* states of the store, from the one the informer has seen to the last
    version,      \* the last resourceVersion given
    held,         \* the object every caller has in hand
    panicked,     \* callers that have panicked and make no more calls
    cache,        \* the informer's indexer
    informer,     \* where the informer is: list, watch or on
    used,         \* tokens taken from every rate limiter and not yet refilled
    overwritten,  \* history: the tracker has taken an update of an old copy
    promised      \* history: what the calls that were accepted until then were meant
                  \* to make of the store

vars == <<setup, log, version, held, panicked, cache, informer, used, overwritten, promised>>

Store == log[Len(log)]

\* spec and status are counters: one more for every change a caller makes.
Object == [rv : Nat, labels : SUBSET Labels, spec : Nat, status : Nat]

Blank == [rv |-> 0, labels |-> {}, spec |-> 0, status |-> 0]

\* An object in a caller's hand, and whether it is a deep copy of a cached one
Holding == [name : Names, obj : Object, cached : BOOLEAN]

\* expired: the server has refused to go on from where the informer was.
Informer == [pc : {"list", "watch", "on"}, expired : BOOLEAN]

Nothing == [n \in Names |-> None]

Init ==
    /\ setup \in {s \in Setups : ~ Refused(s.config)}
    /\ log = <<Nothing>> /\ version = 0
    /\ held = [c \in Callers |-> None] /\ panicked = {}
    /\ cache = Nothing
    /\ informer = [pc |-> "list", expired |-> FALSE]
    /\ used = [b \in Buckets |-> 0]
    /\ promised = Nothing /\ overwritten = FALSE

------------------------------------------------------------------------------
(* Requests. *)

\* The request of a method of a caller's client
Request(c, method) ==
    IF setup.backend = "server" THEN TypedWrites[setup.clients[c]][method]
    ELSE FakedWrites[setup.clients[c]][method]

\* Every request takes a token of its group's limiter, if there is one.
Throttle(group) ==
    IF Limiters(setup.config, group) = {} THEN UNCHANGED used
    ELSE \E b \in Limiters(setup.config, group) :
           used[b] < setup.config.burst /\ used' = [used EXCEPT ![b] = @ + 1]

Refill(b) ==
    /\ used[b] > 0 /\ used' = [used EXCEPT ![b] = @ - 1]
    /\ UNCHANGED <<setup, log, version, held, panicked, cache, informer, promised, overwritten>>

\* JSON into a Go type: what the type does not carry is dropped.
Into(r, obj) ==
    [obj EXCEPT !.labels = IF "labels" \in Types[r].carries THEN @ ELSE {},
                !.spec = IF "spec" \in Types[r].carries THEN @ ELSE 0,
                !.status = IF "status" \in Types[r].carries THEN @ ELSE 0]

\* The optimistic lock of the API server
Current(obj, n) == obj.rv = Store[n].rv

\* The API server has a handler for the request, and it succeeds.  An apply patch of
\* a missing object creates it, one of its status does not.
Served(call, n, body) ==
    /\ call.scoped = setup.crd.scoped
    /\ call.sub = "status" => setup.crd.status
    /\ setup.crd.admits
    /\ CASE call.verb = "POST" -> Store[n] = None
         [] call.verb = "PUT" -> call.named /\ Store[n] # None /\ Current(body, n)
         [] call.verb = "DELETE" -> call.named => Store[n] # None
         [] call.verb = "APPLY" -> call.named /\ (call.sub = "status" => Store[n] # None)
         [] OTHER -> call.named /\ Store[n] # None

\* The tracker has a reaction to the action, and it succeeds.
Tracked(call, n) ==
    CASE call.verb = "create" -> Store[n] = None
      [] call.verb \in {"update", "delete", "patch"} -> Store[n] # None
      [] OTHER -> FALSE

Accepts(call, n, body) ==
    IF setup.backend = "server" THEN Served(call, n, body) ELSE Tracked(call, n)

\* PUT leaves the status to its subresource, and the subresource all else, if there is one.
Put(call, old, body) ==
    IF call.sub = "status" THEN [old EXCEPT !.status = body.status]
    ELSE IF setup.crd.status THEN [body EXCEPT !.status = old.status] ELSE body

Post(body) == IF setup.crd.status THEN [body EXCEPT !.status = 0] ELSE body

\* Callers apply labels and a spec, with Force and as one field manager: Apply removes
\* the labels that they own and do not apply again.
ApplyPatch(call, old, body) ==
    CASE call.sub = "status" -> [old EXCEPT !.status = body.status]
      [] call.sub # "status" /\ old = None -> Post(body)
      [] OTHER -> [old EXCEPT !.labels = (@ \ Applied) \cup body.labels, !.spec = body.spec]

\* What the request makes of an object
Outcome(call, old, body) ==
    CASE call.verb = "POST" -> Post(body)
      [] call.verb = "PUT" -> Put(call, old, body)
      [] call.verb \in {"create", "update"} -> body
      [] call.verb \in {"MERGE", "patch"} -> [old EXCEPT !.labels = @ \cup body.labels]
      [] call.verb = "APPLY" -> ApplyPatch(call, old, body)

\* DELETE without a name deletes the collection, here in one step.
Deletes(call) == call.verb \in {"DELETE", "delete"}

Targets(call, n) == IF call.named THEN {n} ELSE Names

Differ(a, b) == a = None \/ b = None \/ [a EXCEPT !.rv = 0] # [b EXCEPT !.rv = 0]

\* A write that changes nothing gets no resourceVersion and no event.
Commit(store) ==
    IF \E n \in Names : store[n] # Store[n] /\ Differ(store[n], Store[n])
    THEN log' = Append(log, store) /\ version' = version + 1
    ELSE UNCHANGED <<log, version>>

Written(call, n, body) ==
    IF Deletes(call) THEN [m \in Names |-> IF m \in Targets(call, n) THEN None ELSE Store[m]]
    ELSE [Store EXCEPT ![n] = [Outcome(call, Store[n], body) EXCEPT !.rv = version + 1]]

\* The answer reaches the caller, or is lost on the way.
Answer(c, n) ==
    \E lost \in BOOLEAN :
      held' = [held EXCEPT ![c] =
                 IF lost \/ Store'[n] = None THEN None
                 ELSE [name |-> n, obj |-> Into(setup.clients[c], Store'[n]), cached |-> FALSE]]

\* One call of a method that writes.  meant: what it is for, should it be accepted.
\* A caller whose call has failed reads again before it goes on.
Send(c, method, n, body, meant) ==
    LET call == Request(c, method)
    IN  /\ c \notin panicked /\ method \in setup.methods
        /\ version < setup.maxWrites
        /\ Throttle(GroupOf(setup.clients[c]))
        /\ \/ /\ Accepts(call, n, body)
              /\ Commit(Written(call, n, body))
              /\ overwritten' = (overwritten \/ (call.verb = "update" /\ ~ Current(body, n)))
              /\ promised' = IF overwritten' THEN promised ELSE meant
              /\ Answer(c, n)
           \/ /\ ~ Accepts(call, n, body)
              /\ held' = [held EXCEPT ![c] = None]
              /\ UNCHANGED <<log, version, promised, overwritten>>
        /\ UNCHANGED <<setup, panicked, informer>>

------------------------------------------------------------------------------
(* Callers. *)

Get(c, n) ==
    /\ c \notin panicked
    /\ LET call == IF setup.backend = "server" THEN TypedReads[setup.clients[c]].Get
                   ELSE FakedReads[setup.clients[c]].Get
       IN  call.named /\ call.scoped = setup.crd.scoped
    /\ Throttle(GroupOf(setup.clients[c]))
    /\ held' = [held EXCEPT ![c] =
         IF Store[n] = None THEN None
         ELSE [name |-> n, obj |-> Into(setup.clients[c], Store[n]), cached |-> FALSE]]
    /\ UNCHANGED <<setup, log, version, panicked, cache, informer, promised, overwritten>>

\* Mutant: what the indexer says of the object's existence is ignored.
ReadAnyway(c, n) ==
    /\ c \notin panicked
    /\ setup.clients[c] = setup.informer
    /\ held' = [held EXCEPT ![c] = [name |-> n, obj |-> cache[n], cached |-> TRUE]]
    /\ UNCHANGED <<setup, log, version, panicked, cache, informer, used, promised, overwritten>>

\* The lister of the informer, and a deep copy of what it returns
ReadCache(c, n) ==
    /\ c \notin panicked
    /\ setup.clients[c] = setup.informer
    /\ cache[n] # None
    /\ held' = [held EXCEPT ![c] = [name |-> n, obj |-> cache[n], cached |-> TRUE]]
    /\ UNCHANGED <<setup, log, version, panicked, cache, informer, used, promised, overwritten>>

\* The caller changes its object in place.  What the copy shares with the cached
\* object, if the cache still has it, changes there too.
Modify(c, obj) ==
    LET n == held[c].name
        shared == Shared(setup.clients[c])
    IN  cache' =
          IF held[c].cached /\ cache[n] # None /\ cache[n].rv = held[c].obj.rv
          THEN [cache EXCEPT ![n].labels = IF "labels" \in shared THEN obj.labels ELSE @,
                             ![n].spec = IF "spec" \in shared THEN obj.spec ELSE @,
                             ![n].status = IF "status" \in shared THEN obj.status ELSE @]
          ELSE cache

UpdateSpec(c) ==
    /\ held[c] # None
    /\ LET n == held[c].name
           obj == [held[c].obj EXCEPT !.spec = @ + 1]
       IN  /\ Modify(c, obj)
           /\ Send(c, "Update", n, obj, [promised EXCEPT ![n].spec = @ + 1])

Toggled(labels) == IF Edited \in labels THEN labels \ {Edited} ELSE labels \cup {Edited}

UpdateLabels(c) ==
    /\ held[c] # None
    /\ LET n == held[c].name
           obj == [held[c].obj EXCEPT !.labels = Toggled(@)]
       IN  /\ Modify(c, obj)
           /\ Send(c, "Update", n, obj, [promised EXCEPT ![n].labels = Toggled(@)])

UpdateStatus(c) ==
    /\ held[c] # None
    /\ LET n == held[c].name
           obj == [held[c].obj EXCEPT !.status = @ + 1]
       IN  /\ Modify(c, obj)
           /\ Send(c, "UpdateStatus", n, obj, [promised EXCEPT ![n].status = @ + 1])

Create(c, n) ==
    /\ Send(c, "Create", n, Blank, [promised EXCEPT ![n] = Blank])
    /\ UNCHANGED cache

Delete(c, n) ==
    /\ Send(c, "Delete", n, Blank, [promised EXCEPT ![n] = None])
    /\ UNCHANGED cache

DeleteCollection(c, n) ==
    /\ Send(c, "DeleteCollection", n, Blank, Nothing)
    /\ UNCHANGED cache

Patch(c, n) ==
    /\ Send(c, "Patch", n, [Blank EXCEPT !.labels = {Edited}],
            [promised EXCEPT ![n].labels = @ \cup {Edited}])
    /\ UNCHANGED cache

\* Apply and ApplyStatus of the configuration that p points to: an error before
\* anything is sent, a panic, or a request.  json.Marshal has no error for these types.
SendConfig(c, method, p, body, meant) ==
    \/ /\ p = {} \/ \E b \in p : Unnamed(b)
       /\ c \notin panicked
       /\ held' = [held EXCEPT ![c] = None]
       /\ UNCHANGED <<setup, log, version, panicked, cache, informer, used, promised,
                      overwritten>>
    \/ /\ \E b \in p : Panics(b)
       /\ c \notin panicked
       /\ panicked' = panicked \cup {c}
       /\ UNCHANGED <<setup, log, version, held, cache, informer, used, promised, overwritten>>
    \/ \E b \in p :
         /\ ~ Panics(b) /\ b.kind = {setup.clients[c]}
         /\ \E n \in b.name : Send(c, method, n, body, meant)
         /\ UNCHANGED cache

\* The caller starts the spec anew.
Apply(c, n, l1, l2) ==
    LET b == WithSpec(WithLabels(WithLabels(Constructor(setup.clients[c], n), {l1}), {l2}), 0)
    IN  /\ "Apply" \in setup.methods
        /\ SendConfig(c, "Apply", {b}, [Blank EXCEPT !.labels = b.labels],
             [promised EXCEPT ![n] =
                IF promised[n] = None THEN [Blank EXCEPT !.labels = {l1, l2}]
                ELSE [promised[n] EXCEPT !.labels = (promised[n].labels \ Applied) \cup {l1, l2},
                                         !.spec = 0]])

\* The caller starts the status anew.
ApplyStatus(c, n) ==
    LET b == WithStatus(Constructor(setup.clients[c], n), 0)
    IN  /\ "ApplyStatus" \in setup.methods
        /\ SendConfig(c, "ApplyStatus", {b}, Blank, [promised EXCEPT ![n].status = 0])

\* The same with what ForKind returns for some type of the resource, a list for one,
\* and one or the other field set.  Asserting that it is the configuration of an
\* object gives nil if it is not.
ApplyForKind(c) ==
    /\ "ForKind" \in setup.methods
    /\ \E type \in ConfiguredTypes \cup {"list"} :
         LET p == {b \in ForKind(setup.clients[c], type) : b.type = "object"}
         IN  \/ SendConfig(c, "ApplyStatus", {WithStatus(b, 0) : b \in p}, Blank, promised)
             \/ SendConfig(c, "ApplyStatus", {WithLabels(b, Applied) : b \in p}, Blank, promised)

Discover(c) ==
    /\ c \notin panicked /\ "Discover" \in setup.methods
    /\ Throttle("discovery")
    /\ UNCHANGED <<setup, log, version, held, panicked, cache, informer, promised, overwritten>>

------------------------------------------------------------------------------
(* The informer.  Its reflector calls ListFunc and WatchFunc. *)

\* What the list and watch of a generated informer go through, and the type they fill
GreeterInformer == [client |-> "greeters", type |-> "greeters"]
ClusterResourceInformer1 == [client |-> "cluster1", type |-> "cluster1"]
ClusterResourceInformer2 == [client |-> "cluster2", type |-> "cluster2"]
NamespacedResourceInformer1 == [client |-> "namespaced1", type |-> "namespaced1"]
NamespacedResourceInformer2 == [client |-> "namespaced2", type |-> "namespaced2"]
CronJobInformer == [client |-> "cronjobs", type |-> "cronjobs"]

Informers ==
    [greeters |-> GreeterInformer,
     cluster1 |-> ClusterResourceInformer1, namespaced1 |-> NamespacedResourceInformer1,
     cluster2 |-> ClusterResourceInformer2, namespaced2 |-> NamespacedResourceInformer2,
     cronjobs |-> CronJobInformer]

Client == Informers[setup.informer].client

\* Options: from where (any: whatever the watch cache has, latest: the newest state,
\* seen: the state of the list, unset: no resourceVersion) and which objects.
Tweaked(options) == [options EXCEPT !.selector = setup.selector]

ListFunc(options) == Tweaked(options)

\* Mutant: fresh options instead of those of the reflector.
Fresh(options) == [from |-> "unset", selector |-> setup.selector]

\* Mutant: tweakListOptions is not called.
Untweaked(options) == options

WatchFunc(options) == Tweaked(options)

\* The objects of a state that a selector asks for
Filter(selector, store) ==
    [n \in Names |-> IF store[n] # None /\ selector \subseteq store[n].labels
                     THEN Into(Informers[setup.informer].type, store[n]) ELSE None]

Listing == ListFunc([from |-> IF informer.expired THEN "latest" ELSE "any", selector |-> {}])

Watching == WatchFunc([from |-> "seen", selector |-> {}])

Fetch(call) ==
    /\ call.scoped = setup.crd.scoped
    /\ Throttle(GroupOf(Client))
    /\ UNCHANGED <<setup, version, held, panicked, promised, overwritten>>

List ==
    /\ informer.pc = "list"
    /\ Fetch(IF setup.backend = "server" THEN TypedReads[Client].List ELSE FakedReads[Client].List)
    /\ \E i \in DOMAIN log :
         /\ i < Len(log) => setup.backend = "server" /\ Listing.from = "any"
         /\ cache' = Filter(Listing.selector, log[i])
         /\ log' = SubSeq(log, i, Len(log))
    /\ informer' = [pc |-> "watch", expired |-> FALSE]

\* A watch that starts from nowhere sends the objects that there are, then the changes.
WatchFromNow(existing) ==
    /\ log' = <<Store>>
    /\ cache' = [n \in Names |-> IF existing[n] = None THEN cache[n] ELSE existing[n]]
    /\ informer' = [informer EXCEPT !.pc = "on"]

Watch ==
    /\ informer.pc = "watch"
    /\ Fetch(IF setup.backend = "server" THEN TypedReads[Client].Watch ELSE FakedReads[Client].Watch)
    /\ \/ /\ setup.backend = "server" /\ Watching.from = "seen"
          /\ informer' = [informer EXCEPT !.pc = "on"]
          /\ UNCHANGED <<log, cache>>
       \/ /\ setup.backend = "server" /\ Watching.from = "seen" /\ Len(log) > 1
          /\ informer' = [pc |-> "list", expired |-> TRUE]
          /\ UNCHANGED <<log, cache>>
       \/ /\ setup.backend = "tracker" \/ Watching.from # "seen"
          /\ WatchFromNow(IF setup.backend = "tracker" THEN Nothing
                          ELSE Filter(Watching.selector, Store))

\* The next event of the watch.  That of the tracker ignores selectors.
Event ==
    LET selector == IF setup.backend = "server" THEN Watching.selector ELSE {}
        old == Filter(selector, log[1])
        new == Filter(selector, log[2])
    IN  /\ informer.pc = "on" /\ Len(log) > 1
        /\ cache' = [n \in Names |-> IF old[n] = new[n] THEN cache[n] ELSE new[n]]
        /\ log' = Tail(log)
        /\ UNCHANGED <<setup, version, held, panicked, informer, used, promised, overwritten>>

\* The server ends a watch after a while.
Close ==
    /\ informer.pc = "on" /\ setup.backend = "server"
    /\ informer' = [informer EXCEPT !.pc = "watch"]
    /\ UNCHANGED <<setup, log, version, held, panicked, cache, used, promised, overwritten>>

------------------------------------------------------------------------------
Writing(c) ==
    \/ UpdateSpec(c) \/ UpdateLabels(c) \/ UpdateStatus(c) \/ ApplyForKind(c)
    \/ \E n \in Names : Create(c, n) \/ Delete(c, n) \/ DeleteCollection(c, n) \/ Patch(c, n)
    \/ \E n \in Names : ApplyStatus(c, n)
    \/ \E n \in Names, l1, l2 \in Applied : Apply(c, n, l1, l2)

Next ==
    \/ \E c \in Callers : Writing(c) \/ Discover(c)
    \/ \E c \in Callers, n \in Names : Get(c, n) \/ ReadCache(c, n)
    \/ List \/ Watch \/ Event \/ Close
    \/ \E b \in Buckets : Refill(b)

\* Tokens come back.  A limiter reserves them in order, so that no request waits for
\* ever, and a watch is not always closed before its next event.
Fairness ==
    /\ \A b \in Buckets : WF_vars(Refill(b))
    /\ SF_vars(List) /\ SF_vars(Watch) /\ SF_vars(Event)

Spec == Init /\ [][Next]_vars

FairSpec == Spec /\ Fairness

------------------------------------------------------------------------------
(* Properties. *)

\* The store, callers and informer keep their types.
TypeOK ==
    /\ setup \in Setups
    /\ log \in Seq([Names -> Object \cup {None}]) /\ log # <<>>
    /\ version \in Nat
    /\ held \in [Callers -> Holding \cup {None}]
    /\ panicked \subseteq Callers
    /\ cache \in [Names -> Object \cup {None}]
    /\ informer \in Informer
    /\ used \in [Buckets -> Nat]
    /\ promised \in [Names -> Object \cup {None}]
    /\ overwritten \in BOOLEAN

\* Every method does to the store what its comment says and nothing else, whoever
\* writes meanwhile through another version of the API: no change that was
\* accepted is undone by a caller that had not seen it.  With fake clients this
\* holds only as long as nobody updates from an old copy.
NothingLost ==
    setup.backend = "server" \/ ~ overwritten =>
      \A n \in Names :
        promised[n] = IF Store[n] = None THEN None ELSE [Store[n] EXCEPT !.rv = 0]

\* "Objects returned here must be treated as read-only": the informer's cache is one
\* state the store has been in, as the selector shows it, although callers
\* change their copies and watches end, expire and are listed again.
CachedState ==
    setup.backend = "server" => cache = Filter(setup.selector, log[1])

\* "If config's RateLimiter is not set and QPS and Burst are acceptable" one limiter
\* serves the whole clientset: all groups together never exceed the burst.
SharedBudget ==
    setup.config.qps > 0 =>
      used["shared"] + used["greeter"] + used["v1alpha1"] + used["v1alpha2"]
        + used["discovery"] + used["other"] <= setup.config.burst

\* Once nobody writes any more, the cache comes to show the store.
CacheConverges ==
    setup.backend = "server" => <>[](cache = Filter(setup.selector, Store))

\* "name must be provided to Apply": a configuration without one is an error.
ApplyAnswers == panicked = {}
==============================================================================
