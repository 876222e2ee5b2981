------------------------ MODULE ResourceClientsProofs ------------------------
(***************************************************************************)
(* What holds of ResourceClients for any objects, callers, labels and      *)
(* systems.                                                                *)
(***************************************************************************)
EXTENDS ResourceClients, SequenceTheorems, TLAPS

\* No object anywhere is newer than the last write, and one with the
\* resourceVersion of the stored object is that object.
Seen(o, stored, last) ==
    o # None => o.rv <= last /\ (stored # None /\ o.rv = stored.rv => o = stored)

SeenLog == \A i \in DOMAIN log, n \in Names : Seen(log[i][n], Store[n], version)

SeenCache == \A n \in Names : Seen(cache[n], Store[n], version)

SeenHands ==
    \A c \in Callers :
      held[c] # None => Seen(held[c].obj, Store[held[c].name], version)

\* Only the tracker takes updates of old copies.
Locked == setup.backend = "server" => ~ overwritten

\* With one limiter for all groups no other is in use.
Metered ==
    setup.config.qps > 0 =>
      /\ \A b \in Groups : used[b] = 0
      /\ used["shared"] <= setup.config.burst

IInv ==
    /\ TypeOK /\ SeenLog /\ SeenCache /\ SeenHands
    /\ Locked /\ NothingLost /\ CachedState /\ Metered

------------------------------------------------------------------------------
(* The tables of the generated code. *)

LEMMA SetupType ==
    ASSUME TypeOK
    PROVE  /\ setup \in Setup
           /\ setup.backend \in {"server", "tracker"}
           /\ setup.crd \in Definition
           /\ setup.informer \in Resources
           /\ \A c \in Callers : setup.clients[c] \in Resources
           /\ setup.backend = "tracker" =>
                \A c \in Callers : setup.clients[c] # "cronjobs"
  BY Assumption DEF TypeOK, Setup

LEMMA CarriesAll ==
    ASSUME NEW r \in Resources, NEW o \in Object
    PROVE  Into(r, o) = o
<1>1. Types[r].carries = {"labels", "spec", "status"}
  BY DEF Resources, Types, Parts, GreeterType, ClusterResourceV1alpha1,
         ClusterResourceV1alpha2, NamespacedResourceV1alpha1, NamespacedResourceV1alpha2,
         CronJobType
<1> QED
  BY <1>1 DEF Into, Object

LEMMA NothingShared ==
    ASSUME NEW r \in Resources
    PROVE  Shared(r) = {}
<1>1. Types[r].references \subseteq Copies[r]
  BY DEF Resources, Types, GreeterType, ClusterResourceV1alpha1,
         ClusterResourceV1alpha2, NamespacedResourceV1alpha1, NamespacedResourceV1alpha2,
         CronJobType, Copies, GreeterCopy, ClusterResourceV1alpha1Copy,
         ClusterResourceV1alpha2Copy, NamespacedResourceV1alpha1Copy,
         NamespacedResourceV1alpha2Copy, CronJobCopy, CronJobSpecReferences,
         CronJobStatusReferences, CronJobSpecCopy, CronJobStatusCopy
<1> QED
  BY <1>1 DEF Shared

LEMMA TypedTable ==
    ASSUME NEW r \in Resources
    PROVE  TypedWrites[r] \in {Writes(TRUE), Writes(FALSE)}
<1>1. /\ TypedWrites["greeters"] = Writes(TRUE) /\ TypedWrites["cronjobs"] = Writes(TRUE)
      /\ TypedWrites["cluster1"] = Writes(FALSE) /\ TypedWrites["cluster2"] = Writes(FALSE)
      /\ TypedWrites["namespaced1"] = Writes(TRUE) /\ TypedWrites["namespaced2"] = Writes(TRUE)
  BY DEF TypedWrites, GreetersWrites, ClusterResourcesV1alpha1Writes,
         ClusterResourcesV1alpha2Writes, NamespacedResourcesV1alpha1Writes,
         NamespacedResourcesV1alpha2Writes, CronJobsWrites
<1> QED
  BY <1>1 DEF Resources

LEMMA FakeTable ==
    ASSUME NEW r \in Resources, r # "cronjobs"
    PROVE  FakedWrites[r] \in {FakeWrites(TRUE), FakeWrites(FALSE)}
<1>1. /\ FakedWrites["greeters"] = FakeWrites(TRUE)
      /\ FakedWrites["cluster1"] = FakeWrites(FALSE)
      /\ FakedWrites["cluster2"] = FakeWrites(FALSE)
      /\ FakedWrites["namespaced1"] = FakeWrites(TRUE)
      /\ FakedWrites["namespaced2"] = FakeWrites(TRUE)
  BY DEF FakedWrites, FakeGreetersWrites, FakeClusterResourcesV1alpha1Writes,
         FakeClusterResourcesV1alpha2Writes, FakeNamespacedResourcesV1alpha1Writes,
         FakeNamespacedResourcesV1alpha2Writes
<1> QED
  BY <1>1 DEF Resources

LEMMA Requests ==
    ASSUME TypeOK, NEW c \in Callers, NEW method
    PROVE  \E s \in BOOLEAN :
             Request(c, method) = IF setup.backend = "server" THEN Writes(s)[method]
                                  ELSE FakeWrites(s)[method]
<1>1. /\ setup.clients[c] \in Resources
      /\ setup.backend # "server" => setup.clients[c] # "cronjobs"
  BY SetupType
<1>2. CASE setup.backend = "server"
  BY <1>1, <1>2, TypedTable DEF Request
<1>3. CASE setup.backend # "server"
  BY <1>1, <1>3, FakeTable DEF Request
<1> QED
  BY <1>2, <1>3

LEMMA Methods ==
    ASSUME NEW s
    PROVE  /\ Writes(s).Create = Call("POST", s, FALSE, "object")
           /\ Writes(s).Update = Call("PUT", s, TRUE, "object")
           /\ Writes(s).UpdateStatus = Call("PUT", s, TRUE, "status")
           /\ Writes(s).Delete = Call("DELETE", s, TRUE, "object")
           /\ Writes(s).DeleteCollection = Call("DELETE", s, FALSE, "object")
           /\ Writes(s).Patch = Call("MERGE", s, TRUE, "object")
           /\ Writes(s).Apply = Call("APPLY", s, TRUE, "object")
           /\ Writes(s).ApplyStatus = Call("APPLY", s, TRUE, "status")
           /\ FakeWrites(s).Create = Call("create", s, FALSE, "object")
           /\ FakeWrites(s).Update = Call("update", s, TRUE, "object")
           /\ FakeWrites(s).UpdateStatus = Call("update", s, TRUE, "status")
           /\ FakeWrites(s).Delete = Call("delete", s, TRUE, "object")
           /\ FakeWrites(s).DeleteCollection = Call("delete-collection", s, FALSE, "object")
           /\ FakeWrites(s).Patch = Call("patch", s, TRUE, "object")
           /\ FakeWrites(s).Apply = Call("patch-apply", s, TRUE, "object")
           /\ FakeWrites(s).ApplyStatus = Call("patch-apply", s, TRUE, "status")
<1>1. /\ Writes(s).Create = Call("POST", s, FALSE, "object")
      /\ Writes(s).Update = Call("PUT", s, TRUE, "object")
      /\ Writes(s).UpdateStatus = Call("PUT", s, TRUE, "status")
      /\ Writes(s).Delete = Call("DELETE", s, TRUE, "object")
      /\ Writes(s).DeleteCollection = Call("DELETE", s, FALSE, "object")
      /\ Writes(s).Patch = Call("MERGE", s, TRUE, "object")
      /\ Writes(s).Apply = Call("APPLY", s, TRUE, "object")
      /\ Writes(s).ApplyStatus = Call("APPLY", s, TRUE, "status")
  BY DEF Writes
<1>2. /\ FakeWrites(s).Create = Call("create", s, FALSE, "object")
      /\ FakeWrites(s).Update = Call("update", s, TRUE, "object")
      /\ FakeWrites(s).UpdateStatus = Call("update", s, TRUE, "status")
      /\ FakeWrites(s).Delete = Call("delete", s, TRUE, "object")
      /\ FakeWrites(s).DeleteCollection = Call("delete-collection", s, FALSE, "object")
      /\ FakeWrites(s).Patch = Call("patch", s, TRUE, "object")
      /\ FakeWrites(s).Apply = Call("patch-apply", s, TRUE, "object")
      /\ FakeWrites(s).ApplyStatus = Call("patch-apply", s, TRUE, "status")
  BY DEF FakeWrites
<1> QED
  BY <1>1, <1>2

------------------------------------------------------------------------------
(* Writes. *)

Stores == [Names -> Object \cup {None}]

Contents(o) == IF o = None THEN None ELSE [o EXCEPT !.rv = 0]

\* meant is what the call makes of the store.
Fulfilled(call, n, body, meant) ==
    meant = [m \in Names |-> Contents(Written(call, n, body)[m])]

\* meant is what the call makes of its object, and the rest as it was.
Aims(call, n, body, meant) ==
    meant = [promised EXCEPT ![n] = Contents(Outcome(call, Store[n], body))]

\* Every object of a store is an old one or has the resourceVersion of the write.
Rewritten(store) ==
    \A n \in Names : store[n] \in {Store[n], None} \/ store[n].rv = version + 1

LEMMA StoreType ==
    ASSUME TypeOK
    PROVE  /\ Len(log) \in Nat \ {0}
           /\ Len(log) \in DOMAIN log
           /\ Store \in Stores
  BY EmptySeq, LenProperties DEF TypeOK, Store, Stores

LEMMA Commits ==
    ASSUME TypeOK, SeenLog, NEW store \in Stores, Rewritten(store), Commit(store)
    PROVE  /\ log' \in Seq(Stores) /\ log' # <<>> /\ log'[1] = log[1]
           /\ version' \in Nat
           /\ Store' \in Stores
           /\ \A n \in Names : Contents(Store'[n]) = Contents(store[n])
           /\ \A n \in Names : Seen(Store'[n], Store'[n], version')
           /\ \A n \in Names, o \in Object \cup {None} :
                Seen(o, Store[n], version) => Seen(o, Store'[n], version')
           /\ SeenLog'
<1>0. /\ log \in Seq(Stores) /\ version \in Nat /\ Store \in Stores
      /\ Len(log) \in Nat \ {0} /\ Len(log) \in DOMAIN log
      /\ DOMAIN log = 1..Len(log)
  BY StoreType, LenProperties DEF TypeOK, Stores
<1>1. CASE \E n \in Names : store[n] # Store[n] /\ Differ(store[n], Store[n])
  <2>1. log' = Append(log, store) /\ version' = version + 1
    BY <1>1 DEF Commit
  <2>2. /\ log' \in Seq(Stores) /\ Len(log') = Len(log) + 1
        /\ log'[Len(log) + 1] = store
        /\ \A i \in DOMAIN log : log'[i] = log[i]
        /\ DOMAIN log' = 1..(Len(log) + 1)
    BY <1>0, <2>1, AppendProperties, LenProperties
  <2>3. Store' = store
    BY <2>2 DEF Store
  <2>4. log' # <<>> /\ log'[1] = log[1]
    BY <1>0, <2>2, EmptySeq
  <2>5. ASSUME NEW n \in Names, NEW o \in Object \cup {None}, Seen(o, Store[n], version)
        PROVE  Seen(o, Store'[n], version')
    BY <1>0, <2>1, <2>3, <2>5 DEF Seen, Rewritten, Object
  <2>6. ASSUME NEW n \in Names
        PROVE  Seen(Store'[n], Store'[n], version')
    <3>1. Seen(Store[n], Store[n], version)
      BY <1>0 DEF SeenLog, Store
    <3> QED
      BY <1>0, <2>1, <2>3, <3>1 DEF Seen, Rewritten, Object, Stores
  <2>7. SeenLog'
    <3> SUFFICES ASSUME NEW i \in DOMAIN log', NEW n \in Names
                 PROVE  Seen(log'[i][n], Store'[n], version')
      BY DEF SeenLog
    <3>1. CASE i = Len(log) + 1
      BY <2>2, <2>3, <2>6, <3>1
    <3>2. CASE i \in DOMAIN log
      <4>1. log[i][n] \in Object \cup {None}
        BY <1>0, <3>2, ElementOfSeq DEF Stores
      <4> QED
        BY <2>2, <2>5, <3>2, <4>1 DEF SeenLog
    <3> QED
      BY <1>0, <2>2, <3>1, <3>2
  <2> QED
    BY <1>0, <2>1, <2>2, <2>3, <2>4, <2>5, <2>6, <2>7
<1>2. CASE ~ \E n \in Names : store[n] # Store[n] /\ Differ(store[n], Store[n])
  <2>1. log' = log /\ version' = version
    BY <1>2 DEF Commit
  <2>2. Store' = Store
    BY <2>1 DEF Store
  <2>3. \A n \in Names : Contents(Store[n]) = Contents(store[n])
    BY <1>2 DEF Differ, Contents
  <2>4. \A n \in Names : Seen(Store[n], Store[n], version)
    BY <1>0 DEF SeenLog, Store
  <2>5. SeenLog'
    BY <2>1, <2>2 DEF SeenLog
  <2> QED
    BY <1>0, <2>1, <2>2, <2>3, <2>4, <2>5 DEF TypeOK
<1> QED
  BY <1>1, <1>2

\* A throttled request leaves the limiters as they have to be.
LEMMA Throttled ==
    ASSUME TypeOK, Metered, NEW group \in Groups, Throttle(group), setup' = setup
    PROVE  used' \in [Buckets -> Nat] /\ Metered'
<1>1. setup.config.qps > 0 => Limiters(setup.config, group) = {"shared"}
  BY DEF Limiters, ConfigLimiter
<1>2. Limiters(setup.config, group) \subseteq Buckets
  BY DEF Limiters, ConfigLimiter, Buckets
<1>3. CASE Limiters(setup.config, group) = {}
  BY <1>3 DEF Throttle, TypeOK, Metered
<1>4. CASE Limiters(setup.config, group) # {}
  <2>1. PICK b \in Limiters(setup.config, group) :
          used[b] < setup.config.burst /\ used' = [used EXCEPT ![b] = @ + 1]
    BY <1>4 DEF Throttle
  <2>2. used' \in [Buckets -> Nat]
    BY <1>2, <2>1 DEF TypeOK
  <2>3. Metered'
    <3>1. setup.config.burst \in Int
      BY SetupType DEF Setup, Configs
    <3> QED
      BY <1>1, <2>1, <3>1 DEF TypeOK, Metered, Groups, Buckets
  <2> QED
    BY <2>2, <2>3
<1> QED
  BY <1>3, <1>4

LEMMA GroupType ==
    ASSUME NEW r
    PROVE  GroupOf(r) \in Groups /\ "discovery" \in Groups
  BY DEF GroupOf, Groups

LEMMA SeenStore ==
    ASSUME TypeOK, SeenLog, NEW n \in Names
    PROVE  Seen(Store[n], Store[n], version)
  BY StoreType DEF SeenLog, Store

\* What the calls were meant to do is what is stored.
LEMMA PromisedContents ==
    ASSUME TypeOK, NothingLost, setup.backend = "server" \/ ~ overwritten
    PROVE  promised = [n \in Names |-> Contents(Store[n])]
  BY DEF TypeOK, NothingLost, Contents

\* A call keeps the invariant if it does to the store what it is meant for.
LEMMA SendKeeps ==
    ASSUME IInv, NEW c \in Callers, NEW method, NEW n \in Names, NEW body \in Object,
           NEW meant, Send(c, method, n, body, meant), cache' = cache,
           NEW call, call = Request(c, method),
           setup.backend = "server" => call.verb # "update",
           Accepts(call, n, body) =>
             /\ Written(call, n, body) \in Stores
             /\ Rewritten(Written(call, n, body))
             /\ setup.backend = "server" \/ ~ overwritten' => Fulfilled(call, n, body, meant)
    PROVE  IInv'
<1>1. /\ setup' = setup /\ panicked' = panicked /\ informer' = informer
      /\ Throttle(GroupOf(setup.clients[c]))
  BY DEF Send
<1>2. used' \in [Buckets -> Nat] /\ Metered'
  BY <1>1, Throttled, GroupType DEF IInv
<1>3. setup \in Setups /\ panicked \subseteq Callers /\ informer \in Informer
      /\ cache \in Stores /\ promised \in Stores /\ overwritten \in BOOLEAN
      /\ held \in [Callers -> Holding \cup {None}]
  BY DEF IInv, TypeOK, Stores
<1>4. CASE /\ ~ Accepts(call, n, body)
           /\ held' = [held EXCEPT ![c] = None]
           /\ UNCHANGED <<log, version, promised, overwritten>>
  <2>1. Store' = Store
    BY <1>4 DEF Store
  <2>2. TypeOK'
    BY <1>1, <1>2, <1>3, <1>4 DEF IInv, TypeOK, Stores
  <2>3. SeenLog' /\ SeenCache' /\ CachedState'
    BY <1>1, <1>4, <2>1 DEF IInv, SeenLog, SeenCache, CachedState, Filter
  <2>4. SeenHands'
    BY <1>3, <1>4, <2>1 DEF IInv, SeenHands
  <2>5. Locked' /\ NothingLost'
    BY <1>1, <1>4, <2>1 DEF IInv, Locked, NothingLost
  <2> QED
    BY <1>2, <2>2, <2>3, <2>4, <2>5 DEF IInv
<1>5. CASE /\ Accepts(call, n, body)
           /\ Commit(Written(call, n, body))
           /\ overwritten' = (overwritten \/ (call.verb = "update" /\ ~ Current(body, n)))
           /\ promised' = IF overwritten' THEN promised ELSE meant
           /\ Answer(c, n)
  <2> DEFINE W == Written(call, n, body)
  <2>1. /\ log' \in Seq(Stores) /\ log' # <<>> /\ log'[1] = log[1]
        /\ version' \in Nat /\ Store' \in Stores
        /\ \A m \in Names : Contents(Store'[m]) = Contents(W[m])
        /\ \A m \in Names : Seen(Store'[m], Store'[m], version')
        /\ \A m \in Names, o \in Object \cup {None} :
             Seen(o, Store[m], version) => Seen(o, Store'[m], version')
        /\ SeenLog'
    <3> HIDE DEF W
    <3>1. W \in Stores /\ Rewritten(W) /\ Commit(W)
      BY <1>5 DEF W
    <3> QED
      BY <3>1, Commits DEF IInv
  <2>2. overwritten' \in BOOLEAN /\ Locked'
    BY <1>1, <1>3, <1>5 DEF IInv, Locked
  <2>3. setup.backend = "server" \/ ~ overwritten' =>
          promised' = [m \in Names |-> Contents(Store'[m])]
    <3>1. setup.backend = "server" => ~ overwritten'
      BY <1>1, <2>2 DEF Locked
    <3> QED
      BY <1>5, <2>1, <3>1 DEF Fulfilled
  <2>4. promised' \in Stores
    <3>1. \A o \in Object \cup {None} : Contents(o) \in Object \cup {None}
      BY DEF Contents, Object
    <3>2. CASE overwritten'
      BY <1>3, <1>5, <3>2
    <3>3. CASE ~ overwritten'
      BY <2>1, <2>3, <3>1, <3>3 DEF Stores
    <3> QED
      BY <3>2, <3>3
  <2>5. PICK answer :
          /\ held' = [held EXCEPT ![c] = answer]
          /\ answer # None => answer = [name |-> n, obj |-> Store'[n], cached |-> FALSE]
                              /\ Store'[n] \in Object
    <3>1. \A o \in Object : Into(setup.clients[c], o) = o
      BY CarriesAll, SetupType DEF IInv
    <3>2. Store'[n] \in Object \cup {None}
      BY <2>1 DEF Stores
    <3> QED
      BY <1>5, <3>1, <3>2 DEF Answer
  <2>6. held' \in [Callers -> Holding \cup {None}]
    <3>1. ASSUME Store'[n] \in Object
          PROVE  [name |-> n, obj |-> Store'[n], cached |-> FALSE] \in Holding
      BY <3>1 DEF Holding
    <3>2. answer \in Holding \cup {None}
      BY <2>5, <3>1
    <3> QED
      BY <1>3, <2>5, <3>2
  <2>7. SeenHands'
    <3> SUFFICES ASSUME NEW d \in Callers, held'[d] # None
                 PROVE  Seen(held'[d].obj, Store'[held'[d].name], version')
      BY DEF SeenHands
    <3>1. CASE d = c
      BY <1>3, <2>1, <2>5, <3>1
    <3>2. CASE d # c
      <4>1. held'[d] = held[d] /\ held[d] \in Holding
        BY <1>3, <2>5, <3>2
      <4>2. Seen(held[d].obj, Store[held[d].name], version)
        BY <4>1 DEF IInv, SeenHands
      <4> QED
        BY <2>1, <4>1, <4>2 DEF Holding
    <3> QED
      BY <3>1, <3>2
  <2>8. SeenCache'
    BY <1>3, <2>1 DEF IInv, SeenCache, Stores
  <2>9. CachedState'
    BY <1>1, <2>1 DEF IInv, CachedState, Filter
  <2>10. NothingLost'
    BY <1>1, <2>3 DEF NothingLost, Contents
  <2>11. TypeOK'
    BY <1>1, <1>2, <1>3, <2>1, <2>2, <2>4, <2>6 DEF TypeOK, Stores
  <2> QED
    BY <1>2, <2>1, <2>2, <2>7, <2>8, <2>9, <2>10, <2>11 DEF IInv
<1> QED
  BY <1>4, <1>5 DEF Send

\* What a caller has in hand, and what it is when it is still current
LEMMA InHand ==
    ASSUME IInv, NEW c \in Callers, held[c] # None
    PROVE  /\ held[c].name \in Names /\ held[c].obj \in Object
           /\ Store[held[c].name] # None /\ held[c].obj.rv = Store[held[c].name].rv =>
                held[c].obj = Store[held[c].name]
<1>1. held[c] \in Holding
  BY DEF IInv, TypeOK
<1>2. Seen(held[c].obj, Store[held[c].name], version)
  BY DEF IInv, SeenHands
<1>3. held[c].obj # None
  BY <1>1, Assumption DEF Holding, Object
<1> QED
  BY <1>1, <1>2, <1>3 DEF Holding, Seen

\* A deep copy shares nothing, so that changing it leaves the cache alone.
LEMMA Unshared ==
    ASSUME IInv, NEW c \in Callers, held[c] # None, NEW obj, Modify(c, obj)
    PROVE  cache' = cache
<1>1. Shared(setup.clients[c]) = {}
  BY NothingShared, SetupType DEF IInv
<1>2. cache \in Stores /\ held[c].name \in Names
  BY InHand DEF IInv, TypeOK, Stores
<1>3. CASE /\ held[c].cached /\ cache[held[c].name] # None
           /\ cache[held[c].name].rv = held[c].obj.rv
  <2> DEFINE n == held[c].name
  <2>1. cache[n] \in Object
    BY <1>2, <1>3 DEF Stores
  <2>2. cache' = [cache EXCEPT ![n].labels = @, ![n].spec = @, ![n].status = @]
    BY <1>1, <1>3 DEF Modify
  <2> HIDE DEF n
  <2> QED
    BY <1>2, <2>1, <2>2 DEF Stores, Object
<1>4. CASE ~ (/\ held[c].cached /\ cache[held[c].name] # None
              /\ cache[held[c].name].rv = held[c].obj.rv)
  BY <1>4 DEF Modify
<1> QED
  BY <1>3, <1>4

\* An object with another resourceVersion
LEMMA Restamped ==
    ASSUME NEW o \in Object, NEW v \in Nat
    PROVE  /\ [o EXCEPT !.rv = v] \in Object /\ [o EXCEPT !.rv = v].rv = v
           /\ Contents([o EXCEPT !.rv = v]) = [o EXCEPT !.rv = 0]
           /\ Contents(o) = [o EXCEPT !.rv = 0]
<1>1. [o EXCEPT !.rv = v] \in Object /\ [o EXCEPT !.rv = v].rv = v
  BY DEF Object
<1>2. None \notin Object
  BY Assumption DEF Object
<1>3. [[o EXCEPT !.rv = v] EXCEPT !.rv = 0] = [o EXCEPT !.rv = 0]
  BY DEF Object
<1> QED
  BY <1>1, <1>2, <1>3 DEF Contents

\* What a write makes of the store, but for a deletion
LEMMA WrittenOne ==
    ASSUME TypeOK, NEW call, ~ Deletes(call), NEW n \in Names, NEW body,
           Outcome(call, Store[n], body) \in Object
    PROVE  /\ Written(call, n, body) \in Stores
           /\ Rewritten(Written(call, n, body))
           /\ Written(call, n, body)[n]
                = [Outcome(call, Store[n], body) EXCEPT !.rv = version + 1]
           /\ \A m \in Names \ {n} : Written(call, n, body)[m] = Store[m]
<1> DEFINE o == [Outcome(call, Store[n], body) EXCEPT !.rv = version + 1]
<1>1. o \in Object /\ o.rv = version + 1
  <2>1. version + 1 \in Nat
    BY DEF TypeOK
  <2> QED
    BY <2>1, Restamped
<1>2. Written(call, n, body) = [Store EXCEPT ![n] = o]
  BY DEF Written
<1> HIDE DEF o
<1>3. Store \in Stores
  BY StoreType
<1>4. Written(call, n, body) \in Stores /\ Written(call, n, body)[n] = o
  BY <1>1, <1>2, <1>3 DEF Stores
<1>5. \A m \in Names \ {n} : Written(call, n, body)[m] = Store[m]
  BY <1>2, <1>3 DEF Stores
<1>6. Rewritten(Written(call, n, body))
  BY <1>1, <1>4, <1>5 DEF Rewritten
<1> QED
  BY <1>4, <1>5, <1>6 DEF o

\* A write of one object does what it is meant for if it does so to that object.
LEMMA MeantOne ==
    ASSUME TypeOK, NothingLost, NEW call, ~ Deletes(call), NEW n \in Names, NEW body,
           Outcome(call, Store[n], body) \in Object,
           setup.backend = "server" \/ ~ overwritten,
           NEW meant, Aims(call, n, body, meant)
    PROVE  Fulfilled(call, n, body, meant)
<1> DEFINE o == Outcome(call, Store[n], body)
           W == Written(call, n, body)
<1>1. Contents([o EXCEPT !.rv = version + 1]) = Contents(o)
  <2>1. version + 1 \in Nat
    BY DEF TypeOK
  <2> QED
    BY <2>1, Restamped
<1>2. /\ W[n] = [o EXCEPT !.rv = version + 1]
      /\ \A m \in Names \ {n} : W[m] = Store[m]
  BY WrittenOne
<1>3. promised = [m \in Names |-> Contents(Store[m])]
  BY PromisedContents
<1>4. meant = [promised EXCEPT ![n] = Contents(o)]
  BY DEF Aims
<1> HIDE DEF o, W
<1>5. meant = [m \in Names |-> Contents(W[m])]
  BY <1>1, <1>2, <1>3, <1>4
<1> QED
  BY <1>5 DEF W, Fulfilled

\* An update of what a caller has in hand
LEMMA UpdateKeeps ==
    ASSUME IInv, NEW c \in Callers, held[c] # None, NEW n, n = held[c].name,
           NEW method, NEW body \in Object, NEW meant, Send(c, method, n, body, meant),
           cache' = cache, body.rv = held[c].obj.rv,
           NEW call, call = Request(c, method),
           IF setup.backend = "server" THEN call.verb = "PUT" ELSE call.verb = "update",
           /\ held[c].obj = Store[n] /\ Store[n] \in Object /\ Accepts(call, n, body)
           /\ promised[n] = [Store[n] EXCEPT !.rv = 0]
           => Aims(call, n, body, meant)
    PROVE  IInv'
<1>1. n \in Names /\ (Store[n] # None /\ body.rv = Store[n].rv => held[c].obj = Store[n])
  BY InHand
<1>2. TypeOK /\ NothingLost /\ Store \in Stores
  BY StoreType DEF IInv
<1>3. ~ Deletes(call)
  BY DEF Deletes
<1>4. ASSUME Accepts(call, n, body)
      PROVE  /\ Written(call, n, body) \in Stores
             /\ Rewritten(Written(call, n, body))
             /\ setup.backend = "server" \/ ~ overwritten' => Fulfilled(call, n, body, meant)
  <2>1. Store[n] # None /\ (setup.backend = "server" => Current(body, n))
    BY <1>4 DEF Accepts, Served, Tracked
  <2>2. Store[n] \in Object
    BY <1>1, <1>2, <2>1 DEF Stores
  <2>3. Outcome(call, Store[n], body) \in Object
    <3>1. Outcome(call, Store[n], body) = IF setup.backend = "server"
                                          THEN Put(call, Store[n], body) ELSE body
      BY DEF Outcome
    <3> QED
      BY <2>2, <3>1 DEF Put, Object
  <2>4. ASSUME setup.backend = "server" \/ ~ overwritten'
        PROVE  Fulfilled(call, n, body, meant)
    <3>1. setup.backend = "server" \/ ~ overwritten
      BY <1>4, <2>4 DEF Send
    <3>2. Current(body, n)
      BY <1>4, <2>1, <2>4 DEF Send
    <3>3. held[c].obj = Store[n]
      BY <1>1, <2>1, <3>2 DEF Current
    <3>4. promised[n] = [Store[n] EXCEPT !.rv = 0]
      BY <1>1, <1>2, <2>1, <3>1, PromisedContents DEF Contents
    <3>5. Aims(call, n, body, meant)
      BY <1>4, <2>2, <3>3, <3>4
    <3> QED
      BY <1>1, <1>2, <1>3, <2>3, <3>1, <3>5, MeantOne
  <2> QED
    BY <1>1, <1>2, <1>3, <2>3, <2>4, WrittenOne
<1> QED
  BY <1>1, <1>4, SendKeeps

LEMMA UpdateSpecKeeps ==
    ASSUME IInv, NEW c \in Callers, UpdateSpec(c)
    PROVE  IInv'
<1> DEFINE n == held[c].name
           body == [held[c].obj EXCEPT !.spec = @ + 1]
           meant == [promised EXCEPT ![n].spec = @ + 1]
           call == Request(c, "Update")
<1>1. /\ held[c] # None /\ Modify(c, body) /\ Send(c, "Update", n, body, meant)
  BY DEF UpdateSpec
<1>2. n \in Names /\ held[c].obj \in Object
  BY <1>1, InHand
<1>3. body \in Object /\ body.rv = held[c].obj.rv
  BY <1>2 DEF Object
<1>4. cache' = cache
  BY <1>1, Unshared
<1>5. PICK s \in BOOLEAN :
        call = IF setup.backend = "server" THEN Call("PUT", s, TRUE, "object")
               ELSE Call("update", s, TRUE, "object")
  <2>1. PICK s \in BOOLEAN :
          call = IF setup.backend = "server" THEN Writes(s).Update ELSE FakeWrites(s).Update
    BY Requests DEF IInv
  <2> QED
    BY <2>1, Methods
<1>6. ASSUME held[c].obj = Store[n], Store[n] \in Object, Accepts(call, n, body),
             promised[n] = [Store[n] EXCEPT !.rv = 0]
      PROVE  Aims(call, n, body, meant)
  <2>1. Outcome(call, Store[n], body) = body
    <3>1. [body EXCEPT !.status = Store[n].status] = body
      BY <1>6 DEF Object
    <3>2. call.sub # "status" /\ call.verb \in {"PUT", "update"}
      BY <1>5 DEF Call
    <3> HIDE DEF body, call
    <3> QED
      BY <3>1, <3>2 DEF Outcome, Put
  <2>2. Contents(body) = [body EXCEPT !.rv = 0]
    BY <1>3, Restamped
  <2>3. [body EXCEPT !.rv = 0] = [promised[n] EXCEPT !.spec = @ + 1]
    BY <1>6 DEF Object
  <2>4. meant = [promised EXCEPT ![n] = [promised[n] EXCEPT !.spec = @ + 1]]
    BY <1>2 DEF IInv, TypeOK
  <2> HIDE DEF body, meant
  <2> QED
    BY <2>1, <2>2, <2>3, <2>4 DEF Aims
<1>7. IF setup.backend = "server" THEN call.verb = "PUT" ELSE call.verb = "update"
  BY <1>5 DEF Call
<1> HIDE DEF n, body, meant, call
<1> QED
  BY <1>1, <1>3, <1>4, <1>6, <1>7, UpdateKeeps DEF n, call
LEMMA UpdateLabelsKeeps ==
    ASSUME IInv, NEW c \in Callers, UpdateLabels(c)
    PROVE  IInv'
<1> DEFINE n == held[c].name
           body == [held[c].obj EXCEPT !.labels = Toggled(@)]
           meant == [promised EXCEPT ![n].labels = Toggled(@)]
           call == Request(c, "Update")
<1>1. /\ held[c] # None /\ Modify(c, body) /\ Send(c, "Update", n, body, meant)
  BY DEF UpdateLabels
<1>2. n \in Names /\ held[c].obj \in Object
  BY <1>1, InHand
<1>3. body \in Object /\ body.rv = held[c].obj.rv
  BY <1>2 DEF Object, Toggled, Labels
<1>4. cache' = cache
  BY <1>1, Unshared
<1>5. PICK s \in BOOLEAN :
        call = IF setup.backend = "server" THEN Call("PUT", s, TRUE, "object")
               ELSE Call("update", s, TRUE, "object")
  <2>1. PICK s \in BOOLEAN :
          call = IF setup.backend = "server" THEN Writes(s).Update ELSE FakeWrites(s).Update
    BY Requests DEF IInv
  <2> QED
    BY <2>1, Methods
<1>6. ASSUME held[c].obj = Store[n], Store[n] \in Object, Accepts(call, n, body),
             promised[n] = [Store[n] EXCEPT !.rv = 0]
      PROVE  Aims(call, n, body, meant)
  <2>1. Outcome(call, Store[n], body) = body
    <3>1. [body EXCEPT !.status = Store[n].status] = body
      BY <1>6 DEF Object
    <3>2. call.sub # "status" /\ call.verb \in {"PUT", "update"}
      BY <1>5 DEF Call
    <3> HIDE DEF body, call
    <3> QED
      BY <3>1, <3>2 DEF Outcome, Put
  <2>2. Contents(body) = [body EXCEPT !.rv = 0]
    BY <1>3, Restamped
  <2>3. [body EXCEPT !.rv = 0] = [promised[n] EXCEPT !.labels = Toggled(@)]
    BY <1>6 DEF Object
  <2>4. meant = [promised EXCEPT ![n] = [promised[n] EXCEPT !.labels = Toggled(@)]]
    BY <1>2 DEF IInv, TypeOK
  <2> HIDE DEF body, meant
  <2> QED
    BY <2>1, <2>2, <2>3, <2>4 DEF Aims
<1>7. IF setup.backend = "server" THEN call.verb = "PUT" ELSE call.verb = "update"
  BY <1>5 DEF Call
<1> HIDE DEF n, body, meant, call
<1> QED
  BY <1>1, <1>3, <1>4, <1>6, <1>7, UpdateKeeps DEF n, call
LEMMA UpdateStatusKeeps ==
    ASSUME IInv, NEW c \in Callers, UpdateStatus(c)
    PROVE  IInv'
<1> DEFINE n == held[c].name
           body == [held[c].obj EXCEPT !.status = @ + 1]
           meant == [promised EXCEPT ![n].status = @ + 1]
           call == Request(c, "UpdateStatus")
<1>1. /\ held[c] # None /\ Modify(c, body) /\ Send(c, "UpdateStatus", n, body, meant)
  BY DEF UpdateStatus
<1>2. n \in Names /\ held[c].obj \in Object
  BY <1>1, InHand
<1>3. body \in Object /\ body.rv = held[c].obj.rv
  BY <1>2 DEF Object
<1>4. cache' = cache
  BY <1>1, Unshared
<1>5. PICK s \in BOOLEAN :
        call = IF setup.backend = "server" THEN Call("PUT", s, TRUE, "status")
               ELSE Call("update", s, TRUE, "status")
  <2>1. PICK s \in BOOLEAN :
          call = IF setup.backend = "server" THEN Writes(s).UpdateStatus ELSE FakeWrites(s).UpdateStatus
    BY Requests DEF IInv
  <2> QED
    BY <2>1, Methods
<1>6. ASSUME held[c].obj = Store[n], Store[n] \in Object, Accepts(call, n, body),
             promised[n] = [Store[n] EXCEPT !.rv = 0]
      PROVE  Aims(call, n, body, meant)
  <2>1. Outcome(call, Store[n], body) = body
    <3>1. [Store[n] EXCEPT !.status = body.status] = body
      BY <1>6 DEF Object
    <3>2. call.sub = "status" /\ call.verb \in {"PUT", "update"}
      BY <1>5 DEF Call
    <3> HIDE DEF body, call
    <3> QED
      BY <3>1, <3>2 DEF Outcome, Put
  <2>2. Contents(body) = [body EXCEPT !.rv = 0]
    BY <1>3, Restamped
  <2>3. [body EXCEPT !.rv = 0] = [promised[n] EXCEPT !.status = @ + 1]
    BY <1>6 DEF Object
  <2>4. meant = [promised EXCEPT ![n] = [promised[n] EXCEPT !.status = @ + 1]]
    BY <1>2 DEF IInv, TypeOK
  <2> HIDE DEF body, meant
  <2> QED
    BY <2>1, <2>2, <2>3, <2>4 DEF Aims
<1>7. IF setup.backend = "server" THEN call.verb = "PUT" ELSE call.verb = "update"
  BY <1>5 DEF Call
<1> HIDE DEF n, body, meant, call
<1> QED
  BY <1>1, <1>3, <1>4, <1>6, <1>7, UpdateKeeps DEF n, call

\* A write of one object that does not look at the caller's copy
LEMMA WriteKeeps ==
    ASSUME IInv, NEW c \in Callers, NEW n \in Names, NEW method, NEW body \in Object,
           NEW meant, Send(c, method, n, body, meant), cache' = cache,
           NEW call, call = Request(c, method), call.verb # "update", ~ Deletes(call),
           Accepts(call, n, body) => Outcome(call, Store[n], body) \in Object,
           Accepts(call, n, body) /\ promised[n] = Contents(Store[n]) =>
             Aims(call, n, body, meant)
    PROVE  IInv'
<1>1. TypeOK /\ NothingLost
  BY DEF IInv
<1>2. ASSUME Accepts(call, n, body)
      PROVE  /\ Written(call, n, body) \in Stores
             /\ Rewritten(Written(call, n, body))
             /\ setup.backend = "server" \/ ~ overwritten' => Fulfilled(call, n, body, meant)
  <2>1. ASSUME setup.backend = "server" \/ ~ overwritten'
        PROVE  Fulfilled(call, n, body, meant)
    <3>1. setup.backend = "server" \/ ~ overwritten
      BY <1>2, <2>1 DEF Send
    <3>2. promised[n] = Contents(Store[n])
      BY <1>1, <3>1, PromisedContents
    <3> QED
      BY <1>1, <1>2, <3>1, <3>2, MeantOne
  <2> QED
    BY <1>1, <1>2, <2>1, WrittenOne
<1> QED
  BY <1>2, SendKeeps

LEMMA BlankType == Blank \in Object /\ Contents(Blank) = Blank
<1>1. Blank \in Object /\ [Blank EXCEPT !.rv = 0] = Blank
  BY DEF Blank, Object
<1> QED
  BY <1>1, Restamped

LEMMA CreateKeeps ==
    ASSUME IInv, NEW c \in Callers, NEW n \in Names, Create(c, n)
    PROVE  IInv'
<1> DEFINE meant == [promised EXCEPT ![n] = Blank]
           call == Request(c, "Create")
<1>1. Send(c, "Create", n, Blank, meant) /\ cache' = cache
  BY DEF Create
<1>2. PICK s \in BOOLEAN :
        call = IF setup.backend = "server" THEN Writes(s).Create ELSE FakeWrites(s).Create
  BY Requests DEF IInv
<1>3. call.verb \in {"POST", "create"} /\ call.verb # "update" /\ ~ Deletes(call)
  <2>1. call \in {Call("POST", s, FALSE, "object"), Call("create", s, FALSE, "object")}
    BY <1>2, Methods
  <2> HIDE DEF call
  <2> QED
    BY <2>1 DEF Call, Deletes
<1>4. Outcome(call, Store[n], Blank) = Blank
  <2>1. Post(Blank) = Blank
    BY DEF Post, Blank
  <2> HIDE DEF call
  <2> QED
    BY <1>3, <2>1 DEF Outcome
<1>5. Aims(call, n, Blank, meant)
  BY <1>4, BlankType DEF Aims
<1> HIDE DEF meant, call
<1> QED
  BY <1>1, <1>3, <1>4, <1>5, BlankType, WriteKeeps DEF call

LEMMA PatchKeeps ==
    ASSUME IInv, NEW c \in Callers, NEW n \in Names, Patch(c, n)
    PROVE  IInv'
<1> DEFINE meant == [promised EXCEPT ![n].labels = @ \cup {Edited}]
           body == [Blank EXCEPT !.labels = {Edited}]
           call == Request(c, "Patch")
<1>1. Send(c, "Patch", n, body, meant) /\ cache' = cache
  BY DEF Patch
<1>2. PICK s \in BOOLEAN :
        call = IF setup.backend = "server" THEN Writes(s).Patch ELSE FakeWrites(s).Patch
  BY Requests DEF IInv
<1>3. call.verb \in {"MERGE", "patch"} /\ call.verb # "update" /\ ~ Deletes(call)
  <2>1. call \in {Call("MERGE", s, TRUE, "object"), Call("patch", s, TRUE, "object")}
    BY <1>2, Methods
  <2> HIDE DEF call
  <2> QED
    BY <2>1 DEF Call, Deletes
<1>4. body \in Object /\ body.labels = {Edited}
  BY DEF Blank, Object, Labels
<1>5. ASSUME Accepts(call, n, body)
      PROVE  /\ Outcome(call, Store[n], body) \in Object
             /\ promised[n] = Contents(Store[n]) => Aims(call, n, body, meant)
  <2> HIDE DEF call, body
  <2>1. Store[n] \in Object
    <3>1. Store[n] # None
      BY <1>3, <1>5 DEF Accepts, Served, Tracked
    <3> QED
      BY <3>1, StoreType DEF IInv, Stores
  <2>2. Outcome(call, Store[n], body) = [Store[n] EXCEPT !.labels = @ \cup {Edited}]
    BY <1>3, <1>4 DEF Outcome
  <2>3. Outcome(call, Store[n], body) \in Object
    BY <2>1, <2>2 DEF Object, Labels
  <2>4. ASSUME promised[n] = Contents(Store[n])
        PROVE  Aims(call, n, body, meant)
    <3>1. promised[n] = [Store[n] EXCEPT !.rv = 0]
      BY <2>1, <2>4, Restamped
    <3>2. [[Store[n] EXCEPT !.labels = @ \cup {Edited}] EXCEPT !.rv = 0]
            = [promised[n] EXCEPT !.labels = @ \cup {Edited}]
      BY <2>1, <3>1 DEF Object
    <3>3. Contents(Outcome(call, Store[n], body))
            = [promised[n] EXCEPT !.labels = @ \cup {Edited}]
      BY <2>2, <2>3, <3>2, Restamped
    <3>4. meant = [promised EXCEPT ![n] = [promised[n] EXCEPT !.labels = @ \cup {Edited}]]
      BY DEF IInv, TypeOK
    <3> HIDE DEF meant
    <3> QED
      BY <3>3, <3>4 DEF Aims
  <2> QED
    BY <2>3, <2>4
<1> HIDE DEF meant, call, body
<1> QED
  BY <1>1, <1>3, <1>4, <1>5, WriteKeeps DEF call

\* An apply request, which the tracker refuses
LEMMA ApplyCalls ==
    ASSUME IInv, NEW c \in Callers, NEW method \in {"Apply", "ApplyStatus"},
           NEW call, call = Request(c, method)
    PROVE  /\ call.verb \in {"APPLY", "patch-apply"} /\ call.verb # "update"
           /\ ~ Deletes(call)
           /\ call.sub = IF method = "Apply" THEN "object" ELSE "status"
           /\ \A n \in Names : \A body :
                Accepts(call, n, body) =>
                  /\ call.verb = "APPLY" /\ Store[n] \in Object \cup {None}
                  /\ method = "ApplyStatus" => Store[n] \in Object
<1> DEFINE sub == IF method = "Apply" THEN "object" ELSE "status"
<1>1. PICK s \in BOOLEAN :
        call = IF setup.backend = "server" THEN Writes(s)[method] ELSE FakeWrites(s)[method]
  BY Requests DEF IInv
<1>2. call = IF setup.backend = "server" THEN Call("APPLY", s, TRUE, sub)
             ELSE Call("patch-apply", s, TRUE, sub)
  <2>1. CASE method = "Apply"
    BY <1>1, <2>1, Methods
  <2>2. CASE method = "ApplyStatus"
    BY <1>1, <2>2, Methods
  <2> QED
    BY <2>1, <2>2
<1> HIDE DEF sub
<1>3. /\ call.verb = IF setup.backend = "server" THEN "APPLY" ELSE "patch-apply"
      /\ call.sub = sub
  BY <1>2 DEF Call
<1>4. ASSUME NEW n \in Names, NEW body, Accepts(call, n, body)
      PROVE  /\ call.verb = "APPLY" /\ Store[n] \in Object \cup {None}
             /\ method = "ApplyStatus" => Store[n] \in Object
  <2>1. call.verb = "APPLY"
    BY <1>3, <1>4 DEF Accepts, Tracked
  <2>2. call.sub = "status" => Store[n] # None
    BY <1>3, <1>4, <2>1 DEF Accepts, Served, Tracked
  <2> QED
    BY <1>3, <2>1, <2>2, StoreType DEF IInv, Stores, sub
<1> QED
  BY <1>3, <1>4 DEF Deletes, sub

LEMMA ApplyKeeps ==
    ASSUME IInv, NEW c \in Callers, NEW n \in Names, NEW l1 \in Applied, NEW l2 \in Applied,
           NEW body, body = [Blank EXCEPT !.labels = {l1, l2}],
           NEW meant,
           meant = [promised EXCEPT ![n] =
                      IF promised[n] = None THEN body
                      ELSE [promised[n] EXCEPT !.labels = (promised[n].labels \ Applied) \cup {l1, l2},
                                               !.spec = 0]],
           Send(c, "Apply", n, body, meant), cache' = cache
    PROVE  IInv'
<1> DEFINE call == Request(c, "Apply")
           new(o) == [o EXCEPT !.labels = (@ \ Applied) \cup {l1, l2}, !.spec = 0]
<1>1. /\ call.verb \in {"APPLY", "patch-apply"} /\ call.verb # "update"
      /\ ~ Deletes(call) /\ call.sub = "object"
      /\ Accepts(call, n, body) => call.verb = "APPLY" /\ Store[n] \in Object \cup {None}
  BY ApplyCalls
<1>2. /\ body \in Object /\ body.labels = {l1, l2} /\ body.spec = 0
      /\ Post(body) = body /\ Contents(body) = body
  <2>1. body = [rv |-> 0, labels |-> {l1, l2}, spec |-> 0, status |-> 0]
    BY DEF Blank
  <2>2. body \in Object /\ body.labels = {l1, l2} /\ body.spec = 0
    <3>1. {l1, l2} \in SUBSET Labels
      BY DEF Labels
    <3> HIDE DEF new
    <3> QED
      BY ONLY <2>1, <3>1 DEF Object
  <2>3. [body EXCEPT !.rv = 0] = body /\ [body EXCEPT !.status = 0] = body
    BY ONLY <2>1
  <2> QED
    BY <2>2, <2>3, Restamped DEF Post
<1>3. ASSUME Accepts(call, n, body)
      PROVE  /\ Outcome(call, Store[n], body) \in Object
             /\ promised[n] = Contents(Store[n]) => Aims(call, n, body, meant)
  <2>1. call.verb = "APPLY" /\ Store[n] \in Object \cup {None} /\ None \notin Object
    BY <1>1, <1>3, Assumption DEF Object
  <2>2. meant = [promised EXCEPT ![n] = IF promised[n] = None THEN body ELSE new(promised[n])]
    OBVIOUS
  <2>3. CASE Store[n] = None
    <3>1. Outcome(call, Store[n], body) = body
      BY <1>1, <1>2, <2>1, <2>3 DEF Outcome, ApplyPatch
    <3>2. ASSUME promised[n] = Contents(Store[n])
          PROVE  Aims(call, n, body, meant)
      <4>1. promised[n] = None
        BY <2>3, <3>2 DEF Contents
      <4> QED
        BY <1>2, <2>2, <3>1, <4>1 DEF Aims
    <3> QED
      BY <1>2, <3>1, <3>2
  <2>4. CASE Store[n] \in Object
    <3> HIDE DEF call
    <3>1. Outcome(call, Store[n], body) = new(Store[n])
      BY <1>1, <1>2, <2>1, <2>4 DEF Outcome, ApplyPatch
    <3>2. new(Store[n]) \in Object
      BY <2>4 DEF Object, Labels
    <3>3. ASSUME promised[n] = Contents(Store[n])
          PROVE  Aims(call, n, body, meant)
      <4>1. promised[n] = [Store[n] EXCEPT !.rv = 0] /\ promised[n] \in Object
        BY <2>4, <3>3, Restamped
      <4>2. [new(Store[n]) EXCEPT !.rv = 0] = new(promised[n])
        BY <2>4, <4>1 DEF Object
      <4>3. meant = [promised EXCEPT ![n] = new(promised[n])]
        BY <2>1, <2>2, <4>1
      <4> HIDE DEF new
      <4>4. Contents(Outcome(call, Store[n], body)) = new(promised[n])
        BY <3>1, <3>2, <4>2, Restamped
      <4> QED
        BY <4>3, <4>4 DEF Aims
    <3> HIDE DEF new
    <3> QED
      BY <3>1, <3>2, <3>3
  <2> QED
    BY <2>1, <2>3, <2>4
<1> HIDE DEF call, new
<1> QED
  BY <1>1, <1>2, <1>3, WriteKeeps DEF call

LEMMA ApplyStatusKeeps ==
    ASSUME IInv, NEW c \in Callers, NEW n \in Names,
           NEW meant, meant = [promised EXCEPT ![n].status = 0],
           Send(c, "ApplyStatus", n, Blank, meant), cache' = cache
    PROVE  IInv'
<1> DEFINE call == Request(c, "ApplyStatus")
           new(o) == [o EXCEPT !.status = 0]
<1>1. /\ call.verb \in {"APPLY", "patch-apply"} /\ call.verb # "update"
      /\ ~ Deletes(call) /\ call.sub = "status"
      /\ Accepts(call, n, Blank) => call.verb = "APPLY" /\ Store[n] \in Object
  BY ApplyCalls
<1>3. ASSUME Accepts(call, n, Blank)
      PROVE  /\ Outcome(call, Store[n], Blank) \in Object
             /\ promised[n] = Contents(Store[n]) => Aims(call, n, Blank, meant)
  <2>1. call.verb = "APPLY" /\ Store[n] \in Object
    BY <1>1, <1>3
  <2> HIDE DEF call
  <2>2. Outcome(call, Store[n], Blank) = new(Store[n])
    <3>1. Blank.status = 0
      BY DEF Blank
    <3> QED
      BY <1>1, <2>1, <3>1 DEF Outcome, ApplyPatch
  <2>3. new(Store[n]) \in Object
    BY <2>1 DEF Object
  <2>4. ASSUME promised[n] = Contents(Store[n])
        PROVE  Aims(call, n, Blank, meant)
    <3>1. promised[n] = [Store[n] EXCEPT !.rv = 0]
      BY <2>1, <2>4, Restamped
    <3>2. [new(Store[n]) EXCEPT !.rv = 0] = new(promised[n])
      BY <2>1, <3>1 DEF Object
    <3>3. meant = [promised EXCEPT ![n] = new(promised[n])]
      BY DEF IInv, TypeOK
    <3> HIDE DEF new
    <3>4. Contents(Outcome(call, Store[n], Blank)) = new(promised[n])
      BY <2>2, <2>3, <3>2, Restamped
    <3> QED
      BY <3>3, <3>4 DEF Aims
  <2> HIDE DEF new
  <2> QED
    BY <2>2, <2>3, <2>4
<1> HIDE DEF call, new
<1> QED
  BY <1>1, <1>3, BlankType, WriteKeeps DEF call

\* A deletion of one object or of all
LEMMA DeleteKeeps ==
    ASSUME IInv, NEW c \in Callers, NEW n \in Names,
           \/ Delete(c, n)
           \/ DeleteCollection(c, n)
    PROVE  IInv'
<1> DEFINE Removed(call) == [m \in Names |-> IF m \in Targets(call, n) THEN None ELSE Store[m]]
<1>1. ASSUME NEW method \in {"Delete", "DeleteCollection"},
             NEW meant, Send(c, method, n, Blank, meant), cache' = cache,
             method = "Delete" => meant = [promised EXCEPT ![n] = None],
             method = "DeleteCollection" => meant = Nothing
      PROVE  IInv'
  <2> DEFINE call == Request(c, method)
  <2>1. PICK s \in BOOLEAN :
          call = IF setup.backend = "server" THEN Writes(s)[method] ELSE FakeWrites(s)[method]
    BY Requests DEF IInv
  <2>2. call = IF method = "Delete"
               THEN IF setup.backend = "server" THEN Call("DELETE", s, TRUE, "object")
                    ELSE Call("delete", s, TRUE, "object")
               ELSE IF setup.backend = "server" THEN Call("DELETE", s, FALSE, "object")
                    ELSE Call("delete-collection", s, FALSE, "object")
    <3>1. CASE method = "Delete"
      BY <2>1, <3>1, Methods
    <3>2. CASE method = "DeleteCollection"
      BY <2>1, <3>2, Methods
    <3> QED
      BY <3>1, <3>2
  <2> HIDE DEF call
  <2>3. /\ setup.backend = "server" => call.verb = "DELETE"
        /\ setup.backend # "server" => call.verb \in {"delete", "delete-collection"}
        /\ method = "Delete" => call.named
        /\ method = "DeleteCollection" => ~ call.named
    <3>1. CASE method = "Delete"
      BY <2>2, <3>1 DEF Call
    <3>2. CASE method = "DeleteCollection"
      BY <2>2, <3>2 DEF Call
    <3> QED
      BY <3>1, <3>2
  <2>4. ASSUME Accepts(call, n, Blank)
        PROVE  /\ Written(call, n, Blank) \in Stores
               /\ Rewritten(Written(call, n, Blank))
               /\ setup.backend = "server" \/ ~ overwritten' =>
                    Fulfilled(call, n, Blank, meant)
    <3>1. Deletes(call)
      <4>1. CASE setup.backend = "server"
        BY <2>3, <4>1 DEF Deletes
      <4>2. CASE setup.backend # "server"
        BY <2>3, <2>4, <4>2 DEF Accepts, Tracked, Deletes
      <4> QED
        BY <4>1, <4>2
    <3>2. Written(call, n, Blank) = Removed(call)
      BY <3>1 DEF Written
    <3>3. Removed(call) \in Stores /\ Rewritten(Removed(call))
      BY StoreType DEF IInv, Stores, Rewritten
    <3>4. ASSUME setup.backend = "server" \/ ~ overwritten'
          PROVE  meant = [m \in Names |-> Contents(Removed(call)[m])]
      <4>1. promised = [m \in Names |-> Contents(Store[m])]
        <5>1. setup.backend = "server" \/ ~ overwritten
          BY <1>1, <2>4, <3>4 DEF Send, call
        <5> QED
          BY <5>1, PromisedContents DEF IInv
      <4>2. CASE method = "Delete"
        BY <1>1, <2>3, <4>1, <4>2 DEF Targets, Contents
      <4>3. CASE method = "DeleteCollection"
        BY <1>1, <2>3, <4>3 DEF Targets, Contents, Nothing
      <4> QED
        BY <4>2, <4>3
    <3> QED
      BY <3>2, <3>3, <3>4 DEF Fulfilled
  <2> QED
    <3>1. setup.backend = "server" => call.verb # "update"
      BY <2>3
    <3> QED
      BY <1>1, <2>4, <3>1, BlankType, SendKeeps DEF call
<1>2. CASE Delete(c, n)
  BY <1>1, <1>2 DEF Delete
<1>3. CASE DeleteCollection(c, n)
  BY <1>1, <1>3 DEF DeleteCollection
<1> QED
  BY <1>2, <1>3
------------------------------------------------------------------------------
(* Reads, refusals and the informer. *)

\* A caller takes h in hand.
Takes(c, h) ==
    /\ held' = [held EXCEPT ![c] = h]
    /\ h # None => h \in Holding /\ Seen(h.obj, Store[h.name], version)

\* A step that leaves store and cache alone
LEMMA QuietKeeps ==
    ASSUME IInv,
           UNCHANGED <<setup, log, version, cache, informer, promised, overwritten>>,
           panicked' \subseteq Callers, used' \in [Buckets -> Nat], Metered',
           held' = held \/ \E c \in Callers : \E h : Takes(c, h)
    PROVE  IInv'
<1>1. Store' = Store
  BY DEF Store
<1>2. held \in [Callers -> Holding \cup {None}]
  BY DEF IInv, TypeOK
<1>3. ASSUME NEW c \in Callers, NEW h, Takes(c, h)
      PROVE  held' \in [Callers -> Holding \cup {None}] /\ SeenHands'
  <2>1. h \in Holding \cup {None}
    BY <1>3 DEF Takes
  <2>2. held' \in [Callers -> Holding \cup {None}]
    BY <1>2, <1>3, <2>1 DEF Takes
  <2>3. SeenHands'
    BY <1>1, <1>2, <1>3 DEF IInv, SeenHands, Takes
  <2> QED
    BY <2>2, <2>3
<1>4. ASSUME held' = held
      PROVE  held' \in [Callers -> Holding \cup {None}] /\ SeenHands'
  BY <1>1, <1>2, <1>4 DEF IInv, SeenHands
<1>5. held' \in [Callers -> Holding \cup {None}] /\ SeenHands'
  BY <1>3, <1>4
<1>6. TypeOK'
  BY <1>5 DEF IInv, TypeOK
<1>7. SeenLog' /\ SeenCache'
  BY <1>1 DEF IInv, SeenLog, SeenCache
<1>8. CachedState'
  BY DEF IInv, CachedState, Filter
<1>9. NothingLost' /\ Locked'
  BY <1>1 DEF IInv, NothingLost, Locked
<1> QED
  BY <1>5, <1>6, <1>7, <1>8, <1>9 DEF IInv

LEMMA SendConfigKeeps ==
    ASSUME IInv, NEW c \in Callers, NEW method, NEW p, NEW body, NEW meant,
           SendConfig(c, method, p, body, meant),
           \A b \in p : \A n \in b.name :
             Send(c, method, n, body, meant) /\ cache' = cache => IInv'
    PROVE  IInv'
<1>1. CASE /\ p = {} \/ \E b \in p : Unnamed(b)
           /\ c \notin panicked
           /\ held' = [held EXCEPT ![c] = None]
           /\ UNCHANGED <<setup, log, version, panicked, cache, informer, used, promised,
                          overwritten>>
  <2>1. used' \in [Buckets -> Nat] /\ Metered' /\ panicked' \subseteq Callers
    BY <1>1 DEF IInv, TypeOK, Metered
  <2>2. Takes(c, None)
    BY <1>1 DEF Takes
  <2> QED
    BY <1>1, <2>1, <2>2, QuietKeeps
<1>2. CASE /\ \E b \in p : Panics(b)
           /\ c \notin panicked
           /\ panicked' = panicked \cup {c}
           /\ UNCHANGED <<setup, log, version, held, cache, informer, used, promised,
                          overwritten>>
  <2>1. used' \in [Buckets -> Nat] /\ Metered'
    BY <1>2 DEF IInv, TypeOK, Metered
  <2>2. panicked' \subseteq Callers
    <3>1. panicked \subseteq Callers
      BY DEF IInv, TypeOK
    <3> QED
      BY <1>2, <3>1
  <2> QED
    BY <1>2, <2>1, <2>2, QuietKeeps
<1>3. CASE \E b \in p :
             /\ ~ Panics(b) /\ b.kind = {setup.clients[c]}
             /\ \E n \in b.name : Send(c, method, n, body, meant)
             /\ UNCHANGED cache
  <2>1. PICK b \in p : (\E n \in b.name : Send(c, method, n, body, meant)) /\ cache' = cache
    BY <1>3
  <2>2. PICK n \in b.name : Send(c, method, n, body, meant)
    BY <2>1
  <2> QED
    BY <2>1, <2>2
<1> QED
  BY <1>1, <1>2, <1>3 DEF SendConfig

\* The configurations that callers build
Configuration ==
    [type : {"object"}, kind : SUBSET Resources, meta : BOOLEAN, name : SUBSET Names,
     labels : SUBSET Applied, spec : SUBSET {0}, status : SUBSET {0}]

\* Every setter keeps the fields that are not its own.
LEMMA Setters ==
    ASSUME NEW b \in Configuration, NEW kind \in Resources, NEW n \in Names
    PROVE  /\ WithKind(b, kind) \in Configuration
           /\ WithKind(b, kind).name = b.name /\ WithKind(b, kind).labels = b.labels
           /\ WithName(b, n) \in Configuration
           /\ WithName(b, n).name = {n} /\ WithName(b, n).labels = b.labels
<1>1. Ensured(b) \in Configuration /\ Ensured(b).name = b.name /\ Ensured(b).labels = b.labels
  BY DEF Ensured, Configuration
<1>2. /\ WithKind(b, kind) \in Configuration
      /\ WithKind(b, kind).name = b.name /\ WithKind(b, kind).labels = b.labels
  BY DEF WithKind, Configuration
<1>3. /\ WithName(b, n) \in Configuration
      /\ WithName(b, n).name = {n} /\ WithName(b, n).labels = b.labels
  BY <1>1 DEF WithName, Configuration
<1> QED
  BY <1>2, <1>3

LEMMA MoreSetters ==
    ASSUME NEW b \in Configuration, NEW entries \in SUBSET Applied
    PROVE  /\ WithLabels(b, entries) \in Configuration
           /\ WithLabels(b, entries).name = b.name
           /\ WithLabels(b, entries).labels = b.labels \cup entries
           /\ WithSpec(b, 0).name = b.name /\ WithSpec(b, 0).labels = b.labels
           /\ WithStatus(b, 0).name = b.name
<1>1. Ensured(b) \in Configuration /\ Ensured(b).name = b.name /\ Ensured(b).labels = b.labels
  BY DEF Ensured, Configuration
<1>2. /\ WithLabels(b, entries) \in Configuration
      /\ WithLabels(b, entries).name = b.name
      /\ WithLabels(b, entries).labels = b.labels \cup entries
  BY <1>1 DEF WithLabels, Configuration
<1>3. /\ WithSpec(b, 0).name = b.name /\ WithSpec(b, 0).labels = b.labels
      /\ WithStatus(b, 0).name = b.name
  BY DEF WithSpec, WithStatus, Configuration
<1> QED
  BY <1>2, <1>3

LEMMA NewConfiguration ==
    New("object") \in Configuration /\ New("object").name = {} /\ New("object").labels = {}
  BY DEF New, Configuration

LEMMA Constructed ==
    ASSUME NEW r \in Resources \ {"cronjobs"}, NEW n \in Names
    PROVE  /\ Constructor(r, n) \in Configuration
           /\ Constructor(r, n).name = {n} /\ Constructor(r, n).labels = {}
<1> DEFINE b == WithName(New("object"), n)
<1>1. b \in Configuration /\ b.name = {n} /\ b.labels = {}
  BY NewConfiguration, Setters
<1>2. Constructor(r, n) \in {WithKind(b, kind) : kind \in Resources}
  BY DEF Resources, Constructor, Greeter, ClusterResource1, ClusterResource2,
         NamespacedResource1, NamespacedResource2
<1> HIDE DEF b
<1>3. PICK kind \in Resources : Constructor(r, n) = WithKind(b, kind)
  BY <1>2
<1> QED
  BY <1>1, <1>3, Setters

LEMMA ApplyingKeeps ==
    ASSUME IInv, NEW c \in Callers,
           \/ \E n \in Names, l1, l2 \in Applied : Apply(c, n, l1, l2)
           \/ \E n \in Names : ApplyStatus(c, n)
           \/ ApplyForKind(c)
    PROVE  IInv'
<1>0. /\ setup.clients[c] \in Resources
      /\ "Apply" \in setup.methods \/ "ApplyStatus" \in setup.methods =>
           setup.clients[c] # "cronjobs"
  BY SetupType, Assumption DEF IInv, TypeOK
<1>1. ASSUME NEW n \in Names, NEW l1 \in Applied, NEW l2 \in Applied, Apply(c, n, l1, l2)
      PROVE  IInv'
  <2> DEFINE b0 == Constructor(setup.clients[c], n)
             b1 == WithLabels(b0, {l1})
             b2 == WithLabels(b1, {l2})
             b == WithSpec(b2, 0)
             applied == [Blank EXCEPT !.labels = {l1, l2}]
             meant == [promised EXCEPT ![n] =
                         IF promised[n] = None THEN applied
                         ELSE [promised[n] EXCEPT !.labels = (promised[n].labels \ Applied) \cup {l1, l2},
                                                  !.spec = 0]]
  <2>1. /\ "Apply" \in setup.methods
        /\ SendConfig(c, "Apply", {b}, [Blank EXCEPT !.labels = b.labels], meant)
    BY <1>1 DEF Apply
  <2>2. b.name = {n} /\ b.labels = {l1, l2}
    <3>1. b0 \in Configuration /\ b0.name = {n} /\ b0.labels = {}
      BY <1>0, <2>1, Constructed
    <3> HIDE DEF b0
    <3>2. b1 \in Configuration /\ b1.name = {n} /\ b1.labels = {l1}
      BY <3>1, MoreSetters
    <3> HIDE DEF b1
    <3>3. b2 \in Configuration /\ b2.name = {n} /\ b2.labels = {l1, l2}
      BY <3>2, MoreSetters
    <3> HIDE DEF b2
    <3> QED
      BY <3>3, MoreSetters
  <2> HIDE DEF b
  <2>3. SendConfig(c, "Apply", {b}, applied, meant)
    BY <2>1, <2>2
  <2>4. ASSUME Send(c, "Apply", n, applied, meant), cache' = cache
        PROVE  IInv'
    <3> HIDE DEF applied
    <3> QED
      BY <2>4, ApplyKeeps DEF applied
  <2> HIDE DEF applied, meant
  <2> QED
    BY <2>2, <2>3, <2>4, SendConfigKeeps
<1>2. ASSUME NEW n \in Names, ApplyStatus(c, n)
      PROVE  IInv'
  <2> DEFINE b0 == Constructor(setup.clients[c], n)
             b == WithStatus(b0, 0)
             meant == [promised EXCEPT ![n].status = 0]
  <2>1. "ApplyStatus" \in setup.methods /\ SendConfig(c, "ApplyStatus", {b}, Blank, meant)
    BY <1>2 DEF ApplyStatus
  <2>2. b.name = {n}
    <3>1. b0 \in Configuration /\ b0.name = {n}
      BY <1>0, <2>1, Constructed
    <3> HIDE DEF b0
    <3> QED
      BY <3>1, MoreSetters
  <2>3. ASSUME Send(c, "ApplyStatus", n, Blank, meant), cache' = cache
        PROVE  IInv'
    BY <2>3, ApplyStatusKeeps
  <2> HIDE DEF b, meant
  <2> QED
    BY <2>1, <2>2, <2>3, SendConfigKeeps
<1>3. CASE ApplyForKind(c)
  <2>1. PICK type : LET p == {b \in ForKind(setup.clients[c], type) : b.type = "object"}
                    IN  \/ SendConfig(c, "ApplyStatus", {WithStatus(b, 0) : b \in p}, Blank,
                                      promised)
                        \/ SendConfig(c, "ApplyStatus", {WithLabels(b, Applied) : b \in p},
                                      Blank, promised)
    BY <1>3 DEF ApplyForKind
  <2> DEFINE p == {b \in ForKind(setup.clients[c], type) : b.type = "object"}
  <2>2. \A b \in p : b = New("object")
    <3>1. New(type).type = type
      BY DEF New
    <3> QED
      BY <3>1 DEF ForKind
  <2> HIDE DEF p
  <2>3. /\ WithStatus(New("object"), 0).name = {}
        /\ WithLabels(New("object"), Applied).name = {}
    BY NewConfiguration, MoreSetters
  <2>4. PICK q : /\ SendConfig(c, "ApplyStatus", q, Blank, promised)
                 /\ \A b \in q : b.name = {}
    <3>1. CASE SendConfig(c, "ApplyStatus", {WithStatus(b, 0) : b \in p}, Blank, promised)
      BY <2>2, <2>3, <3>1
    <3>2. CASE SendConfig(c, "ApplyStatus", {WithLabels(b, Applied) : b \in p}, Blank, promised)
      BY <2>2, <2>3, <3>2
    <3> QED
      BY <2>1, <3>1, <3>2 DEF p
  <2> QED
    BY <2>4, SendConfigKeeps
<1> QED
  BY <1>1, <1>2, <1>3

LEMMA ReadingKeeps ==
    ASSUME IInv,
           \/ \E c \in Callers, n \in Names : Get(c, n) \/ ReadCache(c, n)
           \/ \E c \in Callers : Discover(c)
           \/ \E b \in Buckets : Refill(b)
    PROVE  IInv'
<1>0. /\ TypeOK /\ Metered
      /\ panicked \subseteq Callers /\ used \in [Buckets -> Nat]
      /\ Store \in Stores /\ cache \in Stores
  BY StoreType DEF IInv, TypeOK, Stores
<1>1. ASSUME NEW c \in Callers, NEW n \in Names, Get(c, n)
      PROVE  IInv'
  <2>1. /\ Throttle(GroupOf(setup.clients[c]))
        /\ UNCHANGED <<setup, log, version, panicked, cache, informer, promised, overwritten>>
    BY <1>1 DEF Get
  <2>2. used' \in [Buckets -> Nat] /\ Metered'
    BY <1>0, <2>1, GroupType, Throttled
  <2>3. CASE Store[n] = None
    <3>1. Takes(c, None)
      BY <1>1, <2>3 DEF Get, Takes
    <3> QED
      BY <1>0, <2>1, <2>2, <3>1, QuietKeeps
  <2>4. CASE Store[n] # None
    <3>1. Store[n] \in Object
      BY <1>0, <2>4 DEF Stores
    <3>2. Into(setup.clients[c], Store[n]) = Store[n]
      BY <1>0, <3>1, SetupType, CarriesAll
    <3>3. held' = [held EXCEPT ![c] = [name |-> n, obj |-> Store[n], cached |-> FALSE]]
      BY <1>1, <2>4, <3>2 DEF Get
    <3>4. Seen(Store[n], Store[n], version)
      BY SeenStore DEF IInv
    <3>5. Takes(c, [name |-> n, obj |-> Store[n], cached |-> FALSE])
      BY <3>1, <3>3, <3>4 DEF Takes, Holding
    <3> QED
      BY <1>0, <2>1, <2>2, <3>5, QuietKeeps
  <2> QED
    BY <2>3, <2>4
<1>2. ASSUME NEW c \in Callers, NEW n \in Names, ReadCache(c, n)
      PROVE  IInv'
  <2>1. /\ used' \in [Buckets -> Nat] /\ Metered'
        /\ UNCHANGED <<setup, log, version, panicked, cache, informer, promised, overwritten>>
    BY <1>0, <1>2 DEF ReadCache, Metered
  <2>2. Takes(c, [name |-> n, obj |-> cache[n], cached |-> TRUE])
    <3>1. cache[n] \in Object
      BY <1>0, <1>2 DEF ReadCache, Stores
    <3>2. Seen(cache[n], Store[n], version)
      BY DEF IInv, SeenCache
    <3> QED
      BY <1>2, <3>1, <3>2 DEF ReadCache, Takes, Holding
  <2> QED
    BY <1>0, <2>1, <2>2, QuietKeeps
<1>3. ASSUME NEW c \in Callers, Discover(c)
      PROVE  IInv'
  <2>1. used' \in [Buckets -> Nat] /\ Metered'
    BY <1>0, <1>3, GroupType, Throttled DEF Discover
  <2> QED
    BY <1>0, <1>3, <2>1, QuietKeeps DEF Discover
<1>4. ASSUME NEW b \in Buckets, Refill(b)
      PROVE  IInv'
  <2>1. used' \in [Buckets -> Nat]
    BY <1>0, <1>4 DEF Refill
  <2>2. Metered'
    <3>1. setup.config.burst \in Int
      BY <1>0, SetupType DEF Setup, Configs
    <3> QED
      BY <1>0, <1>4, <3>1 DEF Refill, Metered, Buckets, Groups
  <2> QED
    BY <1>0, <1>4, <2>1, <2>2, QuietKeeps DEF Refill
<1> QED
  BY <1>1, <1>2, <1>3, <1>4

\* What a selector shows of a store is part of that store.
LEMMA FilterType ==
    ASSUME TypeOK, NEW selector, NEW store \in Stores
    PROVE  /\ Filter(selector, store) \in Stores
           /\ \A n \in Names : Filter(selector, store)[n] \in {store[n], None}
<1>1. Informers[setup.informer].type \in Resources
  BY SetupType DEF Informers, Resources, GreeterInformer, ClusterResourceInformer1,
     ClusterResourceInformer2, NamespacedResourceInformer1, NamespacedResourceInformer2,
     CronJobInformer
<1>2. \A n \in Names : store[n] # None =>
        Into(Informers[setup.informer].type, store[n]) = store[n]
  BY <1>1, CarriesAll DEF Stores
<1> QED
  BY <1>2 DEF Filter, Stores

LEMMA Options ==
    /\ Listing.selector = setup.selector
    /\ Watching.selector = setup.selector
    /\ Watching.from = "seen"
  BY DEF Listing, Watching, ListFunc, WatchFunc, Tweaked

\* A step of the informer
LEMMA InformerKeeps ==
    ASSUME IInv, UNCHANGED <<setup, version, held, panicked, promised, overwritten>>,
           log' \in Seq(Stores), log' # <<>>, Store' = Store,
           \A i \in DOMAIN log' : \E j \in DOMAIN log : log'[i] = log[j],
           cache' \in Stores, SeenCache', CachedState',
           informer' \in Informer, used' \in [Buckets -> Nat], Metered'
    PROVE  IInv'
<1>1. TypeOK'
  BY DEF IInv, TypeOK, Stores
<1>2. SeenLog' /\ SeenHands'
  BY DEF IInv, SeenLog, SeenHands
<1>3. NothingLost' /\ Locked'
  BY DEF IInv, NothingLost, Locked
<1> QED
  BY <1>1, <1>2, <1>3 DEF IInv

LEMMA ListKeeps ==
    ASSUME IInv, List
    PROVE  IInv'
<1>0. /\ TypeOK /\ Metered /\ SeenLog
      /\ log \in Seq(Stores) /\ Len(log) \in Nat \ {0} /\ DOMAIN log = 1..Len(log)
  BY StoreType, LenProperties DEF IInv, TypeOK, Stores
<1>1. /\ UNCHANGED <<setup, version, held, panicked, promised, overwritten>>
      /\ Throttle(GroupOf(Client))
      /\ informer' = [pc |-> "watch", expired |-> FALSE]
  BY DEF List, Fetch
<1>2. PICK i \in DOMAIN log :
        cache' = Filter(setup.selector, log[i]) /\ log' = SubSeq(log, i, Len(log))
  BY Options DEF List
<1>3. /\ log' \in Seq(Stores) /\ Len(log') = Len(log) - i + 1
      /\ DOMAIN log' = 1..(Len(log) - i + 1)
      /\ \A k \in 1..(Len(log) - i + 1) : log'[k] = log[i + k - 1]
  BY <1>0, <1>2, SubSeqProperties, LenProperties
<1>4. log' # <<>> /\ Store' = Store /\ log'[1] = log[i]
  BY <1>0, <1>3, EmptySeq DEF Store
<1>5. \A k \in DOMAIN log' : \E j \in DOMAIN log : log'[k] = log[j]
  <2>1. \A k \in DOMAIN log' : i + k - 1 \in DOMAIN log
    BY <1>0, <1>3
  <2> QED
    BY <1>3, <2>1
<1>6. log[i] \in Stores
  BY <1>0, ElementOfSeq
<1>7. cache' \in Stores /\ SeenCache'
  <2>1. \A n \in Names : cache'[n] \in {log[i][n], None}
    BY <1>0, <1>2, <1>6, FilterType
  <2>2. cache' \in Stores
    BY <1>0, <1>2, <1>6, FilterType
  <2> QED
    BY <1>0, <1>1, <1>4, <2>1, <2>2 DEF SeenCache, SeenLog, Seen
<1>8. CachedState'
  BY <1>1, <1>2, <1>4 DEF CachedState, Filter
<1>9. used' \in [Buckets -> Nat] /\ Metered' /\ informer' \in Informer
  BY <1>0, <1>1, GroupType, Throttled DEF Informer
<1> QED
  BY <1>1, <1>3, <1>4, <1>5, <1>7, <1>8, <1>9, InformerKeeps

LEMMA WatchKeeps ==
    ASSUME IInv, Watch \/ Close
    PROVE  IInv'
<1>0. /\ TypeOK /\ Metered /\ Store \in Stores /\ cache \in Stores
      /\ log \in Seq(Stores) /\ log # <<>> /\ Len(log) \in DOMAIN log
      /\ informer \in Informer /\ used \in [Buckets -> Nat]
      /\ setup.backend \in {"server", "tracker"}
  BY StoreType, SetupType DEF IInv, TypeOK, Stores
<1>1. /\ UNCHANGED <<setup, version, held, panicked, promised, overwritten>>
      /\ used' \in [Buckets -> Nat] /\ Metered'
  <2>1. CASE Watch
    BY <1>0, <2>1, GroupType, Throttled DEF Watch, Fetch
  <2>2. CASE Close
    BY <1>0, <2>2 DEF Close, Metered
  <2> QED
    BY <2>1, <2>2
<1>2. /\ informer' \in Informer
      /\ \/ UNCHANGED <<log, cache>>
         \/ setup.backend = "tracker" /\ WatchFromNow(Nothing)
  <2>1. CASE Close
    BY <1>0, <2>1 DEF Close, Informer
  <2>2. CASE Watch
    <3>1. \/ informer' = [informer EXCEPT !.pc = "on"] /\ UNCHANGED <<log, cache>>
          \/ /\ informer' = [pc |-> "list", expired |-> TRUE]
             /\ UNCHANGED <<log, cache>>
          \/ /\ setup.backend = "tracker" /\ WatchFromNow(Nothing)
             /\ informer' = [informer EXCEPT !.pc = "on"]
      <4>1. Watching.from = "seen"
        BY Options
      <4>2. WatchFromNow(Nothing) => informer' = [informer EXCEPT !.pc = "on"]
        BY DEF WatchFromNow
      <4>3. CASE setup.backend = "server"
        BY <2>2, <4>1, <4>3 DEF Watch
      <4>4. CASE setup.backend = "tracker"
        <5>1. setup.backend # "server"
          BY <4>4
        <5>2. WatchFromNow(Nothing)
          BY <2>2, <4>4, <5>1, Zenon DEF Watch
        <5> QED
          BY <4>2, <4>4, <5>2
      <4> QED
        BY <1>0, <4>3, <4>4
    <3>2. [informer EXCEPT !.pc = "on"] \in Informer
      BY <1>0 DEF Informer
    <3>3. [pc |-> "list", expired |-> TRUE] \in Informer
      BY DEF Informer
    <3> QED
      BY <3>1, <3>2, <3>3
  <2> QED
    BY <2>1, <2>2
<1>3. CASE UNCHANGED <<log, cache>>
  <2>1. Store' = Store /\ SeenCache'
    BY <1>1, <1>3 DEF IInv, SeenCache, Store
  <2>2. CachedState'
    BY <1>1, <1>3 DEF IInv, CachedState, Filter
  <2> QED
    BY <1>0, <1>1, <1>2, <1>3, <2>1, <2>2, InformerKeeps
<1>4. CASE setup.backend = "tracker" /\ WatchFromNow(Nothing)
  <2>1. log' = <<Store>> /\ cache' = cache
    BY <1>0, <1>4 DEF WatchFromNow, Nothing, Stores
  <2>2. /\ log' \in Seq(Stores) /\ log' # <<>> /\ Store' = Store
        /\ DOMAIN log' = {1} /\ log'[1] = log[Len(log)]
    BY <1>0, <2>1 DEF Store
  <2>3. SeenCache' /\ CachedState'
    BY <1>1, <1>4, <2>1, <2>2 DEF IInv, SeenCache, CachedState
  <2> QED
    BY <1>0, <1>1, <1>2, <2>1, <2>2, <2>3, InformerKeeps
<1> QED
  BY <1>2, <1>3, <1>4

LEMMA EventKeeps ==
    ASSUME IInv, Event
    PROVE  IInv'
<1> DEFINE selector == IF setup.backend = "server" THEN Watching.selector ELSE {}
           old == Filter(selector, log[1])
           new == Filter(selector, log[2])
<1>0. /\ TypeOK /\ Metered /\ SeenLog /\ SeenCache /\ cache \in Stores
      /\ log \in Seq(Stores) /\ Len(log) \in Nat /\ DOMAIN log = 1..Len(log)
      /\ informer \in Informer /\ used \in [Buckets -> Nat]
  BY StoreType, LenProperties DEF IInv, TypeOK, Stores
<1>1. /\ UNCHANGED <<setup, version, held, panicked, informer, used, promised, overwritten>>
      /\ Len(log) > 1 /\ log' = Tail(log)
      /\ cache' = [n \in Names |-> IF old[n] = new[n] THEN cache[n] ELSE new[n]]
  BY DEF Event
<1>2. /\ log' \in Seq(Stores) /\ Len(log') = Len(log) - 1
      /\ DOMAIN log' = 1..(Len(log) - 1)
      /\ \A i \in 1..(Len(log) - 1) : log'[i] = log[i + 1]
  BY <1>0, <1>1, HeadTailProperties, LenProperties
<1>3. log' # <<>> /\ Store' = Store /\ log'[1] = log[2]
  <2>1. Len(log) - 1 \in 1..(Len(log) - 1) /\ 1 \in 1..(Len(log) - 1)
    BY <1>0, <1>1
  <2>2. log'[Len(log')] = log[Len(log) - 1 + 1] /\ log'[1] = log[2]
    BY <1>2, <2>1
  <2>3. log' # <<>>
    <3>1. Len(log) > 1 /\ Len(log) \in Nat /\ Len(log') = Len(log) - 1
      BY <1>0, <1>1, <1>2
    <3>2. Len(log') # 0
      BY <3>1
    <3>3. Len(<<>>) = 0
      OBVIOUS
    <3> QED
      BY <3>2, <3>3
  <2> QED
    <3>1. Len(log) - 1 + 1 = Len(log)
      BY <1>0
    <3>2. log'[Len(log')] = log[Len(log)]
      BY <2>2, <3>1
    <3>3. Store' = Store
      BY <3>2 DEF Store
    <3> QED
      BY <2>2, <2>3, <3>3
<1>4. \A i \in DOMAIN log' : \E j \in DOMAIN log : log'[i] = log[j]
  <2>1. \A i \in DOMAIN log' : i + 1 \in DOMAIN log
    BY <1>0, <1>2
  <2> QED
    BY <1>2, <2>1
<1>5. log[1] \in Stores /\ log[2] \in Stores /\ 2 \in DOMAIN log
  BY <1>0, <1>1, ElementOfSeq
<1>6. /\ old \in Stores /\ new \in Stores
      /\ \A n \in Names : new[n] \in {log[2][n], None}
  BY <1>0, <1>5, FilterType
<1>7. ASSUME setup.backend = "server"
      PROVE  cache' = Filter(setup.selector, log[2])
  <2>1. cache = old /\ new = Filter(setup.selector, log[2])
    BY <1>7, Options DEF IInv, CachedState
  <2> HIDE DEF old, new
  <2> QED
    BY <1>1, <1>6, <2>1 DEF Stores
<1> HIDE DEF old, new
<1>8. cache' \in Stores
  BY <1>0, <1>1, <1>6 DEF Stores
<1>9. SeenCache'
  BY <1>0, <1>1, <1>3, <1>5, <1>6 DEF SeenCache, SeenLog, Seen
<1>10. CachedState'
  BY <1>1, <1>3, <1>7 DEF CachedState, Filter
<1>11. Metered'
  BY <1>0, <1>1 DEF Metered
<1> QED
  BY <1>0, <1>1, <1>2, <1>3, <1>4, <1>8, <1>9, <1>10, <1>11, InformerKeeps

------------------------------------------------------------------------------
(* Theorems. *)

LEMMA Starts ==
    ASSUME Init
    PROVE  IInv
<1>1. /\ setup \in Setups /\ ~ Refused(setup.config)
      /\ setup.config.qps \in {-1, 0, 1} /\ setup.config.burst \in Int
      /\ setup.config.limiter => setup.config.burst > 0
  BY Assumption DEF Init, Setup, Configs
<1>2. Nothing \in Stores /\ \A n \in Names : Nothing[n] = None
  BY DEF Nothing, Stores
<1>3. log \in Seq(Stores) /\ log # <<>> /\ Store = Nothing /\ log[1] = Nothing /\ DOMAIN log = {1}
  BY <1>2 DEF Init, Store
<1>4. TypeOK
  BY <1>1, <1>2, <1>3 DEF Init, TypeOK, Stores, Informer, Buckets
<1>5. SeenLog /\ SeenCache /\ SeenHands /\ Locked
  BY <1>2, <1>3 DEF Init, SeenLog, SeenCache, SeenHands, Locked, Seen
<1>6. NothingLost
  BY <1>2, <1>3 DEF Init, NothingLost
<1>7. CachedState
  BY <1>2, <1>3 DEF Init, CachedState, Filter, Nothing
<1>8. Metered
  BY <1>1 DEF Init, Metered, Refused, Buckets
<1> QED
  BY <1>4, <1>5, <1>6, <1>7, <1>8 DEF IInv

LEMMA StepKeeps ==
    ASSUME IInv, [Next]_vars
    PROVE  IInv'
<1>1. ASSUME NEW c \in Callers, Writing(c)
      PROVE  IInv'
  BY <1>1, UpdateSpecKeeps, UpdateLabelsKeeps, UpdateStatusKeeps, CreateKeeps, PatchKeeps,
     DeleteKeeps, ApplyingKeeps DEF Writing
<1>2. CASE \/ \E c \in Callers, n \in Names : Get(c, n) \/ ReadCache(c, n)
           \/ \E c \in Callers : Discover(c)
           \/ \E b \in Buckets : Refill(b)
  BY <1>2, ReadingKeeps
<1>3. CASE List \/ Watch \/ Event \/ Close
  BY <1>3, ListKeeps, WatchKeeps, EventKeeps
<1>4. CASE UNCHANGED vars
  <2>1. used' \in [Buckets -> Nat] /\ Metered' /\ panicked' \subseteq Callers
    BY <1>4 DEF vars, IInv, TypeOK, Metered
  <2> QED
    BY <1>4, <2>1, QuietKeeps DEF vars
<1> QED
  BY <1>1, <1>2, <1>3, <1>4 DEF Next

LEMMA Invariance == Spec => []IInv
<1> QED
  BY Starts, StepKeeps, PTL DEF Spec

\* The store, the informer's indexer, the callers' objects and the rate limiters keep
\* their types, whatever clients, methods and versions of the API are in use.
THEOREM Typed == Spec => []TypeOK
<1>1. IInv => TypeOK
  BY DEF IInv
<1> QED
  BY <1>1, Invariance, PTL

\* Every accepted call of a generated client does what its comment says, and nothing
\* it did is undone by a caller that had not seen it: the store is what all of
\* the calls together were meant to make of it.
THEOREM Lossless == Spec => []NothingLost
<1>1. IInv => NothingLost
  BY DEF IInv
<1> QED
  BY <1>1, Invariance, PTL

\* The indexer behind a lister always shows one state of the store, although callers
\* change what the deep copies gave them and the server ends and refuses watches.
THEOREM CacheShows == Spec => []CachedState
<1>1. IInv => CachedState
  BY DEF IInv
<1> QED
  BY <1>1, Invariance, PTL

\* The clients that NewForConfigAndClient builds from one config share its burst.
THEOREM OneBudget == Spec => []SharedBudget
<1>1. IInv => SharedBudget
  <2> SUFFICES ASSUME IInv, setup.config.qps > 0
               PROVE  used["shared"] + used["greeter"] + used["v1alpha1"] + used["v1alpha2"]
                        + used["discovery"] + used["other"] <= setup.config.burst
    BY DEF SharedBudget
  <2>1. /\ used["greeter"] = 0 /\ used["v1alpha1"] = 0 /\ used["v1alpha2"] = 0
        /\ used["discovery"] = 0 /\ used["other"] = 0
        /\ used["shared"] <= setup.config.burst
    BY DEF IInv, Metered, Groups
  <2>2. used["shared"] \in Nat /\ setup.config.burst \in Int
    BY SetupType DEF IInv, TypeOK, Buckets, Setup, Configs
  <2> QED
    BY <2>1, <2>2
<1> QED
  BY <1>1, Invariance, PTL
==============================================================================
