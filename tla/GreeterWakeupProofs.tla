------------------------- MODULE GreeterWakeupProofs -------------------------
(***************************************************************************)
(* Why no key with work left is dropped: whatever gives a Greeter          *)
(* something to do also queues its key, and a worker that takes the key    *)
(* away either deals with what is cached or brings the key back.           *)
(***************************************************************************)
EXTENDS GreeterSafetyProofs

\* How far Run is tells what the process has in memory.
Stages ==
    /\ run # "returned" => ~ queue.shutdown
    /\ run = "down" => greeterCache = Nothing
    /\ run \in {"down", "starting"} => \A w \in Workers : workers[w].pc = "idle"
    /\ run = "started" => synced = {"greeters", "pods"}

\* While an event of a Greeter is on its way, neither the cache nor an event before
\* it is what is stored: a list that overtakes the event sees a difference.
Overtaken ==
    \A i \in DOMAIN greeterWatch :
      LET n == greeterWatch[i].key
      IN  greeters[n] # None =>
            /\ greeterCache[n] # greeters[n]
            /\ \A j \in DOMAIN greeterWatch :
                 j < i /\ greeterWatch[j].key = n => greeterWatch[j].obj # greeters[n]

\* The cached Greeter g, with the cached pod p, has work left.
Work(g, p) ==
    /\ g # None
    /\ \/ g.phase = Unset
       \/ g.phase = "Running" /\ ControlledPod(p, g) /\ p.phase \in Verdicts

Needs(n) == Work(greeterCache[n], podCache[n])

\* The key is queued, or will be.
Alert(n) ==
    \/ n \in queue.dirty
    \/ queue.waiting[n] # NoTimer
    \/ \E i \in DOMAIN greeterWatch : greeterWatch[i].key = n

\* The worker x has the key n and will see what the Greeter g needs, or bring n back.
Attends(x, n, g) ==
    /\ x.key = n
    /\ \/ x.pc \in {"sync", "update", "error", "later"}
       \/ x.pc = "pod" /\ x.inst = g

Attended ==
    \A n \in Names :
      Informing /\ Needs(n) /\ ~ Alert(n)
        => \E w \in Workers : Attends(workers[w], n, greeterCache[n])

Wakeful == Stages /\ Overtaken /\ Attended
------------------------------------------------------------------------------
(* Events. *)

\* A write makes an object that nobody has seen.
LEMMA Unseen ==
    ASSUME NEW s \in Greeter \cup {None}, NEW t \in Greeter, NEW u \in Nat,
           t.uid > u \/ (s # None /\ t.uid = s.uid /\ t.rv > s.rv),
           NEW g \in Greeter \cup {None}, Seen(g, s, u)
    PROVE  g # t
<1>1. t # None /\ t.uid \in Nat /\ t.rv \in Nat
  BY NoneAssumption, BoundsAssumption DEF Greeter
<1>2. SUFFICES ASSUME g = t PROVE FALSE
  OBVIOUS
<1>3. CASE t.uid > u
  BY <1>1, <1>2, <1>3 DEF Seen
<1>4. CASE s # None /\ t.uid = s.uid /\ t.rv > s.rv
  <2>1. s.rv \in Nat
    BY <1>4, GreeterFields
  <2>2. g.rv <= s.rv
    BY <1>1, <1>2, <1>4 DEF Seen
  <2> QED
    BY <1>1, <1>2, <1>4, <2>1, <2>2
<1> QED
  BY <1>3, <1>4

LEMMA SentAppends ==
    ASSUME NEW Objects, NEW watch \in Seq(Event(Objects)), NEW informer \in synced,
           NEW n \in Names, NEW obj \in Objects \cup {None}
    PROVE  /\ \A k \in 1..Len(watch) : Sent(watch, informer, n, obj)[k] = watch[k]
           /\ Sent(watch, informer, n, obj)[Len(watch) + 1].key = n
           /\ DOMAIN Sent(watch, informer, n, obj) = 1..(Len(watch) + 1)
<1> DEFINE e == [key |-> n, obj |-> obj]
           next == Sent(watch, informer, n, obj)
<1>1. e \in Event(Objects) /\ e.key = n
  BY DEF Event
<1>2. next = Append(watch, e)
  BY DEF Sent
<1> HIDE DEF e, next
<1>3. /\ \A k \in 1..Len(watch) : next[k] = watch[k]
      /\ next[Len(watch) + 1].key = n
      /\ DOMAIN next = 1..(Len(watch) + 1)
  BY <1>1, <1>2, AppendProperties, LenProperties
<1> QED
  BY <1>3 DEF next

\* An event stays where it is when another is sent.
LEMMA SentKept ==
    ASSUME NEW Objects, NEW watch \in Seq(Event(Objects)), NEW informer,
           NEW n \in Names, NEW obj \in Objects \cup {None}, NEW i \in DOMAIN watch
    PROVE  /\ i \in DOMAIN Sent(watch, informer, n, obj)
           /\ Sent(watch, informer, n, obj)[i] = watch[i]
<1> DEFINE next == Sent(watch, informer, n, obj)
<1>1. DOMAIN watch = 1..Len(watch) /\ Len(watch) \in Nat
  BY LenProperties
<1>2. informer \in synced =>
        /\ \A k \in 1..Len(watch) : next[k] = watch[k]
        /\ next[Len(watch) + 1].key = n
        /\ DOMAIN next = 1..(Len(watch) + 1)
  BY SentAppends
<1>4. informer \notin synced => next = watch
  BY DEF Sent
<1> HIDE DEF next
<1>5. informer \in synced => i \in DOMAIN next /\ next[i] = watch[i]
  BY <1>1, <1>2
<1>6. i \in DOMAIN next /\ next[i] = watch[i]
  BY <1>4, <1>5
<1> QED
  BY <1>6 DEF next

\* The new event comes last.
LEMMA SentLast ==
    ASSUME NEW Objects, NEW watch \in Seq(Event(Objects)), NEW informer \in synced,
           NEW n \in Names, NEW obj \in Objects \cup {None}
    PROVE  \E i \in DOMAIN Sent(watch, informer, n, obj) :
             Sent(watch, informer, n, obj)[i].key = n
<1> DEFINE next == Sent(watch, informer, n, obj)
<1>1. DOMAIN watch = 1..Len(watch) /\ Len(watch) \in Nat
  BY LenProperties
<1>2. informer \in synced =>
        /\ \A k \in 1..Len(watch) : next[k] = watch[k]
        /\ next[Len(watch) + 1].key = n
        /\ DOMAIN next = 1..(Len(watch) + 1)
  BY SentAppends
<1> HIDE DEF next
<1>4. Len(watch) + 1 \in DOMAIN next /\ next[Len(watch) + 1].key = n
  BY <1>1, <1>2
<1> QED
  BY <1>4 DEF next

\* An event that is not the last was there before.
LEMMA SentOrder ==
    ASSUME NEW Objects, NEW watch \in Seq(Event(Objects)), NEW informer,
           NEW n \in Names, NEW obj \in Objects \cup {None},
           NEW i \in DOMAIN Sent(watch, informer, n, obj),
           NEW j \in DOMAIN Sent(watch, informer, n, obj), j < i
    PROVE  j \in DOMAIN watch /\ Sent(watch, informer, n, obj)[j] = watch[j]
<1> DEFINE next == Sent(watch, informer, n, obj)
<1>1. DOMAIN watch = 1..Len(watch) /\ Len(watch) \in Nat
  BY LenProperties
<1>2. informer \in synced =>
        /\ \A k \in 1..Len(watch) : next[k] = watch[k]
        /\ next[Len(watch) + 1].key = n
        /\ DOMAIN next = 1..(Len(watch) + 1)
  BY SentAppends
<1>4. informer \notin synced => next = watch
  BY DEF Sent
<1>5. i \in DOMAIN next /\ j \in DOMAIN next
  OBVIOUS
<1> HIDE DEF next
<1>6. ASSUME informer \in synced
      PROVE  j \in DOMAIN watch /\ next[j] = watch[j]
  <2>1. j \in 1..Len(watch)
    BY <1>1, <1>2, <1>5, <1>6
  <2> QED
    BY <1>1, <1>2, <1>6, <2>1
<1>7. j \in DOMAIN watch /\ next[j] = watch[j]
  BY <1>4, <1>5, <1>6
<1> QED
  BY <1>7 DEF next

\* A write that makes something new, or deletes.
LEMMA StoreOvertaken ==
    ASSUME TypeInv, Safe, Overtaken, NEW n \in Names, NEW g \in Greeter \cup {None},
           StoreGreeter(n, g), UNCHANGED greeterCache,
           g # None =>
             \/ g.uid > lastUid
             \/ greeters[n] # None /\ g.uid = greeters[n].uid /\ g.rv > greeters[n].rv
    PROVE  Overtaken'
<1>1. /\ lastUid \in Nat /\ greeters \in [Names -> Greeter \cup {None}]
      /\ greeterCache \in [Names -> Greeter \cup {None}]
      /\ greeterWatch \in Seq(Event(Greeter))
  BY DEF TypeInv, TypeOK
<1>2. /\ greeters' = [greeters EXCEPT ![n] = g]
      /\ greeterWatch' = Sent(greeterWatch, "greeters", n, g)
      /\ greeterCache' = greeterCache
  BY DEF StoreGreeter
<1>3. ASSUME g # None, NEW h \in Greeter \cup {None}, Seen(h, greeters[n], lastUid)
      PROVE  h # g
  <2>1. g \in Greeter /\ greeters[n] \in Greeter \cup {None}
    BY <1>1, <1>3
  <2> QED
    BY <1>1, <1>3, <2>1, Unseen
<1>4. \A j \in DOMAIN greeterWatch :
        /\ greeterWatch[j].obj \in Greeter \cup {None}
        /\ Seen(greeterWatch[j].obj, greeters[greeterWatch[j].key], lastUid)
  <2> TAKE j \in DOMAIN greeterWatch
  <2>1. greeterWatch[j] \in Event(Greeter)
    BY <1>1, ElementOfSeq, LenProperties
  <2> QED
    BY <2>1 DEF Event, Safe, Snapshots
<1>order. \A i, j \in DOMAIN greeterWatch' :
            j < i => j \in DOMAIN greeterWatch /\ greeterWatch'[j] = greeterWatch[j]
  <2> DEFINE next == Sent(greeterWatch, "greeters", n, g)
  <2>1. ASSUME NEW i \in DOMAIN next, NEW j \in DOMAIN next, j < i
        PROVE  j \in DOMAIN greeterWatch /\ next[j] = greeterWatch[j]
    <3>1. greeterWatch \in Seq(Event(Greeter))
      BY <1>1
    <3> QED
      BY <2>1, <3>1, SentOrder
  <2> QED
    BY <1>2, <2>1
<1>5. ASSUME NEW i \in DOMAIN greeterWatch', NEW m, m = greeterWatch'[i].key,
             greeters'[m] # None
      PROVE  /\ greeterCache'[m] # greeters'[m]
             /\ \A j \in DOMAIN greeterWatch' :
                  j < i /\ greeterWatch'[j].key = m => greeterWatch'[j].obj # greeters'[m]
  <2>1. \A j \in DOMAIN greeterWatch' :
          j < i => j \in DOMAIN greeterWatch /\ greeterWatch'[j] = greeterWatch[j]
    BY <1>order
  <2>2. CASE m = n
    <3>1. greeters'[m] = g /\ g # None
      BY <1>1, <1>2, <1>5, <2>2
    <3>2. greeterCache[n] # g
      BY <1>1, <1>3, <3>1 DEF Safe, Snapshots
    <3>3. ASSUME NEW j \in DOMAIN greeterWatch', j < i, greeterWatch'[j].key = m
          PROVE  greeterWatch'[j].obj # g
      BY <1>3, <1>4, <2>1, <2>2, <3>1, <3>3
    <3> QED
      BY <1>2, <2>2, <3>1, <3>2, <3>3
  <2>3. CASE m # n
    <3>1. i \in DOMAIN greeterWatch /\ greeterWatch'[i] = greeterWatch[i]
      <4>1. \/ greeterWatch'[i] = [key |-> n, obj |-> g]
            \/ i \in DOMAIN greeterWatch /\ greeterWatch'[i] = greeterWatch[i]
        BY <1>1, <1>2, SentElements
      <4> QED
        BY <1>5, <2>3, <4>1
    <3>2. m \in Names
      <4>1. greeterWatch[i] \in Event(Greeter)
        BY <1>1, <3>1, ElementOfSeq, LenProperties
      <4> QED
        BY <1>5, <3>1, <4>1 DEF Event
    <3>3. greeters'[m] = greeters[m]
      BY <1>1, <1>2, <2>3, <3>2
    <3> QED
      BY <1>2, <1>5, <2>1, <3>1, <3>3 DEF Overtaken
  <2> QED
    BY <2>2, <2>3
<1> QED
  BY <1>5 DEF Overtaken

\* The first event of the watch is handled.
LEMMA HeadOvertaken ==
    ASSUME TypeInv, Overtaken, greeterWatch # <<>>, UNCHANGED greeters,
           greeterWatch' = Tail(greeterWatch),
           greeterCache' = [greeterCache EXCEPT ![Head(greeterWatch).key] = Head(greeterWatch).obj]
    PROVE  Overtaken'
<1>1. /\ greeterCache \in [Names -> Greeter \cup {None}]
      /\ greeterWatch \in Seq(Event(Greeter))
  BY DEF TypeInv, TypeOK
<1>2. 1 \in DOMAIN greeterWatch /\ Head(greeterWatch) = greeterWatch[1]
  BY <1>1, HeadTailProperties, LenProperties, EmptySeq
<1>3. \A i \in DOMAIN greeterWatch' :
        i + 1 \in DOMAIN greeterWatch /\ greeterWatch'[i] = greeterWatch[i + 1]
  BY <1>1, TailElements
<1>4. \A i \in DOMAIN greeterWatch' : i \in Nat /\ i >= 1
  BY <1>1, HeadTailProperties, LenProperties
<1>5. ASSUME NEW i \in DOMAIN greeterWatch', NEW n, n = greeterWatch'[i].key,
             greeters[n] # None
      PROVE  /\ greeterCache'[n] # greeters[n]
             /\ \A j \in DOMAIN greeterWatch' :
                  j < i /\ greeterWatch'[j].key = n => greeterWatch'[j].obj # greeters[n]
  <2>1. /\ i + 1 \in DOMAIN greeterWatch /\ greeterWatch[i + 1].key = n
        /\ i \in Nat /\ 1 < i + 1
    BY <1>3, <1>4, <1>5
  <2>2. /\ greeterCache[n] # greeters[n]
        /\ \A j \in DOMAIN greeterWatch :
             j < i + 1 /\ greeterWatch[j].key = n => greeterWatch[j].obj # greeters[n]
    BY <1>5, <2>1 DEF Overtaken
  <2>3. greeterCache'[n] # greeters[n]
    <3>1. CASE n = Head(greeterWatch).key
      <4>1. n \in Names
        <5>1. greeterWatch[i + 1] \in Event(Greeter)
          BY <1>1, <2>1, ElementOfSeq, LenProperties
        <5> QED
          BY <2>1, <5>1 DEF Event
      <4> QED
        BY <1>1, <1>2, <2>1, <2>2, <3>1, <4>1
    <3>2. CASE n # Head(greeterWatch).key
      BY <1>1, <2>2, <3>2
    <3> QED
      BY <3>1, <3>2
  <2>4. ASSUME NEW j \in DOMAIN greeterWatch', j < i, greeterWatch'[j].key = n
        PROVE  greeterWatch'[j].obj # greeters[n]
    <3>1. j + 1 \in DOMAIN greeterWatch /\ greeterWatch'[j] = greeterWatch[j + 1] /\ j + 1 < i + 1
      BY <1>3, <1>4, <2>1, <2>4
    <3> QED
      BY <2>2, <2>4, <3>1
  <2> QED
    BY <2>3, <2>4
<1> QED
  BY <1>5 DEF Overtaken
LEMMA SameOvertaken ==
    ASSUME Overtaken, UNCHANGED <<greeters, greeterWatch, greeterCache>>
    PROVE  Overtaken'
  BY DEF Overtaken

LEMMA EmptyOvertaken ==
    ASSUME greeterWatch' = <<>>
    PROVE  Overtaken'
<1>1. DOMAIN greeterWatch' = {}
  OBVIOUS
<1> QED
  BY <1>1 DEF Overtaken

------------------------------------------------------------------------------
(* Keys. *)

\* A step that gives nobody new work and takes no key from anybody who has work with it.
LEMMA AttendedKept ==
    ASSUME Attended,
           \A n \in Names : Informing' /\ Needs(n)' /\ ~ Alert(n)' =>
             Informing /\ Needs(n) /\ ~ Alert(n) /\ greeterCache'[n] = greeterCache[n],
           \A n \in Names, w \in Workers :
             Needs(n) /\ ~ Alert(n)' /\ Attends(workers[w], n, greeterCache[n])
               => Attends(workers'[w], n, greeterCache[n])
    PROVE  Attended'
<1> SUFFICES ASSUME NEW n \in Names, Informing', Needs(n)', ~ Alert(n)'
             PROVE  \E w \in Workers : Attends(workers'[w], n, greeterCache'[n])
  BY DEF Attended
<1>1. /\ Informing /\ Needs(n) /\ ~ Alert(n) /\ greeterCache'[n] = greeterCache[n]
  OBVIOUS
<1>2. PICK w \in Workers : Attends(workers[w], n, greeterCache[n])
  BY <1>1 DEF Attended
<1>3. Attends(workers'[w], n, greeterCache[n])
  BY <1>1, <1>2
<1> QED
  BY <1>1, <1>3

LEMMA AlertKept ==
    ASSUME NEW n \in Names,
           n \in queue.dirty => n \in queue'.dirty,
           queue.waiting[n] # NoTimer => queue'.waiting[n] # NoTimer \/ n \in queue'.dirty,
           \A i \in DOMAIN greeterWatch :
             i \in DOMAIN greeterWatch' /\ greeterWatch'[i] = greeterWatch[i],
           Alert(n)
    PROVE  Alert(n)'
  BY DEF Alert

\* The API server, the clock and the informers' timers: workers and caches stay.
LEMMA OutsideAttended ==
    ASSUME Attended, UNCHANGED <<run, greeterCache, podCache, workers>>,
           \A n \in Names : n \in queue.dirty => n \in queue'.dirty,
           \A n \in Names :
             queue.waiting[n] # NoTimer => queue'.waiting[n] # NoTimer \/ n \in queue'.dirty,
           \A i \in DOMAIN greeterWatch :
             i \in DOMAIN greeterWatch' /\ greeterWatch'[i] = greeterWatch[i]
    PROVE  Attended'
<1>1. \A n \in Names : Alert(n) => Alert(n)'
  BY AlertKept
<1>2. \A n \in Names : Needs(n)' <=> Needs(n)
  BY DEF Needs
<1>3. Informing' <=> Informing
  BY DEF Informing
<1> QED
  BY <1>1, <1>2, <1>3, AttendedKept

LEMMA EnvironmentWakeful ==
    ASSUME TypeInv, Safe, Wakeful, Environment
    PROVE  Wakeful'
<1>1. UNCHANGED <<run, queue, workers, greeterCache, podCache, synced>>
  BY DEF Environment, CreateGreeter, EditSchedule, DeleteGreeter, PodEnds, EvictPod,
     ForeignPod, CollectOrphan, Tick, process, caches
<1>2. Stages'
  BY <1>1 DEF Wakeful, Stages
<1>3. /\ lastUid \in Nat /\ greeters \in [Names -> Greeter \cup {None}]
      /\ greeterWatch \in Seq(Event(Greeter))
  BY DEF TypeInv, TypeOK
<1>a. ASSUME NEW n \in Names, NEW g \in Greeter \cup {None}, StoreGreeter(n, g),
             g # None =>
               \/ g.uid > lastUid
               \/ greeters[n] # None /\ g.uid = greeters[n].uid /\ g.rv > greeters[n].rv
      PROVE  Wakeful'
  <2>1. Overtaken'
    BY <1>1, <1>a, StoreOvertaken DEF Wakeful
  <2>2. greeterWatch' = Sent(greeterWatch, "greeters", n, g)
    BY <1>a DEF StoreGreeter
  <2>3. \A i \in DOMAIN greeterWatch :
          i \in DOMAIN greeterWatch' /\ greeterWatch'[i] = greeterWatch[i]
    BY <1>3, <2>2, SentKept
  <2>4. Attended'
    BY <1>1, <2>3, OutsideAttended DEF Wakeful
  <2> QED
    BY <1>2, <2>1, <2>4 DEF Wakeful
<1>b. ASSUME UNCHANGED <<greeters, greeterWatch>>
      PROVE  Wakeful'
  <2>1. Overtaken'
    BY <1>1, <1>b, SameOvertaken DEF Wakeful
  <2>2. Attended'
    BY <1>1, <1>b, OutsideAttended DEF Wakeful
  <2> QED
    BY <1>2, <2>1, <2>2 DEF Wakeful
<1>4. ASSUME NEW n \in Names, NEW s \in Schedules, CreateGreeter(n, s)
      PROVE  Wakeful'
  <2> DEFINE g == [uid |-> lastUid + 1, rv |-> 1, schedule |-> s, phase |-> Unset]
  <2>1. lastUid < MaxUid /\ StoreGreeter(n, g)
    BY <1>4 DEF CreateGreeter
  <2>2. g \in Greeter /\ g.uid > lastUid
    BY <1>3, <2>1, BoundsAssumption DEF Greeter, Phases
  <2> HIDE DEF g
  <2> QED
    BY <1>a, <2>1, <2>2
<1>5. ASSUME NEW n \in Names, NEW s \in Schedules, EditSchedule(n, s)
      PROVE  Wakeful'
  <2> DEFINE g == [greeters[n] EXCEPT !.schedule = s, !.rv = @ + 1]
  <2>1. greeters[n] \in Greeter /\ greeters[n] # None /\ StoreGreeter(n, g)
    BY <1>3, <1>5 DEF EditSchedule
  <2>2. g \in Greeter
    BY <2>1, RewrittenTypes
  <2>3. g.uid = greeters[n].uid /\ g.rv > greeters[n].rv
    BY <2>1 DEF Greeter
  <2> HIDE DEF g
  <2> QED
    BY <1>a, <2>1, <2>2, <2>3
<1>6. ASSUME NEW n \in Names, DeleteGreeter(n)
      PROVE  Wakeful'
  BY <1>6, <1>a DEF DeleteGreeter
<1>7. ASSUME NEW n \in Names, NEW v \in Verdicts, PodEnds(n, v)
      PROVE  Wakeful'
  BY <1>7, <1>b DEF PodEnds, StorePod
<1>8. ASSUME NEW n \in Names, EvictPod(n) \/ ForeignPod(n) \/ CollectOrphan(n)
      PROVE  Wakeful'
  BY <1>8, <1>b DEF EvictPod, ForeignPod, CollectOrphan, StorePod
<1>9. CASE Tick
  BY <1>9, <1>b DEF Tick, api, watches
<1> QED
  BY <1>4, <1>5, <1>6, <1>7, <1>8, <1>9 DEF Environment

LEMMA InformersWakeful ==
    ASSUME TypeInv, Safe, Wakeful, Informers
    PROVE  Wakeful'
<1>1. /\ greeters \in [Names -> Greeter \cup {None}]
      /\ pods \in [Names -> Pod \cup {None}]
      /\ greeterCache \in [Names -> Greeter \cup {None}]
      /\ podCache \in [Names -> Pod \cup {None}]
      /\ greeterWatch \in Seq(Event(Greeter)) /\ podWatch \in Seq(Event(Pod))
      /\ synced \subseteq {"greeters", "pods"}
      /\ queue \in WorkQueues(Names, 0..Horizon)
  BY DEF TypeInv, TypeOK
<1>2. Informing /\ ~ queue.shutdown
  BY DEF Informers, ListGreeters, ListPods, WatchGreeters, WatchPods, ResyncGreeter, ResyncPod,
     Wakeful, Stages, Informing
<1>3. /\ UNCHANGED <<greeters, pods, run, workers>>
      /\ synced \subseteq synced' /\ synced' \subseteq {"greeters", "pods"}
  BY <1>1 DEF Informers, ListGreeters, ListPods, WatchGreeters, WatchPods, ResyncGreeter,
     ResyncPod, api, caches
<1>4. PICK S \in SUBSET Names : queue' = AddAll(queue, S)
  <2>1. CASE ListGreeters
    BY <2>1 DEF ListGreeters
  <2>2. CASE ListPods
    BY <2>2 DEF ListPods
  <2>3. CASE WatchGreeters
    <3>1. Head(greeterWatch) \in Event(Greeter)
      BY <1>1, <2>3, HeadTailProperties DEF WatchGreeters
    <3>2. Head(greeterWatch).key \in Names
      BY <3>1 DEF Event
    <3>3. AddAll(queue, {}) = queue
      BY <1>1 DEF AddAll, WorkQueues
    <3> QED
      BY <2>3, <3>2, <3>3 DEF WatchGreeters, Add
  <2>4. CASE WatchPods
    <3>1. Head(podWatch) \in Event(Pod)
      BY <1>1, <2>4, HeadTailProperties DEF WatchPods
    <3>2. Head(podWatch).key \in Names
      BY <3>1 DEF Event
    <3>3. AddAll(queue, {}) = queue
      BY <1>1 DEF AddAll, WorkQueues
    <3> QED
      BY <2>4, <3>2, <3>3 DEF WatchPods, Add
  <2>5. CASE \E n \in Names : ResyncGreeter(n) \/ ResyncPod(n)
    BY <2>5 DEF ResyncGreeter, ResyncPod, Add
  <2> QED
    BY <2>1, <2>2, <2>3, <2>4, <2>5 DEF Informers
<1>5. /\ queue'.dirty = queue.dirty \cup S /\ queue'.waiting = queue.waiting
      /\ queue'.shutdown = queue.shutdown
  BY <1>1, <1>2, <1>4 DEF AddAll, WorkQueues
<1>6. Stages'
  BY <1>2, <1>3, <1>5 DEF Wakeful, Stages, Informing
<1>q. ASSUME NEW T, queue' = AddAll(queue, T)
      PROVE  queue'.dirty = queue.dirty \cup T
  BY <1>1, <1>2, <1>q DEF AddAll, WorkQueues
<1>a. ASSUME Overtaken',
             \A n \in Names : Needs(n)' /\ ~ Alert(n)' =>
               Needs(n) /\ ~ Alert(n) /\ greeterCache'[n] = greeterCache[n]
      PROVE  Wakeful'
  BY <1>2, <1>3, <1>6, <1>a, AttendedKept DEF Wakeful
<1>7. CASE ListGreeters
  <2>1. /\ greeterCache' = greeters /\ greeterWatch' = <<>> /\ podCache' = podCache
        /\ queue'.dirty = queue.dirty \cup
             {n \in Names : greeters[n] # None /\ greeters[n] # greeterCache[n]}
    BY <1>7, <1>q DEF ListGreeters
  <2>2. ASSUME NEW n \in Names, Needs(n)', ~ Alert(n)'
        PROVE  Needs(n) /\ ~ Alert(n) /\ greeterCache'[n] = greeterCache[n]
    <3>1. n \notin queue'.dirty /\ queue'.waiting[n] = NoTimer
      BY <2>2 DEF Alert
    <3>2. greeters[n] # None
      BY <2>1, <2>2 DEF Needs, Work
    <3>3. greeters[n] = greeterCache[n] /\ n \notin queue.dirty /\ queue.waiting[n] = NoTimer
      BY <1>5, <2>1, <3>1, <3>2
    <3>4. \A i \in DOMAIN greeterWatch : greeterWatch[i].key # n
      BY <3>2, <3>3 DEF Wakeful, Overtaken
    <3> QED
      BY <2>1, <2>2, <3>3, <3>4 DEF Alert, Needs
  <2> QED
    BY <1>a, <2>1, <2>2, EmptyOvertaken
<1>8. CASE ListPods
  <2>1. /\ podCache' = pods /\ UNCHANGED <<greeterCache, greeterWatch>>
        /\ queue'.dirty = queue.dirty \cup
             {n \in Names : ControlledPod(pods[n], greeterCache[n]) /\ pods[n] # podCache[n]}
    BY <1>8, <1>q DEF ListPods
  <2>2. ASSUME NEW n \in Names, Needs(n)', ~ Alert(n)'
        PROVE  Needs(n) /\ ~ Alert(n) /\ greeterCache'[n] = greeterCache[n]
    <3>1. ~ Alert(n) /\ n \notin queue'.dirty
      BY <1>5, <2>1, <2>2 DEF Alert
    <3>2. Work(greeterCache[n], pods[n])
      BY <2>1, <2>2 DEF Needs
    <3>3. ControlledPod(pods[n], greeterCache[n]) => pods[n] = podCache[n]
      BY <2>1, <3>1
    <3>4. Needs(n)
      BY <3>2, <3>3 DEF Needs, Work
    <3> QED
      BY <2>1, <3>1, <3>4
  <2> QED
    BY <1>3, <1>a, <2>1, <2>2, SameOvertaken DEF Wakeful
<1>9. CASE WatchGreeters
  <2> DEFINE e == Head(greeterWatch)
  <2>1. /\ greeterWatch # <<>> /\ greeterWatch' = Tail(greeterWatch) /\ podCache' = podCache
        /\ greeterCache' = [greeterCache EXCEPT ![e.key] = e.obj]
        /\ e.obj # None => queue' = AddAll(queue, {e.key})
    BY <1>9 DEF WatchGreeters, Add
  <2>2. e \in Event(Greeter)
    BY <1>1, <2>1, HeadTailProperties
  <2>3. e.key \in Names
    BY <2>2 DEF Event
  <2>4. ASSUME NEW n \in Names, Needs(n)', ~ Alert(n)'
        PROVE  Needs(n) /\ ~ Alert(n) /\ greeterCache'[n] = greeterCache[n]
    <3>1. n \notin queue'.dirty /\ queue'.waiting[n] = NoTimer
      BY <2>4 DEF Alert
    <3>2. n # e.key
      <4>1. SUFFICES ASSUME n = e.key PROVE FALSE
        OBVIOUS
      <4>2. greeterCache'[n] = e.obj
        BY <1>1, <2>1, <2>3, <4>1
      <4>3. e.obj # None
        BY <2>4, <4>2 DEF Needs, Work
      <4>4. queue'.dirty = queue.dirty \cup {e.key}
        BY <1>q, <2>1, <4>3
      <4> QED
        BY <3>1, <4>1, <4>4
    <3>3. greeterCache'[n] = greeterCache[n]
      BY <1>1, <2>1, <3>2
    <3>4. ASSUME NEW i \in DOMAIN greeterWatch, greeterWatch[i].key = n
          PROVE  FALSE
      <4>1. i # 1
        BY <1>1, <2>1, <3>2, <3>4, HeadTailProperties
      <4>2. i - 1 \in DOMAIN Tail(greeterWatch) /\ Tail(greeterWatch)[i - 1] = greeterWatch[i]
        <5>1. DOMAIN greeterWatch = 1..Len(greeterWatch) /\ Len(greeterWatch) \in Nat
          BY <1>1, LenProperties
        <5>2. /\ Tail(greeterWatch) \in Seq(Event(Greeter))
              /\ Len(Tail(greeterWatch)) = Len(greeterWatch) - 1
              /\ \A k \in 1..Len(Tail(greeterWatch)) : Tail(greeterWatch)[k] = greeterWatch[k + 1]
          BY <1>1, <2>1, HeadTailProperties
        <5>3. DOMAIN Tail(greeterWatch) = 1..(Len(greeterWatch) - 1)
          BY <5>2, LenProperties
        <5>4. i - 1 \in 1..(Len(greeterWatch) - 1) /\ (i - 1) + 1 = i
          BY <4>1, <5>1, <3>4
        <5> QED
          BY <5>2, <5>3, <5>4
      <4> QED
        BY <2>1, <2>4, <3>4, <4>2 DEF Alert
    <3>5. ~ Alert(n)
      BY <1>5, <3>1, <3>4 DEF Alert
    <3> QED
      BY <2>1, <2>4, <3>3, <3>5 DEF Needs
  <2> HIDE DEF e
  <2>5. Overtaken'
    BY <1>3, <2>1, HeadOvertaken DEF Wakeful, e
  <2> QED
    BY <1>a, <2>4, <2>5
<1>10. CASE WatchPods
  <2> DEFINE e == Head(podWatch)
  <2>1. /\ podWatch # <<>> /\ UNCHANGED <<greeterCache, greeterWatch>>
        /\ podCache' = [podCache EXCEPT ![e.key] = e.obj]
        /\ ControlledPod(e.obj, greeterCache[e.key]) => queue' = AddAll(queue, {e.key})
    BY <1>10 DEF WatchPods, Add
  <2>2. ASSUME NEW n \in Names, Needs(n)', ~ Alert(n)'
        PROVE  Needs(n) /\ ~ Alert(n) /\ greeterCache'[n] = greeterCache[n]
    <3>1. ~ Alert(n) /\ n \notin queue'.dirty
      BY <1>5, <2>1, <2>2 DEF Alert
    <3>2. CASE n = e.key
      <4>1. podCache'[n] = e.obj
        BY <1>1, <2>1, <3>2
      <4>2. ~ ControlledPod(e.obj, greeterCache[n])
        BY <1>q, <2>1, <3>1, <3>2
      <4> QED
        BY <2>1, <2>2, <3>1, <4>1, <4>2 DEF Needs, Work
    <3>3. CASE n # e.key
      <4>1. podCache'[n] = podCache[n]
        BY <1>1, <2>1, <3>3
      <4> QED
        BY <2>1, <2>2, <3>1, <4>1 DEF Needs
    <3> QED
      BY <3>2, <3>3
  <2> QED
    BY <1>3, <1>a, <2>1, <2>2, SameOvertaken DEF Wakeful
<1>11. CASE \E n \in Names : ResyncGreeter(n) \/ ResyncPod(n)
  <2>1. UNCHANGED <<greeterCache, podCache, greeterWatch>>
    BY <1>11 DEF ResyncGreeter, ResyncPod, caches, watches
  <2>2. Overtaken'
    BY <1>3, <2>1, SameOvertaken DEF Wakeful
  <2>3. Attended'
    BY <1>3, <1>5, <2>1, OutsideAttended DEF Wakeful
  <2> QED
    BY <1>6, <2>2, <2>3 DEF Wakeful
<1> QED
  BY <1>7, <1>8, <1>9, <1>10, <1>11 DEF Informers
LEMMA ProcessWakeful ==
    ASSUME TypeInv, Wakeful, Process
    PROVE  Wakeful'
<1>1. CASE Forgotten
  <2>1. /\ run' = "down" /\ greeterCache' = Nothing /\ greeterWatch' = <<>>
        /\ queue' = NewQueue(Names) /\ workers' = [w \in Workers |-> Idle]
    BY <1>1 DEF Forgotten
  <2>2. Stages'
    BY <2>1, IdleType DEF Stages, NewQueue
  <2>3. Attended'
    BY <2>1 DEF Attended, Informing
  <2> QED
    BY <2>1, <2>2, <2>3, EmptyOvertaken DEF Wakeful
<1>a. ASSUME UNCHANGED <<api, caches, watches, workers>>, Stages', Attended'
      PROVE  Wakeful'
  BY <1>a, SameOvertaken DEF Wakeful, api, caches, watches
<1>2. CASE StartWorkers
  <2>1. /\ run = "starting" /\ run' = "started" /\ synced = {"greeters", "pods"}
        /\ UNCHANGED <<api, caches, watches, queue, workers>>
    BY <1>2 DEF StartWorkers
  <2>2. Stages'
    BY <2>1 DEF Wakeful, Stages, caches
  <2>3. Attended'
    BY <2>1 DEF Wakeful, Attended, Informing, Needs, Alert, caches, watches
  <2> QED
    BY <1>a, <2>1, <2>2, <2>3
<1>3. CASE Signal \/ RunReturns
  <2>1. /\ run' \in {"stopping", "returned"} /\ run # "returned"
        /\ run' = "stopping" => queue' = queue
        /\ UNCHANGED <<api, caches, watches, workers>>
    BY <1>3 DEF Signal, RunReturns
  <2>2. Stages'
    BY <2>1 DEF Wakeful, Stages
  <2>3. Attended'
    BY <2>1 DEF Attended, Informing
  <2> QED
    BY <1>a, <2>1, <2>2, <2>3
<1>4. CASE Restart
  <2>1. /\ run = "down" /\ run' = "starting"
        /\ UNCHANGED <<api, caches, watches, queue, workers>>
    BY <1>4 DEF Restart
  <2>2. Stages'
    BY <2>1 DEF Wakeful, Stages, caches
  <2>3. Attended'
    <3>1. greeterCache' = Nothing
      BY <2>1 DEF Wakeful, Stages, caches
    <3> QED
      BY <3>1 DEF Attended, Needs, Work, Nothing
  <2> QED
    BY <1>a, <2>1, <2>2, <2>3
<1> QED
  BY <1>1, <1>2, <1>3, <1>4 DEF Process, Abort, Exit, Crash

\* A worker changes its own locals and, at its end, the queue.
LEMMA StepWakeful ==
    ASSUME TypeInv, Wakeful, NEW w \in Workers, run \notin {"down", "starting"},
           UNCHANGED <<run, greeterCache, podCache, synced>>, Overtaken',
           run # "returned" => ~ queue'.shutdown,
           \A v \in Workers : v # w => workers'[v] = workers[v],
           \A n \in Names : Informing /\ Needs(n) /\ ~ Alert(n)' =>
             \/ ~ Alert(n)
                  /\ (Attends(workers[w], n, greeterCache[n])
                        => Attends(workers'[w], n, greeterCache[n]))
             \/ Attends(workers'[w], n, greeterCache[n])
    PROVE  Wakeful'
<1>1. Stages'
  BY DEF Wakeful, Stages
<1>2. Attended'
  <2> SUFFICES ASSUME NEW n \in Names, Informing', Needs(n)', ~ Alert(n)'
               PROVE  \E v \in Workers : Attends(workers'[v], n, greeterCache'[n])
    BY DEF Attended
  <2>1. Informing /\ Needs(n)
    BY DEF Informing, Needs
  <2>2. CASE Attends(workers'[w], n, greeterCache[n])
    BY <2>2
  <2>3. CASE /\ ~ Alert(n)
             /\ Attends(workers[w], n, greeterCache[n])
                  => Attends(workers'[w], n, greeterCache[n])
    <3>1. PICK v \in Workers : Attends(workers[v], n, greeterCache[n])
      BY <2>1, <2>3 DEF Wakeful, Attended
    <3>2. Attends(workers'[v], n, greeterCache[n])
      BY <2>3, <3>1
    <3> QED
      BY <3>2
  <2> QED
    BY <2>1, <2>2, <2>3
<1> QED
  BY <1>1, <1>2 DEF Wakeful

\* The same without a write and with the queue as it was.
LEMMA ThoughtWakeful ==
    ASSUME TypeInv, Wakeful, NEW w \in Workers, run \notin {"down", "starting"},
           UNCHANGED <<greeters, run, greeterCache, podCache, synced, greeterWatch, queue>>,
           \A v \in Workers : v # w => workers'[v] = workers[v],
           \A n \in Names : Needs(n) /\ Attends(workers[w], n, greeterCache[n])
             => Attends(workers'[w], n, greeterCache[n])
    PROVE  Wakeful'
<1>1. Overtaken'
  BY SameOvertaken DEF Wakeful
<1>2. \A n \in Names : ~ Alert(n)' => ~ Alert(n)
  BY DEF Alert
<1>3. run # "returned" => ~ queue'.shutdown
  BY DEF Wakeful, Stages
<1> QED
  BY <1>1, <1>2, <1>3, StepWakeful

LEMMA DecideWakeful ==
    ASSUME TypeInv, NEW w \in Workers, NEW pc \in PCs, Decide(w, pc)
    PROVE  /\ workers'[w].pc = pc /\ workers'[w].key = workers[w].key
           /\ \A v \in Workers : v # w => workers'[v] = workers[v]
  BY DEF TypeInv, TypeOK, Decide, Idle

LEMMA GetWakeful ==
    ASSUME TypeInv, Wakeful, NEW w \in Workers, NEW m \in Names, Get_(w, m)
    PROVE  Wakeful'
<1>1. /\ workers \in [Workers -> Worker] /\ queue \in WorkQueues(Names, 0..Horizon)
      /\ run \notin {"down", "starting"} /\ workers[w].pc = "idle"
      /\ UNCHANGED <<greeters, run, greeterCache, podCache, synced, greeterWatch>>
      /\ queue' = Get(queue, m)
      /\ workers' = [workers EXCEPT ![w] = [Idle EXCEPT !.pc = "sync", !.key = m]]
  BY DEF Get_, TypeInv, TypeOK, api, caches, watches
<1>2. /\ workers'[w].pc = "sync" /\ workers'[w].key = m
      /\ \A v \in Workers : v # w => workers'[v] = workers[v]
  BY <1>1 DEF Idle
<1>3. /\ queue'.dirty = queue.dirty \ {m} /\ queue'.waiting = queue.waiting
      /\ queue'.shutdown = queue.shutdown
  BY <1>1 DEF Get, WorkQueues
<1>4. \A n \in Names : n # m /\ ~ Alert(n)' => ~ Alert(n)
  BY <1>1, <1>3 DEF Alert
<1>5. Attends(workers'[w], m, greeterCache[m])
  BY <1>2 DEF Attends
<1>6. \A n \in Names : ~ Attends(workers[w], n, greeterCache[n])
  BY <1>1 DEF Attends
<1>7. Overtaken' /\ (run # "returned" => ~ queue'.shutdown)
  BY <1>1, <1>3, SameOvertaken DEF Wakeful, Stages
<1> QED
  BY <1>1, <1>2, <1>4, <1>5, <1>6, <1>7, StepWakeful

LEMMA SyncHandlerWakeful ==
    ASSUME TypeInv, Safe, Wakeful, NEW w \in Workers, SyncHandler(w)
    PROVE  Wakeful'
<1> DEFINE m == workers[w].key
           g == greeterCache[m]
<1>1. /\ workers \in [Workers -> Worker] /\ workers[w].pc = "sync"
      /\ UNCHANGED <<greeters, run, greeterCache, podCache, synced, greeterWatch, queue>>
  BY DEF SyncHandler, TypeInv, TypeOK, api, caches, watches
<1>2. run \notin {"down", "starting"}
  BY <1>1 DEF Wakeful, Stages
<1>a. ASSUME workers'[w].key = m, \A v \in Workers : v # w => workers'[v] = workers[v],
             Needs(m) => \/ workers'[w].pc \in {"update", "error", "later"}
                         \/ workers'[w].pc = "pod" /\ workers'[w].inst = g
      PROVE  Wakeful'
  <2>1. \A n \in Names : Needs(n) /\ Attends(workers[w], n, greeterCache[n])
             => Attends(workers'[w], n, greeterCache[n])
    BY <1>a DEF Attends
  <2> QED
    BY <1>1, <1>2, <1>a, <2>1, ThoughtWakeful
<1>3. CASE Decide(w, "ok") /\ (g = None \/ g.phase \in Verdicts)
  <2>1. ~ Needs(m)
    BY <1>3, VerdictsAssumption DEF Needs, Work
  <2> QED
    BY <1>3, <1>a, <2>1, DecideWakeful DEF PCs
<1>4. CASE Decide(w, "error")
  BY <1>4, <1>a, DecideWakeful DEF PCs
<1>5. CASE workers' = [workers EXCEPT ![w].pc = "later", ![w].when = g.schedule - now]
  <2>1. /\ workers'[w].key = m /\ workers'[w].pc = "later"
        /\ \A v \in Workers : v # w => workers'[v] = workers[v]
    BY <1>1, <1>5 DEF Worker
  <2> QED
    BY <1>a, <2>1
<1>6. ASSUME NEW pc \in {"update", "pod"}, NEW want,
             workers' = [workers EXCEPT ![w].pc = pc, ![w].inst = g, ![w].want = want]
      PROVE  Wakeful'
  <2>1. /\ workers'[w].key = m /\ workers'[w].pc = pc /\ workers'[w].inst = g
        /\ \A v \in Workers : v # w => workers'[v] = workers[v]
    BY <1>1, <1>6 DEF Worker
  <2> QED
    BY <1>6, <1>a, <2>1
<1> QED
  BY <1>3, <1>4, <1>5, <1>6 DEF SyncHandler

LEMMA ReadPodWakeful ==
    ASSUME TypeInv, Safe, Wakeful, NEW w \in Workers, ReadPod(w)
    PROVE  Wakeful'
<1> DEFINE m == workers[w].key
           p == podCache[m]
<1>1. /\ workers \in [Workers -> Worker] /\ workers[w].pc = "pod"
      /\ UNCHANGED <<greeters, run, greeterCache, podCache, synced, greeterWatch, queue>>
  BY DEF ReadPod, TypeInv, TypeOK, api, caches, watches
<1>2. run \notin {"down", "starting"}
  BY <1>1 DEF Wakeful, Stages
<1>3. workers[w].inst.phase = "Running"
  BY <1>1 DEF Safe, JustifiedWorkers, Justified
<1>a. ASSUME workers'[w].key = m, \A v \in Workers : v # w => workers'[v] = workers[v],
             Needs(m) /\ workers[w].inst = greeterCache[m] =>
               workers'[w].pc \in {"update", "error"}
      PROVE  Wakeful'
  <2>1. \A n \in Names : Needs(n) /\ Attends(workers[w], n, greeterCache[n])
             => Attends(workers'[w], n, greeterCache[n])
    BY <1>1, <1>a DEF Attends
  <2> QED
    BY <1>1, <1>2, <1>a, <2>1, ThoughtWakeful
<1>4. Needs(m) /\ workers[w].inst = greeterCache[m] =>
        p # None /\ ControlledPod(p, workers[w].inst) /\ p.phase \in Verdicts
  BY <1>3 DEF Needs, Work, Unset, ControlledPod
<1>5. CASE p = None /\ Goto(w, "create")
  <2>1. /\ workers'[w].key = m
        /\ \A v \in Workers : v # w => workers'[v] = workers[v]
    BY <1>1, <1>5 DEF Goto, Worker
  <2> QED
    BY <1>4, <1>5, <1>a, <2>1
<1>6. CASE Decide(w, "error")
  BY <1>6, <1>a, DecideWakeful DEF PCs
<1>7. CASE p.phase = "Active" /\ Decide(w, "ok")
  BY <1>4, <1>7, <1>a, DecideWakeful, VerdictsAssumption DEF PCs
<1>8. CASE workers' = [workers EXCEPT ![w].pc = "update", ![w].want = p.phase]
  <2>1. /\ workers'[w].key = m /\ workers'[w].pc = "update"
        /\ \A v \in Workers : v # w => workers'[v] = workers[v]
    BY <1>1, <1>8 DEF Worker
  <2> QED
    BY <1>a, <2>1
<1> QED
  BY <1>5, <1>6, <1>7, <1>8 DEF ReadPod

LEMMA RequestWakeful ==
    ASSUME TypeInv, Safe, Wakeful, NEW w \in Workers, Requests(w) \/ RequestLost(w)
    PROVE  Wakeful'
<1> DEFINE m == workers[w].key
           g == [greeters[m] EXCEPT !.phase = workers[w].want, !.rv = @ + 1]
<1>1. /\ workers[w].pc \in {"create", "update"}
      /\ UNCHANGED <<run, greeterCache, podCache, synced, queue>>
  BY DEF Requests, CreatePod, UpdateStatus, RequestLost, caches
<1>2. run \notin {"down", "starting"} /\ m \in Names /\ workers[w].want \in Phases
  BY <1>1 DEF Wakeful, Stages, TypeInv, TypeOK, Busy, Worker
<1>3. /\ workers'[w].key = m /\ workers'[w].pc \in {"ok", "error"}
      /\ \A v \in Workers : v # w => workers'[v] = workers[v]
  BY DecideWakeful DEF Requests, CreatePod, UpdateStatus, RequestLost, Answered, PCs
<1>4. CASE /\ UNCHANGED <<greeters, greeterWatch>>
           /\ workers[w].pc = "update" => Decide(w, "error")
  <2>1. workers[w].pc = "update" => workers'[w].pc = "error"
    BY <1>4, DecideWakeful DEF PCs
  <2>2. \A n \in Names : Attends(workers[w], n, greeterCache[n])
             => Attends(workers'[w], n, greeterCache[n])
    BY <1>1, <1>3, <2>1 DEF Attends
  <2> QED
    BY <1>1, <1>2, <1>3, <1>4, <2>2, ThoughtWakeful
<1>5. CASE UpdateStatus(w) /\ Unchanged(m, workers[w].inst) /\ StoreGreeter(m, g)
  <2>1. greeters[m] \in Greeter /\ greeters[m] # None
    BY <1>2, <1>5 DEF Unchanged, TypeInv, TypeOK
  <2>2. g \in Greeter
    BY <1>2, <2>1, RewrittenTypes
  <2>3. g.uid = greeters[m].uid /\ g.rv > greeters[m].rv
    BY <2>1 DEF Greeter
  <2> HIDE DEF g
  <2>4. Overtaken'
    BY <1>1, <1>2, <1>5, <2>1, <2>2, <2>3, StoreOvertaken DEF Wakeful
  <2>5. /\ greeterWatch' = Sent(greeterWatch, "greeters", m, g)
        /\ greeterWatch \in Seq(Event(Greeter))
    BY <1>5 DEF StoreGreeter, TypeInv, TypeOK
  <2>6. \A n \in Names : ~ Alert(n)' => ~ Alert(n)
    <3>1. \A i \in DOMAIN greeterWatch :
            i \in DOMAIN greeterWatch' /\ greeterWatch'[i] = greeterWatch[i]
      BY <1>2, <2>2, <2>5, SentKept
    <3> QED
      BY <1>1, <3>1, AlertKept
  <2>7. \A n \in Names : n = m /\ Informing => Alert(n)'
    <3>1. SUFFICES ASSUME Informing PROVE \E i \in DOMAIN greeterWatch' : greeterWatch'[i].key = m
      BY Zenon DEF Alert
    <3>2. "greeters" \in synced
      BY <1>2, <3>1 DEF Informing, Wakeful, Stages
    <3> QED
      BY <1>2, <2>2, <2>5, <3>2, SentLast
  <2>8. \A n \in Names : n # m => ~ Attends(workers[w], n, greeterCache[n])
    BY DEF Attends
  <2>9. run # "returned" => ~ queue'.shutdown
    BY <1>1 DEF Wakeful, Stages
  <2> QED
    BY <1>1, <1>2, <1>3, <2>4, <2>6, <2>7, <2>8, <2>9, StepWakeful
<1>6. CASE CreatePod(w)
  <2>1. UNCHANGED <<greeters, greeterWatch>> /\ workers[w].pc = "create"
    BY <1>6 DEF CreatePod, StorePod
  <2> QED
    BY <1>4, <2>1
<1>7. CASE RequestLost(w)
  BY <1>4, <1>7 DEF RequestLost, api, watches
<1> QED
  BY <1>4, <1>5, <1>6, <1>7 DEF Requests, UpdateStatus

LEMMA FinishWakeful ==
    ASSUME TypeInv, Wakeful, NEW w \in Workers,
           FinishOk(w) \/ FinishError(w) \/ FinishLater(w)
    PROVE  Wakeful'
<1> DEFINE m == workers[w].key
<1>1. /\ UNCHANGED <<greeters, run, greeterCache, podCache, synced, greeterWatch>>
      /\ workers' = [workers EXCEPT ![w] = Idle] /\ workers[w].pc # "idle"
      /\ queue \in WorkQueues(Names, 0..Horizon) /\ workers \in [Workers -> Worker]
  BY DEF FinishOk, FinishError, FinishLater, Finish, TypeInv, TypeOK, api, caches, watches
<1>2. m \in Names /\ run \notin {"down", "starting"}
  BY <1>1 DEF TypeInv, Busy, Wakeful, Stages
<1>3. \A v \in Workers : v # w => workers'[v] = workers[v]
  BY <1>1
<1>a. ASSUME NEW t \in Nat, NEW q \in WorkQueues(Names, 0..Horizon),
             q.dirty = queue.dirty, q.waiting = queue.waiting, q.shutdown = queue.shutdown
      PROVE  LET r == Done(AddAfter(q, m, t), m)
             IN  /\ r.dirty = queue.dirty /\ r.shutdown = queue.shutdown
                 /\ \A n \in Names : queue.waiting[n] # NoTimer => r.waiting[n] # NoTimer
                 /\ ~ queue.shutdown => r.waiting[m] # NoTimer
  BY <1>2, <1>a DEF WorkQueues, Done, AddAfter, NoTimer
<1>4. /\ queue'.dirty = queue.dirty /\ queue'.shutdown = queue.shutdown
      /\ \A n \in Names : queue.waiting[n] # NoTimer => queue'.waiting[n] # NoTimer
      /\ workers[w].pc # "ok" /\ ~ queue.shutdown => queue'.waiting[m] # NoTimer
  <2>1. CASE FinishOk(w)
    BY <1>1, <2>1 DEF FinishOk, Finish, Done, Forget, WorkQueues
  <2>2. CASE FinishError(w)
    <3> DEFINE q == [queue EXCEPT !.failing = @ \cup {m}]
    <3>1. /\ q \in WorkQueues(Names, 0..Horizon) /\ q.dirty = queue.dirty
          /\ q.waiting = queue.waiting /\ q.shutdown = queue.shutdown
      BY <1>1, <1>2 DEF WorkQueues
    <3>2. now \in Nat /\ queue' = Done(AddAfter(q, m, now), m)
      BY <2>2 DEF FinishError, Finish, AddRateLimited, TypeInv, TypeOK
    <3> HIDE DEF q
    <3> QED
      BY <1>a, <3>1, <3>2
  <2>3. CASE FinishLater(w)
    <3> DEFINE due == now + workers[w].when
               t == IF due < Horizon THEN due ELSE Horizon
    <3>1. t \in Nat
      BY <1>1, BoundsAssumption DEF TypeInv, TypeOK, Worker
    <3>2. queue' = Done(AddAfter(queue, m, t), m)
      BY <2>3 DEF FinishLater, Finish
    <3> HIDE DEF t
    <3> QED
      BY <1>1, <1>a, <3>1, <3>2
  <2> QED
    BY <2>1, <2>2, <2>3
<1>5. \A n \in Names : Alert(n) => Alert(n)'
  BY <1>1, <1>4 DEF Alert
<1>6. ASSUME NEW n \in Names, Informing, ~ Alert(n)'
      PROVE  ~ Attends(workers[w], n, greeterCache[n])
  <2>1. SUFFICES ASSUME workers[w].pc # "ok", n = m PROVE FALSE
    BY DEF FinishOk, FinishError, FinishLater, Attends
  <2>2. ~ queue.shutdown
    BY <1>6 DEF Informing, Wakeful, Stages
  <2> QED
    BY <1>4, <1>6, <2>1, <2>2 DEF Alert
<1>7. Overtaken' /\ (run # "returned" => ~ queue'.shutdown)
  BY <1>1, <1>4, SameOvertaken DEF Wakeful, Stages
<1> QED
  BY <1>1, <1>2, <1>3, <1>5, <1>6, <1>7, StepWakeful

LEMMA ExpireWakeful ==
    ASSUME TypeInv, Wakeful, NEW m \in Names, Expire(m)
    PROVE  Wakeful'
<1>1. /\ UNCHANGED <<greeters, run, greeterCache, podCache, synced, greeterWatch, workers>>
      /\ queue \in WorkQueues(Names, 0..Horizon)
      /\ ~ queue.shutdown /\ queue' = Fire(queue, m)
  BY DEF Expire, TypeInv, TypeOK, api, caches, watches
<1>2. /\ queue'.dirty = queue.dirty \cup {m} /\ ~ queue'.shutdown
      /\ \A n \in Names : n # m => queue'.waiting[n] = queue.waiting[n]
  BY <1>1 DEF Fire, Add, AddAll, WorkQueues
<1>3. Attended'
  BY <1>1, <1>2, OutsideAttended DEF Wakeful
<1>4. Stages' /\ Overtaken'
  BY <1>1, <1>2, SameOvertaken DEF Wakeful, Stages
<1> QED
  BY <1>3, <1>4 DEF Wakeful

LEMMA WakefulInit == Init => Wakeful
<1> SUFFICES ASSUME Init PROVE Wakeful
  OBVIOUS
<1>1. Stages
  BY IdleType DEF Init, Stages, NewQueue
<1>2. Overtaken /\ Attended
  BY DEF Init, Overtaken, Attended, Needs, Work, Nothing
<1> QED
  BY <1>1, <1>2 DEF Wakeful

LEMMA WakefulStep == TypeInv /\ Safe /\ Wakeful /\ [Next]_vars => Wakeful'
<1> SUFFICES ASSUME TypeInv, Safe, Wakeful, [Next]_vars PROVE Wakeful'
  OBVIOUS
<1>1. ASSUME NEW w \in Workers, WorkerStep(w) PROVE Wakeful'
  BY <1>1, SyncHandlerWakeful, ReadPodWakeful, RequestWakeful, FinishWakeful DEF WorkerStep
<1>2. CASE UNCHANGED vars
  <2>1. UNCHANGED <<greeters, run, greeterCache, podCache, synced, greeterWatch, workers, queue>>
    BY <1>2 DEF vars, api, caches, watches, process
  <2> QED
    BY <2>1, SameOvertaken, OutsideAttended DEF Wakeful, Stages
<1> QED
  BY <1>1, <1>2, EnvironmentWakeful, InformersWakeful, ProcessWakeful, GetWakeful,
     ExpireWakeful DEF Next

------------------------------------------------------------------------------
\* While the informers run, a key whose cached Greeter has work left is never dropped,
\* by whatever workers, requests and events meet, without counting on a resync.
THEOREM Awakened == Spec => []NoLostWakeup
<1>1. TypeInv /\ Exclusive /\ Wakeful => NoLostWakeup
  <2> SUFFICES ASSUME TypeInv, Exclusive, Wakeful, NEW n \in Names, Informing, Needs(n)
               PROVE  Awake(n)
    BY DEF NoLostWakeup, Needs, Work
  <2>1. CASE Alert(n)
    BY <2>1 DEF Alert, Awake
  <2>2. CASE ~ Alert(n)
    <3>1. PICK w \in Workers : Attends(workers[w], n, greeterCache[n])
      BY <2>2 DEF Wakeful, Attended
    <3>2. n \in queue.processing
      BY <3>1 DEF Attends, Exclusive, Held
    <3> QED
      BY <3>2 DEF Awake
  <2> QED
    BY <2>1, <2>2
<1>2. Init => Exclusive
  <2>1. Init => \A w \in Workers : workers[w].pc = "idle"
    BY IdleType DEF Init
  <2> QED
    BY <2>1 DEF Exclusive, Held, OneWorkerPerKey
<1> QED
  BY <1>1, <1>2, TypesInit, TypesStep, ExclusiveStep, SafeInit, SafeStep, WakefulInit,
     WakefulStep, PTL DEF Spec
==============================================================================
