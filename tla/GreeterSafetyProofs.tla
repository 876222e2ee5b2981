------------------------- MODULE GreeterSafetyProofs -------------------------
(***************************************************************************)
(* Why stale caches, lost answers and crashes do no harm: whatever an      *)
(* informer or a worker has in hand is something the API server once       *)
(* stored, and the resourceVersion tells whether it still does.            *)
(***************************************************************************)
EXTENDS GreeterControllerProofs

\* g was stored where s is stored now, or not stored again after a deletion;
\* u is the last uid.
Seen(g, s, u) ==
    g # None =>
      /\ g.uid <= u
      /\ s # None /\ s.uid = g.uid =>
           /\ g.rv <= s.rv
           /\ g.rv = s.rv => g = s
           /\ g.phase # Unset => s.phase # Unset

Snapshots ==
    /\ \A n \in Names : /\ Seen(greeters[n], greeters[n], lastUid)
                        /\ Seen(greeterCache[n], greeters[n], lastUid)
    /\ \A i \in DOMAIN greeterWatch :
         Seen(greeterWatch[i].obj, greeters[greeterWatch[i].key], lastUid)
    /\ \A w \in Workers : workers[w].pc \in {"pod", "create", "update"} =>
         Seen(workers[w].inst, greeters[workers[w].key], lastUid)

Owned == \A n \in Names : pods[n] # None => pods[n].owner <= lastUid

\* The verdict of p, if it has one, is in the history e.
Honest(p, e) == p # None /\ p.phase \in Verdicts => <<p.owner, p.phase>> \in e

HonestPods ==
    /\ \A n \in Names : Honest(pods[n], ended) /\ Honest(podCache[n], ended)
    /\ \A i \in DOMAIN podWatch : Honest(podWatch[i].obj, ended)

\* x is about to make a pod, or a write, that its snapshot justifies.
Justified(x, e, t) ==
    /\ x.pc \in {"pod", "create"} => x.inst.phase = "Running"
    /\ x.pc = "update" =>
         \/ x.want = "Running" /\ x.inst.phase = Unset /\ x.inst.schedule \in 0..t
         \/ x.want \in Verdicts /\ x.inst.phase = "Running" /\ <<x.inst.uid, x.want>> \in e

JustifiedWorkers == \A w \in Workers : Justified(workers[w], ended, now)

\* The inductive invariant, besides the types.
Safe == Snapshots /\ Owned /\ HonestPods /\ JustifiedWorkers /\ LaunchRecorded /\ VerdictEarned

------------------------------------------------------------------------------
(* Versions. *)

LEMMA GreeterFields ==
    ASSUME NEW g \in Greeter \cup {None}, g # None
    PROVE  g \in Greeter /\ g.uid \in Nat /\ g.rv \in Nat /\ g.phase \in Phases
  BY BoundsAssumption DEF Greeter

LEMMA PodFields ==
    ASSUME NEW p \in Pod \cup {None}, p # None
    PROVE  p \in Pod /\ p.owner \in Nat /\ p.phase \in {"Active"} \cup Verdicts
  BY BoundsAssumption DEF Pod

\* What one step may do to a stored Greeter and the last uid.
Advance(s, t, u, v) ==
    /\ u <= v
    /\ \/ t = s
       \/ t = None
       \/ t.uid > u
       \/ s # None /\ t.uid = s.uid /\ t.rv > s.rv /\ (s.phase # Unset => t.phase # Unset)

LEMMA SeenKept ==
    ASSUME NEW s \in Greeter \cup {None}, NEW t \in Greeter \cup {None},
           NEW u \in Nat, NEW v \in Nat, Advance(s, t, u, v),
           NEW g \in Greeter \cup {None}, Seen(g, s, u)
    PROVE  Seen(g, t, v)
<1>1. CASE g = None \/ t = s \/ t = None
  <2>1. g # None => g.uid \in Nat
    BY GreeterFields
  <2> QED
    BY <1>1, <2>1 DEF Seen, Advance
<1>2. CASE g # None /\ t # None /\ t # s
  <2>1. g.uid \in Nat /\ g.rv \in Nat
    BY <1>2, GreeterFields
  <2>2. t.uid \in Nat /\ t.rv \in Nat
    BY <1>2, GreeterFields
  <2>3. g.uid <= u /\ u <= v
    BY <1>2 DEF Seen, Advance
  <2>4. CASE t.uid > u
    <3>1. t.uid # g.uid /\ g.uid <= v
      BY <2>1, <2>2, <2>3, <2>4
    <3> QED
      BY <3>1 DEF Seen
  <2>5. CASE s # None /\ t.uid = s.uid /\ t.rv > s.rv /\ (s.phase # Unset => t.phase # Unset)
    <3>1. s.rv \in Nat
      BY <2>5, GreeterFields
    <3>2. g.uid <= v
      BY <2>1, <2>3
    <3>3. ASSUME t.uid = g.uid
          PROVE  g.rv <= s.rv /\ (g.phase # Unset => t.phase # Unset)
      BY <1>2, <2>5, <3>3 DEF Seen
    <3>4. t.uid = g.uid => g.rv < t.rv
      BY <2>1, <2>2, <2>5, <3>1, <3>3
    <3>5. t.uid = g.uid => g.rv <= t.rv /\ g.rv # t.rv
      BY <2>1, <2>2, <3>4
    <3> QED
      BY <3>2, <3>3, <3>5 DEF Seen
  <2> QED
    BY <1>2, <2>4, <2>5 DEF Advance
<1> QED
  BY <1>1, <1>2

\* What is stored has just been seen.
LEMMA SeenStored ==
    ASSUME NEW s \in Greeter \cup {None}, NEW u \in Nat, s # None => s.uid <= u
    PROVE  Seen(s, s, u)
<1>1. s # None => s.rv \in Nat
  BY GreeterFields
<1> QED
  BY <1>1 DEF Seen

LEMMA HonestKept ==
    ASSUME NEW p, NEW e, NEW f, e \subseteq f, Honest(p, e)
    PROVE  Honest(p, f)
  BY DEF Honest

LEMMA SentElements ==
    ASSUME NEW Objects, NEW watch \in Seq(Event(Objects)), NEW informer,
           NEW n \in Names, NEW obj \in Objects \cup {None},
           NEW i \in DOMAIN Sent(watch, informer, n, obj)
    PROVE  \/ Sent(watch, informer, n, obj)[i] = [key |-> n, obj |-> obj]
           \/ i \in DOMAIN watch /\ Sent(watch, informer, n, obj)[i] = watch[i]
<1>1. [key |-> n, obj |-> obj] \in Event(Objects)
  BY DEF Event
<1>2. CASE informer \in synced
  <2> DEFINE e == [key |-> n, obj |-> obj]
  <2>1. /\ Sent(watch, informer, n, obj) = Append(watch, e)
        /\ e \in Event(Objects)
    BY <1>1, <1>2 DEF Sent
  <2> HIDE DEF e
  <2>2. /\ Len(Append(watch, e)) = Len(watch) + 1
        /\ \A j \in 1..Len(watch) : Append(watch, e)[j] = watch[j]
        /\ Append(watch, e)[Len(watch) + 1] = e
        /\ DOMAIN Append(watch, e) = 1..(Len(watch) + 1)
        /\ DOMAIN watch = 1..Len(watch) /\ Len(watch) \in Nat
    BY <2>1, AppendProperties, LenProperties
  <2>3. i \in 1..Len(watch) \/ i = Len(watch) + 1
    BY <2>1, <2>2
  <2> QED
    BY <2>1, <2>2, <2>3 DEF e
<1>3. CASE informer \notin synced
  BY <1>3 DEF Sent
<1> QED
  BY <1>2, <1>3

LEMMA TailElements ==
    ASSUME NEW S, NEW s \in Seq(S), s # <<>>, NEW i \in DOMAIN Tail(s)
    PROVE  i + 1 \in DOMAIN s /\ Tail(s)[i] = s[i + 1]
  BY HeadTailProperties, LenProperties

------------------------------------------------------------------------------
(* One lemma for each kind of step. *)

\* Workers that change come out of the step without a request to send.
Retired(w) == workers'[w] = workers[w] \/ workers'[w].pc \notin {"pod", "create", "update"}

LEMMA RetiredSafe ==
    ASSUME TypeInv, Safe, \A w \in Workers : Retired(w),
           \A n \in Names : Advance(greeters[n], greeters'[n], lastUid, lastUid'),
           greeters' \in [Names -> Greeter \cup {None}], lastUid' \in Nat,
           ended \subseteq ended', now <= now', now' \in Nat, NEW w \in Workers
    PROVE  /\ workers'[w].pc \in {"pod", "create", "update"} =>
                Seen(workers'[w].inst, greeters'[workers'[w].key], lastUid')
           /\ Justified(workers'[w], ended', now')
<1>1. CASE workers'[w].pc \notin {"pod", "create", "update"}
  BY <1>1 DEF Justified
<1>2. CASE workers'[w] = workers[w] /\ workers[w].pc \in {"pod", "create", "update"}
  <2> DEFINE x == workers[w]
  <2>1. x \in Worker /\ x.key \in Names /\ x.inst \in Greeter /\ lastUid \in Nat /\ now \in Nat
    BY <1>2 DEF TypeInv, TypeOK, Busy
  <2>2. Seen(x.inst, greeters[x.key], lastUid) /\ Justified(x, ended, now)
    BY <1>2 DEF Safe, Snapshots, JustifiedWorkers
  <2>3. greeters[x.key] \in Greeter \cup {None} /\ greeters'[x.key] \in Greeter \cup {None}
    BY <2>1 DEF TypeInv, TypeOK
  <2>4. Seen(x.inst, greeters'[x.key], lastUid')
    BY <2>1, <2>2, <2>3, SeenKept
  <2>5. Justified(x, ended', now')
    <3>1. x.inst.schedule \in 0..now => x.inst.schedule \in 0..now'
      BY <2>1
    <3> QED
      BY <2>2, <3>1 DEF Justified
  <2> QED
    BY <1>2, <2>4, <2>5
<1> QED
  BY <1>1, <1>2 DEF Retired

\* A Greeter is written: by a user, or by UpdateStatus.
LEMMA WriteGreeterSafe ==
    ASSUME TypeInv, Safe, NEW n \in Names, NEW g \in Greeter \cup {None}, StoreGreeter(n, g),
           lastUid' \in Nat, Advance(greeters[n], g, lastUid, lastUid'),
           g # None => g.uid <= lastUid',
           g # None /\ g.phase \in Verdicts => <<g.uid, g.phase>> \in ended,
           UNCHANGED <<ended, now, caches>>, \A w \in Workers : Retired(w)
    PROVE  Safe'
<1>1. /\ lastUid \in Nat /\ now \in Nat /\ lastUid <= lastUid'
      /\ \A m \in Names : greeters[m] \in Greeter \cup {None}
                          /\ greeterCache[m] \in Greeter \cup {None}
  BY DEF TypeInv, TypeOK, Advance
<1>2. /\ greeters' = [greeters EXCEPT ![n] = g]
      /\ greeterWatch' = Sent(greeterWatch, "greeters", n, g)
      /\ UNCHANGED <<pods, podWatch, podCache, greeterCache, ended, now>>
      /\ greeters' \in [Names -> Greeter \cup {None}]
  BY StoreGreeterTypes DEF StoreGreeter, TypeInv, caches
<1>3. \A m \in Names : Advance(greeters[m], greeters'[m], lastUid, lastUid')
  BY <1>1, <1>2 DEF TypeInv, TypeOK, Advance
<1>4. \A m \in Names : Seen(greeters'[m], greeters'[m], lastUid')
  <2> TAKE m \in Names
  <2>1. greeters'[m] # None => greeters'[m].uid <= lastUid'
    <3>1. CASE m = n
      BY <1>2, <3>1 DEF TypeInv, TypeOK
    <3>2. CASE m # n
      <4>1. greeters'[m] = greeters[m]
        BY <1>2, <3>2
      <4>2. greeters[m] # None => greeters[m].uid \in Nat /\ greeters[m].uid <= lastUid
        BY <1>1 DEF Safe, Snapshots, Seen, Greeter
      <4> QED
        BY <1>1, <4>1, <4>2
    <3> QED
      BY <3>1, <3>2
  <2> QED
    BY <1>2, <2>1, SeenStored
<1>kept. \A h \in Greeter \cup {None}, m \in Names :
            Seen(h, greeters[m], lastUid) => Seen(h, greeters'[m], lastUid')
  <2> SUFFICES ASSUME NEW h \in Greeter \cup {None}, NEW m \in Names,
                      Seen(h, greeters[m], lastUid)
               PROVE  Seen(h, greeters'[m], lastUid')
    OBVIOUS
  <2>1. greeters[m] \in Greeter \cup {None} /\ greeters'[m] \in Greeter \cup {None}
    BY <1>1, <1>2
  <2>2. Advance(greeters[m], greeters'[m], lastUid, lastUid')
    BY <1>3
  <2>3. lastUid \in Nat /\ lastUid' \in Nat
    BY <1>1
  <2> QED
    BY <2>1, <2>2, <2>3, SeenKept
<1>5. \A m \in Names : Seen(greeterCache[m], greeters'[m], lastUid')
  <2> TAKE m \in Names
  <2>1. greeterCache[m] \in Greeter \cup {None} /\ Seen(greeterCache[m], greeters[m], lastUid)
    BY <1>1 DEF Safe, Snapshots
  <2> QED
    BY <2>1, <1>kept
<1>6. \A i \in DOMAIN greeterWatch' :
         Seen(greeterWatch'[i].obj, greeters'[greeterWatch'[i].key], lastUid')
  <2> TAKE i \in DOMAIN greeterWatch'
  <2>0. greeterWatch \in Seq(Event(Greeter))
    BY DEF TypeInv, TypeOK
  <2>1. \/ greeterWatch'[i] = [key |-> n, obj |-> g]
        \/ i \in DOMAIN greeterWatch /\ greeterWatch'[i] = greeterWatch[i]
    BY <1>2, <2>0, SentElements
  <2>2. CASE greeterWatch'[i] = [key |-> n, obj |-> g]
    BY <1>2, <1>4, <2>2 DEF TypeInv, TypeOK
  <2>3. CASE i \in DOMAIN greeterWatch /\ greeterWatch'[i] = greeterWatch[i]
    <3>1. greeterWatch[i] \in Event(Greeter)
      BY <2>0, <2>3, ElementOfSeq, LenProperties
    <3>2. greeterWatch[i].key \in Names /\ greeterWatch[i].obj \in Greeter \cup {None}
      BY <3>1 DEF Event
    <3>3. Seen(greeterWatch[i].obj, greeters[greeterWatch[i].key], lastUid)
      BY <2>3 DEF Safe, Snapshots
    <3>5. Seen(greeterWatch[i].obj, greeters'[greeterWatch[i].key], lastUid')
      BY <3>2, <3>3, <1>kept
    <3> QED
      BY <2>3, <3>5
  <2> QED
    BY <2>1, <2>2, <2>3
<1>7. \A w \in Workers :
        /\ workers'[w].pc \in {"pod", "create", "update"} =>
             Seen(workers'[w].inst, greeters'[workers'[w].key], lastUid')
        /\ Justified(workers'[w], ended', now')
  BY <1>1, <1>2, <1>3, RetiredSafe
<1>8. Snapshots' /\ JustifiedWorkers'
  BY <1>2, <1>4, <1>5, <1>6, <1>7 DEF Snapshots, JustifiedWorkers
<1>9. Owned' /\ HonestPods'
  <2>1. \A m \in Names : pods[m] # None => pods[m].owner \in Nat
    BY DEF TypeInv, TypeOK, Pod
  <2> QED
    BY <1>1, <1>2, <2>1 DEF Safe, Owned, HonestPods
<1>10. LaunchRecorded'
  <2> SUFFICES ASSUME NEW m \in Names, greeters'[m] # None, pods[m] # None,
                      pods[m].owner = greeters'[m].uid
               PROVE  greeters'[m].phase # Unset
    BY <1>2 DEF LaunchRecorded, ControlledPod
  <2>1. pods[m].owner <= lastUid
    BY DEF Safe, Owned
  <2>2. greeters[m] # None /\ greeters[m].uid = pods[m].owner => greeters[m].phase # Unset
    BY DEF Safe, LaunchRecorded, ControlledPod
  <2>3. pods[m].owner \in Nat
    BY DEF TypeInv, TypeOK, Pod
  <2> QED
    BY <1>1, <1>3, <2>1, <2>2, <2>3 DEF Advance
<1>11. VerdictEarned'
  BY <1>2 DEF Safe, VerdictEarned, TypeInv, TypeOK
<1> QED
  BY <1>8, <1>9, <1>10, <1>11 DEF Safe

\* A pod is written: by its container, by somebody else, or by CreatePod.
LEMMA WritePodSafe ==
    ASSUME TypeInv, Safe, NEW n \in Names, NEW p \in Pod \cup {None}, StorePod(n, p),
           p # None => p.owner <= lastUid,
           ended \subseteq ended', Honest(p, ended'),
           ControlledPod(p, greeters[n]) => greeters[n].phase # Unset,
           UNCHANGED <<lastUid, now, caches>>, \A w \in Workers : Retired(w)
    PROVE  Safe'
<1>1. /\ lastUid \in Nat /\ now \in Nat
      /\ \A m \in Names : greeters[m] \in Greeter \cup {None}
  BY DEF TypeInv, TypeOK
<1>2. /\ pods' = [pods EXCEPT ![n] = p] /\ pods \in [Names -> Pod \cup {None}]
      /\ podWatch' = Sent(podWatch, "pods", n, p)
      /\ podWatch \in Seq(Event(Pod))
      /\ UNCHANGED <<greeters, greeterWatch, podCache, greeterCache, lastUid, now>>
  BY DEF StorePod, TypeInv, TypeOK, caches
<1>3. \A w \in Workers :
        /\ workers'[w].pc \in {"pod", "create", "update"} =>
             Seen(workers'[w].inst, greeters'[workers'[w].key], lastUid')
        /\ Justified(workers'[w], ended', now')
  <2>1. \A m \in Names : Advance(greeters[m], greeters'[m], lastUid, lastUid')
    BY <1>1, <1>2 DEF Advance
  <2>2. greeters' \in [Names -> Greeter \cup {None}] /\ now <= now' /\ now' \in Nat
    BY <1>1, <1>2 DEF TypeInv, TypeOK
  <2>3. lastUid' \in Nat
    BY <1>1, <1>2
  <2> QED
    BY <2>1, <2>2, <2>3, RetiredSafe
<1>4. Snapshots' /\ JustifiedWorkers'
  BY <1>2, <1>3 DEF Safe, Snapshots, JustifiedWorkers
<1>5. Owned'
  BY <1>2 DEF Safe, Owned
<1>6. HonestPods'
  <2>1. \A m \in Names : Honest(pods'[m], ended')
    BY <1>2, HonestKept DEF Safe, HonestPods
  <2>2. \A m \in Names : Honest(podCache'[m], ended')
    BY <1>2, HonestKept DEF Safe, HonestPods
  <2>3. ASSUME NEW i \in DOMAIN podWatch' PROVE Honest(podWatch'[i].obj, ended')
    <3>1. \/ podWatch'[i] = [key |-> n, obj |-> p]
          \/ i \in DOMAIN podWatch /\ podWatch'[i] = podWatch[i]
      BY <1>2, <2>3, SentElements
    <3> QED
      BY <3>1, HonestKept DEF Safe, HonestPods
  <2> QED
    BY <2>1, <2>2, <2>3 DEF HonestPods
<1>7. LaunchRecorded'
  BY <1>2 DEF Safe, LaunchRecorded
<1>8. VerdictEarned'
  BY <1>2 DEF Safe, VerdictEarned
<1> QED
  BY <1>4, <1>5, <1>6, <1>7, <1>8 DEF Safe

\* Nothing is written.
LEMMA LocalSafe ==
    ASSUME TypeInv, Safe, UNCHANGED api, now <= now', now' \in Nat,
           \A w \in Workers : Retired(w),
           \A m \in Names : Seen(greeterCache'[m], greeters[m], lastUid),
           \A m \in Names : Honest(podCache'[m], ended),
           \A i \in DOMAIN greeterWatch' :
             Seen(greeterWatch'[i].obj, greeters[greeterWatch'[i].key], lastUid),
           \A i \in DOMAIN podWatch' : Honest(podWatch'[i].obj, ended)
    PROVE  Safe'
<1>1. UNCHANGED <<greeters, pods, lastUid, ended>>
  BY DEF api
<1>2. lastUid \in Nat /\ greeters \in [Names -> Greeter \cup {None}]
  BY DEF TypeInv, TypeOK
<1>3. \A m \in Names : Advance(greeters[m], greeters'[m], lastUid, lastUid')
  BY <1>1, <1>2 DEF Advance
<1>4. \A w \in Workers :
        /\ workers'[w].pc \in {"pod", "create", "update"} =>
             Seen(workers'[w].inst, greeters'[workers'[w].key], lastUid')
        /\ Justified(workers'[w], ended', now')
  BY <1>1, <1>2, <1>3, RetiredSafe
<1>5. Snapshots' /\ JustifiedWorkers'
  BY <1>1, <1>4 DEF Safe, Snapshots, JustifiedWorkers
<1>6. HonestPods'
  BY <1>1 DEF Safe, HonestPods
<1>7. Owned' /\ LaunchRecorded' /\ VerdictEarned'
  BY <1>1 DEF Safe, Owned, LaunchRecorded, VerdictEarned
<1> QED
  BY <1>5, <1>6, <1>7 DEF Safe

LEMMA QuietSafe ==
    ASSUME TypeInv, Safe, UNCHANGED <<api, caches, watches>>, now <= now', now' \in Nat,
           \A w \in Workers : Retired(w)
    PROVE  Safe'
<1>1. UNCHANGED <<greeterCache, podCache, greeterWatch, podWatch>>
  BY DEF caches, watches
<1> QED
  BY <1>1, LocalSafe DEF Safe, Snapshots, HonestPods

------------------------------------------------------------------------------
(* The steps. *)

LEMMA EnvironmentSafe == TypeInv /\ Safe /\ Environment => Safe'
<1> SUFFICES ASSUME TypeInv, Safe, Environment PROVE Safe'
  OBVIOUS
<1>0. /\ lastUid \in Nat /\ now \in Nat
      /\ greeters \in [Names -> Greeter \cup {None}]
      /\ pods \in [Names -> Pod \cup {None}]
      /\ \A n \in Names : greeters[n] # None => greeters[n].uid <= lastUid
      /\ \A n \in Names : pods[n] # None => pods[n].owner <= lastUid
  BY DEF TypeInv, TypeOK, Safe, Snapshots, Seen, Owned
<1>a. process' = process => \A w \in Workers : Retired(w)
  BY DEF process, Retired
<1>1. ASSUME NEW n \in Names, NEW s \in Schedules, CreateGreeter(n, s)
      PROVE  Safe'
  <2> DEFINE g == [uid |-> lastUid + 1, rv |-> 1, schedule |-> s, phase |-> Unset]
  <2>1. lastUid' = lastUid + 1 /\ lastUid < MaxUid
    BY <1>1 DEF CreateGreeter
  <2>2. g \in Greeter
    BY <1>0, <2>1, BoundsAssumption DEF Greeter, Phases
  <2>3. Advance(greeters[n], g, lastUid, lastUid') /\ g.uid <= lastUid' /\ lastUid' \in Nat
    BY <1>0, <2>1 DEF Advance
  <2>4. g.phase \notin Verdicts
    BY VerdictsAssumption
  <2>5. /\ StoreGreeter(n, g) /\ process' = process
        /\ UNCHANGED <<ended, now, caches>>
    BY <1>1 DEF CreateGreeter
  <2> HIDE DEF g
  <2> QED
    BY <1>a, <2>2, <2>3, <2>4, <2>5, WriteGreeterSafe
<1>2. ASSUME NEW n \in Names, NEW s \in Schedules, EditSchedule(n, s)
      PROVE  Safe'
  <2> DEFINE g == [greeters[n] EXCEPT !.schedule = s, !.rv = @ + 1]
  <2>1. greeters[n] \in Greeter /\ greeters[n] # None
    BY <1>0, <1>2 DEF EditSchedule
  <2>2. g \in Greeter
    BY <2>1, RewrittenTypes
  <2>3. /\ g.uid = greeters[n].uid /\ g.phase = greeters[n].phase
        /\ g.rv > greeters[n].rv
    BY <2>1 DEF Greeter
  <2>4. /\ StoreGreeter(n, g) /\ process' = process
        /\ UNCHANGED <<lastUid, ended, now, caches>>
    BY <1>2 DEF EditSchedule
  <2> HIDE DEF g
  <2>5. Advance(greeters[n], g, lastUid, lastUid') /\ g.uid <= lastUid' /\ lastUid' \in Nat
    BY <1>0, <2>1, <2>3, <2>4 DEF Advance
  <2>6. g.phase \in Verdicts => <<g.uid, g.phase>> \in ended
    BY <2>1, <2>3 DEF Safe, VerdictEarned
  <2> QED
    BY <1>a, <2>2, <2>4, <2>5, <2>6, WriteGreeterSafe
<1>3. ASSUME NEW n \in Names, DeleteGreeter(n) PROVE Safe'
  <2>1. Advance(greeters[n], None, lastUid, lastUid)
    BY <1>0 DEF Advance
  <2> QED
    BY <1>0, <1>3, <1>a, <2>1, WriteGreeterSafe DEF DeleteGreeter
<1>4. ASSUME NEW n \in Names, NEW v \in Verdicts, PodEnds(n, v) PROVE Safe'
  <2> DEFINE p == [pods[n] EXCEPT !.phase = v]
  <2>1. pods[n] \in Pod /\ pods[n] # None
    BY <1>0, <1>4 DEF PodEnds
  <2>2. p \in Pod /\ p.owner = pods[n].owner /\ p.phase = v
    BY <2>1 DEF Pod
  <2>3. /\ StorePod(n, p) /\ process' = process
        /\ ended' = ended \cup {<<pods[n].owner, v>>}
        /\ UNCHANGED <<lastUid, now, caches>>
    BY <1>4 DEF PodEnds
  <2> HIDE DEF p
  <2>4. Honest(p, ended') /\ ended \subseteq ended'
    BY <2>2, <2>3 DEF Honest
  <2>5. ControlledPod(p, greeters[n]) => greeters[n].phase # Unset
    BY <2>1, <2>2 DEF Safe, LaunchRecorded, ControlledPod
  <2> QED
    BY <1>0, <1>a, <2>1, <2>2, <2>3, <2>4, <2>5, WritePodSafe
<1>5. ASSUME NEW n \in Names, EvictPod(n) \/ CollectOrphan(n) PROVE Safe'
  <2>1. Honest(None, ended) /\ ~ ControlledPod(None, greeters[n])
    BY DEF Honest, ControlledPod
  <2> QED
    BY <1>5, <1>a, <2>1, WritePodSafe DEF EvictPod, CollectOrphan
<1>6. ASSUME NEW n \in Names, ForeignPod(n) PROVE Safe'
  <2> DEFINE p == [owner |-> NoOwner, phase |-> "Active"]
  <2>1. p \in Pod /\ p.owner <= lastUid
    BY <1>0, BoundsAssumption DEF Pod, NoOwner
  <2>2. Honest(p, ended)
    BY VerdictsAssumption DEF Honest
  <2>3. ~ ControlledPod(p, greeters[n])
    BY <1>0 DEF ControlledPod, NoOwner, Greeter
  <2>4. /\ StorePod(n, p) /\ process' = process
        /\ UNCHANGED <<lastUid, ended, now, caches>>
    BY <1>6 DEF ForeignPod
  <2> HIDE DEF p
  <2> QED
    BY <1>a, <2>1, <2>2, <2>3, <2>4, WritePodSafe
<1>7. ASSUME Tick PROVE Safe'
  BY <1>0, <1>7, <1>a, QuietSafe DEF Tick
<1> QED
  BY <1>1, <1>2, <1>3, <1>4, <1>5, <1>6, <1>7 DEF Environment

LEMMA InformersSafe == TypeInv /\ Safe /\ Informers => Safe'
<1> SUFFICES ASSUME TypeInv, Safe, Informers PROVE Safe'
  OBVIOUS
<1>0. /\ now \in Nat
      /\ greeterWatch \in Seq(Event(Greeter)) /\ podWatch \in Seq(Event(Pod))
      /\ greeterCache \in [Names -> Greeter \cup {None}]
      /\ podCache \in [Names -> Pod \cup {None}]
  BY DEF TypeInv, TypeOK
<1>1. \A w \in Workers : Retired(w)
  BY DEF Informers, ListGreeters, ListPods, WatchGreeters, WatchPods, ResyncGreeter,
     ResyncPod, Retired
<1>2. UNCHANGED <<api, now>> /\ now <= now' /\ now' \in Nat
  BY <1>0 DEF Informers, ListGreeters, ListPods, WatchGreeters, WatchPods, ResyncGreeter,
     ResyncPod
<1>3. CASE ListGreeters
  <2>1. /\ greeterCache' = greeters /\ greeterWatch' = <<>>
        /\ UNCHANGED <<podCache, podWatch>>
    BY <1>3 DEF ListGreeters
  <2> QED
    BY <1>1, <1>2, <2>1, LocalSafe DEF Safe, Snapshots, HonestPods
<1>4. CASE ListPods
  <2>1. /\ podCache' = pods /\ podWatch' = <<>>
        /\ UNCHANGED <<greeterCache, greeterWatch>>
    BY <1>4 DEF ListPods
  <2> QED
    BY <1>1, <1>2, <2>1, LocalSafe DEF Safe, Snapshots, HonestPods
<1>5. CASE WatchGreeters
  <2> DEFINE e == Head(greeterWatch)
  <2>1. /\ greeterWatch # <<>> /\ greeterWatch' = Tail(greeterWatch)
        /\ greeterCache' = [greeterCache EXCEPT ![e.key] = e.obj]
        /\ UNCHANGED <<podCache, podWatch>>
    BY <1>5 DEF WatchGreeters
  <2>2. 1 \in DOMAIN greeterWatch /\ e = greeterWatch[1]
    BY <1>0, <2>1, HeadTailProperties, LenProperties, EmptySeq
  <2>3. Seen(e.obj, greeters[e.key], lastUid)
    BY <2>2 DEF Safe, Snapshots
  <2> HIDE DEF e
  <2>4. \A m \in Names : Seen(greeterCache'[m], greeters[m], lastUid)
    BY <1>0, <2>1, <2>3 DEF Safe, Snapshots
  <2>5. \A i \in DOMAIN greeterWatch' :
           Seen(greeterWatch'[i].obj, greeters[greeterWatch'[i].key], lastUid)
    BY <1>0, <2>1, TailElements DEF Safe, Snapshots
  <2> QED
    BY <1>1, <1>2, <2>1, <2>4, <2>5, LocalSafe DEF Safe, HonestPods
<1>6. CASE WatchPods
  <2> DEFINE e == Head(podWatch)
  <2>1. /\ podWatch # <<>> /\ podWatch' = Tail(podWatch)
        /\ podCache' = [podCache EXCEPT ![e.key] = e.obj]
        /\ UNCHANGED <<greeterCache, greeterWatch>>
    BY <1>6 DEF WatchPods
  <2>2. 1 \in DOMAIN podWatch /\ e = podWatch[1]
    BY <1>0, <2>1, HeadTailProperties, LenProperties, EmptySeq
  <2>3. Honest(e.obj, ended)
    BY <2>2 DEF Safe, HonestPods
  <2> HIDE DEF e
  <2>4. \A m \in Names : Honest(podCache'[m], ended)
    BY <1>0, <2>1, <2>3 DEF Safe, HonestPods
  <2>5. \A i \in DOMAIN podWatch' : Honest(podWatch'[i].obj, ended)
    BY <1>0, <2>1, TailElements DEF Safe, HonestPods
  <2> QED
    BY <1>1, <1>2, <2>1, <2>4, <2>5, LocalSafe DEF Safe, Snapshots
<1>7. CASE \E n \in Names : ResyncGreeter(n) \/ ResyncPod(n)
  BY <1>1, <1>2, <1>7, QuietSafe DEF ResyncGreeter, ResyncPod
<1> QED
  BY <1>3, <1>4, <1>5, <1>6, <1>7 DEF Informers

LEMMA ProcessSafe == TypeInv /\ Safe /\ Process => Safe'
<1> SUFFICES ASSUME TypeInv, Safe, Process PROVE Safe'
  OBVIOUS
<1>0. now \in Nat
  BY DEF TypeInv, TypeOK
<1>1. CASE Forgotten
  <2>1. \A w \in Workers : workers'[w].pc = "idle"
    BY <1>1, IdleType DEF Forgotten
  <2>2. /\ greeterCache' = Nothing /\ podCache' = Nothing
        /\ greeterWatch' = <<>> /\ podWatch' = <<>> /\ UNCHANGED <<api, now>>
    BY <1>1 DEF Forgotten
  <2>3. \A m \in Names : Seen(Nothing[m], greeters[m], lastUid) /\ Honest(Nothing[m], ended)
    BY DEF Nothing, Seen, Honest
  <2>4. \A w \in Workers : Retired(w)
    BY <2>1 DEF Retired
  <2> QED
    BY <1>0, <2>2, <2>3, <2>4, LocalSafe
<1>2. CASE StartWorkers \/ Signal \/ RunReturns \/ Restart
  BY <1>0, <1>2, QuietSafe DEF StartWorkers, Signal, RunReturns, Restart, Retired
<1> QED
  BY <1>1, <1>2 DEF Process, Abort, Exit, Crash

\* The worker w reads a cache; what it keeps is a snapshot that justifies its
\* next request.
LEMMA ReadSafe ==
    ASSUME TypeInv, Safe, UNCHANGED <<api, now, caches, watches>>, NEW w \in Workers,
           \A v \in Workers : v # w => workers'[v] = workers[v],
           workers'[w].pc \in {"pod", "create", "update"} =>
             Seen(workers'[w].inst, greeters[workers'[w].key], lastUid),
           Justified(workers'[w], ended, now)
    PROVE  Safe'
<1>1. UNCHANGED <<greeters, pods, lastUid, ended, now, greeterCache, podCache,
                  greeterWatch, podWatch>>
  BY DEF api, caches, watches
<1>2. Snapshots'
  BY <1>1 DEF Safe, Snapshots
<1>3. JustifiedWorkers'
  BY <1>1 DEF Safe, JustifiedWorkers
<1>4. Owned' /\ HonestPods' /\ LaunchRecorded' /\ VerdictEarned'
  BY <1>1 DEF Safe, Owned, HonestPods, LaunchRecorded, VerdictEarned
<1> QED
  BY <1>2, <1>3, <1>4 DEF Safe

LEMMA DecideRetires ==
    ASSUME TypeInv, NEW w \in Workers, NEW pc \in {"ok", "error"}, Decide(w, pc)
    PROVE  \A v \in Workers : Retired(v)
  BY DEF TypeInv, TypeOK, Decide, Idle, Retired

LEMMA SyncHandlerSafe ==
    ASSUME TypeInv, Safe, NEW w \in Workers, SyncHandler(w)
    PROVE  Safe'
<1> DEFINE g == greeterCache[workers[w].key]
           Take(pc, want) == workers' = [workers EXCEPT ![w].pc = pc, ![w].inst = g,
                                                        ![w].want = want]
<1>1. /\ now \in Nat /\ workers \in [Workers -> Worker]
      /\ workers[w].key \in Names /\ g \in Greeter \cup {None}
  BY DEF TypeInv, TypeOK, Busy, SyncHandler
<1>2. UNCHANGED <<api, now, caches, watches>> /\ now <= now' /\ now' \in Nat
  BY <1>1 DEF SyncHandler
<1>3. CASE Decide(w, "ok") \/ Decide(w, "error")
  BY <1>2, <1>3, DecideRetires, QuietSafe
<1>4. CASE workers' = [workers EXCEPT ![w].pc = "later", ![w].when = g.schedule - now]
  <2>1. \A v \in Workers : Retired(v)
    BY <1>1, <1>4 DEF Worker, Retired
  <2> QED
    BY <1>2, <2>1, QuietSafe
<1>5. Seen(g, greeters[workers[w].key], lastUid)
  BY <1>1 DEF Safe, Snapshots
<1>6. CASE g.phase = Unset /\ Due(g) /\ Take("update", "Running")
  <2>1. /\ workers'[w].pc = "update" /\ workers'[w].inst = g
        /\ workers'[w].want = "Running" /\ workers'[w].key = workers[w].key
        /\ \A v \in Workers : v # w => workers'[v] = workers[v]
    BY <1>1, <1>6 DEF Worker
  <2>2. Justified(workers'[w], ended, now)
    BY <1>6, <2>1 DEF Justified, Due
  <2> QED
    BY <1>2, <1>5, <2>1, <2>2, ReadSafe
<1>7. CASE Started(g) /\ Take("pod", Unset)
  <2>1. /\ workers'[w].pc = "pod" /\ workers'[w].inst = g /\ workers'[w].key = workers[w].key
        /\ \A v \in Workers : v # w => workers'[v] = workers[v]
    BY <1>1, <1>7 DEF Worker
  <2>2. Justified(workers'[w], ended, now)
    BY <1>7, <2>1 DEF Justified, Started
  <2> QED
    BY <1>2, <1>5, <2>1, <2>2, ReadSafe
<1> QED
  BY <1>3, <1>4, <1>6, <1>7 DEF SyncHandler

LEMMA ReadPodSafe ==
    ASSUME TypeInv, Safe, NEW w \in Workers, ReadPod(w)
    PROVE  Safe'
<1> DEFINE p == podCache[workers[w].key]
<1>1. /\ now \in Nat /\ workers \in [Workers -> Worker] /\ workers[w].pc = "pod"
      /\ workers[w].key \in Names /\ p \in Pod \cup {None}
  BY DEF TypeInv, TypeOK, Busy, ReadPod
<1>2. UNCHANGED <<api, now, caches, watches>> /\ now <= now' /\ now' \in Nat
  BY <1>1 DEF ReadPod
<1>3. CASE Decide(w, "ok") \/ Decide(w, "error")
  BY <1>2, <1>3, DecideRetires, QuietSafe
<1>4. /\ Seen(workers[w].inst, greeters[workers[w].key], lastUid)
      /\ workers[w].inst.phase = "Running"
  BY <1>1 DEF Safe, Snapshots, JustifiedWorkers, Justified
<1>5. CASE Goto(w, "create")
  <2>1. /\ workers'[w].pc = "create" /\ workers'[w].inst = workers[w].inst
        /\ workers'[w].key = workers[w].key
        /\ \A v \in Workers : v # w => workers'[v] = workers[v]
    BY <1>1, <1>5 DEF Worker, Goto
  <2>2. Justified(workers'[w], ended, now)
    BY <1>4, <2>1 DEF Justified
  <2> QED
    BY <1>2, <1>4, <2>1, <2>2, ReadSafe
<1>6. CASE /\ ControlledPod(p, workers[w].inst) /\ p.phase \in Verdicts
           /\ workers' = [workers EXCEPT ![w].pc = "update", ![w].want = p.phase]
  <2>1. /\ workers'[w].pc = "update" /\ workers'[w].inst = workers[w].inst
        /\ workers'[w].want = p.phase /\ workers'[w].key = workers[w].key
        /\ \A v \in Workers : v # w => workers'[v] = workers[v]
    BY <1>1, <1>6 DEF Worker
  <2>2. p.owner = workers[w].inst.uid /\ <<p.owner, p.phase>> \in ended
    BY <1>1, <1>6 DEF ControlledPod, Safe, HonestPods, Honest
  <2>3. Justified(workers'[w], ended, now)
    BY <1>4, <1>6, <2>1, <2>2 DEF Justified
  <2> QED
    BY <1>2, <1>4, <2>1, <2>3, ReadSafe
<1> QED
  BY <1>3, <1>5, <1>6 DEF ReadPod

LEMMA CreatePodSafe ==
    ASSUME TypeInv, Safe, NEW w \in Workers, CreatePod(w)
    PROVE  Safe'
<1> DEFINE n == workers[w].key
           i == workers[w].inst
           p == [owner |-> i.uid, phase |-> "Active"]
<1>1. now \in Nat /\ n \in Names /\ i \in Greeter /\ i # None /\ workers[w].pc = "create"
  BY NoneAssumption DEF TypeInv, TypeOK, Busy, CreatePod
<1>2. \A v \in Workers : Retired(v)
  BY DecideRetires DEF CreatePod, Answered
<1>3. Seen(i, greeters[n], lastUid) /\ i.phase = "Running"
  BY <1>1 DEF Safe, Snapshots, JustifiedWorkers, Justified
<1>4. CASE StorePod(n, p)
  <2>1. p \in Pod /\ p.owner = i.uid /\ p.phase = "Active"
    BY <1>1, BoundsAssumption DEF Greeter, Pod
  <2>2. UNCHANGED <<lastUid, ended, now, caches>>
    BY DEF CreatePod
  <2> HIDE DEF p, i
  <2>3. p.owner <= lastUid
    BY <1>1, <1>3, <2>1 DEF Seen
  <2>4. Honest(p, ended)
    BY <2>1, VerdictsAssumption DEF Honest
  <2>5. ControlledPod(p, greeters[n]) => greeters[n].phase # Unset
    <3>1. "Running" # Unset
      BY DEF Unset
    <3> QED
      BY <1>1, <1>3, <2>1, <3>1 DEF ControlledPod, Seen
  <2> QED
    BY <1>1, <1>2, <1>4, <2>1, <2>2, <2>3, <2>4, <2>5, WritePodSafe
<1>5. CASE UNCHANGED <<pods, podWatch, greeters, greeterWatch, budget>>
  BY <1>1, <1>2, <1>5, QuietSafe DEF CreatePod, api, watches
<1> QED
  BY <1>4, <1>5 DEF CreatePod

\* The version of the stored Greeter is the snapshot's, so it is the snapshot.
LEMMA UpdateStatusSnapshot ==
    ASSUME TypeInv, Safe, NEW w \in Workers, workers[w].pc = "update",
           Unchanged(workers[w].key, workers[w].inst)
    PROVE  greeters[workers[w].key] = workers[w].inst
  BY NoneAssumption DEF TypeInv, TypeOK, Busy, Safe, Snapshots, Seen, Unchanged

LEMMA UpdateStatusSafe ==
    ASSUME TypeInv, Safe, NEW w \in Workers, UpdateStatus(w)
    PROVE  Safe'
<1> DEFINE n == workers[w].key
           want == workers[w].want
           g == [greeters[n] EXCEPT !.phase = want, !.rv = @ + 1]
<1>1. now \in Nat /\ lastUid \in Nat /\ n \in Names /\ want \in Phases
      /\ workers[w].pc = "update"
  BY DEF TypeInv, TypeOK, Busy, UpdateStatus, Worker
<1>2. \A v \in Workers : Retired(v)
  BY DecideRetires DEF UpdateStatus, Answered
<1>3. CASE Unchanged(n, workers[w].inst) /\ StoreGreeter(n, g)
  <2>1. greeters[n] = workers[w].inst /\ greeters[n] \in Greeter /\ greeters[n] # None
    BY <1>1, <1>3, UpdateStatusSnapshot DEF TypeInv, TypeOK, Unchanged
  <2>2. g \in Greeter
    BY <1>1, <2>1, RewrittenTypes
  <2>3. g.uid = greeters[n].uid /\ g.phase = want /\ g.rv > greeters[n].rv
    BY <2>1 DEF Greeter
  <2>4. UNCHANGED <<lastUid, ended, now, caches>>
    BY DEF UpdateStatus
  <2>5. \/ want = "Running"
        \/ want \in Verdicts /\ <<greeters[n].uid, want>> \in ended
    BY <1>1, <2>1 DEF Safe, JustifiedWorkers, Justified
  <2>6. want # Unset /\ "Running" \notin Verdicts
    BY <2>5, VerdictsAssumption DEF Unset
  <2>7. greeters[n].uid <= lastUid
    BY <1>1, <2>1 DEF Safe, Snapshots, Seen
  <2> HIDE DEF g, n, want
  <2>8. Advance(greeters[n], g, lastUid, lastUid') /\ g.uid <= lastUid' /\ lastUid' \in Nat
    BY <1>1, <2>1, <2>3, <2>4, <2>6, <2>7 DEF Advance
  <2>9. g.phase \in Verdicts => <<g.uid, g.phase>> \in ended
    BY <2>3, <2>5, <2>6
  <2> QED
    BY <1>1, <1>2, <1>3, <2>2, <2>4, <2>8, <2>9, WriteGreeterSafe
<1>4. CASE UNCHANGED <<greeters, greeterWatch, pods, podWatch, budget>>
  BY <1>1, <1>2, <1>4, QuietSafe DEF UpdateStatus, api, watches
<1> QED
  BY <1>3, <1>4 DEF UpdateStatus

LEMMA WorkerSafe ==
    ASSUME TypeInv, Safe, NEW w \in Workers, WorkerStep(w) \/ \E n \in Names : Get_(w, n)
    PROVE  Safe'
<1>1. CASE SyncHandler(w) \/ ReadPod(w) \/ Requests(w)
  BY <1>1, SyncHandlerSafe, ReadPodSafe, CreatePodSafe, UpdateStatusSafe DEF Requests
<1>2. now \in Nat
  BY DEF TypeInv, TypeOK
<1>3. CASE RequestLost(w)
  BY <1>2, <1>3, DecideRetires, QuietSafe DEF RequestLost
<1>4. CASE FinishOk(w) \/ FinishError(w) \/ FinishLater(w)
  <2>1. workers' = [workers EXCEPT ![w] = Idle] /\ UNCHANGED <<api, now, caches, watches>>
    BY <1>4 DEF FinishOk, FinishError, FinishLater, Finish
  <2>2. \A v \in Workers : Retired(v)
    BY <2>1, IdleType DEF Retired, TypeInv, TypeOK
  <2> QED
    BY <1>2, <2>1, <2>2, QuietSafe
<1>5. CASE \E n \in Names : Get_(w, n)
  <2>1. UNCHANGED <<api, now, caches, watches>> /\ \A v \in Workers : Retired(v)
    BY <1>5 DEF Get_, Retired, Idle, TypeInv, TypeOK
  <2> QED
    BY <1>2, <2>1, QuietSafe
<1> QED
  BY <1>1, <1>3, <1>4, <1>5 DEF WorkerStep

LEMMA SafeInit == Init => Safe
<1> SUFFICES ASSUME Init PROVE Safe
  OBVIOUS
<1>1. \A n \in Names : Nothing[n] = None
  BY DEF Nothing
<1>2. \A w \in Workers : workers[w].pc = "idle"
  BY IdleType DEF Init
<1>3. DOMAIN greeterWatch = {} /\ DOMAIN podWatch = {}
  BY DEF Init
<1>4. Snapshots
  BY <1>1, <1>2, <1>3 DEF Init, Snapshots, Seen
<1>5. HonestPods /\ Owned
  BY <1>1, <1>3 DEF Init, HonestPods, Honest, Owned
<1>6. JustifiedWorkers
  BY <1>2 DEF JustifiedWorkers, Justified
<1>7. LaunchRecorded /\ VerdictEarned
  BY <1>1 DEF Init, LaunchRecorded, VerdictEarned
<1> QED
  BY <1>4, <1>5, <1>6, <1>7 DEF Safe

LEMMA SafeStep == TypeInv /\ Safe /\ [Next]_vars => Safe'
<1> SUFFICES ASSUME TypeInv, Safe, [Next]_vars PROVE Safe'
  OBVIOUS
<1>1. now \in Nat
  BY DEF TypeInv, TypeOK
<1>2. CASE \E n \in Names : Expire(n)
  BY <1>1, <1>2, QuietSafe DEF Expire, Retired
<1>3. CASE UNCHANGED vars
  BY <1>1, <1>3, QuietSafe DEF vars, process, Retired
<1> QED
  BY <1>2, <1>3, EnvironmentSafe, InformersSafe, ProcessSafe, WorkerSafe DEF Next

\* However stale the caches are and whatever is lost or restarted, a pod of a
\* stored Greeter exists only after Running was stored for it.
THEOREM Recorded == Spec => []LaunchRecorded
<1>1. Safe => LaunchRecorded
  BY DEF Safe
<1> QED
  BY <1>1, TypesInit, TypesStep, SafeInit, SafeStep, PTL DEF Spec

\* However often a name is used again, a verdict is stored only for a Greeter
\* of which a pod of its own ended that way.
THEOREM Earned == Spec => []VerdictEarned
<1>1. Safe => VerdictEarned
  BY DEF Safe
<1> QED
  BY <1>1, TypesInit, TypesStep, SafeInit, SafeStep, PTL DEF Spec
==============================================================================
