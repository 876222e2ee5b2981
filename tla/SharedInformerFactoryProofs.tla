--------------------- MODULE SharedInformerFactoryProofs ---------------------
(***************************************************************************)
(* What holds of SharedInformerFactory for any goroutines, types of        *)
(* informers and stop channels.                                            *)
(***************************************************************************)
EXTENDS SharedInformerFactory, SequenceTheorems, FiniteSetTheorems, TLAPS

\* Who is between Lock and Unlock holds the lock, and nobody else does.
Exclusive == \A t \in Threads : threads[t].pc \in {"body", "loop"} <=> lock = t

\* What a caller's position says of its call and of the factory
Positions ==
    \A t \in Threads :
      /\ threads[t].pc = "loop" => threads[t].op = "Start" /\ ~ shuttingDown
      /\ threads[t].pc = "wait" => threads[t].op = "Shutdown" /\ shuttingDown
      /\ threads[t].pc # "idle" /\ threads[t].op = "InformerFor" => threads[t].type \in Types
      /\ threads[t].pc # "idle" /\ threads[t].op = "Start" => threads[t].stop \in Stops

Alive == {i \in DOMAIN goroutines : goroutines[i].pc # "done"}

\* The wait group counts the goroutines that have not called Done.
Counted == wg = Cardinality(Alive)

\* The goroutines are those of the types that are marked as started.
Launched ==
    /\ \A i \in DOMAIN goroutines : goroutines[i].type \in startedInformers
    /\ \A i, j \in DOMAIN goroutines : goroutines[i].type = goroutines[j].type => i = j

\* Callers were given the informer that the factory has.
Handed == \A y \in Types : handed[y] \subseteq {informers[y]} \ {0}

\* Once a Shutdown has returned nothing is alive, and nothing can be started.
Ended == over => shuttingDown /\ Alive = {}

IInv == TypeOK /\ Exclusive /\ Positions /\ Counted /\ Launched /\ Handed /\ Ended

------------------------------------------------------------------------------
(* Goroutines. *)

LEMMA Goroutines ==
    ASSUME TypeOK
    PROVE  /\ goroutines \in Seq(Goroutine)
           /\ Len(goroutines) \in Nat /\ DOMAIN goroutines = 1..Len(goroutines)
           /\ \A i \in DOMAIN goroutines : goroutines[i] \in Goroutine
           /\ IsFiniteSet(Alive) /\ Cardinality(Alive) \in Nat
<1>1. goroutines \in Seq(Goroutine)
  BY DEF TypeOK
<1>2. Len(goroutines) \in Nat /\ DOMAIN goroutines = 1..Len(goroutines)
  BY <1>1, LenProperties
<1>3. \A i \in DOMAIN goroutines : goroutines[i] \in Goroutine
  BY <1>1, <1>2, ElementOfSeq
<1>4. IsFiniteSet(1..Len(goroutines)) /\ Alive \in SUBSET (1..Len(goroutines))
  BY <1>2, FS_Interval DEF Alive
<1>5. IsFiniteSet(Alive)
  BY <1>4, FS_Subset
<1> QED
  BY <1>1, <1>2, <1>3, <1>5, FS_CardinalityType

\* A goroutine goes on to another position.
LEMMA Moved ==
    ASSUME TypeOK, Counted, Launched, NEW i \in DOMAIN goroutines,
           NEW pc \in {"run", "exit", "done"},
           goroutines' = [goroutines EXCEPT ![i].pc = pc],
           goroutines[i].pc # "done",
           wg' = IF pc = "done" THEN wg - 1 ELSE wg,
           startedInformers' = startedInformers
    PROVE  /\ goroutines' \in Seq(Goroutine) /\ wg' \in Nat
           /\ Counted' /\ Launched'
           /\ Alive' \subseteq Alive
<1>0. /\ goroutines \in Seq(Goroutine)
      /\ Len(goroutines) \in Nat /\ DOMAIN goroutines = 1..Len(goroutines)
      /\ \A j \in DOMAIN goroutines : goroutines[j] \in Goroutine
      /\ IsFiniteSet(Alive) /\ Cardinality(Alive) \in Nat
  BY Goroutines
<1> DEFINE g == [goroutines[i] EXCEPT !.pc = pc]
<1>1. g \in Goroutine /\ g.pc = pc /\ g.type = goroutines[i].type
  BY <1>0 DEF Goroutine
<1>2. goroutines' = [goroutines EXCEPT ![i] = g]
  OBVIOUS
<1> HIDE DEF g
<1>3. /\ goroutines' \in Seq(Goroutine) /\ DOMAIN goroutines' = DOMAIN goroutines
      /\ \A j \in DOMAIN goroutines : goroutines'[j] = IF j = i THEN g ELSE goroutines[j]
  BY <1>0, <1>1, <1>2, ExceptSeq
<1>4. Launched'
  BY <1>0, <1>1, <1>3 DEF Launched
<1>5. i \in Alive
  BY DEF Alive
<1>6. Alive' = IF pc = "done" THEN Alive \ {i} ELSE Alive
  BY <1>0, <1>1, <1>3 DEF Alive
<1>7. CASE pc = "done"
  <2>1. Alive' = Alive \ {i} /\ wg' = wg - 1
    BY <1>6, <1>7
  <2>2. IsFiniteSet(Alive \ {i}) /\ Cardinality(Alive \ {i}) = Cardinality(Alive) - 1
    BY <1>0, <1>5, FS_RemoveElement
  <2>3. Cardinality(Alive \ {i}) \in Nat
    BY <2>2, FS_CardinalityType
  <2>4. Counted' /\ wg' \in Nat
    BY <2>1, <2>2, <2>3 DEF Counted
  <2> QED
    BY <1>3, <1>4, <2>1, <2>4
<1>8. CASE pc # "done"
  BY <1>0, <1>3, <1>4, <1>6, <1>8 DEF Counted
<1> QED
  BY <1>7, <1>8

LEMMA LaunchKeeps ==
    ASSUME TypeOK, Counted, Launched, NEW y \in Types \ startedInformers, NEW c \in Stops,
           Launch(y, c), startedInformers' = startedInformers \cup {y}
    PROVE  /\ goroutines' \in Seq(Goroutine) /\ wg' \in Nat
           /\ Counted' /\ Launched'
<1>0. /\ goroutines \in Seq(Goroutine)
      /\ Len(goroutines) \in Nat /\ DOMAIN goroutines = 1..Len(goroutines)
      /\ IsFiniteSet(Alive) /\ Cardinality(Alive) \in Nat
  BY Goroutines
<1> DEFINE g == [type |-> y, stop |-> c, pc |-> "go"]
           n == Len(goroutines) + 1
<1>1. g \in Goroutine /\ g.pc = "go" /\ g.type = y
  BY DEF Goroutine
<1>2. goroutines' = Append(goroutines, g) /\ wg' = wg + 1
  BY DEF Launch
<1> HIDE DEF g
<1>3. /\ goroutines' \in Seq(Goroutine) /\ Len(goroutines') = n
      /\ \A i \in DOMAIN goroutines : goroutines'[i] = goroutines[i]
      /\ goroutines'[n] = g
  BY <1>0, <1>1, <1>2, AppendProperties
<1>4. DOMAIN goroutines' = DOMAIN goroutines \cup {n} /\ n \notin DOMAIN goroutines
  <2>1. DOMAIN goroutines' = 1..n
    BY <1>3, LenProperties
  <2> QED
    BY <1>0, <2>1
<1> HIDE DEF n
<1>5. Launched'
  BY <1>1, <1>3, <1>4 DEF Launched
<1>6. Alive' = Alive \cup {n} /\ n \notin Alive
  BY <1>1, <1>3, <1>4 DEF Alive
<1>7. Cardinality(Alive \cup {n}) = Cardinality(Alive) + 1
  BY <1>0, <1>6, FS_AddElement
<1> QED
  BY <1>0, <1>2, <1>3, <1>5, <1>6, <1>7 DEF Counted

------------------------------------------------------------------------------
(* Calls. *)

\* A caller's position changes, and perhaps the lock.
LEMMA Threaded ==
    ASSUME TypeOK, Exclusive, Positions, NEW t \in Threads, NEW x \in Thread,
           threads' = [threads EXCEPT ![t] = x],
           lock' \in {lock, t, None},
           lock' = t <=> x.pc \in {"body", "loop"},
           lock' # lock => lock \in {None, t},
           shuttingDown' = shuttingDown \/ (shuttingDown' /\ lock = t),
           x.pc = "loop" => x.op = "Start" /\ ~ shuttingDown',
           x.pc = "wait" => x.op = "Shutdown" /\ shuttingDown',
           x.pc # "idle" /\ x.op = "InformerFor" => x.type \in Types,
           x.pc # "idle" /\ x.op = "Start" => x.stop \in Stops
    PROVE  /\ threads' \in [Threads -> Thread] /\ lock' \in Threads \cup {None}
           /\ Exclusive' /\ Positions'
<1>1. threads \in [Threads -> Thread] /\ lock \in Threads \cup {None} /\ None \notin Threads
  BY NoneAssumption DEF TypeOK
<1>2. /\ threads' \in [Threads -> Thread] /\ threads'[t] = x
      /\ \A s \in Threads \ {t} : threads'[s] = threads[s]
  BY <1>1
<1>3. Exclusive'
  BY <1>1, <1>2 DEF Exclusive
<1>4. Positions'
  <2> SUFFICES ASSUME NEW s \in Threads \ {t}
               PROVE  /\ threads[s].pc = "loop" => threads[s].op = "Start" /\ ~ shuttingDown'
                      /\ threads[s].pc = "wait" => threads[s].op = "Shutdown" /\ shuttingDown'
    BY <1>2 DEF Positions
  <2> QED
    BY DEF Positions, Exclusive
<1> QED
  BY <1>1, <1>2, <1>3, <1>4

\* A step that leaves the goroutines alone
LEMMA CallKeeps ==
    ASSUME IInv, threads' \in [Threads -> Thread], lock' \in Threads \cup {None},
           Exclusive', Positions',
           UNCHANGED <<informers, created, startedInformers, wg, goroutines, handed>>,
           synced' \subseteq Types, closed' \subseteq Stops,
           shuttingDown' \in BOOLEAN, over' \in BOOLEAN, Ended'
    PROVE  IInv'
<1>1. TypeOK'
  BY DEF IInv, TypeOK
<1>2. Counted' /\ Launched' /\ Handed'
  BY DEF IInv, Counted, Launched, Handed, Alive
<1> QED
  BY <1>1, <1>2 DEF IInv
LEMMA Caller ==
    ASSUME IInv, NEW t \in Threads
    PROVE  /\ threads \in [Threads -> Thread] /\ threads[t] \in Thread
           /\ TypeOK /\ Exclusive /\ Positions /\ Ended
           /\ lock \in Threads \cup {None} /\ t # None
           /\ synced \subseteq Types /\ closed \subseteq Stops /\ startedInformers \subseteq Types
           /\ shuttingDown \in BOOLEAN /\ over \in BOOLEAN
  BY NoneAssumption DEF IInv, TypeOK

LEMMA CallingKeeps ==
    ASSUME IInv, NEW t \in Threads, CallSomething(t)
    PROVE  IInv'
<1>1. ASSUME NEW op \in Ops, NEW y \in Types \cup {None}, NEW c \in Stops \cup {None},
             Call(t, op, y, c), op = "InformerFor" => y \in Types, op = "Start" => c \in Stops
      PROVE  IInv'
  <2> DEFINE x == [Idle EXCEPT !.pc = "lock", !.op = op, !.type = y, !.stop = c]
  <2>1. Idle \in Thread
    BY DEF Idle, Thread, PCs, Ops
  <2>2. /\ x \in Thread /\ x.pc = "lock" /\ x.op = op /\ x.type = y /\ x.stop = c
    BY <2>1 DEF Thread, PCs
  <2>3. /\ threads' = [threads EXCEPT ![t] = x] /\ threads[t].pc = "idle"
        /\ UNCHANGED <<lock, factory, wg, goroutines, synced, closed, handed, over>>
    BY <1>1 DEF Call
  <2> HIDE DEF x
  <2>4. lock # t
    BY <2>3 DEF IInv, Exclusive
  <2>5. /\ threads' \in [Threads -> Thread] /\ lock' \in Threads \cup {None}
        /\ Exclusive' /\ Positions'
    BY <1>1, <2>2, <2>3, <2>4, Caller, Threaded DEF factory
  <2>6. Ended'
    BY <2>3, Caller DEF Ended, Alive, factory
  <2> QED
    BY <2>3, <2>5, <2>6, Caller, CallKeeps DEF factory
<1> QED
  BY <1>1 DEF CallSomething, Ops

\* The steps of a call that leave the informers alone
LEMMA PassingKeeps ==
    ASSUME IInv, NEW t \in Threads,
           \/ Lock(t) \/ Start(t) \/ Shutdown(t) \/ ShutdownReturns(t)
           \/ WaitForCacheSync(t) \/ SyncOne(t) \/ SyncReturns(t)
    PROVE  IInv'
<1> DEFINE u == threads[t]
<1>0. /\ threads \in [Threads -> Thread] /\ u \in Thread
      /\ lock = t <=> u.pc \in {"body", "loop"}
      /\ lock # None => (u.pc \in {"body", "loop"} <=> lock = t)
      /\ u.pc # "idle" /\ u.op = "InformerFor" => u.type \in Types
      /\ u.pc # "idle" /\ u.op = "Start" => u.stop \in Stops
  BY Caller DEF Exclusive, Positions
<1>1. ASSUME NEW pc \in PCs
      PROVE  /\ [u EXCEPT !.pc = pc] \in Thread /\ [u EXCEPT !.pc = pc].pc = pc
             /\ [u EXCEPT !.pc = pc].op = u.op /\ [u EXCEPT !.pc = pc].type = u.type
             /\ [u EXCEPT !.pc = pc].stop = u.stop
  BY <1>0 DEF Thread
<1>2. ASSUME NEW pc \in PCs, Goto(t, pc)
      PROVE  threads' = [threads EXCEPT ![t] = [u EXCEPT !.pc = pc]]
  BY <1>0, <1>2 DEF Goto
\* Any such step: from one position to another, with or without the lock
<1>3. ASSUME NEW pc \in PCs, Goto(t, pc), u.pc # "idle",
             lock' \in {lock, t, None}, lock' = t <=> pc \in {"body", "loop"},
             lock' # lock => lock \in {None, t},
             shuttingDown' = shuttingDown \/ (shuttingDown' /\ lock = t),
             pc = "loop" => u.op = "Start" /\ ~ shuttingDown',
             pc = "wait" => u.op = "Shutdown" /\ shuttingDown',
             UNCHANGED <<informers, created, startedInformers, wg, goroutines, synced,
                         closed, handed>>,
             shuttingDown' \in BOOLEAN, over' \in BOOLEAN, Ended'
      PROVE  IInv'
  <2> DEFINE x == [u EXCEPT !.pc = pc]
  <2>1. /\ x \in Thread /\ x.pc = pc /\ x.op = u.op /\ x.type = u.type /\ x.stop = u.stop
        /\ threads' = [threads EXCEPT ![t] = x]
    BY <1>1, <1>2, <1>3
  <2> HIDE DEF x
  <2>2. /\ threads' \in [Threads -> Thread] /\ lock' \in Threads \cup {None}
        /\ Exclusive' /\ Positions'
    BY <1>0, <1>3, <2>1, Caller, Threaded
  <2> QED
    BY <1>3, <2>2, Caller, CallKeeps
<1>4. ASSUME UNCHANGED <<shuttingDown, over, goroutines>>
      PROVE  Ended'
  BY <1>4, Caller DEF Ended, Alive
<1>5. CASE Lock(t)
  <2>1. Goto(t, "body") /\ u.pc = "lock" /\ lock = None /\ lock' = t
    BY <1>5 DEF Lock
  <2> QED
    BY <1>3, <1>4, <1>5, <2>1, Caller DEF Lock, PCs, factory
<1>6. CASE Start(t)
  BY <1>0, <1>3, <1>4, <1>6, Caller DEF Start, MayStart, Unlock, At, PCs, factory
<1>7. CASE Shutdown(t)
  <2>1. Ended'
    BY <1>7, Caller DEF Shutdown, Ended, Alive
  <2> QED
    BY <1>0, <1>3, <1>7, <2>1, Caller DEF Shutdown, Unlock, At, PCs
<1>8. CASE ShutdownReturns(t)
  <2>1. Alive = {}
    BY <1>8, Goroutines, FS_EmptySet DEF IInv, Counted, ShutdownReturns
  <2>2. shuttingDown
    BY <1>8, Caller DEF ShutdownReturns, At, Positions
  <2>3. Ended'
    BY <1>8, <2>1, <2>2 DEF ShutdownReturns, factory, Ended, Alive
  <2> QED
    BY <1>0, <1>3, <1>8, <2>3, Caller DEF ShutdownReturns, At, PCs, factory
<1>9. CASE WaitForCacheSync(t) \/ SyncOne(t)
  <2>1. PICK x \in Thread :
          /\ threads' = [threads EXCEPT ![t] = x]
          /\ x.pc = "sync" /\ x.op = "WaitForCacheSync"
    <3>1. CASE WaitForCacheSync(t)
      <4> DEFINE x == [u EXCEPT !.pc = "sync", !.todo = startedInformers]
      <4>1. x \in Thread /\ x.pc = "sync" /\ x.op = "WaitForCacheSync"
        BY <1>0, <3>1, Caller DEF WaitForCacheSync, At, Thread, PCs
      <4>2. threads' = [threads EXCEPT ![t] = x]
        BY <1>0, <3>1 DEF WaitForCacheSync
      <4> QED
        BY <4>1, <4>2
    <3>2. CASE SyncOne(t)
      <4>1. PICK y \in u.todo : threads' = [threads EXCEPT ![t].todo = @ \ {y}]
        BY <3>2 DEF SyncOne
      <4> DEFINE x == [u EXCEPT !.todo = @ \ {y}]
      <4>2. x \in Thread /\ x.pc = "sync" /\ x.op = "WaitForCacheSync"
        BY <1>0, <3>2 DEF SyncOne, At, Thread
      <4>3. threads' = [threads EXCEPT ![t] = x]
        BY <1>0, <4>1
      <4> QED
        BY <4>2, <4>3
    <3> QED
      BY <1>9, <3>1, <3>2
  <2>2. /\ UNCHANGED <<factory, wg, goroutines, synced, closed, handed, over>>
        /\ IF u.pc = "body" THEN lock' = None ELSE u.pc = "sync" /\ lock' = lock
    BY <1>9 DEF WaitForCacheSync, SyncOne, Unlock, At
  <2>3. /\ threads' \in [Threads -> Thread] /\ lock' \in Threads \cup {None}
        /\ Exclusive' /\ Positions'
    BY <1>0, <2>1, <2>2, Caller, Threaded DEF factory
  <2>4. Ended'
    BY <1>4, <2>2 DEF factory
  <2> QED
    BY <2>2, <2>3, <2>4, Caller, CallKeeps DEF factory
<1>10. CASE SyncReturns(t)
  BY <1>0, <1>3, <1>4, <1>10, Caller DEF SyncReturns, At, PCs, factory
<1> QED
  BY <1>5, <1>6, <1>7, <1>8, <1>9, <1>10
------------------------------------------------------------------------------
(* Informers and goroutines. *)

LEMMA InformerForKeeps ==
    ASSUME IInv, NEW t \in Threads, InformerFor(t)
    PROVE  IInv'
<1> DEFINE y == threads[t].type
           x == [threads[t] EXCEPT !.pc = "idle"]
<1>1. /\ At(t, "InformerFor", "body") /\ ExistingInformer(y)
      /\ handed' = [handed EXCEPT ![y] = @ \cup {informers'[y]}]
      /\ lock' = None /\ threads' = [threads EXCEPT ![t].pc = "idle"]
      /\ UNCHANGED <<startedInformers, shuttingDown, wg, goroutines, synced, closed, over>>
  BY DEF InformerFor, Unlock, Goto
<1>2. y \in Types /\ lock = t
  BY <1>1, Caller DEF At, Positions, Exclusive
<1>3. x \in Thread /\ x.pc = "idle" /\ threads' = [threads EXCEPT ![t] = x]
  BY <1>1, Caller DEF Thread, PCs
<1> HIDE DEF x
<1>4. /\ threads' \in [Threads -> Thread] /\ lock' \in Threads \cup {None}
      /\ Exclusive' /\ Positions'
  BY <1>1, <1>2, <1>3, Caller, Threaded
<1>5. /\ informers \in [Types -> Nat] /\ handed \in [Types -> SUBSET Nat] /\ created \in Nat
      /\ Handed
  BY DEF IInv, TypeOK
<1> HIDE DEF y
<1>6. /\ informers' \in [Types -> Nat] /\ created' \in Nat
      /\ informers'[y] # 0 /\ (informers[y] # 0 => informers'[y] = informers[y])
      /\ \A z \in Types \ {y} : informers'[z] = informers[z]
  BY <1>1, <1>2, <1>5 DEF ExistingInformer, NewInformer
<1>7. handed' \in [Types -> SUBSET Nat] /\ Handed'
  <2>1. handed[y] \subseteq {informers[y]} \ {0}
    BY <1>2, <1>5 DEF Handed
  <2>2. handed[y] \cup {informers'[y]} \subseteq {informers'[y]} \ {0}
    BY <1>6, <2>1
  <2>3. informers'[y] \in Nat
    BY <1>2, <1>6
  <2> QED
    BY <1>1, <1>5, <1>6, <2>2, <2>3 DEF Handed
<1>8. TypeOK'
  BY <1>1, <1>4, <1>6, <1>7 DEF IInv, TypeOK
<1>9. Counted' /\ Launched' /\ Ended'
  BY <1>1 DEF IInv, Counted, Launched, Ended, Alive
<1> QED
  BY <1>4, <1>7, <1>8, <1>9 DEF IInv

LEMMA StartLoopKeeps ==
    ASSUME IInv, NEW t \in Threads, StartLoop(t)
    PROVE  IInv'
<1>1. /\ threads[t].op = "Start" /\ threads[t].pc = "loop"
      /\ ~ shuttingDown /\ lock = t /\ threads[t].stop \in Stops /\ ~ over
      /\ UNCHANGED <<informers, created, shuttingDown, synced, closed, handed, over>>
  BY Caller DEF StartLoop, At, Positions, Exclusive, Ended
<1>2. Ended' /\ Handed'
  BY <1>1 DEF IInv, Ended, Handed
<1>3. ASSUME NEW y \in Unstarted, Launch(y, threads[t].stop),
             startedInformers' = startedInformers \cup {y}, UNCHANGED <<lock, threads>>
      PROVE  IInv'
  <2>1. y \in Types \ startedInformers
    BY <1>3 DEF Unstarted
  <2>2. goroutines' \in Seq(Goroutine) /\ wg' \in Nat /\ Counted' /\ Launched'
    BY <1>1, <1>3, <2>1, LaunchKeeps DEF IInv
  <2>3. TypeOK'
    BY <1>1, <1>3, <2>1, <2>2 DEF IInv, TypeOK
  <2>4. Exclusive' /\ Positions'
    BY <1>1, <1>3 DEF IInv, Exclusive, Positions
  <2> QED
    BY <1>2, <2>2, <2>3, <2>4 DEF IInv
<1>4. CASE /\ lock' = None /\ Goto(t, "idle")
           /\ UNCHANGED <<wg, goroutines, startedInformers>>
  <2> DEFINE x == [threads[t] EXCEPT !.pc = "idle"]
  <2>1. x \in Thread /\ x.pc = "idle" /\ threads' = [threads EXCEPT ![t] = x]
    BY <1>4, Caller DEF Thread, PCs, Goto
  <2> HIDE DEF x
  <2>2. /\ threads' \in [Threads -> Thread] /\ lock' \in Threads \cup {None}
        /\ Exclusive' /\ Positions'
    BY <1>1, <1>4, <2>1, Caller, Threaded
  <2> QED
    BY <1>1, <1>2, <1>4, <2>2, Caller, CallKeeps
<1> QED
  BY <1>3, <1>4 DEF StartLoop, Unlock

LEMMA GoingKeeps ==
    ASSUME IInv, NEW i \in DOMAIN goroutines, Goes(i)
    PROVE  IInv'
<1>1. ASSUME NEW pc \in {"run", "exit", "done"}, goroutines[i].pc # "done",
             goroutines' = [goroutines EXCEPT ![i].pc = pc],
             wg' = IF pc = "done" THEN wg - 1 ELSE wg,
             UNCHANGED <<lock, factory, synced, closed, threads, handed, over>>
      PROVE  IInv'
  <2>1. goroutines' \in Seq(Goroutine) /\ wg' \in Nat /\ Counted' /\ Launched'
        /\ Alive' \subseteq Alive
    BY <1>1, Moved DEF IInv, factory
  <2>2. TypeOK'
    BY <1>1, <2>1 DEF IInv, TypeOK, factory
  <2>3. Exclusive' /\ Positions' /\ Handed'
    BY <1>1 DEF IInv, Exclusive, Positions, Handed, factory
  <2>4. Ended'
    BY <1>1, <2>1 DEF IInv, Ended, factory
  <2> QED
    BY <2>1, <2>2, <2>3, <2>4 DEF IInv
<1>2. CASE Run(i)
  <2>1. PICK pc \in {"run", "exit"} : goroutines' = [goroutines EXCEPT ![i].pc = pc]
    <3> DEFINE running == \E j \in DOMAIN goroutines \ {i} :
                            goroutines[j].type = goroutines[i].type /\ goroutines[j].pc # "go"
    <3>1. goroutines' = [goroutines EXCEPT ![i].pc = IF running THEN "exit" ELSE "run"]
      BY <1>2 DEF Run
    <3> HIDE DEF running
    <3>2. (IF running THEN "exit" ELSE "run") \in {"run", "exit"}
      OBVIOUS
    <3> QED
      BY <3>1, <3>2
  <2>2. pc # "done"
    OBVIOUS
  <2> QED
    BY <1>1, <1>2, <2>1, <2>2 DEF Run
<1>3. CASE Stop(i)
  BY <1>1, <1>3 DEF Stop
<1>4. CASE Done(i)
  BY <1>1, <1>4 DEF Done
<1>5. CASE Sync(i)
  <2>1. /\ goroutines[i].type \in Types /\ synced' = synced \cup {goroutines[i].type}
        /\ UNCHANGED <<lock, factory, wg, goroutines, closed, threads, handed, over>>
    BY <1>5, Goroutines DEF IInv, Sync, Goroutine
  <2>2. /\ threads' \in [Threads -> Thread] /\ lock' \in Threads \cup {None}
        /\ synced' \subseteq Types /\ closed' \subseteq Stops
        /\ shuttingDown' \in BOOLEAN /\ over' \in BOOLEAN
    BY <2>1 DEF IInv, TypeOK, factory
  <2>3. Exclusive' /\ Positions' /\ Ended'
    BY <2>1 DEF IInv, Exclusive, Positions, Ended, Alive, factory
  <2> QED
    BY <2>1, <2>2, <2>3, CallKeeps DEF factory
<1> QED
  BY <1>2, <1>3, <1>4, <1>5 DEF Goes

LEMMA Starts ==
    ASSUME Init
    PROVE  IInv
<1>1. Idle \in Thread /\ Idle.pc = "idle"
  BY DEF Idle, Thread, PCs, Ops
<1>2. goroutines = <<>> /\ DOMAIN goroutines = {} /\ goroutines \in Seq(Goroutine)
  BY DEF Init
<1>3. TypeOK
  BY <1>1, <1>2 DEF Init, TypeOK
<1>4. Exclusive /\ Positions
  BY <1>1, NoneAssumption DEF Init, Exclusive, Positions
<1>5. Counted /\ Launched /\ Handed /\ Ended
  <2>1. Alive = {} /\ Cardinality({}) = 0
    BY <1>2, FS_EmptySet DEF Alive
  <2> QED
    BY <1>2, <2>1 DEF Init, Counted, Launched, Handed, Ended
<1> QED
  BY <1>3, <1>4, <1>5 DEF IInv

LEMMA StepKeeps ==
    ASSUME IInv, [Next]_vars
    PROVE  IInv'
<1>1. ASSUME NEW c \in Stops, Close(c)
      PROVE  IInv'
  <2>1. /\ threads' \in [Threads -> Thread] /\ lock' \in Threads \cup {None}
        /\ synced' \subseteq Types /\ closed' \subseteq Stops
        /\ shuttingDown' \in BOOLEAN /\ over' \in BOOLEAN
    BY <1>1 DEF IInv, TypeOK, Close, factory
  <2>2. Exclusive' /\ Positions' /\ Ended'
    BY <1>1 DEF IInv, Close, Exclusive, Positions, Ended, Alive, factory
  <2> QED
    BY <1>1, <2>1, <2>2, CallKeeps DEF Close, factory
<1>2. CASE UNCHANGED vars
  <2>1. /\ threads' \in [Threads -> Thread] /\ lock' \in Threads \cup {None}
        /\ synced' \subseteq Types /\ closed' \subseteq Stops
        /\ shuttingDown' \in BOOLEAN /\ over' \in BOOLEAN
    BY <1>2 DEF IInv, TypeOK, vars, factory
  <2>2. Exclusive' /\ Positions' /\ Ended'
    BY <1>2 DEF IInv, vars, Exclusive, Positions, Ended, Alive, factory
  <2> QED
    BY <1>2, <2>1, <2>2, CallKeeps DEF vars, factory
<1>3. ASSUME NEW t \in Threads, CallSomething(t) \/ Lock(t) \/ Step(t)
      PROVE  IInv'
  BY <1>3, CallingKeeps, PassingKeeps, InformerForKeeps, StartLoopKeeps DEF Step
<1> QED
  BY <1>1, <1>2, <1>3, GoingKeeps DEF Next

LEMMA Invariance == Spec => []IInv
<1> QED
  BY Starts, StepKeeps, PTL DEF Spec

------------------------------------------------------------------------------
(* Theorems. *)

\* The fields of the factory, the wait group among them, and the calls of all
\* goroutines keep their types: the counter of the wait group never goes below zero.
THEOREM Typed == Spec => []TypeOK
<1>1. IInv => TypeOK
  BY DEF IInv
<1> QED
  BY <1>1, Invariance, PTL

\* However many goroutines call Start and InformerFor at once, every informer is
\* launched at most once and all callers are given the same one.
THEOREM Shared == Spec => []SharedOnce
<1>1. IInv => SharedOnce
  <2>1. ASSUME IInv, NEW y \in Types
        PROVE  Cardinality(handed[y]) <= 1
    <3>1. handed[y] \subseteq {informers[y]}
      BY <2>1 DEF IInv, Handed
    <3>2. IsFiniteSet({informers[y]}) /\ Cardinality({informers[y]}) = 1
      BY FS_Singleton
    <3> QED
      BY <3>1, <3>2, FS_Subset
  <2>2. IInv => \A i, j \in DOMAIN goroutines : goroutines[i].type = goroutines[j].type => i = j
    BY DEF IInv, Launched
  <2> QED
    BY <2>1, <2>2 DEF SharedOnce
<1> QED
  BY <1>1, Invariance, PTL

\* Once a call of Shutdown has returned, every goroutine that Start has ever launched
\* is over, and none is launched again.
THEOREM Quiet == Spec => []NothingAfterShutdown
<1>1. IInv => NothingAfterShutdown
  BY DEF IInv, NothingAfterShutdown, Ended, Alive
<1> QED
  BY <1>1, Invariance, PTL

\* While a Shutdown is in wg.Wait nobody can call wg.Add: shuttingDown was set with
\* the lock held, and Start looks at it with the lock held.
THEOREM WaitAlone == Spec => []NoAddDuringWait
<1>1. IInv => NoAddDuringWait
  BY DEF IInv, NoAddDuringWait, Positions, At
<1> QED
  BY <1>1, Invariance, PTL

------------------------------------------------------------------------------
(* The factory implements AtomicInformers. *)

\* What the mapping needs besides: what is marked as started was made and launched, and
\* a goroutine leaves informer.Run only when its channel is closed.
Mapped ==
    /\ \A y \in startedInformers :
         y \in Made /\ \E i \in DOMAIN goroutines : goroutines[i].type = y
    /\ \A i \in DOMAIN goroutines :
         goroutines[i].pc \in {"exit", "done"} => goroutines[i].stop \in closed

\* The goroutine of a type is the only one, so Run does not find another.
LEMMA MappedKept == IInv /\ Mapped /\ [Next]_vars => Mapped'
<1> SUFFICES ASSUME IInv, Mapped, [Next]_vars PROVE Mapped'
  OBVIOUS
<1>0. /\ goroutines \in Seq(Goroutine) /\ informers \in [Types -> Nat]
      /\ Len(goroutines) \in Nat /\ DOMAIN goroutines = 1..Len(goroutines)
      /\ \A i \in DOMAIN goroutines : goroutines[i] \in Goroutine
      /\ \A i, j \in DOMAIN goroutines : goroutines[i].type = goroutines[j].type => i = j
  BY Goroutines DEF IInv, TypeOK, Launched
<1>1. CASE UNCHANGED <<informers, startedInformers, goroutines>> /\ closed \subseteq closed'
  BY <1>1 DEF Mapped, Made
<1>2. ASSUME NEW t \in Threads, InformerFor(t) PROVE Mapped'
  <2>1. /\ UNCHANGED <<startedInformers, goroutines, closed>>
        /\ \A y \in Types : informers[y] # 0 => informers'[y] # 0
    BY <1>0, <1>2 DEF InformerFor, ExistingInformer, NewInformer, IInv, TypeOK
  <2> QED
    BY <2>1 DEF Mapped, Made
<1>3. ASSUME NEW t \in Threads, StartLoop(t), ~ UNCHANGED <<startedInformers, goroutines>>
      PROVE  Mapped'
  <2>1. PICK y \in Unstarted : /\ Launch(y, threads[t].stop)
                               /\ startedInformers' = startedInformers \cup {y}
    BY <1>3 DEF StartLoop
  <2>2. UNCHANGED <<informers, closed>> /\ y \in Made
    BY <1>3, <2>1 DEF StartLoop, Unstarted, Made
  <2> DEFINE g == [type |-> y, stop |-> threads[t].stop, pc |-> "go"]
  <2>3. /\ goroutines' = Append(goroutines, g) /\ g.type = y /\ g.pc = "go"
    BY <2>1 DEF Launch
  <2> HIDE DEF g
  <2>4. /\ DOMAIN goroutines' = 1..(Len(goroutines) + 1)
        /\ \A i \in DOMAIN goroutines : goroutines'[i] = goroutines[i]
        /\ goroutines'[Len(goroutines) + 1] = g
    BY <1>0, <2>3
  <2>5. \A i \in DOMAIN goroutines' : i \in DOMAIN goroutines \/ goroutines'[i] = g
    BY <1>0, <2>4
  <2>6. DOMAIN goroutines \subseteq DOMAIN goroutines' /\ Len(goroutines) + 1 \in DOMAIN goroutines'
    BY <1>0, <2>4
  <2> QED
    BY <2>1, <2>2, <2>3, <2>4, <2>5, <2>6 DEF Mapped, Made
<1>4. ASSUME NEW i \in DOMAIN goroutines, Goes(i) PROVE Mapped'
  <2>1. CASE Sync(i)
    BY <1>1, <2>1 DEF Sync, factory
  <2>2. ASSUME NEW pc, goroutines' = [goroutines EXCEPT ![i].pc = pc],
               pc = "run" \/ goroutines[i].stop \in closed,
               UNCHANGED <<factory, closed>>
        PROVE  Mapped'
    <3>1. /\ DOMAIN goroutines' = DOMAIN goroutines
          /\ \A j \in DOMAIN goroutines :
               goroutines'[j] = IF j = i THEN [goroutines[i] EXCEPT !.pc = pc] ELSE goroutines[j]
      BY <1>0, <2>2
    <3>2. \A j \in DOMAIN goroutines :
            /\ goroutines'[j].type = goroutines[j].type /\ goroutines'[j].stop = goroutines[j].stop
            /\ goroutines'[j].pc = IF j = i THEN pc ELSE goroutines[j].pc
      BY <1>0, <3>1 DEF Goroutine
    <3> QED
      BY <2>2, <3>1, <3>2 DEF Mapped, Made, factory
  <2>3. CASE Run(i)
    <3>1. ~ \E j \in DOMAIN goroutines \ {i} :
              goroutines[j].type = goroutines[i].type /\ goroutines[j].pc # "go"
      BY <1>0
    <3>2. goroutines' = [goroutines EXCEPT ![i].pc = "run"]
      BY <2>3, <3>1 DEF Run
    <3> QED
      BY <2>2, <2>3, <3>2 DEF Run
  <2>4. CASE Stop(i)
    BY <2>2, <2>4 DEF Stop
  <2>5. CASE Done(i)
    BY <2>2, <2>5 DEF Done, Mapped
  <2> QED
    BY <1>4, <2>1, <2>3, <2>4, <2>5 DEF Goes
<1>5. ASSUME NEW t \in Threads, CallSomething(t) \/ Lock(t) \/ Step(t),
             ~ InformerFor(t), StartLoop(t) => UNCHANGED <<startedInformers, goroutines>>
      PROVE  Mapped'
  BY <1>1, <1>5 DEF CallSomething, Call, Lock, Step, Start, StartLoop, Launch, Shutdown,
     ShutdownReturns, WaitForCacheSync, SyncOne, SyncReturns, factory
<1>6. ASSUME NEW c \in Stops, Close(c) PROVE Mapped'
  BY <1>1, <1>6 DEF Close, factory
<1> QED
  BY <1>1, <1>2, <1>3, <1>4, <1>5, <1>6 DEF Next, vars, factory

Started == [y \in Types |-> StartedWith(y)]

Over == {goroutines[i].type : i \in {j \in DOMAIN goroutines : goroutines[j].pc = "done"}}

Calls == [t \in Threads |-> [threads[t] EXCEPT !.pc = Effective(@)]]

\* What StartedWith is, in each of the cases of its definition
StartsSeen ==
    \A y \in Types :
      /\ \A i \in DOMAIN goroutines :
           goroutines[i].type = y => StartedWith(y) = goroutines[i].stop
      /\ y \in startedInformers =>
           /\ y \in Made /\ StartedWith(y) \in Stops
           /\ \E i \in DOMAIN goroutines : goroutines[i].type = y
      /\ y \notin startedInformers =>
           /\ \A i \in DOMAIN goroutines : goroutines[i].type # y
           /\ \A t \in Looping : y \in Made => StartedWith(y) = threads[t].stop
           /\ y \notin Made \/ Looping = {} => StartedWith(y) = None

LEMMA StartsAreSeen == IInv /\ Mapped => StartsSeen
<1> SUFFICES ASSUME IInv, Mapped, NEW y \in Types
             PROVE
      /\ \A i \in DOMAIN goroutines :
           goroutines[i].type = y => StartedWith(y) = goroutines[i].stop
      /\ y \in startedInformers =>
           /\ y \in Made /\ StartedWith(y) \in Stops
           /\ \E i \in DOMAIN goroutines : goroutines[i].type = y
      /\ y \notin startedInformers =>
           /\ \A i \in DOMAIN goroutines : goroutines[i].type # y
           /\ \A t \in Looping : y \in Made => StartedWith(y) = threads[t].stop
           /\ y \notin Made \/ Looping = {} => StartedWith(y) = None
  BY DEF StartsSeen
<1> DEFINE launched == {i \in DOMAIN goroutines : goroutines[i].type = y}
<1>0. /\ \A i \in DOMAIN goroutines : goroutines[i].stop \in Stops
      /\ \A i, j \in DOMAIN goroutines : goroutines[i].type = goroutines[j].type => i = j
      /\ \A i \in DOMAIN goroutines : goroutines[i].type \in startedInformers
      /\ \A s, t \in Looping : s = t
  BY Goroutines DEF IInv, Launched, Goroutine, Looping, At, Exclusive
<1>1. ASSUME NEW i \in DOMAIN goroutines, goroutines[i].type = y
      PROVE  StartedWith(y) = goroutines[i].stop
  <2>1. launched = {i}
    BY <1>0, <1>1
  <2> HIDE DEF launched
  <2>2. StartedWith(y) = goroutines[CHOOSE j \in launched : TRUE].stop
    BY <2>1 DEF StartedWith, launched
  <2> QED
    BY <2>1, <2>2
<1>2. ASSUME y \notin startedInformers
      PROVE  /\ \A i \in DOMAIN goroutines : goroutines[i].type # y
             /\ \A t \in Looping : y \in Made => StartedWith(y) = threads[t].stop
             /\ y \notin Made \/ Looping = {} => StartedWith(y) = None
  <2>1. \A i \in DOMAIN goroutines : goroutines[i].type # y
    BY <1>0, <1>2
  <2>2. StartedWith(y) = IF y \in Made /\ Looping # {}
                         THEN threads[CHOOSE t \in Looping : TRUE].stop ELSE None
    BY <2>1 DEF StartedWith
  <2>3. \A t \in Looping : t = CHOOSE s \in Looping : TRUE
    BY <1>0
  <2> QED
    BY <2>1, <2>2, <2>3
<1>3. ASSUME y \in startedInformers
      PROVE  /\ y \in Made /\ StartedWith(y) \in Stops
             /\ \E i \in DOMAIN goroutines : goroutines[i].type = y
  BY <1>0, <1>1, <1>3 DEF Mapped
<1> QED
  BY <1>1, <1>2, <1>3

LEMMA StartsAreSeenNext == (IInv /\ Mapped)' => StartsSeen'
  BY StartsAreSeen, PTL

\* Which informers count as running, and that none is counted with a channel it does
\* not have.
LEMMA RunningIs ==
    ASSUME IInv, StartsSeen
    PROVE  /\ None \notin Stops
           /\ \A y \in Types : Started[y] = StartedWith(y)
           /\ \A t \in Looping : threads[t].stop \in Stops
           /\ Atomic!Running = {y \in Types : StartedWith(y) # None}
           /\ Looping = {} => Atomic!Running = startedInformers
           /\ startedInformers \subseteq Atomic!Running
<1>1. /\ None \notin Stops /\ startedInformers \subseteq Types
      /\ \A t \in Looping : threads[t].stop \in Stops
  BY NoneAssumption DEF IInv, TypeOK, Positions, Looping, At
<1>2. Atomic!Running = {y \in Types : StartedWith(y) # None}
  BY DEF Atomic!Running
<1>3. \A y \in startedInformers : StartedWith(y) # None
  BY <1>1 DEF StartsSeen
<1>4. Looping = {} => \A y \in Types \ startedInformers : StartedWith(y) = None
  BY DEF StartsSeen
<1> QED
  BY <1>1, <1>2, <1>3, <1>4 DEF Started

\* Nothing changes in what counts as started.
LEMMA StartedKept ==
    ASSUME UNCHANGED <<informers, goroutines>>,
           Looping' = Looping, \A t \in Looping : threads'[t].stop = threads[t].stop
    PROVE  Started' = Started /\ Over' = Over /\ Made' = Made
<1>1. Made' = Made /\ Over' = Over
  BY DEF Made, Over
<1>2. ASSUME NEW y \in Types PROVE StartedWith(y)' = StartedWith(y)
  <2> DEFINE launched == {i \in DOMAIN goroutines : goroutines[i].type = y}
             s == CHOOSE t \in Looping : TRUE
  <2>1. Looping # {} => s \in Looping
    OBVIOUS
  <2>2. Looping # {} => threads'[s].stop = threads[s].stop
    BY <2>1
  <2>3. (CHOOSE t \in Looping' : TRUE) = s
    OBVIOUS
  <2> HIDE DEF s
  <2> QED
    BY <1>1, <2>2, <2>3 DEF StartedWith, s
<1> QED
  BY <1>1, <1>2 DEF Started

\* The call of one thread goes on.
LEMMA CallsMove ==
    ASSUME TypeOK, NEW t \in Threads
    PROVE  /\ Calls[t].pc = Effective(threads[t].pc) /\ Calls[t].op = threads[t].op
           /\ Calls[t].type = threads[t].type /\ Calls[t].stop = threads[t].stop
           /\ Calls[t].todo = threads[t].todo
           /\ \A pc : Goto(t, pc) => Calls' = [Calls EXCEPT ![t].pc = Effective(pc)]
           /\ \A u \in Thread : threads' = [threads EXCEPT ![t] = u]
                => Calls' = [Calls EXCEPT ![t] = [u EXCEPT !.pc = Effective(u.pc)]]
<1>1. threads \in [Threads -> Thread] /\ threads[t] \in Thread
  BY DEF TypeOK
<1>2. Calls = [s \in Threads |-> [threads[s] EXCEPT !.pc = Effective(threads[s].pc)]]
  BY DEF Calls
<1>3. Calls' = [s \in Threads |-> [threads'[s] EXCEPT !.pc = Effective(threads'[s].pc)]]
  BY DEF Calls, Effective
<1>4. ASSUME NEW pc, Goto(t, pc) PROVE Calls' = [Calls EXCEPT ![t].pc = Effective(pc)]
  <2>1. threads' = [threads EXCEPT ![t].pc = pc]
    BY <1>4 DEF Goto
  <2>2. threads'[t] = [threads[t] EXCEPT !.pc = pc] /\ threads[t].pc \in PCs
    BY <1>1, <2>1 DEF Thread
  <2>3. [threads'[t] EXCEPT !.pc = Effective(threads'[t].pc)]
          = [[threads[t] EXCEPT !.pc = Effective(threads[t].pc)] EXCEPT !.pc = Effective(pc)]
    BY <1>1, <2>2 DEF Thread
  <2>4. \A s \in Threads \ {t} : threads'[s] = threads[s]
    BY <1>1, <2>1
  <2> QED
    BY <1>2, <1>3, <2>3, <2>4
<1>5. ASSUME NEW u \in Thread, threads' = [threads EXCEPT ![t] = u]
      PROVE  Calls' = [Calls EXCEPT ![t] = [u EXCEPT !.pc = Effective(u.pc)]]
  <2>1. threads'[t] = u /\ \A s \in Threads \ {t} : threads'[s] = threads[s]
    BY <1>1, <1>5
  <2> QED
    BY <1>2, <1>3, <2>1
<1> QED
  BY <1>1, <1>2, <1>4, <1>5 DEF Thread

LEMMA AtomicInit == Init => Atomic!Init
<1> SUFFICES ASSUME Init PROVE Atomic!Init
  OBVIOUS
<1>1. Made = {} /\ \A y \in Types : StartedWith(y) = None
  BY DEF Init, Made, StartedWith
<1>2. Calls = [t \in Threads |-> [pc |-> "idle", op |-> "Start", type |-> None, stop |-> None,
                                 todo |-> {}]]
  BY DEF Init, Calls, Idle, Effective
<1>3. Over = {}
  BY DEF Init, Over
<1> QED
  BY <1>1, <1>2, <1>3 DEF Init, Atomic!Init, Calls, Over

\* The steps of calls that start nothing.
LEMMA AtomicCalls ==
    ASSUME IInv, StartsSeen, NEW t \in Threads,
           \/ CallSomething(t) \/ Lock(t) \/ Shutdown(t) \/ ShutdownReturns(t)
           \/ WaitForCacheSync(t) \/ SyncOne(t) \/ SyncReturns(t)
    PROVE  Atomic!Next \/ UNCHANGED Atomic!vars
<1> DEFINE u == threads[t]
<1> USE DEF Atomic!Goto, Atomic!Called, Atomic!Served, Atomic!informers, Atomic!vars
<1>0. /\ TypeOK /\ threads \in [Threads -> Thread] /\ u \in Thread /\ t \notin Looping
      /\ u.pc # "idle" /\ u.op = "InformerFor" => u.type \in Types
      /\ u.pc \in {"body", "loop"} <=> lock = t
      /\ Made' = Made /\ Started' = Started /\ Over' = Over
  <2>1. threads \in [Threads -> Thread] /\ u \in Thread /\ t \notin Looping
    BY Caller DEF IInv, TypeOK, CallSomething, Call, Lock, Shutdown, ShutdownReturns,
       WaitForCacheSync, SyncOne, SyncReturns, At, Looping
  <2>2. UNCHANGED <<informers, goroutines>> /\ \A s \in Threads \ {t} : threads'[s] = threads[s]
    BY <2>1 DEF CallSomething, Call, Lock, Shutdown, ShutdownReturns,
       WaitForCacheSync, SyncOne, SyncReturns, factory, Goto
  <2>3. threads'[t].pc # "loop"
    <3>1. CASE CallSomething(t)
      BY <2>1, <3>1 DEF CallSomething, Call, Idle
    <3>2. CASE WaitForCacheSync(t) \/ SyncOne(t)
      BY <2>1, <3>2 DEF WaitForCacheSync, SyncOne, At, Thread
    <3>3. CASE Lock(t) \/ Shutdown(t) \/ ShutdownReturns(t) \/ SyncReturns(t)
      BY <2>1, <3>3 DEF Lock, Shutdown, ShutdownReturns, SyncReturns, Goto, Thread
    <3> QED
      BY <3>1, <3>2, <3>3
  <2>4. Looping' = Looping /\ \A s \in Looping : threads'[s].stop = threads[s].stop
    BY <2>1, <2>2, <2>3 DEF Looping, At
  <2> QED
    BY <2>1, <2>2, <2>4, StartedKept, Caller DEF IInv, Positions, Exclusive
<1>1. ASSUME NEW op \in Ops, NEW y \in Types \cup {None}, NEW c \in Stops \cup {None},
             Call(t, op, y, c)
      PROVE  Atomic!Call(t, op, y, c)
  <2> DEFINE v == [Idle EXCEPT !.pc = "lock", !.op = op, !.type = y, !.stop = c]
  <2>1. /\ v \in Thread
        /\ v.pc = "lock" /\ v.op = op /\ v.type = y /\ v.stop = c /\ v.todo = {}
    <3>1. Idle \in Thread /\ Idle.todo = {}
      BY DEF Idle, Thread, PCs, Ops
    <3> QED
      BY <3>1 DEF Thread, PCs
  <2>2. threads' = [threads EXCEPT ![t] = v] /\ u.pc = "idle" /\ UNCHANGED <<factory, synced, closed>>
    BY <1>1 DEF Call
  <2> HIDE DEF v
  <2>3. [v EXCEPT !.pc = Effective(v.pc)]
          = [pc |-> "called", op |-> op, type |-> y, stop |-> c, todo |-> {}]
    BY <2>1 DEF Effective, Thread
  <2>4. Calls' = [Calls EXCEPT ![t] = [pc |-> "called", op |-> op, type |-> y, stop |-> c,
                                      todo |-> {}]]
        /\ Calls[t].pc = "idle"
    BY <1>0, <2>1, <2>2, <2>3, CallsMove DEF Effective
  <2> QED
    BY <1>0, <2>2, <2>4 DEF Atomic!Call, Calls, Started, Over, factory
<1>2. CASE CallSomething(t)
  BY <1>1, <1>2 DEF CallSomething, Ops, Atomic!Next
<1>3. CASE Lock(t)
  <2>1. Calls' = [Calls EXCEPT ![t].pc = "called"] /\ Calls[t].pc = "called"
    BY <1>0, <1>3, CallsMove DEF Lock, Effective
  <2>2. Calls' = Calls
    <3>1. [Calls[t] EXCEPT !.pc = "called"] = Calls[t]
      BY <1>0, <2>1 DEF Calls, Thread
    <3> QED
      BY <2>1, <3>1 DEF Calls
  <2> QED
    BY <1>0, <1>3, <2>2 DEF Lock, factory, Calls, Started, Over
<1>4. CASE Shutdown(t)
  <2>1. Calls' = [Calls EXCEPT ![t].pc = "served"] /\ Calls[t].pc = "called"
        /\ Calls[t].op = "Shutdown"
    BY <1>0, <1>4, CallsMove DEF Shutdown, At, Effective
  <2>2. Atomic!Shutdown(t)
    BY <1>0, <1>4, <2>1 DEF Shutdown, Atomic!Shutdown, Calls, Started, Over
  <2> QED
    BY <2>2 DEF Atomic!Next
<1>5. CASE ShutdownReturns(t)
  <2>1. Calls' = [Calls EXCEPT ![t].pc = "idle"] /\ Calls[t].pc = "served"
        /\ Calls[t].op = "Shutdown"
    BY <1>0, <1>5, CallsMove DEF ShutdownReturns, At, Effective
  <2>2. Looping = {} /\ Atomic!Running = startedInformers
    <3>1. Looping = {}
      BY <1>5 DEF ShutdownReturns, At, Looping, IInv, Positions
    <3> QED
      BY <3>1, RunningIs
  <2>3. startedInformers \subseteq Over
    <3>1. Alive = {}
      BY <1>5, Goroutines, FS_EmptySet DEF IInv, Counted, ShutdownReturns
    <3> QED
      BY <3>1 DEF Alive, Over, StartsSeen, IInv, TypeOK
  <2>4. Atomic!Return(t)
    BY <1>0, <1>5, <2>1, <2>2, <2>3
       DEF ShutdownReturns, factory, Atomic!Return, Calls, Started, Over
  <2> QED
    BY <2>4 DEF Atomic!Next
<1>6. CASE WaitForCacheSync(t)
  <2> DEFINE v == [u EXCEPT !.pc = "sync", !.todo = startedInformers]
  <2>1. v \in Thread /\ threads' = [threads EXCEPT ![t] = v] /\ startedInformers \subseteq Types
    BY <1>0, <1>6 DEF WaitForCacheSync, Thread, PCs, TypeOK
  <2>2. Looping = {} /\ Atomic!Running = startedInformers
    <3>1. Looping = {}
      BY <1>0, <1>6 DEF WaitForCacheSync, At, Looping, IInv, Exclusive
    <3> QED
      BY <3>1, RunningIs
  <2>3. Calls' = [Calls EXCEPT ![t] = [v EXCEPT !.pc = Effective(v.pc)]]
    BY <1>0, <2>1, CallsMove
  <2>4. [v EXCEPT !.pc = Effective(v.pc)]
          = [Calls[t] EXCEPT !.pc = "served", !.todo = startedInformers]
    BY <1>0 DEF Calls, Effective, Thread
  <2> HIDE DEF v
  <2>5. Calls' = [Calls EXCEPT ![t].pc = "served", ![t].todo = startedInformers]
        /\ Calls[t].pc = "called" /\ Calls[t].op = "WaitForCacheSync"
    <3>1. Calls' = [Calls EXCEPT ![t] = [Calls[t] EXCEPT !.pc = "served",
                                                        !.todo = startedInformers]]
      BY <2>3, <2>4
    <3> QED
      BY <1>0, <1>6, <3>1, CallsMove DEF WaitForCacheSync, At, Effective, Calls
  <2>6. Atomic!WaitForCacheSync(t)
    BY <1>0, <1>6, <2>2, <2>5
       DEF WaitForCacheSync, Atomic!WaitForCacheSync, Calls, Started, Over, factory
  <2> QED
    BY <2>6 DEF Atomic!Next
<1>7. CASE SyncOne(t)
  <2>1. PICK y \in u.todo : /\ y \in synced \/ u.stop \in closed
                            /\ threads' = [threads EXCEPT ![t].todo = @ \ {y}]
    BY <1>7 DEF SyncOne
  <2> DEFINE v == [u EXCEPT !.todo = @ \ {y}]
  <2>2. v \in Thread /\ threads' = [threads EXCEPT ![t] = v] /\ y \in Types
    BY <1>0, <2>1 DEF Thread
  <2>3. Calls' = [Calls EXCEPT ![t] = [v EXCEPT !.pc = Effective(v.pc)]]
    BY <1>0, <2>2, CallsMove
  <2>4. [v EXCEPT !.pc = Effective(v.pc)] = [Calls[t] EXCEPT !.todo = @ \ {y}]
    BY <1>0 DEF Calls, Effective, Thread
  <2> HIDE DEF v
  <2>5. Calls' = [Calls EXCEPT ![t].todo = @ \ {y}]
        /\ Calls[t].pc = "served" /\ Calls[t].op = "WaitForCacheSync" /\ Calls[t].stop = u.stop
    <3>1. Calls' = [Calls EXCEPT ![t] = [Calls[t] EXCEPT !.todo = @ \ {y}]]
      BY <2>3, <2>4
    <3>2. Calls[t].pc = "served" /\ Calls[t].op = "WaitForCacheSync" /\ Calls[t].stop = u.stop
      BY <1>0, <1>7, CallsMove DEF SyncOne, At, Effective
    <3> QED
      BY <3>1, <3>2
  <2>6. Atomic!SyncOne(t, y)
    BY <1>0, <1>7, <2>1, <2>5 DEF SyncOne, Atomic!SyncOne, Calls, Started, Over, factory
  <2> QED
    BY <2>2, <2>6 DEF Atomic!Next
<1>8. CASE SyncReturns(t)
  <2>1. Calls' = [Calls EXCEPT ![t].pc = "idle"] /\ Calls[t].pc = "served"
        /\ Calls[t].op = "WaitForCacheSync" /\ Calls[t].todo = {}
    BY <1>0, <1>8, CallsMove DEF SyncReturns, At, Effective
  <2>2. Atomic!Return(t)
    BY <1>0, <1>8, <2>1 DEF SyncReturns, factory, Atomic!Return, Calls, Started, Over
  <2> QED
    BY <2>2 DEF Atomic!Next
<1> QED
  BY <1>2, <1>3, <1>4, <1>5, <1>6, <1>7, <1>8

LEMMA AtomicInformerFor ==
    ASSUME IInv, StartsSeen, StartsSeen', NEW t \in Threads, InformerFor(t)
    PROVE  Atomic!InformerFor(t) /\ threads[t].type \in Types
<1> DEFINE y == threads[t].type
<1>1. /\ At(t, "InformerFor", "body") /\ ExistingInformer(y) /\ Goto(t, "idle")
      /\ lock = t /\ y \in Types /\ TypeOK /\ threads \in [Threads -> Thread]
      /\ UNCHANGED <<startedInformers, shuttingDown, goroutines, synced, closed>>
  BY Caller DEF InformerFor, At, IInv, TypeOK, Exclusive, Positions
<1>2. Looping = {} /\ Looping' = {}
  <2>1. Looping = {}
    BY <1>1 DEF Looping, At, IInv, Exclusive
  <2>2. \A s \in Threads : threads'[s].pc = "loop" => s # t /\ threads'[s] = threads[s]
    BY <1>1 DEF Goto, Thread
  <2> QED
    BY <2>1, <2>2 DEF Looping, At
<1>3. Made' = Made \cup {y}
  BY <1>1 DEF Made, ExistingInformer, NewInformer, IInv, TypeOK
<1>4. Started' = Started /\ Over' = Over
  <2>1. \A z \in Types : StartedWith(z)' = StartedWith(z)
    BY <1>1, <1>2 DEF StartsSeen
  <2> QED
    BY <1>1, <2>1 DEF Started, Over
<1>5. Calls' = [Calls EXCEPT ![t].pc = "idle"] /\ Calls[t].pc = "called"
      /\ Calls[t].op = "InformerFor" /\ Calls[t].type = y
  BY <1>1, CallsMove DEF At, Effective
<1> QED
  BY <1>1, <1>3, <1>4, <1>5
     DEF Atomic!InformerFor, Atomic!Called, Atomic!Goto, Calls, Started, Over

LEMMA AtomicStart ==
    ASSUME IInv, StartsSeen, StartsSeen', NEW t \in Threads, Start(t)
    PROVE  Atomic!Start(t) \/ Atomic!StartRefused(t)
<1>1. /\ At(t, "Start", "body") /\ lock = t /\ TypeOK /\ threads \in [Threads -> Thread]
      /\ UNCHANGED <<informers, startedInformers, shuttingDown, goroutines, synced, closed>>
      /\ Made' = Made /\ Over' = Over
  BY Caller DEF Start, At, IInv, TypeOK, Exclusive, factory, Made, Over
<1>2. Looping = {} /\ Atomic!Running = startedInformers
  <2>1. Looping = {}
    BY <1>1 DEF Looping, At, IInv, Exclusive
  <2> QED
    BY <2>1, RunningIs
<1>3. CASE MayStart /\ Goto(t, "loop")
  <2>1. /\ Calls' = [Calls EXCEPT ![t].pc = "served"] /\ Calls[t].pc = "called"
        /\ Calls[t].op = "Start" /\ Calls[t].stop = threads[t].stop
    BY <1>1, <1>3, CallsMove DEF At, Effective
  <2>2. t \in Looping' /\ threads'[t].stop = threads[t].stop
    BY <1>1, <1>3 DEF Goto, Looping, At, Thread
  <2>3. \A y \in Types :
          StartedWith(y)' = IF y \in Made \ startedInformers THEN threads[t].stop
                            ELSE StartedWith(y)
    BY <1>1, <1>2, <2>2 DEF StartsSeen
  <2>4. Started' = [y \in Types |-> IF y \in Made \ Atomic!Running THEN Calls[t].stop
                                    ELSE Started[y]]
    BY <1>2, <2>1, <2>3 DEF Started
  <2>5. Atomic!Start(t)
    BY <1>1, <1>3, <2>1, <2>4
       DEF Atomic!Start, Atomic!Called, Atomic!Goto, MayStart, Calls, Started, Over
  <2> QED
    BY <2>5
<1>4. CASE ~ MayStart /\ Goto(t, "idle")
  <2>1. /\ Calls' = [Calls EXCEPT ![t].pc = "idle"] /\ Calls[t].pc = "called"
        /\ Calls[t].op = "Start"
    BY <1>1, <1>4, CallsMove DEF At, Effective
  <2>2. \A s \in Threads : threads'[s].pc = "loop" => s # t /\ threads'[s] = threads[s]
    BY <1>1, <1>4 DEF Goto, Thread
  <2>3. Looping' = Looping
    BY <1>2, <2>2 DEF Looping, At
  <2>4. Started' = Started
    BY <1>1, <1>2, <2>3, StartedKept
  <2>5. Atomic!StartRefused(t)
    BY <1>1, <1>4, <2>1, <2>4
       DEF Atomic!StartRefused, Atomic!informers, Atomic!Called, Atomic!Goto, MayStart,
           Calls, Started, Over
  <2> QED
    BY <2>5
<1> QED
  BY <1>3, <1>4 DEF Start

\* The turns of the loop were all counted when it was entered.
LEMMA AtomicStartLoop ==
    ASSUME IInv, StartsSeen, StartsSeen', NEW t \in Threads, StartLoop(t)
    PROVE  Atomic!Return(t) \/ UNCHANGED Atomic!vars
<1>1. /\ At(t, "Start", "loop") /\ Looping = {t} /\ TypeOK
      /\ threads \in [Threads -> Thread] /\ threads[t].stop \in Stops
      /\ UNCHANGED <<informers, shuttingDown, synced, closed>>
      /\ Made' = Made
  <2>1. At(t, "Start", "loop") /\ Looping = {t}
    BY DEF StartLoop, At, Looping, IInv, Exclusive
  <2> QED
    BY <2>1 DEF StartLoop, At, IInv, TypeOK, Positions, Made
<1>2. ASSUME NEW y \in Unstarted, Launch(y, threads[t].stop),
             startedInformers' = startedInformers \cup {y}, UNCHANGED threads
      PROVE  UNCHANGED Atomic!vars
  <2> DEFINE g == [type |-> y, stop |-> threads[t].stop, pc |-> "go"]
  <2>1. /\ goroutines' = Append(goroutines, g)
        /\ g.type = y /\ g.pc = "go" /\ g.stop = threads[t].stop
    BY <1>2 DEF Launch
  <2> HIDE DEF g
  <2>2. /\ DOMAIN goroutines' = DOMAIN goroutines \cup {Len(goroutines) + 1}
        /\ \A i \in DOMAIN goroutines : goroutines'[i] = goroutines[i]
        /\ goroutines'[Len(goroutines) + 1] = g
    BY <1>1, <2>1, Goroutines
  <2>3. y \in Made \ startedInformers /\ y \in Types
    BY <1>2 DEF Unstarted, Made
  <2>4. StartedWith(y) = threads[t].stop
    BY <1>1, <2>3 DEF StartsSeen
  <2>5. StartedWith(y)' = threads[t].stop
    BY <2>1, <2>2, <2>3 DEF StartsSeen
  <2>6. Looping' = {t}
    BY <1>1, <1>2 DEF Looping, At
  <2>7. ASSUME NEW z \in Types \ {y} PROVE StartedWith(z)' = StartedWith(z)
    <3>1. CASE z \in startedInformers
      <4>1. PICK i \in DOMAIN goroutines : goroutines[i].type = z
        BY <3>1 DEF StartsSeen
      <4> QED
        BY <2>2, <4>1 DEF StartsSeen
    <3>2. CASE z \notin startedInformers
      BY <1>1, <1>2, <2>6, <3>2 DEF StartsSeen
    <3> QED
      BY <3>1, <3>2
  <2>8. Started' = Started
    BY <2>4, <2>5, <2>7 DEF Started
  <2>9. Over' = Over
    <3>1. {j \in DOMAIN goroutines' : goroutines'[j].pc = "done"}
            = {j \in DOMAIN goroutines : goroutines[j].pc = "done"}
      BY <2>1, <2>2
    <3> QED
      BY <2>2, <3>1 DEF Over
  <2>10. Calls' = Calls
    BY <1>2 DEF Calls, Effective
  <2> QED
    BY <1>1, <2>8, <2>9, <2>10 DEF Atomic!vars, Atomic!informers, Calls, Started, Over
<1>3. CASE Unstarted = {} /\ Goto(t, "idle") /\ UNCHANGED <<goroutines, startedInformers>>
  <2>1. /\ Calls' = [Calls EXCEPT ![t].pc = "idle"] /\ Calls[t].pc = "served"
        /\ Calls[t].op = "Start"
    BY <1>1, <1>3, CallsMove DEF At, Effective
  <2>2. \A s \in Threads : threads'[s].pc = "loop" => s # t /\ threads'[s] = threads[s]
    BY <1>1, <1>3 DEF Goto, Thread
  <2>3. Looping' = {}
    BY <1>1, <2>2 DEF Looping, At
  <2>4. Made \subseteq startedInformers
    BY <1>3 DEF Unstarted, Made
  <2>5. \A y \in Types : StartedWith(y)' = StartedWith(y)
    BY <1>1, <1>3, <2>3, <2>4 DEF StartsSeen
  <2>6. Started' = Started /\ Over' = Over
    BY <1>3, <2>5 DEF Started, Over
  <2> QED
    BY <1>1, <2>1, <2>6
       DEF Atomic!Return, Atomic!informers, Atomic!Served, Atomic!Goto, Calls, Started, Over
<1> QED
  BY <1>2, <1>3 DEF StartLoop

LEMMA AtomicGoes ==
    ASSUME IInv, Mapped, StartsSeen, StartsSeen', NEW i \in DOMAIN goroutines, Goes(i)
    PROVE  Atomic!Next \/ UNCHANGED Atomic!vars
<1> DEFINE y == goroutines[i].type
<1>0. /\ \A j \in DOMAIN goroutines : goroutines[j] \in Goroutine
      /\ goroutines \in Seq(Goroutine) /\ y \in Types
      /\ \A j, k \in DOMAIN goroutines : goroutines[j].type = goroutines[k].type => j = k
      /\ UNCHANGED <<informers, startedInformers, shuttingDown, closed, threads>>
      /\ Made' = Made /\ Calls' = Calls /\ Looping' = Looping
  BY Goroutines DEF IInv, Launched, Goroutine, Goes, Run, Sync, Stop, Done, factory, Made,
     Calls, Effective, Looping, At
<1>1. Started[y] = goroutines[i].stop /\ Started[y] # None
  BY <1>0, NoneAssumption DEF StartsSeen, Started, Goroutine
<1>2. y \in Over <=> goroutines[i].pc = "done"
  BY <1>0 DEF Over
<1> HIDE DEF y
<1>3. ASSUME NEW pc, goroutines' = [goroutines EXCEPT ![i].pc = pc]
      PROVE  /\ Started' = Started
             /\ goroutines[i].pc # "done" => Over' = IF pc = "done" THEN Over \cup {y} ELSE Over
  <2>1. /\ DOMAIN goroutines' = DOMAIN goroutines
        /\ \A j \in DOMAIN goroutines :
             /\ goroutines'[j].type = goroutines[j].type
             /\ goroutines'[j].stop = goroutines[j].stop
             /\ goroutines'[j].pc = IF j = i THEN pc ELSE goroutines[j].pc
    BY <1>0, <1>3 DEF Goroutine
  <2>2. ASSUME NEW z \in Types PROVE StartedWith(z)' = StartedWith(z)
    <3>1. CASE z \in startedInformers
      <4>1. PICK j \in DOMAIN goroutines : goroutines[j].type = z
        BY <3>1 DEF StartsSeen
      <4> QED
        BY <2>1, <4>1 DEF StartsSeen
    <3>2. CASE z \notin startedInformers
      <4>1. \A t \in Looping : threads'[t].stop = threads[t].stop
        BY <1>0
      <4> QED
        BY <1>0, <3>2, <4>1 DEF StartsSeen
    <3> QED
      BY <3>1, <3>2
  <2>3. Started' = Started
    BY <2>2 DEF Started
  <2>4. Over' = {goroutines[j].type : j \in {k \in DOMAIN goroutines : goroutines'[k].pc = "done"}}
    BY <2>1 DEF Over
  <2> DEFINE D == {k \in DOMAIN goroutines : goroutines[k].pc = "done"}
             E == {k \in DOMAIN goroutines : goroutines'[k].pc = "done"}
  <2>5. Over = {goroutines[j].type : j \in D} /\ Over' = {goroutines[j].type : j \in E}
    BY <2>4 DEF Over
  <2>6. goroutines[i].pc # "done" => E = IF pc = "done" THEN D \cup {i} ELSE D
    BY <2>1
  <2> HIDE DEF D, E
  <2>7. goroutines[i].pc # "done" => Over' = IF pc = "done" THEN Over \cup {y} ELSE Over
    BY <2>5, <2>6 DEF y
  <2> QED
    BY <2>3, <2>7
<1>4. CASE Run(i) \/ Stop(i)
  <2>1. PICK pc \in {"run", "exit"} : goroutines' = [goroutines EXCEPT ![i].pc = pc]
    BY <1>0, <1>4 DEF Run, Stop
  <2>2. goroutines[i].pc # "done" /\ synced' = synced
    BY <1>4 DEF Run, Stop
  <2>3. Started' = Started /\ Over' = Over
    BY <1>3, <2>1, <2>2
  <2> QED
    BY <1>0, <2>2, <2>3 DEF Atomic!vars, Atomic!informers, Calls, Started, Over
<1>5. CASE Sync(i)
  <2>1. Started' = Started /\ Over' = Over /\ y \in Types
    <3>1. goroutines' = goroutines
      BY <1>5 DEF Sync
    <3> QED
      BY <1>0, <3>1, StartedKept
  <2>2. y \notin Over /\ synced' = synced \cup {y}
    BY <1>2, <1>5 DEF Sync, y
  <2>3. Atomic!Sync(y)
    BY <1>0, <1>1, <2>1, <2>2 DEF Atomic!Sync, Atomic!Running, Calls, Started, Over
  <2> QED
    BY <2>1, <2>3 DEF Atomic!Next
<1>6. CASE Done(i)
  <2>1. goroutines[i].pc = "exit" /\ synced' = synced /\ goroutines[i].stop \in closed
    BY <1>6 DEF Done, Mapped
  <2>2. Started' = Started /\ Over' = Over \cup {y} /\ y \notin Over
    <3>1. goroutines' = [goroutines EXCEPT ![i].pc = "done"]
      BY <1>6 DEF Done
    <3>2. goroutines[i].pc # "done"
      BY <2>1
    <3> QED
      BY <1>2, <1>3, <3>1, <3>2
  <2>3. PICK z \in Types : z = y
    BY <1>0
  <2>4. Atomic!End(z)
    BY <1>0, <1>1, <2>1, <2>2, <2>3 DEF Atomic!End, Atomic!Running, Calls, Started, Over
  <2> QED
    BY <2>4 DEF Atomic!Next
<1> QED
  BY <1>4, <1>5, <1>6 DEF Goes

LEMMA AtomicStep ==
    ASSUME IInv, Mapped, StartsSeen, StartsSeen', [Next]_vars
    PROVE  [Atomic!Next]_(Atomic!vars)
<1>1. ASSUME NEW t \in Threads, CallSomething(t) \/ Lock(t) \/ Step(t)
      PROVE  Atomic!Next \/ UNCHANGED Atomic!vars
  <2>1. CASE InformerFor(t)
    BY <2>1, AtomicInformerFor DEF Atomic!Next
  <2>2. CASE Start(t)
    BY <2>2, AtomicStart DEF Atomic!Next
  <2>3. CASE StartLoop(t)
    BY <2>3, AtomicStartLoop DEF Atomic!Next
  <2> QED
    BY <1>1, <2>1, <2>2, <2>3, AtomicCalls DEF Step
<1>2. ASSUME NEW c \in Stops, Close(c) PROVE Atomic!Next
  <2>1. Started' = Started /\ Over' = Over /\ Made' = Made /\ Calls' = Calls
    <3>1. UNCHANGED <<informers, goroutines>> /\ Looping' = Looping /\ UNCHANGED threads
      BY <1>2 DEF Close, factory, Looping, At
    <3> QED
      BY <3>1, StartedKept DEF Calls, Effective
  <2>2. Atomic!Close(c)
    BY <1>2, <2>1 DEF Close, factory, Atomic!Close, Calls, Started, Over
  <2> QED
    BY <2>2 DEF Atomic!Next
<1>3. CASE UNCHANGED vars
  <2>1. UNCHANGED <<informers, goroutines>> /\ Looping' = Looping /\ UNCHANGED threads
    BY <1>3 DEF vars, factory, Looping, At
  <2>2. Started' = Started /\ Over' = Over /\ Made' = Made /\ Calls' = Calls
    BY <2>1, StartedKept DEF Calls, Effective
  <2> QED
    BY <1>3, <2>2 DEF vars, factory, Atomic!vars, Atomic!informers, Calls, Started, Over
<1> QED
  BY <1>1, <1>2, <1>3, AtomicGoes DEF Next

\* However many goroutines share the factory, each of their calls takes effect at one
\* moment, a Start for all informers together, and a Shutdown returns only when every
\* informer that was ever started has come to its end.
THEOREM Linearizable == Spec => ActsAtomically
<1>1. Init => Mapped
  BY DEF Init, Mapped
<1>2. Spec => [](IInv /\ Mapped)
  BY <1>1, Starts, StepKeeps, MappedKept, PTL DEF Spec
<1>3. (IInv /\ Mapped) /\ (IInv /\ Mapped)' /\ [Next]_vars => [Atomic!Next]_(Atomic!vars)
  BY StartsAreSeen, StartsAreSeenNext, AtomicStep
<1> QED
  BY <1>2, <1>3, AtomicInit, PTL DEF Spec, ActsAtomically, Atomic!Spec

==============================================================================
