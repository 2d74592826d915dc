------------------------- MODULE KernelPlacesProofs -------------------------
(***************************************************************************)
(* Where the processes are, for any set of processes and any programs: no  *)
(* process is in two places, a process is lost only by a late termination, *)
(* and a destructed pair is nowhere.  It rests on PlacesOK, which is       *)
(* inductive together with Inv, and on PairsOK, which is on top of both.   *)
(***************************************************************************)
EXTENDS KernelPlaces, KernelProofs, DataProofs, FunctionTheorems

-----------------------------------------------------------------------------
(***************************************************************************)
(* What scheduler() and the dispatchers do to the queues.                  *)
(***************************************************************************)

LEMMA AfterNewPlaces ==
    ASSUME TypeOK, PlacesOK
    PROVE  /\ ReadyAfterNew \in Seq(Proc) /\ Once(ReadyAfterNew)
           /\ Range(ReadyAfterNew) = Range(ready) \union Range(newQ)
           /\ Idle \notin Range(ReadyAfterNew)
<1>1. ready \in Seq(Proc) /\ newQ \in Seq(Proc) /\ Once(ready) /\ Once(newQ)
  BY DEF TypeOK, PlacesOK, QueuedOnce
<1>2. Range(ready) \intersect Range(newQ) = {}
  BY DEF PlacesOK, StateTellsQueue
<1>3. Idle \notin Range(ready) \union Range(newQ)
  BY DEF PlacesOK, StateTellsQueue
<1>. QED
  BY <1>1, <1>2, <1>3, EnqueueAllOnce DEF ReadyAfterNew

\* p_enqueue of one more process.
LEMMA PEnqueuePlaces ==
    ASSUME NEW q \in Seq(Proc), NEW pr, NEW p \in Proc, Once(q), p \notin Range(q)
    PROVE  /\ PEnqueue(q, pr, p) \in Seq(Proc) /\ Once(PEnqueue(q, pr, p))
           /\ Range(PEnqueue(q, pr, p)) = Range(q) \union {p}
<1> DEFINE s == <<p>>
           n == pr[p]
<1>1. s \in Seq(Proc) /\ Once(s) /\ Range(s) = {p}
  BY OneInQueue
<1>2. PEnqueue(q, pr, p) = EnqueueAll(q, pr, n, s)
  BY DEF PEnqueue
<1> HIDE DEF s, n
<1>3. Range(q) \intersect Range(s) = {}
  BY <1>1
<1>. QED
  BY <1>1, <1>2, <1>3, EnqueueAllOnce

\* p_dequeue hands out a process of the queue, or the idle one.
LEMMA TakeNextPlaces ==
    ASSUME TypeOK, NEW q \in Seq(Proc), Once(q), Idle \notin Range(q),
           NEW st, NEW saved, TakeNext(q, st, saved)
    PROVE  /\ Once(ready')
           /\ Range(ready') = Range(q) \ {running'}
           /\ running' \in Range(q) \/ (running' = Idle /\ q = <<>> /\ Range(ready') = {})
           /\ \A p \in Proc : state'[p] = IF p = running' THEN "RUNNING"
                                          ELSE IF p \in Range(newQ) THEN "READY" ELSE st[p]
<1>1. /\ running' = PDequeue(q, Idle) /\ ready' = PRest(q)
      /\ \A p \in Proc : state'[p] = IF p = PDequeue(q, Idle) THEN "RUNNING"
                                     ELSE StateAfterNew(st, p)
  BY DEF TakeNext
<1>2. CASE q = <<>>
  <2>1. running' = Idle /\ ready' = <<>>
    BY <1>1, <1>2 DEF PDequeue, PRest
  <2>. QED
    BY <1>1, <1>2, <2>1, EmptyQueue DEF StateAfterNew
<1>3. CASE q # <<>>
  <2>1. running' = Head(q) /\ ready' = Tail(q)
    BY <1>1, <1>3 DEF PDequeue, PRest
  <2>2. Head(q) \in Range(q) /\ Once(Tail(q)) /\ Range(Tail(q)) = Range(q) \ {Head(q)}
    BY <1>3, TailOnce
  <2>. QED
    BY <1>1, <2>1, <2>2 DEF StateAfterNew
<1>. QED
  BY <1>2, <1>3

LEMMA KeepRunningPlaces ==
    ASSUME NEW q, NEW st, NEW saved, KeepRunning(q, st, saved)
    PROVE  /\ ready' = q /\ running' = running
           /\ \A p \in Proc : state'[p] = IF p \in Range(newQ) THEN "READY" ELSE st[p]
BY DEF KeepRunning, StateAfterNew

\* Housekeeping takes processes away from queues, and adds none.
LEMMA HousekeepingPlaces ==
    ASSUME TypeOK, NEW z \in Seq(Proc), NEW pr, NEW own, NEW blk \in [Mutex -> Seq(Proc)],
           NEW tb, Housekeeping(z, pr, own, blk, tb)
    PROVE  /\ Range(zombies') \subseteq Range(z)
           /\ Once(z) => Once(zombies')
           /\ Held(blocked') \subseteq Held(blk)
           /\ \A m \in Mutex : Range(blocked'[m]) \subseteq Range(blk[m])
           /\ Apart(blk) => Apart(blocked')
<1>1. zombies' \in {<<>>, z}
  BY DEF Housekeeping
<1>2. DOMAIN blocked' = Mutex /\ \A m \in Mutex : blocked'[m] \in {blk[m], <<>>}
  BY DEF Housekeeping
<1>3. Range(zombies') \subseteq Range(z) /\ (Once(z) => Once(zombies'))
  BY <1>1, EmptyQueue
<1>. QED
  BY <1>2, <1>3, HeldEmptied

LEMMA DispatcherPlaces ==
    ASSUME TypeOK, PlacesOK, NEW st, NEW top,
           \A p \in Proc \ {running} : st[p] = state[p],
           st \in [Proc -> ProcessStates],
           st[running] \in {"RUNNING", "INTERRUPTED", state[running]},
           Dispatcher(st, top)
    PROVE  LET back == IF st[running] = "INTERRUPTED" /\ running # Idle THEN {running} ELSE {}
               gone == IF st[running] = "HALTED" THEN {running} ELSE {}
               all  == Range(ready) \union Range(newQ) \union back
           IN  /\ newQ' = <<>> /\ ioQ' = ioQ /\ waiting' = waiting
               /\ Once(ready') /\ Range(ready') = all \ {running'}
               /\ running' \in all \/ (running' = Idle /\ Range(ready') = {})
               /\ Once(zombies') /\ Range(zombies') \subseteq Range(zombies) \union gone
               /\ Apart(blocked') /\ Held(blocked') \subseteq Held(blocked)
               /\ \A p \in Proc :
                     state'[p] = IF p = running' THEN "RUNNING"
                                 ELSE IF p \in Range(newQ) THEN "READY"
                                 ELSE IF p = running /\ st[p] = "INTERRUPTED" THEN "READY"
                                 ELSE st[p]
<1> DEFINE halted == st[running] = "HALTED"
           interrupted == st[running] = "INTERRUPTED"
           back  == interrupted /\ running # Idle
           q     == IF back THEN PEnqueue(ReadyAfterNew, Bumped, running) ELSE ReadyAfterNew
           st2   == IF interrupted THEN [st EXCEPT ![running] = "READY"] ELSE st
           saved == [pc EXCEPT ![running] = top]
           z     == IF halted THEN Append(zombies, running) ELSE zombies
           pr    == IF back THEN Bumped ELSE priority
<1>1. /\ newQ' = <<>> /\ ioQ' = ioQ /\ waiting' = waiting
      /\ TakeNext(q, st2, saved)
      /\ Housekeeping(z, pr, owner, blocked, total_blocked)
  BY DEF Dispatcher
<1>2. running \in Proc /\ zombies \in Seq(Proc) /\ blocked \in [Mutex -> Seq(Proc)]
  BY DEF TypeOK
<1>3. running \notin Range(zombies) /\ Once(zombies) /\ Apart(blocked)
  BY DEF PlacesOK, QueuedOnce, RunningIsNotQueued
<1>4. back => running \notin Range(ReadyAfterNew)
  <2>1. state[running] \notin {"NEW", "READY"}
    BY DEF PlacesOK, RunningIsNotQueued
  <2>2. running \notin Range(ready) /\ running \notin Range(newQ)
    BY <2>1 DEF PlacesOK, StateTellsQueue
  <2>. QED
    BY <2>2, AfterNewPlaces
<1>5. /\ q \in Seq(Proc) /\ Once(q) /\ Idle \notin Range(q)
      /\ Range(q) = Range(ready) \union Range(newQ) \union (IF back THEN {running} ELSE {})
  <2>1. CASE back
    BY <1>2, <1>4, <2>1, AfterNewPlaces, PEnqueuePlaces
  <2>2. CASE ~back
    BY <2>2, AfterNewPlaces
  <2>. QED
    BY <2>1, <2>2
<1>6. z \in Seq(Proc) /\ Once(z) /\ Range(z) = Range(zombies) \union (IF halted THEN {running} ELSE {})
  BY <1>2, <1>3, AppendOnce
<1>7. \A p \in Proc : st2[p] = IF p = running /\ st[p] = "INTERRUPTED" THEN "READY" ELSE st[p]
  BY <1>2
<1> HIDE DEF q, st2, saved, z, pr
<1>8. /\ Once(ready')
      /\ Range(ready') = Range(q) \ {running'}
      /\ running' \in Range(q) \/ (running' = Idle /\ Range(ready') = {})
      /\ \A p \in Proc : state'[p] = IF p = running' THEN "RUNNING"
                                     ELSE IF p \in Range(newQ) THEN "READY" ELSE st2[p]
  BY <1>1, <1>5, TakeNextPlaces
<1>9. /\ Range(zombies') \subseteq Range(z) /\ Once(zombies')
      /\ Held(blocked') \subseteq Held(blocked) /\ Apart(blocked')
  BY <1>1, <1>2, <1>3, <1>6, HousekeepingPlaces
<1>10. \A p \in Proc :
          state'[p] = IF p = running' THEN "RUNNING"
                      ELSE IF p \in Range(newQ) THEN "READY"
                      ELSE IF p = running /\ st[p] = "INTERRUPTED" THEN "READY" ELSE st[p]
  BY <1>7, <1>8
<1>. QED
  BY <1>1, <1>5, <1>6, <1>8, <1>9, <1>10

-----------------------------------------------------------------------------
(***************************************************************************)
(* PlacesOK is inductive, and nobody appears or disappears: blk are the    *)
(* processes blocked before the deadlocked pairs are destructed, and lost  *)
(* are those that the step puts nowhere although they live.                *)
(***************************************************************************)
Moves(blk, lost) ==
    /\ \A p \in Proc \ {Idle} :
          /\ Nowhere(p) => Nowhere(p)'
          /\ Nowhere(p)' => \/ Nowhere(p) \/ state'[p] = "HALTED" \/ p \in lost
                            \/ p \in Held(blk) \ Held(blocked')
          /\ state'[p] \in {"UNBORN", "NEW"} \/ state[p] \in {"UNBORN", "HALTED"}
                => state'[p] = state[p]
    /\ \A p \in Held(blk) : /\ p \in Proc \ {Idle} /\ state'[p] = "WAITING" /\ p # running'
                            /\ p \notin Held(ioQ') \union Held(waiting') /\ ~InService(p)'
    /\ running' = running \/ state'[running'] = "RUNNING"
    /\ Apart(blk)

\* The sets of processes that PlacesOK speaks of are processes.
LEMMA QueuedAreProcesses ==
    ASSUME TypeOK
    PROVE  /\ Range(newQ) \subseteq Proc /\ Range(ready) \subseteq Proc
           /\ Range(zombies) \subseteq Proc /\ Waiters \subseteq Proc
<1>1. newQ \in Seq(Proc) /\ ready \in Seq(Proc) /\ zombies \in Seq(Proc)
      /\ ioQ \in [Dev -> Seq(Proc)] /\ blocked \in [Mutex -> Seq(Proc)]
      /\ waiting \in [Cond -> Seq(Proc)]
  BY DEF TypeOK
<1>2. Held(ioQ) \subseteq Proc /\ Held(blocked) \subseteq Proc /\ Held(waiting) \subseteq Proc
  BY <1>1, HeldBy
<1>. QED
  BY <1>1, <1>2, RangeOfSeq DEF Waiters

LEMMA InitPlaces == Init => PlacesOK
<1> SUFFICES ASSUME Init PROVE PlacesOK
  OBVIOUS
<1>1. /\ newQ = <<>> /\ ready = <<>> /\ zombies = <<>> /\ running = Boot /\ svc = NoSvc
      /\ ioQ = [d \in Dev |-> <<>>] /\ blocked = [m \in Mutex |-> <<>>]
      /\ waiting = [c \in Cond |-> <<>>]
      /\ state = [p \in Proc |-> IF p = Boot THEN "RUNNING" ELSE "UNBORN"]
  BY DEF Init
<1>2. \A D : Held([d \in D |-> <<>>]) = {} /\ Apart([d \in D |-> <<>>])
  BY EmptyQueue DEF Held, Apart
<1>3. QueuedOnce /\ Waiters = {}
  BY <1>1, <1>2, EmptyQueue DEF QueuedOnce, Waiters
<1>4. StateTellsQueue /\ RunningIsNotQueued /\ ServedIsNotWaiting
  <2>1. Boot \in Proc /\ Idle \in Proc /\ Boot # Idle
    BY ProcessesDistinct DEF Proc
  <2>. QED
    BY <1>1, <1>3, <2>1, EmptyQueue
       DEF StateTellsQueue, RunningIsNotQueued, ServedIsNotWaiting
<1>. QED
  BY <1>3, <1>4 DEF PlacesOK

\* A step that moves nobody.
LEMMA NobodyMoves ==
    ASSUME PlacesOK, UNCHANGED <<svc, running, state, qVars, blocked, waiting>>
    PROVE  PlacesOK'
BY DEF PlacesOK, QueuedOnce, StateTellsQueue, RunningIsNotQueued, ServedIsNotWaiting,
       Waiters, qVars

\* What PlacesOK says of each process, for the steps below.
LEMMA PlacesFacts ==
    ASSUME Inv, PlacesOK
    PROVE  /\ \A p \in Range(newQ) : state[p] = "NEW" /\ p \in Proc /\ p # Idle
           /\ \A p \in Range(ready) : state[p] = "READY" /\ p # Idle /\ p \in Proc
           /\ \A p \in Range(zombies) : state[p] = "HALTED" /\ p \in Proc
           /\ \A p \in Waiters : state[p] = "WAITING" /\ p \in Proc
           /\ state[Idle] \in {"UNBORN", "READY", "RUNNING", "INTERRUPTED"}
           /\ running \in Proc /\ Idle \in Proc /\ running \notin Range(zombies)
           /\ state[running] \in {"RUNNING", "INTERRUPTED", "WAITING", "HALTED"}
           /\ state[running] \in {"WAITING", "HALTED"} => running = svc.proc
           /\ running \notin Waiters
           /\ svc # NoSvc => /\ svc.proc \in Proc /\ svc.proc # Idle /\ svc.proc \notin Waiters
                             /\ state[svc.proc] = "HALTED" <=> svc.op = "PCB_TERMINATED"
<1>1. running \in Proc /\ Idle \in Proc
  BY DEF Inv, TypeOK, Proc
<1>2. /\ \A p \in Range(newQ) : state[p] = "NEW" /\ p \in Proc /\ p # Idle
      /\ \A p \in Range(ready) : state[p] = "READY" /\ p # Idle /\ p \in Proc
      /\ \A p \in Range(zombies) : state[p] = "HALTED" /\ p \in Proc
      /\ \A p \in Waiters : state[p] = "WAITING" /\ p \in Proc
      /\ state[Idle] \in {"UNBORN", "READY", "RUNNING", "INTERRUPTED"}
  BY QueuedAreProcesses DEF Inv, PlacesOK, StateTellsQueue
<1>3. /\ running \notin Range(zombies)
      /\ state[running] \in {"RUNNING", "INTERRUPTED", "WAITING", "HALTED"}
      /\ state[running] \in {"WAITING", "HALTED"} => running = svc.proc
  BY DEF PlacesOK, RunningIsNotQueued
<1>4. svc # NoSvc => /\ svc.proc \in Proc /\ svc.proc # Idle /\ svc.proc \notin Waiters
                     /\ state[svc.proc] = "HALTED" <=> svc.op = "PCB_TERMINATED"
  BY ServiceObjects DEF Inv, ControlOK, PlacesOK, ServedIsNotWaiting
<1>5. svc = NoSvc => running # svc.proc
  BY <1>1, ProcessesDistinct DEF NoSvc
<1>6. running \notin Waiters
  BY <1>2, <1>3, <1>4, <1>5
<1>. QED
  BY <1>1, <1>2, <1>3, <1>4, <1>6

\* A step that changes no queue, and the state of the running process alone.
LEMMA NoQueueMoves ==
    ASSUME Inv, PlacesOK, UNCHANGED <<running, qVars, blocked, waiting>>,
           \A p \in Proc \ {running} : state'[p] = state[p],
           state'[running] \in {"RUNNING", "INTERRUPTED", "WAITING", "HALTED"},
           state'[running] = state[running] \/ state[running] \in {"RUNNING", "INTERRUPTED"},
           svc' = svc \/ (svc = NoSvc /\ svc'.proc = running)
              \/ (svc' = NoSvc /\ state[svc.proc] # "WAITING")
    PROVE  Moves(blocked, {})
<1>1. UNCHANGED <<running, newQ, ready, zombies, ioQ, blocked, waiting>> /\ Waiters' = Waiters
  BY DEF qVars, Waiters
<1>2. /\ state[running] \in {"RUNNING", "INTERRUPTED", "WAITING", "HALTED"}
      /\ running \in Proc /\ \A p \in Waiters : state[p] = "WAITING" /\ p \in Proc
      /\ state[Idle] \in {"UNBORN", "READY", "RUNNING", "INTERRUPTED"} /\ running \notin Waiters
      /\ svc # NoSvc => svc.proc \notin Waiters
  BY PlacesFacts
<1>3. NoSvc.proc \notin Proc
  BY ProcessesDistinct DEF NoSvc
<1>4. \A p \in Proc : InService(p)' <=> InService(p)
  BY <1>1, <1>2, <1>3 DEF InService
<1>5. \A p \in Proc : Nowhere(p)' <=> Nowhere(p)
  BY <1>1, <1>4 DEF Nowhere
<1>6. \A p \in Proc : state'[p] \in {"UNBORN", "NEW"} \/ state[p] \in {"UNBORN", "HALTED"}
                          => state'[p] = state[p]
  BY <1>2
<1>7. ASSUME NEW p \in Held(blocked)
      PROVE  /\ p \in Proc \ {Idle} /\ state'[p] = "WAITING" /\ p # running'
             /\ p \notin Held(ioQ') \union Held(waiting') /\ ~InService(p)'
  <2>1. p \in Waiters
    BY DEF Waiters
  <2>2. p \in Proc /\ state[p] = "WAITING" /\ p # running /\ p # Idle
    BY <1>2, <2>1
  <2>3. ~InService(p)
    BY <1>2, <1>3, <2>1, <2>2 DEF InService
  <2>4. p \notin Held(ioQ) \union Held(waiting)
    BY DEF PlacesOK, QueuedOnce
  <2>. QED
    BY <1>1, <1>4, <2>2, <2>3, <2>4
<1>. QED
  BY <1>1, <1>5, <1>6, <1>7 DEF Moves, PlacesOK, QueuedOnce

LEMMA EnterPlaces ==
    ASSUME Inv, PlacesOK, NEW ps \in Seq(Proc), Once(ps), Idle \notin Range(ps), Enter(ps)
    PROVE  PlacesOK'
<1> USE DEF Inv
<1>1. /\ newQ' = newQ \o ps
      /\ \A p \in Proc : state'[p] = IF p \in Range(ps) THEN "NEW" ELSE state[p]
      /\ UNCHANGED <<svc, running, ready, ioQ, zombies, blocked, waiting>>
  BY DEF Enter, cpuVars
<1>2. \A p \in Range(ps) : state[p] = "UNBORN"
  BY RangeEquality DEF Enter
<1>3. newQ \in Seq(Proc) /\ running \in Proc /\ Idle \in Proc
  BY DEF TypeOK, Proc
<1>4. Range(newQ) \intersect Range(ps) = {}
  BY <1>2 DEF PlacesOK, StateTellsQueue
<1>5. Range(newQ') = Range(newQ) \union Range(ps)
  BY <1>1, <1>3, RangeConcatenation
<1>6. Once(newQ')
  <2>1. Once(newQ)
    BY DEF PlacesOK, QueuedOnce
  <2>2. Len(newQ) \in Nat /\ Len(ps) \in Nat
    BY <1>3, LenProperties
  <2>3. /\ Len(newQ') = Len(newQ) + Len(ps)
        /\ \A i \in 1 .. Len(newQ) + Len(ps) :
              newQ'[i] = IF i <= Len(newQ) THEN newQ[i] ELSE ps[i - Len(newQ)]
    BY <1>1, <1>3, ConcatProperties
  <2>4. \A i \in 1 .. Len(newQ) : newQ[i] \in Range(newQ)
    BY <1>3, RangeEquality
  <2>5. \A i \in 1 .. Len(ps) : ps[i] \in Range(ps)
    BY RangeEquality
  <2> SUFFICES ASSUME NEW i \in 1 .. Len(newQ'), NEW j \in 1 .. Len(newQ'),
                      newQ'[i] = newQ'[j]
               PROVE  i = j
    BY DEF Once
  <2>6. \A k \in 1 .. Len(newQ') :
           \/ k \in 1 .. Len(newQ) /\ newQ'[k] = newQ[k]
           \/ k - Len(newQ) \in 1 .. Len(ps) /\ newQ'[k] = ps[k - Len(newQ)]
    BY <2>2, <2>3
  <2>7. CASE i \in 1 .. Len(newQ) /\ newQ'[i] = newQ[i]
    <3>1. j \in 1 .. Len(newQ) /\ newQ'[j] = newQ[j]
      BY <1>4, <2>4, <2>5, <2>6, <2>7
    <3>. QED
      BY <2>1, <2>7, <3>1 DEF Once
  <2>8. CASE i - Len(newQ) \in 1 .. Len(ps) /\ newQ'[i] = ps[i - Len(newQ)]
    <3>1. j - Len(newQ) \in 1 .. Len(ps) /\ newQ'[j] = ps[j - Len(newQ)]
      BY <1>4, <2>4, <2>5, <2>6, <2>8
    <3>2. i - Len(newQ) = j - Len(newQ)
      BY <2>8, <3>1 DEF Once
    <3>. QED
      BY <2>2, <3>2
  <2>. QED
    BY <2>6, <2>7, <2>8
<1>7. Waiters' = Waiters
  BY <1>1 DEF Waiters
<1>8. QueuedOnce'
  BY <1>1, <1>6 DEF PlacesOK, QueuedOnce
<1>9. StateTellsQueue'
  <2>1. \A p \in Proc : state[p] # "UNBORN" => state'[p] = state[p]
    BY <1>1, <1>2
  <2>2. \A p \in Range(ps) : p \in Proc /\ state'[p] = "NEW"
    BY <1>1, RangeOfSeq
  <2>. QED
    BY <1>1, <1>3, <1>5, <1>7, <2>1, <2>2, QueuedAreProcesses DEF PlacesOK, StateTellsQueue
<1>10. RunningIsNotQueued'
  BY <1>1, <1>2, <1>3 DEF PlacesOK, RunningIsNotQueued
<1>11. ServedIsNotWaiting'
  <2>1. svc = NoSvc
    BY DEF Enter, ControlOK
  <2>. QED
    BY <1>1, <2>1 DEF ServedIsNotWaiting
<1>. QED
  BY <1>8, <1>9, <1>10, <1>11 DEF PlacesOK

LEMMA CreationPlaces ==
    ASSUME Inv, PlacesOK, Creation
    PROVE  PlacesOK'
<1>1. ASSUME NEW p \in IOProcs \union CompProcs, Enter(<<p>>)
      PROVE  PlacesOK'
  <2>1. <<p>> \in Seq(Proc) /\ Idle # p
    BY ProcessesDistinct DEF Proc
  <2>. QED
    BY <1>1, <2>1, OneInQueue, EnterPlaces
<1>2. ASSUME NEW pair \in Pairs, Enter(pair)
      PROVE  PlacesOK'
  <2>1. pair = <<pair[1], pair[2]>> /\ pair[1] # pair[2]
    BY PairsDisjoint
  <2>2. {pair[1], pair[2]} \subseteq CPProcs \union ResProcs
    BY DEF Pairs, CPProcs, ResProcs, Members
  <2>3. pair[1] \in Proc \ {Idle} /\ pair[2] \in Proc \ {Idle}
    BY <2>2, ProcessesDistinct DEF Proc
  <2> DEFINE a == pair[1]
             b == pair[2]
  <2>4. pair = <<a, b>> /\ a # b /\ a \in Proc \ {Idle} /\ b \in Proc \ {Idle}
    BY <2>1, <2>3
  <2> HIDE DEF a, b
  <2>5. /\ <<a, b>> \in Seq(Proc) /\ Once(<<a, b>>)
        /\ Range(<<a, b>>) = {a, b}
    BY <2>4 DEF Once, Range
  <2>. QED
    BY <1>2, <2>4, <2>5, EnterPlaces
<1>3. CASE CreateIOProcess
  BY <1>1, <1>3 DEF CreateIOProcess
<1>4. CASE CreateComputeIntensiveProcess
  BY <1>1, <1>4 DEF CreateComputeIntensiveProcess
<1>5. CASE CreateConsumerProducerPair
  BY <1>2, <1>5 DEF CreateConsumerProducerPair, Pairs
<1>6. CASE CreateSharedResourcePair
  BY <1>2, <1>6 DEF CreateSharedResourcePair, Pairs
<1>7. CASE CreationDone
  BY <1>7, NobodyMoves DEF CreationDone, cpuVars, pcbVars, lockVars
<1>. QED
  BY <1>3, <1>4, <1>5, <1>6, <1>7 DEF Creation

\* dispatcher() loses a process only if it finds it running.
LEMMA DispatcherMoves ==
    ASSUME Inv, PlacesOK, NEW st \in [Proc -> ProcessStates], NEW top,
           \A p \in Proc \ {running} : st[p] = state[p],
           st[running] \in {"INTERRUPTED", state[running]},
           st[running] = state[running] \/ state[running] \in {"RUNNING", "INTERRUPTED"},
           st[running] = "WAITING" => running = svc.proc,
           svc' = svc \/ (svc' = NoSvc /\ state[svc.proc] # "WAITING"),
           Dispatcher(st, top)
    PROVE  Moves(blocked, IF st[running] = "RUNNING" THEN {running} ELSE {})
<1> DEFINE back == IF st[running] = "INTERRUPTED" /\ running # Idle THEN {running} ELSE {}
           gone == IF st[running] = "HALTED" THEN {running} ELSE {}
           all  == Range(ready) \union Range(newQ) \union back
<1>1. st[running] \in {"RUNNING", "INTERRUPTED", state[running]} /\ TypeOK
  BY DEF Inv
<1>2. /\ newQ' = <<>> /\ ioQ' = ioQ /\ waiting' = waiting
      /\ Range(ready') = all \ {running'}
      /\ running' \in all \/ running' = Idle
      /\ Range(zombies') \subseteq Range(zombies) \union gone
      /\ Held(blocked') \subseteq Held(blocked)
      /\ \A p \in Proc :
            state'[p] = IF p = running' THEN "RUNNING"
                        ELSE IF p \in Range(newQ) THEN "READY"
                        ELSE IF p = running /\ st[p] = "INTERRUPTED" THEN "READY"
                        ELSE st[p]
  BY <1>1, DispatcherPlaces
<1>3. /\ state[running] \in {"RUNNING", "INTERRUPTED", "WAITING", "HALTED"}
      /\ running \in Proc /\ \A p \in Waiters : state[p] = "WAITING" /\ p \in Proc
      /\ \A p \in Range(ready) : state[p] = "READY" /\ p # Idle /\ p \in Proc
      /\ \A p \in Range(newQ) : state[p] = "NEW" /\ p # Idle /\ p \in Proc
      /\ \A p \in Range(zombies) : state[p] = "HALTED" /\ p \in Proc
      /\ state[Idle] \in {"UNBORN", "READY", "RUNNING", "INTERRUPTED"}
      /\ running \notin Waiters /\ Idle \in Proc
      /\ svc # NoSvc => svc.proc \notin Waiters
  BY PlacesFacts
<1>4. NoSvc.proc \notin Proc
  BY ProcessesDistinct DEF NoSvc
<1>5. Waiters' = (Waiters \ Held(blocked)) \union Held(blocked')
  BY <1>2 DEF Waiters, PlacesOK, QueuedOnce
<1>6. running' \in Proc /\ state'[running'] = "RUNNING" /\ Range(newQ') = {}
  BY <1>2, <1>3, EmptyQueue
<1>7. \A p \in Proc \ ({running, running'} \union Range(newQ)) : state'[p] = state[p]
  BY <1>2
<1>8. ASSUME NEW p \in Proc, InService(p)' PROVE InService(p) \/ p = running
  <2>1. svc' = svc /\ svc.proc = p /\ running' # p /\ state'[p] = "WAITING"
    BY <1>4, <1>8 DEF InService
  <2>. QED
    BY <1>2, <2>1 DEF InService
<1>9. ASSUME NEW p \in Proc, InService(p) PROVE InService(p)'
  <2>1. /\ svc' = svc /\ svc.proc = p /\ running # p /\ state[p] = "WAITING"
    BY <1>9 DEF InService
  <2>2. p # running'
    BY <1>2, <1>3, <2>1
  <2>3. state'[p] = "WAITING"
    BY <1>3, <1>7, <2>1, <2>2
  <2>. QED
    BY <2>1, <2>2, <2>3 DEF InService
<1> HIDE DEF back, gone, all
<1>10. ASSUME NEW p \in Proc \ {Idle}, Nowhere(p) PROVE Nowhere(p)'
  <2>1. /\ p # running /\ ~InService(p)
        /\ p \notin Range(newQ) \union Range(ready) \union Range(zombies) \union Waiters
    BY <1>10 DEF Nowhere
  <2>2. p # running' /\ p \notin Range(ready') /\ p \notin Range(zombies')
    BY <1>2, <2>1 DEF all, back, gone
  <2>3. p \notin Waiters' /\ ~InService(p)'
    BY <1>2, <1>8, <2>1 DEF Waiters
  <2>. QED
    BY <1>6, <2>2, <2>3 DEF Nowhere
<1>11. ASSUME NEW p \in Proc \ {Idle}, Nowhere(p)'
       PROVE  \/ Nowhere(p) \/ state'[p] = "HALTED" \/ p \in Held(blocked) \ Held(blocked')
              \/ st[running] = "RUNNING" /\ p = running
  <2>1. /\ p # running' /\ ~InService(p)'
        /\ p \notin Range(ready') \union Waiters'
    BY <1>11 DEF Nowhere
  <2>2. p \notin Range(ready) /\ p \notin Range(newQ) /\ p \notin back
    BY <1>2, <2>1 DEF all
  <2>3. CASE p = running
    <3>1. st[p] # "INTERRUPTED"
      BY <2>2, <2>3 DEF back
    <3>2. CASE st[p] = "HALTED"
      BY <1>2, <2>1, <2>2, <3>1, <3>2
    <3>3. CASE st[p] = "WAITING"
      <4>1. state'[p] = "WAITING" /\ svc.proc = p /\ state[p] = "WAITING"
        BY <1>2, <2>1, <2>2, <2>3, <3>1, <3>3
      <4>2. svc' = svc
        BY <4>1
      <4>. QED
        BY <2>1, <4>1, <4>2 DEF InService
    <3>4. st[p] \in {"RUNNING", "INTERRUPTED", "WAITING", "HALTED"}
      BY <1>3, <2>3
    <3>. QED
      BY <2>3, <3>1, <3>2, <3>3, <3>4
  <2>4. CASE p # running
    <3>1. state'[p] = state[p]
      BY <1>7, <2>1, <2>2, <2>4
    <3>2. CASE p \in Range(zombies)
      BY <1>3, <3>1, <3>2
    <3>3. CASE p \in Waiters
      BY <1>5, <2>1, <3>3
    <3>4. ~InService(p)
      BY <1>9, <2>1
    <3>. QED
      BY <2>2, <2>4, <3>2, <3>3, <3>4 DEF Nowhere
  <2>. QED
    BY <2>3, <2>4
<1>12. ASSUME NEW p \in Proc \ {Idle},
              state'[p] \in {"UNBORN", "NEW"} \/ state[p] \in {"UNBORN", "HALTED"}
       PROVE  state'[p] = state[p]
  BY <1>2, <1>3, <1>6, <1>12 DEF all, back
<1>13. ASSUME NEW p \in Held(blocked)
       PROVE  /\ p \in Proc \ {Idle} /\ state'[p] = "WAITING" /\ p # running'
              /\ p \notin Held(ioQ') \union Held(waiting') /\ ~InService(p)'
  <2>1. p \in Waiters
    BY DEF Waiters
  <2>2. p \in Proc /\ state[p] = "WAITING" /\ p # running /\ p # Idle
    BY <1>3, <2>1
  <2>3. p # running' /\ state'[p] = "WAITING"
    <3>1. p \notin Range(ready) \union Range(newQ) \union back
      BY <1>3, <2>2 DEF back
    <3>2. p # running'
      BY <1>2, <2>2, <3>1 DEF all
    <3>. QED
      BY <1>7, <2>2, <3>1, <3>2
  <2>4. ~InService(p)'
    <3>1. ~InService(p)
      BY <1>3, <1>4, <2>1, <2>2 DEF InService
    <3>. QED
      BY <1>8, <2>2, <3>1
  <2>5. p \notin Held(ioQ) \union Held(waiting)
    BY DEF PlacesOK, QueuedOnce
  <2>. QED
    BY <1>2, <2>2, <2>3, <2>4, <2>5
<1>. QED
  BY <1>6, <1>10, <1>11, <1>12, <1>13 DEF Moves, PlacesOK, QueuedOnce

LEMMA PseudoISRPlaces ==
    ASSUME Inv, PlacesOK, PseudoISR
    PROVE  PlacesOK' /\ Moves(blocked, {})
<1> DEFINE st == [state EXCEPT
                     ![running] = IF @ \in {"HALTED", "WAITING"} THEN @ ELSE "INTERRUPTED"]
<1>1. TypeOK /\ running \in Proc /\ Idle \in Proc
  BY DEF Inv, TypeOK, Proc
<1>2. st \in [Proc -> ProcessStates] /\ svc' = svc /\ Dispatcher(st, currentPC)
  BY <1>1 DEF PseudoISR, TypeOK, ProcessStates
<1>3. /\ \A p \in Proc \ {running} : st[p] = state[p]
      /\ st[running] = IF state[running] \in {"HALTED", "WAITING"} THEN state[running]
                       ELSE "INTERRUPTED"
  BY <1>1 DEF TypeOK
<1> HIDE DEF st
<1> DEFINE back == IF st[running] = "INTERRUPTED" /\ running # Idle THEN {running} ELSE {}
           gone == IF st[running] = "HALTED" THEN {running} ELSE {}
           all  == Range(ready) \union Range(newQ) \union back
<1>4. /\ newQ' = <<>> /\ ioQ' = ioQ /\ waiting' = waiting
      /\ Once(ready') /\ Range(ready') = all \ {running'}
      /\ running' \in all \/ (running' = Idle /\ Range(ready') = {})
      /\ Once(zombies') /\ Range(zombies') \subseteq Range(zombies) \union gone
      /\ Apart(blocked') /\ Held(blocked') \subseteq Held(blocked)
      /\ \A p \in Proc :
            state'[p] = IF p = running' THEN "RUNNING"
                        ELSE IF p \in Range(newQ) THEN "READY"
                        ELSE IF p = running /\ st[p] = "INTERRUPTED" THEN "READY"
                        ELSE st[p]
  <2>1. st[running] \in {"RUNNING", "INTERRUPTED", state[running]}
    BY <1>3
  <2>. QED
    BY <1>1, <1>2, <1>3, <2>1, DispatcherPlaces
<1>5. Waiters' \subseteq Waiters
  BY <1>4 DEF Waiters
<1>6. QueuedOnce'
  BY <1>4, EmptyQueue DEF PlacesOK, QueuedOnce
<1>7. /\ \A p \in Range(newQ) : state[p] = "NEW" /\ p \in Proc
      /\ \A p \in Range(ready) : state[p] = "READY" /\ p # Idle /\ p \in Proc
      /\ \A p \in Range(zombies) : state[p] = "HALTED" /\ p \in Proc
      /\ \A p \in Waiters : state[p] = "WAITING" /\ p \in Proc
      /\ state[Idle] \in {"UNBORN", "READY", "RUNNING", "INTERRUPTED"}
  BY <1>1, QueuedAreProcesses DEF PlacesOK, StateTellsQueue
<1>8. state[running] \in {"RUNNING", "INTERRUPTED", "WAITING", "HALTED"}
      /\ running \notin Range(zombies)
  BY DEF PlacesOK, RunningIsNotQueued
<1>9. running' \notin Range(zombies) \union Waiters \union gone
  BY <1>3, <1>4, <1>7, <1>8
<1>10. StateTellsQueue'
  BY <1>1, <1>3, <1>4, <1>5, <1>7, <1>8, <1>9, EmptyQueue DEF StateTellsQueue
<1>11. RunningIsNotQueued'
  <2>1. running' \in Proc
    BY <1>1, <1>4, <1>7
  <2>2. state'[running'] = "RUNNING"
    BY <1>4, <2>1
  <2>. QED
    BY <1>4, <1>9, <2>2 DEF RunningIsNotQueued
<1>12. ServedIsNotWaiting'
  <2> SUFFICES ASSUME svc # NoSvc
               PROVE  /\ svc.proc \notin Waiters'
                      /\ svc.op = "PCB_TERMINATED" <=> state'[svc.proc] = "HALTED"
                      /\ svc.op \in IOTraps \union {"WAIT_RESOURCE_1"}
                            => state'[svc.proc] = "WAITING"
                      /\ svc.op \in UnlockOps \union {"SIGNAL_RESOURCE_1"}
                            => state'[svc.proc] # "WAITING"
    BY <1>2 DEF ServedIsNotWaiting
  <2>1. /\ svc.proc \notin Waiters
        /\ svc.op = "PCB_TERMINATED" <=> state[svc.proc] = "HALTED"
        /\ svc.op \in IOTraps \union {"WAIT_RESOURCE_1"} => state[svc.proc] = "WAITING"
        /\ svc.op \in UnlockOps \union {"SIGNAL_RESOURCE_1"} => state[svc.proc] # "WAITING"
    BY DEF PlacesOK, ServedIsNotWaiting
  <2>2. svc.proc \in Proc
    BY ServiceObjects DEF Inv, ControlOK
  <2>3. state[svc.proc] \in {"HALTED", "WAITING"} => state'[svc.proc] = state[svc.proc]
    BY <1>3, <1>4, <1>7, <1>8, <2>2
  <2>4. state[svc.proc] \notin {"HALTED", "WAITING"} => state'[svc.proc] \notin {"HALTED", "WAITING"}
    BY <1>3, <1>4, <1>7, <1>8, <2>2
  <2>. QED
    BY <1>5, <2>1, <2>3, <2>4 DEF IOTraps, UnlockOps
<1>13. Moves(blocked, {})
  <2>1. /\ st[running] \in {"INTERRUPTED", "WAITING", "HALTED"}
        /\ st[running] \in {"INTERRUPTED", state[running]}
        /\ st[running] = state[running] \/ state[running] \in {"RUNNING", "INTERRUPTED"}
        /\ st[running] = "WAITING" => running = svc.proc
    BY <1>3, <1>8, PlacesFacts
  <2>2. Moves(blocked, IF st[running] = "RUNNING" THEN {running} ELSE {})
    BY <1>2, <1>3, <2>1, DispatcherMoves
  <2>. QED
    BY <2>1, <2>2
<1>. QED
  BY <1>6, <1>10, <1>11, <1>12, <1>13 DEF PlacesOK

\* dispatcher() at the end of a termination, whatever process it is about.
LEMMA FinishTerminationPlaces ==
    ASSUME Inv, PlacesOK, FinishTermination
    PROVE  PlacesOK' /\ Moves(blocked, IF LateTermination THEN {running} ELSE {})
<1>1. /\ TypeOK /\ svc # NoSvc /\ svc.op = "PCB_TERMINATED" /\ svc' = NoSvc
      /\ Dispatcher(state, Head(sysStack))
  BY DEF FinishTermination, Serve, Inv, ControlOK
<1>2. state \in [Proc -> ProcessStates]
  BY <1>1 DEF TypeOK
<1> DEFINE back == IF state[running] = "INTERRUPTED" /\ running # Idle THEN {running} ELSE {}
           gone == IF state[running] = "HALTED" THEN {running} ELSE {}
           all  == Range(ready) \union Range(newQ) \union back
<1>3. /\ newQ' = <<>> /\ ioQ' = ioQ /\ waiting' = waiting
      /\ Once(ready') /\ Range(ready') = all \ {running'}
      /\ running' \in all \/ (running' = Idle /\ Range(ready') = {})
      /\ Once(zombies') /\ Range(zombies') \subseteq Range(zombies) \union gone
      /\ Apart(blocked') /\ Held(blocked') \subseteq Held(blocked)
      /\ \A p \in Proc :
            state'[p] = IF p = running' THEN "RUNNING"
                        ELSE IF p \in Range(newQ) THEN "READY"
                        ELSE IF p = running /\ state[p] = "INTERRUPTED" THEN "READY"
                        ELSE state[p]
  BY <1>1, <1>2, DispatcherPlaces
<1>4. Waiters' \subseteq Waiters
  BY <1>3 DEF Waiters
<1>5. QueuedOnce'
  BY <1>3, EmptyQueue DEF PlacesOK, QueuedOnce
<1>6. running' \notin Range(zombies) \union Waiters \union gone /\ running' \in Proc
  BY <1>3, PlacesFacts
<1>7. StateTellsQueue'
  BY <1>3, <1>4, <1>6, EmptyQueue, PlacesFacts DEF StateTellsQueue
<1>8. RunningIsNotQueued' /\ ServedIsNotWaiting'
  BY <1>1, <1>3, <1>6 DEF RunningIsNotQueued, ServedIsNotWaiting
<1>9. Moves(blocked, IF LateTermination THEN {running} ELSE {})
  <2>1. state[svc.proc] = "HALTED"
    BY <1>1, PlacesFacts
  <2>2. /\ state[running] \in {"RUNNING", "INTERRUPTED", "HALTED"}
        /\ state[running] = "RUNNING" => running # svc.proc
    BY <2>1, PlacesFacts
  <2>3. Moves(blocked, IF state[running] = "RUNNING" THEN {running} ELSE {})
    BY <1>1, <1>2, <2>1, <2>2, DispatcherMoves
  <2>4. state[running] = "RUNNING" => LateTermination
    BY <2>2 DEF LateTermination
  <2>. QED
    BY <2>3, <2>4 DEF Moves
<1>. QED
  BY <1>5, <1>7, <1>8, <1>9 DEF PlacesOK

LEMMA IOInterruptPlaces ==
    ASSUME Inv, PlacesOK, NEW d \in Dev, IOInterrupt(d)
    PROVE  PlacesOK'
<1>1. /\ state' = [state EXCEPT ![running] = IF @ = "RUNNING" THEN "INTERRUPTED" ELSE @]
      /\ UNCHANGED <<svc, running, newQ, ready, ioQ, zombies, blocked, waiting>>
  BY DEF IOInterrupt, cpuVars, qVars, lockVars
<1>2. \A p \in Proc : state'[p] = IF p = running /\ state[p] = "RUNNING" THEN "INTERRUPTED"
                                  ELSE state[p]
  BY <1>1 DEF Inv, TypeOK
<1>3. QueuedOnce' /\ Waiters' = Waiters
  BY <1>1 DEF PlacesOK, QueuedOnce, Waiters
<1>4. StateTellsQueue'
  BY <1>1, <1>2, <1>3, PlacesFacts DEF StateTellsQueue
<1>5. RunningIsNotQueued'
  BY <1>1, <1>2, PlacesFacts DEF RunningIsNotQueued
<1>6. ServedIsNotWaiting'
  BY <1>1, <1>2, <1>3, PlacesFacts
     DEF PlacesOK, ServedIsNotWaiting, IOTraps, UnlockOps
<1>. QED
  BY <1>3, <1>4, <1>5, <1>6 DEF PlacesOK

\* The head of the device's queue becomes ready.
LEMMA IOReturnPlaces ==
    ASSUME Inv, PlacesOK, IOReturn
    PROVE  PlacesOK' /\ Moves(blocked, {})
<1> DEFINE p  == Head(ioQ[dev])
           q  == PEnqueue(ReadyAfterNew, priority, p)
           st == [state EXCEPT ![p] = "READY"]
<1>1. TypeOK /\ dev \in Dev /\ ioQ[dev] # <<>> /\ ioQ \in [Dev -> Seq(Proc)]
  BY DEF Inv, ControlOK, DeviceOnIffRequested, IOReturn, TypeOK
<1>2. /\ KeepRunning(q, st, pc) /\ newQ' = <<>> /\ ioQ' = [ioQ EXCEPT ![dev] = Tail(@)]
      /\ waiting' = waiting /\ svc' = svc
      /\ Housekeeping(zombies, priority, owner, blocked, total_blocked)
  BY DEF IOReturn
<1>3. QueuedOnce
  BY DEF PlacesOK
<1>4. /\ p \in Held(ioQ) /\ Apart(ioQ') /\ Held(ioQ') = Held(ioQ) \ {p}
  <2> DEFINE new == [ioQ EXCEPT ![dev] = Tail(@)]
  <2>1. /\ p \in Held(ioQ)
        /\ Apart(ioQ) => Apart(new) /\ Held(new) = Held(ioQ) \ {p}
    BY <1>1, HeldTail
  <2>2. ioQ' = new
    BY <1>2
  <2> HIDE DEF p, new
  <2>. QED
    BY <1>3, <2>1, <2>2 DEF QueuedOnce
<1>5. p \in Waiters /\ p \in Proc /\ p \notin Range(ReadyAfterNew)
  BY <1>1, <1>4, PlacesFacts, AfterNewPlaces DEF Waiters
<1>6. Once(q) /\ Range(q) = Range(ready) \union Range(newQ) \union {p}
  BY <1>1, <1>5, AfterNewPlaces, PEnqueuePlaces
<1> HIDE DEF p, q
<1>7. \A x \in Proc : st[x] = IF x = p THEN "READY" ELSE state[x]
  BY <1>1 DEF TypeOK
<1> HIDE DEF st
<1>8. /\ ready' = q /\ running' = running
      /\ \A x \in Proc : state'[x] = IF x \in Range(newQ) \union {p} THEN "READY" ELSE state[x]
  BY <1>2, <1>7, KeepRunningPlaces
<1>9. /\ Range(zombies') \subseteq Range(zombies) /\ Once(zombies')
      /\ Held(blocked') \subseteq Held(blocked) /\ Apart(blocked')
  <2>1. zombies \in Seq(Proc) /\ blocked \in [Mutex -> Seq(Proc)]
    BY <1>1 DEF TypeOK
  <2>2. Once(zombies) /\ Apart(blocked)
    BY <1>3 DEF QueuedOnce
  <2>. QED
    BY <1>1, <1>2, <2>1, <2>2, HousekeepingPlaces
<1>10. QueuedOnce'
  <2>1. Once(newQ') /\ Once(ready') /\ Once(zombies')
    BY <1>2, <1>6, <1>8, <1>9, EmptyQueue
  <2>2. Apart(ioQ') /\ Apart(blocked') /\ Apart(waiting')
    BY <1>2, <1>3, <1>4, <1>9 DEF QueuedOnce
  <2>3. /\ Held(ioQ') \subseteq Held(ioQ) /\ Held(blocked') \subseteq Held(blocked)
        /\ Held(waiting') = Held(waiting)
    BY <1>2, <1>4, <1>9
  <2>4. /\ Held(ioQ') \intersect Held(blocked') = {}
        /\ Held(ioQ') \intersect Held(waiting') = {}
        /\ Held(blocked') \intersect Held(waiting') = {}
    BY <1>3, <2>3 DEF QueuedOnce
  <2>. QED
    BY <2>1, <2>2, <2>4 DEF QueuedOnce
<1>11. Waiters' \subseteq Waiters \ {p}
  BY <1>2, <1>3, <1>4, <1>9 DEF Waiters, QueuedOnce
<1>12. StateTellsQueue'
  BY <1>2, <1>5, <1>6, <1>8, <1>9, <1>11, EmptyQueue, PlacesFacts DEF StateTellsQueue
<1>13. RunningIsNotQueued'
  BY <1>2, <1>5, <1>8, <1>9, PlacesFacts DEF RunningIsNotQueued
<1>14. ServedIsNotWaiting'
  BY <1>2, <1>5, <1>8, <1>11, PlacesFacts DEF PlacesOK, ServedIsNotWaiting, IOTraps, UnlockOps
<1>15. Moves(blocked, {})
  <2>1. /\ running' = running /\ Range(ready') = Range(ready) \union Range(newQ) \union {p}
        /\ Range(newQ') = {} /\ svc' = svc
    BY <1>2, <1>6, <1>8, EmptyQueue
  <2>2. Waiters' = ((Waiters \ {p}) \ Held(blocked)) \union Held(blocked')
        /\ p \notin Held(blocked) /\ Held(blocked) \subseteq Waiters
    BY <1>2, <1>3, <1>4 DEF Waiters, QueuedOnce
  <2>3. /\ svc.proc \notin Waiters /\ state[p] = "WAITING" /\ running \in Proc
        /\ p # Idle /\ p # running
    <3>1. svc = NoSvc => svc.proc \notin Waiters
      BY PlacesFacts, ProcessesDistinct DEF NoSvc
    <3>. QED
      BY <1>5, <3>1, PlacesFacts
  <2>4. \A x \in Proc : InService(x)' <=> InService(x)
    BY <1>5, <1>8, <2>1, <2>3, PlacesFacts DEF InService
  <2>5. \A x \in Proc \ (Range(newQ) \union {p}) : state'[x] = state[x]
    BY <1>8
  <2>6. ASSUME NEW x \in Proc \ {Idle}, Nowhere(x) PROVE Nowhere(x)'
    BY <1>5, <1>9, <2>1, <2>2, <2>4, <2>6 DEF Nowhere
  <2>7. ASSUME NEW x \in Proc \ {Idle}, Nowhere(x)'
        PROVE  Nowhere(x) \/ state'[x] = "HALTED" \/ x \in Held(blocked) \ Held(blocked')
    <3>1. /\ x # running /\ x \notin Range(ready) \union Range(newQ) \union {p} \union Waiters'
          /\ ~InService(x)
      BY <2>1, <2>4, <2>7 DEF Nowhere
    <3>2. CASE x \in Range(zombies)
      BY <2>5, <3>1, <3>2, PlacesFacts
    <3>3. CASE x \in Waiters
      BY <2>2, <3>1, <3>3
    <3>. QED
      BY <3>1, <3>2, <3>3 DEF Nowhere
  <2>8. ASSUME NEW x \in Proc \ {Idle},
               state'[x] \in {"UNBORN", "NEW"} \/ state[x] \in {"UNBORN", "HALTED"}
        PROVE  state'[x] = state[x]
    BY <1>8, <2>3, <2>8, PlacesFacts
  <2>9. ASSUME NEW x \in Held(blocked)
        PROVE  /\ x \in Proc \ {Idle} /\ state'[x] = "WAITING" /\ x # running'
               /\ x \notin Held(ioQ') \union Held(waiting') /\ ~InService(x)'
    <3>1. x \in Waiters /\ x # p
      BY <2>2
    <3>2. x \in Proc /\ state[x] = "WAITING" /\ x # Idle /\ x # running
          /\ x \notin Range(newQ)
      BY <3>1, PlacesFacts
    <3>3. ~InService(x)
      BY <2>3, <3>1 DEF InService
    <3>4. x \notin Held(ioQ') \union Held(waiting')
      BY <1>2, <1>3, <1>4 DEF QueuedOnce
    <3>. QED
      BY <2>1, <2>4, <2>5, <3>1, <3>2, <3>3, <3>4
  <2>. QED
    BY <1>3, <2>1, <2>6, <2>7, <2>8, <2>9 DEF Moves, QueuedOnce
<1>. QED
  BY <1>10, <1>12, <1>13, <1>14, <1>15 DEF PlacesOK

\* The process that enters a service routine leaves no queue, and is marked
\* by the routine.
LEMMA EnterTSRPlaces ==
    ASSUME Inv, PlacesOK, NEW ops \in SUBSET Services, NEW st, EnterTSR(ops, st),
           st \in {"RUNNING", "INTERRUPTED", "WAITING", "HALTED"},
           Requested = "PCB_TERMINATED" <=> st = "HALTED",
           Requested \in IOTraps \union {"WAIT_RESOURCE_1"} => st = "WAITING",
           Requested \in UnlockOps \union {"SIGNAL_RESOURCE_1"} => st # "WAITING"
    PROVE  PlacesOK'
<1>1. /\ state' = [state EXCEPT ![running] = st] /\ svc' = [op |-> Requested, proc |-> running]
      /\ UNCHANGED <<running, newQ, ready, ioQ, zombies, blocked, waiting>>
  BY DEF EnterTSR, cpuVars, qVars, lockVars
<1>2. \A p \in Proc : state'[p] = IF p = running THEN st ELSE state[p]
  BY <1>1 DEF Inv, TypeOK
<1>3. QueuedOnce' /\ Waiters' = Waiters
  BY <1>1 DEF PlacesOK, QueuedOnce, Waiters
<1>4. running # Idle
  <2>1. Requested # "NONE"
    BY DEF EnterTSR, Services, IOTraps, LockOps, UnlockOps
  <2>2. ServiceExists(running, Requested)
    BY <2>1, RequestedExists DEF Requested
  <2>. QED
    BY <2>2, ServiceObjects
<1>5. StateTellsQueue'
  BY <1>1, <1>2, <1>3, <1>4, PlacesFacts DEF StateTellsQueue
<1>6. RunningIsNotQueued'
  BY <1>1, <1>2, PlacesFacts DEF RunningIsNotQueued
<1>7. ServedIsNotWaiting'
  BY <1>1, <1>2, <1>3, PlacesFacts DEF ServedIsNotWaiting
<1>. QED
  BY <1>3, <1>5, <1>6, <1>7 DEF PlacesOK

LEMMA EnterServicePlaces ==
    ASSUME Inv, PlacesOK, EnterService
    PROVE  PlacesOK'
<1>1. /\ {"PCB_TERMINATED"} \subseteq Services /\ IOTraps \subseteq Services
      /\ LockOps \subseteq Services /\ UnlockOps \subseteq Services
      /\ {"WAIT_RESOURCE_1"} \subseteq Services /\ {"SIGNAL_RESOURCE_1"} \subseteq Services
  BY DEF Services
<1>2. CASE NoTrap
  BY <1>2, NobodyMoves DEF NoTrap, cpuVars, lockVars
<1>3. CASE EnterTermination
  <2>1. EnterTSR({"PCB_TERMINATED"}, "HALTED") /\ Requested = "PCB_TERMINATED"
    BY <1>3 DEF EnterTermination, EnterTSR
  <2>. QED
    BY <1>1, <2>1, EnterTSRPlaces DEF IOTraps, UnlockOps
<1>4. CASE EnterIOTrap
  <2>1. EnterTSR(IOTraps, "WAITING") /\ Requested \in IOTraps
    BY <1>4 DEF EnterIOTrap, EnterTSR
  <2>. QED
    BY <1>1, <2>1, EnterTSRPlaces DEF IOTraps, UnlockOps
<1>5. CASE EnterLock
  <2> DEFINE st == IF owner[MutexOf(running, Requested)] \in {NoProc, running}
                   THEN "INTERRUPTED" ELSE "WAITING"
  <2>1. EnterTSR(LockOps, st) /\ Requested \in LockOps
    BY <1>5 DEF EnterLock, EnterTSR
  <2>2. st \in {"INTERRUPTED", "WAITING"}
    OBVIOUS
  <2> HIDE DEF st
  <2>. QED
    BY <1>1, <2>1, <2>2, EnterTSRPlaces DEF IOTraps, LockOps, UnlockOps
<1>6. CASE EnterUnlock
  <2>1. EnterTSR(UnlockOps, "INTERRUPTED") /\ Requested \in UnlockOps
    BY <1>6 DEF EnterUnlock, EnterTSR
  <2>. QED
    BY <1>1, <2>1, EnterTSRPlaces DEF IOTraps, UnlockOps
<1>7. CASE EnterWait
  <2>1. EnterTSR({"WAIT_RESOURCE_1"}, "WAITING") /\ Requested = "WAIT_RESOURCE_1"
    BY <1>7 DEF EnterWait, EnterTSR
  <2>. QED
    BY <1>1, <2>1, EnterTSRPlaces DEF IOTraps, UnlockOps
<1>8. CASE EnterSignal
  <2>1. /\ EnterTSR({"SIGNAL_RESOURCE_1"}, state[running])
        /\ Requested = "SIGNAL_RESOURCE_1" /\ at = "trap"
    BY <1>8 DEF EnterSignal, EnterTSR
  <2>2. svc = NoSvc
    BY <2>1 DEF Inv, ControlOK
  <2>3. running # svc.proc
    BY <2>2, ProcessesDistinct DEF Inv, TypeOK, NoSvc
  <2>4. state[running] \in {"RUNNING", "INTERRUPTED"}
    BY <2>3, PlacesFacts
  <2>. QED
    BY <1>1, <2>1, <2>4, EnterTSRPlaces DEF IOTraps
<1>. QED
  BY <1>2, <1>3, <1>4, <1>5, <1>6, <1>7, <1>8 DEF EnterService

\* What the ends of the service routines have in common: the processes of put
\* leave the queues they wait in for the ready queue, and the process served,
\* if it has to wait, goes to the queue of what it waits for; the CPU then
\* goes to the head of the ready queue, unless it has already been taken away.
LEMMA ServicePlaces ==
    ASSUME Inv, PlacesOK, svc # NoSvc, svc' = NoSvc, newQ' = <<>>,
           NEW put \in SUBSET Waiters, NEW q \in Seq(Proc), Once(q),
           Range(q) = Range(ready) \union Range(newQ) \union put,
           NEW st, \A p \in Proc : st[p] = IF p \in put THEN "READY" ELSE state[p],
           NEW saved, NEW pr, NEW own, NEW blk \in [Mutex -> Seq(Proc)], NEW tb,
           \/ KeepRunning(q, st, saved) /\ state[P] \notin {"WAITING", "HALTED"}
           \/ TakeNextIfRunning(P, q, st, saved) /\ state[P] = "WAITING",
           Housekeeping(zombies, pr, own, blk, tb),
           Apart(ioQ'), Apart(blk), Apart(waiting'),
           Held(ioQ') \intersect Held(blk) = {},
           Held(ioQ') \intersect Held(waiting') = {},
           Held(blk) \intersect Held(waiting') = {},
           Held(ioQ') \union Held(blk) \union Held(waiting')
               = (Waiters \ put) \union (IF state[P] = "WAITING" THEN {P} ELSE {})
    PROVE  PlacesOK' /\ Moves(blk, {})
<1>1. TypeOK /\ Once(zombies) /\ zombies \in Seq(Proc)
  BY DEF Inv, TypeOK, PlacesOK, QueuedOnce
<1>2. Idle \notin Range(q)
  BY PlacesFacts
<1>3. /\ Range(zombies') \subseteq Range(zombies) /\ Once(zombies')
      /\ Held(blocked') \subseteq Held(blk) /\ Apart(blocked')
  BY <1>1, HousekeepingPlaces
<1> DEFINE switch == state[P] = "WAITING" /\ running = P
<1>4. /\ Once(ready')
      /\ Range(ready') = IF switch THEN Range(q) \ {running'} ELSE Range(q)
      /\ IF switch THEN running' \in Range(q) \/ (running' = Idle /\ Range(ready') = {})
                   ELSE running' = running
      /\ \A p \in Proc : state'[p] = IF switch /\ p = running' THEN "RUNNING"
                                     ELSE IF p \in Range(newQ) THEN "READY" ELSE st[p]
  <2>1. CASE KeepRunning(q, st, saved) /\ state[P] \notin {"WAITING", "HALTED"}
    BY <2>1, KeepRunningPlaces
  <2>2. CASE TakeNextIfRunning(P, q, st, saved) /\ state[P] = "WAITING"
    <3>1. CASE running = P
      <4>1. TakeNext(q, st, saved) /\ switch
        BY <2>2, <3>1 DEF TakeNextIfRunning
      <4> HIDE DEF switch
      <4>2. /\ Once(ready')
            /\ Range(ready') = Range(q) \ {running'}
            /\ running' \in Range(q) \/ (running' = Idle /\ q = <<>> /\ Range(ready') = {})
            /\ \A p \in Proc : state'[p] = IF p = running' THEN "RUNNING"
                                           ELSE IF p \in Range(newQ) THEN "READY" ELSE st[p]
        BY <1>1, <1>2, <4>1, TakeNextPlaces
      <4>. QED
        BY <4>1, <4>2
    <3>2. CASE running # P
      <4>1. KeepRunning(q, st, saved) /\ ~switch
        BY <2>2, <3>2 DEF TakeNextIfRunning
      <4>. QED
        BY <4>1, KeepRunningPlaces
    <3>. QED
      BY <3>1, <3>2
  <2>. QED
    BY <2>1, <2>2
<1>5. Waiters' \subseteq (Waiters \ put) \union (IF state[P] = "WAITING" THEN {P} ELSE {})
  BY <1>3 DEF Waiters
<1>6. QueuedOnce'
  <2>1. Once(newQ')
    BY EmptyQueue
  <2>2. /\ Held(ioQ') \intersect Held(blocked') = {}
        /\ Held(blocked') \intersect Held(waiting') = {}
    BY <1>3
  <2>. QED
    BY <1>3, <1>4, <2>1, <2>2 DEF QueuedOnce
<1>7. P \in Proc /\ P \notin Waiters /\ P # Idle
  BY PlacesFacts DEF P
<1>8. state[running] \in {"RUNNING", "INTERRUPTED"} \/ (running = P /\ state[P] \in {"WAITING", "HALTED"})
  BY PlacesFacts DEF P
<1>9. \A p \in Proc : \/ p \in Range(q) /\ state'[p] \in {"READY", "RUNNING"}
                      \/ p \notin Range(q) /\ state'[p] \in {"RUNNING", state[p]}
  <2>1. \A p \in Range(ready) : state[p] = "READY"
    BY PlacesFacts
  <2>. QED
    BY <1>4, <2>1
<1>10. running' \notin Range(zombies) \union Waiters' /\ running' \in Proc
  <2>1. Range(q) \intersect (Range(zombies) \union Waiters') = {}
    BY <1>5, <1>7, PlacesFacts
  <2>2. CASE switch
    BY <1>2, <1>4, <1>5, <1>7, <2>1, <2>2, PlacesFacts
  <2>3. CASE ~switch
    BY <1>4, <1>5, <2>3, PlacesFacts
  <2>. QED
    BY <2>2, <2>3
<1>11. StateTellsQueue'
  <2>1. \A p \in Range(ready') : state'[p] = "READY" /\ p # Idle
    <3>1. \A p \in Range(ready') : p \in Range(q) /\ p # Idle /\ p \in Proc
                                  /\ (switch => p # running')
      BY <1>2, <1>4, PlacesFacts
    <3>. QED
      BY <1>4, <3>1, PlacesFacts
  <2>2. \A p \in Range(zombies') : state'[p] = "HALTED"
    BY <1>3, <1>4, <1>10, PlacesFacts
  <2>3. \A p \in Waiters' : state'[p] = "WAITING"
    BY <1>4, <1>5, <1>7, <1>10, PlacesFacts
  <2>4. state'[Idle] \in {"UNBORN", "READY", "RUNNING", "INTERRUPTED"}
    BY <1>9, PlacesFacts
  <2>. QED
    BY <2>1, <2>2, <2>3, <2>4, EmptyQueue DEF StateTellsQueue
<1>12. RunningIsNotQueued'
  <2>1. running' \notin Range(zombies')
    BY <1>3, <1>10
  <2>2. CASE switch
    BY <1>4, <1>10, <2>1, <2>2 DEF RunningIsNotQueued
  <2>3. CASE ~switch
    <3>1. running' = running /\ state[running] \in {"RUNNING", "INTERRUPTED"}
      BY <1>4, <1>8, <2>3
    <3>2. state'[running] = state[running]
      BY <1>4, <2>3, <3>1, PlacesFacts
    <3>. QED
      BY <2>1, <3>1, <3>2 DEF RunningIsNotQueued
  <2>. QED
    BY <2>2, <2>3
<1>13. ServedIsNotWaiting'
  BY DEF ServedIsNotWaiting
<1> DEFINE all == Held(ioQ') \union Held(blk) \union Held(waiting')
<1>14. all = (Waiters \ put) \union (IF state[P] = "WAITING" THEN {P} ELSE {})
  OBVIOUS
<1>15. Waiters' = (all \ Held(blk)) \union Held(blocked')
  BY <1>3 DEF Waiters
<1>16. \A p \in Proc : InService(p) => p = P /\ state[P] = "WAITING" /\ running # P
  BY DEF InService, P
<1>17. \A p \in Proc : ~InService(p)'
  BY ProcessesDistinct DEF InService, NoSvc
<1> HIDE DEF all, switch
<1>18. ASSUME NEW p \in Proc \ {Idle}, Nowhere(p) PROVE Nowhere(p)'
  <2>1. /\ p # running /\ ~InService(p)
        /\ p \notin Range(newQ) \union Range(ready) \union Range(zombies) \union Waiters
    BY <1>18 DEF Nowhere
  <2>2. p \notin Range(q) /\ p # running'
    BY <1>4, <2>1
  <2>3. state[P] = "WAITING" => p # P
    BY <1>7, <2>1 DEF InService, P
  <2>4. p \notin Waiters' /\ p \notin Range(zombies') /\ p \notin Range(ready')
    BY <1>3, <1>4, <1>5, <2>1, <2>2, <2>3
  <2>. QED
    BY <1>17, <2>2, <2>4, EmptyQueue DEF Nowhere
<1>19. ASSUME NEW p \in Proc \ {Idle}, Nowhere(p)'
       PROVE  Nowhere(p) \/ state'[p] = "HALTED" \/ p \in Held(blk) \ Held(blocked')
  <2>1. /\ p # running' /\ p \notin Range(ready') /\ p \notin Waiters'
    BY <1>19 DEF Nowhere
  <2>2. p \notin Range(q)
    BY <1>4, <2>1
  <2>3. CASE p \in Range(zombies)
    BY <1>4, <2>1, <2>2, <2>3, PlacesFacts
  <2>4. CASE p \in all
    BY <1>15, <2>1, <2>4
  <2>5. CASE p \notin Range(zombies) /\ p \notin all
    <3>1. ~InService(p) /\ p \notin Waiters
      BY <1>14, <1>16, <2>2, <2>5
    <3>2. p # running
      BY <1>4, <1>14, <2>1, <2>2, <2>5 DEF switch
    <3>. QED
      BY <2>2, <2>5, <3>1, <3>2 DEF Nowhere
  <2>. QED
    BY <2>3, <2>4, <2>5
<1>20. ASSUME NEW p \in Proc \ {Idle},
              state'[p] \in {"UNBORN", "NEW"} \/ state[p] \in {"UNBORN", "HALTED"}
       PROVE  state'[p] = state[p]
  <2>1. state'[p] \in {"UNBORN", "NEW"} => state'[p] = state[p]
    BY <1>9
  <2>2. state[p] \in {"UNBORN", "HALTED"} => p \notin Range(q)
    BY PlacesFacts
  <2>3. p \notin Range(q) => state'[p] = state[p]
    BY <1>4
  <2>. QED
    BY <1>20, <2>1, <2>2, <2>3
<1>21. ASSUME NEW p \in Held(blk)
       PROVE  /\ p \in Proc \ {Idle} /\ state'[p] = "WAITING" /\ p # running'
              /\ p \notin Held(ioQ') \union Held(waiting') /\ ~InService(p)'
  <2>1. p \in all
    BY DEF all
  <2>2. p \in Proc /\ state[p] = "WAITING" /\ p # Idle
    BY <1>7, <1>14, <2>1, PlacesFacts
  <2>3. p \notin Range(q)
    <3>1. p \notin Range(ready) \union Range(newQ)
      BY <2>2, PlacesFacts
    <3>2. p \notin put
      BY <1>7, <1>14, <2>1
    <3>. QED
      BY <3>1, <3>2
  <2>4. p # running'
    <3>1. CASE switch
      <4>1. running' \in Range(q) \/ running' = Idle
        BY <1>4, <3>1
      <4>. QED
        BY <2>2, <2>3, <4>1
    <3>2. CASE ~switch
      <4>1. p \in Waiters \/ (p = P /\ state[P] = "WAITING")
        BY <1>14, <2>1
      <4>2. p \in Waiters => p # running
        BY PlacesFacts
      <4>. QED
        BY <1>4, <3>2, <4>1, <4>2 DEF switch
    <3>. QED
      BY <3>1, <3>2
  <2>5. state'[p] = "WAITING"
    BY <1>4, <2>2, <2>3, <2>4
  <2>. QED
    BY <1>17, <2>2, <2>4, <2>5
<1>22. running' = running \/ state'[running'] = "RUNNING"
  BY <1>4, <1>10
<1>. QED
  BY <1>6, <1>11, <1>12, <1>13, <1>18, <1>19, <1>20, <1>21, <1>22 DEF PlacesOK, Moves

\* The end of a service that makes no call of scheduler().
LEMMA NoSchedulerPlaces ==
    ASSUME Inv, PlacesOK, svc' = NoSvc, state[P] \notin {"WAITING", "HALTED"}, NoScheduler
    PROVE  PlacesOK'
<1>1. UNCHANGED <<running, state, newQ, ready, ioQ, zombies, blocked, waiting>>
  BY DEF NoScheduler, qVars
<1>2. QueuedOnce' /\ StateTellsQueue'
  BY <1>1 DEF PlacesOK, QueuedOnce, StateTellsQueue, Waiters
<1>3. RunningIsNotQueued'
  BY <1>1 DEF PlacesOK, RunningIsNotQueued, P
<1>4. ServedIsNotWaiting'
  BY DEF ServedIsNotWaiting
<1>. QED
  BY <1>2, <1>3, <1>4 DEF PlacesOK

\* What is known of the process served when its service ends.
LEMMA ServedFacts ==
    ASSUME Inv, PlacesOK, NEW ops, Serve(ops)
    PROVE  /\ svc # NoSvc /\ svc' = NoSvc /\ svc.op \in ops
           /\ P \in Proc /\ P \notin Waiters
           /\ svc.op = "PCB_TERMINATED" <=> state[P] = "HALTED"
           /\ svc.op \in IOTraps \union {"WAIT_RESOURCE_1"} => state[P] = "WAITING"
           /\ svc.op \in UnlockOps \union {"SIGNAL_RESOURCE_1"} => state[P] # "WAITING"
           /\ svc.op \in LockOps \union UnlockOps \union {"WAIT_RESOURCE_1", "SIGNAL_RESOURCE_1"}
                 => M \in Mutex
           /\ svc.op \in {"WAIT_RESOURCE_1", "SIGNAL_RESOURCE_1"}
                 => WaitCond(P) \in Cond /\ SignalCond(P) \in Cond
<1>1. svc # NoSvc /\ svc' = NoSvc /\ svc.op \in ops /\ ServiceExists(svc.proc, svc.op)
  BY DEF Serve, Inv, ControlOK
<1>. QED
  BY <1>1, ServiceObjects DEF PlacesOK, ServedIsNotWaiting, P, M

\* The queues that the services start from.
LEMMA QueueFacts ==
    ASSUME Inv, PlacesOK
    PROVE  /\ ioQ \in [Dev -> Seq(Proc)] /\ blocked \in [Mutex -> Seq(Proc)]
           /\ waiting \in [Cond -> Seq(Proc)]
           /\ Apart(ioQ) /\ Apart(blocked) /\ Apart(waiting)
           /\ Held(ioQ) \intersect Held(blocked) = {}
           /\ Held(ioQ) \intersect Held(waiting) = {}
           /\ Held(blocked) \intersect Held(waiting) = {}
           /\ Waiters = Held(ioQ) \union Held(blocked) \union Held(waiting)
           /\ {} \in SUBSET Waiters
           /\ ReadyAfterNew \in Seq(Proc) /\ Once(ReadyAfterNew)
           /\ Range(ReadyAfterNew) = Range(ready) \union Range(newQ)
<1>1. TypeOK
  BY DEF Inv
<1>2. /\ ioQ \in [Dev -> Seq(Proc)] /\ blocked \in [Mutex -> Seq(Proc)]
      /\ waiting \in [Cond -> Seq(Proc)]
  BY <1>1 DEF TypeOK
<1>. QED
  BY <1>1, <1>2, AfterNewPlaces DEF PlacesOK, QueuedOnce, Waiters

LEMMA FinishIOTrapPlaces ==
    ASSUME Inv, PlacesOK, FinishIOTrap
    PROVE  PlacesOK' /\ Moves(blocked, {})
<1> DEFINE d   == DeviceOf(svc.op)
           new == [ioQ EXCEPT ![d] = Append(@, P)]
           q   == ReadyAfterNew
<1>1. /\ Serve(IOTraps) /\ newQ' = <<>> /\ ioQ' = new /\ waiting' = waiting
      /\ TakeNextIfRunning(P, q, state, TrapPC)
      /\ Housekeeping(zombies, priority, owner, blocked, total_blocked)
  BY DEF FinishIOTrap
<1>2. /\ svc # NoSvc /\ svc' = NoSvc /\ svc.op \in IOTraps
      /\ P \in Proc /\ P \notin Waiters /\ state[P] = "WAITING"
  BY <1>1, ServedFacts
<1>3. d \in Dev
  BY DEF DeviceOf, Dev
<1>4. /\ Held(new) = Held(ioQ) \union {P}
      /\ Apart(ioQ) /\ P \notin Held(ioQ) => Apart(new)
  <2> DEFINE p == P
  <2>1. ioQ \in [Dev -> Seq(Proc)] /\ p \in Proc
    BY <1>2, QueueFacts
  <2> HIDE DEF p, d
  <2>2. Family(ioQ, Dev, Proc) /\ new = Joined(ioQ, d, p)
    BY <2>1 DEF Family, Joined, p, d
  <2> HIDE DEF new
  <2>3. /\ Held(new) = Held(ioQ) \union {p}
        /\ Apart(ioQ) /\ p \notin Held(ioQ) => Apart(new)
    BY <1>3, <2>1, <2>2, HeldAppend
  <2>. QED
    BY <2>3 DEF p
<1>5. /\ Apart(new) /\ Held(new) \intersect Held(blocked) = {}
      /\ Held(new) \intersect Held(waiting) = {}
      /\ Held(new) \union Held(blocked) \union Held(waiting)
             = (Waiters \ {}) \union (IF state[P] = "WAITING" THEN {P} ELSE {})
  BY <1>2, <1>4, QueueFacts
<1>6. /\ q \in Seq(Proc) /\ Once(q) /\ Range(q) = Range(ready) \union Range(newQ) \union {}
      /\ \A p \in Proc : state[p] = IF p \in {} THEN "READY" ELSE state[p]
  BY QueueFacts
<1> HIDE DEF new, q
<1>. QED
  BY <1>1, <1>2, <1>5, <1>6, QueueFacts, ServicePlaces

LEMMA LockBlocksPlaces ==
    ASSUME Inv, PlacesOK, LockBlocks
    PROVE  PlacesOK' /\ Moves([blocked EXCEPT ![M] = Append(@, P)], {})
<1> DEFINE blk == [blocked EXCEPT ![M] = Append(@, P)]
           q   == ReadyAfterNew
<1>1. /\ Serve(LockOps) /\ newQ' = <<>> /\ ioQ' = ioQ /\ waiting' = waiting
      /\ state[P] = "WAITING"
      /\ TakeNextIfRunning(P, q, state, TrapPC)
      /\ Housekeeping(zombies, priority, owner, blk, total_blocked + 1)
  BY DEF LockBlocks
<1>2. svc # NoSvc /\ svc' = NoSvc /\ P \in Proc /\ P \notin Waiters /\ M \in Mutex
  BY <1>1, ServedFacts
<1>4. /\ blk \in [Mutex -> Seq(Proc)] /\ Held(blk) = Held(blocked) \union {P}
      /\ Apart(blocked) /\ P \notin Held(blocked) => Apart(blk)
  <2> DEFINE p == P
             m == M
  <2>1. blocked \in [Mutex -> Seq(Proc)] /\ p \in Proc /\ m \in Mutex
    BY <1>2, QueueFacts
  <2> HIDE DEF p, m
  <2>2. Family(blocked, Mutex, Proc) /\ blk = Joined(blocked, m, p)
    BY <2>1 DEF Family, Joined, p, m
  <2> HIDE DEF blk
  <2>3. /\ Held(blk) = Held(blocked) \union {p}
        /\ Apart(blocked) /\ p \notin Held(blocked) => Apart(blk)
    BY <2>1, <2>2, HeldAppend
  <2>4. blk \in [Mutex -> Seq(Proc)]
    BY <2>1, <2>2, HeldAppend DEF Family
  <2>. QED
    BY <2>3, <2>4 DEF p
<1>5. /\ Apart(blk) /\ Held(ioQ) \intersect Held(blk) = {}
      /\ Held(blk) \intersect Held(waiting) = {}
      /\ Held(ioQ) \union Held(blk) \union Held(waiting)
             = (Waiters \ {}) \union (IF state[P] = "WAITING" THEN {P} ELSE {})
  BY <1>1, <1>2, <1>4, QueueFacts
<1>6. /\ q \in Seq(Proc) /\ Once(q) /\ Range(q) = Range(ready) \union Range(newQ) \union {}
      /\ \A p \in Proc : state[p] = IF p \in {} THEN "READY" ELSE state[p]
  BY QueueFacts
<1> HIDE DEF blk, q
<1>7. PlacesOK' /\ Moves(blk, {})
  BY <1>1, <1>2, <1>4, <1>5, <1>6, QueueFacts, ServicePlaces
<1>. QED
  BY <1>7 DEF blk

\* The first process blocked on the mutex that is given up becomes ready.
LEMMA HeirPlaces ==
    ASSUME Inv, PlacesOK, M \in Mutex, blocked[M] # <<>>
    PROVE  /\ Heir \in Held(blocked) /\ Heir \in Proc
           /\ [blocked EXCEPT ![M] = Tail(@)] \in [Mutex -> Seq(Proc)]
           /\ Apart([blocked EXCEPT ![M] = Tail(@)])
           /\ Held([blocked EXCEPT ![M] = Tail(@)]) = Held(blocked) \ {Heir}
           /\ ReadyWithHeir \in Seq(Proc) /\ Once(ReadyWithHeir)
           /\ Range(ReadyWithHeir) = Range(ready) \union Range(newQ) \union {Heir}
           /\ \A p \in Proc : StateWithHeir[p] = IF p \in {Heir} THEN "READY" ELSE state[p]
<1> DEFINE blk == [blocked EXCEPT ![M] = Tail(@)]
<1>1. /\ blk \in [Mutex -> Seq(Proc)] /\ Heir \in Held(blocked)
      /\ Apart(blocked) => Apart(blk) /\ Held(blk) = Held(blocked) \ {Heir}
  BY QueueFacts, HeldTail DEF Heir
<1>2. Heir \in Waiters /\ Heir \in Proc /\ Heir \notin Range(ReadyAfterNew)
  BY <1>1, QueueFacts, PlacesFacts
<1>3. /\ ReadyWithHeir \in Seq(Proc) /\ Once(ReadyWithHeir)
      /\ Range(ReadyWithHeir) = Range(ready) \union Range(newQ) \union {Heir}
  BY <1>2, QueueFacts, PEnqueuePlaces DEF ReadyWithHeir
<1>4. \A p \in Proc : StateWithHeir[p] = IF p \in {Heir} THEN "READY" ELSE state[p]
  BY DEF StateWithHeir, Inv, TypeOK
<1>. QED
  BY <1>1, <1>2, <1>3, <1>4, QueueFacts

LEMMA UnlockHandsOverPlaces ==
    ASSUME Inv, PlacesOK, UnlockHandsOver
    PROVE  PlacesOK' /\ Moves([blocked EXCEPT ![M] = Tail(@)], {})
<1> DEFINE blk == [blocked EXCEPT ![M] = Tail(@)]
           h   == Heir
           q   == ReadyWithHeir
           st  == StateWithHeir
           own == [owner EXCEPT ![M] = Heir]
<1>1. /\ Serve(UnlockOps) /\ newQ' = <<>> /\ ioQ' = ioQ /\ waiting' = waiting
      /\ blocked[M] # <<>>
      /\ KeepRunning(q, st, pc)
      /\ Housekeeping(zombies, priority, own, blk, total_blocked - 1)
  BY DEF UnlockHandsOver, HandOver
<1>2. /\ svc # NoSvc /\ svc' = NoSvc /\ M \in Mutex
      /\ state[P] \notin {"WAITING", "HALTED"}
  BY <1>1, ServedFacts DEF UnlockOps
<1>3. /\ h \in Held(blocked)
      /\ blk \in [Mutex -> Seq(Proc)] /\ Apart(blk) /\ Held(blk) = Held(blocked) \ {h}
      /\ q \in Seq(Proc) /\ Once(q)
      /\ Range(q) = Range(ready) \union Range(newQ) \union {h}
      /\ \A p \in Proc : st[p] = IF p \in {h} THEN "READY" ELSE state[p]
  BY <1>1, <1>2, HeirPlaces
<1> HIDE DEF blk, h, q, st, own
<1>4. /\ Held(ioQ) \intersect Held(blk) = {} /\ Held(blk) \intersect Held(waiting) = {}
      /\ Held(ioQ) \union Held(blk) \union Held(waiting)
             = (Waiters \ {h}) \union (IF state[P] = "WAITING" THEN {P} ELSE {})
      /\ {h} \in SUBSET Waiters
  BY <1>2, <1>3, QueueFacts
<1>5. PlacesOK' /\ Moves(blk, {})
  BY <1>1, <1>2, <1>3, <1>4, QueueFacts, ServicePlaces
<1>. QED
  BY <1>5 DEF blk

LEMMA WaitPlaces ==
    ASSUME Inv, PlacesOK, Wait
    PROVE  /\ PlacesOK'
           /\ Moves(IF blocked[M] = <<>> THEN blocked ELSE [blocked EXCEPT ![M] = Tail(@)], {})
<1> DEFINE blk  == [blocked EXCEPT ![M] = Tail(@)]
           h    == Heir
           q    == ReadyWithHeir
           st   == StateWithHeir
           own  == [owner EXCEPT ![M] = Heir]
           free == [owner EXCEPT ![M] = NoProc]
           new  == [waiting EXCEPT ![WaitCond(P)] = Append(@, P)]
           q0   == ReadyAfterNew
<1>1. /\ Serve({"WAIT_RESOURCE_1"}) /\ newQ' = <<>> /\ ioQ' = ioQ /\ waiting' = new
      /\ \/ /\ blocked[M] = <<>>
            /\ TakeNextIfRunning(P, q0, state, TrapPC)
            /\ Housekeeping(zombies, priority, free, blocked, total_blocked)
         \/ /\ blocked[M] # <<>>
            /\ TakeNextIfRunning(P, q, st, TrapPC)
            /\ Housekeeping(zombies, priority, own, blk, total_blocked - 1)
  BY DEF Wait, HandOver
<1>2. /\ svc # NoSvc /\ svc' = NoSvc /\ M \in Mutex /\ WaitCond(P) \in Cond
      /\ P \in Proc /\ P \notin Waiters /\ state[P] = "WAITING"
  BY <1>1, ServedFacts
<1>3. /\ Held(new) = Held(waiting) \union {P} /\ Apart(new)
  <2> DEFINE p == P
             c == WaitCond(P)
  <2>1. waiting \in [Cond -> Seq(Proc)] /\ p \in Proc /\ c \in Cond
    BY <1>2, QueueFacts
  <2> HIDE DEF p, c
  <2>4. Family(waiting, Cond, Proc) /\ new = Joined(waiting, c, p)
    BY <2>1 DEF Family, Joined, p, c
  <2> HIDE DEF new
  <2>2. /\ Held(new) = Held(waiting) \union {p}
        /\ Apart(waiting) /\ p \notin Held(waiting) => Apart(new)
    BY <2>1, <2>4, HeldAppend
  <2>3. Apart(waiting) /\ P \notin Held(waiting)
    BY <1>2, QueueFacts
  <2>. QED
    BY <2>2, <2>3 DEF p
<1>4. CASE blocked[M] = <<>>
  <2>1. /\ TakeNextIfRunning(P, q0, state, TrapPC)
        /\ Housekeeping(zombies, priority, free, blocked, total_blocked)
    BY <1>1, <1>4
  <2>2. /\ Held(ioQ) \intersect Held(new) = {} /\ Held(blocked) \intersect Held(new) = {}
        /\ Held(ioQ) \union Held(blocked) \union Held(new)
               = (Waiters \ {}) \union (IF state[P] = "WAITING" THEN {P} ELSE {})
    BY <1>2, <1>3, QueueFacts
  <2>3. /\ q0 \in Seq(Proc) /\ Once(q0)
        /\ Range(q0) = Range(ready) \union Range(newQ) \union {}
        /\ \A p \in Proc : state[p] = IF p \in {} THEN "READY" ELSE state[p]
    BY QueueFacts
  <2> HIDE DEF new, free, q0
  <2>4. PlacesOK' /\ Moves(blocked, {})
    BY <1>1, <1>2, <1>3, <2>1, <2>2, <2>3, QueueFacts, ServicePlaces
  <2>. QED
    BY <1>4, <2>4
<1>5. CASE blocked[M] # <<>>
  <2>1. /\ TakeNextIfRunning(P, q, st, TrapPC)
        /\ Housekeeping(zombies, priority, own, blk, total_blocked - 1)
    BY <1>1, <1>5
  <2>2. /\ h \in Held(blocked)
        /\ blk \in [Mutex -> Seq(Proc)] /\ Apart(blk) /\ Held(blk) = Held(blocked) \ {h}
        /\ q \in Seq(Proc) /\ Once(q)
        /\ Range(q) = Range(ready) \union Range(newQ) \union {h}
        /\ \A p \in Proc : st[p] = IF p \in {h} THEN "READY" ELSE state[p]
    BY <1>2, <1>5, HeirPlaces
  <2> HIDE DEF blk, h, q, st, own, free, new, q0
  <2>3. /\ Held(ioQ) \intersect Held(blk) = {} /\ Held(blk) \intersect Held(new) = {}
        /\ Held(ioQ) \intersect Held(new) = {} /\ {h} \in SUBSET Waiters
        /\ Held(ioQ) \union Held(blk) \union Held(new)
               = (Waiters \ {h}) \union (IF state[P] = "WAITING" THEN {P} ELSE {})
    BY <1>2, <1>3, <2>2, QueueFacts
  <2>4. PlacesOK' /\ Moves(blk, {})
    BY <1>1, <1>2, <1>3, <2>1, <2>2, <2>3, QueueFacts, ServicePlaces
  <2>. QED
    BY <1>5, <2>4 DEF blk
<1>. QED
  BY <1>4, <1>5

LEMMA SignalWakesPlaces ==
    ASSUME Inv, PlacesOK, SignalWakes
    PROVE  PlacesOK' /\ Moves([blocked EXCEPT ![M] = Append(@, Head(waiting[SignalCond(P)]))], {})
<1> DEFINE c     == SignalCond(P)
           woken == Head(waiting[c])
           new   == [waiting EXCEPT ![c] = Tail(@)]
           st    == [state EXCEPT ![woken] = "WAITING"]
           blk   == [blocked EXCEPT ![M] = Append(@, woken)]
           q     == ReadyAfterNew
<1>1. /\ Serve({"SIGNAL_RESOURCE_1"}) /\ newQ' = <<>> /\ ioQ' = ioQ /\ waiting' = new
      /\ waiting[c] # <<>>
      /\ KeepRunning(q, st, pc)
      /\ Housekeeping(zombies, priority, owner, blk, total_blocked + 1)
  BY DEF SignalWakes
<1>2. /\ svc # NoSvc /\ svc' = NoSvc /\ M \in Mutex /\ c \in Cond
      /\ state[P] \notin {"WAITING", "HALTED"}
  BY <1>1, ServedFacts
<1>3. woken \in Held(waiting) /\ Apart(new) /\ Held(new) = Held(waiting) \ {woken}
  <2>1. waiting \in [Cond -> Seq(Proc)] /\ Apart(waiting)
    BY QueueFacts
  <2>. HIDE DEF c
  <2>2. /\ woken \in Held(waiting)
        /\ Apart(waiting) => Apart(new) /\ Held(new) = Held(waiting) \ {woken}
    BY <1>1, <1>2, <2>1, HeldTail
  <2>. QED
    BY <2>1, <2>2
<1>4. woken \in Waiters /\ woken \in Proc /\ state[woken] = "WAITING"
  BY <1>3, QueueFacts, PlacesFacts
<1>5. /\ blk \in [Mutex -> Seq(Proc)] /\ Held(blk) = Held(blocked) \union {woken}
      /\ Apart(blk)
  <2> DEFINE m == M
  <2>1. /\ blocked \in [Mutex -> Seq(Proc)] /\ m \in Mutex /\ woken \notin Held(blocked)
        /\ Apart(blocked)
    BY <1>2, <1>3, QueueFacts
  <2> HIDE DEF m, woken
  <2>2. Family(blocked, Mutex, Proc) /\ blk = Joined(blocked, m, woken)
    BY <2>1 DEF Family, Joined, m
  <2> HIDE DEF blk
  <2>3. /\ Held(blk) = Held(blocked) \union {woken}
        /\ Apart(blocked) /\ woken \notin Held(blocked) => Apart(blk)
    BY <1>4, <2>1, <2>2, HeldAppend
  <2>4. blk \in [Mutex -> Seq(Proc)]
    BY <1>4, <2>1, <2>2, HeldAppend DEF Family
  <2>. QED
    BY <2>1, <2>3, <2>4
<1>6. /\ q \in Seq(Proc) /\ Once(q) /\ Range(q) = Range(ready) \union Range(newQ) \union {}
      /\ \A p \in Proc : st[p] = IF p \in {} THEN "READY" ELSE state[p]
  BY <1>4, QueueFacts DEF Inv, TypeOK
<1> HIDE DEF c, woken, new, st, blk, q
<1>7. /\ Held(ioQ) \intersect Held(blk) = {} /\ Held(ioQ) \intersect Held(new) = {}
      /\ Held(blk) \intersect Held(new) = {}
      /\ Held(ioQ) \union Held(blk) \union Held(new)
             = (Waiters \ {}) \union (IF state[P] = "WAITING" THEN {P} ELSE {})
  BY <1>2, <1>3, <1>4, <1>5, QueueFacts
<1>8. PlacesOK' /\ Moves(blk, {})
  BY <1>1, <1>2, <1>3, <1>5, <1>6, <1>7, QueueFacts, ServicePlaces
<1>. QED
  BY <1>8 DEF blk, woken, c

LEMMA NextPlaces ==
    ASSUME Inv, PlacesOK, [Next]_vars
    PROVE  PlacesOK'
<1>1. CASE Creation
  BY <1>1, CreationPlaces
<1>2. CASE SimulateProgramStep
  BY <1>2, NobodyMoves DEF SimulateProgramStep, lockVars
<1>3. CASE Interrupts
  <2>1. CASE NoTimerInterrupt
    BY <2>1, NobodyMoves DEF NoTimerInterrupt, cpuVars, pcbVars, lockVars
  <2>2. CASE NoIOInterrupt
    BY <2>2, NobodyMoves DEF NoIOInterrupt, cpuVars, pcbVars, lockVars
  <2>. QED
    BY <1>3, <2>1, <2>2, PseudoISRPlaces, IOInterruptPlaces, IOReturnPlaces DEF Interrupts
<1>4. CASE EnterService
  BY <1>4, EnterServicePlaces
<1>5. CASE FinishService
  <2>1. CASE LockGranted
    <3>1. Serve(LockOps) /\ state[P] # "WAITING" /\ NoScheduler
      BY <2>1 DEF LockGranted
    <3>. QED
      BY <3>1, ServedFacts, NoSchedulerPlaces DEF LockOps
  <2>2. CASE UnlockFree
    <3>1. Serve(UnlockOps) /\ NoScheduler
      BY <2>2 DEF UnlockFree
    <3>. QED
      BY <3>1, ServedFacts, NoSchedulerPlaces DEF UnlockOps
  <2>3. CASE SignalNobody
    <3>1. Serve({"SIGNAL_RESOURCE_1"}) /\ NoScheduler
      BY <2>3 DEF SignalNobody
    <3>. QED
      BY <3>1, ServedFacts, NoSchedulerPlaces
  <2>. QED
    BY <1>5, <2>1, <2>2, <2>3, FinishTerminationPlaces, FinishIOTrapPlaces, LockBlocksPlaces,
       UnlockHandsOverPlaces, WaitPlaces, SignalWakesPlaces DEF FinishService
<1>6. CASE UNCHANGED vars
  BY <1>6, NobodyMoves DEF vars, cpuVars, pcbVars, lockVars
<1>. QED
  BY <1>1, <1>2, <1>3, <1>4, <1>5, <1>6 DEF Next

-----------------------------------------------------------------------------
(***************************************************************************)
(* The theorems about places.                                              *)
(***************************************************************************)

\* The state of a process tells the queue it is in, no process is queued
\* twice, and the running process is in no queue, whatever nests in whatever.
THEOREM PlacesAreKept == Spec => []PlacesOK
<1>1. Init => PlacesOK
  BY InitPlaces
<1>2. Inv /\ PlacesOK /\ [Next]_vars => PlacesOK'
  BY NextPlaces
<1>. QED
  BY <1>1, <1>2, Invariance, PTL DEF Spec

\* The processes of a set of pairs: two each.
LEMMA PairMembers ==
    ASSUME NEW Q \in SUBSET Pairs, IsFiniteSet(Q)
    PROVE  /\ IsFiniteSet(UNION {Members(pair) : pair \in Q})
           /\ Cardinality(UNION {Members(pair) : pair \in Q}) = 2 * Cardinality(Q)
<1> DEFINE U == UNION {Members(pair) : pair \in Q}
           C == Q \X {1, 2}
           f == [x \in C |-> IF x[2] = 1 THEN x[1][1] ELSE x[1][2]]
<1>1. IsFiniteSet({1, 2}) /\ Cardinality({1, 2}) = 2
  <2>1. IsFiniteSet({1}) /\ Cardinality({1}) = 1
    BY FS_Singleton
  <2>2. {1, 2} = {1} \union {2} /\ 2 \notin {1}
    OBVIOUS
  <2>3. /\ IsFiniteSet({1} \union {2})
        /\ Cardinality({1} \union {2})
              = IF 2 \in {1} THEN Cardinality({1}) ELSE Cardinality({1}) + 1
    BY <2>1, FS_AddElement, Zenon
  <2>4. Cardinality({1, 2}) = Cardinality({1}) + 1
    BY <2>2, <2>3, Zenon
  <2>. QED
    BY <2>1, <2>2, <2>3, <2>4
<1>2. IsFiniteSet(C) /\ Cardinality(C) = 2 * Cardinality(Q)
  <2>1. IsFiniteSet(C) /\ Cardinality(C) = Cardinality(Q) * Cardinality({1, 2})
    BY <1>1, FS_Product
  <2>2. Cardinality(Q) \in Nat
    BY FS_CardinalityType
  <2>. QED
    BY <1>1, <2>1, <2>2
<1>3. \A u : u \in U <=> \E pair \in Q : u = pair[1] \/ u = pair[2]
  BY DEF Members
<1>4. f \in Surjection(C, U)
  <2>1. \A x \in C : x[1] \in Q /\ f[x] \in {x[1][1], x[1][2]}
    OBVIOUS
  <2>2. f \in [C -> U]
    BY <1>3, <2>1
  <2>3. \A pair \in Q : /\ <<pair, 1>> \in C /\ f[<<pair, 1>>] = pair[1]
                        /\ <<pair, 2>> \in C /\ f[<<pair, 2>>] = pair[2]
    OBVIOUS
  <2> HIDE DEF f, U
  <2>4. ASSUME NEW u \in U PROVE \E x \in C : f[x] = u
    <3>1. PICK pair \in Q : u = pair[1] \/ u = pair[2]
      BY <1>3
    <3> HIDE DEF C
    <3>. QED
      BY <2>3, <3>1
  <2>. QED
    BY <2>2, <2>4, Fun_IsSurj
<1>5. f \in Injection(C, U)
  <2>1. f \in [C -> U]
    BY <1>4 DEF Surjection
  <2>2. ASSUME NEW x \in C, NEW y \in C, f[x] = f[y]
        PROVE  x = y
    <3>1. /\ x[1] \in Pairs /\ y[1] \in Pairs /\ x[2] \in {1, 2} /\ y[2] \in {1, 2}
          /\ x = <<x[1], x[2]>> /\ y = <<y[1], y[2]>>
      OBVIOUS
    <3>2. f[x] = (IF x[2] = 1 THEN x[1][1] ELSE x[1][2])
          /\ f[y] = (IF y[2] = 1 THEN y[1][1] ELSE y[1][2])
      OBVIOUS
    <3> HIDE DEF f, C
    <3>3. f[x] \in Members(x[1]) /\ f[x] \in Members(y[1])
      BY <2>2, <3>2 DEF Members
    <3>4. x[1] = y[1]
      BY <3>1, <3>3, PairsDisjoint
    <3>5. x[1][1] # x[1][2]
      BY <3>1, PairsDisjoint
    <3>. QED
      BY <2>2, <3>1, <3>2, <3>4, <3>5
  <2>. QED
    BY <2>1, <2>2 DEF Injection, IsInjective
<1> HIDE DEF C, U, f
<1>. QED
  BY <1>2, <1>4, <1>5, FS_Surjection DEF U

LEMMA TwoFinite == \A a, b : IsFiniteSet({a, b})
<1> TAKE a, b
<1>1. IsFiniteSet({a})
  BY FS_Singleton
<1>2. IsFiniteSet({a} \union {b})
  BY <1>1, FS_AddElement
<1>3. {a} \union {b} = {a, b}
  OBVIOUS
<1>. QED
  BY <1>2, <1>3

LEMMA ProcFinite ==
    /\ IsFiniteSet(Proc) /\ IsFiniteSet(Mutex) /\ IsFiniteSet(Cond) /\ IsFiniteSet(Pairs)
    /\ IsFiniteSet(ResPairs) /\ IsFiniteSet(CPPairs)
<1>1. IsFiniteSet(ResPairs) /\ IsFiniteSet(CPPairs) /\ IsFiniteSet(Pairs)
  BY FiniteSystem, FS_Union DEF Pairs
<1>2. IsFiniteSet(CPProcs) /\ IsFiniteSet(ResProcs)
  BY <1>1, PairMembers DEF CPProcs, ResProcs, Pairs
<1>3. IsFiniteSet({Boot, Idle})
  BY TwoFinite
<1>4. IsFiniteSet(Proc)
  BY <1>2, <1>3, FiniteSystem, FS_Union DEF Proc
<1>5. IsFiniteSet({"mutex"}) /\ IsFiniteSet({"mutex_1", "mutex_2"})
      /\ IsFiniteSet({"produced", "consumed"})
  BY FS_Singleton, TwoFinite
<1>. QED
  BY <1>1, <1>4, <1>5, FS_Union, FS_Product DEF Mutex, Cond

\* Where a process is, as the numbers that PlaceCount adds up.
LEMMA PlaceCountIs ==
    ASSUME Inv, PlacesOK, NEW p \in Proc
    PROVE  PlaceCount(p) = IF \/ running = p \/ InService(p)
                              \/ p \in Range(newQ) \union Range(ready) \union Range(zombies)
                              \/ p \in Waiters
                           THEN 1 ELSE 0
<1> DEFINE one(b) == IF b THEN 1 ELSE 0
<1>1. /\ newQ \in Seq(Proc) /\ ready \in Seq(Proc) /\ zombies \in Seq(Proc)
      /\ Once(newQ) /\ Once(ready) /\ Once(zombies)
  BY DEF Inv, TypeOK, PlacesOK, QueuedOnce
<1>2. /\ Occurs(p, newQ) = one(p \in Range(newQ))
      /\ Occurs(p, ready) = one(p \in Range(ready))
      /\ Occurs(p, zombies) = one(p \in Range(zombies))
  BY <1>1, OccursOnce DEF Occurs
<1>3. /\ Cardinality(OccursIn(p, ioQ)) = one(p \in Held(ioQ))
      /\ Cardinality(OccursIn(p, blocked)) = one(p \in Held(blocked))
      /\ Cardinality(OccursIn(p, waiting)) = one(p \in Held(waiting))
  <2>1. \A D : \A qs \in [D -> Seq(Proc)] :
            Apart(qs) => Cardinality(OccursIn(p, qs)) = one(p \in Held(qs))
    BY ProcFinite, OccursInOnce DEF OccursIn
  <2>. QED
    BY <2>1, QueueFacts
<1>4. PlaceCount(p) = one(running = p) + one(InService(p)) + one(p \in Range(newQ))
                      + one(p \in Range(ready)) + one(p \in Range(zombies))
                      + one(p \in Held(ioQ)) + one(p \in Held(blocked)) + one(p \in Held(waiting))
  BY <1>2, <1>3 DEF PlaceCount
<1>5. InService(p) => svc # NoSvc /\ p = svc.proc /\ state[p] = "WAITING" /\ running # p
  BY ProcessesDistinct DEF InService, NoSvc
<1>6. /\ p \in Range(newQ) => state[p] = "NEW"
      /\ p \in Range(ready) => state[p] = "READY"
      /\ p \in Range(zombies) => state[p] = "HALTED" /\ running # p
      /\ p \in Waiters => state[p] = "WAITING" /\ running # p /\ ~InService(p)
      /\ running = p => state[p] \in {"RUNNING", "INTERRUPTED", "WAITING", "HALTED"}
  BY <1>5, PlacesFacts
<1>7. /\ p \in Waiters <=> p \in Held(ioQ) \/ p \in Held(blocked) \/ p \in Held(waiting)
      /\ ~(p \in Held(ioQ) /\ p \in Held(blocked))
      /\ ~(p \in Held(ioQ) /\ p \in Held(waiting))
      /\ ~(p \in Held(blocked) /\ p \in Held(waiting))
  BY QueueFacts
<1>. QED
  BY <1>4, <1>5, <1>6, <1>7

\* No process is in two places at once.
THEOREM OnePlace == Spec => []AtMostOnePlace
<1>1. Inv /\ PlacesOK => AtMostOnePlace
  BY PlaceCountIs DEF AtMostOnePlace
<1>. QED
  BY <1>1, Invariance, PlacesAreKept, PTL

-----------------------------------------------------------------------------
(***************************************************************************)
(* What a step does to the locks, apart from creation: a service routine   *)
(* changes the owners and the blocked queues from owner and blocked to own *)
(* and blk, and housekeeping takes away those of the destructed pairs.     *)
(***************************************************************************)
Destructs(own, blk, tb) ==
    \E dead \in SUBSET Deadlocked(own, blk) :
        /\ pairs' = pairs \ dead
        /\ owner' = [m \in Mutex |-> IF m[1] \in dead THEN NoProc ELSE own[m]]
        /\ blocked' = [m \in Mutex |-> IF m[1] \in dead THEN <<>> ELSE blk[m]]
        /\ total_blocked' = tb - 2 * Cardinality(dead)

SameLocks == \/ CreationDone \/ SimulateProgramStep \/ Interrupts \/ EnterService
             \/ FinishTermination \/ FinishIOTrap \/ SignalNobody \/ UNCHANGED vars

LockStep(own, blk, tb) ==
    \/ /\ SameLocks
       /\ own = owner /\ blk = blocked /\ tb = total_blocked
       /\ UNCHANGED <<waiting, total_waiting>>
    \/ /\ LockGranted
       /\ own = [owner EXCEPT ![M] = P] /\ blk = blocked /\ tb = total_blocked
       /\ UNCHANGED <<waiting, total_waiting>>
    \/ /\ LockBlocks
       /\ own = owner /\ blk = [blocked EXCEPT ![M] = Append(@, P)] /\ tb = total_blocked + 1
       /\ UNCHANGED <<waiting, total_waiting>>
    \/ /\ UnlockFree /\ blocked[M] = <<>>
       /\ own = [owner EXCEPT ![M] = NoProc] /\ blk = blocked /\ tb = total_blocked
       /\ UNCHANGED <<waiting, total_waiting>>
    \/ /\ UnlockHandsOver /\ blocked[M] # <<>>
       /\ own = [owner EXCEPT ![M] = Heir] /\ blk = [blocked EXCEPT ![M] = Tail(@)]
       /\ tb = total_blocked - 1
       /\ UNCHANGED <<waiting, total_waiting>>
    \/ /\ Wait /\ blocked[M] = <<>>
       /\ own = [owner EXCEPT ![M] = NoProc] /\ blk = blocked /\ tb = total_blocked
       /\ waiting' = [waiting EXCEPT ![WaitCond(P)] = Append(@, P)]
       /\ total_waiting' = total_waiting + 1
    \/ /\ Wait /\ blocked[M] # <<>>
       /\ own = [owner EXCEPT ![M] = Heir] /\ blk = [blocked EXCEPT ![M] = Tail(@)]
       /\ tb = total_blocked - 1
       /\ waiting' = [waiting EXCEPT ![WaitCond(P)] = Append(@, P)]
       /\ total_waiting' = total_waiting + 1
    \/ /\ SignalWakes /\ waiting[SignalCond(P)] # <<>>
       /\ own = owner /\ tb = total_blocked + 1
       /\ blk = [blocked EXCEPT ![M] = Append(@, Head(waiting[SignalCond(P)]))]
       /\ waiting' = [waiting EXCEPT ![SignalCond(P)] = Tail(@)]
       /\ total_waiting' = total_waiting - 1

LEMMA HousekeepingDestructs ==
    ASSUME NEW z, NEW pr, NEW own, NEW blk, NEW tb, Housekeeping(z, pr, own, blk, tb)
    PROVE  Destructs(own, blk, tb)
<1> DEFINE dead == IF resetDue THEN Deadlocked(own, blk) ELSE {}
<1>1. /\ pairs' = pairs \ dead
      /\ owner' = [m \in Mutex |-> IF m[1] \in dead THEN NoProc ELSE own[m]]
      /\ blocked' = [m \in Mutex |-> IF m[1] \in dead THEN <<>> ELSE blk[m]]
      /\ total_blocked' = tb - 2 * Cardinality(dead)
  BY DEF Housekeeping
<1>2. dead \in SUBSET Deadlocked(own, blk)
  OBVIOUS
<1> HIDE DEF dead
<1>. QED
  BY <1>1, <1>2 DEF Destructs

LEMMA NothingDestructed ==
    ASSUME TypeOK, NEW own, own = [m \in Mutex |-> own[m]], owner' = own,
           UNCHANGED <<blocked, pairs, total_blocked>>
    PROVE  Destructs(own, blocked, total_blocked)
<1> DEFINE dead == {}
<1>1. Cardinality(dead) = 0
  BY FS_EmptySet
<1>2. blocked = [m \in Mutex |-> blocked[m]] /\ total_blocked \in Int
  BY DEF TypeOK
<1>3. /\ pairs' = pairs \ dead
      /\ owner' = [m \in Mutex |-> IF m[1] \in dead THEN NoProc ELSE own[m]]
      /\ blocked' = [m \in Mutex |-> IF m[1] \in dead THEN <<>> ELSE blocked[m]]
      /\ total_blocked' = total_blocked - 2 * Cardinality(dead)
      /\ dead \in SUBSET Deadlocked(own, blocked)
  BY <1>1, <1>2
<1> HIDE DEF dead
<1>. QED
  BY <1>3 DEF Destructs

-----------------------------------------------------------------------------
(***************************************************************************)
(* Every step other than creation, seen this way.                          *)
(***************************************************************************)
Lost == IF LateTermination THEN {running} ELSE {}

StepSeen == \E own, blk, tb : LockStep(own, blk, tb) /\ Destructs(own, blk, tb)
                                /\ Moves(blk, Lost)

LEMMA MoreLost ==
    ASSUME NEW blk, Moves(blk, {})
    PROVE  Moves(blk, Lost)
BY DEF Moves

\* A step that changes neither a queue nor a lock.
LEMMA QuietStep ==
    ASSUME Inv, PlacesOK, SameLocks, UNCHANGED <<running, qVars, lockVars>>,
           \A p \in Proc \ {running} : state'[p] = state[p],
           state'[running] \in {"RUNNING", "INTERRUPTED", "WAITING", "HALTED"},
           state'[running] = state[running] \/ state[running] \in {"RUNNING", "INTERRUPTED"},
           svc' = svc \/ (svc = NoSvc /\ svc'.proc = running)
              \/ (svc' = NoSvc /\ state[svc.proc] # "WAITING")
    PROVE  StepSeen
<1>1. UNCHANGED <<owner, blocked, waiting, pairs, total_blocked, total_waiting>>
  BY DEF lockVars
<1>2. Moves(blocked, Lost)
  BY <1>1, NoQueueMoves, MoreLost
<1>3. owner = [m \in Mutex |-> owner[m]] /\ TypeOK
  BY DEF Inv, TypeOK
<1>4. Destructs(owner, blocked, total_blocked)
  BY <1>1, <1>3, NothingDestructed
<1>5. LockStep(owner, blocked, total_blocked)
  BY <1>1 DEF LockStep
<1>. QED
  BY <1>2, <1>4, <1>5 DEF StepSeen

LEMMA EnterServiceSeen ==
    ASSUME Inv, PlacesOK, EnterService
    PROVE  StepSeen
<1>1. SameLocks
  BY DEF SameLocks
<1>2. running \in Proc /\ state \in [Proc -> ProcessStates]
  BY DEF Inv, TypeOK
<1>3. at = "trap"
  BY DEF EnterService, NoTrap, EnterTermination, EnterIOTrap, EnterLock, EnterUnlock,
         EnterWait, EnterSignal, EnterTSR
<1>4. svc = NoSvc /\ running # svc.proc
  BY <1>2, <1>3, ProcessesDistinct DEF Inv, ControlOK, NoSvc
<1>5. state[running] \in {"RUNNING", "INTERRUPTED"}
  BY <1>4, PlacesFacts
<1>6. CASE NoTrap
  BY <1>1, <1>2, <1>5, <1>6, QuietStep DEF NoTrap, cpuVars
<1>7. ASSUME NEW ops, NEW st \in {"RUNNING", "INTERRUPTED", "WAITING", "HALTED"},
             EnterTSR(ops, st)
      PROVE  StepSeen
  <2>1. /\ state' = [state EXCEPT ![running] = st] /\ svc'.proc = running
        /\ UNCHANGED <<running, qVars, lockVars>>
    BY <1>7 DEF EnterTSR, cpuVars
  <2>2. state'[running] = st /\ \A p \in Proc \ {running} : state'[p] = state[p]
    BY <1>2, <2>1
  <2>. QED
    BY <1>1, <1>4, <1>5, <1>7, <2>1, <2>2, QuietStep
<1>8. CASE EnterLock
  <2> DEFINE st == IF owner[MutexOf(running, Requested)] \in {NoProc, running}
                   THEN "INTERRUPTED" ELSE "WAITING"
  <2>1. EnterTSR(LockOps, st)
    BY <1>8 DEF EnterLock
  <2>2. st \in {"RUNNING", "INTERRUPTED", "WAITING", "HALTED"}
    OBVIOUS
  <2> HIDE DEF st
  <2>. QED
    BY <1>7, <2>1, <2>2
<1>9. CASE EnterSignal
  <2>1. EnterTSR({"SIGNAL_RESOURCE_1"}, state[running])
    BY <1>9 DEF EnterSignal
  <2>. QED
    BY <1>5, <1>7, <2>1
<1>. QED
  BY <1>6, <1>7, <1>8, <1>9
     DEF EnterService, EnterTermination, EnterIOTrap, EnterUnlock, EnterWait

LEMMA NoSchedulerSeen ==
    ASSUME Inv, PlacesOK, LockGranted \/ UnlockFree \/ SignalNobody
    PROVE  StepSeen
<1>1. /\ svc # NoSvc /\ svc' = NoSvc /\ state[svc.proc] \notin {"WAITING", "HALTED"}
      /\ NoScheduler /\ M \in Mutex
  <2>1. CASE LockGranted
    <3>1. Serve(LockOps) /\ state[P] # "WAITING" /\ NoScheduler
      BY <2>1 DEF LockGranted
    <3>. QED
      BY <3>1, ServedFacts DEF LockOps, P
  <2>2. CASE UnlockFree
    <3>1. Serve(UnlockOps) /\ NoScheduler
      BY <2>2 DEF UnlockFree
    <3>. QED
      BY <3>1, ServedFacts DEF UnlockOps, P
  <2>3. CASE SignalNobody
    <3>1. Serve({"SIGNAL_RESOURCE_1"}) /\ NoScheduler
      BY <2>3 DEF SignalNobody
    <3>. QED
      BY <3>1, ServedFacts DEF P
  <2>. QED
    BY <2>1, <2>2, <2>3
<1>2. /\ UNCHANGED <<running, state, qVars, blocked, waiting, pairs, total_blocked,
                     total_waiting>>
  BY <1>1 DEF NoScheduler
<1>3. Moves(blocked, Lost)
  <2>1. state[running] \in {"RUNNING", "INTERRUPTED", "WAITING", "HALTED"}
    BY PlacesFacts
  <2>2. Moves(blocked, {})
    BY <1>1, <1>2, <2>1, NoQueueMoves
  <2>. QED
    BY <2>2, MoreLost
<1>4. TypeOK /\ owner \in [Mutex -> Proc \union {NoProc}]
  BY DEF Inv, TypeOK
<1>5. ASSUME NEW own, own = [m \in Mutex |-> own[m]], owner' = own,
             LockStep(own, blocked, total_blocked)
      PROVE  StepSeen
  BY <1>2, <1>3, <1>4, <1>5, NothingDestructed DEF StepSeen
<1>6. CASE LockGranted
  <2> DEFINE own == [owner EXCEPT ![M] = P]
  <2>1. owner' = own /\ own = [m \in Mutex |-> own[m]]
    BY <1>4, <1>6 DEF LockGranted
  <2>2. LockStep(own, blocked, total_blocked)
    BY <1>2, <1>6 DEF LockStep
  <2> HIDE DEF own
  <2>. QED
    BY <1>5, <2>1, <2>2
<1>7. CASE UnlockFree
  <2> DEFINE own == [owner EXCEPT ![M] = NoProc]
  <2>1. owner' = own /\ own = [m \in Mutex |-> own[m]] /\ blocked[M] = <<>>
    BY <1>4, <1>7 DEF UnlockFree
  <2>2. LockStep(own, blocked, total_blocked)
    BY <1>2, <1>7, <2>1 DEF LockStep
  <2> HIDE DEF own
  <2>. QED
    BY <1>5, <2>1, <2>2
<1>8. CASE SignalNobody
  <2>1. owner' = owner /\ owner = [m \in Mutex |-> owner[m]]
    BY <1>4, <1>8 DEF SignalNobody
  <2>2. LockStep(owner, blocked, total_blocked)
    BY <1>2, <1>8 DEF LockStep, SameLocks
  <2>. QED
    BY <1>5, <2>1, <2>2
<1>. QED
  BY <1>6, <1>7, <1>8

\* The steps that end with housekeeping.
LEMMA ServiceSeen ==
    ASSUME Inv, PlacesOK, NEW z, NEW pr, NEW own, NEW blk, NEW tb,
           Housekeeping(z, pr, own, blk, tb), LockStep(own, blk, tb), Moves(blk, {})
    PROVE  StepSeen
BY HousekeepingDestructs, MoreLost DEF StepSeen

LEMMA StepIsSeen ==
    ASSUME Inv, PlacesOK, [Next]_vars,
           ~CreateIOProcess, ~CreateComputeIntensiveProcess,
           ~CreateConsumerProducerPair, ~CreateSharedResourcePair
    PROVE  StepSeen
<1>1. /\ running \in Proc /\ state \in [Proc -> ProcessStates]
      /\ state[running] \in {"RUNNING", "INTERRUPTED", "WAITING", "HALTED"}
  BY PlacesFacts DEF Inv, TypeOK
<1>2. CASE CreationDone \/ SimulateProgramStep \/ NoTimerInterrupt \/ NoIOInterrupt
           \/ UNCHANGED vars
  <2>1. SameLocks
    BY <1>2 DEF SameLocks, Interrupts
  <2>2. UNCHANGED <<running, qVars, lockVars, state, svc>>
    BY <1>2 DEF CreationDone, SimulateProgramStep, NoTimerInterrupt, NoIOInterrupt, vars,
                cpuVars, pcbVars
  <2>. QED
    BY <1>1, <2>1, <2>2, QuietStep
<1>3. ASSUME NEW d \in Dev, IOInterrupt(d) PROVE StepSeen
  <2>1. SameLocks
    BY <1>3 DEF SameLocks, Interrupts
  <2>2. /\ state' = [state EXCEPT ![running] = IF @ = "RUNNING" THEN "INTERRUPTED" ELSE @]
        /\ UNCHANGED <<running, qVars, lockVars, svc>>
    BY <1>3 DEF IOInterrupt, cpuVars
  <2>3. /\ state'[running] = IF state[running] = "RUNNING" THEN "INTERRUPTED" ELSE state[running]
        /\ \A p \in Proc \ {running} : state'[p] = state[p]
    BY <1>1, <2>2
  <2>. QED
    BY <1>1, <2>1, <2>2, <2>3, QuietStep
<1>4. CASE PseudoISR
  <2>1. SameLocks /\ UNCHANGED <<waiting, total_waiting>>
    BY <1>4 DEF SameLocks, Interrupts, PseudoISR, Dispatcher
  <2>2. LockStep(owner, blocked, total_blocked)
    BY <2>1 DEF LockStep
  <2>3. \E z, pr : Housekeeping(z, pr, owner, blocked, total_blocked)
    BY <1>4 DEF PseudoISR, Dispatcher
  <2>. QED
    BY <1>4, <2>2, <2>3, PseudoISRPlaces, ServiceSeen
<1>5. CASE FinishTermination
  <2>1. SameLocks /\ UNCHANGED <<waiting, total_waiting>>
    BY <1>5 DEF SameLocks, FinishTermination, Dispatcher
  <2>2. LockStep(owner, blocked, total_blocked)
    BY <2>1 DEF LockStep
  <2>3. \E z, pr : Housekeeping(z, pr, owner, blocked, total_blocked)
    BY <1>5 DEF FinishTermination, Dispatcher
  <2>4. Moves(blocked, Lost)
    BY <1>5, FinishTerminationPlaces DEF Lost
  <2>. QED
    BY <2>2, <2>3, <2>4, HousekeepingDestructs DEF StepSeen
<1>6. CASE IOReturn
  <2>1. SameLocks /\ UNCHANGED <<waiting, total_waiting>>
    BY <1>6 DEF SameLocks, Interrupts, IOReturn
  <2>2. LockStep(owner, blocked, total_blocked)
    BY <2>1 DEF LockStep
  <2>3. Housekeeping(zombies, priority, owner, blocked, total_blocked)
    BY <1>6 DEF IOReturn
  <2>. QED
    BY <1>6, <2>2, <2>3, IOReturnPlaces, ServiceSeen
<1>7. CASE FinishIOTrap
  <2>1. SameLocks /\ UNCHANGED <<waiting, total_waiting>>
    BY <1>7 DEF SameLocks, FinishIOTrap
  <2>2. LockStep(owner, blocked, total_blocked)
    BY <2>1 DEF LockStep
  <2>3. Housekeeping(zombies, priority, owner, blocked, total_blocked)
    BY <1>7 DEF FinishIOTrap
  <2>. QED
    BY <1>7, <2>2, <2>3, FinishIOTrapPlaces, ServiceSeen
<1>8. CASE LockBlocks
  <2> DEFINE blk == [blocked EXCEPT ![M] = Append(@, P)]
  <2>1. Housekeeping(zombies, priority, owner, blk, total_blocked + 1)
        /\ UNCHANGED <<waiting, total_waiting>>
    BY <1>8 DEF LockBlocks
  <2>2. LockStep(owner, blk, total_blocked + 1)
    BY <1>8, <2>1 DEF LockStep
  <2>3. Moves(blk, {})
    BY <1>8, LockBlocksPlaces
  <2> HIDE DEF blk
  <2>. QED
    BY <2>1, <2>2, <2>3, ServiceSeen
<1>9. CASE UnlockHandsOver
  <2> DEFINE blk == [blocked EXCEPT ![M] = Tail(@)]
             own == [owner EXCEPT ![M] = Heir]
  <2>1. /\ Housekeeping(zombies, priority, own, blk, total_blocked - 1)
        /\ UNCHANGED <<waiting, total_waiting>> /\ blocked[M] # <<>>
    BY <1>9 DEF UnlockHandsOver, HandOver
  <2>2. LockStep(own, blk, total_blocked - 1)
    BY <1>9, <2>1 DEF LockStep
  <2>3. Moves(blk, {})
    BY <1>9, UnlockHandsOverPlaces
  <2> HIDE DEF blk, own
  <2>. QED
    BY <2>1, <2>2, <2>3, ServiceSeen
<1>10. CASE Wait
  <2> DEFINE blk  == [blocked EXCEPT ![M] = Tail(@)]
             own  == [owner EXCEPT ![M] = Heir]
             free == [owner EXCEPT ![M] = NoProc]
  <2>1. /\ waiting' = [waiting EXCEPT ![WaitCond(P)] = Append(@, P)]
        /\ total_waiting' = total_waiting + 1
        /\ \/ /\ blocked[M] = <<>>
              /\ Housekeeping(zombies, priority, free, blocked, total_blocked)
           \/ /\ blocked[M] # <<>>
              /\ Housekeeping(zombies, priority, own, blk, total_blocked - 1)
    BY <1>10 DEF Wait, HandOver
  <2>2. CASE blocked[M] = <<>>
    <3>1. LockStep(free, blocked, total_blocked)
      BY <1>10, <2>1, <2>2 DEF LockStep
    <3>2. Moves(blocked, {})
      BY <1>10, <2>2, WaitPlaces
    <3> HIDE DEF free
    <3>. QED
      BY <2>1, <2>2, <3>1, <3>2, ServiceSeen
  <2>3. CASE blocked[M] # <<>>
    <3>1. LockStep(own, blk, total_blocked - 1)
      BY <1>10, <2>1, <2>3 DEF LockStep
    <3>2. Moves(blk, {})
      BY <1>10, <2>3, WaitPlaces
    <3> HIDE DEF own, blk
    <3>. QED
      BY <2>1, <2>3, <3>1, <3>2, ServiceSeen
  <2>. QED
    BY <2>2, <2>3
<1>11. CASE SignalWakes
  <2> DEFINE blk == [blocked EXCEPT ![M] = Append(@, Head(waiting[SignalCond(P)]))]
  <2>1. Housekeeping(zombies, priority, owner, blk, total_blocked + 1)
    BY <1>11 DEF SignalWakes
  <2>2. LockStep(owner, blk, total_blocked + 1)
    BY <1>11 DEF LockStep, SignalWakes
  <2>3. Moves(blk, {})
    BY <1>11, SignalWakesPlaces
  <2> HIDE DEF blk
  <2>. QED
    BY <2>1, <2>2, <2>3, ServiceSeen
<1>. QED
  BY <1>2, <1>3, <1>4, <1>5, <1>6, <1>7, <1>8, <1>9, <1>10, <1>11, EnterServiceSeen,
     NoSchedulerSeen DEF Next, Creation, Interrupts, FinishService

-----------------------------------------------------------------------------
(***************************************************************************)
(* Whom the locks of a pair know of.                                       *)
(***************************************************************************)

\* The mutex and the conditions of a service are those of the process's pair.
LEMMA ServedPair ==
    ASSUME NEW p, NEW op, ServiceExists(p, op),
           op \in LockOps \union UnlockOps \union {"WAIT_RESOURCE_1", "SIGNAL_RESOURCE_1"}
    PROVE  /\ MutexOf(p, op) \in Mutex /\ p \in Members(MutexOf(p, op)[1])
           /\ MutexOf(p, op)[1] = PairOf(p) /\ PairOf(p) \in Pairs
           /\ WaitCond(p)[1] = PairOf(p) /\ SignalCond(p)[1] = PairOf(p)
<1>1. p \in CPProcs \union ResProcs
  BY DEF ServiceExists, LockOps, UnlockOps, IOTraps
<1>2. PairOf(p) \in Pairs /\ p \in Members(PairOf(p))
  BY <1>1, PairOfCP, PairOfRes DEF Pairs
<1>3. MutexOf(p, op)[1] = PairOf(p)
  BY DEF MutexOf
<1>4. WaitCond(p)[1] = PairOf(p) /\ SignalCond(p)[1] = PairOf(p)
  BY DEF WaitCond, SignalCond
<1>. QED
  BY <1>1, <1>2, <1>3, <1>4, ServiceObjects

LEMMA SyncServed ==
    ASSUME Inv, PlacesOK, NEW ops, Serve(ops),
           ops \subseteq LockOps \union UnlockOps \union {"WAIT_RESOURCE_1", "SIGNAL_RESOURCE_1"}
    PROVE  /\ P \in Proc /\ P \notin Waiters /\ M \in Mutex /\ svc.op \in ops /\ svc' = NoSvc
           /\ P \in Members(M[1]) /\ M[1] = PairOf(P) /\ PairOf(P) \in Pairs
           /\ WaitCond(P)[1] = PairOf(P) /\ SignalCond(P)[1] = PairOf(P)
           /\ svc.op \in {"WAIT_RESOURCE_1", "SIGNAL_RESOURCE_1"}
                 => WaitCond(P) \in Cond /\ SignalCond(P) \in Cond
<1>1. svc # NoSvc /\ svc.op \in ops
  BY ServedFacts
<1>2. ServiceExists(svc.proc, svc.op)
  BY <1>1 DEF Inv, ControlOK
<1>. QED
  BY <1>1, <1>2, ServedFacts, ServedPair DEF P, M

\* Two pairs have no process in common.
LEMMA OnlyPair ==
    ASSUME NEW a \in Pairs, NEW b \in Pairs, NEW p \in Members(a), p \in Members(b)
    PROVE  a = b
BY PairsDisjoint

LEMMA MutexPair ==
    /\ \A m \in Mutex : m[1] \in Pairs /\ m = <<m[1], m[2]>>
    /\ \A c \in Cond : c[1] \in Pairs
    /\ \A pair \in ResPairs : /\ <<pair, "mutex_1">> \in Mutex /\ <<pair, "mutex_2">> \in Mutex
                              /\ PairMutexes(pair) \subseteq Mutex
                              /\ \A m \in Mutex : m[1] = pair <=> m \in PairMutexes(pair)
<1>1. \A m \in Mutex : m[1] \in Pairs /\ m = <<m[1], m[2]>>
  BY DEF Mutex, Pairs
<1>2. ASSUME NEW pair \in ResPairs
      PROVE  /\ <<pair, "mutex_1">> \in Mutex /\ <<pair, "mutex_2">> \in Mutex
             /\ PairMutexes(pair) \subseteq Mutex
             /\ \A m \in PairMutexes(pair) : m[1] = pair
  BY DEF Mutex, PairMutexes
<1>3. CPPairs \intersect ResPairs = {}
  BY ProcessesDistinct DEF CPProcs, ResProcs, Members
<1>4. ASSUME NEW pair \in ResPairs, NEW m \in Mutex, m[1] = pair
      PROVE  m \in PairMutexes(pair)
  BY <1>3, <1>4 DEF Mutex, PairMutexes
<1>5. \A c \in Cond : c[1] \in Pairs
  BY DEF Cond, Pairs
<1>. QED
  BY <1>1, <1>2, <1>4, <1>5

\* A queue of a pair that one of its processes joins, or that its head leaves.
LEMMA OwnJoined ==
    ASSUME NEW D, NEW qs \in [D -> Seq(Proc)], NEW a \in D, NEW p \in Proc, p \in Members(a[1]),
           \A b \in D : Range(qs[b]) \subseteq Members(b[1])
    PROVE  \A b \in D : Range([qs EXCEPT ![a] = Append(@, p)][b]) \subseteq Members(b[1])
<1> DEFINE new == [qs EXCEPT ![a] = Append(@, p)]
<1>1. new[a] = Append(qs[a], p) /\ \A b \in D \ {a} : new[b] = qs[b]
  OBVIOUS
<1>2. Range(new[a]) = Range(qs[a]) \union {p}
  <2>1. qs[a] \in Seq(Proc)
    OBVIOUS
  <2>. QED
    BY <1>1, <2>1, AppendOnce
<1> HIDE DEF new
<1>3. \A b \in D : Range(new[b]) \subseteq Members(b[1])
  BY <1>1, <1>2
<1>. QED
  BY <1>3 DEF new

LEMMA OwnTail ==
    ASSUME NEW D, NEW qs \in [D -> Seq(Proc)], NEW a \in D, qs[a] # <<>>,
           \A b \in D : Range(qs[b]) \subseteq Members(b[1])
    PROVE  /\ Head(qs[a]) \in Members(a[1])
           /\ \A b \in D : Range([qs EXCEPT ![a] = Tail(@)][b]) \subseteq Members(b[1])
<1>1. /\ Head(qs[a]) \in Range(qs[a])
      /\ \A b \in D : Range([qs EXCEPT ![a] = Tail(@)][b]) \subseteq Range(qs[b])
  BY HeldTail
<1>. QED
  BY <1>1

\* The services use the locks for members of the pair alone.
LEMMA OwnLockStep ==
    ASSUME Inv, PlacesOK, OwnLocksOnly(owner, blocked, waiting),
           NEW own, NEW blk, NEW tb, LockStep(own, blk, tb)
    PROVE  OwnLocksOnly(own, blk, waiting')
<1> DEFINE p == P
           m == M
           c == WaitCond(P)
           s == SignalCond(P)
           w == Head(waiting[s])
<1>1. /\ blocked \in [Mutex -> Seq(Proc)] /\ waiting \in [Cond -> Seq(Proc)]
      /\ owner \in [Mutex -> Proc \union {NoProc}]
      /\ \A x \in Mutex : Range(blocked[x]) \subseteq Members(x[1])
      /\ \A x \in Mutex : owner[x] \in Members(x[1]) \union {NoProc}
      /\ \A x \in Cond : Range(waiting[x]) \subseteq Members(x[1])
  BY DEF Inv, TypeOK, OwnLocksOnly
<1>2. CASE LockGranted \/ LockBlocks \/ UnlockFree \/ UnlockHandsOver \/ Wait \/ SignalWakes
  <2>1. /\ p \in Proc /\ m \in Mutex /\ p \in Members(m[1])
        /\ Wait \/ SignalWakes => /\ c \in Cond /\ s \in Cond /\ p \in Members(c[1])
                                  /\ Members(s[1]) = Members(m[1])
    <3>0. LockGranted \/ LockBlocks \/ UnlockFree \/ UnlockHandsOver => ~Wait /\ ~SignalWakes
      BY DEF LockGranted, LockBlocks, UnlockFree, UnlockHandsOver, Wait, SignalWakes, Serve,
             LockOps, UnlockOps
    <3>1. CASE LockGranted \/ LockBlocks
      <4>1. Serve(LockOps)
        BY <3>1 DEF LockGranted, LockBlocks
      <4>. QED
        BY <3>1, <3>0, <4>1, SyncServed
    <3>2. CASE UnlockFree \/ UnlockHandsOver
      <4>1. Serve(UnlockOps)
        BY <3>2 DEF UnlockFree, UnlockHandsOver
      <4>. QED
        BY <3>2, <3>0, <4>1, SyncServed
    <3>3. CASE Wait
      BY <3>3, SyncServed DEF Wait
    <3>4. CASE SignalWakes
      BY <3>4, SyncServed DEF SignalWakes
    <3>. QED
      BY <1>2, <3>1, <3>2, <3>3, <3>4, <3>0
  <2> HIDE DEF p, m, c, s
  <2>2. \A x \in Mutex : Range([blocked EXCEPT ![m] = Append(@, p)][x]) \subseteq Members(x[1])
    BY <1>1, <2>1, OwnJoined
  <2>3. blocked[m] # <<>> =>
           /\ Head(blocked[m]) \in Members(m[1])
           /\ \A x \in Mutex : Range([blocked EXCEPT ![m] = Tail(@)][x]) \subseteq Members(x[1])
    BY <1>1, <2>1, OwnTail
  <2>4. Wait => \A x \in Cond : Range([waiting EXCEPT ![c] = Append(@, p)][x]) \subseteq Members(x[1])
    BY <1>1, <2>1, OwnJoined
  <2>5. SignalWakes /\ waiting[s] # <<>> =>
           /\ w \in Members(s[1]) /\ w \in Proc
           /\ \A x \in Cond : Range([waiting EXCEPT ![s] = Tail(@)][x]) \subseteq Members(x[1])
    BY <1>1, <2>1, OwnTail, TailOnce
  <2> HIDE DEF w
  <2>6. SignalWakes /\ waiting[s] # <<>> =>
           \A x \in Mutex : Range([blocked EXCEPT ![m] = Append(@, w)][x]) \subseteq Members(x[1])
    BY <1>1, <2>1, <2>5, OwnJoined
  <2>7. \A x \in Members(m[1]) \union {NoProc} : \A y \in Mutex :
           [owner EXCEPT ![m] = x][y] \in Members(y[1]) \union {NoProc}
    BY <1>1, <2>1
  <2>8. \/ SameLocks /\ own = owner /\ blk = blocked /\ waiting' = waiting
        \/ own = [owner EXCEPT ![m] = p] /\ blk = blocked /\ waiting' = waiting
        \/ own = owner /\ blk = [blocked EXCEPT ![m] = Append(@, p)] /\ waiting' = waiting
        \/ own = [owner EXCEPT ![m] = NoProc] /\ blk = blocked /\ waiting' = waiting
        \/ /\ blocked[m] # <<>> /\ own = [owner EXCEPT ![m] = Head(blocked[m])]
           /\ blk = [blocked EXCEPT ![m] = Tail(@)] /\ waiting' = waiting
        \/ /\ Wait /\ waiting' = [waiting EXCEPT ![c] = Append(@, p)]
           /\ own = [owner EXCEPT ![m] = NoProc] /\ blk = blocked
        \/ /\ Wait /\ waiting' = [waiting EXCEPT ![c] = Append(@, p)]
           /\ blocked[m] # <<>> /\ own = [owner EXCEPT ![m] = Head(blocked[m])]
           /\ blk = [blocked EXCEPT ![m] = Tail(@)]
        \/ /\ SignalWakes /\ waiting[s] # <<>> /\ waiting' = [waiting EXCEPT ![s] = Tail(@)]
           /\ own = owner /\ blk = [blocked EXCEPT ![m] = Append(@, w)]
    BY DEF LockStep, Heir, p, m, c, s, w
  <2>. QED
    BY <1>1, <2>1, <2>2, <2>3, <2>4, <2>5, <2>6, <2>7, <2>8 DEF OwnLocksOnly
<1>3. CASE own = owner /\ blk = blocked /\ waiting' = waiting
  BY <1>1, <1>3 DEF OwnLocksOnly
<1>. QED
  BY <1>2, <1>3 DEF LockStep

-----------------------------------------------------------------------------
(***************************************************************************)
(* The four edges of a deadlocked pair.                                    *)
(***************************************************************************)

\* Both processes of a pair with four edges are blocked.
LEMMA FourEdgesBlocked ==
    ASSUME NEW pair \in ResPairs, NEW own, NEW blk, DOMAIN blk = Mutex, Apart(blk),
           EdgeCount(pair, own, blk) = 4
    PROVE  \A p \in Members(pair) : \E m \in PairMutexes(pair) : p \in Range(blk[m])
<1> DEFINE m1 == <<pair, "mutex_1">>
           m2 == <<pair, "mutex_2">>
           p  == pair[1]
           q  == pair[2]
           E(m, x) == (IF own[m] = x THEN 1 ELSE 0) + (IF x \in Range(blk[m]) THEN 1 ELSE 0)
<1>1. p # q /\ m1 # m2 /\ m1 \in Mutex /\ m2 \in Mutex
  BY PairsDisjoint, MutexPair DEF Pairs
<1>2. Range(blk[m1]) \intersect Range(blk[m2]) = {}
  BY <1>1 DEF Apart
<1>3. E(m1, p) + E(m1, q) + E(m2, p) + E(m2, q) = 4
  BY PairsDisjoint, EdgeCountIs DEF Pairs
<1>4. PairMutexes(pair) = {m1, m2} /\ Members(pair) = {p, q}
  BY DEF PairMutexes, Members
<1> HIDE DEF m1, m2, p, q
<1>5. /\ p \in Range(blk[m1]) \/ p \in Range(blk[m2])
      /\ q \in Range(blk[m1]) \/ q \in Range(blk[m2])
  BY <1>1, <1>2, <1>3
<1>. QED
  BY <1>4, <1>5

-----------------------------------------------------------------------------
(***************************************************************************)
(* PairsOK is inductive.                                                   *)
(***************************************************************************)

\* The destructed pairs leave nothing in the queues: both processes were
\* blocked on mutexes of the pair.
LEMMA DestructedNowhere ==
    ASSUME PlacesOK', NEW own, NEW blk, NEW tb, NEW lost, DOMAIN blk = Mutex,
           Destructs(own, blk, tb), Moves(blk, lost), OwnLocksOnly(own, blk, waiting'),
           NEW pair \in pairs, pair \notin pairs', NEW p \in Members(pair)
    PROVE  pair \in ResPairs /\ Nowhere(p)'
<1>1. PICK dead \in SUBSET Deadlocked(own, blk) :
         /\ pairs' = pairs \ dead
         /\ blocked' = [m \in Mutex |-> IF m[1] \in dead THEN <<>> ELSE blk[m]]
  BY DEF Destructs
<1>2. pair \in dead /\ pair \in ResPairs /\ EdgeCount(pair, own, blk) = 4
  BY <1>1 DEF Deadlocked
<1>3. PICK m \in PairMutexes(pair) : p \in Range(blk[m])
  BY <1>2, FourEdgesBlocked DEF Moves
<1>4. m \in Mutex /\ m[1] = pair
  BY <1>2, MutexPair
<1>5. p \in Held(blk)
  BY <1>3, <1>4 DEF Held
<1>6. /\ p \in Proc \ {Idle} /\ state'[p] = "WAITING" /\ p # running'
      /\ p \notin Held(ioQ') \union Held(waiting') /\ ~InService(p)'
  BY <1>5 DEF Moves
<1>7. p \notin Held(blocked')
  <2> SUFFICES ASSUME NEW n \in Mutex, p \in Range(blocked'[n]) PROVE FALSE
    BY <1>1 DEF Held
  <2>1. n[1] \notin dead /\ p \in Range(blk[n])
    BY <1>1, EmptyQueue
  <2>2. p \in Members(n[1]) /\ n[1] \in Pairs /\ pair \in Pairs
    BY <1>2, <2>1, MutexPair DEF OwnLocksOnly, Pairs
  <2>. QED
    BY <1>2, <2>1, <2>2, OnlyPair
<1>8. p \notin Range(newQ') \union Range(ready') \union Range(zombies')
  BY <1>6 DEF PlacesOK, StateTellsQueue
<1>. QED
  BY <1>2, <1>6, <1>7, <1>8 DEF Nowhere, Waiters

\* What creation does to the places.
LEMMA EnterMoves ==
    ASSUME Inv, PlacesOK, NEW ps \in Seq(Proc), Enter(ps)
    PROVE  /\ \A p \in Proc : /\ Nowhere(p) /\ p \notin Range(ps) <=> Nowhere(p)'
                              /\ p \notin Range(ps) => state'[p] = state[p]
                              /\ p \in Range(ps) => state'[p] = "NEW" /\ state[p] = "UNBORN"
           /\ UNCHANGED <<owner, blocked, waiting, total_blocked, total_waiting, svc, running>>
<1>1. /\ newQ' = newQ \o ps
      /\ \A p \in Proc : state'[p] = IF p \in Range(ps) THEN "NEW" ELSE state[p]
      /\ UNCHANGED <<svc, running, ready, ioQ, zombies, owner, blocked, waiting,
                     total_blocked, total_waiting>>
  BY DEF Enter, cpuVars
<1>2. \A p \in Range(ps) : state[p] = "UNBORN"
  BY RangeEquality DEF Enter
<1>3. Range(newQ') = Range(newQ) \union Range(ps) /\ Waiters' = Waiters
  BY <1>1, RangeConcatenation DEF Inv, TypeOK, Waiters
<1>4. \A p \in Proc : p \in Range(ps) => ~InService(p)'
  BY <1>1 DEF InService
<1>5. \A p \in Proc : p \notin Range(ps) => (InService(p)' <=> InService(p))
  BY <1>1 DEF InService
<1>. QED
  BY <1>1, <1>2, <1>3, <1>4, <1>5 DEF Nowhere

\* Creation, one process or one pair at a time.
LEMMA CreationSeen ==
    ASSUME Inv, PlacesOK,
           \/ CreateIOProcess \/ CreateComputeIntensiveProcess
           \/ CreateConsumerProducerPair \/ CreateSharedResourcePair
    PROVE  \E ps \in Seq(Proc) :
              /\ Enter(ps)
              /\ \/ \E p \in IOProcs \union CompProcs : Range(ps) = {p} /\ pairs' = pairs
                 \/ \E pair \in Pairs : Range(ps) = Members(pair) /\ pairs' = pairs \union {pair}
<1>1. ASSUME NEW p \in IOProcs \union CompProcs
      PROVE  <<p>> \in Seq(Proc) /\ Range(<<p>>) = {p}
  BY OneInQueue DEF Proc
<1>2. ASSUME NEW pair \in Pairs
      PROVE  pair \in Seq(Proc) /\ Range(pair) = Members(pair)
  <2> DEFINE a == pair[1]
             b == pair[2]
  <2>1. pair = <<a, b>> /\ a \in Proc /\ b \in Proc
    <3>1. a \in CPProcs \union ResProcs /\ b \in CPProcs \union ResProcs
      BY DEF Pairs, CPProcs, ResProcs, Members
    <3>. QED
      BY <3>1, PairsDisjoint DEF Proc
  <2> HIDE DEF a, b
  <2>2. <<a, b>> \in Seq(Proc) /\ Range(<<a, b>>) = {a, b}
    BY <2>1 DEF Range
  <2>. QED
    BY <2>1, <2>2 DEF Members, a, b
<1>3. CASE CreateIOProcess
  BY <1>1, <1>3 DEF CreateIOProcess
<1>4. CASE CreateComputeIntensiveProcess
  BY <1>1, <1>4 DEF CreateComputeIntensiveProcess
<1>5. CASE CreateConsumerProducerPair
  BY <1>2, <1>5 DEF CreateConsumerProducerPair, Pairs
<1>6. CASE CreateSharedResourcePair
  BY <1>2, <1>6 DEF CreateSharedResourcePair, Pairs
<1>. QED
  BY <1>3, <1>4, <1>5, <1>6

Creates == \/ CreateIOProcess \/ CreateComputeIntensiveProcess
           \/ CreateConsumerProducerPair \/ CreateSharedResourcePair

\* The processes of the pairs.
LEMMA PairProcs ==
    ASSUME NEW pair \in Pairs
    PROVE  Members(pair) \subseteq Proc \ ({Idle} \union IOProcs \union CompProcs)
<1>1. Members(pair) \subseteq CPProcs \union ResProcs
  BY DEF CPProcs, ResProcs, Pairs
<1>. QED
  BY <1>1, ProcessesDistinct DEF Proc

LEMMA LockStepDomain ==
    ASSUME Inv, NEW own, NEW blk, NEW tb, LockStep(own, blk, tb)
    PROVE  DOMAIN blk = Mutex /\ DOMAIN own = Mutex
BY DEF LockStep, Inv, TypeOK

LEMMA InitPairs == Init => PairsOK
<1> SUFFICES ASSUME Init PROVE PairsOK
  OBVIOUS
<1>1. /\ owner = [m \in Mutex |-> NoProc] /\ blocked = [m \in Mutex |-> <<>>]
      /\ waiting = [c \in Cond |-> <<>>] /\ ioQ = [d \in Dev |-> <<>>]
      /\ newQ = <<>> /\ ready = <<>> /\ zombies = <<>> /\ running = Boot
      /\ state = [p \in Proc |-> IF p = Boot THEN "RUNNING" ELSE "UNBORN"]
  BY DEF Init
<1>2. OwnLocksOnly(owner, blocked, waiting)
  BY <1>1, EmptyQueue DEF OwnLocksOnly
<1>3. Waiters = {}
  BY <1>1, EmptyQueue DEF Waiters, Held
<1>4. ASSUME NEW pair \in Pairs, NEW p \in Members(pair) PROVE Nowhere(p)
  <2>1. p \in CPProcs \union ResProcs
    BY DEF CPProcs, ResProcs, Pairs
  <2>2. p \in Proc /\ p # Boot
    BY <2>1, ProcessesDistinct DEF Proc
  <2>. QED
    BY <1>1, <1>3, <2>2, EmptyQueue DEF Nowhere, InService
<1>. QED
  BY <1>2, <1>4 DEF PairsOK

LEMMA NextPairs ==
    ASSUME Inv, PlacesOK, PlacesOK', PairsOK, [Next]_vars
    PROVE  PairsOK'
<1>1. CASE Creates
  <2>1. PICK ps \in Seq(Proc) :
           /\ Enter(ps)
           /\ \/ \E p \in IOProcs \union CompProcs : Range(ps) = {p} /\ pairs' = pairs
              \/ \E pair \in Pairs : Range(ps) = Members(pair) /\ pairs' = pairs \union {pair}
    BY <1>1, CreationSeen DEF Creates
  <2>2. /\ \A p \in Proc : Nowhere(p) /\ p \notin Range(ps) => Nowhere(p)'
        /\ UNCHANGED <<owner, blocked, waiting>>
    BY <2>1, EnterMoves
  <2>3. ASSUME NEW pair \in Pairs \ pairs', NEW p \in Members(pair)
        PROVE  Nowhere(p)'
    <3>1. pair \in Pairs \ pairs /\ p \in Proc \ (IOProcs \union CompProcs)
      BY <2>1, PairProcs
    <3>2. Nowhere(p)
      BY <3>1 DEF PairsOK
    <3>3. p \notin Range(ps)
      BY <2>1, <3>1, OnlyPair
    <3>. QED
      BY <2>2, <3>1, <3>2, <3>3
  <2>. QED
    BY <2>2, <2>3 DEF PairsOK, OwnLocksOnly
<1>2. CASE ~Creates
  <2>1. PICK own, blk, tb : /\ LockStep(own, blk, tb) /\ Destructs(own, blk, tb)
                            /\ Moves(blk, Lost)
    BY <1>2, StepIsSeen DEF StepSeen, Creates
  <2>2. OwnLocksOnly(own, blk, waiting') /\ DOMAIN blk = Mutex
    BY <2>1, OwnLockStep, LockStepDomain DEF PairsOK
  <2>3. OwnLocksOnly(owner', blocked', waiting')
    <3>1. /\ \A m \in Mutex : owner'[m] \in {NoProc, own[m]}
          /\ \A m \in Mutex : blocked'[m] \in {<<>>, blk[m]}
      BY <2>1 DEF Destructs
    <3>. QED
      BY <2>2, <3>1, EmptyQueue DEF OwnLocksOnly
  <2>4. ASSUME NEW pair \in Pairs \ pairs', NEW p \in Members(pair)
        PROVE  Nowhere(p)'
    <3>1. CASE pair \in pairs
      BY <2>1, <2>2, <2>4, <3>1, DestructedNowhere
    <3>2. CASE pair \notin pairs
      BY <2>1, <2>4, <3>2, PairProcs DEF Moves, PairsOK
    <3>. QED
      BY <3>1, <3>2
  <2>. QED
    BY <2>3, <2>4 DEF PairsOK
<1>. QED
  BY <1>1, <1>2

\* A pair that is not there, yet or any more, has no process anywhere, and
\* the locks of a pair know of its processes alone.
THEOREM PairsAreKept == Spec => []PairsOK
<1>1. Init => PairsOK
  BY InitPairs
<1>2. Inv /\ PlacesOK /\ PlacesOK' /\ PairsOK /\ [Next]_vars => PairsOK'
  BY NextPairs
<1>. QED
  BY <1>1, <1>2, Invariance, PlacesAreKept, PTL DEF Spec

-----------------------------------------------------------------------------
(***************************************************************************)
(* The theorems about who is lost and who is gone.                         *)
(***************************************************************************)

PlacesCounted == \A p \in Proc : PlaceCount(p) = IF Nowhere(p) THEN 0 ELSE 1

LEMMA PlacesAreCounted == Inv /\ PlacesOK => PlacesCounted
<1> SUFFICES ASSUME Inv, PlacesOK, NEW p \in Proc
             PROVE  PlaceCount(p) = IF Nowhere(p) THEN 0 ELSE 1
  BY DEF PlacesCounted
<1>. QED
  BY PlaceCountIs DEF Nowhere

\* A pair that the deadlock monitor has destructed leaves nothing behind.
THEOREM DestructedPairsAreGone == Spec => []DestructedIsGone
<1>1. PlacesCounted /\ PairsOK => DestructedIsGone
  <2> SUFFICES ASSUME PlacesCounted, PairsOK, NEW pair \in ResPairs \ pairs,
                      NEW p \in Members(pair)
               PROVE  PlaceCount(p) = 0
    BY DEF DestructedIsGone
  <2>1. p \in Proc /\ Nowhere(p)
    BY PairProcs DEF PairsOK, Pairs
  <2>. QED
    BY <2>1 DEF PlacesCounted
<1>. QED
  BY <1>1, PlacesAreCounted, Invariance, PlacesAreKept, PairsAreKept, PTL

\* A step that leaves a live process nowhere is a late termination, unless
\* the process was nowhere before.
LEMMA LostStep ==
    ASSUME Inv, PlacesOK, PlacesOK', PairsOK, [Next]_vars,
           NEW p \in Proc, Alive(p)', Nowhere(p)'
    PROVE  (Alive(p) /\ Nowhere(p)) \/ (LateTermination /\ p = running)
<1>1. /\ p # Idle /\ state'[p] \notin {"UNBORN", "HALTED"}
      /\ p \in ResProcs => PairOf(p) \in pairs'
  BY DEF Alive
<1>2. CASE Creates
  <2>1. PICK ps \in Seq(Proc) :
           /\ Enter(ps)
           /\ \/ \E x \in IOProcs \union CompProcs : Range(ps) = {x} /\ pairs' = pairs
              \/ \E pair \in Pairs : Range(ps) = Members(pair) /\ pairs' = pairs \union {pair}
    BY <1>2, CreationSeen DEF Creates
  <2>2. Nowhere(p) /\ p \notin Range(ps) /\ state'[p] = state[p]
    BY <2>1, EnterMoves
  <2>3. p \in ResProcs => PairOf(p) \in pairs
    BY <1>1, <2>1, <2>2, PairOfRes
  <2>. QED
    BY <1>1, <2>2, <2>3 DEF Alive
<1>3. CASE ~Creates
  <2>1. PICK own, blk, tb : /\ LockStep(own, blk, tb) /\ Destructs(own, blk, tb)
                            /\ Moves(blk, Lost)
    BY <1>3, StepIsSeen DEF StepSeen, Creates
  <2>2. pairs' \subseteq pairs
    BY <2>1 DEF Destructs
  <2>3. state[p] \notin {"UNBORN", "HALTED"}
    BY <1>1, <2>1 DEF Moves
  <2>4. Alive(p)
    BY <1>1, <2>2, <2>3 DEF Alive
  <2>5. Nowhere(p) \/ p \in Lost \/ p \in Held(blk) \ Held(blocked')
    BY <1>1, <2>1 DEF Moves
  <2>6. p \notin Held(blk) \ Held(blocked')
    <3> SUFFICES ASSUME p \in Held(blk), p \notin Held(blocked') PROVE FALSE
      OBVIOUS
    <3>1. PICK dead \in SUBSET Deadlocked(own, blk) :
             /\ pairs' = pairs \ dead
             /\ blocked' = [m \in Mutex |-> IF m[1] \in dead THEN <<>> ELSE blk[m]]
      BY <2>1 DEF Destructs
    <3>2. PICK m \in Mutex : p \in Range(blk[m])
      BY <2>1, LockStepDomain DEF Held
    <3>3. p \notin Range(blocked'[m])
      BY <3>1 DEF Held
    <3>4. m[1] \in dead /\ m[1] \in ResPairs
      BY <3>1, <3>2, <3>3 DEF Deadlocked
    <3>5. p \in Members(m[1])
      BY <2>1, <3>2, OwnLockStep DEF PairsOK, OwnLocksOnly
    <3>6. p \in ResProcs /\ PairOf(p) = m[1]
      BY <3>4, <3>5, PairOfRes, OnlyPair DEF ResProcs, Pairs
    <3>. QED
      BY <1>1, <3>1, <3>4, <3>6
  <2>. QED
    BY <2>4, <2>5, <2>6 DEF Lost
<1>. QED
  BY <1>2, <1>3

\* A live process is lost only when dispatcher(), called for a termination
\* that an interrupt has already carried out, acts on the one that came after.
THEOREM OnlyLateTerminationLoses == Spec => LostOnlyByLateTermination
<1> DEFINE Step == \A p \in Proc : Alive(p)' /\ PlaceCount(p) = 1 /\ PlaceCount(p)' = 0
                                      => LateTermination /\ p = running
<1>1. Inv /\ PlacesOK /\ PlacesOK' /\ PairsOK /\ PlacesCounted /\ PlacesCounted' /\ [Next]_vars
         => [Step]_vars
  <2> HAVE Inv /\ PlacesOK /\ PlacesOK' /\ PairsOK /\ PlacesCounted /\ PlacesCounted'
             /\ [Next]_vars
  <2>1. ASSUME NEW p \in Proc, Alive(p)', PlaceCount(p) = 1, PlaceCount(p)' = 0
        PROVE  LateTermination /\ p = running
    <3>1. ~Nowhere(p) /\ Nowhere(p)'
      BY <2>1 DEF PlacesCounted
    <3>. QED
      BY <2>1, <3>1, LostStep
  <2>. QED
    BY <2>1, Zenon
<1>. QED
  BY <1>1, PlacesAreCounted, Invariance, PlacesAreKept, PairsAreKept, PTL
     DEF Spec, LostOnlyByLateTermination

NobodyNowhere == \A p \in Proc : Alive(p) => ~Nowhere(p)

LEMMA InitNobodyNowhere == Init => NobodyNowhere
<1> SUFFICES ASSUME Init, NEW p \in Proc, Alive(p) PROVE ~Nowhere(p)
  BY DEF NobodyNowhere
<1>1. p \in Proc /\ (p = Boot => state[p] = "RUNNING") /\ (p # Boot => state[p] = "UNBORN")
  BY DEF Init
<1>2. p = running
  BY <1>1 DEF Init, Alive
<1>. QED
  BY <1>2 DEF Nowhere

LEMMA NobodyNowhereStep ==
    ASSUME Inv, PlacesOK, PlacesOK', PairsOK, NobodyNowhere, [Next]_vars
    PROVE  NobodyNowhere' \/ LateTermination
<1>1. ASSUME NEW p \in Proc, Alive(p)', Nowhere(p)'
      PROVE  LateTermination
  BY <1>1, LostStep DEF NobodyNowhere
<1>. QED
  BY <1>1, Zenon DEF NobodyNowhere

\* Every live process is somewhere as long as no termination comes late,
\* whoever terminates otherwise and whatever interrupts a service routine.
THEOREM NobodyIsLostOtherwise ==
    Spec /\ [][~LateTermination]_vars => []NoProcessLost
<1>1. [~LateTermination]_vars => ~LateTermination
  <2>1. LateTermination => at # at'
    BY DEF LateTermination, FinishTermination, Serve
  <2>. QED
    BY <2>1 DEF vars
<1>2. Inv /\ PlacesOK /\ PlacesOK' /\ PairsOK /\ NobodyNowhere /\ [Next]_vars
         => NobodyNowhere' \/ LateTermination
  BY NobodyNowhereStep
<1>3. PlacesCounted /\ NobodyNowhere => NoProcessLost
  BY DEF PlacesCounted, NobodyNowhere, NoProcessLost
<1>. QED
  BY <1>1, <1>2, <1>3, InitNobodyNowhere, PlacesAreCounted, Invariance, PlacesAreKept, PairsAreKept, PTL
     DEF Spec

\* Where no process terminates, none is ever lost.
THEOREM NobodyIsLost ==
    ASSUME IOProcs \union CompProcs = {}
    PROVE  Spec => []NoProcessLost
<1>1. Inv => ~LateTermination
  <2> SUFFICES ASSUME Inv, LateTermination PROVE FALSE
    OBVIOUS
  <2>1. svc # NoSvc /\ svc.op = "PCB_TERMINATED"
    BY DEF LateTermination, FinishTermination, Serve, Inv, ControlOK
  <2>2. ServiceExists(svc.proc, "PCB_TERMINATED")
    BY <2>1 DEF Inv, ControlOK
  <2>. QED
    BY <2>2 DEF ServiceExists, IOTraps, LockOps, UnlockOps
<1>2. Inv => [~LateTermination]_vars
  BY <1>1
<1>. QED
  BY <1>2, Invariance, NobodyIsLostOtherwise, PTL
=============================================================================
