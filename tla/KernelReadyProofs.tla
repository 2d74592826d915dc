-------------------------- MODULE KernelReadyProofs --------------------------
(***************************************************************************)
(* The ready queue, for any set of processes and any programs: it is in    *)
(* the order of priority, the counters that cap the creation of processes  *)
(* are exact, and so the length of the queue is bounded.                   *)
(***************************************************************************)
EXTENDS KernelPlacesProofs

-----------------------------------------------------------------------------
(***************************************************************************)
(* What a step does to the ready queue and to the states, apart from       *)
(* creation.  Either it leaves the queue alone, and changes the state of   *)
(* the running process at most; or it is a call of scheduler(), where q is *)
(* the queue before the dispatcher takes the next process from it, and pr  *)
(* and st are the priorities and the states that it goes by.               *)
(***************************************************************************)
Quiet ==
    /\ UNCHANGED <<ready, priority, running, total_io, total_comp>>
    /\ \A p \in Proc : \/ state'[p] = state[p]
                       \/ /\ p = running /\ state'[p] \in {"INTERRUPTED", "WAITING", "HALTED"}
                          /\ p = Boot => state'[p] = "INTERRUPTED"

LegalQueue(q, pr, st) ==
    /\ q \in Seq(Proc) /\ SortedBy(q, pr)
    /\ Range(q) \subseteq Range(ready) \union Range(newQ) \union Waiters
                              \union ({running} \ {Idle})
    /\ \A p \in Proc \ {running} : pr[p] = priority[p]
    /\ \A p \in Proc : \/ st[p] = state[p]
                       \/ st[p] = "READY" /\ p \in Waiters \union {running}

\* dispatcher() alone takes the terminated process from the totals.
TotalsFollow ==
    LET halted == state[running] = "HALTED"
    IN  /\ total_io' = IF halted /\ running \in IOProcs THEN total_io - 1 ELSE total_io
        /\ total_comp' = IF halted /\ running \in CompProcs THEN total_comp - 1 ELSE total_comp

Schedules ==
    \E q, pr, st : /\ LegalQueue(q, pr, st)
                   /\ \E z, own, blk, tb : Housekeeping(z, pr, own, blk, tb)
                   /\ \E saved : \/ /\ KeepRunning(q, st, saved)
                                    /\ UNCHANGED <<total_io, total_comp>>
                                 \/ TakeNext(q, st, saved) /\ TotalsFollow

-----------------------------------------------------------------------------
LEMMA PEnqueueSorted ==
    ASSUME NEW S, NEW q \in Seq(S), NEW pr, NEW p \in S
    PROVE  pr \in [S -> Int] /\ SortedBy(q, pr) => SortedBy(PEnqueue(q, pr, p), pr)
<1> DEFINE s == <<p>>
           n == pr[p]
<1>1. s \in Seq(S) /\ Range(s) = {p}
  BY OneInQueue
<1>2. PEnqueue(q, pr, p) = EnqueueAll(q, pr, n, s)
  BY DEF PEnqueue
<1>3. \A x \in Range(s) : pr[x] = n
  BY <1>1
<1>4. pr \in [S -> Int] => n \in Int
  OBVIOUS
<1> HIDE DEF s, n
<1>5. pr \in [S -> Int] /\ n \in Int /\ SortedBy(q, pr) => SortedBy(EnqueueAll(q, pr, n, s), pr)
  BY <1>1, <1>3, EnqueueAllSorted
<1>. QED
  BY <1>2, <1>4, <1>5

\* moveNewToReady enqueues at level 0 what has priority 0.
LEMMA AfterNewSorted ==
    ASSUME Inv, PlacesOK, NewAtLevelZero, ReadyByPriority
    PROVE  /\ ReadyAfterNew \in Seq(Proc) /\ priority \in [Proc -> Int]
           /\ Range(ReadyAfterNew) = Range(ready) \union Range(newQ)
           /\ SortedBy(ReadyAfterNew, priority)
<1>1. ready \in Seq(Proc) /\ newQ \in Seq(Proc) /\ priority \in [Proc -> Int]
  <2>1. priority \in [Proc -> 0 .. MaxPriority] /\ 0 .. MaxPriority \subseteq Int
    BY KernelBounds DEF Inv, TypeOK
  <2>. QED
    BY <2>1 DEF Inv, TypeOK
<1>2. \A p \in Range(newQ) : priority[p] = 0
  BY PlacesFacts DEF NewAtLevelZero
<1>3. SortedBy(ready, priority)
  BY DEF ReadyByPriority
<1>4. SortedBy(EnqueueAll(ready, priority, 0, newQ), priority)
  BY <1>1, <1>2, <1>3, EnqueueAllSorted
<1>. QED
  BY <1>1, <1>4, QueueFacts DEF ReadyAfterNew

\* A call of scheduler() for a process that leaves a queue it waits in, or
\* for none.
LEMMA LegalReady ==
    ASSUME Inv, PlacesOK, NewAtLevelZero, ReadyByPriority
    PROVE  /\ LegalQueue(ReadyAfterNew, priority, state)
           /\ \A p \in Waiters : \A st :
                 (\A x \in Proc : st[x] = IF x = p THEN "READY" ELSE state[x])
                    => LegalQueue(PEnqueue(ReadyAfterNew, priority, p), priority, st)
<1>1. LegalQueue(ReadyAfterNew, priority, state)
  BY AfterNewSorted DEF LegalQueue
<1>2. ASSUME NEW p \in Waiters, NEW st,
             \A x \in Proc : st[x] = IF x = p THEN "READY" ELSE state[x]
      PROVE  LegalQueue(PEnqueue(ReadyAfterNew, priority, p), priority, st)
  <2> DEFINE q == PEnqueue(ReadyAfterNew, priority, p)
  <2>1. p \in Proc /\ p \notin Range(ReadyAfterNew)
    BY PlacesFacts, QueueFacts
  <2>2. q \in Seq(Proc) /\ Range(q) = Range(ReadyAfterNew) \union {p}
    BY <2>1, QueueFacts, PEnqueuePlaces
  <2>3. SortedBy(q, priority)
    BY <2>1, AfterNewSorted, PEnqueueSorted
  <2> HIDE DEF q
  <2>4. LegalQueue(q, priority, st)
    BY <1>2, <2>2, <2>3, AfterNewSorted DEF LegalQueue
  <2>. QED
    BY <2>4 DEF q
<1>. QED
  BY <1>1, <1>2

\* dispatcher().
LEMMA DispatcherSchedules ==
    ASSUME Inv, PlacesOK, NewAtLevelZero, ReadyByPriority, NEW st \in [Proc -> ProcessStates],
           \A p \in Proc \ {running} : st[p] = state[p],
           \/ st[running] = state[running]
           \/ st[running] = "INTERRUPTED" /\ state[running] # "HALTED",
           NEW top, Dispatcher(st, top)
    PROVE  Schedules
<1> DEFINE halted      == st[running] = "HALTED"
           interrupted == st[running] = "INTERRUPTED"
           back  == interrupted /\ running # Idle
           q     == IF back THEN PEnqueue(ReadyAfterNew, Bumped, running) ELSE ReadyAfterNew
           st2   == IF interrupted THEN [st EXCEPT ![running] = "READY"] ELSE st
           saved == [pc EXCEPT ![running] = top]
           z     == IF halted THEN Append(zombies, running) ELSE zombies
           pr    == IF back THEN Bumped ELSE priority
<1>1. /\ TakeNext(q, st2, saved)
      /\ Housekeeping(z, pr, owner, blocked, total_blocked)
      /\ total_io' = IF halted /\ running \in IOProcs THEN total_io - 1 ELSE total_io
      /\ total_comp' = IF halted /\ running \in CompProcs THEN total_comp - 1 ELSE total_comp
  BY DEF Dispatcher
<1>2. TotalsFollow
  <2>1. halted <=> state[running] = "HALTED"
    OBVIOUS
  <2>. QED
    BY <1>1, <2>1 DEF TotalsFollow
<1>3. running \in Proc /\ TypeOK
  BY DEF Inv, TypeOK
<1>4. \A p \in Proc : st2[p] = state[p] \/ (st2[p] = "READY" /\ p = running)
  BY <1>3
<1>5. /\ q \in Seq(Proc) /\ SortedBy(q, pr)
      /\ Range(q) \subseteq Range(ready) \union Range(newQ) \union ({running} \ {Idle})
      /\ \A p \in Proc \ {running} : pr[p] = priority[p]
  <2>1. CASE ~back
    BY <2>1, AfterNewSorted
  <2>2. CASE back
    <3>1. running \notin Range(ReadyAfterNew)
      BY PlacesFacts, QueueFacts
    <3>2. /\ Bumped \in [Proc -> Int] /\ \A p \in Proc \ {running} : Bumped[p] = priority[p]
      <4>1. Bumped \in [Proc -> 0 .. MaxPriority] /\ 0 .. MaxPriority \subseteq Int
        BY <1>3, BumpedType, KernelBounds
      <4>2. \A p \in Proc \ {running} : Bumped[p] = priority[p]
        BY <1>3 DEF Bumped, TypeOK
      <4>. QED
        BY <4>1, <4>2
    <3>3. SortedBy(ReadyAfterNew, Bumped)
      <4>1. \A p \in Range(ReadyAfterNew) : Bumped[p] = priority[p]
        BY <3>1, <3>2, QueueFacts, RangeOfSeq
      <4>. QED
        BY <4>1, AfterNewSorted, SortedAgrees
    <3>4. SortedBy(PEnqueue(ReadyAfterNew, Bumped, running), Bumped)
      BY <1>3, <3>2, <3>3, QueueFacts, PEnqueueSorted
    <3>5. /\ PEnqueue(ReadyAfterNew, Bumped, running) \in Seq(Proc)
          /\ Range(PEnqueue(ReadyAfterNew, Bumped, running))
                = Range(ReadyAfterNew) \union {running}
      BY <1>3, <3>1, QueueFacts, PEnqueuePlaces
    <3>. QED
      BY <2>2, <3>2, <3>4, <3>5, QueueFacts
  <2>. QED
    BY <2>1, <2>2
<1> HIDE DEF q, st2, saved, z, pr
<1>6. LegalQueue(q, pr, st2)
  BY <1>4, <1>5 DEF LegalQueue
<1>. QED
  BY <1>1, <1>2, <1>6 DEF Schedules

\* The dispatchers of the traps.
LEMMA ServiceSchedules ==
    ASSUME Inv, PlacesOK, NEW q, NEW st, NEW saved, LegalQueue(q, priority, st),
           NEW own, NEW blk, NEW tb, Housekeeping(zombies, priority, own, blk, tb),
           UNCHANGED <<total_io, total_comp>>, svc # NoSvc, state[P] # "HALTED",
           \/ KeepRunning(q, st, saved)
           \/ TakeNextIfRunning(P, q, st, saved)
    PROVE  Schedules
<1>1. CASE KeepRunning(q, st, saved)
  BY <1>1 DEF Schedules
<1>2. CASE TakeNextIfRunning(P, q, st, saved) /\ running # P
  BY <1>1, <1>2 DEF TakeNextIfRunning
<1>3. CASE TakeNextIfRunning(P, q, st, saved) /\ running = P
  <2>1. TakeNext(q, st, saved) /\ TotalsFollow
    BY <1>3 DEF TakeNextIfRunning, TotalsFollow
  <2>. QED
    BY <2>1 DEF Schedules
<1>. QED
  BY <1>1, <1>2, <1>3

LEMMA EnterServiceQuiet ==
    ASSUME Inv, PlacesOK, EnterService
    PROVE  Quiet
<1>1. CASE NoTrap
  BY <1>1 DEF NoTrap, Quiet, cpuVars, qVars, cntVars
<1>2. ASSUME NEW ops, NEW st, EnterTSR(ops, st), ops \subseteq Services,
             st \in {"INTERRUPTED", "WAITING", "HALTED", state[running]}
      PROVE  Quiet
  <2>1. Requested # "NONE"
    BY <1>2 DEF EnterTSR, Services, IOTraps, LockOps, UnlockOps
  <2>2. ServiceExists(running, Requested)
    BY <2>1, RequestedExists DEF Requested
  <2>3. running # Boot
    <3>1. running \in IOProcs \union CompProcs \union CPProcs \union ResProcs
      BY <2>2 DEF ServiceExists
    <3>. QED
      BY <3>1, ProcessesDistinct
  <2>4. /\ state' = [state EXCEPT ![running] = st]
        /\ UNCHANGED <<ready, priority, running, total_io, total_comp>>
    BY <1>2 DEF EnterTSR, cpuVars, qVars, cntVars
  <2>5. \A p \in Proc : state'[p] = IF p = running THEN st ELSE state[p]
    BY <2>4 DEF Inv, TypeOK
  <2>. QED
    BY <1>2, <2>3, <2>4, <2>5 DEF Quiet
<1>3. /\ {"PCB_TERMINATED"} \subseteq Services /\ IOTraps \subseteq Services
      /\ LockOps \subseteq Services /\ UnlockOps \subseteq Services
      /\ {"WAIT_RESOURCE_1"} \subseteq Services /\ {"SIGNAL_RESOURCE_1"} \subseteq Services
  BY DEF Services
<1>4. CASE EnterLock
  <2> DEFINE st == IF owner[MutexOf(running, Requested)] \in {NoProc, running}
                   THEN "INTERRUPTED" ELSE "WAITING"
  <2>1. EnterTSR(LockOps, st)
    BY <1>4 DEF EnterLock
  <2>2. st \in {"INTERRUPTED", "WAITING"}
    OBVIOUS
  <2> HIDE DEF st
  <2>. QED
    BY <1>2, <1>3, <2>1, <2>2
<1>5. CASE EnterSignal
  <2>1. EnterTSR({"SIGNAL_RESOURCE_1"}, state[running])
    BY <1>5 DEF EnterSignal
  <2>. QED
    BY <1>2, <1>3, <2>1
<1>. QED
  BY <1>1, <1>2, <1>3, <1>4, <1>5
     DEF EnterService, EnterTermination, EnterIOTrap, EnterUnlock, EnterWait

LEMMA FinishServiceSchedules ==
    ASSUME Inv, PlacesOK, NewAtLevelZero, ReadyByPriority, FinishService
    PROVE  Quiet \/ Schedules
<1>1. CASE FinishTermination
  <2>1. state \in [Proc -> ProcessStates]
    BY DEF Inv, TypeOK
  <2>. QED
    BY <1>1, <2>1, DispatcherSchedules DEF FinishTermination
<1>2. CASE LockGranted \/ UnlockFree \/ SignalNobody
  BY <1>2 DEF LockGranted, UnlockFree, SignalNobody, NoScheduler, qVars, cntVars, Quiet
<1>3. CASE FinishIOTrap
  <2>1. Serve(IOTraps) /\ UNCHANGED <<total_io, total_comp>>
        /\ TakeNextIfRunning(P, ReadyAfterNew, state, TrapPC)
        /\ Housekeeping(zombies, priority, owner, blocked, total_blocked)
    BY <1>3 DEF FinishIOTrap, cntVars
  <2>2. svc # NoSvc /\ state[P] # "HALTED"
    BY <2>1, ServedFacts DEF IOTraps
  <2>. QED
    BY <2>1, <2>2, LegalReady, ServiceSchedules
<1>4. CASE LockBlocks
  <2> DEFINE blk == [blocked EXCEPT ![M] = Append(@, P)]
             tb  == total_blocked + 1
  <2>1. Serve(LockOps) /\ UNCHANGED <<total_io, total_comp>>
        /\ TakeNextIfRunning(P, ReadyAfterNew, state, TrapPC)
        /\ Housekeeping(zombies, priority, owner, blk, tb)
    BY <1>4 DEF LockBlocks, cntVars
  <2>2. svc # NoSvc /\ state[P] # "HALTED"
    BY <2>1, ServedFacts DEF LockOps
  <2> HIDE DEF blk, tb
  <2>. QED
    BY <2>1, <2>2, LegalReady, ServiceSchedules
<1>5. ASSUME M \in Mutex, blocked[M] # <<>>
      PROVE  LegalQueue(ReadyWithHeir, priority, StateWithHeir)
  <2>1. /\ Heir \in Waiters
        /\ \A p \in Proc : StateWithHeir[p] = IF p = Heir THEN "READY" ELSE state[p]
    BY <1>5, HeirPlaces DEF Waiters
  <2>. QED
    BY <2>1, LegalReady DEF ReadyWithHeir
<1>6. CASE UnlockHandsOver
  <2> DEFINE own == [owner EXCEPT ![M] = Heir]
             blk == [blocked EXCEPT ![M] = Tail(@)]
             tb  == total_blocked - 1
  <2>1. /\ Serve(UnlockOps) /\ blocked[M] # <<>> /\ UNCHANGED <<total_io, total_comp>>
        /\ KeepRunning(ReadyWithHeir, StateWithHeir, pc)
        /\ Housekeeping(zombies, priority, own, blk, tb)
    BY <1>6 DEF UnlockHandsOver, HandOver, cntVars
  <2>2. svc # NoSvc /\ state[P] # "HALTED" /\ M \in Mutex
    BY <2>1, ServedFacts DEF UnlockOps
  <2> HIDE DEF own, blk, tb
  <2>. QED
    BY <1>5, <2>1, <2>2, ServiceSchedules
<1>7. CASE Wait
  <2> DEFINE own  == [owner EXCEPT ![M] = Heir]
             free == [owner EXCEPT ![M] = NoProc]
             blk  == [blocked EXCEPT ![M] = Tail(@)]
             tb   == total_blocked - 1
  <2>1. /\ Serve({"WAIT_RESOURCE_1"}) /\ UNCHANGED <<total_io, total_comp>>
        /\ \/ /\ TakeNextIfRunning(P, ReadyAfterNew, state, TrapPC)
              /\ Housekeeping(zombies, priority, free, blocked, total_blocked)
           \/ /\ blocked[M] # <<>>
              /\ TakeNextIfRunning(P, ReadyWithHeir, StateWithHeir, TrapPC)
              /\ Housekeeping(zombies, priority, own, blk, tb)
    BY <1>7 DEF Wait, HandOver, cntVars
  <2>2. svc # NoSvc /\ state[P] # "HALTED" /\ M \in Mutex
    BY <2>1, ServedFacts
  <2> HIDE DEF own, free, blk, tb
  <2>. QED
    BY <1>5, <2>1, <2>2, LegalReady, ServiceSchedules
<1>8. CASE SignalWakes
  <2> DEFINE woken == Head(waiting[SignalCond(P)])
             st    == [state EXCEPT ![woken] = "WAITING"]
             blk   == [blocked EXCEPT ![M] = Append(@, woken)]
             tb    == total_blocked + 1
  <2>1. /\ Serve({"SIGNAL_RESOURCE_1"}) /\ UNCHANGED <<total_io, total_comp>>
        /\ waiting[SignalCond(P)] # <<>>
        /\ KeepRunning(ReadyAfterNew, st, pc)
        /\ Housekeeping(zombies, priority, owner, blk, tb)
    BY <1>8 DEF SignalWakes, cntVars
  <2>2. svc # NoSvc /\ state[P] # "HALTED" /\ SignalCond(P) \in Cond
    BY <2>1, ServedFacts
  <2>3. woken \in Held(waiting)
    BY <2>1, <2>2, HeldTail, QueueFacts
  <2>4. state[woken] = "WAITING" /\ woken \in Proc
    BY <2>3, PlacesFacts DEF Waiters
  <2>5. st = state
    BY <2>4 DEF Inv, TypeOK
  <2> HIDE DEF woken, st, blk, tb
  <2>. QED
    BY <2>1, <2>2, <2>5, LegalReady, ServiceSchedules
<1>. QED
  BY <1>1, <1>2, <1>3, <1>4, <1>6, <1>7, <1>8 DEF FinishService

\* Every step other than creation, seen from the ready queue.
LEMMA NextSchedules ==
    ASSUME Inv, PlacesOK, NewAtLevelZero, ReadyByPriority, [Next]_vars, ~Creates
    PROVE  Quiet \/ Schedules
<1>1. CASE CreationDone \/ SimulateProgramStep \/ NoTimerInterrupt \/ NoIOInterrupt
           \/ UNCHANGED vars
  BY <1>1 DEF CreationDone, SimulateProgramStep, NoTimerInterrupt, NoIOInterrupt, vars,
              cpuVars, pcbVars, qVars, cntVars, Quiet
<1>2. ASSUME NEW d \in Dev, IOInterrupt(d) PROVE Quiet
  <2>1. /\ state' = [state EXCEPT ![running] = IF @ = "RUNNING" THEN "INTERRUPTED" ELSE @]
        /\ UNCHANGED <<ready, priority, running, total_io, total_comp>>
    BY <1>2 DEF IOInterrupt, cpuVars, qVars, cntVars
  <2>2. \A p \in Proc : state'[p] = state[p] \/ (p = running /\ state'[p] = "INTERRUPTED")
    BY <2>1 DEF Inv, TypeOK
  <2>. QED
    BY <2>1, <2>2 DEF Quiet
<1>3. CASE PseudoISR
  <2> DEFINE st == [state EXCEPT
                       ![running] = IF @ \in {"HALTED", "WAITING"} THEN @ ELSE "INTERRUPTED"]
  <2>1. Dispatcher(st, currentPC)
    BY <1>3 DEF PseudoISR
  <2>2. /\ st \in [Proc -> ProcessStates]
        /\ \A p \in Proc \ {running} : st[p] = state[p]
        /\ \/ st[running] = state[running]
           \/ st[running] = "INTERRUPTED" /\ state[running] # "HALTED"
    BY DEF Inv, TypeOK, ProcessStates
  <2> HIDE DEF st
  <2>. QED
    BY <2>1, <2>2, DispatcherSchedules
<1>4. CASE IOReturn
  <2> DEFINE p  == Head(ioQ[dev])
             q  == PEnqueue(ReadyAfterNew, priority, p)
             st == [state EXCEPT ![p] = "READY"]
  <2>1. /\ KeepRunning(q, st, pc) /\ UNCHANGED <<total_io, total_comp>>
        /\ Housekeeping(zombies, priority, owner, blocked, total_blocked)
    BY <1>4 DEF IOReturn, cntVars
  <2>2. dev \in Dev /\ ioQ[dev] # <<>>
    BY <1>4 DEF Inv, ControlOK, DeviceOnIffRequested, IOReturn, TypeOK
  <2>3. p \in Waiters
    BY <2>2, HeldTail, QueueFacts DEF Waiters
  <2>4. \A x \in Proc : st[x] = IF x = p THEN "READY" ELSE state[x]
    BY DEF Inv, TypeOK
  <2>5. LegalQueue(q, priority, st)
    BY <2>3, <2>4, LegalReady
  <2> HIDE DEF p, q, st
  <2>. QED
    BY <2>1, <2>5 DEF Schedules
<1>. QED
  BY <1>1, <1>2, <1>3, <1>4, EnterServiceQuiet, FinishServiceSchedules
     DEF Next, Creation, Creates, Interrupts

-----------------------------------------------------------------------------
(***************************************************************************)
(* ReadyOK is inductive.                                                   *)
(***************************************************************************)

LEMMA InitReady == Init => ReadyOK
<1> SUFFICES ASSUME Init PROVE ReadyOK
  OBVIOUS
<1>1. /\ priority = [p \in Proc |-> 0] /\ ready = <<>> /\ pairs = {} /\ running = Boot
      /\ total_io = 0 /\ total_comp = 1
      /\ state = [p \in Proc |-> IF p = Boot THEN "RUNNING" ELSE "UNBORN"]
  BY DEF Init
<1>2. Boot \in Proc /\ Boot # Idle /\ Boot \notin IOProcs \union CompProcs
  BY ProcessesDistinct DEF Proc
<1>3. NewAtLevelZero /\ BootRuns
  BY <1>1, <1>2 DEF NewAtLevelZero, BootRuns
<1>4. ReadyByPriority
  BY <1>1, EmptyQueue DEF ReadyByPriority, SortedBy
<1>5. TotalsExact
  <2>1. ASSUME NEW ps \in {IOProcs, CompProcs} PROVE Counted(ps) = 0
    <3>1. \A p \in ps : p \in Proc /\ p # Boot
      BY <1>2 DEF Proc
    <3>2. {p \in ps : state[p] \notin {"UNBORN", "HALTED"}
                         \/ (state[p] = "HALTED" /\ running = p)} = {}
      BY <1>1, <3>1
    <3>. QED
      BY <3>2, FS_EmptySet DEF Counted
  <2>. QED
    BY <1>1, <2>1 DEF TotalsExact
<1>6. CapsKept
  <2>1. pairs \intersect CPPairs = {} /\ pairs \intersect ResPairs = {}
    BY <1>1
  <2>2. Cardinality({}) = 0
    BY FS_EmptySet
  <2>. QED
    BY <1>1, <1>2, <2>1, <2>2, KernelBounds DEF CapsKept
<1>. QED
  BY <1>3, <1>4, <1>5, <1>6 DEF ReadyOK

\* What a call of scheduler() leaves.
LEMMA SchedulerLeaves ==
    ASSUME Inv, PlacesOK, NEW q, NEW pr, NEW st, LegalQueue(q, pr, st),
           NEW z, NEW own, NEW blk, NEW tb, Housekeeping(z, pr, own, blk, tb), NEW saved,
           KeepRunning(q, st, saved) \/ TakeNext(q, st, saved)
    PROVE  /\ SortedBy(ready', priority')
           /\ \A p \in Proc \ {running} : priority'[p] \in {priority[p], 0}
           /\ running' = Idle /\ BootRuns /\ Boot \in Range(ready')
                 => running = Idle /\ Boot \in Range(ready)
           /\ BootRuns => BootRuns'
           /\ \A p \in Proc : state'[p] = "HALTED" => state[p] = "HALTED"
           /\ TakeNext(q, st, saved) => state'[running'] = "RUNNING"
<1>1. /\ q \in Seq(Proc) /\ SortedBy(q, pr)
      /\ Range(q) \subseteq Range(ready) \union Range(newQ) \union Waiters
                                \union ({running} \ {Idle})
      /\ \A p \in Proc \ {running} : pr[p] = priority[p]
      /\ \A p \in Proc : st[p] = state[p] \/ (st[p] = "READY" /\ p \in Waiters \union {running})
  BY DEF LegalQueue
<1>2. /\ ready' \in Seq(Proc) /\ Range(ready') \subseteq Range(q) /\ SortedBy(ready', pr)
      /\ running' \in Proc
      /\ \/ running' = running
         \/ running' \in Range(q) \/ (running' = Idle /\ Range(ready') = {})
      /\ TakeNext(q, st, saved) => running' \in Range(q) \/ (running' = Idle /\ Range(ready') = {})
  <2>1. CASE KeepRunning(q, st, saved) /\ ~TakeNext(q, st, saved)
    BY <1>1, <2>1 DEF KeepRunning, Inv, TypeOK
  <2>2. CASE TakeNext(q, st, saved) /\ q = <<>>
    <3>1. running' = Idle /\ ready' = <<>>
      BY <2>2 DEF TakeNext, PDequeue, PRest
    <3>. QED
      BY <1>1, <2>2, <3>1, EmptyQueue DEF Proc
  <2>3. CASE TakeNext(q, st, saved) /\ q # <<>>
    <3>1. running' = Head(q) /\ ready' = Tail(q)
      BY <2>3 DEF TakeNext, PDequeue, PRest
    <3>2. Head(q) \in Range(q) /\ Head(q) \in Proc /\ Tail(q) \in Seq(Proc)
          /\ Range(Tail(q)) \subseteq Range(q)
      BY <1>1, <2>3, TailOnce, HeadTailProperties
    <3>3. SortedBy(Tail(q), pr)
      BY <1>1, <2>3, TailSorted
    <3>. QED
      BY <2>3, <3>1, <3>2, <3>3
  <2>. QED
    BY <2>1, <2>2, <2>3
<1>3. \A p \in Range(q) : p # Idle
  BY <1>1, PlacesFacts
<1>4. PICK S : /\ priority' = [p \in Proc |-> IF resetDue /\ p \in S THEN 0 ELSE pr[p]]
               /\ Range(ready') \subseteq S
  BY DEF Housekeeping
<1>5. SortedBy(ready', priority')
  <2>1. \/ \A p \in Range(ready') : priority'[p] = pr[p]
        \/ \A p \in Range(ready') : priority'[p] = 0
    BY <1>2, <1>4, RangeOfSeq
  <2>. QED
    BY <1>2, <2>1, SortedAgrees
<1>6. \A p \in Proc \ {running} : priority'[p] \in {priority[p], 0}
  BY <1>1, <1>4
<1>7. running' = Idle /\ BootRuns /\ Boot \in Range(ready')
         => running = Idle /\ Boot \in Range(ready)
  <2> SUFFICES ASSUME running' = Idle, BootRuns, Boot \in Range(ready')
               PROVE  running = Idle /\ Boot \in Range(ready)
    OBVIOUS
  <2>1. Boot \notin Range(newQ) \union Waiters
    BY PlacesFacts DEF BootRuns
  <2>2. Range(ready') # {}
    OBVIOUS
  <2>3. CASE KeepRunning(q, st, saved)
    <3>1. running = Idle /\ ready' = q
      BY <2>3 DEF KeepRunning
    <3>2. Boot \in Range(ready)
      BY <1>1, <2>1, <3>1
    <3>. QED
      BY <3>1, <3>2
  <2>. QED
    BY <1>2, <1>3, <2>2, <2>3
<1>8. \A p \in Proc : /\ state'[p] \in {"RUNNING", "READY", st[p]}
                      /\ TakeNext(q, st, saved) /\ p = running' => state'[p] = "RUNNING"
  BY DEF TakeNext, KeepRunning, StateAfterNew
<1>9. \A p \in Proc : state'[p] = "HALTED" => state[p] = "HALTED"
  BY <1>1, <1>8
<1>10. BootRuns => BootRuns'
  BY <1>1, <1>8 DEF BootRuns, Proc
<1>. QED
  BY <1>2, <1>5, <1>6, <1>7, <1>8, <1>9, <1>10

\* The processes counted, one more or one less.
Live(ps) == {p \in ps : \/ state[p] \notin {"UNBORN", "HALTED"}
                        \/ state[p] = "HALTED" /\ running = p}

LEMMA LiveFinite ==
    ASSUME NEW ps \in {IOProcs, CompProcs}
    PROVE  IsFiniteSet(Live(ps)) /\ Counted(ps) = Cardinality(Live(ps)) /\ Counted(ps) \in Nat
<1>1. Live(ps) \in SUBSET ps /\ IsFiniteSet(ps)
  BY FiniteSystem DEF Live
<1>2. IsFiniteSet(Live(ps))
  BY <1>1, FS_Subset
<1>3. Counted(ps) = Cardinality(Live(ps))
  BY DEF Counted, Live
<1>. QED
  BY <1>2, <1>3, FS_CardinalityType

\* Only a process that terminated, and now leaves the CPU, is counted no more.
LEMMA CountedStep ==
    ASSUME NEW ps \in {IOProcs, CompProcs}, running \in Proc,
           \A p \in ps : /\ state[p] \in {"UNBORN", "HALTED"} => state'[p] = state[p]
                         /\ state[p] \notin {"UNBORN", "HALTED"} => state'[p] # "UNBORN"
                         /\ state'[p] = "HALTED" => state[p] = "HALTED" \/ p = running',
           running' = running \/ state'[running'] = "RUNNING"
    PROVE  Counted(ps)' = IF state[running] = "HALTED" /\ running' # running /\ running \in ps
                          THEN Counted(ps) - 1 ELSE Counted(ps)
<1> DEFINE gone == state[running] = "HALTED" /\ running' # running /\ running \in ps
           A == Live(ps)
           B == Live(ps)'
<1>1. IsFiniteSet(A) /\ Counted(ps) = Cardinality(A) /\ Counted(ps)' = Cardinality(B)
      /\ Counted(ps) \in Nat
  BY LiveFinite, FiniteSystem DEF Counted, Live
<1>2. \A p \in ps : /\ p \in A <=> \/ state[p] \notin {"UNBORN", "HALTED"}
                                   \/ state[p] = "HALTED" /\ running = p
                    /\ p \in B <=> \/ state'[p] \notin {"UNBORN", "HALTED"}
                                   \/ state'[p] = "HALTED" /\ running' = p
  BY DEF Live
<1>3. A \subseteq ps /\ B \subseteq ps
  BY DEF Live
<1> HIDE DEF A, B
<1>4. \A p \in ps : p \in B <=> p \in A /\ ~(gone /\ p = running)
  BY <1>2
<1>5. CASE gone
  <2>1. running \in A /\ B = A \ {running}
    BY <1>2, <1>3, <1>4, <1>5
  <2>2. Cardinality(A \ {running}) = Cardinality(A) - 1
    BY <1>1, <2>1, FS_RemoveElement
  <2>. QED
    BY <1>1, <1>5, <2>1, <2>2
<1>6. CASE ~gone
  <2>1. B = A
    BY <1>3, <1>4, <1>6
  <2>. QED
    BY <1>1, <1>6, <2>1
<1>. QED
  BY <1>5, <1>6

\* A process of ps is created.
LEMMA CountedCreation ==
    ASSUME NEW ps \in {IOProcs, CompProcs}, NEW x \in ps, state[x] = "UNBORN",
           running' = running,
           \A p \in ps : state'[p] = IF p = x THEN "NEW" ELSE state[p]
    PROVE  Counted(ps)' = Counted(ps) + 1
<1> DEFINE A == Live(ps)
           B == Live(ps)'
<1>1. IsFiniteSet(A) /\ Counted(ps) = Cardinality(A) /\ Counted(ps)' = Cardinality(B)
      /\ Counted(ps) \in Nat
  BY LiveFinite, FiniteSystem DEF Counted, Live
<1>2. B = A \union {x} /\ x \notin A
  BY DEF Live
<1> HIDE DEF A, B
<1>. QED
  BY <1>1, <1>2, FS_AddElement

LEMMA CountedSame ==
    ASSUME NEW ps, running' = running, \A p \in ps : state'[p] = state[p]
    PROVE  Counted(ps)' = Counted(ps)
BY DEF Counted

\* No process is created: the totals, and the caps, follow.
LEMMA StepTotals ==
    ASSUME Inv, PlacesOK, ReadyOK, [Next]_vars, ~Creates
    PROVE  ReadyOK'
<1>1. PICK own, blk, tb : /\ LockStep(own, blk, tb) /\ Destructs(own, blk, tb)
                          /\ Moves(blk, Lost)
  BY StepIsSeen DEF StepSeen, Creates
<1>2. NewAtLevelZero /\ ReadyByPriority /\ BootRuns /\ TotalsExact /\ CapsKept
  BY DEF ReadyOK
<1>3. \A p \in Proc \ {Idle} :
         state'[p] \in {"UNBORN", "NEW"} \/ state[p] \in {"UNBORN", "HALTED"}
            => state'[p] = state[p]
  BY <1>1 DEF Moves
<1>4. running' = running \/ state'[running'] = "RUNNING"
  BY <1>1 DEF Moves
<1>5. /\ running \in Proc /\ state[running] \in {"RUNNING", "INTERRUPTED", "WAITING", "HALTED"}
      /\ \A ps \in {IOProcs, CompProcs} : ps \subseteq Proc \ {Idle}
      /\ state[Idle] # "HALTED"
  BY PlacesFacts, ProcessesDistinct DEF Proc
<1>6. /\ SortedBy(ready', priority')
      /\ \A p \in Proc \ {running} : priority'[p] \in {priority[p], 0}
      /\ running' = Idle => Boot \notin Range(ready')
      /\ BootRuns'
      /\ \A p \in Proc : state'[p] = "HALTED" => state[p] = "HALTED" \/ p = running'
      /\ LET gone == state[running] = "HALTED" /\ running' # running
         IN  /\ total_io' = IF gone /\ running \in IOProcs THEN total_io - 1 ELSE total_io
             /\ total_comp' = IF gone /\ running \in CompProcs THEN total_comp - 1
                              ELSE total_comp
  <2>1. CASE Quiet
    <3>1. BootRuns'
      BY <1>2, <2>1 DEF Quiet, BootRuns, Proc
    <3>. QED
      BY <1>2, <2>1, <3>1 DEF Quiet, ReadyByPriority, CapsKept
  <2>2. CASE Schedules
    <3>1. PICK q, pr, st : /\ LegalQueue(q, pr, st)
                           /\ \E z, o, b, t : Housekeeping(z, pr, o, b, t)
                           /\ \E saved : \/ /\ KeepRunning(q, st, saved)
                                            /\ UNCHANGED <<total_io, total_comp>>
                                         \/ TakeNext(q, st, saved) /\ TotalsFollow
      BY <2>2 DEF Schedules
    <3>2. PICK z, o, b, t : Housekeeping(z, pr, o, b, t)
      BY <3>1
    <3>3. PICK saved : \/ /\ KeepRunning(q, st, saved)
                          /\ UNCHANGED <<total_io, total_comp>>
                       \/ TakeNext(q, st, saved) /\ TotalsFollow
      BY <3>1
    <3>4. /\ SortedBy(ready', priority')
          /\ \A p \in Proc \ {running} : priority'[p] \in {priority[p], 0}
          /\ running' = Idle /\ BootRuns /\ Boot \in Range(ready')
                => running = Idle /\ Boot \in Range(ready)
          /\ BootRuns => BootRuns'
          /\ \A p \in Proc : state'[p] = "HALTED" => state[p] = "HALTED"
          /\ TakeNext(q, st, saved) => state'[running'] = "RUNNING"
      BY <3>1, <3>2, <3>3, SchedulerLeaves
    <3>5. CASE KeepRunning(q, st, saved) /\ UNCHANGED <<total_io, total_comp>>
      BY <1>2, <3>4, <3>5 DEF KeepRunning, CapsKept
    <3>6. CASE TakeNext(q, st, saved) /\ TotalsFollow
      <4>1. state[running] = "HALTED" => running' # running
        BY <1>3, <1>5, <3>4, <3>6
      <4>. QED
        BY <1>2, <3>4, <3>6, <4>1 DEF TotalsFollow, CapsKept
    <3>. QED
      BY <3>3, <3>5, <3>6
  <2>. QED
    BY <1>2, <2>1, <2>2, NextSchedules
<1>7. NewAtLevelZero'
  <2> SUFFICES ASSUME NEW p \in Proc, state'[p] \in {"UNBORN", "NEW"}, p # Idle
               PROVE  priority'[p] = 0
    BY DEF NewAtLevelZero
  <2>1. state[p] = state'[p] /\ p # running
    BY <1>3, <1>5
  <2>. QED
    BY <1>2, <1>6, <2>1 DEF NewAtLevelZero
<1>8. ASSUME NEW ps \in {IOProcs, CompProcs}
      PROVE  Counted(ps)' = IF state[running] = "HALTED" /\ running' # running /\ running \in ps
                            THEN Counted(ps) - 1 ELSE Counted(ps)
  <2>1. \A p \in ps : /\ state[p] \in {"UNBORN", "HALTED"} => state'[p] = state[p]
                      /\ state[p] \notin {"UNBORN", "HALTED"} => state'[p] # "UNBORN"
                      /\ state'[p] = "HALTED" => state[p] = "HALTED" \/ p = running'
    BY <1>3, <1>5, <1>6
  <2>. QED
    BY <1>4, <1>5, <2>1, CountedStep
<1>9. /\ Counted(IOProcs) \in Nat /\ Counted(CompProcs) \in Nat
      /\ total_io = Counted(IOProcs) /\ total_comp = Counted(CompProcs) + 1
  BY <1>2, LiveFinite DEF TotalsExact
<1>10. total_io' = Counted(IOProcs)' /\ total_comp' = Counted(CompProcs)' + 1
  BY <1>6, <1>8, <1>9
<1>11. /\ Cardinality(pairs' \intersect CPPairs) <= PRO_CON_MAX
       /\ Cardinality(pairs' \intersect ResPairs) <= SHARED_RESOURCE_MAX
  <2>1. pairs' \subseteq pairs
    BY <1>1 DEF Destructs
  <2>2. IsFiniteSet(pairs \intersect CPPairs) /\ IsFiniteSet(pairs \intersect ResPairs)
    BY FiniteSystem, FS_Intersection
  <2>3. /\ pairs' \intersect CPPairs \in SUBSET (pairs \intersect CPPairs)
        /\ pairs' \intersect ResPairs \in SUBSET (pairs \intersect ResPairs)
    BY <2>1
  <2>4. /\ Cardinality(pairs' \intersect CPPairs) <= Cardinality(pairs \intersect CPPairs)
        /\ Cardinality(pairs' \intersect ResPairs) <= Cardinality(pairs \intersect ResPairs)
        /\ Cardinality(pairs' \intersect CPPairs) \in Nat
        /\ Cardinality(pairs \intersect CPPairs) \in Nat
        /\ Cardinality(pairs' \intersect ResPairs) \in Nat
        /\ Cardinality(pairs \intersect ResPairs) \in Nat
    BY <2>2, <2>3, FS_Subset, FS_CardinalityType
  <2>. QED
    BY <1>2, <2>4, KernelBounds DEF CapsKept
<1>12. CapsKept'
  <2>1. total_io' <= total_io /\ total_comp' <= total_comp
        /\ total_io' \in Int /\ total_comp' \in Int
    BY <1>6, <1>9
  <2>. QED
    BY <1>2, <1>6, <1>9, <1>11, <2>1, KernelBounds DEF CapsKept
<1>. QED
  BY <1>6, <1>7, <1>10, <1>12 DEF ReadyOK, ReadyByPriority, TotalsExact

\* One pair more, where the cap leaves room for it.
LEMMA PairsCap ==
    ASSUME NEW C \in {CPPairs, ResPairs}, NEW pair, NEW cap \in Nat,
           Cardinality(pairs \intersect C) < cap, pairs' = pairs \union {pair}
    PROVE  Cardinality(pairs' \intersect C) <= cap
<1> DEFINE A == pairs \intersect C
           B == pairs' \intersect C
<1>1. IsFiniteSet(A) /\ Cardinality(A) \in Nat
  BY FiniteSystem, FS_Intersection, FS_CardinalityType
<1>2. B = A \/ (B = A \union {pair} /\ pair \notin A)
  OBVIOUS
<1>3. Cardinality(A) < cap
  OBVIOUS
<1> HIDE DEF A, B
<1>4. ASSUME B = A PROVE Cardinality(B) <= cap
  BY <1>1, <1>3, <1>4
<1>5. ASSUME B = A \union {pair}, pair \notin A PROVE Cardinality(B) <= cap
  <2>1. Cardinality(A \union {pair}) = Cardinality(A) + 1
    BY <1>1, <1>5, FS_AddElement
  <2>. QED
    BY <1>1, <1>3, <1>5, <2>1
<1>6. Cardinality(B) <= cap
  BY <1>2, <1>4, <1>5
<1>. QED
  BY <1>6 DEF B

LEMMA CreationTotals ==
    ASSUME Inv, PlacesOK, ReadyOK, Creates
    PROVE  ReadyOK'
<1>1. NewAtLevelZero /\ ReadyByPriority /\ BootRuns /\ TotalsExact /\ CapsKept
  BY DEF ReadyOK
<1>2. CPPairs \intersect ResPairs = {}
  BY ProcessesDistinct DEF CPProcs, ResProcs, Members
<1>3. PICK ps \in Seq(Proc) :
         /\ Enter(ps)
         /\ \/ \E x \in IOProcs \union CompProcs : Range(ps) = {x} /\ pairs' = pairs
            \/ \E pair \in Pairs : Range(ps) = Members(pair) /\ pairs' = pairs \union {pair}
  BY CreationSeen DEF Creates
<1>4. /\ UNCHANGED <<priority, ready, running>>
      /\ \A p \in Proc : state'[p] = IF p \in Range(ps) THEN "NEW" ELSE state[p]
      /\ \A p \in Range(ps) : state[p] = "UNBORN"
  BY <1>3, RangeEquality DEF Enter, cpuVars
<1>5. NewAtLevelZero'
  BY <1>1, <1>4 DEF NewAtLevelZero
<1>6. BootRuns'
  BY <1>1, <1>4 DEF BootRuns, Proc
<1>7. ReadyByPriority'
  BY <1>1, <1>4 DEF ReadyByPriority
<1>8. /\ Counted(IOProcs) \in Nat /\ Counted(CompProcs) \in Nat
      /\ total_io = Counted(IOProcs) /\ total_comp = Counted(CompProcs) + 1
  BY <1>1, LiveFinite DEF TotalsExact
<1>9. IOProcs \subseteq Proc /\ CompProcs \subseteq Proc /\ IOProcs \intersect CompProcs = {}
      /\ \A pair \in Pairs : Members(pair) \intersect (IOProcs \union CompProcs) = {}
  BY ProcessesDistinct, PairProcs DEF Proc
<1>10. ASSUME NEW set \in {IOProcs, CompProcs}, Range(ps) \intersect set = {}
       PROVE  Counted(set)' = Counted(set)
  <2>1. \A p \in set : state'[p] = state[p]
    BY <1>4, <1>9, <1>10
  <2>. QED
    BY <1>4, <2>1, CountedSame
<1>11. ASSUME NEW set \in {IOProcs, CompProcs}, NEW x \in set, Range(ps) = {x}
       PROVE  Counted(set)' = Counted(set) + 1
  <2>1. state[x] = "UNBORN" /\ \A p \in set : state'[p] = IF p = x THEN "NEW" ELSE state[p]
    BY <1>4, <1>9, <1>11
  <2>. QED
    BY <1>4, <2>1, CountedCreation
<1>12. ASSUME NEW x, Enter(<<x>>), x \in Proc
       PROVE  Range(ps) = {x}
  <2>1. newQ \in Seq(Proc) /\ newQ' = newQ \o ps /\ newQ' = newQ \o <<x>> /\ <<x>> \in Seq(Proc)
    BY <1>3, <1>12 DEF Enter, Inv, TypeOK
  <2>2. \A p \in Proc : state'[p] = IF p \in Range(<<x>>) THEN "NEW" ELSE state[p]
    BY <1>12 DEF Enter
  <2>3. state[x] = "UNBORN"
    <3>1. Len(<<x>>) = 1 /\ <<x>>[1] = x
      OBVIOUS
    <3>. QED
      BY <1>12, <3>1 DEF Enter
  <2>4. \A p \in Proc : p \in Range(ps) <=> p = x
    <3>1. \A p \in Proc : p \in Range(ps) <=> state'[p] # state[p]
      BY <1>4
    <3>2. Range(<<x>>) = {x}
      BY OneInQueue
    <3>. QED
      BY <2>2, <2>3, <3>1, <3>2, <1>4
  <2>. QED
    BY <1>12, <2>4, RangeOfSeq
<1>13. CASE CreateIOProcess
  <2>1. PICK x \in IOProcs : Enter(<<x>>)
    BY <1>13 DEF CreateIOProcess
  <2>2. Range(ps) = {x}
    BY <1>9, <1>12, <2>1
  <2>3. Counted(IOProcs)' = Counted(IOProcs) + 1 /\ Counted(CompProcs)' = Counted(CompProcs)
    BY <1>9, <1>10, <1>11, <2>2
  <2>4. total_io' = total_io + 1 /\ total_comp' = total_comp /\ pairs' = pairs
        /\ total_io < IO_PROCESS_MAX
    BY <1>13 DEF CreateIOProcess
  <2>5. TotalsExact' /\ CapsKept'
    BY <1>1, <1>4, <1>8, <2>3, <2>4, KernelBounds DEF TotalsExact, CapsKept
  <2>. QED
    BY <1>5, <1>6, <1>7, <2>5 DEF ReadyOK
<1>14. CASE CreateComputeIntensiveProcess
  <2>1. PICK x \in CompProcs : Enter(<<x>>)
    BY <1>14 DEF CreateComputeIntensiveProcess
  <2>2. Range(ps) = {x}
    BY <1>9, <1>12, <2>1
  <2>3. Counted(CompProcs)' = Counted(CompProcs) + 1 /\ Counted(IOProcs)' = Counted(IOProcs)
    BY <1>9, <1>10, <1>11, <2>2
  <2>4. total_comp' = total_comp + 1 /\ total_io' = total_io /\ pairs' = pairs
        /\ total_comp < COMPUTE_PROCESS_MAX
    BY <1>14 DEF CreateComputeIntensiveProcess
  <2>5. TotalsExact' /\ CapsKept'
    BY <1>1, <1>4, <1>8, <2>3, <2>4, KernelBounds DEF TotalsExact, CapsKept
  <2>. QED
    BY <1>5, <1>6, <1>7, <2>5 DEF ReadyOK
<1>15. ASSUME NEW pair \in Pairs, pairs' = pairs \union {pair}, Enter(pair),
              UNCHANGED <<total_io, total_comp>>,
              \/ pair \in CPPairs /\ Cardinality(pairs \intersect CPPairs) < PRO_CON_MAX
              \/ pair \in ResPairs /\ Cardinality(pairs \intersect ResPairs) < SHARED_RESOURCE_MAX
       PROVE  ReadyOK'
  <2>1. Range(ps) \intersect (IOProcs \union CompProcs) = {}
    <3>1. \A i \in 1 .. Len(pair) : state[pair[i]] = "UNBORN"
      BY <1>15 DEF Enter
    <3>2. \A p \in Proc : state'[p] = IF p \in Range(pair) THEN "NEW" ELSE state[p]
      BY <1>15 DEF Enter
    <3>3. \A p \in Proc : p \in Range(ps) => p \in Range(pair)
      BY <1>4, <3>2
    <3>4. Range(pair) = Members(pair)
      <4> DEFINE a == pair[1]
                 b == pair[2]
      <4>1. pair = <<a, b>>
        BY PairsDisjoint
      <4> HIDE DEF a, b
      <4>2. Range(<<a, b>>) = {a, b}
        BY DEF Range
      <4>. QED
        BY <4>1, <4>2 DEF Members, a, b
    <3>. QED
      BY <1>9, <3>3, <3>4
  <2>2. Counted(CompProcs)' = Counted(CompProcs) /\ Counted(IOProcs)' = Counted(IOProcs)
    BY <1>10, <2>1
  <2>3. CapsKept'
    <3>1. CASE pair \in CPPairs /\ Cardinality(pairs \intersect CPPairs) < PRO_CON_MAX
      <4>1. Cardinality(pairs' \intersect CPPairs) <= PRO_CON_MAX
        BY <1>15, <3>1, PairsCap, KernelBounds
      <4>2. pairs' \intersect ResPairs = pairs \intersect ResPairs
        BY <1>2, <1>15, <3>1
      <4>. QED
        BY <1>1, <1>4, <1>15, <4>1, <4>2 DEF CapsKept
    <3>2. CASE pair \in ResPairs /\ Cardinality(pairs \intersect ResPairs) < SHARED_RESOURCE_MAX
      <4>1. Cardinality(pairs' \intersect ResPairs) <= SHARED_RESOURCE_MAX
        BY <1>15, <3>2, PairsCap, KernelBounds
      <4>2. pairs' \intersect CPPairs = pairs \intersect CPPairs
        BY <1>2, <1>15, <3>2
      <4>. QED
        BY <1>1, <1>4, <1>15, <4>1, <4>2 DEF CapsKept
    <3>. QED
      BY <1>15, <3>1, <3>2
  <2>4. TotalsExact'
    BY <1>1, <1>15, <2>2 DEF TotalsExact
  <2>. QED
    BY <1>5, <1>6, <1>7, <2>3, <2>4 DEF ReadyOK
<1>16. CASE CreateConsumerProducerPair
  BY <1>15, <1>16 DEF CreateConsumerProducerPair, Pairs, cntVars
<1>17. CASE CreateSharedResourcePair
  BY <1>15, <1>17 DEF CreateSharedResourcePair, Pairs, cntVars
<1>. QED
  BY <1>13, <1>14, <1>16, <1>17 DEF Creates

\* The ready queue is in order, Boot and the idle process never meet in it,
\* the totals are exact and within their caps.
THEOREM ReadyIsKept == Spec => []ReadyOK
<1>1. Init => ReadyOK
  BY InitReady
<1>2. Inv /\ PlacesOK /\ ReadyOK /\ [Next]_vars => ReadyOK'
  BY StepTotals, CreationTotals
<1>. QED
  BY <1>1, <1>2, Invariance, PlacesAreKept, PTL DEF Spec

\* The ready queue is served by priority although priorities change, and
\* processes come back from everywhere, while others are queued.
THEOREM ReadyIsSorted == Spec => []ReadyByPriority
<1>1. ReadyOK => ReadyByPriority
  BY DEF ReadyOK
<1>. QED
  BY <1>1, ReadyIsKept, PTL

\* The counters that the caps on creation are tested against are what there
\* is of live processes, whoever terminates whenever.
THEOREM TotalsAreExact == Spec => []TotalsExact
<1>1. ReadyOK => TotalsExact
  BY DEF ReadyOK
<1>. QED
  BY <1>1, ReadyIsKept, PTL

-----------------------------------------------------------------------------
(***************************************************************************)
(* The length of the ready queue: every process of the queue is counted in *)
(* a total or belongs to a pair, and so does the running one, or Boot if   *)
(* the idle process runs.                                                  *)
(***************************************************************************)
LEMMA AtMostSum ==
    ASSUME NEW A, NEW B, IsFiniteSet(A), IsFiniteSet(B)
    PROVE  /\ IsFiniteSet(A \union B)
           /\ Cardinality(A \union B) <= Cardinality(A) + Cardinality(B)
           /\ Cardinality(A) \in Nat /\ Cardinality(B) \in Nat /\ Cardinality(A \union B) \in Nat
<1>1. IsFiniteSet(A \union B) /\ IsFiniteSet(A \intersect B)
  BY FS_Union, FS_Intersection
<1>2. Cardinality(A \union B) = Cardinality(A) + Cardinality(B) - Cardinality(A \intersect B)
  BY FS_Union
<1>3. /\ Cardinality(A) \in Nat /\ Cardinality(B) \in Nat /\ Cardinality(A \union B) \in Nat
      /\ Cardinality(A \intersect B) \in Nat
  BY <1>1, FS_CardinalityType
<1>. QED
  BY <1>1, <1>2, <1>3

MembersOf(Q) == UNION {Members(pair) : pair \in Q}

LEMMA ReadyIsShort == Inv /\ PlacesOK /\ PairsOK /\ ReadyOK => ReadyBounded
<1> SUFFICES ASSUME Inv, PlacesOK, PairsOK, ReadyOK, COMPUTE_PROCESS_MAX > 0
             PROVE  Len(ready) < 2 * (PRO_CON_MAX + SHARED_RESOURCE_MAX)
                                     + IO_PROCESS_MAX + COMPUTE_PROCESS_MAX
  BY DEF ReadyBounded
<1> DEFINE cp  == pairs \intersect CPPairs
           res == pairs \intersect ResPairs
           A == Live(IOProcs)
           B == Live(CompProcs)
           C == MembersOf(cp)
           D == MembersOf(res)
           all == ((({Boot} \union A) \union B) \union C) \union D
           r == IF running = Idle THEN Boot ELSE running
<1>1. BootRuns /\ TotalsExact /\ CapsKept
  BY DEF ReadyOK
<1>2. /\ IsFiniteSet(A) /\ IsFiniteSet(B)
      /\ Cardinality(A) = total_io /\ Cardinality(B) = total_comp - 1
      /\ total_io \in Int /\ total_comp \in Int
  <2>1. /\ Counted(IOProcs) = Cardinality(A) /\ Counted(CompProcs) = Cardinality(B)
        /\ Cardinality(A) \in Nat /\ Cardinality(B) \in Nat
    BY LiveFinite
  <2>. QED
    BY <1>1, <2>1, LiveFinite DEF TotalsExact
<1>3. /\ IsFiniteSet(C) /\ IsFiniteSet(D)
      /\ Cardinality(C) = 2 * Cardinality(cp) /\ Cardinality(D) = 2 * Cardinality(res)
      /\ Cardinality(cp) \in Nat /\ Cardinality(res) \in Nat
  <2>1. /\ IsFiniteSet(cp) /\ IsFiniteSet(res)
        /\ cp \in SUBSET Pairs /\ res \in SUBSET Pairs
    BY FiniteSystem, FS_Intersection DEF Pairs
  <2>. QED
    BY <2>1, PairMembers, FS_CardinalityType DEF MembersOf
<1>4. \A p \in Proc : /\ p # Idle /\ p # Boot /\ ~Nowhere(p)
                         /\ state[p] # "UNBORN" /\ (state[p] = "HALTED" => p = running)
                            => p \in A \union B \union C \union D
  <2> SUFFICES ASSUME NEW p \in Proc, p # Idle, p # Boot, ~Nowhere(p), state[p] # "UNBORN",
                      state[p] = "HALTED" => p = running
               PROVE  p \in A \union B \union C \union D
    OBVIOUS
  <2>1. CASE p \in IOProcs \union CompProcs
    BY <2>1 DEF Live
  <2>2. CASE p \in CPProcs \union ResProcs
    <3>1. PICK pair \in Pairs : p \in Members(pair)
      BY <2>2 DEF CPProcs, ResProcs, Pairs
    <3>2. pair \in pairs
      BY <3>1 DEF PairsOK
    <3>. QED
      BY <3>1, <3>2 DEF MembersOf, Pairs
  <2>. QED
    BY <2>1, <2>2 DEF Proc
<1>5. r \in all
  <2>1. ~Nowhere(running) /\ running \in Proc /\ state[running] # "UNBORN"
    BY PlacesFacts DEF Nowhere
  <2>. QED
    BY <1>4, <2>1
<1>6. Range(ready) \subseteq all \ {r}
  <2> SUFFICES ASSUME NEW p \in Range(ready) PROVE p \in all /\ p # r
    OBVIOUS
  <2>1. state[p] = "READY" /\ p # Idle /\ p \in Proc /\ ~Nowhere(p)
    BY PlacesFacts DEF Nowhere
  <2>2. p # running
    BY <2>1, PlacesFacts
  <2>3. p # r
    BY <1>1, <2>2 DEF CapsKept
  <2>. QED
    BY <1>4, <2>1, <2>3
<1>7. /\ IsFiniteSet(all)
      /\ Cardinality(all) <= 1 + total_io + (total_comp - 1) + 2 * Cardinality(cp)
                               + 2 * Cardinality(res)
      /\ Cardinality(all) \in Nat
  <2> HIDE DEF A, B, C, D, cp, res
  <2>1. IsFiniteSet({Boot}) /\ Cardinality({Boot}) = 1
    BY FS_Singleton
  <2> DEFINE E == {Boot} \union A
             F == E \union B
             G == F \union C
  <2>2. IsFiniteSet(E) /\ Cardinality(E) <= 1 + total_io /\ Cardinality(E) \in Nat
    BY <1>2, <2>1, AtMostSum
  <2>3. IsFiniteSet(F) /\ Cardinality(F) <= Cardinality(E) + (total_comp - 1)
        /\ Cardinality(F) \in Nat
    <3> HIDE DEF E
    <3>. QED
      BY <1>2, <2>2, AtMostSum
  <2>4. IsFiniteSet(G) /\ Cardinality(G) <= Cardinality(F) + 2 * Cardinality(cp)
        /\ Cardinality(G) \in Nat
    <3> HIDE DEF F
    <3>. QED
      BY <1>3, <2>3, AtMostSum
  <2>5. IsFiniteSet(G \union D) /\ Cardinality(G \union D) <= Cardinality(G) + 2 * Cardinality(res)
        /\ Cardinality(G \union D) \in Nat
    <3> HIDE DEF G
    <3>. QED
      BY <1>3, <2>4, AtMostSum
  <2>6. all = G \union D
    OBVIOUS
  <2> DEFINE e == Cardinality(E)
             f == Cardinality(F)
             g == Cardinality(G)
             all_ == Cardinality(G \union D)
             c == Cardinality(cp)
             d == Cardinality(res)
  <2>7. /\ e \in Nat /\ f \in Nat /\ g \in Nat /\ all_ \in Nat /\ c \in Nat /\ d \in Nat
        /\ e <= 1 + total_io /\ f <= e + (total_comp - 1)
        /\ g <= f + 2 * c /\ all_ <= g + 2 * d
    BY <1>3, <2>2, <2>3, <2>4, <2>5
  <2>8. all_ <= 1 + total_io + (total_comp - 1) + 2 * c + 2 * d
    <3> HIDE DEF e, f, g, all_, c, d
    <3>. QED
      BY <1>2, <2>7
  <2>. QED
    BY <2>5, <2>6, <2>8
<1>8. Len(ready) = Cardinality(Range(ready))
  BY OnceLength DEF Inv, TypeOK, PlacesOK, QueuedOnce
<1> HIDE DEF all, r
<1>9. Cardinality(Range(ready)) <= Cardinality(all) - 1 /\ Cardinality(Range(ready)) \in Nat
  <2>1. IsFiniteSet(all \ {r}) /\ Cardinality(all \ {r}) = Cardinality(all) - 1
    BY <1>5, <1>7, FS_RemoveElement
  <2>2. Range(ready) \in SUBSET (all \ {r})
    BY <1>6
  <2>. QED
    BY <2>1, <2>2, FS_Subset, FS_CardinalityType
<1>10. /\ total_io <= IO_PROCESS_MAX /\ total_comp <= COMPUTE_PROCESS_MAX
       /\ Cardinality(cp) <= PRO_CON_MAX /\ Cardinality(res) <= SHARED_RESOURCE_MAX
       /\ {IO_PROCESS_MAX, COMPUTE_PROCESS_MAX, PRO_CON_MAX, SHARED_RESOURCE_MAX} \subseteq Nat
  BY <1>1, KernelBounds DEF CapsKept
<1> DEFINE n == Cardinality(all)
           len == Cardinality(Range(ready))
           c == Cardinality(cp)
           d == Cardinality(res)
<1>11. /\ n \in Nat /\ len \in Nat /\ c \in Nat /\ d \in Nat
       /\ len <= n - 1 /\ c <= PRO_CON_MAX /\ d <= SHARED_RESOURCE_MAX
       /\ n <= 1 + total_io + (total_comp - 1) + 2 * c + 2 * d
  BY <1>3, <1>7, <1>9, <1>10
<1>12. len < 2 * (PRO_CON_MAX + SHARED_RESOURCE_MAX) + IO_PROCESS_MAX + COMPUTE_PROCESS_MAX
  <2> HIDE DEF n, len, c, d
  <2>. QED
    BY <1>2, <1>10, <1>11
<1>. QED
  BY <1>8, <1>12

\* The ready queue is shorter than what the caps on creation allow at once,
\* which with the caps of OS.h is below the length asserted in OS_Simulator.
THEOREM ReadyIsBounded == Spec => []ReadyBounded
BY ReadyIsShort, Invariance, PlacesAreKept, PairsAreKept, ReadyIsKept, PTL
=============================================================================
