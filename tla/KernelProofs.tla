---------------------------- MODULE KernelProofs ----------------------------
(***************************************************************************)
(* Proofs about Kernel, for any set of processes and any programs: the     *)
(* types, the balance of the system stack, the devices' switches, and that *)
(* no service or interrupt routine loses the place where a process was.    *)
(* Inv is inductive; ContextKept, and that the kernel keeps the contract   *)
(* IOService with the devices, follow from it step by step.                *)
(***************************************************************************)
EXTENDS Kernel, SequenceTheorems, FiniteSetTheorems, TLAPS

-----------------------------------------------------------------------------
(***************************************************************************)
(* Queues and the stack.                                                   *)
(***************************************************************************)

\* p_enqueue in the middle of the queue keeps a sequence of processes.
LEMMA EnqueueAllType ==
    ASSUME NEW S, NEW q \in Seq(S), NEW pr, NEW n, NEW s \in Seq(S)
    PROVE  EnqueueAll(q, pr, n, s) \in Seq(S)
<1> DEFINE k == Rank(q, pr, n)
<1>1. Len(q) \in Nat /\ \A i \in 1 .. Len(q) : q[i] \in S
  BY LenProperties, ElementOfSeq
<1>2. k \in Nat /\ k <= Len(q)
  <2>1. IsFiniteSet(1 .. Len(q)) /\ Cardinality(1 .. Len(q)) = Len(q)
    <3>1. 1 \in Int /\ Len(q) \in Int /\ Len(q) >= 0
      BY <1>1
    <3>2. /\ IsFiniteSet(1 .. Len(q))
          /\ Cardinality(1 .. Len(q)) = IF 1 > Len(q) THEN 0 ELSE Len(q) - 1 + 1
      BY <3>1, FS_Interval
    <3>. QED
      BY <3>1, <3>2
  <2>2. {i \in 1 .. Len(q) : pr[q[i]] <= n} \in SUBSET (1 .. Len(q))
    OBVIOUS
  <2>. QED
    BY <2>1, <2>2, FS_Subset, FS_CardinalityType DEF Rank
<1> HIDE DEF k
<1>3. SubSeq(q, 1, k) \in Seq(S)
  <2>1. \A i \in 1 .. k : q[i] \in S
    BY <1>1, <1>2
  <2>. QED
    BY <1>2, <2>1, SubSeqProperties
<1>4. SubSeq(q, k + 1, Len(q)) \in Seq(S)
  <2>1. \A i \in (k + 1) .. Len(q) : q[i] \in S
    BY <1>1, <1>2
  <2>2. k + 1 \in Int /\ Len(q) \in Int
    BY <1>1, <1>2
  <2>. QED
    BY <2>1, <2>2, SubSeqProperties
<1>5. SubSeq(q, 1, k) \o s \in Seq(S)
  BY <1>3, ConcatProperties
<1>. QED
  BY <1>4, <1>5, ConcatProperties DEF EnqueueAll, k

LEMMA PEnqueueType ==
    ASSUME NEW q \in Seq(Proc), NEW pr, NEW p \in Proc
    PROVE  PEnqueue(q, pr, p) \in Seq(Proc)
<1>1. <<p>> \in Seq(Proc)
  OBVIOUS
<1>. QED
  BY <1>1, EnqueueAllType DEF PEnqueue

\* p_dequeue returns a process, the idle one if need be.
LEMMA PDequeueType ==
    ASSUME NEW q \in Seq(Proc)
    PROVE  PDequeue(q, Idle) \in Proc /\ PRest(q) \in Seq(Proc)
BY HeadTailProperties, EmptySeq DEF PDequeue, PRest, Proc

\* push leaves what was at the bottom of the stack there.
LEMMA PushProperties ==
    ASSUME NEW s \in Seq(Nat), NEW v \in Nat
    PROVE  /\ Push(v, s) \in Seq(Nat)
           /\ Len(Push(v, s)) = Len(s) + 1
           /\ Push(v, s)[Len(s) + 1] = IF Len(s) = 0 THEN v ELSE s[Len(s)]
<1>1. <<v>> \in Seq(Nat) /\ Len(<<v>>) = 1 /\ <<v>>[1] = v /\ Len(s) \in Nat
  BY LenProperties
<1>2. /\ <<v>> \o s \in Seq(Nat)
      /\ Len(<<v>> \o s) = 1 + Len(s)
      /\ \A i \in 1 .. 1 + Len(s) :
            (<<v>> \o s)[i] = IF i <= 1 THEN <<v>>[i] ELSE s[i - 1]
  BY <1>1, ConcatProperties
<1>. QED
  BY <1>1, <1>2 DEF Push

\* pop, too.
LEMMA PopProperties ==
    ASSUME NEW s \in Seq(Nat), Len(s) > 0
    PROVE  /\ Head(s) \in Nat
           /\ Pop(s) \in Seq(Nat)
           /\ Len(Pop(s)) = Len(s) - 1
           /\ Len(s) > 1 => Pop(s)[Len(s) - 1] = s[Len(s)]
           /\ Len(s) = 1 => Head(s) = s[Len(s)]
<1>1. s # <<>> /\ Len(s) \in Nat
  BY EmptySeq, LenProperties
<1>2. /\ Head(s) \in Nat /\ Tail(s) \in Seq(Nat) /\ Len(Tail(s)) = Len(s) - 1
      /\ \A i \in 1 .. Len(Tail(s)) : Tail(s)[i] = s[i + 1]
  BY <1>1, HeadTailProperties
<1>3. Head(s) = s[1]
  BY <1>1
<1>. QED
  BY <1>1, <1>2, <1>3 DEF Pop

-----------------------------------------------------------------------------
(***************************************************************************)
(* The processes and the services they request.                            *)
(***************************************************************************)

LEMMA PairOfCP ==
    ASSUME NEW p \in CPProcs
    PROVE  PairOf(p) \in CPPairs /\ p \in Members(PairOf(p))
<1>1. PICK pair \in CPPairs : p \in Members(pair)
  BY DEF CPProcs
<1>2. PairOf(p) \in Pairs /\ p \in Members(PairOf(p))
  BY <1>1 DEF PairOf, Pairs
<1>3. PairOf(p) \notin ResPairs
  BY <1>2, ProcessesDistinct DEF ResProcs
<1>. QED
  BY <1>2, <1>3 DEF Pairs

LEMMA PairOfRes ==
    ASSUME NEW p \in ResProcs
    PROVE  PairOf(p) \in ResPairs /\ p \in Members(PairOf(p))
<1>1. PICK pair \in ResPairs : p \in Members(pair)
  BY DEF ResProcs
<1>2. PairOf(p) \in Pairs /\ p \in Members(PairOf(p))
  BY <1>1 DEF PairOf, Pairs
<1>3. PairOf(p) \notin CPPairs
  BY <1>2, ProcessesDistinct DEF CPProcs
<1>. QED
  BY <1>2, <1>3 DEF Pairs

\* Whatever service a process requests, the mutex and the conditions it is
\* about exist.
LEMMA ServiceObjects ==
    ASSUME NEW p, NEW op, ServiceExists(p, op)
    PROVE  /\ p \in Proc /\ p # Idle /\ op \in Services
           /\ op \in LockOps \union UnlockOps \union {"WAIT_RESOURCE_1", "SIGNAL_RESOURCE_1"}
                => MutexOf(p, op) \in Mutex
           /\ op \in {"WAIT_RESOURCE_1", "SIGNAL_RESOURCE_1"}
                => /\ PairOf(p) \in CPPairs
                   /\ WaitCond(p) \in Cond /\ SignalCond(p) \in Cond
<1>1. p \in IOProcs \union CompProcs \union CPProcs \union ResProcs
  BY DEF ServiceExists
<1>2. p \in Proc /\ p # Idle
  BY <1>1, ProcessesDistinct DEF Proc
<1>3. op \in Services
  BY DEF ServiceExists, Services, LockOps, UnlockOps, IOTraps
<1>4. CASE p \in CPProcs
  <2>1. PairOf(p) \in CPPairs
    BY <1>4, PairOfCP
  <2>2. MutexOf(p, op) = <<PairOf(p), "mutex">>
    BY <1>4 DEF MutexOf
  <2>3. MutexOf(p, op) \in Mutex
    BY <2>1, <2>2 DEF Mutex
  <2>4. WaitCond(p) \in Cond /\ SignalCond(p) \in Cond
    BY <2>1 DEF WaitCond, SignalCond, Cond
  <2>. QED
    BY <1>2, <1>3, <2>1, <2>3, <2>4
<1>5. CASE p \in ResProcs
  <2>1. PairOf(p) \in ResPairs
    BY <1>5, PairOfRes
  <2>2. MutexOf(p, op) \in {<<PairOf(p), "mutex_1">>, <<PairOf(p), "mutex_2">>}
    BY <1>5, ProcessesDistinct DEF MutexOf
  <2>3. MutexOf(p, op) \in Mutex
    BY <2>1, <2>2 DEF Mutex
  <2>4. op \notin {"WAIT_RESOURCE_1", "SIGNAL_RESOURCE_1"}
    BY <1>5, ProcessesDistinct DEF ServiceExists, LockOps, UnlockOps
  <2>. QED
    BY <1>2, <1>3, <2>3, <2>4
<1>6. CASE p \in IOProcs \union CompProcs
  BY <1>2, <1>3, <1>6, ProcessesDistinct
     DEF ServiceExists, LockOps, UnlockOps, IOTraps
<1>. QED
  BY <1>1, <1>4, <1>5, <1>6

\* isAtTrap and isAtSyncro answer with services of the process's program.
LEMMA RequestedExists ==
    ASSUME NEW p, NEW c, NEW n
    PROVE  LET trap == IsAtTrap(p, c, n)
               op   == IF trap # "NONE" THEN trap ELSE IsAtSyncro(p, c)
           IN  op # "NONE" => ServiceExists(p, op)
<1> DEFINE trap == IsAtTrap(p, c, n)
           op   == IF trap # "NONE" THEN trap ELSE IsAtSyncro(p, c)
<1>1. CASE p \in IOProcs \union CompProcs
  <2>1. IsAtSyncro(p, c) = "NONE"
    BY <1>1, ProcessesDistinct DEF IsAtSyncro
  <2>2. trap # "NONE" => ServiceExists(p, trap)
    <3>1. p \in IOProcs /\ c \in DOMAIN IOTrapAt[p] => IOTrapAt[p][c] \in IOTraps
      BY UserPrograms DEF IOTraps
    <3>. QED
      BY <1>1, <3>1 DEF IsAtTrap, ServiceExists
  <2>. QED
    BY <2>1, <2>2
<1>2. CASE p \notin IOProcs \union CompProcs
  <2>1. trap = "NONE"
    BY <1>2 DEF IsAtTrap
  <2>2. IsAtSyncro(p, c) # "NONE" => ServiceExists(p, IsAtSyncro(p, c))
    BY ProcessesDistinct
       DEF IsAtSyncro, CPService, ResService, ServiceExists, LockOps, UnlockOps
  <2>. QED
    BY <2>1, <2>2
<1>. QED
  BY <1>1, <1>2

-----------------------------------------------------------------------------
(***************************************************************************)
(* What scheduler() and the dispatchers leave.                             *)
(***************************************************************************)

LEMMA ReadyAfterNewType ==
    ASSUME TypeOK
    PROVE  ReadyAfterNew \in Seq(Proc)
BY EnqueueAllType DEF ReadyAfterNew, TypeOK

\* The PCs stay as they are given, but for that of a new idle PCB.
LEMMA TakeNextType ==
    ASSUME TypeOK,
           NEW q \in Seq(Proc), NEW st \in [Proc -> ProcessStates],
           NEW saved \in [Proc -> Nat],
           TakeNext(q, st, saved)
    PROVE  /\ running' \in Proc
           /\ ready' \in Seq(Proc)
           /\ state' \in [Proc -> ProcessStates]
           /\ pc' \in [Proc -> Nat]
           /\ step' \in [Proc -> StepStates]
           /\ \A p \in Proc \ {Idle} : pc'[p] = saved[p]
<1>1. PDequeue(q, Idle) \in Proc /\ PRest(q) \in Seq(Proc)
  BY PDequeueType
<1>2. \A p \in Proc : StateAfterNew(st, p) \in ProcessStates
  BY DEF StateAfterNew, ProcessStates
<1>3. state' \in [Proc -> ProcessStates]
  BY <1>2 DEF TakeNext, ProcessStates
<1>4. pc' \in [Proc -> Nat] /\ \A p \in Proc \ {Idle} : pc'[p] = saved[p]
  BY DEF TakeNext
<1>5. step' \in [Proc -> StepStates]
  BY DEF TakeNext, TypeOK, StepStates
<1>. QED
  BY <1>1, <1>3, <1>4, <1>5 DEF TakeNext

LEMMA KeepRunningType ==
    ASSUME TypeOK,
           NEW q \in Seq(Proc), NEW st \in [Proc -> ProcessStates],
           NEW saved \in [Proc -> Nat],
           KeepRunning(q, st, saved)
    PROVE  /\ running' \in Proc
           /\ ready' \in Seq(Proc)
           /\ state' \in [Proc -> ProcessStates]
           /\ pc' \in [Proc -> Nat]
           /\ step' \in [Proc -> StepStates]
           /\ \A p \in Proc \ {Idle} : pc'[p] = saved[p]
<1>1. \A p \in Proc : StateAfterNew(st, p) \in ProcessStates
  BY DEF StateAfterNew, ProcessStates
<1>2. state' \in [Proc -> ProcessStates]
  BY <1>1 DEF KeepRunning
<1>. QED
  BY <1>2 DEF KeepRunning, TypeOK

LEMMA TakeNextIfRunningType ==
    ASSUME TypeOK,
           NEW p0 \in Proc, NEW q \in Seq(Proc),
           NEW st \in [Proc -> ProcessStates], NEW saved \in [Proc -> Nat],
           TakeNextIfRunning(p0, q, st, saved)
    PROVE  /\ running' \in Proc
           /\ ready' \in Seq(Proc)
           /\ state' \in [Proc -> ProcessStates]
           /\ pc' \in [Proc -> Nat]
           /\ step' \in [Proc -> StepStates]
           /\ \A p \in Proc \ {Idle} : pc'[p] = saved[p]
<1>1. CASE running = p0
  BY <1>1, TakeNextType DEF TakeNextIfRunning
<1>2. CASE running # p0
  BY <1>2, KeepRunningType DEF TakeNextIfRunning
<1>. QED
  BY <1>1, <1>2

LEMMA HousekeepingType ==
    ASSUME TypeOK,
           NEW z \in Seq(Proc), NEW pr \in [Proc -> 0 .. MaxPriority],
           NEW own \in [Mutex -> Proc \union {NoProc}],
           NEW blk \in [Mutex -> Seq(Proc)], NEW tb \in Int,
           Housekeeping(z, pr, own, blk, tb)
    PROVE  /\ zombies' \in Seq(Proc)
           /\ priority' \in [Proc -> 0 .. MaxPriority]
           /\ owner' \in [Mutex -> Proc \union {NoProc}]
           /\ blocked' \in [Mutex -> Seq(Proc)]
           /\ pairs' \subseteq Pairs
           /\ total_blocked' \in Int
           /\ resetDue' \in BOOLEAN
<1> DEFINE dead == IF resetDue THEN Deadlocked(own, blk) ELSE {}
<1>1. dead \in SUBSET ResPairs
  BY DEF Deadlocked
<1>2. Cardinality(dead) \in Nat
  BY <1>1, FiniteSystem, FS_Subset, FS_CardinalityType
<1> HIDE DEF dead
<1>3. total_blocked' = tb - 2 * Cardinality(dead)
  BY DEF Housekeeping, dead
<1>4. total_blocked' \in Int
  BY <1>2, <1>3
<1>5. zombies' \in Seq(Proc) /\ resetDue' \in BOOLEAN
  <2>1. zombies' \in {<<>>, z} /\ resetDue' = FALSE
    BY DEF Housekeeping
  <2>. QED
    BY <2>1, EmptySeq
<1>6. 0 \in 0 .. MaxPriority
  BY KernelBounds
<1>7. priority' \in [Proc -> 0 .. MaxPriority]
  <2>1. PICK S : priority' = [p \in Proc |-> IF resetDue /\ p \in S THEN 0 ELSE pr[p]]
    BY DEF Housekeeping
  <2>. QED
    BY <1>6, <2>1
<1>8. pairs' \subseteq Pairs
  BY DEF Housekeeping, TypeOK
<1>9. owner' \in [Mutex -> Proc \union {NoProc}]
  BY DEF Housekeeping
<1>10. blocked' \in [Mutex -> Seq(Proc)]
  BY DEF Housekeeping
<1>. QED
  BY <1>4, <1>5, <1>7, <1>8, <1>9, <1>10

LEMMA BumpedType ==
    ASSUME TypeOK
    PROVE  Bumped \in [Proc -> 0 .. MaxPriority]
<1>1. running \in Proc /\ priority \in [Proc -> 0 .. MaxPriority]
  BY DEF TypeOK
<1> DEFINE n == IF priority[running] = MaxPriority THEN 0 ELSE priority[running] + 1
<1>2. n \in 0 .. MaxPriority
  <2>1. priority[running] \in 0 .. MaxPriority
    BY <1>1
  <2>. QED
    BY <2>1, KernelBounds
<1>3. Bumped = [priority EXCEPT ![running] = n]
  BY <1>1 DEF Bumped
<1>. QED
  BY <1>1, <1>2, <1>3

LEMMA DispatcherType ==
    ASSUME TypeOK,
           NEW st \in [Proc -> ProcessStates], NEW top \in Nat,
           Dispatcher(st, top)
    PROVE  /\ newQ' \in Seq(Proc)
           /\ running' \in Proc
           /\ ready' \in Seq(Proc)
           /\ state' \in [Proc -> ProcessStates]
           /\ pc' \in [Proc -> Nat]
           /\ step' \in [Proc -> StepStates]
           /\ \A p \in Proc \ {Idle} : pc'[p] = IF p = running THEN top ELSE pc[p]
           /\ zombies' \in Seq(Proc)
           /\ priority' \in [Proc -> 0 .. MaxPriority]
           /\ owner' \in [Mutex -> Proc \union {NoProc}]
           /\ blocked' \in [Mutex -> Seq(Proc)]
           /\ pairs' \subseteq Pairs
           /\ {total_blocked, total_io, total_comp}' \subseteq Int
           /\ resetDue' \in BOOLEAN
           /\ UNCHANGED <<ioQ, waiting, total_waiting>>
<1> DEFINE halted      == st[running] = "HALTED"
           interrupted == st[running] = "INTERRUPTED"
           back        == interrupted /\ running # Idle
           q     == IF back THEN PEnqueue(ReadyAfterNew, Bumped, running) ELSE ReadyAfterNew
           st2   == IF interrupted THEN [st EXCEPT ![running] = "READY"] ELSE st
           saved == [pc EXCEPT ![running] = top]
           z     == IF halted THEN Append(zombies, running) ELSE zombies
           pr    == IF back THEN Bumped ELSE priority
<1>1. q \in Seq(Proc)
  BY ReadyAfterNewType, PEnqueueType DEF TypeOK
<1>2. st2 \in [Proc -> ProcessStates] /\ saved \in [Proc -> Nat]
  BY DEF TypeOK, ProcessStates
<1>3. z \in Seq(Proc)
  BY AppendProperties DEF TypeOK
<1>4. pr \in [Proc -> 0 .. MaxPriority]
  BY BumpedType DEF TypeOK
<1>5. TakeNext(q, st2, saved) /\ Housekeeping(z, pr, owner, blocked, total_blocked)
  BY DEF Dispatcher
<1>6. \A p \in Proc : saved[p] = IF p = running THEN top ELSE pc[p]
  BY DEF TypeOK
<1>7. newQ' \in Seq(Proc)
  BY EmptySeq DEF Dispatcher
<1>8. {total_io, total_comp}' \subseteq Int /\ UNCHANGED <<ioQ, waiting, total_waiting>>
  BY DEF Dispatcher, TypeOK
<1>9. owner \in [Mutex -> Proc \union {NoProc}] /\ blocked \in [Mutex -> Seq(Proc)]
      /\ total_blocked \in Int
  BY DEF TypeOK
<1> HIDE DEF halted, interrupted, back, q, st2, saved, z, pr
<1>10. /\ running' \in Proc /\ ready' \in Seq(Proc)
       /\ state' \in [Proc -> ProcessStates] /\ pc' \in [Proc -> Nat]
       /\ step' \in [Proc -> StepStates]
       /\ \A p \in Proc \ {Idle} : pc'[p] = saved[p]
  BY <1>1, <1>2, <1>5, TakeNextType
<1>11. /\ zombies' \in Seq(Proc) /\ priority' \in [Proc -> 0 .. MaxPriority]
       /\ owner' \in [Mutex -> Proc \union {NoProc}]
       /\ blocked' \in [Mutex -> Seq(Proc)] /\ pairs' \subseteq Pairs
       /\ total_blocked' \in Int /\ resetDue' \in BOOLEAN
  BY <1>3, <1>4, <1>5, <1>9, HousekeepingType
<1>. QED
  BY <1>6, <1>7, <1>8, <1>10, <1>11

-----------------------------------------------------------------------------
(***************************************************************************)
(* Inv is inductive.                                                       *)
(***************************************************************************)

LEMMA InitInv == Init => Inv
<1> SUFFICES ASSUME Init PROVE Inv
  OBVIOUS
<1>1. TypeOK
  <2>1. Boot \in Proc
    BY DEF Proc
  <2>2. \A S : <<>> \in Seq(S)
    BY EmptySeq
  <2>3. 0 \in 0 .. MaxPriority /\ 0 \in 0 .. CounterModulus - 1
    BY KernelBounds
  <2>4. /\ state \in [Proc -> ProcessStates] /\ step \in [Proc -> StepStates]
        /\ pc \in [Proc -> Nat] /\ laps \in [Proc -> Nat]
        /\ priority \in [Proc -> 0 .. MaxPriority]
    BY <2>3 DEF Init, ProcessStates, StepStates
  <2>5. /\ newQ \in Seq(Proc) /\ ready \in Seq(Proc) /\ zombies \in Seq(Proc)
        /\ ioQ \in [Dev -> Seq(Proc)] /\ sysStack \in Seq(Nat)
        /\ blocked \in [Mutex -> Seq(Proc)] /\ waiting \in [Cond -> Seq(Proc)]
    BY <2>2 DEF Init
  <2>6. /\ owner \in [Mutex -> Proc \union {NoProc}]
        /\ filled \in [CPPairs -> BOOLEAN]
        /\ counter \in [CPPairs -> 0 .. CounterModulus - 1]
        /\ reads \in [CPPairs -> 0 .. CounterModulus - 1]
        /\ ioActive \in [Dev -> BOOLEAN] /\ resetDue \in BOOLEAN
    BY <2>3 DEF Init
  <2>7. /\ at \in {"boot"} /\ dev \in Dev /\ svc = NoSvc
        /\ running \in Proc /\ currentPC \in Nat
    BY <2>1 DEF Init, Dev
  <2>8. /\ pairs \subseteq Pairs
        /\ {total_io, total_comp, total_blocked, total_waiting} \subseteq Int
    BY DEF Init
  <2>. QED
    BY <2>4, <2>5, <2>6, <2>7, <2>8 DEF TypeOK
<1>2. StackBalanced
  BY EmptySeq DEF Init, StackBalanced
<1>3. DeviceOnIffRequested
  BY DEF Init, DeviceOnIffRequested
<1>4. ControlOK /\ ContextSaved
  BY DEF Init, ControlOK, ContextSaved
<1>. QED
  BY <1>1, <1>2, <1>3, <1>4 DEF Inv

LEMMA EnterInv ==
    ASSUME Inv, NEW ps \in Seq(Proc), Enter(ps),
           {total_io, total_comp}' \subseteq Int, pairs' \subseteq Pairs
    PROVE  Inv'
<1>1. newQ' \in Seq(Proc)
  BY ConcatProperties DEF Enter, Inv, TypeOK
<1>2. state' \in [Proc -> ProcessStates]
  BY DEF Enter, Inv, TypeOK, ProcessStates
<1>3. TypeOK'
  BY <1>1, <1>2 DEF Enter, Inv, TypeOK, cpuVars, dataVars
<1>4. /\ StackBalanced' /\ DeviceOnIffRequested' /\ ControlOK' /\ ContextSaved'
  BY DEF Enter, Inv, StackBalanced, DeviceOnIffRequested, ControlOK, ContextSaved, cpuVars
<1>. QED
  BY <1>3, <1>4 DEF Inv

LEMMA CreationInv ==
    ASSUME Inv, Creation
    PROVE  Inv'
<1>1. CASE CreateIOProcess
  <2>1. PICK p \in IOProcs : Enter(<<p>>)
    BY <1>1 DEF CreateIOProcess
  <2>2. <<p>> \in Seq(Proc)
    BY DEF Proc
  <2>3. {total_io, total_comp}' \subseteq Int /\ pairs' \subseteq Pairs
    BY <1>1 DEF CreateIOProcess, Inv, TypeOK
  <2>. QED
    BY <2>1, <2>2, <2>3, EnterInv
<1>2. CASE CreateComputeIntensiveProcess
  <2>1. PICK p \in CompProcs : Enter(<<p>>)
    BY <1>2 DEF CreateComputeIntensiveProcess
  <2>2. <<p>> \in Seq(Proc)
    BY DEF Proc
  <2>3. {total_io, total_comp}' \subseteq Int /\ pairs' \subseteq Pairs
    BY <1>2 DEF CreateComputeIntensiveProcess, Inv, TypeOK
  <2>. QED
    BY <2>1, <2>2, <2>3, EnterInv
<1>3. CASE CreateConsumerProducerPair
  <2>1. PICK pair \in CPPairs : Enter(pair) /\ pairs' = pairs \union {pair}
    BY <1>3 DEF CreateConsumerProducerPair
  <2>2. pair \in Seq(Proc)
    <3>1. pair = <<pair[1], pair[2]>>
      BY PairsDisjoint DEF Pairs
    <3>2. pair[1] \in Proc /\ pair[2] \in Proc
      BY DEF Proc, CPProcs, Members
    <3>3. <<pair[1], pair[2]>> \in Seq(Proc)
      BY <3>2
    <3>. QED
      BY <3>1, <3>3
  <2>3. {total_io, total_comp}' \subseteq Int /\ pairs' \subseteq Pairs
    BY <1>3, <2>1 DEF CreateConsumerProducerPair, Inv, TypeOK, cntVars, Pairs
  <2>. QED
    BY <2>1, <2>2, <2>3, EnterInv
<1>4. CASE CreateSharedResourcePair
  <2>1. PICK pair \in ResPairs : Enter(pair) /\ pairs' = pairs \union {pair}
    BY <1>4 DEF CreateSharedResourcePair
  <2>2. pair \in Seq(Proc)
    <3>1. pair = <<pair[1], pair[2]>>
      BY PairsDisjoint DEF Pairs
    <3>2. pair[1] \in Proc /\ pair[2] \in Proc
      BY DEF Proc, ResProcs, Members
    <3>3. <<pair[1], pair[2]>> \in Seq(Proc)
      BY <3>2
    <3>. QED
      BY <3>1, <3>3
  <2>3. {total_io, total_comp}' \subseteq Int /\ pairs' \subseteq Pairs
    BY <1>4, <2>1 DEF CreateSharedResourcePair, Inv, TypeOK, cntVars, Pairs
  <2>. QED
    BY <2>1, <2>2, <2>3, EnterInv
<1>5. CASE CreationDone
  <2>1. TypeOK'
    BY <1>5 DEF CreationDone, Inv, TypeOK, cpuVars, pcbVars, qVars, lockVars, dataVars, cntVars
  <2>2. StackBalanced' /\ DeviceOnIffRequested' /\ ControlOK' /\ ContextSaved'
    BY <1>5 DEF CreationDone, Inv, StackBalanced, DeviceOnIffRequested, ControlOK,
       ContextSaved, cpuVars, pcbVars, qVars
  <2>. QED
    BY <2>1, <2>2 DEF Inv
<1>. QED
  BY <1>1, <1>2, <1>3, <1>4, <1>5 DEF Creation

LEMMA SimulateProgramStepInv ==
    ASSUME Inv, SimulateProgramStep
    PROVE  Inv'
<1>1. currentPC' \in Nat
  BY DEF SimulateProgramStep, NextPC, Inv, TypeOK
<1>2. laps' \in [Proc -> Nat]
  <2>1. laps \in [Proc -> Nat] /\ running \in Proc
    BY DEF Inv, TypeOK
  <2>2. NextLaps(running, currentPC) \in Nat
    BY <2>1 DEF NextLaps
  <2>3. laps' \in {laps, [laps EXCEPT ![running] = NextLaps(running, currentPC)]}
    BY DEF SimulateProgramStep
  <2>. QED
    BY <2>1, <2>2, <2>3
<1>3. step' \in [Proc -> StepStates]
  BY DEF SimulateProgramStep, Inv, TypeOK, StepStates
<1>4. TypeOK'
  BY <1>1, <1>2, <1>3
     DEF SimulateProgramStep, Inv, TypeOK, qVars, lockVars, dataVars, cntVars
<1>5. StackBalanced' /\ DeviceOnIffRequested' /\ ControlOK' /\ ContextSaved'
  BY DEF SimulateProgramStep, Inv, StackBalanced, DeviceOnIffRequested, ControlOK,
     ContextSaved, qVars
<1>. QED
  BY <1>4, <1>5 DEF Inv

LEMMA NoTimerInterruptInv ==
    ASSUME Inv, NoTimerInterrupt
    PROVE  Inv'
<1>1. at' \in {"iret", "io"} /\ (at' = "iret" <=> at = "irq") /\ at \in {"timer", "irq"}
  BY DEF NoTimerInterrupt, AfterTimer
<1>2. UNCHANGED <<dev, svc, sysStack, cpuVars, pcbVars, qVars, lockVars,
                  dataVars, cntVars, ioActive, resetDue>>
  BY DEF NoTimerInterrupt
<1>3. TypeOK'
  BY <1>1, <1>2 DEF Inv, TypeOK, cpuVars, pcbVars, qVars, lockVars, dataVars, cntVars
<1>4. StackBalanced' /\ DeviceOnIffRequested' /\ ControlOK' /\ ContextSaved'
  BY <1>1, <1>2 DEF Inv, StackBalanced, DeviceOnIffRequested, ControlOK,
     ContextSaved, cpuVars, pcbVars, qVars
<1>. QED
  BY <1>3, <1>4 DEF Inv

\* dispatcher() gives the process put away the PC pushed for it, which in a
\* service or an interrupt routine its PCB already holds.
LEMMA PseudoISRInv ==
    ASSUME Inv, PseudoISR
    PROVE  /\ Inv'
           /\ \A p \in Proc \ {Idle} : pc'[p] = IF p = running THEN currentPC ELSE pc[p]
           /\ currentPC' = pc'[running']
<1> DEFINE st == [state EXCEPT
                     ![running] = IF @ \in {"HALTED", "WAITING"} THEN @ ELSE "INTERRUPTED"]
<1>1. TypeOK
  BY DEF Inv
<1>2. st \in [Proc -> ProcessStates] /\ currentPC \in Nat
  BY <1>1 DEF TypeOK, ProcessStates
<1>3. Dispatcher(st, currentPC) /\ currentPC' = pc'[running']
      /\ UNCHANGED <<dev, svc, sysStack, laps, dataVars, ioActive>>
  BY DEF PseudoISR, IRET
<1> HIDE DEF st
<1>4. /\ newQ' \in Seq(Proc)
      /\ running' \in Proc
      /\ ready' \in Seq(Proc)
      /\ state' \in [Proc -> ProcessStates]
      /\ pc' \in [Proc -> Nat]
      /\ step' \in [Proc -> StepStates]
      /\ \A p \in Proc \ {Idle} : pc'[p] = IF p = running THEN currentPC ELSE pc[p]
      /\ zombies' \in Seq(Proc)
      /\ priority' \in [Proc -> 0 .. MaxPriority]
      /\ owner' \in [Mutex -> Proc \union {NoProc}]
      /\ blocked' \in [Mutex -> Seq(Proc)]
      /\ pairs' \subseteq Pairs
      /\ {total_blocked, total_io, total_comp}' \subseteq Int
      /\ resetDue' \in BOOLEAN
      /\ UNCHANGED <<ioQ, waiting, total_waiting>>
  BY <1>1, <1>2, <1>3, DispatcherType
<1>5. at' \in {"iret", "io", "step"} /\ (at' = "iret" <=> at = "irq")
      /\ at \in {"timer", "irq"} /\ (at' = "step" => svc = NoSvc)
  BY DEF PseudoISR, AfterTimer
<1>6. TypeOK'
  BY <1>1, <1>3, <1>4, <1>5 DEF TypeOK, dataVars
<1>7. StackBalanced' /\ DeviceOnIffRequested' /\ ControlOK'
  BY <1>3, <1>4, <1>5 DEF Inv, StackBalanced, DeviceOnIffRequested, ControlOK
<1>8. ContextSaved'
  <2>1. svc # NoSvc => svc.proc \in Proc \ {Idle}
    BY ServiceObjects DEF Inv, ControlOK
  <2>. QED
    BY <1>3, <1>4, <1>5, <2>1 DEF Inv, ContextSaved
<1>. QED
  BY <1>3, <1>4, <1>6, <1>7, <1>8 DEF Inv

LEMMA NoIOInterruptInv ==
    ASSUME Inv, NoIOInterrupt
    PROVE  Inv'
<1>1. /\ at = "io" /\ at' \in {"io", "serve", "step", "trap"} /\ dev' \in Dev
      /\ at' = "serve" => svc # NoSvc
      /\ at' \in {"step", "trap"} => svc = NoSvc
  BY DEF NoIOInterrupt, AfterDevice, Dev, Inv, TypeOK
<1>2. UNCHANGED <<svc, sysStack, cpuVars, pcbVars, qVars, lockVars, dataVars,
                  cntVars, ioActive, resetDue>>
  BY DEF NoIOInterrupt
<1>3. TypeOK'
  BY <1>1, <1>2 DEF Inv, TypeOK, cpuVars, pcbVars, qVars, lockVars, dataVars, cntVars
<1>4. StackBalanced' /\ DeviceOnIffRequested' /\ ControlOK' /\ ContextSaved'
  BY <1>1, <1>2 DEF Inv, StackBalanced, DeviceOnIffRequested, ControlOK,
     ContextSaved, cpuVars, pcbVars, qVars
<1>. QED
  BY <1>3, <1>4 DEF Inv

LEMMA IOInterruptInv ==
    ASSUME Inv, NEW d \in Dev, IOInterrupt(d)
    PROVE  Inv'
<1>1. /\ at = "io" /\ at' = "irq" /\ dev = d /\ ioActive[d]
      /\ sysStack' = Push(currentPC, sysStack)
      /\ state' = [state EXCEPT ![running] = IF @ = "RUNNING" THEN "INTERRUPTED" ELSE @]
      /\ pc' = [pc EXCEPT ![running] = currentPC]
      /\ UNCHANGED <<dev, svc, cpuVars, step, priority, laps, qVars, lockVars,
                     dataVars, cntVars, ioActive, resetDue>>
  BY DEF IOInterrupt
<1>2. sysStack \in Seq(Nat) /\ currentPC \in Nat /\ running \in Proc /\ pc \in [Proc -> Nat]
  BY DEF Inv, TypeOK
<1>3. /\ sysStack' \in Seq(Nat)
      /\ Len(sysStack') = Len(sysStack) + 1
      /\ sysStack'[Len(sysStack) + 1]
            = IF Len(sysStack) = 0 THEN currentPC ELSE sysStack[Len(sysStack)]
  BY <1>1, <1>2, PushProperties
<1>4. state' \in [Proc -> ProcessStates] /\ pc' \in [Proc -> Nat]
  BY <1>1, <1>2 DEF Inv, TypeOK, ProcessStates
<1>5. TypeOK'
  BY <1>1, <1>3, <1>4 DEF Inv, TypeOK, cpuVars, qVars, lockVars, dataVars, cntVars
<1>6. Len(sysStack) = IF svc = NoSvc THEN 0 ELSE 1
  BY <1>1 DEF Inv, StackBalanced
<1>7. StackBalanced'
  BY <1>1, <1>3, <1>6 DEF StackBalanced
<1>8. DeviceOnIffRequested' /\ ControlOK'
  BY <1>1 DEF Inv, DeviceOnIffRequested, ControlOK, cpuVars, qVars
<1>9. ContextSaved'
  <2>1. currentPC' = pc'[running']
    BY <1>1, <1>2 DEF cpuVars
  <2>2. CASE svc # NoSvc
    <3>1. Len(sysStack) = 1 /\ sysStack[1] = pc[svc.proc] /\ currentPC = pc[running]
      BY <1>6, <2>2 DEF Inv, ContextSaved
    <3>2. pc' = pc
      BY <1>1, <1>2, <3>1
    <3>3. sysStack'[Len(sysStack')] = pc[svc.proc]
      BY <1>3, <3>1
    <3>. QED
      BY <1>1, <2>1, <3>2, <3>3 DEF ContextSaved
  <2>. QED
    BY <1>1, <2>1, <2>2 DEF ContextSaved
<1>. QED
  BY <1>5, <1>7, <1>8, <1>9 DEF Inv

LEMMA IOReturnInv ==
    ASSUME Inv, IOReturn
    PROVE  /\ Inv'
           /\ pc' = pc /\ running' = running /\ currentPC' = pc[running]
<1> DEFINE p  == Head(ioQ[dev])
           q  == PEnqueue(ReadyAfterNew, priority, p)
           st == [state EXCEPT ![p] = "READY"]
<1>1. TypeOK /\ dev \in Dev /\ ioActive[dev] /\ at = "iret"
  BY DEF Inv, ControlOK, IOReturn, TypeOK
<1>2. ioQ[dev] \in Seq(Proc) /\ ioQ[dev] # <<>>
  BY <1>1 DEF Inv, DeviceOnIffRequested, TypeOK
<1>3. p \in Proc /\ Tail(ioQ[dev]) \in Seq(Proc)
  BY <1>2, HeadTailProperties
<1>4. q \in Seq(Proc) /\ st \in [Proc -> ProcessStates]
  BY <1>1, <1>3, ReadyAfterNewType, PEnqueueType DEF TypeOK, ProcessStates
<1>5. /\ KeepRunning(q, st, pc)
      /\ newQ' = <<>>
      /\ ioQ' = [ioQ EXCEPT ![dev] = Tail(@)]
      /\ ioActive' = [d \in Dev |-> ioActive[d] /\ ioQ'[d] # <<>>]
      /\ sysStack' = Pop(sysStack)
      /\ currentPC' = pc'[running']
      /\ AfterDevice
      /\ UNCHANGED <<svc, laps, waiting, total_waiting, dataVars, cntVars>>
      /\ Housekeeping(zombies, priority, owner, blocked, total_blocked)
  BY DEF IOReturn, SwitchOff, IRET
<1> HIDE DEF p, q, st
<1>6. pc \in [Proc -> Nat] /\ running \in Proc /\ sysStack \in Seq(Nat)
  BY <1>1 DEF TypeOK
<1>7. /\ running' \in Proc /\ ready' \in Seq(Proc)
      /\ state' \in [Proc -> ProcessStates] /\ pc' \in [Proc -> Nat]
      /\ step' \in [Proc -> StepStates]
  BY <1>1, <1>4, <1>5, <1>6, KeepRunningType
<1>8. zombies \in Seq(Proc) /\ priority \in [Proc -> 0 .. MaxPriority]
      /\ owner \in [Mutex -> Proc \union {NoProc}]
      /\ blocked \in [Mutex -> Seq(Proc)] /\ total_blocked \in Int
  BY <1>1 DEF TypeOK
<1>9. /\ zombies' \in Seq(Proc) /\ priority' \in [Proc -> 0 .. MaxPriority]
      /\ owner' \in [Mutex -> Proc \union {NoProc}]
      /\ blocked' \in [Mutex -> Seq(Proc)] /\ pairs' \subseteq Pairs
      /\ total_blocked' \in Int /\ resetDue' \in BOOLEAN
  BY <1>1, <1>5, <1>8, HousekeepingType
<1>10. /\ at' \in {"io", "serve", "step", "trap"} /\ dev' \in Dev
       /\ at' = "serve" => svc # NoSvc
       /\ at' \in {"step", "trap"} => svc = NoSvc
  BY <1>1, <1>5 DEF AfterDevice, Dev
<1>11. ioQ \in [Dev -> Seq(Proc)] /\ ioActive \in [Dev -> BOOLEAN]
  BY <1>1 DEF TypeOK
<1>12. ioQ' \in [Dev -> Seq(Proc)] /\ ioActive' \in [Dev -> BOOLEAN] /\ newQ' \in Seq(Proc)
  BY <1>1, <1>3, <1>5, <1>11, EmptySeq
<1>13. Len(sysStack) = (IF svc = NoSvc THEN 0 ELSE 1) + 1
  BY <1>1 DEF Inv, StackBalanced
<1>14. /\ sysStack' \in Seq(Nat)
       /\ Len(sysStack') = Len(sysStack) - 1
       /\ Len(sysStack) > 1 => sysStack'[Len(sysStack) - 1] = sysStack[Len(sysStack)]
  <2>1. Len(sysStack) > 0
    BY <1>13
  <2>. QED
    BY <1>5, <1>6, <2>1, PopProperties
<1>15. currentPC' \in Nat /\ pc' = pc /\ running' = running
  BY <1>5, <1>6 DEF KeepRunning
<1>16. TypeOK'
  BY <1>1, <1>5, <1>7, <1>9, <1>10, <1>12, <1>14, <1>15, ZenonT(40) DEF TypeOK, dataVars, cntVars
<1>17. StackBalanced'
  BY <1>5, <1>10, <1>13, <1>14 DEF StackBalanced
<1>18. DeviceOnIffRequested'
  <2>1. \A d \in Dev : ioActive[d] <=> ioQ[d] # <<>>
    BY DEF Inv, DeviceOnIffRequested
  <2>2. \A d \in Dev : ioQ'[d] = IF d = dev THEN Tail(ioQ[dev]) ELSE ioQ[d]
    BY <1>5, <1>11
  <2>3. \A d \in Dev : ioActive'[d] <=> ioActive[d] /\ ioQ'[d] # <<>>
    BY <1>5
  <2>4. \A d \in Dev : ioActive'[d] <=> ioQ'[d] # <<>>
    BY <1>1, <2>1, <2>2, <2>3
  <2>. QED
    BY <2>4 DEF DeviceOnIffRequested
<1>19. ControlOK'
  BY <1>5, <1>10 DEF Inv, ControlOK
<1>20. ContextSaved'
  <2>1. svc # NoSvc => sysStack[Len(sysStack)] = pc[svc.proc]
    BY DEF Inv, ContextSaved
  <2>. QED
    BY <1>5, <1>13, <1>14, <1>15, <2>1 DEF ContextSaved
<1>. QED
  BY <1>5, <1>15, <1>16, <1>17, <1>18, <1>19, <1>20 DEF Inv

LEMMA NoTrapInv ==
    ASSUME Inv, NoTrap
    PROVE  Inv'
<1>1. step' \in [Proc -> StepStates]
  BY DEF NoTrap, Inv, TypeOK, StepStates
<1>2. TypeOK'
  BY <1>1 DEF NoTrap, Inv, TypeOK, cpuVars, qVars, lockVars, dataVars, cntVars
<1>3. StackBalanced' /\ DeviceOnIffRequested' /\ ControlOK' /\ ContextSaved'
  BY DEF NoTrap, Inv, StackBalanced, DeviceOnIffRequested, ControlOK, ContextSaved,
     cpuVars, qVars
<1>. QED
  BY <1>2, <1>3 DEF Inv

\* A trap saves the PC on the stack and in the PCB.
LEMMA EnterTSRInv ==
    ASSUME Inv, NEW ops \in SUBSET Services, NEW st \in ProcessStates, EnterTSR(ops, st),
           /\ filled' \in [CPPairs -> BOOLEAN]
           /\ counter' \in [CPPairs -> 0 .. CounterModulus - 1]
           /\ reads' \in [CPPairs -> 0 .. CounterModulus - 1]
    PROVE  Inv'
<1>1. /\ at = "trap" /\ Requested \in ops /\ at' = "timer"
      /\ svc' = [op |-> Requested, proc |-> running]
      /\ step' = [step EXCEPT ![running] = "FINISHED"]
      /\ sysStack' = Push(currentPC, sysStack)
      /\ pc' = [pc EXCEPT ![running] = currentPC]
      /\ state' = [state EXCEPT ![running] = st]
      /\ UNCHANGED <<dev, cpuVars, priority, laps, qVars, lockVars, cntVars,
                     ioActive, resetDue>>
  BY DEF EnterTSR
<1>2. /\ sysStack \in Seq(Nat) /\ currentPC \in Nat /\ running \in Proc
      /\ pc \in [Proc -> Nat]
  BY DEF Inv, TypeOK
<1>3. svc = NoSvc /\ Len(sysStack) = 0
  BY <1>1 DEF Inv, ControlOK, StackBalanced
<1>4. Requested # "NONE"
  BY <1>1 DEF Services, IOTraps, LockOps, UnlockOps
<1>5. svc' # NoSvc /\ svc'.op = Requested /\ svc'.proc = running
  BY <1>1, <1>4 DEF NoSvc
<1>6. /\ sysStack' \in Seq(Nat) /\ Len(sysStack') = 1 /\ sysStack'[1] = currentPC
  <2>1. /\ Push(currentPC, sysStack) \in Seq(Nat)
        /\ Len(Push(currentPC, sysStack)) = Len(sysStack) + 1
        /\ Push(currentPC, sysStack)[Len(sysStack) + 1]
              = IF Len(sysStack) = 0 THEN currentPC ELSE sysStack[Len(sysStack)]
    BY <1>2, PushProperties
  <2>. QED
    BY <1>1, <1>3, <2>1
<1>7. ServiceExists(running, Requested)
  BY <1>4, RequestedExists DEF Requested
<1>8. svc' \in [op : Services, proc : Proc]
  BY <1>1, <1>2
<1>9. /\ step' \in [Proc -> StepStates] /\ pc' \in [Proc -> Nat]
      /\ state' \in [Proc -> ProcessStates] /\ pc'[running] = currentPC
  BY <1>1, <1>2 DEF Inv, TypeOK, StepStates
<1>10. TypeOK'
  BY <1>1, <1>6, <1>8, <1>9 DEF Inv, TypeOK, cpuVars, qVars, lockVars, cntVars
<1>11. StackBalanced' /\ DeviceOnIffRequested'
  BY <1>1, <1>5, <1>6 DEF Inv, StackBalanced, DeviceOnIffRequested, qVars
<1>12. ControlOK'
  BY <1>1, <1>5, <1>7 DEF ControlOK
<1>13. ContextSaved'
  BY <1>1, <1>5, <1>6, <1>9 DEF ContextSaved, cpuVars
<1>. QED
  BY <1>10, <1>11, <1>12, <1>13 DEF Inv

LEMMA EnterServiceInv ==
    ASSUME Inv, EnterService
    PROVE  Inv'
<1> USE DEF ProcessStates
<1>1. /\ filled \in [CPPairs -> BOOLEAN]
      /\ counter \in [CPPairs -> 0 .. CounterModulus - 1]
      /\ reads \in [CPPairs -> 0 .. CounterModulus - 1]
      /\ state[running] \in ProcessStates
  BY DEF Inv, TypeOK
<1>2. /\ {"PCB_TERMINATED"} \subseteq Services /\ IOTraps \subseteq Services
      /\ LockOps \subseteq Services /\ UnlockOps \subseteq Services
      /\ {"WAIT_RESOURCE_1"} \subseteq Services /\ {"SIGNAL_RESOURCE_1"} \subseteq Services
  BY DEF Services
<1>3. CASE NoTrap
  BY <1>3, NoTrapInv
<1>4. CASE EnterTermination
  BY <1>1, <1>2, <1>4, EnterTSRInv DEF EnterTermination, dataVars
<1>5. CASE EnterIOTrap
  BY <1>1, <1>2, <1>5, EnterTSRInv DEF EnterIOTrap, dataVars
<1>6. CASE EnterLock
  <2> DEFINE st == IF owner[MutexOf(running, Requested)] \in {NoProc, running}
                   THEN "INTERRUPTED" ELSE "WAITING"
  <2>1. EnterTSR(LockOps, st) /\ UNCHANGED dataVars
    BY <1>6 DEF EnterLock
  <2>2. st \in ProcessStates
    OBVIOUS
  <2> HIDE DEF st
  <2>. QED
    BY <1>1, <1>2, <2>1, <2>2, EnterTSRInv DEF dataVars
<1>7. CASE EnterUnlock
  BY <1>1, <1>2, <1>7, EnterTSRInv DEF EnterUnlock, dataVars
<1>8. CASE EnterWait
  BY <1>1, <1>2, <1>8, EnterTSRInv DEF EnterWait, dataVars
<1>9. CASE EnterSignal
  <2> DEFINE pair  == PairOf(running)
             up(f) == [f EXCEPT ![pair] = (@ + 1) % CounterModulus]
  <2>1. \A f \in [CPPairs -> 0 .. CounterModulus - 1] :
            up(f) \in [CPPairs -> 0 .. CounterModulus - 1]
    <3>1. \A x \in 0 .. CounterModulus - 1 : (x + 1) % CounterModulus \in 0 .. CounterModulus - 1
      BY KernelBounds
    <3>. QED
      BY <3>1
  <2>2. counter' \in {counter, up(counter)} /\ reads' \in {reads, up(reads)}
        /\ filled' = filled
    BY <1>9 DEF EnterSignal
  <2>3. EnterTSR({"SIGNAL_RESOURCE_1"}, state[running])
    BY <1>9 DEF EnterSignal
  <2> HIDE DEF up
  <2>. QED
    BY <1>1, <1>2, <2>1, <2>2, <2>3, EnterTSRInv
<1>. QED
  BY <1>3, <1>4, <1>5, <1>6, <1>7, <1>8, <1>9 DEF EnterService

\* When a service ends, its process is known, the PC popped is the one its
\* PCB holds, and the stack is left empty.
LEMMA ServeContext ==
    ASSUME Inv, NEW ops, Serve(ops)
    PROVE  /\ svc.op \in ops /\ ServiceExists(P, svc.op)
           /\ P \in Proc /\ P # Idle
           /\ Head(sysStack) \in Nat /\ Head(sysStack) = pc[P] /\ TrapPC = pc
           /\ at' = "step" /\ svc' = NoSvc /\ sysStack' \in Seq(Nat)
           /\ StackBalanced' /\ ControlOK' /\ ContextSaved'
<1>1. /\ at = "serve" /\ svc.op \in ops /\ at' = "step" /\ svc' = NoSvc
      /\ sysStack' = Pop(sysStack)
  BY DEF Serve
<1>2. svc # NoSvc
  BY <1>1 DEF Inv, ControlOK
<1>3. ServiceExists(P, svc.op)
  BY <1>2 DEF Inv, ControlOK, P
<1>4. sysStack \in Seq(Nat) /\ Len(sysStack) = 1
  BY <1>1, <1>2 DEF Inv, TypeOK, StackBalanced
<1>5. /\ Head(sysStack) \in Nat /\ Head(sysStack) = sysStack[1]
      /\ sysStack' \in Seq(Nat) /\ Len(sysStack') = 0
  <2>1. Len(sysStack) > 0
    BY <1>4
  <2>2. /\ Head(sysStack) \in Nat /\ Pop(sysStack) \in Seq(Nat)
        /\ Len(Pop(sysStack)) = Len(sysStack) - 1
        /\ Len(sysStack) = 1 => Head(sysStack) = sysStack[Len(sysStack)]
    BY <1>4, <2>1, PopProperties
  <2>. QED
    BY <1>1, <1>4, <2>2
<1>6. P \in Proc /\ P # Idle
  BY <1>3, ServiceObjects
<1>7. Head(sysStack) = pc[P]
  BY <1>2, <1>4, <1>5 DEF Inv, ContextSaved, P
<1>8. TrapPC = pc
  BY <1>6, <1>7 DEF TrapPC, Inv, TypeOK
<1>9. StackBalanced'
  BY <1>1, <1>5 DEF StackBalanced
<1>10. ControlOK' /\ ContextSaved'
  BY <1>1 DEF ControlOK, ContextSaved
<1>. QED
  BY <1>1, <1>3, <1>5, <1>6, <1>7, <1>8, <1>9, <1>10

\* The part common to the services that make no call of scheduler().
LEMMA NoSchedulerInv ==
    ASSUME Inv, NEW ops, Serve(ops), NoScheduler, IRET,
           owner' \in [Mutex -> Proc \union {NoProc}],
           filled' \in [CPPairs -> BOOLEAN]
    PROVE  Inv' /\ pc' = pc
<1>1. /\ at' = "step" /\ svc' = NoSvc /\ sysStack' \in Seq(Nat)
      /\ StackBalanced' /\ ControlOK' /\ ContextSaved'
  BY ServeContext
<1>2. UNCHANGED <<running, state, pc, step, priority, qVars, blocked, waiting,
                  pairs, total_blocked, total_waiting, cntVars, ioActive, resetDue,
                  dev, laps, counter, reads>>
  BY DEF Serve, NoScheduler
<1>3. currentPC' \in Nat
  BY <1>2 DEF IRET, Inv, TypeOK
<1>4. TypeOK'
  BY <1>1, <1>2, <1>3 DEF Inv, TypeOK, qVars, cntVars
<1>5. DeviceOnIffRequested'
  BY <1>2 DEF Inv, DeviceOnIffRequested, qVars
<1>. QED
  BY <1>1, <1>2, <1>4, <1>5 DEF Inv

\* The part common to the dispatchers of the traps.
LEMMA DispatchInv ==
    ASSUME Inv, NEW ops, Serve(ops),
           NEW q \in Seq(Proc), NEW st \in [Proc -> ProcessStates],
           NEW own \in [Mutex -> Proc \union {NoProc}],
           NEW blk \in [Mutex -> Seq(Proc)], NEW tb \in Int,
           \/ TakeNextIfRunning(P, q, st, TrapPC)
           \/ KeepRunning(q, st, pc),
           Housekeeping(zombies, priority, own, blk, tb),
           IRET, newQ' = <<>>, UNCHANGED cntVars,
           waiting' \in [Cond -> Seq(Proc)], total_waiting' \in Int,
           filled' \in [CPPairs -> BOOLEAN],
           ioQ' \in [Dev -> Seq(Proc)], ioActive' \in [Dev -> BOOLEAN],
           DeviceOnIffRequested'
    PROVE  Inv' /\ \A p \in Proc \ {Idle} : pc'[p] = pc[p]
<1>1. /\ P \in Proc /\ TrapPC = pc
      /\ at' = "step" /\ svc' = NoSvc /\ sysStack' \in Seq(Nat)
      /\ StackBalanced' /\ ControlOK' /\ ContextSaved'
  BY ServeContext
<1>2. TypeOK /\ pc \in [Proc -> Nat] /\ UNCHANGED <<dev, laps, counter, reads>>
  BY DEF Inv, TypeOK, Serve
<1>3. /\ running' \in Proc /\ ready' \in Seq(Proc)
      /\ state' \in [Proc -> ProcessStates] /\ pc' \in [Proc -> Nat]
      /\ step' \in [Proc -> StepStates]
      /\ \A p \in Proc \ {Idle} : pc'[p] = pc[p]
  <2>1. CASE TakeNextIfRunning(P, q, st, TrapPC)
    <3>1. TrapPC \in [Proc -> Nat]
      BY <1>1, <1>2
    <3>2. /\ running' \in Proc /\ ready' \in Seq(Proc)
          /\ state' \in [Proc -> ProcessStates] /\ pc' \in [Proc -> Nat]
          /\ step' \in [Proc -> StepStates]
          /\ \A p \in Proc \ {Idle} : pc'[p] = TrapPC[p]
      <4>1. TypeOK /\ P \in Proc
        BY <1>1, <1>2
      <4>. QED
        BY ONLY <2>1, <3>1, <4>1, TakeNextIfRunningType, q \in Seq(Proc),
                st \in [Proc -> ProcessStates]
    <3>. QED
      BY <1>1, <3>2
  <2>2. CASE KeepRunning(q, st, pc)
    BY <1>2, <2>2, KeepRunningType
  <2>. QED
    BY <2>1, <2>2
<1>4. zombies \in Seq(Proc) /\ priority \in [Proc -> 0 .. MaxPriority]
  BY <1>2 DEF TypeOK
<1>5. /\ zombies' \in Seq(Proc) /\ priority' \in [Proc -> 0 .. MaxPriority]
      /\ owner' \in [Mutex -> Proc \union {NoProc}]
      /\ blocked' \in [Mutex -> Seq(Proc)] /\ pairs' \subseteq Pairs
      /\ total_blocked' \in Int /\ resetDue' \in BOOLEAN
  BY <1>2, <1>4, HousekeepingType
<1>6. currentPC' \in Nat /\ newQ' \in Seq(Proc)
  BY <1>3, EmptySeq DEF IRET
<1>7. TypeOK'
  BY <1>1, <1>2, <1>3, <1>5, <1>6 DEF TypeOK, cntVars
<1>. QED
  BY <1>1, <1>3, <1>7 DEF Inv

\* A termination comes to the same end as an IO trap, but finds no device to
\* be switched on.
LEMMA TerminationLeavesDevices ==
    ASSUME Inv, FinishTermination
    PROVE  ioActive' = ioActive /\ ioQ' = ioQ
<1>1. ioQ' = ioQ
  BY DEF FinishTermination, Dispatcher
<1>2. ioActive' = [d \in Dev |-> ioActive[d] \/ ioQ'[d] # <<>>]
  BY DEF FinishTermination, SwitchOn
<1>3. ioActive \in [Dev -> BOOLEAN] /\ \A d \in Dev : ioActive[d] <=> ioQ[d] # <<>>
  BY DEF Inv, TypeOK, DeviceOnIffRequested
<1>4. \A d \in Dev : (ioActive[d] \/ ioQ'[d] # <<>>) = ioActive[d]
  BY <1>1, <1>3
<1>5. ioActive' = [d \in Dev |-> ioActive[d]]
  BY <1>2, <1>4
<1>. QED
  BY <1>1, <1>3, <1>5

LEMMA FinishTerminationInv ==
    ASSUME Inv, FinishTermination
    PROVE  /\ Inv'
           /\ \A p \in Proc \ {Idle} : pc'[p] = IF p = running THEN pc[P] ELSE pc[p]
<1> DEFINE top == Head(sysStack)
<1>1. /\ Serve({"PCB_TERMINATED"}) /\ Dispatcher(state, top) /\ IRET
      /\ UNCHANGED <<filled, ioActive, dev, laps, counter, reads>>
  BY TerminationLeavesDevices DEF FinishTermination, Serve
<1>2. /\ top \in Nat /\ top = pc[P]
      /\ at' = "step" /\ svc' = NoSvc /\ sysStack' \in Seq(Nat)
      /\ StackBalanced' /\ ControlOK' /\ ContextSaved'
  BY <1>1, ServeContext
<1>3. TypeOK /\ state \in [Proc -> ProcessStates]
  BY DEF Inv, TypeOK
<1> HIDE DEF top
<1>4. /\ newQ' \in Seq(Proc)
      /\ running' \in Proc
      /\ ready' \in Seq(Proc)
      /\ state' \in [Proc -> ProcessStates]
      /\ pc' \in [Proc -> Nat]
      /\ step' \in [Proc -> StepStates]
      /\ \A p \in Proc \ {Idle} : pc'[p] = IF p = running THEN top ELSE pc[p]
      /\ zombies' \in Seq(Proc)
      /\ priority' \in [Proc -> 0 .. MaxPriority]
      /\ owner' \in [Mutex -> Proc \union {NoProc}]
      /\ blocked' \in [Mutex -> Seq(Proc)]
      /\ pairs' \subseteq Pairs
      /\ {total_blocked, total_io, total_comp}' \subseteq Int
      /\ resetDue' \in BOOLEAN
      /\ UNCHANGED <<ioQ, waiting, total_waiting>>
  BY <1>1, <1>2, <1>3, DispatcherType
<1>5. currentPC' \in Nat
  BY <1>1, <1>4 DEF IRET
<1>6. TypeOK'
  BY <1>1, <1>2, <1>3, <1>4, <1>5 DEF TypeOK
<1>7. DeviceOnIffRequested'
  BY <1>1, <1>4 DEF Inv, DeviceOnIffRequested
<1>. QED
  BY <1>2, <1>4, <1>6, <1>7 DEF Inv

LEMMA FinishIOTrapInv ==
    ASSUME Inv, FinishIOTrap
    PROVE  Inv' /\ \A p \in Proc \ {Idle} : pc'[p] = pc[p]
<1> DEFINE d0 == DeviceOf(svc.op)
<1>1. /\ Serve(IOTraps) /\ newQ' = <<>>
      /\ ioQ' = [ioQ EXCEPT ![d0] = Append(@, P)]
      /\ TakeNextIfRunning(P, ReadyAfterNew, state, TrapPC)
      /\ IRET
      /\ ioActive' = [d \in Dev |-> ioActive[d] \/ ioQ'[d] # <<>>]
      /\ UNCHANGED <<filled, waiting, total_waiting, cntVars>>
      /\ Housekeeping(zombies, priority, owner, blocked, total_blocked)
  BY DEF FinishIOTrap, SwitchOn
<1>2. P \in Proc
  BY <1>1, ServeContext
<1>3. d0 \in Dev
  BY DEF DeviceOf, Dev
<1> HIDE DEF d0
<1>4. /\ TypeOK /\ ReadyAfterNew \in Seq(Proc) /\ state \in [Proc -> ProcessStates]
      /\ owner \in [Mutex -> Proc \union {NoProc}] /\ blocked \in [Mutex -> Seq(Proc)]
      /\ total_blocked \in Int /\ ioQ \in [Dev -> Seq(Proc)]
      /\ ioActive \in [Dev -> BOOLEAN]
  BY ReadyAfterNewType DEF Inv, TypeOK
<1>5. ioQ[d0] \in Seq(Proc)
  BY <1>3, <1>4
<1>6. Append(ioQ[d0], P) \in Seq(Proc) /\ Append(ioQ[d0], P) # <<>>
  BY <1>2, <1>5, AppendProperties
<1>7. ioQ' \in [Dev -> Seq(Proc)] /\ ioActive' \in [Dev -> BOOLEAN]
  BY <1>1, <1>3, <1>4, <1>6
<1>8. DeviceOnIffRequested'
  <2>1. \A d \in Dev : ioActive[d] <=> ioQ[d] # <<>>
    BY DEF Inv, DeviceOnIffRequested
  <2>2. \A d \in Dev : ioQ'[d] = IF d = d0 THEN Append(ioQ[d0], P) ELSE ioQ[d]
    BY <1>1, <1>3, <1>4
  <2>3. \A d \in Dev : ioActive'[d] <=> ioActive[d] \/ ioQ'[d] # <<>>
    BY <1>1
  <2>4. \A d \in Dev : ioActive'[d] <=> ioQ'[d] # <<>>
    BY <1>6, <2>1, <2>2, <2>3
  <2>. QED
    BY <2>4 DEF DeviceOnIffRequested
<1>9. /\ waiting' \in [Cond -> Seq(Proc)] /\ total_waiting' \in Int
      /\ filled' \in [CPPairs -> BOOLEAN] /\ UNCHANGED cntVars
  BY <1>1, <1>4 DEF TypeOK
<1>. QED
  BY <1>1, <1>4, <1>7, <1>8, <1>9, DispatchInv

LEMMA LockGrantedInv ==
    ASSUME Inv, LockGranted
    PROVE  Inv' /\ pc' = pc
<1>1. Serve(LockOps) /\ NoScheduler /\ IRET /\ filled' = filled
      /\ owner' = [owner EXCEPT ![M] = P]
  BY DEF LockGranted
<1>2. P \in Proc
  BY <1>1, ServeContext
<1>3. owner' \in [Mutex -> Proc \union {NoProc}] /\ filled' \in [CPPairs -> BOOLEAN]
  BY <1>1, <1>2 DEF Inv, TypeOK
<1>. QED
  BY <1>1, <1>3, NoSchedulerInv

LEMMA UnlockFreeInv ==
    ASSUME Inv, UnlockFree
    PROVE  Inv' /\ pc' = pc
<1>1. Serve(UnlockOps) /\ NoScheduler /\ IRET /\ filled' = filled
      /\ owner' = [owner EXCEPT ![M] = NoProc]
  BY DEF UnlockFree
<1>2. owner' \in [Mutex -> Proc \union {NoProc}] /\ filled' \in [CPPairs -> BOOLEAN]
  BY <1>1 DEF Inv, TypeOK
<1>. QED
  BY <1>1, <1>2, NoSchedulerInv

LEMMA SetFilledType ==
    ASSUME Inv, SetFilled
    PROVE  filled' \in [CPPairs -> BOOLEAN]
BY DEF SetFilled, IsProducer, Inv, TypeOK

LEMMA SignalNobodyInv ==
    ASSUME Inv, SignalNobody
    PROVE  Inv' /\ pc' = pc
<1>1. Serve({"SIGNAL_RESOURCE_1"}) /\ NoScheduler /\ IRET /\ SetFilled /\ owner' = owner
  BY DEF SignalNobody
<1>2. owner' \in [Mutex -> Proc \union {NoProc}]
  BY <1>1 DEF Inv, TypeOK
<1>. QED
  BY <1>1, <1>2, SetFilledType, NoSchedulerInv

\* The services that leave the device queues alone.
LEMMA DevicesUntouched ==
    ASSUME Inv, UNCHANGED <<ioQ, ioActive>>
    PROVE  /\ ioQ' \in [Dev -> Seq(Proc)] /\ ioActive' \in [Dev -> BOOLEAN]
           /\ DeviceOnIffRequested'
BY DEF Inv, TypeOK, DeviceOnIffRequested

\* The types of what these services hand to the dispatchers.
LEMMA ServiceArguments ==
    ASSUME Inv
    PROVE  /\ ReadyAfterNew \in Seq(Proc) /\ state \in [Proc -> ProcessStates]
           /\ owner \in [Mutex -> Proc \union {NoProc}] /\ blocked \in [Mutex -> Seq(Proc)]
           /\ waiting \in [Cond -> Seq(Proc)] /\ total_waiting \in Int
           /\ total_blocked \in Int
           /\ total_blocked + 1 \in Int /\ total_blocked - 1 \in Int
<1>1. TypeOK
  BY DEF Inv
<1>2. total_blocked \in Int /\ total_waiting \in Int
  BY <1>1 DEF TypeOK
<1>3. total_blocked + 1 \in Int /\ total_blocked - 1 \in Int
  BY <1>2
<1>. QED
  BY <1>1, <1>2, <1>3, ReadyAfterNewType DEF TypeOK

LEMMA LockBlocksInv ==
    ASSUME Inv, LockBlocks
    PROVE  Inv' /\ \A p \in Proc \ {Idle} : pc'[p] = pc[p]
<1> DEFINE blk == [blocked EXCEPT ![M] = Append(@, P)]
<1>1. /\ Serve(LockOps) /\ newQ' = <<>>
      /\ TakeNextIfRunning(P, ReadyAfterNew, state, TrapPC)
      /\ IRET
      /\ UNCHANGED <<filled, ioQ, waiting, total_waiting, cntVars, ioActive>>
      /\ Housekeeping(zombies, priority, owner, blk, total_blocked + 1)
  BY DEF LockBlocks
<1>2. P \in Proc /\ svc.op \in LockOps /\ ServiceExists(P, svc.op)
  BY <1>1, ServeContext
<1>3. M \in Mutex
  BY <1>2, ServiceObjects DEF M, P
<1>4. /\ ReadyAfterNew \in Seq(Proc) /\ state \in [Proc -> ProcessStates]
      /\ owner \in [Mutex -> Proc \union {NoProc}] /\ blocked \in [Mutex -> Seq(Proc)]
      /\ total_blocked + 1 \in Int
  BY ServiceArguments
<1>5. blk \in [Mutex -> Seq(Proc)]
  <2>1. Append(blocked[M], P) \in Seq(Proc)
    BY <1>2, <1>3, <1>4, AppendProperties
  <2>. QED
    BY <1>4, <2>1
<1>6. /\ ioQ' \in [Dev -> Seq(Proc)] /\ ioActive' \in [Dev -> BOOLEAN]
      /\ DeviceOnIffRequested'
  BY <1>1, DevicesUntouched
<1>7. /\ waiting' \in [Cond -> Seq(Proc)] /\ total_waiting' \in Int
      /\ filled' \in [CPPairs -> BOOLEAN] /\ UNCHANGED cntVars
  BY <1>1 DEF Inv, TypeOK
<1> HIDE DEF blk
<1>. QED
  BY <1>1, <1>4, <1>5, <1>6, <1>7, DispatchInv

LEMMA UnlockHandsOverInv ==
    ASSUME Inv, UnlockHandsOver
    PROVE  Inv' /\ \A p \in Proc \ {Idle} : pc'[p] = pc[p]
<1> DEFINE next == Head(blocked[M])
           q    == PEnqueue(ReadyAfterNew, priority, next)
           st   == [state EXCEPT ![next] = "READY"]
           own  == [owner EXCEPT ![M] = next]
           blk  == [blocked EXCEPT ![M] = Tail(@)]
<1>1. /\ Serve(UnlockOps) /\ newQ' = <<>> /\ blocked[M] # <<>>
      /\ KeepRunning(q, st, pc)
      /\ IRET
      /\ UNCHANGED <<filled, ioQ, waiting, total_waiting, cntVars, ioActive>>
      /\ Housekeeping(zombies, priority, own, blk, total_blocked - 1)
  BY DEF UnlockHandsOver, Heir, ReadyWithHeir, StateWithHeir, HandOver
<1>2. P \in Proc /\ svc.op \in UnlockOps /\ ServiceExists(P, svc.op)
  BY <1>1, ServeContext
<1>3. M \in Mutex
  BY <1>2, ServiceObjects DEF M, P
<1>4. /\ ReadyAfterNew \in Seq(Proc) /\ state \in [Proc -> ProcessStates]
      /\ owner \in [Mutex -> Proc \union {NoProc}] /\ blocked \in [Mutex -> Seq(Proc)]
      /\ total_blocked - 1 \in Int
  BY ServiceArguments
<1>5. next \in Proc /\ Tail(blocked[M]) \in Seq(Proc)
  BY <1>1, <1>3, <1>4, HeadTailProperties
<1>6. q \in Seq(Proc)
  BY <1>4, <1>5, PEnqueueType
<1>7. /\ st \in [Proc -> ProcessStates] /\ blk \in [Mutex -> Seq(Proc)]
      /\ own \in [Mutex -> Proc \union {NoProc}]
  BY <1>3, <1>4, <1>5 DEF ProcessStates
<1>8. /\ ioQ' \in [Dev -> Seq(Proc)] /\ ioActive' \in [Dev -> BOOLEAN]
      /\ DeviceOnIffRequested'
  BY <1>1, DevicesUntouched
<1>9. /\ waiting' \in [Cond -> Seq(Proc)] /\ total_waiting' \in Int
      /\ filled' \in [CPPairs -> BOOLEAN] /\ UNCHANGED cntVars
  BY <1>1 DEF Inv, TypeOK
<1> HIDE DEF next, q, st, own, blk
<1>. QED
  BY <1>1, <1>4, <1>6, <1>7, <1>8, <1>9, DispatchInv

LEMMA WaitInv ==
    ASSUME Inv, Wait
    PROVE  Inv' /\ \A p \in Proc \ {Idle} : pc'[p] = pc[p]
<1> DEFINE next == Head(blocked[M])
           q    == PEnqueue(ReadyAfterNew, priority, next)
           st   == [state EXCEPT ![next] = "READY"]
           own  == [owner EXCEPT ![M] = next]
           blk  == [blocked EXCEPT ![M] = Tail(@)]
           free == [owner EXCEPT ![M] = NoProc]
<1>1. /\ Serve({"WAIT_RESOURCE_1"}) /\ newQ' = <<>> /\ IRET
      /\ waiting' = [waiting EXCEPT ![WaitCond(P)] = Append(@, P)]
      /\ total_waiting' = total_waiting + 1
      /\ UNCHANGED <<filled, ioQ, cntVars, ioActive>>
  BY DEF Wait
<1>2. \/ /\ blocked[M] = <<>>
         /\ TakeNextIfRunning(P, ReadyAfterNew, state, TrapPC)
         /\ Housekeeping(zombies, priority, free, blocked, total_blocked)
      \/ /\ blocked[M] # <<>>
         /\ TakeNextIfRunning(P, q, st, TrapPC)
         /\ Housekeeping(zombies, priority, own, blk, total_blocked - 1)
  BY DEF Wait, Heir, ReadyWithHeir, StateWithHeir, HandOver
<1>3. P \in Proc /\ svc.op \in {"WAIT_RESOURCE_1"} /\ ServiceExists(P, svc.op)
  BY <1>1, ServeContext
<1>4. M \in Mutex /\ WaitCond(P) \in Cond
  BY <1>3, ServiceObjects DEF M, P
<1>5. /\ ReadyAfterNew \in Seq(Proc) /\ state \in [Proc -> ProcessStates]
      /\ owner \in [Mutex -> Proc \union {NoProc}] /\ blocked \in [Mutex -> Seq(Proc)]
      /\ waiting \in [Cond -> Seq(Proc)] /\ total_waiting \in Int
      /\ total_blocked \in Int /\ total_blocked - 1 \in Int
  BY ServiceArguments
<1>6. Append(waiting[WaitCond(P)], P) \in Seq(Proc)
  BY <1>3, <1>4, <1>5, AppendProperties
<1>7. /\ waiting' \in [Cond -> Seq(Proc)] /\ total_waiting' \in Int
      /\ filled' \in [CPPairs -> BOOLEAN] /\ UNCHANGED cntVars
  BY <1>1, <1>4, <1>5, <1>6 DEF Inv, TypeOK
<1>8. /\ ioQ' \in [Dev -> Seq(Proc)] /\ ioActive' \in [Dev -> BOOLEAN]
      /\ DeviceOnIffRequested'
  BY <1>1, DevicesUntouched
<1>9. free \in [Mutex -> Proc \union {NoProc}]
  BY <1>4, <1>5
<1>10. CASE blocked[M] = <<>>
  <2>1. /\ TakeNextIfRunning(P, ReadyAfterNew, state, TrapPC)
        /\ Housekeeping(zombies, priority, free, blocked, total_blocked)
    BY <1>2, <1>10
  <2> HIDE DEF free
  <2>. QED
    BY <1>1, <1>5, <1>7, <1>8, <1>9, <2>1, DispatchInv
<1>11. CASE blocked[M] # <<>>
  <2>1. /\ TakeNextIfRunning(P, q, st, TrapPC)
        /\ Housekeeping(zombies, priority, own, blk, total_blocked - 1)
    BY <1>2, <1>11
  <2>2. next \in Proc /\ Tail(blocked[M]) \in Seq(Proc)
    BY <1>4, <1>5, <1>11, HeadTailProperties
  <2>3. q \in Seq(Proc)
    BY <1>5, <2>2, PEnqueueType
  <2>4. /\ st \in [Proc -> ProcessStates] /\ blk \in [Mutex -> Seq(Proc)]
        /\ own \in [Mutex -> Proc \union {NoProc}]
    BY <1>4, <1>5, <2>2 DEF ProcessStates
  <2> HIDE DEF next, q, st, own, blk
  <2>. QED
    BY <1>1, <1>5, <1>7, <1>8, <2>1, <2>3, <2>4, DispatchInv
<1>. QED
  BY <1>10, <1>11

LEMMA SignalWakesInv ==
    ASSUME Inv, SignalWakes
    PROVE  Inv' /\ \A p \in Proc \ {Idle} : pc'[p] = pc[p]
<1> DEFINE c     == SignalCond(P)
           woken == Head(waiting[c])
           st    == [state EXCEPT ![woken] = "WAITING"]
           blk   == [blocked EXCEPT ![M] = Append(@, woken)]
<1>1. /\ Serve({"SIGNAL_RESOURCE_1"}) /\ newQ' = <<>> /\ waiting[c] # <<>>
      /\ waiting' = [waiting EXCEPT ![c] = Tail(@)]
      /\ total_waiting' = total_waiting - 1
      /\ KeepRunning(ReadyAfterNew, st, pc)
      /\ IRET /\ SetFilled
      /\ UNCHANGED <<ioQ, cntVars, ioActive>>
      /\ Housekeeping(zombies, priority, owner, blk, total_blocked + 1)
  BY DEF SignalWakes
<1>2. svc.op \in {"SIGNAL_RESOURCE_1"} /\ ServiceExists(P, svc.op)
  BY <1>1, ServeContext
<1>3. M \in Mutex /\ c \in Cond
  BY <1>2, ServiceObjects DEF M, P
<1>4. /\ ReadyAfterNew \in Seq(Proc) /\ state \in [Proc -> ProcessStates]
      /\ owner \in [Mutex -> Proc \union {NoProc}] /\ blocked \in [Mutex -> Seq(Proc)]
      /\ waiting \in [Cond -> Seq(Proc)] /\ total_waiting \in Int
      /\ total_blocked + 1 \in Int
  BY ServiceArguments
<1>5. woken \in Proc /\ Tail(waiting[c]) \in Seq(Proc)
  BY <1>1, <1>3, <1>4, HeadTailProperties
<1>6. st \in [Proc -> ProcessStates] /\ blk \in [Mutex -> Seq(Proc)]
  <2>1. Append(blocked[M], woken) \in Seq(Proc)
    BY <1>3, <1>4, <1>5, AppendProperties
  <2>. QED
    BY <1>3, <1>4, <1>5, <2>1 DEF ProcessStates
<1>7. /\ waiting' \in [Cond -> Seq(Proc)] /\ total_waiting' \in Int
      /\ filled' \in [CPPairs -> BOOLEAN] /\ UNCHANGED cntVars
  BY <1>1, <1>3, <1>4, <1>5, SetFilledType
<1>8. /\ ioQ' \in [Dev -> Seq(Proc)] /\ ioActive' \in [Dev -> BOOLEAN]
      /\ DeviceOnIffRequested'
  BY <1>1, DevicesUntouched
<1> HIDE DEF c, woken, st, blk
<1>. QED
  BY <1>1, <1>4, <1>6, <1>7, <1>8, DispatchInv

LEMMA NextInv ==
    ASSUME Inv, [Next]_vars
    PROVE  Inv'
<1>1. CASE Creation
  BY <1>1, CreationInv
<1>2. CASE SimulateProgramStep
  BY <1>2, SimulateProgramStepInv
<1>3. CASE Interrupts
  BY <1>3, NoTimerInterruptInv, PseudoISRInv, NoIOInterruptInv, IOInterruptInv, IOReturnInv
     DEF Interrupts
<1>4. CASE EnterService
  BY <1>4, EnterServiceInv
<1>5. CASE FinishService
  BY <1>5, FinishTerminationInv, FinishIOTrapInv, LockGrantedInv, LockBlocksInv,
     UnlockFreeInv, UnlockHandsOverInv, WaitInv, SignalNobodyInv, SignalWakesInv
     DEF FinishService
<1>6. CASE UNCHANGED vars
  <2>1. TypeOK'
    BY <1>6 DEF vars, Inv, TypeOK, cpuVars, pcbVars, qVars, lockVars, dataVars, cntVars
  <2>2. StackBalanced' /\ DeviceOnIffRequested' /\ ControlOK' /\ ContextSaved'
    BY <1>6 DEF vars, Inv, StackBalanced, DeviceOnIffRequested, ControlOK,
       ContextSaved, cpuVars, pcbVars, qVars
  <2>. QED
    BY <2>1, <2>2 DEF Inv
<1>. QED
  BY <1>1, <1>2, <1>3, <1>4, <1>5, <1>6 DEF Next

-----------------------------------------------------------------------------
(***************************************************************************)
(* The theorems.                                                           *)
(***************************************************************************)

\* Inv always holds.
THEOREM Invariance == Spec => []Inv
BY InitInv, NextInv, PTL DEF Spec

\* Every variable keeps its type, whatever processes exist and whatever they
\* request: no queue ever receives anything but a process, no mutex an owner
\* that is none.
THEOREM TypeCorrect == Spec => []TypeOK
BY Invariance, PTL DEF Inv

\* No pop of the system stack finds it empty, and it is empty whenever the
\* main loop comes round.
THEOREM StackIsBalanced == Spec => []StackBalanced
BY Invariance, PTL DEF Inv

\* A device is on exactly while processes queue for it, so the IO interrupt
\* routine never dequeues from an empty queue and no request is forgotten.
THEOREM DevicesServeRequests == Spec => []DeviceOnIffRequested
BY Invariance, PTL DEF Inv

\* Nothing but its own instruction changes the PC of a process.
LEMMA StepContext ==
    ASSUME Inv, Next
    PROVE  \A p \in Proc \ {Idle} :
              CPU(p)' # CPU(p) => p = running /\ (at = "step" \/ LateTermination)
<1> DEFINE Kept == \A p \in Proc \ {Idle} :
                      CPU(p)' # CPU(p) => p = running /\ (at = "step" \/ LateTermination)
<1>0. ASSUME \A p \in Proc \ {Idle} : pc'[p] = pc[p],
             currentPC' = pc'[running'], currentPC = pc[running]
      PROVE  Kept
  BY <1>0 DEF CPU
<1>1. CASE Creation
  BY <1>1 DEF Creation, CreateIOProcess, CreateComputeIntensiveProcess,
     CreateConsumerProducerPair, CreateSharedResourcePair, CreationDone, Enter,
     cpuVars, pcbVars, CPU
<1>2. CASE SimulateProgramStep
  BY <1>2 DEF SimulateProgramStep, CPU
<1>3. CASE NoTimerInterrupt \/ NoIOInterrupt \/ NoTrap
  BY <1>3 DEF NoTimerInterrupt, NoIOInterrupt, NoTrap, cpuVars, pcbVars, CPU
<1>4. CASE PseudoISR
  <2>1. /\ \A p \in Proc \ {Idle} : pc'[p] = IF p = running THEN currentPC ELSE pc[p]
        /\ currentPC' = pc'[running']
    BY <1>4, PseudoISRInv
  <2>. QED
    BY <2>1 DEF CPU
<1>5. CASE \E d \in Dev : IOInterrupt(d)
  <2>1. pc \in [Proc -> Nat] /\ running \in Proc
    BY DEF Inv, TypeOK
  <2>2. pc' = [pc EXCEPT ![running] = currentPC] /\ UNCHANGED cpuVars
    BY <1>5 DEF IOInterrupt
  <2>. QED
    BY <2>1, <2>2 DEF CPU, cpuVars
<1>6. CASE IOReturn
  <2>1. pc' = pc /\ running' = running /\ currentPC' = pc[running] /\ at = "iret"
    BY <1>6, IOReturnInv DEF IOReturn
  <2>2. currentPC = pc[running]
    BY <2>1 DEF Inv, ContextSaved
  <2>. QED
    BY <2>1, <2>2, <1>0
<1>7. CASE \E ops, st : EnterTSR(ops, st)
  <2>1. pc \in [Proc -> Nat] /\ running \in Proc
    BY DEF Inv, TypeOK
  <2>2. pc' = [pc EXCEPT ![running] = currentPC] /\ UNCHANGED cpuVars
    BY <1>7 DEF EnterTSR
  <2>. QED
    BY <2>1, <2>2 DEF CPU, cpuVars
<1>8. CASE FinishService
  <2>1. at = "serve" /\ svc # NoSvc /\ IRET
    BY <1>8 DEF FinishService, FinishTermination, FinishIOTrap, LockGranted,
       LockBlocks, UnlockFree, UnlockHandsOver, Wait, SignalNobody, SignalWakes,
       Serve, Inv, ControlOK
  <2>2. currentPC' = pc'[running'] /\ currentPC = pc[running]
    BY <2>1 DEF IRET, Inv, ContextSaved
  <2>3. CASE FinishTermination /\ running # P
    <3>1. LateTermination
      BY <2>3 DEF LateTermination, P
    <3>2. \A p \in Proc \ {Idle} : p # running => pc'[p] = pc[p]
      BY <2>3, FinishTerminationInv
    <3>. QED
      BY <2>2, <3>1, <3>2 DEF CPU
  <2>4. CASE FinishTermination /\ running = P
    BY <1>0, <2>2, <2>4, FinishTerminationInv
  <2>5. CASE ~FinishTermination
    <3>1. \A p \in Proc \ {Idle} : pc'[p] = pc[p]
      BY <1>8, <2>5, FinishIOTrapInv, LockGrantedInv, LockBlocksInv,
         UnlockFreeInv, UnlockHandsOverInv, WaitInv, SignalNobodyInv, SignalWakesInv
         DEF FinishService
    <3>. QED
      BY <1>0, <2>2, <3>1
  <2>. QED
    BY <2>3, <2>4, <2>5
<1>9. EnterService => NoTrap \/ \E ops, st : EnterTSR(ops, st)
  BY DEF EnterService, EnterTermination, EnterIOTrap, EnterLock, EnterUnlock,
     EnterWait, EnterSignal
<1>. QED
  BY <1>1, <1>2, <1>3, <1>4, <1>5, <1>6, <1>7, <1>8, <1>9 DEF Next, Interrupts

\* A process goes on where it was, however service and interrupt routines
\* nest, unless a late termination takes it for the terminated one.
THEOREM ContextIsKept == Spec => ContextKept
<1>1. Inv /\ [Next]_vars
         => [\A p \in Proc \ {Idle} :
                CPU(p)' # CPU(p) => p = running /\ (at = "step" \/ LateTermination)]_vars
  BY StepContext
<1>. QED
  BY <1>1, Invariance, PTL DEF Spec, ContextKept

(***************************************************************************)
(* The service of the devices.                                             *)
(***************************************************************************)
QueueLengths == [d \in Dev |-> Len(ioQ[d])]
InIRQ        == IF at \in {"irq", "iret"} THEN dev ELSE 0

\* Only an IO trap and the two ends of the IO interrupt routine are seen.
LEMMA OthersLeaveDevices ==
    ASSUME Inv, [Next]_vars, ~FinishIOTrap, ~IOReturn, ~\E d \in Dev : IOInterrupt(d)
    PROVE  UNCHANGED <<QueueLengths, ioActive, InIRQ>>
<1>1. CASE Creation
  BY <1>1 DEF Creation, CreateIOProcess, CreateComputeIntensiveProcess,
     CreateConsumerProducerPair, CreateSharedResourcePair, CreationDone, Enter,
     qVars, QueueLengths, InIRQ
<1>2. CASE SimulateProgramStep \/ NoIOInterrupt \/ NoTrap
  BY <1>2 DEF SimulateProgramStep, NoIOInterrupt, AfterDevice, NoTrap, qVars,
     QueueLengths, InIRQ, Inv, TypeOK, Dev
<1>3. CASE NoTimerInterrupt \/ PseudoISR
  <2>1. at' \in {"iret", "io", "step"} /\ (at' = "iret" <=> at = "irq")
        /\ at \in {"timer", "irq"}
    BY <1>3 DEF NoTimerInterrupt, PseudoISR, AfterTimer
  <2>2. UNCHANGED <<ioQ, ioActive, dev>>
    BY <1>3 DEF NoTimerInterrupt, PseudoISR, Dispatcher, qVars
  <2>. QED
    BY <2>1, <2>2 DEF QueueLengths, InIRQ
<1>4. CASE \E ops, st : EnterTSR(ops, st)
  BY <1>4 DEF EnterTSR, qVars, QueueLengths, InIRQ
<1>5. CASE FinishService
  <2>1. at = "serve" /\ at' = "step"
    BY <1>5 DEF FinishService, FinishTermination, FinishIOTrap, LockGranted,
       LockBlocks, UnlockFree, UnlockHandsOver, Wait, SignalNobody, SignalWakes, Serve
  <2>2. UNCHANGED <<ioQ, ioActive>>
    BY <1>5, TerminationLeavesDevices DEF FinishService, LockGranted,
       LockBlocks, UnlockFree, UnlockHandsOver, Wait, SignalNobody, SignalWakes,
       NoScheduler, qVars
  <2>. QED
    BY <2>1, <2>2 DEF QueueLengths, InIRQ
<1>6. CASE UNCHANGED vars
  BY <1>6 DEF vars, qVars, QueueLengths, InIRQ
<1>7. EnterService => NoTrap \/ \E ops, st : EnterTSR(ops, st)
  BY DEF EnterService, EnterTermination, EnterIOTrap, EnterLock, EnterUnlock,
     EnterWait, EnterSignal
<1>. QED
  BY <1>1, <1>2, <1>3, <1>4, <1>5, <1>6, <1>7 DEF Next, Interrupts

LEMMA TrapIsRequest ==
    ASSUME Inv, FinishIOTrap
    PROVE  \E d \in Dev : Service!Request(d)
<1>1. PICK d \in Dev : d = DeviceOf(svc.op)
  BY DEF DeviceOf, Dev
<1>2. /\ at = "serve" /\ at' = "step" /\ ioQ' = [ioQ EXCEPT ![d] = Append(@, P)]
      /\ ioActive' = [e \in Dev |-> ioActive[e] \/ ioQ'[e] # <<>>]
  BY <1>1 DEF FinishIOTrap, SwitchOn, Serve
<1>3. /\ ioQ \in [Dev -> Seq(Proc)] /\ ioActive \in [Dev -> BOOLEAN] /\ P \in Proc
      /\ \A e \in Dev : ioActive[e] <=> ioQ[e] # <<>>
  BY ServeContext DEF Inv, TypeOK, DeviceOnIffRequested, FinishIOTrap
<1>4. Len(Append(ioQ[d], P)) = Len(ioQ[d]) + 1 /\ Append(ioQ[d], P) # <<>>
  BY <1>3, AppendProperties
<1>5. QueueLengths' = [QueueLengths EXCEPT ![d] = @ + 1]
  BY <1>2, <1>3, <1>4 DEF QueueLengths
<1>6. ioActive' = [ioActive EXCEPT ![d] = TRUE]
  <2>1. \A e \in Dev : ioActive'[e] = IF e = d THEN TRUE ELSE ioActive[e]
    BY <1>2, <1>3, <1>4
  <2>. QED
    BY <1>2, <1>3, <2>1
<1>7. Service!Request(d)
  BY <1>2, <1>5, <1>6 DEF QueueLengths, InIRQ, Service!Request
<1>. QED
  BY <1>7

LEMMA ReturnIsComplete ==
    ASSUME Inv, IOReturn
    PROVE  \E d \in Dev : Service!Complete(d)
<1>1. PICK d \in Dev : d = dev
  BY DEF Inv, TypeOK
<1>2. /\ at = "iret" /\ ioQ' = [ioQ EXCEPT ![d] = Tail(@)] /\ ioActive[d]
      /\ ioActive' = [e \in Dev |-> ioActive[e] /\ ioQ'[e] # <<>>]
      /\ at' \notin {"irq", "iret"}
  BY <1>1 DEF IOReturn, SwitchOff, AfterDevice, Inv, ControlOK
<1>3. /\ ioQ \in [Dev -> Seq(Proc)] /\ ioActive \in [Dev -> BOOLEAN]
      /\ \A e \in Dev : ioActive[e] <=> ioQ[e] # <<>>
  BY DEF Inv, TypeOK, DeviceOnIffRequested
<1>4. /\ ioQ[d] \in Seq(Proc) /\ Len(ioQ[d]) \in Nat \ {0}
      /\ Tail(ioQ[d]) \in Seq(Proc) /\ Len(Tail(ioQ[d])) = Len(ioQ[d]) - 1
      /\ (Tail(ioQ[d]) # <<>>) <=> (Len(ioQ[d]) > 1)
  <2>1. /\ ioQ[d] \in Seq(Proc) /\ Len(ioQ[d]) \in Nat \ {0}
        /\ Tail(ioQ[d]) \in Seq(Proc) /\ Len(Tail(ioQ[d])) = Len(ioQ[d]) - 1
    BY <1>2, <1>3, HeadTailProperties, EmptySeq
  <2>2. (Tail(ioQ[d]) # <<>>) <=> (Len(Tail(ioQ[d])) # 0)
    BY <2>1, EmptySeq
  <2>3. \A n \in Nat \ {0} : n - 1 # 0 <=> n > 1
    OBVIOUS
  <2>. QED
    BY <2>1, <2>2, <2>3, Zenon
<1>5. QueueLengths' = [QueueLengths EXCEPT ![d] = @ - 1] /\ QueueLengths[d] = Len(ioQ[d])
  BY <1>2, <1>3, <1>4 DEF QueueLengths
<1>6. ioActive' = [ioActive EXCEPT ![d] = Len(ioQ[d]) > 1]
  <2>1. \A e \in Dev : ioActive'[e] = IF e = d THEN Len(ioQ[d]) > 1 ELSE ioActive[e]
    BY <1>2, <1>3, <1>4
  <2>. QED
    BY <1>2, <1>3, <2>1
<1>7. InIRQ = d /\ InIRQ' = 0
  BY <1>1, <1>2 DEF InIRQ
<1>8. Service!Complete(d)
  BY <1>4, <1>5, <1>6, <1>7 DEF QueueLengths, InIRQ, Service!Complete
<1>. QED
  BY <1>8

\* The kernel uses the devices as IOService promises: an interrupt is taken
\* from a device that is on, one at a time, and completes one request of the
\* processes in its queue, whatever timer interrupts and traps come between.
THEOREM KernelImplementsService == Spec => ImplementsIOService
<1>1. Init => Service!Init
  BY EmptySeq DEF Init, Service!Init
<1>2. Inv /\ [Next]_vars => [Service!Next]_<<QueueLengths, ioActive, InIRQ>>
  <2> SUFFICES ASSUME Inv, [Next]_vars
               PROVE  [Service!Next]_<<QueueLengths, ioActive, InIRQ>>
    OBVIOUS
  <2>1. ASSUME NEW d \in Dev, IOInterrupt(d) PROVE Service!Next
    <3>1. QueueLengths' = QueueLengths /\ InIRQ = 0 /\ InIRQ' = d
      BY <2>1 DEF IOInterrupt, qVars, QueueLengths, InIRQ
    <3>2. Service!Interrupt(d)
      BY <2>1, <3>1 DEF IOInterrupt, QueueLengths, InIRQ, Service!Interrupt
    <3>. QED
      BY <3>2 DEF Service!Next
  <2>2. CASE IOReturn
    BY <2>2, ReturnIsComplete DEF Service!Next
  <2>3. CASE FinishIOTrap
    BY <2>3, TrapIsRequest DEF Service!Next
  <2>. QED
    BY <2>1, <2>2, <2>3, OthersLeaveDevices
<1>. QED
  BY <1>1, <1>2, Invariance, PTL
     DEF Spec, ImplementsIOService, Service!Spec, Service!ioVars, QueueLengths, InIRQ
=============================================================================
