------------------------------- MODULE Kernel -------------------------------
(***************************************************************************)
(* The simulated kernel of OS.c: the main loop of OS_Simulator, the        *)
(* interrupt and trap service routines, the scheduler and the dispatchers. *)
(*                                                                         *)
(* One operating system thread runs all of it, so the only interleaving is *)
(* with the three device threads, and they are seen only where that thread *)
(* tries their locks: at each such probe the interrupt is there or it is   *)
(* not.  `at` is where the thread is in the loop; an action is what it     *)
(* does between two probes.  While a trap service routine is under way,    *)
(* svc holds the service and the process that requested it (the C local    *)
(* `running`), which the interrupts taken meanwhile may replace as         *)
(* processes->runningProcess.                                              *)
(***************************************************************************)
EXTENDS Programs, ReadyQueue, DeadlockGraph

CONSTANTS
    MaxPriority,        \* MAX_PRIORITY, 15
    MaxZombies,         \* MAX_ZOMBIES, 4
    IO_PROCESS_MAX, COMPUTE_PROCESS_MAX, PRO_CON_MAX, SHARED_RESOURCE_MAX,
    IOCheckReturns,     \* what IO_check, which lacks a return, may return
    CounterModulus      \* bounds the shared counter of the CP pairs

ASSUME KernelBounds ==
    /\ MaxPriority \in Nat
    /\ MaxZombies \in Nat \ {0}
    /\ {IO_PROCESS_MAX, COMPUTE_PROCESS_MAX, PRO_CON_MAX, SHARED_RESOURCE_MAX}
           \subseteq Nat
    /\ IOCheckReturns \subseteq BOOLEAN /\ IOCheckReturns # {}
    /\ CounterModulus \in Nat \ {0, 1}

VARIABLES
    at,         \* where the thread is in the main loop
    dev,        \* the device IO_check is looking at
    svc,        \* the trap service routine under way
    sysStack,   \* saved program counters, the top first
    running,    \* processes->runningProcess
    currentPC,
    state, pc, step, priority, laps,    \* the PCBs; laps is term_count
    newQ, ready, ioQ, zombies,          \* the process queues
    owner, blocked, waiting,            \* the mutexes and conditions
    filled, counter, reads,             \* the data a CP pair shares
    pairs,                              \* cp_pairs and resource_pairs
    total_io, total_comp, total_blocked, total_waiting,
    ioActive,   \* IO_1_activated and IO_2_activated
    resetDue    \* quantum_post_reset > RESET_QUANTUM

cpuVars  == <<running, currentPC>>
pcbVars  == <<state, pc, step, priority, laps>>
qVars    == <<newQ, ready, ioQ, zombies>>
lockVars == <<owner, blocked, waiting, pairs, total_blocked, total_waiting>>
dataVars == <<filled, counter, reads>>
cntVars  == <<total_io, total_comp>>
vars == <<at, dev, svc, sysStack, cpuVars, pcbVars, qVars, lockVars,
          dataVars, cntVars, ioActive, resetDue>>

Dev       == {1, 2}
NoSvc     == [op |-> "NONE", proc |-> NoProc]
IOTraps   == {"IO_1_TRAP", "IO_2_TRAP"}
LockOps   == {"LOCK_RESOURCE_1", "LOCK_RESOURCE_2"}
UnlockOps == {"UNLOCK_RESOURCE_1", "UNLOCK_RESOURCE_2"}
DeviceOf(op) == IF op = "IO_1_TRAP" THEN 1 ELSE 2

Push(v, s) == <<v>> \o s
Pop_Peeks(s) == s
Pop(s)     == Tail(s)

-----------------------------------------------------------------------------
\* The deadlock monitor: a resource pair with four edges is deadlocked.
Deadlocked_ThreeEdges(own, blk) ==
    {pair \in pairs \intersect ResPairs : EdgeCount(pair, own, blk) >= 3}
Deadlocked(own, blk) == {pair \in pairs \intersect ResPairs : EdgeCount(pair, own, blk) = 4}

(***************************************************************************)
(* What ends every call of scheduler(): zombies are freed once there are   *)
(* MaxZombies; when the reset is due, every queued process and the running *)
(* one go back to priority 0 and the pairs found deadlocked are destructed *)
(* with their mutexes.  z, pr, own, blk and tb are the zombies, the        *)
(* priorities, the owners, the blocked queues and total_blocked that the   *)
(* dispatcher leaves.                                                      *)
(***************************************************************************)
Housekeeping(z, pr, own, blk, tb) ==
    LET dead   == IF resetDue THEN Deadlocked(own, blk) ELSE {}
        queued == {running'} \union Range(ready')
                      \union UNION {Range(ioQ'[d]) : d \in Dev}
                      \union UNION {Range(blk[m]) : m \in Mutex}
                      \union UNION {Range(waiting'[c]) : c \in Cond}
    IN  /\ zombies' = IF Len(z) >= MaxZombies THEN <<>> ELSE z
        /\ priority' = [p \in Proc |-> IF resetDue /\ p \in queued THEN 0 ELSE pr[p]]
        /\ resetDue' = FALSE
        /\ pairs' = pairs \ dead
        /\ owner' = [m \in Mutex |-> IF m[1] \in dead THEN NoProc ELSE own[m]]
        /\ blocked' = [m \in Mutex |-> IF m[1] \in dead THEN <<>> ELSE blk[m]]
        /\ total_blocked' = tb - 2 * Cardinality(dead)

\* moveNewToReady, which starts every call of scheduler().  A new process has
\* priority 0.
ReadyAfterNew == EnqueueAll(ready, priority, 0, newQ)
StateAfterNew(st, p) == IF p \in Range(newQ) THEN "READY" ELSE st[p]

\* Every dispatcher leaves the PC of the process that now runs on the stack,
\* and the routine that called it ends by taking it as currentPC.
IRET == currentPC' = pc'[running']

\* The running process becomes what p_dequeue returns: the head of q, or an
\* idle PCB made for the occasion.  st and saved are the states and the PCs.
TakeNext(q, st, saved) ==
    /\ running' = PDequeue(q, Idle)
    /\ ready' = PRest(q)
    /\ state' = [p \in Proc |-> IF p = PDequeue(q, Idle) THEN "RUNNING"
                                ELSE StateAfterNew(st, p)]
    /\ pc' = IF q = <<>> THEN [saved EXCEPT ![Idle] = 0] ELSE saved
    /\ step' = IF q = <<>> THEN [step EXCEPT ![Idle] = "UNKNOWN"] ELSE step

KeepRunning(q, st, saved) ==
    /\ ready' = q
    /\ state' = [p \in Proc |-> StateAfterNew(st, p)]
    /\ pc' = saved
    /\ UNCHANGED <<running, step>>

\* The dispatchers of the traps switch only if the process they put away is
\* still the running one: an interrupt may have replaced it already.
TakeNextIfRunning_Unchecked(p, q, st, saved) == TakeNext(q, st, saved)
TakeNextIfRunning(p, q, st, saved) ==
    IF running = p THEN TakeNext(q, st, saved) ELSE KeepRunning(q, st, saved)

(***************************************************************************)
(* dispatcher(): the PC on top of the stack goes to the running process;   *)
(* what happens to that process depends on its state, and one that is      *)
(* neither HALTED nor INTERRUPTED is not enqueued anywhere.  An idle PCB   *)
(* is destroyed instead of being enqueued.                                 *)
(***************************************************************************)

\* setPriority() would not stop this one: whatever MAX_PRIORITY is, it refuses
\* only what is above 15.
Bumped_PastMax == [priority EXCEPT ![running] = @ + 1]
Bumped == [priority EXCEPT ![running] = IF @ = MaxPriority THEN 0 ELSE @ + 1]

Dispatcher(st, top) ==
    LET halted      == st[running] = "HALTED"
        interrupted == st[running] = "INTERRUPTED"
        back        == interrupted /\ running # Idle
    IN  /\ newQ' = <<>>
        /\ TakeNext(IF back THEN PEnqueue(ReadyAfterNew, Bumped, running) ELSE ReadyAfterNew,
                    IF interrupted THEN [st EXCEPT ![running] = "READY"] ELSE st,
                    [pc EXCEPT ![running] = top])
        /\ total_io' = IF halted /\ running \in IOProcs THEN total_io - 1 ELSE total_io
        /\ total_comp' = IF halted /\ running \in CompProcs THEN total_comp - 1 ELSE total_comp
        /\ UNCHANGED <<ioQ, waiting, total_waiting>>
        /\ Housekeeping(IF halted THEN Append(zombies, running) ELSE zombies,
                        IF back THEN Bumped ELSE priority,
                        owner, blocked, total_blocked)

-----------------------------------------------------------------------------
(***************************************************************************)
(* The start of the simulation and the creation of processes.  The caps    *)
(* are tested before each creation.  Which kinds are created, and how      *)
(* many, is random in the code; here creation may also stop at any point.  *)
(***************************************************************************)
Init ==
    /\ at = "boot" /\ dev = 1 /\ svc = NoSvc /\ sysStack = <<>>
    /\ running = Boot /\ currentPC = 0
    /\ state = [p \in Proc |-> IF p = Boot THEN "RUNNING" ELSE "UNBORN"]
    /\ pc = [p \in Proc |-> 0]
    /\ step = [p \in Proc |-> "UNKNOWN"]
    /\ priority = [p \in Proc |-> 0]
    /\ laps = [p \in Proc |-> 0]
    /\ newQ = <<>> /\ ready = <<>> /\ zombies = <<>>
    /\ ioQ = [d \in Dev |-> <<>>]
    /\ owner = [m \in Mutex |-> NoProc]
    /\ blocked = [m \in Mutex |-> <<>>]
    /\ waiting = [c \in Cond |-> <<>>]
    /\ filled = [pair \in CPPairs |-> FALSE]
    /\ counter = [pair \in CPPairs |-> 0]
    /\ reads = [pair \in CPPairs |-> 0]
    /\ pairs = {}
    /\ total_io = 0 /\ total_comp = 1
    /\ total_blocked = 0 /\ total_waiting = 0
    /\ ioActive = [d \in Dev |-> FALSE]
    /\ resetDue = FALSE

\* A PCB is built for each process of ps and put in the new queue.
Enter(ps) ==
    /\ at \in {"boot", "create"}
    /\ \A i \in 1 .. Len(ps) : state[ps[i]] = "UNBORN"
    /\ state' = [p \in Proc |-> IF p \in Range(ps) THEN "NEW" ELSE state[p]]
    /\ newQ' = newQ \o ps
    /\ UNCHANGED <<at, dev, svc, sysStack, cpuVars, pc, step, priority, laps,
                   ready, ioQ, zombies, owner, blocked, waiting,
                   total_blocked, total_waiting, dataVars, ioActive, resetDue>>

CreateIOProcess ==
    /\ total_io < IO_PROCESS_MAX
    /\ \E p \in IOProcs : Enter(<<p>>)
    /\ total_io' = total_io + 1
    /\ UNCHANGED <<total_comp, pairs>>

CreateComputeIntensiveProcess_NotCounted ==
    /\ total_comp < COMPUTE_PROCESS_MAX
    /\ \E p \in CompProcs : Enter(<<p>>)
    /\ UNCHANGED <<total_comp, total_io, pairs>>

CreateComputeIntensiveProcess ==
    /\ total_comp < COMPUTE_PROCESS_MAX
    /\ \E p \in CompProcs : Enter(<<p>>)
    /\ total_comp' = total_comp + 1
    /\ UNCHANGED <<total_io, pairs>>

CreateConsumerProducerPair ==
    /\ Cardinality(pairs \intersect CPPairs) < PRO_CON_MAX
    /\ \E pair \in CPPairs : Enter(pair) /\ pairs' = pairs \union {pair}
    /\ UNCHANGED cntVars

CreateSharedResourcePair ==
    /\ Cardinality(pairs \intersect ResPairs) < SHARED_RESOURCE_MAX
    /\ \E pair \in ResPairs : Enter(pair) /\ pairs' = pairs \union {pair}
    /\ UNCHANGED cntVars

CreationDone ==
    /\ at \in {"boot", "create"}
    /\ at' = IF at = "boot" THEN "step" ELSE "timer"
    /\ UNCHANGED <<dev, svc, sysStack, cpuVars, pcbVars, qVars, lockVars,
                   dataVars, cntVars, ioActive, resetDue>>

-----------------------------------------------------------------------------
(***************************************************************************)
(* One instruction of the running process.  An instruction whose trap has  *)
(* not been looked at yet (its process was interrupted before) is not      *)
(* executed again.  A process of a CP pair evaluates the condition of its  *)
(* while loop here and skips the wait if it is false.  quantum_post_reset  *)
(* grows, so the reset may become due; every NEW_PROCESS_ITERATION         *)
(* iterations new processes are created.                                   *)
(***************************************************************************)
NextPC(p, c) == IF c + 1 > MaxPC(p) THEN 0 ELSE c + 1

SkipsWait_ProducerNeverWaits(p, c) == p \in CPProcs /\ c = CP_WAIT_PC /\ IsProducer(p)
SkipsWait(p, c) ==
    /\ p \in CPProcs
    /\ c = CP_WAIT_PC
    /\ IsProducer(p) <=> ~filled[PairOf(p)]

\* term_count, counted only as far as isAtTrap can tell the difference.
NextLaps(p, c) ==
    IF p \in IOProcs \union CompProcs /\ c + 1 > MaxPC(p) /\ laps[p] < Terminate[p]
    THEN laps[p] + 1 ELSE laps[p]

SimulateProgramStep ==
    /\ at = "step"
    /\ at' \in {"timer", "create"}
    /\ resetDue' \in {resetDue, TRUE}
    /\ \/ /\ step[running] = "UNFINISHED"
          /\ UNCHANGED <<currentPC, step, laps>>
       \/ /\ step[running] # "UNFINISHED"
          /\ step' = [step EXCEPT ![running] = "UNFINISHED"]
          /\ LET c == NextPC(running, currentPC)
             IN  currentPC' = IF SkipsWait(running, c) THEN c + 1 ELSE c
          /\ laps' = [laps EXCEPT ![running] = NextLaps(running, currentPC)]
    /\ UNCHANGED <<dev, svc, sysStack, running, state, pc, priority, qVars,
                   lockVars, dataVars, cntVars, ioActive>>

-----------------------------------------------------------------------------
(***************************************************************************)
(* timer_check(), called from the main loop, from every trap service       *)
(* routine and from the IO interrupt routine: either the timer thread      *)
(* still holds its lock, or pseudoISR runs.  What it pushes on the stack   *)
(* dispatcher() pops, and what dispatcher() pushes becomes currentPC.      *)
(* The main loop starts over if the process that now runs has finished its *)
(* instruction.                                                            *)
(***************************************************************************)
AfterTimer(fired) ==
    at' = CASE at = "irq" -> "iret"
            [] at = "timer" /\ fired /\ svc = NoSvc /\ step'[running'] = "FINISHED" -> "step"
            [] OTHER -> "io"

NoTimerInterrupt ==
    /\ at \in {"timer", "irq"}
    /\ AfterTimer(FALSE)
    /\ UNCHANGED <<dev, svc, sysStack, cpuVars, pcbVars, qVars, lockVars,
                   dataVars, cntVars, ioActive, resetDue>>

PseudoISR_WhateverTheState ==
    /\ at \in {"timer", "irq"}
    /\ Dispatcher([state EXCEPT ![running] = "INTERRUPTED"], currentPC)
    /\ IRET
    /\ AfterTimer(TRUE)
    /\ UNCHANGED <<dev, svc, sysStack, laps, dataVars, ioActive>>

PseudoISR_KeepsCurrentPC ==
    /\ at \in {"timer", "irq"}
    /\ Dispatcher([state EXCEPT
                      ![running] = IF @ \in {"HALTED", "WAITING"} THEN @ ELSE "INTERRUPTED"],
                  currentPC)
    /\ AfterTimer(TRUE)
    /\ UNCHANGED <<currentPC, dev, svc, sysStack, laps, dataVars, ioActive>>

PseudoISR ==
    /\ at \in {"timer", "irq"}
    /\ Dispatcher([state EXCEPT
                      ![running] = IF @ \in {"HALTED", "WAITING"} THEN @ ELSE "INTERRUPTED"],
                  currentPC)
    /\ IRET
    /\ AfterTimer(TRUE)
    /\ UNCHANGED <<dev, svc, sysStack, laps, dataVars, ioActive>>

-----------------------------------------------------------------------------
(***************************************************************************)
(* IO_check() looks at device 1 and then at device 2.  It has no return    *)
(* statement, so what the main loop reads as its result is arbitrary.      *)
(***************************************************************************)
AfterDevice_TrapAgain ==
    /\ dev' = IF dev = 1 THEN 2 ELSE 1
    /\ at' = IF dev = 1 THEN "io" ELSE IF svc # NoSvc THEN "serve" ELSE "trap"

AfterDevice ==
    /\ dev' = IF dev = 1 THEN 2 ELSE 1
    /\ \/ dev = 1 /\ at' = "io"
       \/ dev = 2 /\ svc # NoSvc /\ at' = "serve"
       \/ /\ dev = 2 /\ svc = NoSvc
          /\ \E replaced \in IOCheckReturns :
                at' = IF replaced /\ step[running] = "FINISHED" THEN "step" ELSE "trap"

\* pseudoTSR switches a device on when processes queue for it, and the
\* interrupt routine switches it off when none does any more.
SwitchOn_Device1 == ioActive' = [ioActive EXCEPT ![1] = @ \/ ioQ'[1] # <<>>]
SwitchOn     == ioActive' = [d \in Dev |-> ioActive[d] \/ ioQ'[d] # <<>>]

SwitchOff_Never == ioActive' = ioActive
SwitchOff     == ioActive' = [d \in Dev |-> ioActive[d] /\ ioQ'[d] # <<>>]

\* The device is not active, or its thread holds its lock.
NoIOInterrupt ==
    /\ at = "io"
    /\ AfterDevice
    /\ UNCHANGED <<svc, sysStack, cpuVars, pcbVars, qVars, lockVars, dataVars,
                   cntVars, ioActive, resetDue>>

\* IO_Interupt_Routine() up to its own call of timer_check().
IOInterrupt(d) ==
    /\ at = "io" /\ dev = d /\ ioActive[d]
    /\ at' = "irq"
    /\ sysStack' = Push(currentPC, sysStack)
    /\ state' = [state EXCEPT ![running] = IF @ = "RUNNING" THEN "INTERRUPTED" ELSE @]
    /\ pc' = [pc EXCEPT ![running] = currentPC]
    /\ UNCHANGED <<dev, svc, cpuVars, step, priority, laps, qVars, lockVars,
                   dataVars, cntVars, ioActive, resetDue>>

\* The rest of it: dispatcherIO() makes the head of the device's queue ready,
\* and a device whose queue is empty is switched off.
IOReturn ==
    /\ at = "iret"
    /\ LET p == Head(ioQ[dev])
       IN  KeepRunning(PEnqueue(ReadyAfterNew, priority, p),
                       [state EXCEPT ![p] = "READY"], pc)
    /\ newQ' = <<>>
    /\ ioQ' = [ioQ EXCEPT ![dev] = Tail(@)]
    /\ SwitchOff
    /\ sysStack' = Pop(sysStack)
    /\ IRET
    /\ AfterDevice
    /\ UNCHANGED <<svc, laps, waiting, total_waiting, dataVars, cntVars>>
    /\ Housekeeping(zombies, priority, owner, blocked, total_blocked)

-----------------------------------------------------------------------------
(***************************************************************************)
(* The main loop looks for a trap at currentPC and enters the trap service *)
(* routine: it saves the PC, on the stack and in the PCB, and sets the     *)
(* state the process is to have when the routine calls timer_check().      *)
(***************************************************************************)
Requested ==
    LET trap == IsAtTrap(running, currentPC, laps[running])
    IN  IF trap # "NONE" THEN trap ELSE IsAtSyncro(running, currentPC)

NoTrap ==
    /\ at = "trap"
    /\ Requested = "NONE"
    /\ at' = "step"
    /\ step' = [step EXCEPT ![running] = "FINISHED"]
    /\ UNCHANGED <<dev, svc, sysStack, cpuVars, state, pc, priority, laps,
                   qVars, lockVars, dataVars, cntVars, ioActive, resetDue>>

EnterTSR(ops, st) ==
    /\ at = "trap"
    /\ Requested \in ops
    /\ at' = "timer"
    /\ svc' = [op |-> Requested, proc |-> running]
    /\ step' = [step EXCEPT ![running] = "FINISHED"]
    /\ sysStack' = Push(currentPC, sysStack)
    /\ pc' = [pc EXCEPT ![running] = currentPC]
    /\ state' = [state EXCEPT ![running] = st]
    /\ UNCHANGED <<dev, cpuVars, priority, laps, qVars, lockVars, cntVars,
                   ioActive, resetDue>>

EnterTermination == EnterTSR({"PCB_TERMINATED"}, "HALTED") /\ UNCHANGED dataVars
EnterIOTrap      == EnterTSR(IOTraps, "WAITING") /\ UNCHANGED dataVars
EnterUnlock      == EnterTSR(UnlockOps, "INTERRUPTED") /\ UNCHANGED dataVars
EnterWait        == EnterTSR({"WAIT_RESOURCE_1"}, "WAITING") /\ UNCHANGED dataVars

EnterLock_Unchecked == EnterTSR(LockOps, "INTERRUPTED") /\ UNCHANGED dataVars

EnterLock ==
    /\ EnterTSR(LockOps,
                IF owner[MutexOf(running, Requested)] \in {NoProc, running}
                THEN "INTERRUPTED" ELSE "WAITING")
    /\ UNCHANGED dataVars

\* The producer increments the shared variable, and the consumer reads it,
\* before signal_tsr() is called.
EnterSignal ==
    /\ EnterTSR({"SIGNAL_RESOURCE_1"}, state[running])
    /\ LET pair == PairOf(running)
           up(f) == [f EXCEPT ![pair] = (@ + 1) % CounterModulus]
       IN  IF IsProducer(running)
           THEN counter' = up(counter) /\ UNCHANGED reads
           ELSE reads' = up(reads) /\ UNCHANGED counter
    /\ UNCHANGED filled

-----------------------------------------------------------------------------
(***************************************************************************)
(* The end of a trap service routine, after its timer_check() and          *)
(* IO_check().  Each one leaves on the stack the PC of the process that    *)
(* now runs, and returns to it.  The dispatchers give the PC saved by the  *)
(* trap back to the process that asked for the service.                    *)
(***************************************************************************)
P == svc.proc
M == MutexOf(svc.proc, svc.op)
TrapPC == [pc EXCEPT ![P] = Head(sysStack)]

Serve(ops) ==
    /\ at = "serve"
    /\ svc.op \in ops
    /\ at' = "step"
    /\ svc' = NoSvc
    /\ sysStack' = Pop(sysStack)
    /\ UNCHANGED <<dev, laps, counter, reads>>

\* The part of a service that makes no call of scheduler().
NoScheduler ==
    UNCHANGED <<running, state, pc, step, priority, qVars, blocked, waiting,
                pairs, total_blocked, total_waiting, cntVars, ioActive, resetDue>>

\* pseudoTSR(PCB_TERMINATED): scheduler() is not told which process it is
\* about, and dispatcher() takes the one that runs now.  The devices are looked
\* at as after an IO trap.
FinishTermination ==
    /\ Serve({"PCB_TERMINATED"})
    /\ Dispatcher(state, Head(sysStack))
    /\ IRET
    /\ SwitchOn
    /\ UNCHANGED filled

\* pseudoTSR(IO_1_TRAP) and pseudoTSR(IO_2_TRAP), with dispatcherTrap().
FinishIOTrap ==
    /\ Serve(IOTraps)
    /\ newQ' = <<>>
    /\ ioQ' = [ioQ EXCEPT ![DeviceOf(svc.op)] = Append(@, P)]
    /\ TakeNextIfRunning(P, ReadyAfterNew, state, TrapPC)
    /\ IRET
    /\ SwitchOn
    /\ UNCHANGED <<filled, waiting, total_waiting, cntVars>>
    /\ Housekeeping(zombies, priority, owner, blocked, total_blocked)

\* lock_tsr() on a mutex that was free, or its own.
LockGranted ==
    /\ Serve(LockOps)
    /\ state[P] # "WAITING"
    /\ owner' = [owner EXCEPT ![M] = P]
    /\ NoScheduler
    /\ IRET
    /\ UNCHANGED filled

\* lock_tsr() on a mutex that another process owns, with dispatcherLock().
LockBlocks ==
    /\ Serve(LockOps)
    /\ state[P] = "WAITING"
    /\ newQ' = <<>>
    /\ TakeNextIfRunning(P, ReadyAfterNew, state, TrapPC)
    /\ IRET
    /\ UNCHANGED <<filled, ioQ, waiting, total_waiting, cntVars, ioActive>>
    /\ Housekeeping(zombies, priority, owner, [blocked EXCEPT ![M] = Append(@, P)],
                    total_blocked + 1)

UnlockFree_DespiteBlocked ==
    /\ Serve(UnlockOps)
    /\ owner' = [owner EXCEPT ![M] = NoProc]
    /\ NoScheduler
    /\ IRET
    /\ UNCHANGED filled

UnlockFree ==
    /\ Serve(UnlockOps)
    /\ blocked[M] = <<>>
    /\ owner' = [owner EXCEPT ![M] = NoProc]
    /\ NoScheduler
    /\ IRET
    /\ UNCHANGED filled

\* A mutex that is given up goes to the first process blocked on it, which
\* becomes ready.
Heir           == Head(blocked[M])
ReadyWithHeir  == PEnqueue(ReadyAfterNew, priority, Heir)
StateWithHeir  == [state EXCEPT ![Heir] = "READY"]

HandOver_NotCounted ==
    Housekeeping(zombies, priority, [owner EXCEPT ![M] = Heir],
                 [blocked EXCEPT ![M] = Tail(@)], total_blocked)
HandOver ==
    Housekeeping(zombies, priority, [owner EXCEPT ![M] = Heir],
                 [blocked EXCEPT ![M] = Tail(@)], total_blocked - 1)

\* unlock_tsr() with dispatcherUnlock().
UnlockHandsOver ==
    /\ Serve(UnlockOps)
    /\ blocked[M] # <<>>
    /\ newQ' = <<>>
    /\ KeepRunning(ReadyWithHeir, StateWithHeir, pc)
    /\ IRET
    /\ UNCHANGED <<filled, ioQ, waiting, total_waiting, cntVars, ioActive>>
    /\ HandOver

\* wait_tsr() with dispatcherWait(): like the unlock for the mutex.
Wait ==
    /\ Serve({"WAIT_RESOURCE_1"})
    /\ newQ' = <<>>
    /\ waiting' = [waiting EXCEPT ![WaitCond(P)] = Append(@, P)]
    /\ total_waiting' = total_waiting + 1
    /\ UNCHANGED <<filled, ioQ, cntVars, ioActive>>
    /\ \/ /\ blocked[M] = <<>>
          /\ TakeNextIfRunning(P, ReadyAfterNew, state, TrapPC)
          /\ Housekeeping(zombies, priority, [owner EXCEPT ![M] = NoProc], blocked,
                          total_blocked)
       \/ /\ blocked[M] # <<>>
          /\ TakeNextIfRunning(P, ReadyWithHeir, StateWithHeir, TrapPC)
          /\ HandOver
    /\ IRET

\* After signal_tsr() the flag that both while loops test is set by the
\* producer and cleared by the consumer.
SetFilled == filled' = [filled EXCEPT ![PairOf(P)] = IsProducer(P)]

SignalNobody ==
    /\ Serve({"SIGNAL_RESOURCE_1"})
    /\ waiting[SignalCond(P)] = <<>>
    /\ NoScheduler
    /\ IRET
    /\ SetFilled
    /\ UNCHANGED owner

\* signal_tsr() with dispatcherSignal(): the process that waited now queues
\* for the mutex.
SignalWakes ==
    /\ Serve({"SIGNAL_RESOURCE_1"})
    /\ waiting[SignalCond(P)] # <<>>
    /\ newQ' = <<>>
    /\ waiting' = [waiting EXCEPT ![SignalCond(P)] = Tail(@)]
    /\ total_waiting' = total_waiting - 1
    /\ LET woken == Head(waiting[SignalCond(P)])
       IN  /\ KeepRunning(ReadyAfterNew, [state EXCEPT ![woken] = "WAITING"], pc)
           /\ IRET
           /\ SetFilled
           /\ UNCHANGED <<ioQ, cntVars, ioActive>>
           /\ Housekeeping(zombies, priority, owner,
                           [blocked EXCEPT ![M] = Append(@, woken)], total_blocked + 1)

-----------------------------------------------------------------------------
Creation == \/ CreateIOProcess \/ CreateComputeIntensiveProcess
            \/ CreateConsumerProducerPair \/ CreateSharedResourcePair
            \/ CreationDone

Interrupts == \/ NoTimerInterrupt \/ PseudoISR
              \/ NoIOInterrupt \/ (\E d \in Dev : IOInterrupt(d)) \/ IOReturn

EnterService == \/ NoTrap \/ EnterTermination \/ EnterIOTrap
                \/ EnterLock \/ EnterUnlock \/ EnterWait \/ EnterSignal

FinishService == \/ FinishTermination \/ FinishIOTrap
                 \/ LockGranted \/ LockBlocks \/ UnlockFree \/ UnlockHandsOver
                 \/ Wait \/ SignalNobody \/ SignalWakes

Next == Creation \/ SimulateProgramStep \/ Interrupts \/ EnterService \/ FinishService

Spec == Init /\ [][Next]_vars

(***************************************************************************)
(* Fairness.  The thread never stops (the HALT_CONDITION is taken away).   *)
(* A device gives its lock up again and again (module Devices), and it is  *)
(* assumed that not every trylock comes while it looks at a flag in vain,  *)
(* so a probe that is repeated for ever succeeds again and again.  The     *)
(* reset counter grows in every iteration, so the reset is due again and   *)
(* again.                                                                  *)
(***************************************************************************)
ResetBecomesDue == SimulateProgramStep /\ resetDue'

Fairness == /\ WF_vars(Next)
            /\ SF_vars(PseudoISR)
            /\ \A d \in Dev : SF_vars(IOInterrupt(d))
            /\ SF_vars(ResetBecomesDue)

FairSpec == Spec /\ Fairness

-----------------------------------------------------------------------------
\* Every variable has a value of its C type; a queue holds processes.
Services == IOTraps \union LockOps \union UnlockOps
               \union {"PCB_TERMINATED", "WAIT_RESOURCE_1", "SIGNAL_RESOURCE_1"}

ProcessStates == {"UNBORN", "NEW", "READY", "RUNNING", "INTERRUPTED", "WAITING", "HALTED"}
StepStates    == {"UNKNOWN", "FINISHED", "UNFINISHED"}

TypeOK ==
    /\ at \in {"boot", "step", "create", "timer", "io", "irq", "iret", "trap", "serve"}
    /\ dev \in Dev
    /\ svc \in {NoSvc} \union [op : Services, proc : Proc]
    /\ sysStack \in Seq(Nat)
    /\ running \in Proc /\ currentPC \in Nat
    /\ state \in [Proc -> ProcessStates]
    /\ pc \in [Proc -> Nat]
    /\ step \in [Proc -> StepStates]
    /\ priority \in [Proc -> 0 .. MaxPriority]
    /\ laps \in [Proc -> Nat]
    /\ newQ \in Seq(Proc) /\ ready \in Seq(Proc) /\ zombies \in Seq(Proc)
    /\ ioQ \in [Dev -> Seq(Proc)]
    /\ owner \in [Mutex -> Proc \union {NoProc}]
    /\ blocked \in [Mutex -> Seq(Proc)]
    /\ waiting \in [Cond -> Seq(Proc)]
    /\ filled \in [CPPairs -> BOOLEAN]
    /\ counter \in [CPPairs -> 0 .. CounterModulus - 1]
    /\ reads \in [CPPairs -> 0 .. CounterModulus - 1]
    /\ pairs \subseteq Pairs
    /\ {total_io, total_comp, total_blocked, total_waiting} \subseteq Int
    /\ ioActive \in [Dev -> BOOLEAN]
    /\ resetDue \in BOOLEAN

-----------------------------------------------------------------------------
(***************************************************************************)
(* The safety properties.                                                  *)
(***************************************************************************)

\* The assertions on the stack: it is empty whenever the main loop comes
\* round (OS.c:143), and no pop finds it empty (641, 677, 712, 726, ...): it
\* holds one PC per service routine that has not returned.
StackBalanced ==
    Len(sysStack) = (IF svc = NoSvc THEN 0 ELSE 1)
                  + (IF at \in {"irq", "iret"} THEN 1 ELSE 0)

\* A device is switched on exactly while processes queue for it: an IO
\* request is never left without the interrupt that completes it, and
\* dispatcherIO() never dequeues from an empty queue.
DeviceOnIffRequested == \A d \in Dev : ioActive[d] <=> ioQ[d] # <<>>

(***************************************************************************)
(* The interrupt routine and the IO traps keep what the devices are        *)
(* promised, however they nest in each other: every interrupt finds a      *)
(* process in the queue of its device and completes exactly one request.   *)
(***************************************************************************)
Service == INSTANCE IOService WITH
    Devices   <- Dev,
    requests  <- [d \in Dev |-> Len(ioQ[d])],
    activated <- ioActive,
    serving   <- IF at \in {"irq", "iret"} THEN dev ELSE 0
ImplementsIOService == Service!Spec

\* How often a process occurs in the queues and as the running process; one
\* that a trap service routine has put to wait, and that an interrupt has
\* already replaced, is in the hands of that routine.
Occurs(p, q) == Cardinality({i \in 1 .. Len(q) : q[i] = p})
InService(p) == svc.proc = p /\ running # p /\ state[p] = "WAITING"
OccursIn(p, qs) == {e \in (DOMAIN qs) \X (1 .. Cardinality(Proc)) :
                        e[2] <= Len(qs[e[1]]) /\ qs[e[1]][e[2]] = p}
PlaceCount(p) ==
    (IF running = p THEN 1 ELSE 0) + (IF InService(p) THEN 1 ELSE 0)
    + Occurs(p, newQ) + Occurs(p, ready) + Occurs(p, zombies) + Cardinality(OccursIn(p, ioQ))
    + Cardinality(OccursIn(p, blocked)) + Cardinality(OccursIn(p, waiting))

\* No process is in two places at once (running while ready, queued twice,
\* waiting for a device and for a mutex, or a zombie that emptyZombies will
\* free while it is still used).
AtMostOnePlace == \A p \in Proc : PlaceCount(p) <= 1

\* The processes the kernel must still know of: those created, except the
\* ones that have terminated and the pairs destructed by the monitor.
Alive(p) == /\ p # Idle
            /\ state[p] \notin {"UNBORN", "HALTED"}
            /\ p \in ResProcs => PairOf(p) \in pairs

\* Every live process is somewhere: countAllNodes() misses none.
NoProcessLost == \A p \in Proc : Alive(p) => PlaceCount(p) = 1

\* The counters that the caps on creation are tested against are what there
\* is of live processes (and Boot); a process that has terminated is counted
\* until it leaves the CPU.
Counted(ps) == Cardinality({p \in ps : state[p] \notin {"UNBORN", "HALTED"}
                                         \/ (state[p] = "HALTED" /\ running = p)})
TotalsExact == total_io = Counted(IOProcs) /\ total_comp = Counted(CompProcs) + 1

\* dispatcher() called at the end of a termination that an interrupt has
\* already carried out: it acts on the process that came after.
LateTermination == FinishTermination /\ running # svc.proc

\* A process is lost only in that way.
LostOnlyByLateTermination ==
    [][\A p \in Proc : Alive(p)' /\ PlaceCount(p) = 1 /\ PlaceCount(p)' = 0
                          => LateTermination /\ p = running]_vars

\* The PC at which a process executes, or will go on executing.
CPU(p) == IF p = running THEN currentPC ELSE pc[p]

\* However interrupts nest in service routines, a process goes on where it
\* was: nothing but its own instruction changes its PC, except for the
\* process that a late termination takes for the terminated one.
ContextKept ==
    [][\A p \in Proc \ {Idle} :
          CPU(p)' # CPU(p) => p = running /\ (at = "step" \/ LateTermination)]_vars

\* The ready queue is served by priority although priorities change, and
\* processes come back from everywhere, while others are queued.
ReadyByPriority == SortedBy(ready, priority)

\* The assertion on the length of the ready queue (OS.c:144), which counts
\* one process per pair and the others twice: under the caps on creation,
\* with processes that terminate and pairs that are destructed to make room
\* for new ones, it is shorter than what the caps allow at once.  With the
\* caps of OS.h this is less than the limit asserted.
ReadyBounded ==
    COMPUTE_PROCESS_MAX > 0 =>
        Len(ready) < 2 * (PRO_CON_MAX + SHARED_RESOURCE_MAX)
                         + IO_PROCESS_MAX + COMPUTE_PROCESS_MAX

-----------------------------------------------------------------------------
(***************************************************************************)
(* An invariant that is inductive and implies the ones above that are      *)
(* proved (KernelProofs).                                                  *)
(***************************************************************************)

\* A process asks only for services that its program contains, so the mutex
\* and the condition of the service exist.
ServiceExists(p, op) ==
    \/ p \in IOProcs \union CompProcs /\ op = "PCB_TERMINATED"
    \/ p \in IOProcs /\ op \in IOTraps
    \/ p \in CPProcs /\ op \in {"LOCK_RESOURCE_1", "UNLOCK_RESOURCE_1",
                                "WAIT_RESOURCE_1", "SIGNAL_RESOURCE_1"}
    \/ p \in ResProcs /\ op \in LockOps \union UnlockOps

\* Where the thread is tells whether a service routine and an interrupt
\* routine are under way.
ControlOK ==
    /\ at = "serve" => svc # NoSvc
    /\ at \in {"boot", "step", "create", "trap"} => svc = NoSvc
    /\ at \in {"irq", "iret"} => ioActive[dev]
    /\ svc # NoSvc => ServiceExists(svc.proc, svc.op)

\* Inside a routine currentPC is what the PCB of the running process holds,
\* and the bottom of the stack is what the PCB of the process served holds.
ContextSaved ==
    /\ svc # NoSvc \/ at \in {"irq", "iret"} => currentPC = pc[running]
    /\ svc # NoSvc => sysStack[Len(sysStack)] = pc[svc.proc]

Inv == /\ TypeOK
       /\ StackBalanced
       /\ DeviceOnIffRequested
       /\ ControlOK
       /\ ContextSaved
=============================================================================
