# A TLA+ model of the OS simulator

The repository simulates a small operating system in C: a kernel that runs
simulated processes one instruction at a time, with a timer, two IO devices,
priority scheduling, mutexes, condition variables, process pairs that use them,
and a deadlock monitor. This directory holds its specification: TLA+ modules
that follow the source function by function, configurations that check them
with TLC on small instances, and proofs, checked by TLAPS, of what must hold
for every size of the system.

## The system

### Parts, state, operations

| Part | Code | State | Operations |
|------|------|-------|------------|
| Main loop and instruction step | `OS.c` `OS_Simulator`, `simulateProgramStep` | `currentPC`, `iterationCount`, the `step_finished` flag of each PCB | execute one instruction, create processes, probe the timer, probe the devices, look for a trap |
| Interrupt routines | `OS.c` `timer_check`, `pseudoISR`, `IO_check`, `IO_Interupt_Routine` | the system stack of saved PCs, `IO_n_activated` | take an interrupt, save and restore the context, switch devices off |
| Trap service routines | `OS.c` `check_for_syncro_trap`, `pseudoTSR`, `lock_tsr`, `unlock_tsr`, `wait_tsr`, `signal_tsr` | owners and queues of mutexes and conditions, the data of a pair | serve the trap, with interrupts taken in the middle |
| Scheduler and dispatchers | `OS.c` `scheduler`, `dispatcher*`, `moveNewToReady` | `runningProcess`, the queues, priorities, zombies, the reset counter | put the running process away, take the next, empty the zombies, reset the priorities, call the deadlock check |
| Process creation | `OS.c` `createNewProcesses` and four creators, `OS.h`, `pcb.h` | the new queue, the pair arrays, the totals tested against the caps | create an IO process, a compute process, a consumer/producer pair, a resource pair |
| Ready queue | `PQueue.c`, on `FIFOq.c` | one FIFO queue per level | enqueue, dequeue, reset |
| Deadlock monitor | `Deadlock_Monitor.c`, `OS.c` `check_for_deadlock` | the array of resource pairs, the graph of one pair | walk the graph of each pair, destruct the deadlocked ones |
| Device threads | `OS.c` `timer_thread`, `io1_thread`, `io2_thread` | a pthread mutex, condition and flags for each line | wait for activation, delay, give the lock up, wait for the service |
| PCBs, FIFO queues, stack | `pcb.c`, `FIFOq.c`, `Simple_Stack.c` | the records above | field access, list operations |

One pthread, the OS thread, runs everything but the device threads. An
interrupt is a successful `pthread_mutex_trylock` on the lock of a line, made
at fixed places: once per iteration, and inside each service routine. The
scheduler is called by the routines with the reason of the call; it changes the
running process, and the routine that called it ends by taking the PC of that
process from the stack. The deadlock check is called by the scheduler when the
reset of the priorities is due, whatever routine the scheduler was called by.

### What is hard

* A service routine takes interrupts between its two halves: it marks the
  process, probes the timer and the devices, and only then calls its own
  scheduler. The interrupt's scheduler may have put the process away already.
* Three routines can be nested on one stack of saved PCs.
* A trap is served or not according to `step_finished` and the value of
  `IO_check`, which has no return statement.
* A mutex is handed over by the owner to the first blocked process, a signal
  moves a process from a condition to the ready queue or to the mutex, and a
  woken process does not test its condition again.
* The deadlock check frees pairs in the middle of a service routine that holds a
  pointer to one, and sweeps over an array that it shrinks.
* The reset of the priorities walks over queues that it fills.
* A device thread waits for two predicates, under two mutexes, on one condition
  variable.

### What makes each part correct

* Scheduling: no live process is lost or in two places; a process resumes where
  it was; the ready queue is served by priority; nobody starves.
* Services: the owner of a mutex is the process inside; nobody is blocked on a
  free mutex; no wake-up is lost; a consumer/producer pair is a one-slot buffer.
* Deadlock: four edges mean a cycle and nothing else; a deadlocked pair, and only
  such a pair, is destructed, and nothing of it stays.
* Devices: a device is active exactly while processes queue for it; each request
  completes; an interrupt comes after the delay of its device.
* Ready queue: the levels hand out one order, which the reset keeps; it is never
  longer than the caps on creation allow.
* FIFO queues: the lists stay apart, end, and are made of nodes that are in use; no
  node is lost but where the code is known to lose one.

## The modules

| Module | What it is |
|--------|------------|
| `Programs` | who exists and which program requests what at which PC; constants with their assumptions |
| `ReadyQueue` | the ready queue as one sequence: `Rank`, `PEnqueue`, `PDequeue` |
| `DeadlockGraph` | the graph of one pair: its edges, and what a deadlock is |
| `Kernel` | the kernel: main loop, interrupts, traps, scheduler, creation; extends the three above |
| `KernelSync` | the properties of mutexes, conditions, monitor and liveness of `Kernel` |
| `OneSlot` | abstract: a buffer of one slot; `Kernel` implements it (`HandsOverEachValueOnce`) |
| `DeadlockMonitor` | `check_for_deadlock` step by step on the arrays |
| `DeadlockCheck` | abstract: the check as one step on a set, from which every deadlocked pair goes for good; `DeadlockMonitor` implements it (`DestructsExactlyTheDeadlocked`) |
| `FIFOq` | linked lists of nodes on a heap: allocation, freeing, `QEnqueue`, `QDequeue`, `QContains`, `QResetPriority` as operators |
| `PQueue` | the array of such lists and the stepwise reset, with the dispatchers that use them |
| `ReadyQueueSpec` | abstract: the ready queue as `Kernel` uses it; `PQueue` implements it (`ImplementsReadyQueue`) |
| `IOService` | abstract: a device interrupts while it is on, an interrupt completes one request; `Kernel` and `Devices` both implement it (`ImplementsIOService`) |
| `Devices` | the OS thread, the timer thread and the IO threads with their pthread objects |
| `MCKernel`, `MCDeadlockMonitor` | small instances |
| `Queues` | processes spread over queues: `Once`, `Held`, `Apart` |
| `KernelPlaces`, `KernelLocks` | inductive invariants of `Kernel`: where the processes are; who has the mutexes, who waits, what is in the slots |
| `DataProofs` | lemmas about queues, their order and their counts, and about the edges of a pair |
| `KernelProofs`, `KernelPlacesProofs`, `KernelReadyProofs`, `KernelLocksProofs` | the theorems about `Kernel`, each building on the one before |
| `DeadlockMonitorProofs`, `DevicesProofs`, `PQueueProofs` | the theorems about these modules |

The composition: `Kernel` takes the ready queue as one sequence, the deadlock
check as one step and an interrupt as an outcome of a probe. Each is joined to the
module that has the details:

* `PQueue` implements the sequence (`ReadyQueueSpec`), on the lists of `FIFOq`.
* `DeadlockMonitor` implements the check (`DeadlockCheck`). It assumes that the
  locks it finds satisfy `LegalLocks`; `LocksAreLegal` checks in `Kernel` that the
  service routines leave nothing else.
* `IOService` is the contract between the kernel and the device threads. `Devices`
  implements it with the threads and locks and counts the queues; `Kernel`
  implements it with the queues and takes the locks as outcomes of probes.

All these refinements are proved.

### `Kernel` and the code

`at` is where the OS thread is. An action is what the thread does between two
probes of a lock, because only there can anything else be noticed.

| `at` | Code | Actions |
|------|------|---------|
| `"boot"` | `main`, before the thread starts | `Create...`, `CreationDone` |
| `"step"` | `OS.c:105-110` | `SimulateProgramStep` |
| `"create"` | `OS.c:113` | `Create...`, `CreationDone` |
| `"timer"` | a call of `timer_check` | `NoTimerInterrupt`, `PseudoISR` |
| `"io"` | `IO_check` at device `dev` | `NoIOInterrupt`, `IOInterrupt` |
| `"irq"` | `timer_check` inside `IO_Interupt_Routine` | `NoTimerInterrupt`, `PseudoISR` |
| `"iret"` | the rest of `IO_Interupt_Routine` | `IOReturn` |
| `"trap"` | `OS.c:125-141` | `NoTrap`, `EnterTSR`, `EnterLock`, ... |
| `"serve"` | the second half of a service routine | `FinishTermination`, `FinishIOTrap`, `LockGranted`, `LockBlocks`, `UnlockFree`, `UnlockHandsOver`, `Wait`, `SignalNobody`, `SignalWakes` |

`svc` keeps the C local `running` of a routine apart from
`processes->runningProcess`. `Dispatcher` and the other dispatchers are
operators that each action composes with `moveNewToReady` (`ReadyAfterNew`) and
with the end of `scheduler()` (`Housekeeping`: zombies, reset, deadlock check).
A PCB is a process name with `state`, `pc`, `step`, `priority`, `laps`
(`term_count`). A destructed pair leaves `pairs`. The value of `IO_check`, which
C leaves undefined, is chosen from the constant `IOCheckReturns`.

Left out of `Kernel`: quanta (the timer may fire at any probe, which includes
every quantum), random numbers (creation chooses freely within the caps), names,
registers, times, statistics, `HALT_CONDITION` (the loop runs for ever), the
first five iterations in which the timer is held off.

### `DeadlockMonitor`, `PQueue`, `Devices` and the code

`DeadlockMonitor` has the arrays `resource_pairs` and `deadlocks` (from 1), the
index `i` of the two loops, and one action per edge test (`ConnectDLGraph`), per
verdict (`TestResourcePair`), and per turn of the sweep (`KeepPair`,
`DestructPair`). Between two calls the pairs are created and their mutexes are in
any state that the service routines may leave (`LegalLocks` in `DeadlockGraph`).
`DeadlockCheck` has the same life as one step per event: `Register` adds a pair that
there has never been, `UseMutexes` changes the mutexes, `Call` begins a check and
`Check` takes away all the deadlocked pairs at once. No other step removes a pair,
and none brings one back, so a pair that the sweep leaves behind has no abstract
step to come from.

`FIFOq` has a heap as a record: the `head` of each queue, `next` and `pcb` of each
node, and which nodes are in use. `malloc` returns any free node; the fields of a
freed node are garbage, so that a read after the free shows. The operators are the
functions of `FIFOq.c`. `PQueue` keeps one such heap for the levels and
three more queues: `Waiting`, which stands for those of the devices, the conditions
and the new processes, `Blocked` for those of the mutexes, and `Zombies`. Its actions
are the ways the dispatchers use the lists, each in the order in which the code
allocates and frees:

| Action | Code | Nodes |
|--------|------|-------|
| `Ready`, `ReadyIdle` | `dispatcher()` with a preempted process, or with the idle one | made, then `p_enqueue`, which links it or destroys it with the idle PCB |
| `Halt` | `dispatcher()` with a halted process | made and linked into the zombies |
| `LoseNode` | `dispatcher()` with a waiting process | made and lost |
| `Await` | `dispatcherTrap`, `dispatcherLock`, `dispatcherWait`, and the creation of a process | made and linked into the queue |
| `Resume` | `dispatcherIO`, `moveNewToReady`, and `dispatcherWait` where it hands the mutex over | the new one made, the old one freed |
| `Unlock` | `dispatcherUnlock` | the old one freed (`OS.c:892`), then the new one made (`OS.c:897`), perhaps the same |
| `Signal` | `dispatcherSignal` | the new one made, the one in the condition freed, the new one linked into the mutex |
| `EmptyZombies` | `emptyZombies` | all of the queue freed |
| `DestructBlocked` | `destruct_Custom_Mutex` | all of the queue lost |
| `P_Dequeue` | `p_dequeue` | the head of the highest level freed |
| `MoveHead`, `NextLevel` | the loop of `resetPriority` over `level` | the old one freed, then the new one made |

`ResetDone` ends the loop with the resets of the other queues. A new process joins
`Waiting` with whatever priority it had when its name was last used, where the code's
has 0; the model allows more. `leaked` counts the nodes that are lost.

`Devices` has for each line, the timer (line 0) or a device, where its thread is,
who holds its lock and its flag. A section under an `IO_n_active_lock` is one
step: what it changes is read elsewhere only by the thread that changes it. A
condition may wake up spuriously, at most `MaxSpurious` times. The OS thread is
reduced to its probes, to the lengths of the device queues, and to the
activations. The loop on `shutting_down` breaks out of itself at once and is left
out.

## The runs

Definitions named `X_Desc` next to a definition `X` are wrong variants of it, as a
slip in the code would make them. With `X_Desc` in place of `X` the property it is
listed for is violated, which shows that the property depends on the code.

| Run | Instance | What it shows |
|-----|----------|---------------|
| `kernel_res` | one resource pair that may deadlock (27,079 states) | no process lost, priorities respected, mutual exclusion, locks that the monitor may be given, four edges are a cycle, nothing left of a destructed pair; under `FairSpec` every deadlock is destructed and every blocked process gets its mutex or is destructed, and nobody starves |
| `kernel_cp` | one consumer/producer pair (66,791) | mutual exclusion, nobody blocked on a free mutex, exact counters, the pair implements `OneSlot`; under `FairSpec` the two take turns |
| `kernel_io` | two IO processes, two compute processes under a cap that admits one at a time (1,341,993) | the inductive invariant, the stack, at most one place (zombies included), exact totals, the bound on the ready queue, contexts, `IOService`, and that a process is lost in one way only |
| `kernel_io_live` | two IO processes (about 14,000) | under `FairSpec` every IO request completes |
| `kernel_mixed` | an IO process and an ordered resource pair, `IO_check` true (586,265) | mutual exclusion in spite of IO interrupts; an ordered pair is never destructed |
| `monitor` | two pairs (18,687) | the sweep: exact, nothing freed twice, counters exact, implements `DeadlockCheck`, ends |
| `pqueue` | three processes, two levels and three more queues, four nodes (396,264) | the lists stay apart and lose no node but in the two places known, with the nodes made and freed in the order of each dispatcher; implements `ReadyQueueSpec`; the reset ends |
| `devices` | two devices, two requests each, one spurious wake-up (190,327) | no lost wake-up; `IOService`: an interrupt only from a device that is on, and one request completed by each; requests served and timer firing under weak fairness |
| `lost_process`, `trap_served_twice`, `stale_pair`, `early_interrupt` | | disagreements, see below |

### Why the bounds are enough

* `MaxPriority = 1`: two levels are needed for a process to sink, to be overtaken
  and to wrap around. The number of levels occurs nowhere else; the invariant is
  proved for all.
* One pair of each kind: pairs share nothing but the ready queue and the CPU. The
  process `Boot`, which `main` makes running, and the other process of the pair
  are the competitors. `DeadlockMonitor` has two pairs, since its array moves
  them, and is proved for any number.
* `MaxZombies = 2`, and caps of 2 on processes: the queue of zombies is emptied
  and the caps are reached. `total_comp` counts `Boot`, so the second compute
  process of `kernel_io` can only be created when the first has terminated. The two
  run the same program, hence the symmetry; the run has no liveness property.
* `pqueue`: three processes are needed for one to be before, between and behind
  others, two levels for the reset to move one into the other. Four nodes are one
  more than the processes, since most dispatchers make the new node before they free
  the old one; `MaxZombies = 2` frees two in a row, and with `MaxLeaks = 1` a node can
  be lost in the middle of that. A third level is four times the states; the proofs
  cover any number of levels and processes and any finite number of nodes.
* Programs keep the order of the calls in `pcb.h`; the instructions in between,
  which request nothing, are dropped. The slot after the wait is kept, since the
  program skips to it.
* `CounterModulus = 2`: the shared counter only has to be told from the one
  before.
* `MaxRequests = 2` tells a device queue that becomes empty from one that does
  not; `MaxSpurious = 1`.

### Fairness

`Kernel!FairSpec` asks for weak fairness of the thread, and strong fairness of a
timer interrupt, of an interrupt of each active device, and of the reset: if the
probe is repeated for ever, it does not fail for ever. The reset counter grows in
every iteration. For the interrupts `Devices` gives the reason: with weak fairness
of each thread alone, the timer fires again and again (`TimerKeepsFiring`), and a
request is served unless the device thread is woken in vain for ever
(`EveryRequestServed`). Every `pseudoTSR` signals the active devices, so a thread
that waits for its service wakes up, takes its lock, looks at a flag that is not
set and sleeps again; weak fairness alone does not exclude that each probe of the
OS thread falls in that window. That it does not is what the strong fairness of
`Kernel` adds. `Step` of `DeadlockMonitor` and `ResetStep` of `PQueue` are parts
of a sequential program that is not interrupted.

## Disagreements

* `lost_process` (`OS.c:683`): a timer interrupt inside a termination has already
  put the halted process away; the termination then calls `dispatcher()`, which
  drops the process that was made running meanwhile. It is in no queue and never
  runs again. `LostOnlyByLateTermination` shows that there is no other way to get
  lost, and `ContextKept` that there is no other way to get a wrong PC.
* `trap_served_twice` (`OS.c:411`): `IO_check` has no return statement. When its
  value reads as false, a trap that was served may be served again, and an unlock
  frees the mutex that another process has been handed.
* `stale_pair` (`OS.c:260`): `check_for_syncro_trap` reads the pair after
  `lock_tsr`, inside which the deadlock check may have freed it.
* `early_interrupt` (`OS.c:413`): the lock of a device stays free after the
  interrupt that emptied its queue; when the device is activated again, the OS
  thread may take the lock before the device thread wakes up.

Observed while reading, without a run: `is_mutex_free` returns the opposite of
what `OS.h:246` says; the device threads never leave their loops at shutdown,
although `OS.c:324` says that they check for it; the check of the ready queue's
length at `OS.c:144` counts one process per pair instead of two;
`destructDLGraph` frees list elements before it follows them and is never called;
the average printed at `OS.c:156` divides by the number of timer interrupts, which
may be zero; destructing a deadlocked pair frees neither its two PCBs nor the nodes of
its blocked queues (`OS.c:1597-1613`), and `dispatcher()` loses a node whenever the
running process is waiting (`OS.c:635`), both of which `PQueue` counts as `leaked`;
the reset does not reach a process that is in the hands of a service
routine (`OS.c:610-625`); the field `maxpc` of an idle PCB is not set;
`trylock_tsr` is requested by no program.

## The proofs

The eight proof modules are checked by TLAPS for arbitrary constants, under the
assumptions that the specification modules name. All safety properties that the
passing runs check, refinements and action properties included, are proved, some under
a hypothesis that the disagreements above make necessary. The inductive invariants
were checked with TLC on the instances above before they were proved.

### `Kernel`

The assumptions are those of `Programs` (`ProcessesDistinct`, `PairsDisjoint`,
`FiniteSystem`, `UserPrograms`, `SyncroPrograms`), `KernelBounds`, and `FirstLock` in
`KernelLocks`: the first lock of a pair comes after PC 0, since the loop executes the
first instruction of a process without a look for its trap (`pcb.h` has it at 7 and 1).
The proofs go through four modules, one invariant on top of the other.

**`KernelProofs`**: `Inv` is `TypeOK`, `StackBalanced` and `DeviceOnIffRequested`,
strengthened by `ControlOK` and `ContextSaved`. The types alone are not inductive:
that a process requests a service of its own program is needed for the mutex to
exist, and where the thread is decides which routines are under way, hence how
deep the stack is. `ContextSaved` says what lies in the stack and in `currentPC`
inside a routine, and gives the action property `ContextKept`.
`KernelImplementsService` follows from `Inv`: most actions leave the queues and
switches of the devices alone, a trap is a request (`TrapIsRequest`), and the return
of an interrupt completes one (`ReturnIsComplete`).
Theorems: `Invariance`, `TypeCorrect`, `StackIsBalanced`, `DevicesServeRequests`,
`ContextIsKept`, `KernelImplementsService`.

**`KernelPlacesProofs`**: `AtMostOnePlace` counts occurrences in every queue; the
reason that it holds is that the state of a process tells its queue. `PlacesOK` says
that (`StateTellsQueue`), that no queue or family of queues holds a process twice
(`QueuedOnce`), and what may be said of the two processes that are in no queue: the
running one (`RunningIsNotQueued`) and the one served, which an interrupt may
meanwhile have put in the ready queue, but not in a queue to wait
(`ServedIsNotWaiting`). Every dispatcher is a case of two moves, `TakeNext` or
`KeepRunning`, followed by `Housekeeping`; each has one lemma.
Theorems: `PlacesAreKept`, `OnePlace`.

In the same module, for the pairs: `PairsOK` says that the locks of a pair hold its members
only, and that the members of a pair that is not there are nowhere. All later proofs
see a step only through three relations that this module derives once for every
action (`StepIsSeen`): who moves where (`Moves`), what happens to the locks
(`LockStep`), and which pairs are destructed (`Destructs`). A pair with four edges has
both processes in its blocked queues (`FourEdgesBlocked`), so nothing of it is left
when these are freed. `PlaceCount` is tied to the sets by counting lemmas
(`OccursOnce`, `HeldCount`); then the step in which a process goes nowhere can only be
that in which `dispatcher()` drops the process that happens to run.
Theorems: `PairsAreKept`, `DestructedPairsAreGone`, `OnlyLateTerminationLoses`;
`NobodyIsLostOtherwise` under `[][~LateTermination]_vars`, a hypothesis on the behavior
and not on the constants: a late termination does lose a process (`lost_process`), so
without it `NoProcessLost` is false; and from it `NobodyIsLost`, where
`IOProcs \union CompProcs = {}`, since only these processes terminate.

**`KernelReadyProofs`**: the ready queue stays sorted because a priority changes only
while its process is out of the queue, or for all at once; `Schedules` is the form
that every call of `scheduler()` has, and `EnqueueAllSorted` the lemma about the
insertion. `TotalsExact` needs that `dispatcher()`, also a late one, meets a halted
running process once. The bound on the length adds up these totals, the pairs that
are there (`PairsOK`), at most one place for each, and `Boot`, which is queued only when
somebody else runs (`CapsKept`).
Theorems: `ReadyIsKept`, `ReadyIsSorted`, `TotalsAreExact`, `ReadyIsBounded`.

**`KernelLocksProofs`** without further hypotheses: `LegalOK` says that the decision
taken before the interrupts whether a lock will be had still stands after them
(`LockDecided`), that nobody blocks on a free mutex of a resource pair, and that the
counters are exact.
Theorems: `LegalIsKept`, `LocksStayLegal`, `FourEdgesAreACycle`, `CountersAreExact`.

Under `NoTrapAgain` (`IO_check` returns true, or there are no IO processes): without it
a trap can be served twice and an unlock can take the mutex from its new owner
(`trap_served_twice`), so the theorems below are false. `LocksOK` ties owners and
queues to the program counters. Its core is `DueIsOwned`: a process whose PC is
between its lock and its unlock of a mutex owns it, or queues for it, or sleeps on the
condition for which it has given it up. The other parts say that the owner has not
passed its unlock, that who queues is at the PC where it asked to, that the process
served is at the PC of its request, and that a trap is looked at once (`TrapIsNew`).
A late termination gives a process the PC of the one that terminated, which is 0
(`EndsAtZero`), hence outside of every critical section.
Theorems: `LocksAreKept`, `MutualExclusion`, `NobodyBlockedInVain`.

Also under `NoTrapAgain`, for the pairs: without the `DEADLOCK` option the second mutex
is held only together with the first (`SecondWithFirst`), so that four edges cannot come
about and no pair is destructed (`NoPairDestructed`). And a producer/consumer pair
implements `OneSlot`: `SlotAsNeeded` says that a process, from the moment it is past
its wait until it signals, finds the slot as it needs it, although it tests the
condition before the wait and not after it. A process comes past the wait only by
skipping it or by the signal of its partner (`PastWaitBefore`), who leaves the slot
in just that state; and while one is past its wait the other is not, since the
flag cannot suit both. `ValuesCounted` ties the flag to the values counted, which
are counted when the signal is entered while the flag changes when it ends.
Theorems: `SlotIsKept`, `PairIsOneSlot`.

### `DeadlockMonitor`

Assumption `MonitorAssumption`. The invariant says
of the array that its used slots hold different pairs that are not freed
(`NoFreedPairInUse`), of the walk that the edges counted are those of the tests
made (`WalkOK`), and of the verdicts that they are right for the slots tested, and
stay so while pairs and verdicts move together (`VerdictsOK`). `LocksOK` is what
makes four edges a cycle (`FourEdges`). `WalkIsExact` needs a bound for each test of
the walk (`EdgesBound`). `TotalBlockedIsExact` adds `CountOK`: no blocked queue holds a
process twice, so the number blocked is the cardinality of a set of entries, and a
deadlocked pair has exactly two of them (`StuckBlocksTwo`). `ImplementsCheck` is the
refinement: the deadlocked pairs are taken as gone when the last verdict is known;
`CheckForDeadlock` is `Call`, `AllTested` is `Check`, and each turn of the sweep is a
stutter. So is `Return`: the sweep has passed every verdict, and `VerdictsOK` says that
no pair that it has passed is deadlocked. A sweep that skips the pair it has moved
(`DestructPair_SkipsMoved`) would have to bring one back there, which no step allows.

Theorems: `MonitorInvariance`, `NoPairIsFreedTwice`, `WalkIsExact`,
`TotalBlockedIsExact`, `ImplementsCheck`.

### `Devices`

Assumption `DevicesAssumption`. Who holds a lock follows from
where the threads are (`LocksHeld`); a device is on without a request only between
its service and its update (`ActivatedIsRequested`); and after the update the
thread of the device that is served is awake or the device is off
(`UpdatedIsNotReady`), which is why the flag may be set after the signal.

`DevicesImplementService` maps the service of a device to the span from the
interrupt to the update of its switch; the actions of the threads, the probes and
the signals are stutters (`ThreadsAreQuiet`, `OSOtherwiseQuiet`).

Theorems: `DevicesInvariance`, `NoWakeupIsLost`, `NoEmptyService`,
`DevicesImplementService`.

### `PQueue`

Assumptions `NodeAssumption` (finitely many nodes, `NULL` is none of them) and
`PQueueAssumption` (there are levels, `MaxZombies` is not 0, and `Idle` and `None` are no
processes). The specification has links, the properties speak of sequences. The
relation between the two is `Holds(h, ls)`: the heap `h` holds in each queue `q` the
nodes `ls[q]`, in this order, linked to each other, ending in `NULL`, in use, shared
with no other queue, and with different processes in them. Each function of `FIFOq.c`
has a lemma that says what becomes of `ls` (`HoldsEnqueue`: the node is appended,
`HoldsDequeue`: the first leaves, and nobody reads it after it was freed; `NewNodeIs`,
`ForgetIs` and `DestructNodesIs`: nothing). These need the walk that `q_enqueue` makes to the last node:
`NodesAre` proves that a walk along the links meets exactly `ls[q]`.

The walk is recursive, and so is `FlattenSeq`, which makes one sequence of the levels.
For both the module proves induction in a form that needs no operator as a
parameter: a set of numbers that has 0, and n + 1 with each n, is everything up to a bound
(`UpTo`, from the library's theorem that every set of numbers has a smallest), and a
function defined step by step exists (`RecursionExists`).

A process that moves from one queue to another does so in one of two orders:
`MadeFirstStep` is the one of `Resume` and `Signal`, where the new node is none of
those linked, `FreedFirstStep` the one of `Unlock`, where it may be the one that has
just left. Both end in the same lists (`RelinkStep`). `EmptiedStep` is what
`EmptyZombies` and `DestructBlocked` share: a whole list goes, its nodes freed or lost.

The inductive invariant `Inv` is `TypeOK`, `Holds` for the lists as they are met,
`LostAreCounted` (the nodes in use and in no list are those lost), `OutIsNotQueued`,
and two facts without which the reset would not be safe: a process in a level has that
priority (`PriorityTellsLevel`), and the reset has emptied the levels that it has passed
(`WalkedIsEmpty`), since it starts at level 1 and everybody goes to level 0.

`SpecImplementsReadyQueue` is the refinement of `ReadyQueueSpec`. `Flat` is the one
sequence of the levels, and a change in one level a change between the processes of
the earlier and those of the later ones (`Around`). So `p_enqueue` is an enqueue
behind the rank (`FlatJoined`), `p_dequeue` takes the head (`FlatLeft`), and the head
of the first level that the reset has not yet passed goes behind level 0 without changing
its place (`FlatMoved`). The abstract reset happens when the loop is entered; its turns
are stutters; at its end the others that wait are reset. `SpecResetShrinks` is the part
of `ResetEnds` that needs no fairness: each turn shortens a level or leaves it.

Theorems: `SpecInv`, `SpecNodesWellUsed`, `SpecImplementsReadyQueue`,
`SpecResetShrinks`.

### Only model-checked

All liveness, which the prover does not reach: nobody starves, every deadlock is
destructed, requests complete, the timer fires, the sweep and the reset end. Of the
last, `SpecResetShrinks` proves the step that makes it so.

## Not modelled

* `trylock_tsr`: no program requests it (`isAtSyncro` never returns
  `TRYLOCK_RESOURCE`).
* The end of the simulation: the OS thread leaves its loop, and `main` frees the
  queues. The device threads never see the flag, since `while (shutting_down) break;`
  breaks out of itself. Statistics and other output.
* The quantum table and the quantum of the timer: the timer thread reads `timer` once
  per turn without a lock while the scheduler writes it, so the quantum in force is any
  of those written; in `Devices` and `Kernel` the timer may fire at any probe, which
  covers them all.
* The random draws: how many processes of each kind are created, the IO traps, `maxpc`
  and `terminate` of a program. The programs are constants, and the assumptions on them
  allow every outcome that can be told apart. If one PC is drawn twice, the
  first entry of the tables decides which trap is requested, so `IOTrapAt` has one trap
  per PC.
* Registers, times, string functions and unused fields of the PCB; `pid`, for which the
  names of the processes stand; the names of pairs, which may repeat after a pair has
  been destructed but are only printed.
* `getTail` and `qToString` of `FIFOq.c`: nothing but output calls them.
* `Deadlock_test.c`, whose body is empty; the recorded outputs in `experiments` and
  `experimentsV2`.

## Plan

Done: `Programs`, `ReadyQueue`, `Kernel` and its properties first, since every part
meets there; then the three parts that `Kernel` takes as given; then what joins them:
`IOService`, `LocksAreLegal`, and the lists of `FIFOq` below the sequences.

Then the proofs: the invariant of each module first, then in `Kernel` the places, the
pairs, the ready queue, the locks and the slots, each needing those before; last the
lists of `PQueue` and their refinement.

Two pairs of one kind in `Kernel` are out of reach of the liveness runs; two pairs are
checked where they meet, in `DeadlockMonitor`.
