---------------------------- MODULE KernelPlaces ----------------------------
(***************************************************************************)
(* The inductive invariants behind the properties of Kernel and KernelSync *)
(* that say where the processes are.  A process is in the place that its   *)
(* state tells: this is what every dispatcher relies on and what none of   *)
(* them tests.                                                             *)
(***************************************************************************)
EXTENDS KernelSync, Queues

\* The processes that wait in a queue of a device, a mutex or a condition.
Waiters == Held(ioQ) \union Held(blocked) \union Held(waiting)

\* No process is queued twice.
QueuedOnce ==
    /\ Once(newQ) /\ Once(ready) /\ Once(zombies)
    /\ Apart(ioQ) /\ Apart(blocked) /\ Apart(waiting)
    /\ Held(ioQ) \intersect Held(blocked) = {}
    /\ Held(ioQ) \intersect Held(waiting) = {}
    /\ Held(blocked) \intersect Held(waiting) = {}

\* The state of a queued process tells the queue it is in.  The idle process
\* is in none.
StateTellsQueue ==
    /\ \A p \in Range(newQ) : state[p] = "NEW"
    /\ \A p \in Range(ready) : state[p] = "READY" /\ p # Idle
    /\ \A p \in Range(zombies) : state[p] = "HALTED"
    /\ \A p \in Waiters : state[p] = "WAITING"
    /\ state[Idle] \in {"UNBORN", "READY", "RUNNING", "INTERRUPTED"}

\* The running process is in none of the queues, and is marked as waiting or
\* as terminated only by the service routine that it is in itself.
RunningIsNotQueued ==
    /\ running \notin Range(zombies)
    /\ \/ state[running] \in {"RUNNING", "INTERRUPTED"}
       \/ running = svc.proc /\ state[running] \in {"WAITING", "HALTED"}

\* A process in a service routine is not queued to wait, although it may
\* have been marked so, and its state is what the routine set it to, but for
\* the interrupts since.
ServedIsNotWaiting ==
    svc # NoSvc =>
        /\ svc.proc \notin Waiters
        /\ svc.op = "PCB_TERMINATED" <=> state[svc.proc] = "HALTED"
        /\ svc.op \in IOTraps \union {"WAIT_RESOURCE_1"} => state[svc.proc] = "WAITING"
        /\ svc.op \in UnlockOps \union {"SIGNAL_RESOURCE_1"} => state[svc.proc] # "WAITING"

PlacesOK == QueuedOnce /\ StateTellsQueue /\ RunningIsNotQueued /\ ServedIsNotWaiting

-----------------------------------------------------------------------------
Nowhere(p) ==
    /\ p # running
    /\ p \notin Range(newQ) \union Range(ready) \union Range(zombies) \union Waiters
    /\ ~InService(p)

\* The mutexes and the conditions of a pair are used by its members alone:
\* own, blk and wt are the owners, the blocked and the waiting queues.
OwnLocksOnly(own, blk, wt) ==
    /\ \A m \in Mutex : /\ Range(blk[m]) \subseteq Members(m[1])
                        /\ own[m] \in Members(m[1]) \union {NoProc}
    /\ \A c \in Cond : Range(wt[c]) \subseteq Members(c[1])

\* A pair that does not exist, yet or any more, has no process anywhere.
PairsOK ==
    /\ OwnLocksOnly(owner, blocked, waiting)
    /\ \A pair \in Pairs \ pairs : \A p \in Members(pair) : Nowhere(p)

\* A process in the new queue has never run, so its priority is still 0.
NewAtLevelZero ==
    \A p \in Proc : state[p] \in {"UNBORN", "NEW"} /\ p # Idle => priority[p] = 0

\* Boot requests no service: it never waits and never ends.
BootRuns == state[Boot] \in {"READY", "RUNNING", "INTERRUPTED"}

\* The caps on creation hold, and the ready queue is not full when the idle
\* process runs.
CapsKept ==
    /\ total_io <= IO_PROCESS_MAX
    /\ COMPUTE_PROCESS_MAX > 0 => total_comp <= COMPUTE_PROCESS_MAX
    /\ Cardinality(pairs \intersect CPPairs) <= PRO_CON_MAX
    /\ Cardinality(pairs \intersect ResPairs) <= SHARED_RESOURCE_MAX
    /\ running = Idle => Boot \notin Range(ready)

\* The ready queue, its order and what bounds its length.
ReadyOK == NewAtLevelZero /\ BootRuns /\ ReadyByPriority /\ TotalsExact /\ CapsKept
=============================================================================
