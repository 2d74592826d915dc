----------------------------- MODULE KernelSync -----------------------------
(***************************************************************************)
(* What the mutexes, the conditions and the deadlock monitor of Kernel     *)
(* must do for the pairs that use them.                                    *)
(***************************************************************************)
EXTENDS Kernel

\* The PCs at which a process locks and unlocks a mutex of its pair.
LockPC(p, m) ==
    IF m[2] = "mutex" THEN CP_LOCK_PC
    ELSE IF (m[2] = "mutex_1") = Swapped(p) THEN RES_LOCK2_PC ELSE RES_LOCK1_PC
UnlockPC(p, m) ==
    IF m[2] = "mutex" THEN CP_UNLOCK_PC
    ELSE IF (m[2] = "mutex_1") = Swapped(p) THEN RES_UNLOCK2_PC ELSE RES_UNLOCK1_PC

Blocked(p) == \E m \in Mutex : p \in Range(blocked[m])
Asleep(p)  == \/ \E c \in Cond : p \in Range(waiting[c])
              \/ svc = [op |-> "WAIT_RESOURCE_1", proc |-> p]

\* p is between its lock and its unlock of m, and has not given m up to wait
\* on a condition.
Inside(p, m) == /\ LockPC(p, m) < CPU(p) /\ CPU(p) < UnlockPC(p, m)
                /\ ~Asleep(p)
                /\ CPU(p) = CP_WAIT_PC /\ m[2] = "mutex" => ~Blocked(p)

-----------------------------------------------------------------------------
\* The owner of a mutex is the process that is inside, whatever interrupts,
\* preemptions, handovers and wake-ups there were since it locked it; hence
\* two processes are never inside at once.
OwnerIsInside ==
    \A m \in Mutex : m[1] \in pairs =>
        \A p \in Members(m[1]) : Inside(p, m) => owner[m] = p

\* Nobody is blocked on a mutex that is free or that it owns itself: such a
\* process would never be handed the mutex.
BlockedOnAnother ==
    \A m \in Mutex : \A p \in Range(blocked[m]) : owner[m] \notin {NoProc, p}

\* The module DeadlockMonitor assumes of the locks no more than what the
\* service routines here really leave, whenever the check may run.
LocksAreLegal ==
    \A pair \in pairs \intersect ResPairs : LegalLocks(pair, owner, blocked, NoProc)

\* total_blocked and total_waiting, kept up to date by five routines, are
\* what the queues hold.
CountersExact ==
    /\ total_blocked = Cardinality({e \in Mutex \X Proc : e[2] \in Range(blocked[e[1]])})
    /\ total_waiting = Cardinality({e \in Cond \X Proc : e[2] \in Range(waiting[e[1]])})

-----------------------------------------------------------------------------
\* The four edges the monitor counts are a cycle, and never anything else.
FourEdgesMeanStuck ==
    \A pair \in pairs \intersect ResPairs :
        EdgeCount(pair, owner, blocked) = 4 <=> Stuck(pair, owner, blocked)

\* A pair that has been destructed leaves nothing behind: none of its two
\* processes is running, queued or in a service routine, then or later.
DestructedIsGone ==
    \A pair \in ResPairs \ pairs : \A p \in Members(pair) : PlaceCount(p) = 0

\* Without the DEADLOCK option both processes lock in the same order, and no
\* pair is ever destructed.
NeverDestructed == [][pairs \subseteq pairs']_vars

\* check_for_syncro_trap() reports "Request on the lock not succesful, owned
\* by PID" (OS.c:260) by reading the owner of the pair's mutex after
\* lock_tsr() has returned: the pair and the owner must still be there.
ReportedLockHasOwner ==
    [][(LockGranted \/ LockBlocks) /\ state'[running'] # "INTERRUPTED"
          => PairOf(P) \in pairs' /\ owner'[M] # NoProc]_vars

-----------------------------------------------------------------------------
\* The data of a CP pair goes through a buffer of one slot.
Slot == INSTANCE OneSlot WITH N <- CounterModulus
HandsOverEachValueOnce == Slot!Spec

-----------------------------------------------------------------------------
(***************************************************************************)
(* Liveness, under FairSpec.                                               *)
(***************************************************************************)

\* No process stays in the ready queue for ever: preempted processes sink to
\* lower levels, but the reset brings them back.
ReadyRuns == \A p \in Proc \ {Idle} : state[p] = "READY" ~> running = p

\* The producer and the consumer of a pair take turns for ever.
PairsTakeTurns ==
    \A pair \in CPPairs : /\ pair \in pairs ~> filled[pair]
                          /\ filled[pair] ~> ~filled[pair]

\* A deadlocked pair is found and destructed.
StuckIsDestructed ==
    \A pair \in ResPairs : Stuck(pair, owner, blocked) ~> pair \notin pairs

\* Every request for a mutex of a resource pair is met, unless the pair is
\* destructed.
LockIsGranted ==
    \A m \in ResPairs \X {"mutex_1", "mutex_2"} : \A p \in Members(m[1]) :
        p \in Range(blocked[m]) ~> owner[m] = p \/ m[1] \notin pairs

\* Every process that queues for a device becomes ready again.
IOCompletes ==
    \A d \in Dev : \A p \in IOProcs : p \in Range(ioQ[d]) ~> state[p] = "READY"
=============================================================================
