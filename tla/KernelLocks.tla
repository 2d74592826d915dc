----------------------------- MODULE KernelLocks -----------------------------
(***************************************************************************)
(* The inductive invariants behind the properties of KernelSync that say   *)
(* who owns a mutex, who waits for it, and what is counted of both.        *)
(***************************************************************************)
EXTENDS KernelPlaces

\* A pair starts at PC 0 and must come to its first lock after that: the
\* first instruction of a process is executed without a look for a trap.
ASSUME FirstLock == CP_LOCK_PC > 0 /\ RES_LOCK1_PC > 0

SyncOps == LockOps \union UnlockOps \union {"WAIT_RESOURCE_1", "SIGNAL_RESOURCE_1"}

-----------------------------------------------------------------------------
(***************************************************************************)
(* What holds of the locks whatever the interrupts do.                     *)
(***************************************************************************)

\* check_for_syncro_trap decides before the interrupts are looked at whether
\* the lock will be had, and lock_tsr acts on it after them.
LockDecided ==
    svc.op \in LockOps => (state[P] = "WAITING" <=> owner[M] \notin {NoProc, P})

\* The mutexes of a resource pair have no waits and no signals.
ResBlockedOnAnother ==
    \A m \in Mutex : m[1] \in ResPairs =>
        \A p \in Range(blocked[m]) : owner[m] \notin {NoProc, p}

QueuesCounted ==
    /\ total_blocked = Cardinality(Held(blocked))
    /\ total_waiting = Cardinality(Held(waiting))

LegalOK == LockDecided /\ ResBlockedOnAnother /\ QueuesCounted

-----------------------------------------------------------------------------
(***************************************************************************)
(* What holds of the locks if no trap is served twice.                     *)
(***************************************************************************)

\* IO_check's missing return value makes the main loop look again at the
\* trap of a finished instruction; it does not if the value read is true, or
\* if there are no IO interrupts.
NoTrapAgain == IOCheckReturns = {TRUE} \/ IOProcs = {}

\* A trap is looked at only before the end of its instruction.
TrapIsNew ==
    /\ at = "trap" => step[running] # "FINISHED"
    /\ IOProcs = {} =>
          /\ \A d \in Dev : ~ioActive[d]
          /\ at \in {"create", "timer", "io"} /\ svc = NoSvc => step[running] # "FINISHED"

\* A process that has done its laps is stopped at PC 0, so the PC that a
\* late termination gives to another process is 0.
EndsAtZero ==
    /\ \A p \in IOProcs \union CompProcs : Terminate[p] <= laps[p] =>
          CPU(p) = 0 /\ (step[p] = "UNFINISHED" \/ state[p] = "HALTED")
    /\ svc.op = "PCB_TERMINATED" => Terminate[P] <= laps[P]

\* A process whose first instruction is still to come is at PC 0.
StartsAtZero ==
    \A pair \in Pairs : \A p \in Members(pair) :
        /\ state[p] = "UNBORN" => step[p] = "UNKNOWN"
        /\ step[p] = "UNKNOWN" => CPU(p) = 0

\* The process served is at the PC of its request, its pair is still there,
\* and it owns the mutex that it gives up to wait.
ServedAtRequest ==
    svc.op \in SyncOps =>
        /\ IsAtSyncro(P, CPU(P)) = svc.op /\ step[P] = "FINISHED"
        /\ M[1] \in pairs
        /\ svc.op = "WAIT_RESOURCE_1" => owner[M] = P

\* p has locked m and not unlocked it, as far as its PC tells.
Due(p, m) ==
    \/ LockPC(p, m) < CPU(p) /\ CPU(p) < UnlockPC(p, m)
    \/ CPU(p) = LockPC(p, m) /\ step[p] = "FINISHED" /\ svc.proc # p
    \/ CPU(p) = UnlockPC(p, m) /\ (step[p] # "FINISHED" \/ svc.proc = p)

\* Such a process owns the mutex, or queues for it, or sleeps on a condition
\* and will queue for it.
Claims(p, m) ==
    owner[m] = p \/ p \in Range(blocked[m]) \/ (m[2] = "mutex" /\ Asleep(p))
DueIsOwned ==
    \A m \in Mutex : m[1] \in pairs => \A p \in Members(m[1]) : Due(p, m) => Claims(p, m)

\* The owner of a mutex has not passed its unlock.
NotPassed(p, m) ==
    \/ CPU(p) < UnlockPC(p, m)
    \/ CPU(p) = UnlockPC(p, m) /\ (step[p] # "FINISHED" \/ svc.proc = p)
OwnedIsNotPassed ==
    \A m \in Mutex : \A p \in Members(m[1]) : owner[m] = p => NotPassed(p, m)

\* A process that queues is where it asked to.
QueuedAtRequest ==
    /\ \A m \in Mutex : \A p \in Range(blocked[m]) :
          CPU(p) = LockPC(p, m) \/ (m[2] = "mutex" /\ CPU(p) = CP_WAIT_PC)
    /\ \A c \in Cond : \A p \in Range(waiting[c]) : CPU(p) = CP_WAIT_PC

LocksOK ==
    /\ TrapIsNew /\ EndsAtZero /\ StartsAtZero
    /\ ServedAtRequest
    /\ DueIsOwned /\ OwnedIsNotPassed
    /\ QueuedAtRequest
    /\ BlockedOnAnother

\* Without the DEADLOCK option the second mutex is held only with the first.
InnerHasOuter ==
    ~DEADLOCK => \A pair \in ResPairs :
        owner[<<pair, "mutex_2">>] \in {NoProc, owner[<<pair, "mutex_1">>]}

-----------------------------------------------------------------------------
(***************************************************************************)
(* What holds of the slot of a CP pair if no trap is served twice.         *)
(***************************************************************************)

\* p has come past the wait: it has found the slot as it needs it, or has
\* been woken up; and it has not told its partner yet.
PastWait(p) ==
    \/ CP_WAIT_PC < CPU(p) /\ CPU(p) < CP_SIGNAL_PC
    \/ CPU(p) = CP_WAIT_PC /\ step[p] = "FINISHED" /\ ~Asleep(p)
    \/ CPU(p) = CP_SIGNAL_PC /\ (step[p] # "FINISHED" \/ svc.proc = p)

\* The producer then finds the slot empty, and the consumer finds it filled.
SlotAsNeeded ==
    \A pair \in CPPairs : \A p \in Members(pair) :
        PastWait(p) => (filled[pair] <=> ~IsProducer(p))

\* Is there a value in the slot?  The flag is set and cleared only at the end
\* of signal_tsr, after the value was put there or read.
HoldsValue(pair) ==
    IF svc.op = "SIGNAL_RESOURCE_1" /\ PairOf(P) = pair THEN IsProducer(P) ELSE filled[pair]
ValuesCounted ==
    \A pair \in CPPairs :
        counter[pair] = IF HoldsValue(pair) THEN (reads[pair] + 1) % CounterModulus
                        ELSE reads[pair]

SlotOK == SlotAsNeeded /\ ValuesCounted
=============================================================================
