------------------------------ MODULE Programs ------------------------------
(***************************************************************************)
(* The simulated processes: who exists, and which kernel service each one  *)
(* requests at which program counter.  Everything here is fixed when a     *)
(* PCB is built (OS.c createIOProcess ... createSharedResourcePair) and    *)
(* never changes afterwards, so it is constant.                            *)
(***************************************************************************)
EXTENDS Integers, FiniteSets

CONSTANTS
    Boot,               \* the process main() makes running before any other
    Idle,               \* the PCB p_dequeue makes up when nothing is ready
    IOProcs, CompProcs, \* processes of type IO and COMP_INTENSIVE
    CPPairs,            \* <<producer, consumer>>
    ResPairs,           \* <<process_1, process_2>>
    DEADLOCK,           \* OS.h: may the shared resource pairs deadlock?
    UserMaxPC,          \* maxpc of Boot and of the IO and compute processes
    Terminate,          \* terminate of the IO and compute processes
    IOTrapAt,           \* io_1_traps and io_2_traps: which trap at which PC
    CP_LOCK_PC, CP_WAIT_PC, CP_SIGNAL_PC, CP_UNLOCK_PC, CP_MAX_PC,
    RES_LOCK1_PC, RES_LOCK2_PC, RES_UNLOCK2_PC, RES_UNLOCK1_PC, RES_MAX_PC

Pairs     == CPPairs \union ResPairs
Members(pair) == {pair[1], pair[2]}
CPProcs   == UNION {Members(pair) : pair \in CPPairs}
ResProcs  == UNION {Members(pair) : pair \in ResPairs}
Proc      == {Boot, Idle} \union IOProcs \union CompProcs
                 \union CPProcs \union ResProcs

\* Each pair brings its own mutexes and conditions, named by the pair.
Mutex == (CPPairs \X {"mutex"}) \union (ResPairs \X {"mutex_1", "mutex_2"})
Cond  == CPPairs \X {"produced", "consumed"}

NoProc == "NULL"    \* the NULL owner of a free mutex

-----------------------------------------------------------------------------
\* What the constants may be.  The PC tables keep the order of pcb.h; the
\* slot after CP_WAIT_PC must be free, as the program skips to it when it
\* does not have to wait.
ASSUME ProcessesDistinct ==
    /\ Boot # Idle
    /\ {Boot, Idle} \intersect
           (IOProcs \union CompProcs \union CPProcs \union ResProcs) = {}
    /\ IOProcs \intersect CompProcs = {}
    /\ (IOProcs \union CompProcs) \intersect (CPProcs \union ResProcs) = {}
    /\ CPProcs \intersect ResProcs = {}
    /\ NoProc \notin Proc

ASSUME PairsDisjoint ==
    /\ \A pair \in Pairs : pair = <<pair[1], pair[2]>> /\ pair[1] # pair[2]
    /\ \A a, b \in Pairs : a # b => Members(a) \intersect Members(b) = {}

ASSUME FiniteSystem ==
    /\ IsFiniteSet(IOProcs) /\ IsFiniteSet(CompProcs)
    /\ IsFiniteSet(CPPairs) /\ IsFiniteSet(ResPairs)

ASSUME UserPrograms ==
    /\ UserMaxPC \in [{Boot} \union IOProcs \union CompProcs -> Nat]
    /\ Terminate \in [IOProcs \union CompProcs -> Nat \ {0}]
    /\ \A p \in IOProcs :
           IOTrapAt[p] \in [DOMAIN IOTrapAt[p] -> {"IO_1_TRAP", "IO_2_TRAP"}]

ASSUME SyncroPrograms ==
    /\ DEADLOCK \in BOOLEAN
    /\ {CP_LOCK_PC, CP_WAIT_PC, CP_SIGNAL_PC, CP_UNLOCK_PC, CP_MAX_PC,
        RES_LOCK1_PC, RES_LOCK2_PC, RES_UNLOCK2_PC, RES_UNLOCK1_PC,
        RES_MAX_PC} \subseteq Nat
    /\ CP_LOCK_PC < CP_WAIT_PC
    /\ CP_WAIT_PC + 1 < CP_SIGNAL_PC
    /\ CP_SIGNAL_PC < CP_UNLOCK_PC
    /\ CP_UNLOCK_PC <= CP_MAX_PC
    /\ RES_LOCK1_PC < RES_LOCK2_PC
    /\ RES_LOCK2_PC < RES_UNLOCK2_PC
    /\ RES_UNLOCK2_PC < RES_UNLOCK1_PC
    /\ RES_UNLOCK1_PC <= RES_MAX_PC

-----------------------------------------------------------------------------
\* getPCPair and getResourcePair: the pair a process belongs to.
PairOf(p) == CHOOSE pair \in Pairs : p \in Members(pair)

IsProducer(p) == p = PairOf(p)[1]
IsProcess1(p) == p = PairOf(p)[1]

\* maxpc.  An idle PCB never gets one (initialize_pcb leaves the field as
\* malloc returned it), so when its PC wraps is arbitrary; as nothing depends
\* on the PC of the idle process it is kept at 0.
MaxPC(p) ==
    CASE p \in CPProcs  -> CP_MAX_PC
      [] p \in ResProcs -> RES_MAX_PC
      [] p = Idle       -> 0
      [] OTHER          -> UserMaxPC[p]

\* With DEADLOCK set, process_1 of a resource pair uses the two mutexes in
\* the opposite order.
Swapped_Always(p) == IsProcess1(p)
Swapped(p) == DEADLOCK /\ IsProcess1(p)

\* isAtSyncro: the synchronisation service p requests at PC c.
CPService(c) ==
    CASE c = CP_LOCK_PC   -> "LOCK_RESOURCE_1"
      [] c = CP_WAIT_PC   -> "WAIT_RESOURCE_1"
      [] c = CP_SIGNAL_PC -> "SIGNAL_RESOURCE_1"
      [] c = CP_UNLOCK_PC -> "UNLOCK_RESOURCE_1"
      [] OTHER            -> "NONE"

ResService(c, swapped) ==
    CASE c = RES_LOCK1_PC   -> IF swapped THEN "LOCK_RESOURCE_2" ELSE "LOCK_RESOURCE_1"
      [] c = RES_LOCK2_PC   -> IF swapped THEN "LOCK_RESOURCE_1" ELSE "LOCK_RESOURCE_2"
      [] c = RES_UNLOCK2_PC -> IF swapped THEN "UNLOCK_RESOURCE_1" ELSE "UNLOCK_RESOURCE_2"
      [] c = RES_UNLOCK1_PC -> IF swapped THEN "UNLOCK_RESOURCE_2" ELSE "UNLOCK_RESOURCE_1"
      [] OTHER              -> "NONE"

IsAtSyncro(p, c) ==
    CASE p \in CPProcs  -> CPService(c)
      [] p \in ResProcs -> ResService(c, Swapped(p))
      [] OTHER          -> "NONE"

\* isAtTrap: a process that has completed its laps terminates at whatever PC
\* it is; otherwise it may be at one of its IO traps.
IsAtTrap(p, c, laps) ==
    IF p \in IOProcs \union CompProcs /\ Terminate[p] <= laps THEN "PCB_TERMINATED"
    ELSE IF p \in IOProcs /\ c \in DOMAIN IOTrapAt[p] THEN IOTrapAt[p][c]
    ELSE "NONE"

\* The mutex and the condition a service of p is about.
MutexOf(p, op) ==
    IF p \in CPProcs THEN <<PairOf(p), "mutex">>
    ELSE IF op \in {"LOCK_RESOURCE_1", "UNLOCK_RESOURCE_1"} THEN <<PairOf(p), "mutex_1">>
    ELSE <<PairOf(p), "mutex_2">>

\* The producer waits for "consumed" and signals "produced".
WaitCond(p)   == <<PairOf(p), IF IsProducer(p) THEN "consumed" ELSE "produced">>
SignalCond_OwnCondition(p) == WaitCond(p)
SignalCond(p) == <<PairOf(p), IF IsProducer(p) THEN "produced" ELSE "consumed">>
=============================================================================
