--------------------------- MODULE DeadlockMonitor ---------------------------
(***************************************************************************)
(* check_for_deadlock() step by step: testResourcePairs() walks the graph  *)
(* of every pair of the array resource_pairs and notes the verdict in      *)
(* deadlocks; a second loop destructs the pairs found deadlocked, filling  *)
(* each hole with the last pair of the array.  Arrays start at 1 here.     *)
(* Between two calls pairs are created and their mutexes used.             *)
(***************************************************************************)
EXTENDS DeadlockGraph, Sequences

CONSTANTS ResPairs, SHARED_RESOURCE_MAX, NoProc

ASSUME MonitorAssumption ==
    /\ SHARED_RESOURCE_MAX \in Nat
    /\ \A pair \in ResPairs :
          pair = <<pair[1], pair[2]>> /\ pair[1] # pair[2] /\ NoProc \notin {pair[1], pair[2]}

Mutex  == UNION {PairMutexes(pair) : pair \in ResPairs}
Slots  == 1 .. SHARED_RESOURCE_MAX
NoPair == <<>>

VARIABLES
    at,             \* "idle", or which loop of check_for_deadlock is running
    resource_pairs, total_resource_pairs, deadlocks,
    i,              \* the index of both loops
    k,              \* the next of the four tests of connectDLGraph
    edge_count,
    freed,          \* the pairs destructed so far
    total_blocked,
    own, blk        \* owner and blocked queue of each mutex

locks == <<own, blk>>
walk  == <<k, edge_count>>
vars  == <<at, resource_pairs, total_resource_pairs, deadlocks, i, walk,
           freed, total_blocked, locks>>

Live == {resource_pairs[j] : j \in 1 .. total_resource_pairs}

Init ==
    /\ at = "idle"
    /\ resource_pairs = [j \in Slots |-> NoPair]
    /\ total_resource_pairs = 0
    /\ deadlocks = [j \in Slots |-> FALSE]
    /\ i = 1 /\ k = 1 /\ edge_count = 0
    /\ freed = {}
    /\ total_blocked = 0
    /\ own = [m \in Mutex |-> NoProc]
    /\ blk = [m \in Mutex |-> <<>>]

-----------------------------------------------------------------------------
\* createSharedResourcePair
CreateSharedResourcePair(pair) ==
    /\ at = "idle"
    /\ total_resource_pairs < SHARED_RESOURCE_MAX
    /\ pair \notin Live \union freed
    /\ total_resource_pairs' = total_resource_pairs + 1
    /\ resource_pairs' = [resource_pairs EXCEPT ![total_resource_pairs + 1] = pair]
    /\ UNCHANGED <<at, deadlocks, i, walk, freed, total_blocked, locks>>

NumBlocked(pair, b) == Len(b[<<pair, "mutex_1">>]) + Len(b[<<pair, "mutex_2">>])

\* lock_tsr and unlock_tsr, as often as the two processes call them.
UseMutexes(pair) ==
    /\ at = "idle"
    /\ pair \in Live
    /\ \E o \in [PairMutexes(pair) -> {NoProc, pair[1], pair[2]}],
          b \in [PairMutexes(pair) -> {<<>>, <<pair[1]>>, <<pair[2]>>}] :
          /\ LegalLocks(pair, o, b, NoProc)
          /\ own' = [m \in Mutex |-> IF m[1] = pair THEN o[m] ELSE own[m]]
          /\ blk' = [m \in Mutex |-> IF m[1] = pair THEN b[m] ELSE blk[m]]
    /\ total_blocked' = total_blocked + NumBlocked(pair, blk') - NumBlocked(pair, blk)
    /\ UNCHANGED <<at, resource_pairs, total_resource_pairs, deadlocks, i, walk, freed>>

-----------------------------------------------------------------------------
CheckForDeadlock ==
    /\ at = "idle"
    /\ at' = "test"
    /\ deadlocks' = [j \in Slots |-> FALSE]
    /\ i' = 1 /\ k' = 1 /\ edge_count' = 0
    /\ UNCHANGED <<resource_pairs, total_resource_pairs, freed, total_blocked, locks>>

\* The tests of connectDLGraph in the order of its two loops: each process
\* with each mutex.
Tested(pair, n) ==
    [proc |-> pair[IF n <= 2 THEN 1 ELSE 2],
     lock |-> <<pair, IF n \in {1, 3} THEN "mutex_1" ELSE "mutex_2">>]

Edges_OfFirstMutex(pair, n) ==
    LET t == Tested(pair, n)
        m == <<pair, "mutex_1">>
    IN  (IF own[m] = t.proc THEN 1 ELSE 0) + (IF t.proc \in Range(blk[t.lock]) THEN 1 ELSE 0)
Edges(pair, n) ==
    LET t == Tested(pair, n)
    IN  (IF own[t.lock] = t.proc THEN 1 ELSE 0)
            + (IF t.proc \in Range(blk[t.lock]) THEN 1 ELSE 0)

ConnectDLGraph ==
    /\ at = "test"
    /\ i <= total_resource_pairs
    /\ k <= 4
    /\ edge_count' = edge_count + Edges(resource_pairs[i], k)
    /\ k' = k + 1
    /\ UNCHANGED <<at, resource_pairs, total_resource_pairs, deadlocks, i,
                   freed, total_blocked, locks>>

TestResourcePair ==
    /\ at = "test"
    /\ i <= total_resource_pairs
    /\ k = 5
    /\ deadlocks' = [deadlocks EXCEPT ![i] = edge_count = 4]
    /\ i' = i + 1 /\ k' = 1 /\ edge_count' = 0
    /\ UNCHANGED <<at, resource_pairs, total_resource_pairs, freed, total_blocked, locks>>

AllTested ==
    /\ at = "test"
    /\ i > total_resource_pairs
    /\ at' = "sweep"
    /\ i' = 1
    /\ UNCHANGED <<resource_pairs, total_resource_pairs, deadlocks, walk, freed,
                   total_blocked, locks>>

KeepPair_Stays ==
    /\ at = "sweep"
    /\ i <= total_resource_pairs
    /\ ~deadlocks[i]
    /\ UNCHANGED vars

KeepPair ==
    /\ at = "sweep"
    /\ i <= total_resource_pairs
    /\ ~deadlocks[i]
    /\ i' = i + 1
    /\ UNCHANGED <<at, resource_pairs, total_resource_pairs, deadlocks, walk,
                   freed, total_blocked, locks>>

DestructPair_KeepsVerdict ==
    /\ at = "sweep"
    /\ i <= total_resource_pairs
    /\ deadlocks[i]
    /\ freed' = freed \union {resource_pairs[i]}
    /\ resource_pairs' = [resource_pairs EXCEPT ![i] = resource_pairs[total_resource_pairs]]
    /\ total_resource_pairs' = total_resource_pairs - 1
    /\ total_blocked' = total_blocked - 2
    /\ UNCHANGED <<at, deadlocks, i, walk, locks>>

DestructPair_NoDecrement ==
    /\ at = "sweep"
    /\ i <= total_resource_pairs
    /\ deadlocks[i]
    /\ freed' = freed \union {resource_pairs[i]}
    /\ i' = i + 1
    /\ total_blocked' = total_blocked - 2
    /\ UNCHANGED <<at, resource_pairs, deadlocks, total_resource_pairs, walk, locks>>

DestructPair_CountsOnce ==
    /\ at = "sweep"
    /\ i <= total_resource_pairs
    /\ deadlocks[i]
    /\ freed' = freed \union {resource_pairs[i]}
    /\ resource_pairs' = [resource_pairs EXCEPT ![i] = resource_pairs[total_resource_pairs]]
    /\ deadlocks' = [deadlocks EXCEPT ![i] = deadlocks[total_resource_pairs]]
    /\ total_resource_pairs' = total_resource_pairs - 1
    /\ total_blocked' = total_blocked - 1
    /\ UNCHANGED <<at, i, walk, locks>>

DestructPair_SkipsMoved ==
    /\ at = "sweep"
    /\ i <= total_resource_pairs
    /\ deadlocks[i]
    /\ freed' = freed \union {resource_pairs[i]}
    /\ resource_pairs' = [resource_pairs EXCEPT ![i] = resource_pairs[total_resource_pairs]]
    /\ deadlocks' = [deadlocks EXCEPT ![i] = deadlocks[total_resource_pairs]]
    /\ i' = i + 1
    /\ total_resource_pairs' = total_resource_pairs - 1
    /\ total_blocked' = total_blocked - 2
    /\ UNCHANGED <<at, walk, locks>>

\* The last pair takes the place, and the verdict, of the destructed one, and
\* is looked at next.
DestructPair ==
    /\ at = "sweep"
    /\ i <= total_resource_pairs
    /\ deadlocks[i]
    /\ freed' = freed \union {resource_pairs[i]}
    /\ resource_pairs' = [resource_pairs EXCEPT ![i] = resource_pairs[total_resource_pairs]]
    /\ deadlocks' = [deadlocks EXCEPT ![i] = deadlocks[total_resource_pairs]]
    /\ total_resource_pairs' = total_resource_pairs - 1
    /\ total_blocked' = total_blocked - 2
    /\ UNCHANGED <<at, i, walk, locks>>

\* The results are local to the call.
Return ==
    /\ at = "sweep"
    /\ i > total_resource_pairs
    /\ at' = "idle"
    /\ deadlocks' = [j \in Slots |-> FALSE]
    /\ i' = 1
    /\ UNCHANGED <<resource_pairs, total_resource_pairs, walk, freed,
                   total_blocked, locks>>

Step == \/ ConnectDLGraph \/ TestResourcePair \/ AllTested
        \/ KeepPair \/ DestructPair \/ Return

Next == \/ \E pair \in ResPairs : CreateSharedResourcePair(pair) \/ UseMutexes(pair)
        \/ CheckForDeadlock
        \/ Step

Spec == Init /\ [][Next]_vars

\* The call runs to its end on the one thread of the kernel.
FairSpec == Spec /\ WF_vars(Step)

-----------------------------------------------------------------------------
TypeOK ==
    /\ at \in {"idle", "test", "sweep"}
    /\ resource_pairs \in [Slots -> ResPairs \union {NoPair}]
    /\ total_resource_pairs \in 0 .. SHARED_RESOURCE_MAX
    /\ deadlocks \in [Slots -> BOOLEAN]
    /\ i \in 1 .. SHARED_RESOURCE_MAX + 1
    /\ k \in 1 .. 5
    /\ edge_count \in 0 .. 8
    /\ freed \subseteq ResPairs
    /\ total_blocked \in Int
    /\ own \in [Mutex -> {NoProc} \union UNION {{pair[1], pair[2]} : pair \in ResPairs}]
    /\ DOMAIN blk = Mutex

\* The slots in use hold different pairs, none of them freed: no pair is read
\* after it was destructed, and none is destructed twice, although the sweep
\* moves pairs around in the array it walks over.
NoFreedPairInUse ==
    /\ \A j \in 1 .. total_resource_pairs : resource_pairs[j] \in ResPairs \ freed
    /\ \A j, n \in 1 .. total_resource_pairs :
          j # n => resource_pairs[j] # resource_pairs[n]

\* The assertion of testResourcePair (Deadlock_Monitor.c:98) holds, and the
\* edges counted one by one are those of the graph that the kernel's model of
\* the check counts at once.
WalkCountsEdges ==
    /\ edge_count <= 4
    /\ at = "test" /\ i <= total_resource_pairs /\ k = 5 =>
           edge_count = EdgeCount(resource_pairs[i], own, blk)

\* total_blocked is the number of processes in the queues of the live pairs,
\* the two of each destructed pair taken off.
Entries(pair, b) == UNION {{m} \X DOMAIN b[m] : m \in PairMutexes(pair)}
EntriesOf(S, b) == UNION {Entries(pair, b) : pair \in S}
TotalBlockedExact == total_blocked = Cardinality(EntriesOf(Live, blk))

\* Every call comes to its end although the sweep stays at an index.
CheckReturns == at # "idle" ~> at = "idle"

-----------------------------------------------------------------------------
(***************************************************************************)
(* The call as one step (DeadlockCheck).  The deadlocked pairs are gone    *)
(* from the moment when all the verdicts are known: every call that gives  *)
(* its verdicts takes away all of them, and the sweep afterwards neither   *)
(* takes away another pair nor leaves one of them behind.                  *)
(***************************************************************************)
Doomed == IF at = "sweep" THEN {resource_pairs[j] : j \in {n \in 1 .. total_resource_pairs : deadlocks[n]}}
          ELSE {}

Check == INSTANCE DeadlockCheck WITH
    pairs    <- Live \ Doomed,
    created  <- Live \union freed,
    checking <- at = "test"
DestructsExactlyTheDeadlocked == Check!Spec

-----------------------------------------------------------------------------
(***************************************************************************)
(* The inductive invariant of DeadlockMonitorProofs.                       *)
(***************************************************************************)
LocksOK == \A pair \in ResPairs : LegalLocks(pair, own, blk, NoProc)

EdgesUpTo(pair, n) ==
    (IF n > 1 THEN Edges(pair, 1) ELSE 0) + (IF n > 2 THEN Edges(pair, 2) ELSE 0)
        + (IF n > 3 THEN Edges(pair, 3) ELSE 0) + (IF n > 4 THEN Edges(pair, 4) ELSE 0)

WalkOK == edge_count = IF at = "test" /\ i <= total_resource_pairs
                       THEN EdgesUpTo(resource_pairs[i], k) ELSE 0

\* The verdicts given so far, and those the sweep has not come to, are right;
\* the pairs the sweep has passed are not deadlocked.
VerdictsOK ==
    /\ at = "test" => \A j \in 1 .. total_resource_pairs :
          j < i => (deadlocks[j] <=> Stuck(resource_pairs[j], own, blk))
    /\ at = "sweep" => \A j \in 1 .. total_resource_pairs :
          /\ deadlocks[j] <=> Stuck(resource_pairs[j], own, blk)
          /\ j < i => ~deadlocks[j]

Inv == TypeOK /\ NoFreedPairInUse /\ LocksOK /\ WalkOK /\ VerdictsOK

\* Nobody is blocked on a mutex of a pair that is not created yet.
CountOK ==
    /\ IsFiniteSet(EntriesOf(Live, blk))
    /\ TotalBlockedExact
    /\ \A pair \in ResPairs \ (Live \union freed) : Entries(pair, blk) = {}
=============================================================================
