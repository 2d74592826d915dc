---------------------------- MODULE DeadlockGraph ----------------------------
(***************************************************************************)
(* The wait-for graph of one resource pair, a tuple of two processes with  *)
(* two mutexes named <<pair, "mutex_1">> and <<pair, "mutex_2">>.  own and *)
(* blk are the owner and the queue of blocked processes of each mutex.     *)
(***************************************************************************)
EXTENDS Integers, FiniteSets, Functions

PairMutexes(pair) == {<<pair, "mutex_1">>, <<pair, "mutex_2">>}

\* connectDLGraph draws an edge from a mutex to the process that owns it and
\* to each process blocked on it.
Candidates(pair) == PairMutexes(pair) \X {pair[1], pair[2]}

\* What the service routines leave behind: a process is blocked on at most
\* one mutex, and only on one that the other process owns.
LegalLocks(pair, own, blk, none) ==
    /\ \A m \in PairMutexes(pair) :
          \/ own[m] \in {none, pair[1], pair[2]} /\ blk[m] = <<>>
          \/ own[m] = pair[1] /\ blk[m] = <<pair[2]>>
          \/ own[m] = pair[2] /\ blk[m] = <<pair[1]>>
    /\ \A m, n \in PairMutexes(pair) : m # n /\ blk[m] # <<>> => blk[m] # blk[n]

EdgeCount_ForgetsMutex2(pair, own, blk) ==
    Cardinality({e \in Candidates(pair) : own[e[1]] = e[2]})
        + Cardinality({e \in Candidates(pair) : e[1][2] = "mutex_1" /\ e[2] \in Range(blk[e[1]])})

EdgeCount(pair, own, blk) ==
    Cardinality({e \in Candidates(pair) : own[e[1]] = e[2]})
        + Cardinality({e \in Candidates(pair) : e[2] \in Range(blk[e[1]])})

\* What the four edges are taken for: each process holds one mutex and is
\* blocked on the other.
Stuck(pair, own, blk) ==
    \A p \in {pair[1], pair[2]} :
        \E m, n \in PairMutexes(pair) : own[m] = p /\ p \in Range(blk[n])
=============================================================================
