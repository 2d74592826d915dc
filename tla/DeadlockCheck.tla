---------------------------- MODULE DeadlockCheck ----------------------------
(***************************************************************************)
(* What check_for_deadlock() promises to the scheduler that calls it: of   *)
(* the pairs there are, every call takes away those that are deadlocked,   *)
(* no others and not one less, and they are gone for good.                 *)
(***************************************************************************)
EXTENDS DeadlockGraph

CONSTANT ResPairs

VARIABLES
    pairs,
    created,    \* the pairs there have ever been
    checking,   \* a call has begun and has not given its verdicts yet
    own, blk

Init == pairs = {} /\ created = {} /\ checking = FALSE

\* A new pair is created: one that there has never been.
Register == /\ ~checking
            /\ \E pair \in ResPairs \ created :
                  pairs' = pairs \union {pair} /\ created' = created \union {pair}
            /\ UNCHANGED <<checking, own, blk>>

\* The processes use their mutexes.
UseMutexes == ~checking /\ UNCHANGED <<pairs, created, checking>>

Call == /\ ~checking
        /\ checking' = TRUE
        /\ UNCHANGED <<pairs, created, own, blk>>

Check == /\ checking
         /\ checking' = FALSE
         /\ pairs' = {pair \in pairs : ~Stuck(pair, own, blk)}
         /\ UNCHANGED <<created, own, blk>>

Next == Register \/ UseMutexes \/ Call \/ Check

Spec == Init /\ [][Next]_<<pairs, created, checking, own, blk>>
=============================================================================
