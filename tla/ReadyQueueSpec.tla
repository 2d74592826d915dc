--------------------------- MODULE ReadyQueueSpec ---------------------------
(***************************************************************************)
(* The ready queue as the dispatchers use it (module Kernel): one sequence *)
(* q, the priorities pr of the processes, and what p_dequeue handed out.   *)
(***************************************************************************)
EXTENDS ReadyQueue, Functions

CONSTANTS Proc, Idle, None, MaxPriority

VARIABLES q, pr, out

Init == q = <<>> /\ pr = [p \in Proc |-> 0] /\ out = None

Enqueue(p) ==
    /\ out' = IF p = out THEN None ELSE out
    /\ p \in Range(q') \ Range(q)
    /\ q' = PEnqueue(q, pr', p)
    /\ \E n \in 0 .. MaxPriority : pr' = [pr EXCEPT ![p] = n]

\* The process that was handed out goes elsewhere: an idle one is destroyed,
\* another one is put to wait.
PutAway == out # None /\ out' = None /\ UNCHANGED <<q, pr>>

Dequeue == /\ out' = PDequeue(q, Idle)
           /\ q' = PRest(q)
           /\ UNCHANGED pr

\* The reset of the priorities leaves everybody in place.  Those that wait
\* elsewhere, or run, are reset as well.
Reset == /\ UNCHANGED <<q, out>>
         /\ pr' \in [Proc -> 0 .. MaxPriority]
         /\ \A p \in Proc : \/ pr'[p] = 0
                            \/ pr'[p] = pr[p] /\ p \notin Range(q)

Next == PutAway \/ Dequeue \/ Reset \/ \E p \in Proc : Enqueue(p)

Spec == Init /\ [][Next]_<<q, pr, out>>
=============================================================================
