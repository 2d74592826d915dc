------------------------------- MODULE Queues -------------------------------
(***************************************************************************)
(* How processes are spread over queues.                                   *)
(***************************************************************************)
EXTENDS Integers, Sequences, Functions

\* No process is twice in q.
Once(q) == \A i, j \in 1 .. Len(q) : q[i] = q[j] => i = j

\* The processes in the queues of a family, for instance one per mutex.
Held(qs) == UNION {Range(qs[a]) : a \in DOMAIN qs}

\* No process is twice in the queues of a family.
Apart(qs) ==
    /\ \A a \in DOMAIN qs : Once(qs[a])
    /\ \A a, b \in DOMAIN qs : a # b => Range(qs[a]) \intersect Range(qs[b]) = {}
=============================================================================
