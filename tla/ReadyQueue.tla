----------------------------- MODULE ReadyQueue -----------------------------
(***************************************************************************)
(* What PQueue.c promises to the scheduler.  The array of FIFO queues, one *)
(* per priority level, is abstracted to the ONE sequence in which p_dequeue *)
(* would hand the processes out: level 0 first, first come first served    *)
(* within a level.  pr is the priority field of the PCBs.                  *)
(***************************************************************************)
EXTENDS Integers, Sequences, FiniteSets

\* How many processes of q leave before one that is enqueued at level n.
Rank_OneLevelDown(q, pr, n) == Cardinality({i \in 1 .. Len(q) : pr[q[i]] <= n + 1})
Rank(q, pr, n) == Cardinality({i \in 1 .. Len(q) : pr[q[i]] <= n})

\* p_enqueue of the processes of s, one after the other, all at level n.
EnqueueAll(q, pr, n, s) ==
    LET k == Rank(q, pr, n)
    IN  SubSeq(q, 1, k) \o s \o SubSeq(q, k + 1, Len(q))

PEnqueue_AtTheHead(q, pr, p) == <<p>> \o q
PEnqueue(q, pr, p) == EnqueueAll(q, pr, pr[p], <<p>>)

\* p_dequeue: the process handed out, which is an idle PCB when there is
\* none, and the queue that is left.
PDequeue(q, idle) == IF q = <<>> THEN idle ELSE Head(q)
PRest(q)          == IF q = <<>> THEN <<>> ELSE Tail(q)

\* Every process of q has left the queue before those of a later level.
SortedBy(q, pr) == \A i, j \in 1 .. Len(q) : i < j => pr[q[i]] <= pr[q[j]]
=============================================================================
