-------------------------------- MODULE FIFOq --------------------------------
(***************************************************************************)
(* FIFOq.c: queues as linked lists of nodes that are allocated and freed.  *)
(* A heap h is a record: head is the head field of each queue, next and    *)
(* pcb are the fields of each node, used are the nodes allocated and not   *)
(* yet freed.  The fields of a node that malloc has just returned, or that *)
(* has been freed, hold Garbage.                                           *)
(***************************************************************************)
EXTENDS Integers, Sequences, FiniteSets, SequencesExt

CONSTANTS Node, NULL, Garbage

ASSUME NodeAssumption ==
    IsFiniteSet(Node) /\ NULL # Garbage /\ {NULL, Garbage} \intersect Node = {}

EmptyHeap(Queue) ==
    [head |-> [q \in Queue |-> NULL],
     next |-> [n \in Node |-> Garbage],
     pcb  |-> [n \in Node |-> Garbage],
     used |-> {}]

Free(h)              == Node \ h.used
SetHead(h, q, n)     == [h EXCEPT !.head[q] = n]
SetNodeNext(h, n, m) == [h EXCEPT !.next[n] = m]

\* construct_Node, initializeNode and setNodePCB, as every caller does them;
\* malloc may return any node that is free.
NewNode(h, n, p) ==
    [h EXCEPT !.used = @ \union {n}, !.next[n] = NULL, !.pcb[n] = p]

DestructNode(h, n) ==
    [h EXCEPT !.used = @ \ {n}, !.next[n] = Garbage, !.pcb[n] = Garbage]

DestructNodes(h, freed) ==
    [h EXCEPT !.used = @ \ freed,
              !.next = [n \in Node |-> IF n \in freed THEN Garbage ELSE @[n]],
              !.pcb  = [n \in Node |-> IF n \in freed THEN Garbage ELSE @[n]]]

\* The nodes met on the way from the head along next; a list that runs in a
\* circle is cut after as many steps as there are nodes.
Nodes(h, q) ==
    LET from[k \in 1 .. Cardinality(Node)] ==
            [n \in Node |-> IF k = 1 \/ h.next[n] \notin Node THEN <<n>>
                            ELSE <<n>> \o from[k - 1][h.next[n]]]
    IN  IF h.head[q] \notin Node THEN <<>> ELSE from[Cardinality(Node)][h.head[q]]

\* What the queue holds, and q_contains.
Pcbs(h, q)         == LET ns == Nodes(h, q) IN [i \in 1 .. Len(ns) |-> h.pcb[ns[i]]]
QContains(h, q, p) == p \in Range(Pcbs(h, q))
QIsEmpty(h, q)     == h.head[q] = NULL

\* q_enqueue walks to the last node and links the new one to it.
QEnqueue_AtTheHead(h, q, n) == SetHead(SetNodeNext(h, n, h.head[q]), q, n)
QEnqueue(h, q, n) ==
    LET cut == SetNodeNext(h, n, NULL)
    IN  IF QIsEmpty(cut, q) THEN SetHead(cut, q, n)
        ELSE SetNodeNext(cut, Last(Nodes(cut, q)), n)

\* q_dequeue frees the node: the PCB it returns, and the heap it leaves.
FirstPcb(h, q) == h.pcb[h.head[q]]
QDequeue_FreesFirst(h, q) ==
    LET freed == DestructNode(h, h.head[q]) IN SetHead(freed, q, freed.next[h.head[q]])
QDequeue(h, q) == DestructNode(SetHead(h, q, h.next[h.head[q]]), h.head[q])

\* q_resetPriority, where pr are the priorities of all processes.
QResetPriority(h, q, pr) ==
    [p \in DOMAIN pr |-> IF QContains(h, q, p) THEN 0 ELSE pr[p]]
=============================================================================
