------------------------------- MODULE PQueue -------------------------------
(***************************************************************************)
(* PQueue.c: an array of FIFO queues, one for each priority level, and the *)
(* reset that empties the levels one after the other into level 0 while it *)
(* walks over them.  The queues are lists of nodes (module FIFOq).  Three  *)
(* more queues stand for those that the dispatchers move processes to and  *)
(* from: one for the devices, the conditions and the new processes, one    *)
(* for the mutexes, and the zombies.  Each dispatcher is an action and     *)
(* allocates and frees its nodes in the order of the code;                 *)
(* dispatcherWait() is Await, followed by Resume if somebody is blocked.   *)
(***************************************************************************)
EXTENDS FIFOq, Queues

CONSTANTS Proc, Idle, None, MaxPriority,
          MaxZombies,   \* MAX_ZOMBIES, 4
          MaxLeaks      \* bounds the nodes that are lost

ASSUME PQueueAssumption ==
    /\ MaxPriority \in Nat /\ MaxZombies \in Nat \ {0} /\ MaxLeaks \in Nat
    /\ Idle \notin Proc /\ None \notin Proc \union {Idle}

VARIABLES
    heap,           \* the queues and their nodes
    priority,       \* the priority field of each PCB
    level,          \* the loop index of resetPriority, -1 outside of it
    out,            \* processes->runningProcess: what p_dequeue returned
    leaked          \* how many nodes have been lost

vars == <<heap, priority, level, out, leaked>>

Levels  == 0 .. MaxPriority
Waiting == MaxPriority + 1      \* IO_1_Processes, cond->waiting, newProcesses...
Blocked == MaxPriority + 2      \* mutex->blocked
Zombies == MaxPriority + 3      \* zombieProcesses
Others  == {Waiting, Blocked, Zombies}
Queue   == Levels \union Others

IsQueued(p) == \E q \in Queue : QContains(heap, q, p)

Init ==
    /\ heap = EmptyHeap(Queue)
    /\ priority = [p \in Proc |-> 0]
    /\ level = -1
    /\ out = None
    /\ leaked = 0

\* p_enqueue: an idle PCB and its node are destroyed instead.
P_Enqueue(h, n, pr) ==
    IF h.pcb[n] = Idle THEN DestructNode(h, n) ELSE QEnqueue(h, pr[h.pcb[n]], n)

Highest == CHOOSE i \in Levels :
               ~QIsEmpty(heap, i) /\ \A j \in Levels : ~QIsEmpty(heap, j) => i <= j

\* p_dequeue: the head of the first level that is not empty, or a new idle
\* process.
P_Dequeue ==
    /\ level = -1
    /\ IF \A i \in Levels : QIsEmpty(heap, i)
       THEN out' = Idle /\ UNCHANGED heap
       ELSE out' = FirstPcb(heap, Highest) /\ heap' = QDequeue(heap, Highest)
    /\ UNCHANGED <<priority, level, leaked>>

-----------------------------------------------------------------------------
\* The dispatcher gives a preempted process the next priority.
Bumped(i) == IF i = MaxPriority THEN 0 ELSE i + 1

\* dispatcher() with the preempted process.
Ready ==
    /\ level = -1
    /\ out \in Proc
    /\ priority' = [priority EXCEPT ![out] = Bumped(@)]
    /\ \E n \in Free(heap) : heap' = P_Enqueue(NewNode(heap, n, out), n, priority')
    /\ out' = None
    /\ UNCHANGED <<level, leaked>>

ReadyIdle ==
    /\ level = -1
    /\ out = Idle
    /\ \E n \in Free(heap) : heap' = P_Enqueue(NewNode(heap, n, Idle), n, priority)
    /\ out' = None
    /\ UNCHANGED <<priority, level, leaked>>

\* Nodes that nothing points to any more: they are not free, and what their
\* fields hold does not matter.
Forget(h, lost) ==
    [h EXCEPT !.used = @ \union lost,
              !.next = [n \in Node |-> IF n \in lost THEN Garbage ELSE @[n]],
              !.pcb  = [n \in Node |-> IF n \in lost THEN Garbage ELSE @[n]]]

\* dispatcher() with a process that a trap service routine has put to wait:
\* the node made for it is neither linked nor freed.
LoseNode ==
    /\ level = -1
    /\ leaked < MaxLeaks
    /\ out \in Proc
    /\ \E n \in Free(heap) : heap' = Forget(heap, {n})
    /\ leaked' = leaked + 1
    /\ out' = None
    /\ UNCHANGED <<priority, level>>

\* dispatcherTrap and dispatcherWait, and the creation of processes, which put
\* a process in Waiting, and dispatcherLock, which puts it in Blocked.
Await(p, q) ==
    /\ level = -1
    /\ ~IsQueued(p)
    /\ \E n \in Free(heap) : heap' = QEnqueue(NewNode(heap, n, p), q, n)
    /\ out' = IF p = out THEN None ELSE out
    /\ UNCHANGED <<priority, level, leaked>>

\* dispatcher() with a halted process.
Halt ==
    /\ level = -1
    /\ out \in Proc
    /\ \E n \in Free(heap) : heap' = QEnqueue(NewNode(heap, n, out), Zombies, n)
    /\ out' = None
    /\ UNCHANGED <<priority, level, leaked>>

\* dispatcherIO, moveNewToReady, and dispatcherWait when it hands the mutex
\* over: the node for the ready queue is made before the one of the other queue
\* is freed.
Resume(q) ==
    /\ level = -1
    /\ ~QIsEmpty(heap, q)
    /\ \E n \in Free(heap) :
          heap' = P_Enqueue(QDequeue(NewNode(heap, n, FirstPcb(heap, q)), q), n, priority)
    /\ UNCHANGED <<priority, level, out, leaked>>

\* dispatcherUnlock: the node for the ready queue is made when the other one
\* has been freed, and may be the same.
Unlock ==
    /\ level = -1
    /\ ~QIsEmpty(heap, Blocked)
    /\ LET freed == QDequeue(heap, Blocked)
       IN  \E n \in Free(freed) :
              heap' = P_Enqueue(NewNode(freed, n, FirstPcb(heap, Blocked)), n, priority)
    /\ UNCHANGED <<priority, level, out, leaked>>

\* dispatcherSignal: from the condition to its mutex, again with the new node
\* made first.
Signal ==
    /\ level = -1
    /\ ~QIsEmpty(heap, Waiting)
    /\ \E n \in Free(heap) :
          heap' = QEnqueue(QDequeue(NewNode(heap, n, FirstPcb(heap, Waiting)), Waiting),
                           Blocked, n)
    /\ UNCHANGED <<priority, level, out, leaked>>

\* emptyZombies, called as soon as there are MaxZombies: q_dequeue frees one
\* node after the other.
EmptyZombies ==
    /\ level = -1
    /\ Len(Nodes(heap, Zombies)) >= MaxZombies
    /\ heap' = DestructNodes(SetHead(heap, Zombies, NULL), Range(Nodes(heap, Zombies)))
    /\ UNCHANGED <<priority, level, out, leaked>>

\* destruct_Custom_Mutex, and another mutex in its place: the blocked queue
\* is freed, the nodes that it holds are not.
DestructBlocked ==
    /\ level = -1
    /\ ~QIsEmpty(heap, Blocked)
    /\ leaked + Len(Nodes(heap, Blocked)) <= MaxLeaks
    /\ heap' = Forget(SetHead(heap, Blocked, NULL), Range(Nodes(heap, Blocked)))
    /\ leaked' = leaked + Len(Nodes(heap, Blocked))
    /\ UNCHANGED <<priority, level, out>>

-----------------------------------------------------------------------------
ResetPriority_FromLevel0 ==
    /\ level = -1
    /\ level' = 0
    /\ UNCHANGED <<heap, priority, out, leaked>>
ResetPriority ==
    /\ level = -1
    /\ level' = 1
    /\ UNCHANGED <<heap, priority, out, leaked>>

\* The head of the level goes through p_enqueue again, with priority 0 and a
\* new node, which may be the one that was just freed.
MoveHead ==
    /\ level \in Levels
    /\ ~QIsEmpty(heap, level)
    /\ LET freed == QDequeue(heap, level)
           p     == FirstPcb(heap, level)
       IN  /\ priority' = [priority EXCEPT ![p] = 0]
           /\ \E n \in Free(freed) : heap' = P_Enqueue(NewNode(freed, n, p), n, priority')
    /\ UNCHANGED <<level, out, leaked>>

NextLevel ==
    /\ level \in Levels
    /\ QIsEmpty(heap, level)
    /\ level' = level + 1
    /\ UNCHANGED <<heap, priority, out, leaked>>

\* scheduler() goes on with the queues of the devices, conditions and mutexes
\* and with the running process.
ResetDone ==
    /\ level = MaxPriority + 1
    /\ level' = -1
    /\ LET waiting == QResetPriority(heap, Waiting, priority)
           blocked == QResetPriority(heap, Blocked, waiting)
       IN  priority' = [p \in Proc |-> IF p = out THEN 0 ELSE blocked[p]]
    /\ UNCHANGED <<heap, out, leaked>>

ResetStep == MoveHead \/ NextLevel \/ ResetDone

Next == \/ Ready \/ ReadyIdle \/ LoseNode \/ Halt \/ P_Dequeue
        \/ \E p \in Proc : Await(p, Waiting) \/ Await(p, Blocked)
        \/ Resume(Waiting) \/ Resume(Blocked) \/ Unlock \/ Signal
        \/ EmptyZombies \/ DestructBlocked
        \/ ResetPriority \/ ResetStep

\* The reset runs to its end on the thread that started it.
Spec == Init /\ [][Next]_vars /\ WF_vars(ResetStep)

-----------------------------------------------------------------------------
\* A queue starts with a node or NULL, and so on.
TypeOK ==
    /\ heap \in [head : [Queue -> Node \union {NULL}],
                 next : [Node -> Node \union {NULL, Garbage}],
                 pcb  : [Node -> Proc \union {Garbage}],
                 used : SUBSET Node]
    /\ priority \in [Proc -> Levels]
    /\ level \in -1 .. MaxPriority + 1
    /\ out \in Proc \union {Idle, None}
    /\ leaked \in 0 .. MaxLeaks

Lists     == [q \in Queue |-> Nodes(heap, q)]
Processes == [q \in Queue |-> Pcbs(heap, q)]

\* Through all the allocating, freeing and reusing of nodes, also in the
\* middle of a reset: every list ends, is made of nodes that have not been
\* freed, shares none of them with another list, and holds no process that
\* another node holds; and the only nodes lost are those of dispatcher() and
\* of the queues that are destructed.
NodesWellUsed ==
    LET lists == Lists
        procs == Processes
    IN  /\ TypeOK
        /\ \A q \in Queue : lists[q] # <<>> => heap.next[Last(lists[q])] = NULL
        /\ Apart(lists) /\ Held(lists) \subseteq heap.used
        /\ Apart(procs) /\ Held(procs) \subseteq Proc
        /\ Cardinality(heap.used \ Held(lists)) = leaked

\* The loop of resetPriority ends, although it adds to a queue of the array
\* that it walks over.
ResetEnds == level # -1 ~> level = -1

(***************************************************************************)
(* The array hands the processes out in the order of the one sequence that *)
(* the kernel is modelled with, and the reset, however many steps it takes *)
(* and wherever it is, changes nothing in that order.                      *)
(***************************************************************************)
ReadyPcbs == FlattenSeq([i \in 1 .. MaxPriority + 1 |-> Pcbs(heap, i - 1)])
Abstract == INSTANCE ReadyQueueSpec WITH
    q  <- ReadyPcbs,
    pr <- LET zeroed == IF level = -1 THEN {} ELSE Range(ReadyPcbs)
          IN  [p \in Proc |-> IF p \in zeroed THEN 0 ELSE priority[p]]
ImplementsReadyQueue == Abstract!Spec
=============================================================================
