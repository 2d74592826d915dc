-------------------------- MODULE KernelLocksProofs --------------------------
(***************************************************************************)
(* Who owns the mutexes and who waits for them, for any set of processes   *)
(* and any programs.                                                       *)
(***************************************************************************)
EXTENDS KernelLocks, KernelReadyProofs

-----------------------------------------------------------------------------
(***************************************************************************)
(* What a service routine does to the mutex M of the process P that it     *)
(* serves, and to the conditions, before housekeeping: own, blk and tb are *)
(* the owners, the blocked queues and total_blocked that it leaves.        *)
(***************************************************************************)
Stays(own, blk, tb) == own = owner /\ blk = blocked /\ tb = total_blocked

Granted(own, blk, tb) ==
    /\ svc.op \in LockOps /\ state[P] # "WAITING"
    /\ own[M] = P /\ blk = blocked /\ tb = total_blocked

Joins(p, own, blk, tb) ==
    /\ p \in Proc /\ p \in Members(M[1]) /\ p \notin Held(blocked)
    /\ own = owner
    /\ Range(blk[M]) = Range(blocked[M]) \union {p}
    /\ Held(blk) = Held(blocked) \union {p} /\ tb = total_blocked + 1

GivenUp(own, blk, tb) ==
    \/ own[M] = NoProc /\ blocked[M] = <<>> /\ blk = blocked /\ tb = total_blocked
    \/ \E heir \in Range(blocked[M]) :
          /\ own[M] = heir
          /\ Range(blk[M]) = Range(blocked[M]) \ {heir}
          /\ Held(blk) = Held(blocked) \ {heir} /\ tb = total_blocked - 1

FallsAsleep ==
    /\ P \notin Held(waiting) /\ Held(waiting') = Held(waiting) \union {P}
    /\ \A c \in Cond : Range(waiting'[c]) \subseteq Range(waiting[c]) \union {P}
    /\ total_waiting' = total_waiting + 1

WakesUp(p) ==
    /\ p \in Held(waiting) /\ Held(waiting') = Held(waiting) \ {p}
    /\ \A c \in Cond : Range(waiting'[c]) \subseteq Range(waiting[c])
    /\ total_waiting' = total_waiting - 1

Served(own, blk, tb) ==
    /\ svc # NoSvc /\ svc.op \in SyncOps /\ svc' = NoSvc
    /\ P \in Proc /\ P \notin Waiters /\ M \in Mutex /\ P \in Members(M[1])
    /\ svc.op \in {"WAIT_RESOURCE_1", "SIGNAL_RESOURCE_1"} => M[1] \in CPPairs
    /\ \A n \in Mutex \ {M} : own[n] = owner[n] /\ Range(blk[n]) = Range(blocked[n])
    /\ \/ Granted(own, blk, tb) /\ UNCHANGED <<waiting, total_waiting>>
       \/ /\ svc.op \in LockOps /\ state[P] = "WAITING"
          /\ Joins(P, own, blk, tb) /\ UNCHANGED <<waiting, total_waiting>>
       \/ /\ svc.op \in UnlockOps /\ state[P] # "WAITING"
          /\ GivenUp(own, blk, tb) /\ UNCHANGED <<waiting, total_waiting>>
       \/ /\ svc.op = "WAIT_RESOURCE_1" /\ state[P] = "WAITING"
          /\ GivenUp(own, blk, tb) /\ FallsAsleep
       \/ /\ svc.op = "SIGNAL_RESOURCE_1" /\ state[P] # "WAITING"
          /\ \E p : Joins(p, own, blk, tb) /\ WakesUp(p)

Effect(own, blk, tb) ==
    \/ SameLocks /\ Stays(own, blk, tb) /\ UNCHANGED <<waiting, total_waiting>>
    \/ Served(own, blk, tb)

-----------------------------------------------------------------------------
LEMMA LockFamilies ==
    ASSUME Inv, PlacesOK
    PROVE  /\ blocked \in [Mutex -> Seq(Proc)] /\ waiting \in [Cond -> Seq(Proc)]
           /\ owner \in [Mutex -> Proc \union {NoProc}]
           /\ Apart(blocked) /\ Apart(waiting)
           /\ Held(blocked) \intersect Held(waiting) = {}
           /\ Held(blocked) \subseteq Proc /\ Held(waiting) \subseteq Proc
           /\ \A p : p \in Held(blocked) <=> \E m \in Mutex : p \in Range(blocked[m])
           /\ \A p : p \in Held(waiting) <=> \E c \in Cond : p \in Range(waiting[c])
           /\ Held(blocked) \subseteq Waiters /\ Held(waiting) \subseteq Waiters
<1>1. /\ blocked \in [Mutex -> Seq(Proc)] /\ waiting \in [Cond -> Seq(Proc)]
      /\ owner \in [Mutex -> Proc \union {NoProc}]
  BY DEF Inv, TypeOK
<1>2. /\ Apart(blocked) /\ Apart(waiting) /\ Held(blocked) \intersect Held(waiting) = {}
  BY DEF PlacesOK, QueuedOnce
<1>3. /\ Held(blocked) \subseteq Proc
      /\ \A p : p \in Held(blocked) <=> \E m \in Mutex : p \in Range(blocked[m])
  BY <1>1, HeldBy
<1>4. /\ Held(waiting) \subseteq Proc
      /\ \A p : p \in Held(waiting) <=> \E c \in Cond : p \in Range(waiting[c])
  BY <1>1, HeldBy
<1>. QED
  BY <1>1, <1>2, <1>3, <1>4 DEF Waiters

\* A process that joins the queue of the mutex of the service.
LEMMA JoinEffect ==
    ASSUME Inv, PlacesOK, M \in Mutex, NEW p \in Proc, p \in Members(M[1]),
           p \notin Held(blocked), NEW blk, blk = [blocked EXCEPT ![M] = Append(@, p)]
    PROVE  /\ Joins(p, owner, blk, total_blocked + 1)
           /\ \A n \in Mutex \ {M} : Range(blk[n]) = Range(blocked[n])
<1> DEFINE m == M
<1>1. blocked \in [Mutex -> Seq(Proc)] /\ m \in Mutex
  BY LockFamilies
<1>2. Family(blocked, Mutex, Proc)
  BY <1>1 DEF Family
<1>3. blk = Joined(blocked, m, p)
  BY DEF Joined
<1> HIDE DEF m
<1>4. /\ Range(Joined(blocked, m, p)[m]) = Range(blocked[m]) \union {p}
      /\ \A b \in Mutex \ {m} : Joined(blocked, m, p)[b] = blocked[b]
  <2>1. Joined(blocked, m, p)[m] = Append(blocked[m], p) /\ blocked[m] \in Seq(Proc)
    BY <1>1 DEF Joined
  <2>2. \A b \in Mutex \ {m} : Joined(blocked, m, p)[b] = blocked[b]
    BY <1>1 DEF Joined
  <2>. QED
    BY <2>1, <2>2, AppendOnce
<1>5. Held(Joined(blocked, m, p)) = Held(blocked) \union {p}
  BY <1>1, <1>2, HeldAppend
<1>. QED
  BY <1>1, <1>3, <1>4, <1>5 DEF Joins, m

\* A mutex that is given up, to the head of its queue if there is one.
LEMMA GiveUpEffect ==
    ASSUME Inv, PlacesOK, M \in Mutex, NEW own, NEW blk, NEW tb,
           \/ /\ blocked[M] = <<>> /\ own = [owner EXCEPT ![M] = NoProc]
              /\ blk = blocked /\ tb = total_blocked
           \/ /\ blocked[M] # <<>> /\ own = [owner EXCEPT ![M] = Heir]
              /\ blk = [blocked EXCEPT ![M] = Tail(@)] /\ tb = total_blocked - 1
    PROVE  /\ GivenUp(own, blk, tb)
           /\ \A n \in Mutex \ {M} : own[n] = owner[n] /\ Range(blk[n]) = Range(blocked[n])
<1> DEFINE m == M
<1>1. /\ blocked \in [Mutex -> Seq(Proc)] /\ m \in Mutex /\ Apart(blocked)
      /\ owner \in [Mutex -> Proc \union {NoProc}]
  BY LockFamilies
<1>2. CASE blocked[M] = <<>>
  BY <1>1, <1>2 DEF GivenUp, m
<1>3. CASE blocked[M] # <<>>
  <2> DEFINE h == Head(blocked[m])
             new == [blocked EXCEPT ![m] = Tail(@)]
  <2>1. own = [owner EXCEPT ![m] = h] /\ blk = new /\ tb = total_blocked - 1
    BY <1>3 DEF Heir, m
  <2>2. blocked[m] # <<>>
    BY <1>3 DEF m
  <2> HIDE DEF m
  <2>3. /\ h \in Range(blocked[m])
        /\ Range(new[m]) = Range(blocked[m]) \ {h}
        /\ \A b \in Mutex \ {m} : Range(new[b]) = Range(blocked[b])
        /\ Held(new) = Held(blocked) \ {h}
    <3>1. h \in Range(blocked[m]) /\ Range(new[m]) = Range(blocked[m]) \ {h}
      BY <1>1, <2>2, HeldTail
    <3>2. Held(new) = Held(blocked) \ {h}
      BY <1>3, HeirPlaces DEF Heir, m
    <3>3. \A b \in Mutex \ {m} : new[b] = blocked[b]
      BY <1>1
    <3> HIDE DEF h, new
    <3>. QED
      BY <3>1, <3>2, <3>3
  <2>4. own[m] = h /\ \A n \in Mutex \ {m} : own[n] = owner[n]
    BY <1>1, <2>1
  <2> HIDE DEF h, new
  <2>. QED
    BY <2>1, <2>3, <2>4 DEF GivenUp, m
<1>. QED
  BY <1>2, <1>3

LEMMA SleepEffect ==
    ASSUME Inv, PlacesOK, P \in Proc, P \notin Waiters, WaitCond(P) \in Cond,
           waiting' = [waiting EXCEPT ![WaitCond(P)] = Append(@, P)],
           total_waiting' = total_waiting + 1
    PROVE  FallsAsleep
<1> DEFINE c == WaitCond(P)
           p == P
<1>1. waiting \in [Cond -> Seq(Proc)] /\ c \in Cond /\ p \in Proc /\ p \notin Held(waiting)
  BY LockFamilies
<1>2. Family(waiting, Cond, Proc)
  BY <1>1 DEF Family
<1>3. waiting' = Joined(waiting, c, p)
  BY DEF Joined
<1> HIDE DEF c, p
<1>4. \A b \in Cond : Range(Joined(waiting, c, p)[b]) \subseteq Range(waiting[b]) \union {p}
  <2>1. Joined(waiting, c, p)[c] = Append(waiting[c], p) /\ waiting[c] \in Seq(Proc)
    BY <1>1 DEF Joined
  <2>2. \A b \in Cond \ {c} : Joined(waiting, c, p)[b] = waiting[b]
    BY <1>1 DEF Joined
  <2>3. Range(Joined(waiting, c, p)[c]) = Range(waiting[c]) \union {p}
    BY <1>1, <2>1, AppendOnce
  <2>. QED
    BY <2>2, <2>3
<1>5. Held(Joined(waiting, c, p)) = Held(waiting) \union {p}
  BY <1>1, <1>2, HeldAppend
<1>. QED
  BY <1>1, <1>3, <1>4, <1>5 DEF FallsAsleep, p

LEMMA WakeEffect ==
    ASSUME Inv, PlacesOK, NEW s \in Cond, waiting[s] # <<>>,
           waiting' = [waiting EXCEPT ![s] = Tail(@)],
           total_waiting' = total_waiting - 1
    PROVE  WakesUp(Head(waiting[s])) /\ Head(waiting[s]) \in Range(waiting[s])
<1> DEFINE w == Head(waiting[s])
           new == [waiting EXCEPT ![s] = Tail(@)]
<1>1. waiting \in [Cond -> Seq(Proc)] /\ Apart(waiting)
  BY LockFamilies
<1>2. /\ w \in Range(waiting[s]) /\ w \in Held(waiting)
      /\ \A b \in Cond : Range(new[b]) \subseteq Range(waiting[b])
      /\ Held(new) = Held(waiting) \ {w}
  BY <1>1, HeldTail
<1> HIDE DEF w
<1>. QED
  BY <1>2 DEF WakesUp, w

\* Every step but a creation has one of these effects.
LEMMA LockStepEffect ==
    ASSUME Inv, PlacesOK, PairsOK, NEW own, NEW blk, NEW tb, LockStep(own, blk, tb)
    PROVE  Effect(own, blk, tb)
<1> DEFINE p == P
           m == M
<1>1. /\ blocked \in [Mutex -> Seq(Proc)] /\ waiting \in [Cond -> Seq(Proc)]
      /\ owner \in [Mutex -> Proc \union {NoProc}]
      /\ Held(blocked) \subseteq Waiters /\ Held(waiting) \subseteq Waiters
      /\ Held(blocked) \intersect Held(waiting) = {}
  BY LockFamilies
<1>2. LockOps \subseteq SyncOps /\ UnlockOps \subseteq SyncOps
      /\ {"WAIT_RESOURCE_1", "SIGNAL_RESOURCE_1"} \subseteq SyncOps
  BY DEF SyncOps
<1>3. ASSUME NEW ops \in {LockOps, UnlockOps, {"WAIT_RESOURCE_1"}, {"SIGNAL_RESOURCE_1"}},
             Serve(ops)
      PROVE  /\ svc # NoSvc /\ svc.op \in ops /\ svc.op \in SyncOps /\ svc' = NoSvc
             /\ P \in Proc /\ P \notin Waiters /\ M \in Mutex /\ P \in Members(M[1])
             /\ svc.op \in {"WAIT_RESOURCE_1", "SIGNAL_RESOURCE_1"} =>
                   /\ M[1] \in CPPairs /\ WaitCond(P) \in Cond /\ SignalCond(P) \in Cond
                   /\ SignalCond(P)[1] = M[1]
             /\ svc.op \in {"WAIT_RESOURCE_1"} => state[P] = "WAITING"
             /\ svc.op \in UnlockOps \union {"SIGNAL_RESOURCE_1"} => state[P] # "WAITING"
  <2>1. ops \subseteq LockOps \union UnlockOps \union {"WAIT_RESOURCE_1", "SIGNAL_RESOURCE_1"}
    BY <1>3
  <2>2. ServiceExists(svc.proc, svc.op) /\ svc # NoSvc
    BY <1>3, ServedFacts DEF Inv, ControlOK
  <2>3. svc.op \in {"WAIT_RESOURCE_1", "SIGNAL_RESOURCE_1"} => PairOf(P) \in CPPairs
    BY <2>2, ServiceObjects DEF P
  <2>. QED
    BY <1>2, <1>3, <2>1, <2>2, <2>3, SyncServed, ServedFacts
<1>4. CASE LockGranted /\ own = [owner EXCEPT ![M] = P] /\ blk = blocked /\ tb = total_blocked
           /\ UNCHANGED <<waiting, total_waiting>>
  <2>1. Serve(LockOps) /\ state[P] # "WAITING"
    BY <1>4 DEF LockGranted
  <2>2. own[M] = P /\ \A n \in Mutex \ {M} : own[n] = owner[n]
    BY <1>1, <1>3, <1>4, <2>1
  <2>3. Granted(own, blk, tb)
    BY <1>3, <1>4, <2>1, <2>2 DEF Granted
  <2>. QED
    BY <1>3, <1>4, <2>1, <2>2, <2>3 DEF Effect, Served
<1>5. CASE LockBlocks /\ own = owner /\ blk = [blocked EXCEPT ![M] = Append(@, P)]
           /\ tb = total_blocked + 1 /\ UNCHANGED <<waiting, total_waiting>>
  <2>1. Serve(LockOps) /\ state[P] = "WAITING"
    BY <1>5 DEF LockBlocks
  <2>2. /\ Joins(P, owner, blk, total_blocked + 1)
        /\ \A n \in Mutex \ {M} : Range(blk[n]) = Range(blocked[n])
    BY <1>1, <1>3, <1>5, <2>1, JoinEffect
  <2>. QED
    BY <1>3, <1>5, <2>1, <2>2 DEF Effect, Served
<1>6. CASE /\ UnlockFree \/ UnlockHandsOver
           /\ UNCHANGED <<waiting, total_waiting>>
           /\ \/ /\ blocked[M] = <<>> /\ own = [owner EXCEPT ![M] = NoProc]
                 /\ blk = blocked /\ tb = total_blocked
              \/ /\ blocked[M] # <<>> /\ own = [owner EXCEPT ![M] = Heir]
                 /\ blk = [blocked EXCEPT ![M] = Tail(@)] /\ tb = total_blocked - 1
  <2>1. Serve(UnlockOps)
    BY <1>6 DEF UnlockFree, UnlockHandsOver
  <2>2. /\ GivenUp(own, blk, tb)
        /\ \A n \in Mutex \ {M} : own[n] = owner[n] /\ Range(blk[n]) = Range(blocked[n])
    BY <1>3, <1>6, <2>1, GiveUpEffect
  <2>. QED
    BY <1>3, <1>6, <2>1, <2>2 DEF Effect, Served
<1>7. CASE /\ Wait
           /\ waiting' = [waiting EXCEPT ![WaitCond(P)] = Append(@, P)]
           /\ total_waiting' = total_waiting + 1
           /\ \/ /\ blocked[M] = <<>> /\ own = [owner EXCEPT ![M] = NoProc]
                 /\ blk = blocked /\ tb = total_blocked
              \/ /\ blocked[M] # <<>> /\ own = [owner EXCEPT ![M] = Heir]
                 /\ blk = [blocked EXCEPT ![M] = Tail(@)] /\ tb = total_blocked - 1
  <2>1. Serve({"WAIT_RESOURCE_1"})
    BY <1>7 DEF Wait
  <2>2. /\ GivenUp(own, blk, tb)
        /\ \A n \in Mutex \ {M} : own[n] = owner[n] /\ Range(blk[n]) = Range(blocked[n])
    BY <1>3, <1>7, <2>1, GiveUpEffect
  <2>3. FallsAsleep
    BY <1>3, <1>7, <2>1, SleepEffect
  <2>. QED
    BY <1>3, <2>1, <2>2, <2>3 DEF Effect, Served
<1>8. CASE /\ SignalWakes /\ waiting[SignalCond(P)] # <<>>
           /\ own = owner /\ tb = total_blocked + 1
           /\ blk = [blocked EXCEPT ![M] = Append(@, Head(waiting[SignalCond(P)]))]
           /\ waiting' = [waiting EXCEPT ![SignalCond(P)] = Tail(@)]
           /\ total_waiting' = total_waiting - 1
  <2> DEFINE s == SignalCond(P)
             w == Head(waiting[s])
  <2>1. Serve({"SIGNAL_RESOURCE_1"})
    BY <1>8 DEF SignalWakes
  <2>2. s \in Cond /\ s[1] = M[1] /\ M \in Mutex
    BY <1>3, <2>1
  <2>3. /\ waiting[s] # <<>> /\ waiting' = [waiting EXCEPT ![s] = Tail(@)]
        /\ blk = [blocked EXCEPT ![M] = Append(@, w)]
    BY <1>8
  <2> HIDE DEF s
  <2>4. WakesUp(w) /\ w \in Range(waiting[s])
    BY <1>8, <2>2, <2>3, WakeEffect
  <2> HIDE DEF w
  <2>5. w \in Held(waiting) /\ w \in Proc /\ w \notin Held(blocked)
    BY <1>1, <2>4, LockFamilies DEF WakesUp
  <2>6. w \in Members(M[1])
    BY <2>2, <2>4 DEF PairsOK, OwnLocksOnly
  <2>7. /\ Joins(w, owner, blk, total_blocked + 1)
        /\ \A n \in Mutex \ {M} : Range(blk[n]) = Range(blocked[n])
    BY <2>2, <2>3, <2>5, <2>6, JoinEffect
  <2>. QED
    BY <1>3, <1>8, <2>1, <2>4, <2>7 DEF Effect, Served
<1>9. CASE SameLocks /\ own = owner /\ blk = blocked /\ tb = total_blocked
           /\ UNCHANGED <<waiting, total_waiting>>
  BY <1>9 DEF Effect, Stays
<1>. QED
  BY <1>4, <1>5, <1>6, <1>7, <1>8, <1>9 DEF LockStep

-----------------------------------------------------------------------------
(***************************************************************************)
(* What holds of the locks whatever the interrupts do.                     *)
(***************************************************************************)
LEMMA CPOrRes == CPPairs \intersect ResPairs = {} /\ NoProc \notin Proc
BY ProcessesDistinct DEF CPProcs, ResProcs, Members

\* The services leave a process of a resource pair blocked only on a mutex
\* that its partner owns.
LEMMA ResLocksLegal ==
    ASSUME Inv, PlacesOK, LegalOK, NEW own, NEW blk, NEW tb, Effect(own, blk, tb)
    PROVE  \A m \in Mutex : m[1] \in ResPairs =>
              \A p \in Range(blk[m]) : own[m] \notin {NoProc, p}
<1>1. \A m \in Mutex : m[1] \in ResPairs =>
         \A p \in Range(blocked[m]) : owner[m] \notin {NoProc, p}
  BY DEF LegalOK, ResBlockedOnAnother
<1>2. CASE Stays(own, blk, tb)
  BY <1>1, <1>2 DEF Stays
<1>3. CASE Served(own, blk, tb)
  <2>1. /\ \A n \in Mutex \ {M} : own[n] = owner[n] /\ Range(blk[n]) = Range(blocked[n])
        /\ P \in Proc /\ P # NoProc
    BY <1>3, CPOrRes DEF Served
  <2>2. SUFFICES ASSUME M \in Mutex, M[1] \in ResPairs, NEW p \in Range(blk[M])
                 PROVE  own[M] \notin {NoProc, p}
    BY <1>1, <2>1
  <2>3. svc.op \notin {"WAIT_RESOURCE_1", "SIGNAL_RESOURCE_1"}
    BY <1>3, <2>2, CPOrRes DEF Served
  <2>4. svc.op \in LockOps => (state[P] = "WAITING" <=> owner[M] \notin {NoProc, P})
    BY DEF LegalOK, LockDecided
  <2>5. CASE Granted(own, blk, tb)
    BY <1>1, <2>1, <2>2, <2>4, <2>5 DEF Granted
  <2>6. CASE svc.op \in LockOps /\ state[P] = "WAITING" /\ Joins(P, own, blk, tb)
    BY <1>1, <2>2, <2>4, <2>6 DEF Joins
  <2>7. CASE GivenUp(own, blk, tb)
    <3>1. Range(blocked[M]) \subseteq Proc
      BY LockFamilies, <2>2
    <3>2. blocked[M] = <<>> => Range(blocked[M]) = {}
      BY EmptyQueue
    <3>. QED
      BY <2>2, <2>7, <3>1, <3>2, CPOrRes DEF GivenUp
  <2>. QED
    BY <1>3, <2>3, <2>5, <2>6, <2>7 DEF Served
<1>. QED
  BY <1>2, <1>3 DEF Effect

\* The services keep the two counters exact.
LEMMA ServicesCount ==
    ASSUME Inv, PlacesOK, LegalOK, NEW own, NEW blk, NEW tb, Effect(own, blk, tb)
    PROVE  /\ tb = Cardinality(Held(blk)) /\ IsFiniteSet(Held(blk))
           /\ total_waiting' = Cardinality(Held(waiting'))
<1>1. IsFiniteSet(Held(blocked)) /\ IsFiniteSet(Held(waiting))
  BY LockFamilies, ProcFinite, FS_Subset
<1>2. /\ total_blocked = Cardinality(Held(blocked)) /\ total_waiting = Cardinality(Held(waiting))
      /\ total_blocked \in Int /\ total_waiting \in Int
  BY DEF LegalOK, QueuesCounted, Inv, TypeOK
<1>3. \A x : /\ IsFiniteSet(Held(blocked) \union {x}) /\ IsFiniteSet(Held(blocked) \ {x})
             /\ x \notin Held(blocked) =>
                   Cardinality(Held(blocked) \union {x}) = Cardinality(Held(blocked)) + 1
             /\ x \in Held(blocked) =>
                   Cardinality(Held(blocked) \ {x}) = Cardinality(Held(blocked)) - 1
  BY <1>1, FS_AddElement, FS_RemoveElement
<1>4. \A x : /\ x \notin Held(waiting) =>
                   Cardinality(Held(waiting) \union {x}) = Cardinality(Held(waiting)) + 1
             /\ x \in Held(waiting) =>
                   Cardinality(Held(waiting) \ {x}) = Cardinality(Held(waiting)) - 1
  BY <1>1, FS_AddElement, FS_RemoveElement
<1>5. UNCHANGED <<waiting, total_waiting>> => total_waiting' = Cardinality(Held(waiting'))
  BY <1>2
<1>6. FallsAsleep => total_waiting' = Cardinality(Held(waiting'))
  BY <1>2, <1>4 DEF FallsAsleep
<1>7. ASSUME NEW p, WakesUp(p) PROVE total_waiting' = Cardinality(Held(waiting'))
  BY <1>2, <1>4, <1>7 DEF WakesUp
<1>8. blk = blocked /\ tb = total_blocked => tb = Cardinality(Held(blk)) /\ IsFiniteSet(Held(blk))
  BY <1>1, <1>2
<1>9. ASSUME NEW p, Joins(p, own, blk, tb)
      PROVE  tb = Cardinality(Held(blk)) /\ IsFiniteSet(Held(blk))
  BY <1>2, <1>3, <1>9 DEF Joins
<1>10. ASSUME M \in Mutex, GivenUp(own, blk, tb)
       PROVE  tb = Cardinality(Held(blk)) /\ IsFiniteSet(Held(blk))
  <2>1. \A h \in Range(blocked[M]) : h \in Held(blocked)
    BY <1>10, LockFamilies
  <2>. QED
    BY <1>2, <1>3, <1>8, <1>10, <2>1 DEF GivenUp
<1>11. CASE Stays(own, blk, tb) /\ UNCHANGED <<waiting, total_waiting>>
  BY <1>5, <1>8, <1>11 DEF Stays
<1>12. CASE Served(own, blk, tb)
  BY <1>5, <1>6, <1>7, <1>8, <1>9, <1>10, <1>12 DEF Served, Granted
<1>. QED
  BY <1>11, <1>12 DEF Effect

\* Housekeeping takes two blocked processes away with each pair.
LEMMA DestructionCounts ==
    ASSUME NEW own, NEW blk, NEW tb, Destructs(own, blk, tb), DOMAIN blk = Mutex,
           Apart(blk), OwnLocksOnly(own, blk, waiting'),
           tb = Cardinality(Held(blk)), IsFiniteSet(Held(blk))
    PROVE  total_blocked' = Cardinality(Held(blocked'))
<1>1. PICK dead \in SUBSET Deadlocked(own, blk) :
         /\ blocked' = [m \in Mutex |-> IF m[1] \in dead THEN <<>> ELSE blk[m]]
         /\ total_blocked' = tb - 2 * Cardinality(dead)
  BY DEF Destructs
<1> DEFINE gone == UNION {Members(pair) : pair \in dead}
<1>2. /\ dead \subseteq ResPairs /\ dead \subseteq Pairs
      /\ \A pair \in dead : EdgeCount(pair, own, blk) = 4
  BY <1>1 DEF Deadlocked, Pairs
<1>3. IsFiniteSet(dead)
  BY <1>2, ProcFinite, FS_Subset
<1>4. Cardinality(gone) = 2 * Cardinality(dead)
  BY <1>2, <1>3, PairMembers
<1>5. \A p : p \in Held(blk) <=> \E m \in Mutex : p \in Range(blk[m])
  BY DEF Held
<1>6. gone \subseteq Held(blk)
  <2>1. ASSUME NEW pair \in dead, NEW p \in Members(pair)
        PROVE  p \in Held(blk)
    <3>1. \E m \in PairMutexes(pair) : p \in Range(blk[m])
      BY <1>2, FourEdgesBlocked
    <3>2. PairMutexes(pair) \subseteq Mutex
      BY <1>2, MutexPair
    <3>. QED
      BY <1>5, <3>1, <3>2
  <2>. QED
    BY <2>1
<1>7. \A p : p \in Held(blocked') <=> \E m \in Mutex : p \in Range(blocked'[m])
  <2>1. DOMAIN blocked' = Mutex
    BY <1>1
  <2>. QED
    BY <2>1 DEF Held
<1>8. \A m \in Mutex : Range(blocked'[m]) = IF m[1] \in dead THEN {} ELSE Range(blk[m])
  BY <1>1, EmptyQueue
<1>9. ASSUME NEW m \in Mutex, NEW p \in Range(blk[m])
      PROVE  p \in gone <=> m[1] \in dead
  <2>1. p \in Members(m[1]) /\ m[1] \in Pairs
    BY MutexPair DEF OwnLocksOnly
  <2>2. ASSUME NEW pair \in dead, p \in Members(pair) PROVE pair = m[1]
    <3>1. pair \in Pairs
      BY <1>2
    <3>. QED
      BY <2>1, <2>2, <3>1, OnlyPair
  <2>. QED
    BY <2>1, <2>2
<1> HIDE DEF gone
<1>10. Held(blocked') = Held(blk) \ gone
  BY <1>5, <1>7, <1>8, <1>9
<1>11. Cardinality(Held(blk) \ gone) = Cardinality(Held(blk)) - Cardinality(gone)
  <2>1. Held(blk) \intersect gone = gone
    BY <1>6
  <2>. QED
    BY <2>1, FS_Difference
<1>. QED
  BY <1>1, <1>4, <1>10, <1>11

\* The interrupts leave alone the service under way and what its process is
\* marked as.
LEMMA InterruptsLeaveService ==
    ASSUME Inv, PlacesOK, Interrupts
    PROVE  /\ UNCHANGED <<svc, laps, waiting>>
           /\ svc # NoSvc => (state'[P] = "WAITING" <=> state[P] = "WAITING")
           /\ \A p \in Proc \ {Idle} : step'[p] = step[p]
<1>1. /\ state \in [Proc -> ProcessStates] /\ step \in [Proc -> StepStates] /\ running \in Proc
      /\ \A p \in Range(newQ) : state[p] = "NEW"
      /\ \A p \in Range(ready) : state[p] = "READY"
      /\ \A p \in Waiters : state[p] = "WAITING"
      /\ svc # NoSvc => P \in Proc /\ P # Idle /\ P \notin Waiters
  BY PlacesFacts DEF Inv, TypeOK, P
<1>2. CASE NoTimerInterrupt \/ NoIOInterrupt
  BY <1>2 DEF NoTimerInterrupt, NoIOInterrupt, pcbVars, lockVars, qVars
<1>3. ASSUME NEW d \in Dev, IOInterrupt(d)
      PROVE  /\ UNCHANGED <<svc, laps, waiting>>
             /\ svc # NoSvc => (state'[P] = "WAITING" <=> state[P] = "WAITING")
             /\ \A p \in Proc \ {Idle} : step'[p] = step[p]
  <2>1. /\ state' = [state EXCEPT ![running] = IF @ = "RUNNING" THEN "INTERRUPTED" ELSE @]
        /\ UNCHANGED <<svc, laps, waiting, step>>
    BY <1>3 DEF IOInterrupt, lockVars
  <2>2. \A p \in Proc : state'[p] = state[p]
                        \/ (state'[p] = "INTERRUPTED" /\ state[p] = "RUNNING")
    BY <1>1, <2>1
  <2>. QED
    BY <1>1, <2>1, <2>2
<1>4. CASE PseudoISR
  <2> DEFINE st == [state EXCEPT
                       ![running] = IF @ \in {"HALTED", "WAITING"} THEN @ ELSE "INTERRUPTED"]
  <2>1. Dispatcher(st, currentPC) /\ UNCHANGED <<svc, laps>>
    BY <1>4 DEF PseudoISR
  <2>2. /\ st \in [Proc -> ProcessStates]
        /\ \A p \in Proc \ {running} : st[p] = state[p]
        /\ st[running] = IF state[running] \in {"HALTED", "WAITING"} THEN state[running]
                         ELSE "INTERRUPTED"
    BY <1>1 DEF ProcessStates
  <2> HIDE DEF st
  <2>3. /\ waiting' = waiting
        /\ running' \in Range(ready) \union Range(newQ) \union {Idle}
           \/ (running' = running /\ st[running] = "INTERRUPTED")
        /\ \A p \in Proc :
              state'[p] = IF p = running' THEN "RUNNING"
                          ELSE IF p \in Range(newQ) THEN "READY"
                          ELSE IF p = running /\ st[p] = "INTERRUPTED" THEN "READY"
                          ELSE st[p]
    BY <2>1, <2>2, DispatcherPlaces DEF Inv
  <2>4. \A p \in Proc \ {Idle} : step'[p] = step[p]
    BY <1>1, <2>1 DEF Dispatcher, TakeNext
  <2>5. svc # NoSvc /\ state[P] = "WAITING" => state'[P] = "WAITING"
    BY <1>1, <2>2, <2>3
  <2>6. svc # NoSvc /\ state[P] # "WAITING" => state'[P] # "WAITING"
    BY <1>1, <2>2, <2>3
  <2>. QED
    BY <2>1, <2>3, <2>4, <2>5, <2>6
<1>5. CASE IOReturn
  <2> DEFINE h == Head(ioQ[dev])
             st == [state EXCEPT ![h] = "READY"]
  <2>1. /\ \E q : KeepRunning(q, st, pc)
        /\ UNCHANGED <<svc, laps, waiting>>
    BY <1>5 DEF IOReturn
  <2>2. UNCHANGED <<step, running>> /\ \A p \in Proc : state'[p] = StateAfterNew(st, p)
    BY <2>1 DEF KeepRunning
  <2>3. h \in Waiters
    <3>1. /\ ioQ \in [Dev -> Seq(Proc)] /\ dev \in Dev /\ ioQ[dev] # <<>>
      BY <1>5 DEF IOReturn, Inv, TypeOK, ControlOK, DeviceOnIffRequested
    <3>2. h \in Range(ioQ[dev])
      BY <3>1, TailOnce
    <3>. QED
      BY <3>1, <3>2, HeldBy DEF Waiters
  <2> HIDE DEF h
  <2>4. \A p \in Proc \ {h} : st[p] = state[p]
    BY <1>1
  <2>. QED
    BY <1>1, <2>1, <2>2, <2>3, <2>4 DEF StateAfterNew
<1>. QED
  BY <1>2, <1>3, <1>4, <1>5 DEF Interrupts

\* The decision taken when the lock was requested stands until lock_tsr acts:
\* no other process can change the owner meanwhile, and if the pair has been
\* destructed its process is not the one served.
LEMMA DecisionStands ==
    ASSUME Inv, PlacesOK, PairsOK', LegalOK, Interrupts \/ UNCHANGED vars,
           svc # NoSvc, Destructs(owner, blocked, total_blocked)
    PROVE  LockDecided'
<1>1. svc' = svc /\ (state'[P] = "WAITING" <=> state[P] = "WAITING")
  BY InterruptsLeaveService DEF vars, pcbVars
<1>2. P' = P /\ M' = M
  BY <1>1 DEF P, M
<1>3. SUFFICES ASSUME svc.op \in LockOps
               PROVE  state'[P] = "WAITING" <=> owner'[M] \notin {NoProc, P}
  BY <1>1, <1>2 DEF LockDecided
<1>4. state[P] = "WAITING" <=> owner[M] \notin {NoProc, P}
  BY <1>3 DEF LegalOK, LockDecided
<1>5. ServiceExists(svc.proc, svc.op)
  BY DEF Inv, ControlOK
<1>6. M \in Mutex /\ P \in Members(M[1])
  BY <1>3, <1>5, ServedPair DEF P, M
<1>7. PICK dead \in SUBSET Deadlocked(owner, blocked) :
         /\ pairs' = pairs \ dead
         /\ owner' = [m \in Mutex |-> IF m[1] \in dead THEN NoProc ELSE owner[m]]
  BY DEF Destructs
<1>8. CASE M[1] \in dead
  <2>1. M[1] \in Pairs \ pairs' /\ owner'[M] = NoProc
    BY <1>6, <1>7, <1>8, MutexPair
  <2>2. Nowhere(P)'
    BY <1>2, <1>6, <2>1 DEF PairsOK
  <2>3. P # running' /\ ~InService(P)'
    BY <1>2, <2>2 DEF Nowhere
  <2>4. state'[P] # "WAITING"
    BY <1>1, <1>2, <2>3 DEF InService, P
  <2>. QED
    BY <2>1, <2>4
<1>9. CASE M[1] \notin dead
  <2>1. owner'[M] = owner[M]
    BY <1>6, <1>7, <1>9
  <2>. QED
    BY <1>1, <1>4, <2>1
<1>. QED
  BY <1>8, <1>9

LEMMA DecisionTaken ==
    ASSUME Inv, EnterService
    PROVE  LockDecided'
<1>1. SUFFICES ASSUME svc'.op \in LockOps PROVE LockDecided'
  BY DEF LockDecided
<1>2. running \in Proc /\ state \in [Proc -> ProcessStates]
  BY DEF Inv, TypeOK
<1>3. CASE EnterLock
  <2>1. /\ svc' = [op |-> Requested, proc |-> running]
        /\ owner' = owner
        /\ state' = [state EXCEPT ![running] =
                        IF owner[MutexOf(running, Requested)] \in {NoProc, running}
                        THEN "INTERRUPTED" ELSE "WAITING"]
    BY <1>3 DEF EnterLock, EnterTSR, lockVars
  <2>2. P' = running /\ M' = MutexOf(running, Requested)
    BY <2>1 DEF P, M
  <2> HIDE DEF Requested
  <2>3. state'[running] = IF owner[MutexOf(running, Requested)] \in {NoProc, running}
                          THEN "INTERRUPTED" ELSE "WAITING"
    BY <1>2, <2>1
  <2>. QED
    BY <2>1, <2>2, <2>3 DEF LockDecided
<1>4. CASE NoTrap
  <2>1. svc' = NoSvc
    BY <1>4 DEF NoTrap, Inv, ControlOK
  <2>. QED
    BY <1>1, <2>1 DEF NoSvc, LockOps
<1>5. ASSUME NEW ops, NEW st, EnterTSR(ops, st), ops \intersect LockOps = {}
      PROVE  FALSE
  BY <1>1, <1>5 DEF EnterTSR
<1>6. /\ {"PCB_TERMINATED"} \intersect LockOps = {} /\ IOTraps \intersect LockOps = {}
      /\ UnlockOps \intersect LockOps = {} /\ {"WAIT_RESOURCE_1"} \intersect LockOps = {}
      /\ {"SIGNAL_RESOURCE_1"} \intersect LockOps = {}
  BY DEF LockOps, UnlockOps, IOTraps
<1>. QED
  BY <1>3, <1>4, <1>5, <1>6 DEF EnterService, EnterTermination, EnterIOTrap, EnterUnlock,
     EnterWait, EnterSignal

\* No service is under way while processes are created or execute, and the
\* end of a service leaves none.
LEMMA NoServiceLeft ==
    ASSUME Inv, CreationDone \/ SimulateProgramStep \/ FinishTermination \/ FinishIOTrap
                \/ SignalNobody
    PROVE  svc' = NoSvc
BY DEF CreationDone, SimulateProgramStep, FinishTermination, FinishIOTrap, SignalNobody,
       Serve, Inv, ControlOK

LEMMA NoSvcNoLock == NoSvc.op \notin SyncOps /\ NoSvc.op # "PCB_TERMINATED"
                     /\ LockOps \subseteq SyncOps
BY DEF NoSvc, SyncOps, LockOps, UnlockOps

LEMMA CreationLegal ==
    ASSUME Inv, PlacesOK, LegalOK, Creates
    PROVE  LegalOK'
<1>1. /\ UNCHANGED <<owner, blocked, waiting, total_blocked, total_waiting, svc>>
      /\ at \in {"boot", "create"}
  <2>1. \E ps \in Seq(Proc) : Enter(ps)
    BY CreationSeen DEF Creates
  <2>. QED
    BY <2>1 DEF Enter
<1>2. svc = NoSvc
  BY <1>1 DEF Inv, ControlOK
<1>3. ResBlockedOnAnother' /\ QueuesCounted'
  BY <1>1 DEF LegalOK, ResBlockedOnAnother, QueuesCounted
<1>4. LockDecided'
  BY <1>1, <1>2, NoSvcNoLock DEF LockDecided
<1>. QED
  BY <1>3, <1>4 DEF LegalOK

LEMMA InitLegal == Init => LegalOK
<1> SUFFICES ASSUME Init PROVE LegalOK
  OBVIOUS
<1>1. /\ svc = NoSvc
      /\ \A m \in Mutex : blocked[m] = <<>>
      /\ \A c \in Cond : waiting[c] = <<>>
      /\ DOMAIN blocked = Mutex /\ DOMAIN waiting = Cond
      /\ total_blocked = 0 /\ total_waiting = 0
  BY DEF Init
<1>2. \A m \in Mutex : Range(blocked[m]) = {}
  BY <1>1, EmptyQueue
<1>3. \A c \in Cond : Range(waiting[c]) = {}
  BY <1>1, EmptyQueue
<1>4. Held(blocked) = {} /\ Held(waiting) = {}
  BY <1>1, <1>2, <1>3 DEF Held
<1>5. Cardinality(Held(blocked)) = 0 /\ Cardinality(Held(waiting)) = 0
  BY <1>4, FS_EmptySet
<1>. QED
  BY <1>1, <1>2, <1>5, NoSvcNoLock
     DEF LegalOK, LockDecided, ResBlockedOnAnother, QueuesCounted

LEMMA NextLegal ==
    ASSUME Inv, PlacesOK, PairsOK, PairsOK', LegalOK, [Next]_vars
    PROVE  LegalOK'
<1>1. CASE Creates
  BY <1>1, CreationLegal
<1>2. CASE ~Creates
  <2>1. PICK own, blk, tb : /\ LockStep(own, blk, tb) /\ Destructs(own, blk, tb)
                            /\ Moves(blk, Lost)
    BY <1>2, StepIsSeen DEF StepSeen, Creates
  <2>2. Effect(own, blk, tb) /\ DOMAIN blk = Mutex /\ OwnLocksOnly(own, blk, waiting')
    BY <2>1, LockStepEffect, LockStepDomain, OwnLockStep DEF PairsOK
  <2>3. /\ \A m \in Mutex : m[1] \in ResPairs =>
              \A p \in Range(blk[m]) : own[m] \notin {NoProc, p}
        /\ tb = Cardinality(Held(blk)) /\ IsFiniteSet(Held(blk))
        /\ total_waiting' = Cardinality(Held(waiting'))
    BY <2>2, ResLocksLegal, ServicesCount
  <2>4. ResBlockedOnAnother'
    <3>1. PICK dead \in SUBSET Deadlocked(own, blk) :
             /\ owner' = [m \in Mutex |-> IF m[1] \in dead THEN NoProc ELSE own[m]]
             /\ blocked' = [m \in Mutex |-> IF m[1] \in dead THEN <<>> ELSE blk[m]]
      BY <2>1 DEF Destructs
    <3>2. \A m \in Mutex : \/ Range(blocked'[m]) = {}
                           \/ owner'[m] = own[m] /\ blocked'[m] = blk[m]
      BY <3>1, EmptyQueue
    <3>. QED
      BY <2>3, <3>2 DEF ResBlockedOnAnother
  <2>5. QueuesCounted'
    <3>1. Apart(blk)
      BY <2>1 DEF Moves
    <3>2. total_blocked' = Cardinality(Held(blocked'))
      BY <2>1, <2>2, <2>3, <3>1, DestructionCounts
    <3>. QED
      BY <2>3, <3>2 DEF QueuesCounted
  <2>6. LockDecided'
    <3>1. CASE svc' = NoSvc
      BY <3>1, NoSvcNoLock DEF LockDecided
    <3>2. CASE EnterService
      BY <3>2, DecisionTaken
    <3>3. CASE svc' # NoSvc /\ ~EnterService
      <4>1. SameLocks /\ Stays(own, blk, tb)
        BY <2>2, <3>3 DEF Effect, Served
      <4>2. Interrupts \/ UNCHANGED vars
        BY <3>3, <4>1, NoServiceLeft DEF SameLocks
      <4>3. svc # NoSvc
        BY <3>3, <4>2, InterruptsLeaveService DEF vars
      <4>4. Destructs(owner, blocked, total_blocked)
        BY <2>1, <4>1 DEF Stays
      <4>. QED
        BY <4>2, <4>3, <4>4, DecisionStands
    <3>. QED
      BY <3>1, <3>2, <3>3
  <2>. QED
    BY <2>4, <2>5, <2>6 DEF LegalOK
<1>. QED
  BY <1>1, <1>2

\* The decision taken for a lock stands when it is carried out, nobody of a
\* resource pair is blocked on a mutex that is free or its own, and the two
\* counters are exact (check_for_syncro_trap, lock_tsr, unlock_tsr, wait_tsr,
\* signal_tsr, Deadlock_Monitor).
THEOREM LegalIsKept == Spec => []LegalOK
<1>1. Init => LegalOK
  BY InitLegal
<1>2. Inv /\ PlacesOK /\ PairsOK /\ PairsOK' /\ LegalOK /\ [Next]_vars => LegalOK'
  BY NextLegal
<1>. QED
  BY <1>1, <1>2, Invariance, PlacesAreKept, PairsAreKept, PTL DEF Spec

-----------------------------------------------------------------------------
(***************************************************************************)
(* What follows from LegalOK.                                              *)
(***************************************************************************)
LEMMA LegalLocksOf ==
    ASSUME Inv, PlacesOK, PairsOK, LegalOK, NEW pair \in ResPairs
    PROVE  /\ LegalLocks(pair, owner, blocked, NoProc)
           /\ EdgeCount(pair, owner, blocked) = 4 <=> Stuck(pair, owner, blocked)
<1> DEFINE m1 == <<pair, "mutex_1">>
           m2 == <<pair, "mutex_2">>
           p  == pair[1]
           q  == pair[2]
           R(m) == Range(blocked[m])
           E(m, x) == (IF owner[m] = x THEN 1 ELSE 0) + (IF x \in R(m) THEN 1 ELSE 0)
<1>1. /\ p # q /\ m1 # m2 /\ m1 \in Mutex /\ m2 \in Mutex
      /\ Members(pair) = {p, q} /\ PairMutexes(pair) = {m1, m2}
      /\ m1[1] = pair /\ m2[1] = pair
      /\ p # NoProc /\ q # NoProc
  <2>1. Members(pair) \subseteq Proc
    BY PairProcs DEF Pairs
  <2>. QED
    BY <2>1, PairsDisjoint, MutexPair, CPOrRes DEF Pairs, Members, PairMutexes
<1>2. /\ \A m \in {m1, m2} : owner[m] \in {p, q, NoProc} /\ R(m) \subseteq {p, q}
      /\ \A m \in {m1, m2} : blocked[m] \in Seq(Proc) /\ Once(blocked[m])
      /\ \A m \in {m1, m2} : \A x \in R(m) : owner[m] \notin {NoProc, x}
      /\ R(m1) \intersect R(m2) = {}
  <2>1. /\ \A m \in Mutex : owner[m] \in Members(m[1]) \union {NoProc}
        /\ \A m \in Mutex : Range(blocked[m]) \subseteq Members(m[1])
    BY DEF PairsOK, OwnLocksOnly
  <2>2. \A m \in Mutex : m[1] \in ResPairs =>
           \A x \in Range(blocked[m]) : owner[m] \notin {NoProc, x}
    BY DEF LegalOK, ResBlockedOnAnother
  <2>3. DOMAIN blocked = Mutex /\ Apart(blocked) /\ \A m \in Mutex : blocked[m] \in Seq(Proc)
    BY LockFamilies
  <2>. QED
    BY <1>1, <2>1, <2>2, <2>3 DEF Apart
<1>3. \A x : \A m \in {m1, m2} : R(m) = {x} => blocked[m] = <<x>>
  <2> SUFFICES ASSUME NEW x, NEW m \in {m1, m2}, R(m) = {x} PROVE blocked[m] = <<x>>
    OBVIOUS
  <2>1. blocked[m] \in Seq(Proc) /\ Once(blocked[m])
    BY <1>2
  <2>2. Len(blocked[m]) = Cardinality({x})
    BY <2>1, OnceLength
  <2>3. Len(blocked[m]) = 1
    BY <2>2, FS_Singleton
  <2>4. blocked[m][1] \in R(m)
    BY <2>1, <2>3 DEF Range
  <2>. QED
    BY <2>1, <2>3, <2>4
<1>4. \A m \in {m1, m2} : R(m) = {} => blocked[m] = <<>>
  BY <1>2, EmptyQueue
<1>5. EdgeCount(pair, owner, blocked) = E(m1, p) + E(m1, q) + E(m2, p) + E(m2, q)
  BY PairsDisjoint, EdgeCountIs DEF Pairs
<1>6. Stuck(pair, owner, blocked) <=>
         /\ \E m, n \in {m1, m2} : owner[m] = p /\ p \in R(n)
         /\ \E m, n \in {m1, m2} : owner[m] = q /\ q \in R(n)
  BY <1>1 DEF Stuck
<1>7. LegalLocks(pair, owner, blocked, NoProc) <=>
         /\ \A m \in {m1, m2} : \/ owner[m] \in {NoProc, p, q} /\ blocked[m] = <<>>
                                \/ owner[m] = p /\ blocked[m] = <<q>>
                                \/ owner[m] = q /\ blocked[m] = <<p>>
         /\ \A m, n \in {m1, m2} : m # n /\ blocked[m] # <<>> => blocked[m] # blocked[n]
  BY <1>1 DEF LegalLocks
<1> HIDE DEF m1, m2, p, q
<1>8. LegalLocks(pair, owner, blocked, NoProc)
  <2>1. ASSUME NEW m \in {m1, m2}
        PROVE  \/ owner[m] \in {NoProc, p, q} /\ R(m) = {}
               \/ owner[m] = p /\ R(m) = {q}
               \/ owner[m] = q /\ R(m) = {p}
    BY <1>1, <1>2
  <2>2. \A m \in {m1, m2} : R(m) = {} <=> blocked[m] = <<>>
    BY <1>4, EmptyQueue
  <2>3. \A m, n \in {m1, m2} : m # n /\ blocked[m] # <<>> => blocked[m] # blocked[n]
    BY <1>2, <2>2
  <2> HIDE DEF R
  <2>4. ASSUME NEW m \in {m1, m2}
        PROVE  \/ owner[m] \in {NoProc, p, q} /\ blocked[m] = <<>>
               \/ owner[m] = p /\ blocked[m] = <<q>>
               \/ owner[m] = q /\ blocked[m] = <<p>>
    BY <1>3, <2>1, <2>2
  <2>. QED
    BY <1>7, <2>3, <2>4
<1> HIDE DEF R
<1>9. EdgeCount(pair, owner, blocked) = 4 => Stuck(pair, owner, blocked)
  <2>1. ASSUME EdgeCount(pair, owner, blocked) = 4
        PROVE  /\ p \in R(m1) \/ p \in R(m2)
               /\ q \in R(m1) \/ q \in R(m2)
    BY <1>1, <1>2, <1>5, <2>1
  <2>. QED
    BY <1>1, <1>2, <1>6, <2>1
<1>10. Stuck(pair, owner, blocked) => EdgeCount(pair, owner, blocked) = 4
  <2>1. ASSUME Stuck(pair, owner, blocked)
        PROVE  \/ /\ owner[m1] = p /\ owner[m2] = q /\ q \in R(m1) /\ p \in R(m2)
                  /\ p \notin R(m1) /\ q \notin R(m2)
               \/ /\ owner[m1] = q /\ owner[m2] = p /\ p \in R(m1) /\ q \in R(m2)
                  /\ q \notin R(m1) /\ p \notin R(m2)
    BY <1>1, <1>2, <1>6, <2>1
  <2>. QED
    BY <1>1, <1>5, <2>1
<1>. QED
  BY <1>8, <1>9, <1>10

\* The service routines leave the locks of a resource pair as the monitor
\* takes them to be, whenever it looks at them (lock_tsr, unlock_tsr).
THEOREM LocksStayLegal == Spec => []LocksAreLegal
<1>1. Inv /\ PlacesOK /\ PairsOK /\ LegalOK => LocksAreLegal
  BY LegalLocksOf DEF LocksAreLegal
<1>. QED
  BY <1>1, Invariance, PlacesAreKept, PairsAreKept, LegalIsKept, PTL

\* The four edges that Deadlock_Monitor counts are a cycle, and a cycle has
\* four edges: a pair is destructed only if it is stuck.
THEOREM FourEdgesAreACycle == Spec => []FourEdgesMeanStuck
<1>1. Inv /\ PlacesOK /\ PairsOK /\ LegalOK => FourEdgesMeanStuck
  BY LegalLocksOf DEF FourEdgesMeanStuck
<1>. QED
  BY <1>1, Invariance, PlacesAreKept, PairsAreKept, LegalIsKept, PTL

\* total_blocked and total_waiting are what the queues hold, whatever the
\* lock, unlock, wait and signal routines and the monitor did to them.
THEOREM CountersAreExact == Spec => []CountersExact
<1>1. Inv /\ PlacesOK /\ LegalOK => CountersExact
  <2> SUFFICES ASSUME Inv, PlacesOK, LegalOK PROVE CountersExact
    OBVIOUS
  <2>1. /\ blocked \in [Mutex -> Seq(Proc)] /\ waiting \in [Cond -> Seq(Proc)]
        /\ Apart(blocked) /\ Apart(waiting)
    BY LockFamilies
  <2>2. IsFiniteSet(Proc) /\ IsFiniteSet(Mutex) /\ IsFiniteSet(Cond)
    BY ProcFinite
  <2>3. Cardinality({e \in Mutex \X Proc : e[2] \in Range(blocked[e[1]])})
           = Cardinality(Held(blocked))
    BY <2>1, <2>2, HeldCount
  <2>4. Cardinality({e \in Cond \X Proc : e[2] \in Range(waiting[e[1]])})
           = Cardinality(Held(waiting))
    BY <2>1, <2>2, HeldCount
  <2>. QED
    BY <2>3, <2>4 DEF CountersExact, LegalOK, QueuesCounted
<1>. QED
  BY <1>1, Invariance, PlacesAreKept, LegalIsKept, PTL

-----------------------------------------------------------------------------
(***************************************************************************)
(* The programs of the pairs: where a process locks, waits, signals and    *)
(* unlocks.                                                                *)
(***************************************************************************)

\* A CP pair has one mutex, a resource pair two.
LEMMA MutexOfPair ==
    ASSUME NEW m \in Mutex, NEW p \in Members(m[1])
    PROVE  /\ m[1] = PairOf(p) /\ p \in Proc
           /\ \/ /\ m[1] \in CPPairs /\ m[1] \notin ResPairs
                 /\ p \in CPProcs /\ p \notin ResProcs /\ m = <<m[1], "mutex">>
              \/ /\ m[1] \in ResPairs /\ m[1] \notin CPPairs
                 /\ p \in ResProcs /\ p \notin CPProcs
                 /\ m \in {<<m[1], "mutex_1">>, <<m[1], "mutex_2">>}
<1>1. m[1] \in Pairs /\ p \in Members(m[1])
  BY MutexPair
<1>2. PairOf(p) \in Pairs /\ p \in Members(PairOf(p))
  BY <1>1 DEF PairOf
<1>3. m[1] = PairOf(p)
  BY <1>1, <1>2, OnlyPair
<1>4. p \in Proc
  BY <1>1, PairProcs
<1>5. CASE m[1] \in CPPairs
  <2>1. m = <<m[1], "mutex">>
    BY <1>5, CPOrRes DEF Mutex
  <2>2. p \in CPProcs
    BY <1>5 DEF CPProcs
  <2>. QED
    BY <1>3, <1>4, <1>5, <2>1, <2>2, CPOrRes, ProcessesDistinct
<1>6. CASE m[1] \in ResPairs
  <2>1. m \in {<<m[1], "mutex_1">>, <<m[1], "mutex_2">>}
    BY <1>6, CPOrRes DEF Mutex
  <2>2. p \in ResProcs
    BY <1>6 DEF ResProcs
  <2>. QED
    BY <1>3, <1>4, <1>6, <2>1, <2>2, CPOrRes, ProcessesDistinct
<1>. QED
  BY <1>1, <1>5, <1>6 DEF Pairs

LEMMA Program ==
    ASSUME NEW m \in Mutex, NEW p \in Members(m[1]), NEW c \in Nat
    PROVE  LET op == IsAtSyncro(p, c)
           IN  /\ LockPC(p, m) \in Nat /\ UnlockPC(p, m) \in Nat
               /\ 0 < LockPC(p, m) /\ LockPC(p, m) < UnlockPC(p, m)
               /\ c = LockPC(p, m) <=> op \in LockOps /\ MutexOf(p, op) = m
               /\ c = UnlockPC(p, m) <=> op \in UnlockOps /\ MutexOf(p, op) = m
               /\ op \in {"WAIT_RESOURCE_1", "SIGNAL_RESOURCE_1"} =>
                     /\ m[2] = "mutex" /\ MutexOf(p, op) = m
                     /\ LockPC(p, m) < c /\ c < UnlockPC(p, m)
               /\ m[2] = "mutex" =>
                     /\ op = "WAIT_RESOURCE_1" <=> c = CP_WAIT_PC
                     /\ LockPC(p, m) < CP_WAIT_PC /\ CP_WAIT_PC < UnlockPC(p, m)
<1> DEFINE op == IsAtSyncro(p, c)
<1>1. m[1] = PairOf(p)
  BY MutexOfPair
<1>2. CASE m[1] \in CPPairs
  <2>1. p \in CPProcs /\ p \notin ResProcs /\ m = <<PairOf(p), "mutex">>
    BY <1>1, <1>2, MutexOfPair
  <2>2. op = CPService(c) /\ MutexOf(p, op) = m
    <3>1. op = CPService(c)
      BY <2>1 DEF IsAtSyncro
    <3>2. \A o : MutexOf(p, o) = m
      BY <2>1 DEF MutexOf
    <3>. QED
      BY <3>1, <3>2
  <2>3. m[2] = "mutex"
    BY <2>1
  <2>4. LockPC(p, m) = CP_LOCK_PC /\ UnlockPC(p, m) = CP_UNLOCK_PC
    BY <2>3 DEF LockPC, UnlockPC
  <2>5. /\ {CP_LOCK_PC, CP_WAIT_PC, CP_SIGNAL_PC, CP_UNLOCK_PC} \subseteq Nat
        /\ 0 < CP_LOCK_PC /\ CP_LOCK_PC < CP_WAIT_PC /\ CP_WAIT_PC < CP_SIGNAL_PC
        /\ CP_SIGNAL_PC < CP_UNLOCK_PC
    BY FirstLock, SyncroPrograms
  <2>6. /\ op \in LockOps <=> c = CP_LOCK_PC
        /\ op \in UnlockOps <=> c = CP_UNLOCK_PC
        /\ op = "WAIT_RESOURCE_1" <=> c = CP_WAIT_PC
        /\ op = "SIGNAL_RESOURCE_1" <=> c = CP_SIGNAL_PC
    BY <2>2, <2>5 DEF CPService, LockOps, UnlockOps
  <2> HIDE DEF op
  <2>. QED
    BY <2>2, <2>3, <2>4, <2>5, <2>6 DEF op
<1>3. CASE m[1] \in ResPairs
  <2> DEFINE sw == Swapped(p)
  <2>1. /\ p \in ResProcs /\ p \notin CPProcs
        /\ m \in {<<PairOf(p), "mutex_1">>, <<PairOf(p), "mutex_2">>}
    BY <1>1, <1>3, MutexOfPair
  <2>2. /\ op = ResService(c, sw)
        /\ MutexOf(p, op) = IF op \in {"LOCK_RESOURCE_1", "UNLOCK_RESOURCE_1"}
                            THEN <<PairOf(p), "mutex_1">> ELSE <<PairOf(p), "mutex_2">>
    BY <2>1 DEF IsAtSyncro, MutexOf
  <2>3. /\ {RES_LOCK1_PC, RES_LOCK2_PC, RES_UNLOCK2_PC, RES_UNLOCK1_PC} \subseteq Nat
        /\ 0 < RES_LOCK1_PC /\ RES_LOCK1_PC < RES_LOCK2_PC /\ RES_LOCK2_PC < RES_UNLOCK2_PC
        /\ RES_UNLOCK2_PC < RES_UNLOCK1_PC
    BY FirstLock, SyncroPrograms
  <2>4. /\ op \in LockOps <=> c \in {RES_LOCK1_PC, RES_LOCK2_PC}
        /\ op \in UnlockOps <=> c \in {RES_UNLOCK1_PC, RES_UNLOCK2_PC}
        /\ op \notin {"WAIT_RESOURCE_1", "SIGNAL_RESOURCE_1"}
        /\ c = RES_LOCK1_PC => op = IF sw THEN "LOCK_RESOURCE_2" ELSE "LOCK_RESOURCE_1"
        /\ c = RES_LOCK2_PC => op = IF sw THEN "LOCK_RESOURCE_1" ELSE "LOCK_RESOURCE_2"
        /\ c = RES_UNLOCK2_PC => op = IF sw THEN "UNLOCK_RESOURCE_1" ELSE "UNLOCK_RESOURCE_2"
        /\ c = RES_UNLOCK1_PC => op = IF sw THEN "UNLOCK_RESOURCE_2" ELSE "UNLOCK_RESOURCE_1"
    BY <2>2, <2>3 DEF ResService, LockOps, UnlockOps
  <2>5. m[2] \in {"mutex_1", "mutex_2"} /\ (m[2] = "mutex_1" <=> m = <<PairOf(p), "mutex_1">>)
        /\ (m[2] = "mutex_2" <=> m = <<PairOf(p), "mutex_2">>)
    BY <2>1
  <2> HIDE DEF op
  <2> HIDE DEF sw
  <2>6. CASE m[2] = "mutex_1" <=> sw
    <3>0. (m[2] = "mutex_1") = sw
      BY <2>6 DEF sw, Swapped
    <3>1. LockPC(p, m) = RES_LOCK2_PC /\ UnlockPC(p, m) = RES_UNLOCK2_PC
      BY <2>5, <3>0 DEF LockPC, UnlockPC, sw
    <3>2. c = RES_LOCK2_PC => MutexOf(p, op) = m
      BY <2>2, <2>4, <2>5, <2>6
    <3>3. c = RES_LOCK1_PC => MutexOf(p, op) # m
      BY <2>2, <2>4, <2>5, <2>6
    <3>4. c = RES_UNLOCK2_PC => MutexOf(p, op) = m
      BY <2>2, <2>4, <2>5, <2>6
    <3>5. c = RES_UNLOCK1_PC => MutexOf(p, op) # m
      BY <2>2, <2>4, <2>5, <2>6
    <3>. QED
      BY <2>3, <2>4, <2>5, <3>1, <3>2, <3>3, <3>4, <3>5 DEF op
  <2>7. CASE m[2] = "mutex_2" <=> sw
    <3>0. (m[2] = "mutex_1") # sw
      BY <2>5, <2>7 DEF sw, Swapped
    <3>1. LockPC(p, m) = RES_LOCK1_PC /\ UnlockPC(p, m) = RES_UNLOCK1_PC
      BY <2>5, <3>0 DEF LockPC, UnlockPC, sw
    <3>2. c = RES_LOCK1_PC => MutexOf(p, op) = m
      BY <2>2, <2>4, <2>5, <2>7
    <3>3. c = RES_LOCK2_PC => MutexOf(p, op) # m
      BY <2>2, <2>4, <2>5, <2>7
    <3>4. c = RES_UNLOCK1_PC => MutexOf(p, op) = m
      BY <2>2, <2>4, <2>5, <2>7
    <3>5. c = RES_UNLOCK2_PC => MutexOf(p, op) # m
      BY <2>2, <2>4, <2>5, <2>7
    <3>. QED
      BY <2>3, <2>4, <2>5, <3>1, <3>2, <3>3, <3>4, <3>5 DEF op
  <2>. QED
    BY <2>5, <2>6, <2>7
<1>. QED
  BY <1>2, <1>3, MutexPair DEF Pairs

\* The next PC of a process comes after its lock of a mutex only from the
\* lock on, and after its unlock only from the unlock on.
LEMMA NextDue ==
    ASSUME NEW m \in Mutex, NEW p \in Members(m[1]), NEW c \in Nat
    PROVE  LET n == NextPC(p, c)
               d == IF SkipsWait(p, n) THEN n + 1 ELSE n
           IN  /\ d \in Nat
               /\ LockPC(p, m) < d /\ d <= UnlockPC(p, m) =>
                     LockPC(p, m) <= c /\ c < UnlockPC(p, m)
               /\ c < UnlockPC(p, m) => d <= UnlockPC(p, m)
<1> DEFINE n == NextPC(p, c)
           d == IF SkipsWait(p, n) THEN n + 1 ELSE n
           l == LockPC(p, m)
           u == UnlockPC(p, m)
<1>1. l \in Nat /\ u \in Nat /\ l < u
  BY Program
<1>2. n \in {0, c + 1}
  BY DEF NextPC
<1>3. SkipsWait(p, n) => /\ n = CP_WAIT_PC /\ l = CP_LOCK_PC /\ u = CP_UNLOCK_PC
                         /\ CP_LOCK_PC \in Nat /\ CP_WAIT_PC \in Nat /\ CP_UNLOCK_PC \in Nat
                         /\ CP_LOCK_PC < CP_WAIT_PC /\ CP_WAIT_PC + 1 < CP_UNLOCK_PC
  <2>1. SkipsWait(p, n) => n = CP_WAIT_PC /\ p \in CPProcs
    BY DEF SkipsWait
  <2>2. p \in CPProcs => m[2] = "mutex"
    BY MutexOfPair
  <2>. QED
    BY <2>1, <2>2, SyncroPrograms DEF LockPC, UnlockPC
<1> HIDE DEF n, l, u
<1>4. SkipsWait(p, n) => d = n + 1
  OBVIOUS
<1>5. ~SkipsWait(p, n) => d = n
  OBVIOUS
<1> HIDE DEF d
<1>6. d \in Nat /\ (l < d /\ d <= u => l <= c /\ c < u) /\ (c < u => d <= u)
  BY <1>1, <1>2, <1>3, <1>4, <1>5
<1>. QED
  BY <1>6 DEF n, d, l, u

-----------------------------------------------------------------------------
(***************************************************************************)
(* What a step does to the instruction and to the PC of a process.  Rest   *)
(* are the steps that are about no lock and in which no process executes   *)
(* or is looked at for a trap.                                             *)
(***************************************************************************)
Rest == CreationDone \/ Interrupts \/ FinishTermination \/ FinishIOTrap \/ UNCHANGED vars

LEMMA RestKeeps ==
    ASSUME Inv, PlacesOK, EndsAtZero, Rest
    PROVE  /\ \A p \in Proc \ {Idle} :
                 /\ step'[p] = step[p]
                 /\ CPU(p)' = CPU(p) \/ (p = running /\ svc' = NoSvc /\ CPU(p)' = 0)
           /\ laps' = laps
           /\ svc' = svc \/ (svc' = NoSvc /\ svc.op \notin SyncOps)
<1>1. running \in Proc /\ pc \in [Proc -> Nat] /\ step \in [Proc -> StepStates]
  BY DEF Inv, TypeOK
<1>2. {"PCB_TERMINATED"} \intersect SyncOps = {} /\ IOTraps \intersect SyncOps = {}
  BY DEF SyncOps, LockOps, UnlockOps, IOTraps
<1>3. /\ laps' = laps
      /\ svc' = svc \/ (svc' = NoSvc /\ svc.op \notin SyncOps)
      /\ \A p \in Proc \ {Idle} : step'[p] = step[p]
  <2>1. CASE CreationDone
    BY <2>1 DEF CreationDone, pcbVars
  <2>2. CASE Interrupts
    BY <2>2, InterruptsLeaveService
  <2>3. CASE FinishTermination
    <3>1. Serve({"PCB_TERMINATED"}) /\ Dispatcher(state, Head(sysStack))
      BY <2>3 DEF FinishTermination
    <3>2. laps' = laps /\ svc' = NoSvc /\ svc.op \notin SyncOps
      BY <1>2, <3>1 DEF Serve
    <3>. QED
      BY <1>1, <3>1, <3>2 DEF Dispatcher, TakeNext
  <2>4. CASE FinishIOTrap
    <3>1. Serve(IOTraps) /\ TakeNextIfRunning(P, ReadyAfterNew, state, TrapPC)
      BY <2>4 DEF FinishIOTrap
    <3>2. laps' = laps /\ svc' = NoSvc /\ svc.op \notin SyncOps
      BY <1>2, <3>1 DEF Serve
    <3>. QED
      BY <1>1, <3>1, <3>2 DEF TakeNextIfRunning, TakeNext, KeepRunning
  <2>5. CASE UNCHANGED vars
    BY <2>5 DEF vars, pcbVars
  <2>. QED
    BY <2>1, <2>2, <2>3, <2>4, <2>5 DEF Rest
<1>4. ASSUME NEW p \in Proc \ {Idle}
      PROVE  CPU(p)' = CPU(p) \/ (p = running /\ svc' = NoSvc /\ CPU(p)' = 0)
  <2>1. CASE UNCHANGED vars
    BY <2>1 DEF vars, cpuVars, pcbVars, CPU
  <2>2. CASE Next /\ LateTermination /\ p = running
    <3>1. /\ Serve({"PCB_TERMINATED"}) /\ IRET /\ running # P /\ FinishTermination
      BY <2>2 DEF LateTermination, FinishTermination, P
    <3>2. svc' = NoSvc /\ P \in Proc /\ svc.op = "PCB_TERMINATED" /\ ServiceExists(P, svc.op)
      BY <3>1, ServeContext DEF Serve
    <3>3. P \in IOProcs \union CompProcs
      BY <3>2 DEF ServiceExists, IOTraps, LockOps, UnlockOps
    <3>4. CPU(P) = 0 /\ CPU(P) = pc[P]
      BY <3>1, <3>2, <3>3 DEF EndsAtZero, CPU
    <3>5. pc'[p] = pc[P]
      BY <2>2, <3>1, FinishTerminationInv
    <3>. QED
      BY <2>2, <3>1, <3>2, <3>4, <3>5 DEF CPU, IRET
  <2>3. CASE Next /\ ~(LateTermination /\ p = running)
    <3>1. Rest => at # "step" \/ UNCHANGED vars
      BY DEF Rest, CreationDone, Interrupts, NoTimerInterrupt, PseudoISR, NoIOInterrupt,
         IOInterrupt, IOReturn, FinishTermination, FinishIOTrap, Serve
    <3>. QED
      BY <2>1, <2>3, <3>1, StepContext
  <2>4. Rest => Next \/ UNCHANGED vars
    BY DEF Rest, Next, Creation, FinishService
  <2>. QED
    BY <2>1, <2>2, <2>3, <2>4
<1>. QED
  BY <1>3, <1>4

LEMMA ServiceKeeps ==
    ASSUME Inv, PlacesOK, FinishService, svc.op \in SyncOps
    PROVE  /\ \A p \in Proc \ {Idle} : step'[p] = step[p] /\ CPU(p)' = CPU(p)
           /\ UNCHANGED <<laps, ioActive>> /\ svc' = NoSvc /\ at' = "step"
<1>1. "PCB_TERMINATED" \notin SyncOps /\ IOTraps \intersect SyncOps = {}
  BY DEF SyncOps, LockOps, UnlockOps, IOTraps
<1>2. ~FinishTermination /\ ~FinishIOTrap
  BY <1>1 DEF FinishTermination, FinishIOTrap, Serve
<1>3. laps' = laps /\ svc' = NoSvc /\ at' = "step" /\ at = "serve"
  BY DEF FinishService, FinishTermination, FinishIOTrap, LockGranted, LockBlocks, UnlockFree,
     UnlockHandsOver, Wait, SignalNobody, SignalWakes, Serve
<1>4. running \in Proc /\ step \in [Proc -> StepStates]
  BY DEF Inv, TypeOK
<1>5. ioActive' = ioActive /\ \A p \in Proc \ {Idle} : step'[p] = step[p]
  <2>1. CASE LockGranted \/ UnlockFree \/ SignalNobody
    BY <2>1 DEF LockGranted, UnlockFree, SignalNobody, NoScheduler
  <2>2. CASE LockBlocks
    BY <1>4, <2>2 DEF LockBlocks, TakeNextIfRunning, TakeNext, KeepRunning
  <2>3. CASE UnlockHandsOver
    BY <2>3 DEF UnlockHandsOver, KeepRunning
  <2>4. CASE Wait
    BY <1>4, <2>4 DEF Wait, TakeNextIfRunning, TakeNext, KeepRunning
  <2>5. CASE SignalWakes
    BY <2>5 DEF SignalWakes, KeepRunning
  <2>. QED
    BY <1>2, <2>1, <2>2, <2>3, <2>4, <2>5 DEF FinishService
<1>6. \A p \in Proc \ {Idle} : CPU(p)' = CPU(p)
  <2>1. ~LateTermination
    BY <1>2 DEF LateTermination
  <2>. QED
    BY <1>3, <2>1, StepContext DEF Next
<1>. QED
  BY <1>3, <1>5, <1>6

LEMMA Member ==
    ASSUME NEW m \in Mutex, NEW p \in Members(m[1])
    PROVE  /\ p \in Proc \ {Idle} /\ p # NoProc /\ p \notin IOProcs \union CompProcs
           /\ m[1] \in Pairs
<1>1. m[1] \in Pairs
  BY MutexPair
<1>. QED
  BY <1>1, PairProcs, CPOrRes

\* A trap is looked at again only by the grace of IO_check.
LEMMA NextTrapIsNew ==
    ASSUME NoTrapAgain, Inv, PlacesOK, LocksOK, [Next]_vars
    PROVE  TrapIsNew'
<1>1. /\ TrapIsNew /\ running \in Proc /\ dev \in Dev
      /\ step \in [Proc -> StepStates] /\ ioActive \in [Dev -> BOOLEAN]
  BY DEF LocksOK, Inv, TypeOK
<1> DEFINE None(a) == \A d \in Dev : ~a[d]
<1>2. ASSUME IOProcs = {}
      PROVE  /\ None(ioActive) /\ at \notin {"irq", "iret"}
             /\ at \in {"create", "timer", "io"} /\ svc = NoSvc => step[running] # "FINISHED"
             /\ ~FinishIOTrap
  <2>1. None(ioActive) /\ at \notin {"irq", "iret"}
    BY <1>1, <1>2 DEF TrapIsNew, Inv, ControlOK
  <2>2. ~FinishIOTrap
    <3> SUFFICES ASSUME FinishIOTrap PROVE FALSE
      OBVIOUS
    <3>1. Serve(IOTraps)
      BY DEF FinishIOTrap
    <3>2. svc.op \in IOTraps /\ ServiceExists(P, svc.op)
      BY <3>1, ServeContext
    <3>. QED
      BY <1>2, <3>2 DEF ServiceExists, IOTraps, LockOps, UnlockOps
  <2>. QED
    BY <1>1, <1>2, <2>1, <2>2 DEF TrapIsNew
<1>3. SUFFICES /\ at' = "trap" => step'[running'] # "FINISHED"
               /\ IOProcs = {} => None(ioActive')
               /\ IOProcs = {} /\ at' \in {"create", "timer", "io"} /\ svc' = NoSvc
                     => step'[running'] # "FINISHED"
  BY DEF TrapIsNew
<1>4. CASE UNCHANGED vars
  BY <1>1, <1>2, <1>4 DEF TrapIsNew, vars, cpuVars, pcbVars
<1>5. CASE Creates
  <2>1. \E ps \in Seq(Proc) : Enter(ps)
    BY <1>5, CreationSeen DEF Creates
  <2>2. UNCHANGED <<at, svc, running, step, ioActive>> /\ at \in {"boot", "create"}
    BY <2>1 DEF Enter, cpuVars
  <2>. QED
    BY <1>2, <2>2
<1>6. CASE CreationDone
  <2>1. /\ at \in {"boot", "create"} /\ at' = IF at = "boot" THEN "step" ELSE "timer"
        /\ UNCHANGED <<svc, running, step, ioActive>>
    BY <1>6 DEF CreationDone, cpuVars, pcbVars
  <2>. QED
    BY <1>2, <2>1
<1>7. CASE SimulateProgramStep
  <2>1. /\ at' \in {"timer", "create"} /\ UNCHANGED <<running, ioActive>>
        /\ step'[running] = "UNFINISHED"
    BY <1>1, <1>7 DEF SimulateProgramStep
  <2>. QED
    BY <1>2, <2>1
<1>8. CASE NoTimerInterrupt
  <2>1. at \in {"timer", "irq"} /\ UNCHANGED <<svc, running, step, ioActive>>
    BY <1>8 DEF NoTimerInterrupt, cpuVars, pcbVars
  <2>2. at' = IF at = "irq" THEN "iret" ELSE "io"
    BY <1>8 DEF NoTimerInterrupt, AfterTimer
  <2>. QED
    BY <1>2, <2>1, <2>2
<1>9. CASE PseudoISR
  <2>1. at \in {"timer", "irq"} /\ AfterTimer(TRUE) /\ UNCHANGED <<svc, ioActive>>
    BY <1>9 DEF PseudoISR
  <2>2. /\ at = "irq" => at' = "iret"
        /\ at = "timer" /\ svc = NoSvc /\ step'[running'] = "FINISHED" => at' = "step"
        /\ at' # "trap"
    BY <2>1 DEF AfterTimer
  <2>. QED
    BY <1>2, <2>1, <2>2
<1>10. CASE NoIOInterrupt \/ IOReturn
  <2>1. /\ AfterDevice /\ UNCHANGED <<svc, running, step>>
        /\ NoIOInterrupt => at = "io" /\ ioActive' = ioActive
        /\ IOReturn => at = "iret"
    BY <1>10 DEF NoIOInterrupt, IOReturn, KeepRunning, cpuVars, pcbVars
  <2>2. IOProcs = {} => at = "io" /\ ioActive' = ioActive
    BY <1>2, <1>10, <2>1
  <2>3. IOProcs = {} /\ svc = NoSvc => step[running] # "FINISHED"
    BY <1>2, <2>2
  <2>4. ASSUME at' = "trap" PROVE step[running] # "FINISHED"
    <3>1. svc = NoSvc
      BY <2>1, <2>4 DEF AfterDevice
    <3>2. PICK replaced \in IOCheckReturns : ~(replaced /\ step[running] = "FINISHED")
      BY <2>1, <2>4 DEF AfterDevice
    <3>3. CASE IOCheckReturns = {TRUE}
      <4>1. replaced = TRUE
        BY <3>3
      <4>. QED
        BY <3>2, <4>1
    <3>. QED
      BY <2>3, <3>1, <3>3 DEF NoTrapAgain
  <2>. QED
    BY <1>2, <2>1, <2>2, <2>3, <2>4
<1>11. CASE \E d \in Dev : IOInterrupt(d)
  BY <1>2, <1>11 DEF IOInterrupt
<1>12. CASE NoTrap
  BY <1>2, <1>12 DEF NoTrap
<1>13. CASE EnterService /\ ~NoTrap
  <2>1. \E ops, st : EnterTSR(ops, st)
    BY <1>13 DEF EnterService, EnterTermination, EnterIOTrap, EnterLock, EnterUnlock, EnterWait,
       EnterSignal
  <2>2. at' = "timer" /\ svc'.proc = running /\ ioActive' = ioActive
    BY <2>1 DEF EnterTSR
  <2>3. svc' # NoSvc
    BY <1>1, <2>2, CPOrRes DEF NoSvc
  <2>. QED
    BY <1>2, <2>2, <2>3
<1>14. CASE FinishService
  <2>1. at' = "step"
    BY <1>14 DEF FinishService, FinishTermination, FinishIOTrap, LockGranted, LockBlocks,
       UnlockFree, UnlockHandsOver, Wait, SignalNobody, SignalWakes, Serve
  <2>2. ~FinishIOTrap => ioActive' = ioActive
    BY <1>14, TerminationLeavesDevices DEF FinishService, LockGranted, LockBlocks,
       UnlockFree, UnlockHandsOver, Wait, SignalNobody, SignalWakes, NoScheduler
  <2>. QED
    BY <1>2, <2>1, <2>2
<1>. QED
  BY <1>4, <1>5, <1>6, <1>7, <1>8, <1>9, <1>10, <1>11, <1>12, <1>13, <1>14
     DEF Next, Creation, Creates, Interrupts

\* What isAtTrap and isAtSyncro tell apart.
LEMMA RequestedIs ==
    /\ running \notin IOProcs \union CompProcs =>
          Requested = IsAtSyncro(running, currentPC)
    /\ Requested = "PCB_TERMINATED" <=>
          running \in IOProcs \union CompProcs /\ Terminate[running] <= laps[running]
    /\ Requested # "NONE" => ServiceExists(running, Requested)
<1>1. IsAtSyncro(running, currentPC) # "PCB_TERMINATED"
  BY DEF IsAtSyncro, CPService, ResService
<1>2. IsAtTrap(running, currentPC, laps[running]) = "PCB_TERMINATED" <=>
         running \in IOProcs \union CompProcs /\ Terminate[running] <= laps[running]
  BY UserPrograms DEF IsAtTrap
<1>3. running \notin IOProcs \union CompProcs =>
         IsAtTrap(running, currentPC, laps[running]) = "NONE"
  BY DEF IsAtTrap
<1>4. Requested # "NONE" => ServiceExists(running, Requested)
  BY RequestedExists DEF Requested
<1>. QED
  BY <1>1, <1>2, <1>3, <1>4 DEF Requested

LEMMA ProgramStep ==
    ASSUME Inv, SimulateProgramStep
    PROVE  /\ svc = NoSvc /\ CPU(running) = currentPC /\ currentPC \in Nat
           /\ UNCHANGED <<svc, owner, blocked, waiting, pairs, state, running>>
           /\ \A p \in Proc \ {running} :
                 CPU(p)' = CPU(p) /\ step'[p] = step[p] /\ laps'[p] = laps[p]
           /\ \/ /\ step[running] = "UNFINISHED" /\ step'[running] = "UNFINISHED"
                 /\ CPU(running)' = CPU(running) /\ laps'[running] = laps[running]
              \/ /\ step[running] # "UNFINISHED" /\ step'[running] = "UNFINISHED"
                 /\ CPU(running)' = LET c == NextPC(running, currentPC)
                                    IN  IF SkipsWait(running, c) THEN c + 1 ELSE c
                 /\ laps'[running] = NextLaps(running, currentPC)
<1>1. /\ running \in Proc /\ currentPC \in Nat
      /\ step \in [Proc -> StepStates] /\ laps \in [Proc -> Nat] /\ svc = NoSvc
  BY DEF SimulateProgramStep, Inv, TypeOK, ControlOK
<1>2. UNCHANGED <<svc, owner, blocked, waiting, pairs, state, running, pc>>
  BY DEF SimulateProgramStep, lockVars
<1>3. CASE step[running] = "UNFINISHED"
  <2>1. UNCHANGED <<currentPC, step, laps>>
    BY <1>3 DEF SimulateProgramStep
  <2>. QED
    BY <1>1, <1>2, <1>3, <2>1 DEF CPU
<1>4. CASE step[running] # "UNFINISHED"
  <2>1. /\ step' = [step EXCEPT ![running] = "UNFINISHED"]
        /\ currentPC' = LET c == NextPC(running, currentPC)
                        IN  IF SkipsWait(running, c) THEN c + 1 ELSE c
        /\ laps' = [laps EXCEPT ![running] = NextLaps(running, currentPC)]
    BY <1>4 DEF SimulateProgramStep
  <2>2. /\ step'[running] = "UNFINISHED" /\ laps'[running] = NextLaps(running, currentPC)
        /\ \A p \in Proc \ {running} : step'[p] = step[p] /\ laps'[p] = laps[p]
    BY <1>1, <2>1
  <2>. QED
    BY <1>1, <1>2, <1>4, <2>1, <2>2 DEF CPU
<1>. QED
  BY <1>3, <1>4

LEMMA TrapStep ==
    ASSUME Inv, PlacesOK, EnterService
    PROVE  /\ svc = NoSvc /\ at = "trap" /\ CPU(running) = currentPC
           /\ UNCHANGED <<owner, blocked, waiting, pairs, running, laps>>
           /\ \A p \in Proc : CPU(p)' = CPU(p)
           /\ \A p \in Proc \ {running} : step'[p] = step[p] /\ state'[p] = state[p]
           /\ step'[running] = "FINISHED"
           /\ \/ Requested = "NONE" /\ svc' = NoSvc /\ state' = state
              \/ /\ Requested # "NONE" /\ svc' = [op |-> Requested, proc |-> running]
                 /\ ServiceExists(running, Requested)
                 /\ Requested = "PCB_TERMINATED" => state'[running] = "HALTED"
<1>1. /\ running \in Proc /\ step \in [Proc -> StepStates] /\ pc \in [Proc -> Nat]
      /\ state \in [Proc -> ProcessStates]
  BY DEF Inv, TypeOK
<1>2. CASE NoTrap
  <2>1. /\ at = "trap" /\ Requested = "NONE" /\ step' = [step EXCEPT ![running] = "FINISHED"]
        /\ UNCHANGED <<svc, running, currentPC, state, pc, laps, owner, blocked, waiting, pairs>>
    BY <1>2 DEF NoTrap, cpuVars, lockVars
  <2>2. svc = NoSvc
    BY <2>1 DEF Inv, ControlOK
  <2>. QED
    BY <1>1, <2>1, <2>2 DEF CPU
<1>3. ASSUME NEW ops, NEW st, EnterTSR(ops, st), "NONE" \notin ops,
             "PCB_TERMINATED" \in ops => st = "HALTED"
      PROVE  /\ svc = NoSvc /\ at = "trap" /\ CPU(running) = currentPC
             /\ UNCHANGED <<owner, blocked, waiting, pairs, running, laps>>
             /\ \A p \in Proc : CPU(p)' = CPU(p)
             /\ \A p \in Proc \ {running} : step'[p] = step[p] /\ state'[p] = state[p]
             /\ step'[running] = "FINISHED"
             /\ Requested # "NONE" /\ svc' = [op |-> Requested, proc |-> running]
             /\ Requested = "PCB_TERMINATED" => state'[running] = "HALTED"
  <2>1. /\ at = "trap" /\ Requested \in ops /\ svc' = [op |-> Requested, proc |-> running]
        /\ step' = [step EXCEPT ![running] = "FINISHED"]
        /\ pc' = [pc EXCEPT ![running] = currentPC]
        /\ state' = [state EXCEPT ![running] = st]
        /\ UNCHANGED <<running, currentPC, laps, owner, blocked, waiting, pairs>>
    BY <1>3 DEF EnterTSR, cpuVars, lockVars
  <2>2. svc = NoSvc
    BY <2>1 DEF Inv, ControlOK
  <2> HIDE DEF Requested
  <2>3. \A p \in Proc : CPU(p)' = CPU(p)
    BY <1>1, <2>1 DEF CPU
  <2>4. CPU(running) = currentPC
    BY DEF CPU
  <2>5. /\ \A p \in Proc \ {running} : step'[p] = step[p] /\ state'[p] = state[p]
        /\ step'[running] = "FINISHED" /\ state'[running] = st
    BY <1>1, <2>1
  <2>. QED
    BY <1>3, <2>1, <2>2, <2>3, <2>4, <2>5
<1>4. /\ "NONE" \notin {"PCB_TERMINATED"} /\ "NONE" \notin IOTraps
      /\ "NONE" \notin LockOps /\ "NONE" \notin UnlockOps
      /\ "NONE" \notin {"WAIT_RESOURCE_1"} /\ "NONE" \notin {"SIGNAL_RESOURCE_1"}
      /\ "PCB_TERMINATED" \notin IOTraps /\ "PCB_TERMINATED" \notin LockOps
      /\ "PCB_TERMINATED" \notin UnlockOps /\ "PCB_TERMINATED" \notin {"WAIT_RESOURCE_1"}
      /\ "PCB_TERMINATED" \notin {"SIGNAL_RESOURCE_1"}
  BY DEF IOTraps, LockOps, UnlockOps
<1>5. CASE ~NoTrap
  <2>1. \E ops, st : /\ EnterTSR(ops, st) /\ "NONE" \notin ops
                     /\ "PCB_TERMINATED" \in ops => st = "HALTED"
    BY <1>4, <1>5 DEF EnterService, EnterTermination, EnterIOTrap, EnterLock, EnterUnlock,
       EnterWait, EnterSignal
  <2> HIDE DEF Requested
  <2>. QED
    BY <1>3, <2>1, RequestedIs
<1>. QED
  BY <1>2, <1>5

LEMMA CreationKeeps ==
    ASSUME Inv, PlacesOK, Creates
    PROVE  /\ UNCHANGED <<svc, running, owner, blocked, waiting, step, laps>> /\ svc = NoSvc
           /\ \A p \in Proc : CPU(p)' = CPU(p)
           /\ \A p \in Proc : state'[p] = state[p] \/ (state[p] = "UNBORN" /\ state'[p] = "NEW")
           /\ \A pair \in pairs' \ pairs : \A p \in Members(pair) : state[p] = "UNBORN"
<1>1. PICK ps \in Seq(Proc) :
         /\ Enter(ps)
         /\ \/ pairs' = pairs
            \/ \E pair \in Pairs : Range(ps) = Members(pair) /\ pairs' = pairs \union {pair}
  BY CreationSeen DEF Creates
<1>2. /\ UNCHANGED <<svc, running, owner, blocked, waiting, step, laps, pc, currentPC>>
      /\ at \in {"boot", "create"}
  BY <1>1 DEF Enter, cpuVars
<1>3. svc = NoSvc
  BY <1>2 DEF Inv, ControlOK
<1>4. \A p \in Proc : /\ p \notin Range(ps) => state'[p] = state[p]
                      /\ p \in Range(ps) => state'[p] = "NEW" /\ state[p] = "UNBORN"
  BY <1>1, EnterMoves
<1>5. ASSUME NEW pair \in pairs' \ pairs, NEW p \in Members(pair) PROVE state[p] = "UNBORN"
  <2>1. Range(ps) = Members(pair) /\ pair \in Pairs
    BY <1>1, <1>5
  <2>2. p \in Proc
    BY <2>1, <1>5, PairProcs
  <2>. QED
    BY <1>4, <1>5, <2>1, <2>2
<1>. QED
  BY <1>2, <1>3, <1>4, <1>5 DEF CPU

LEMMA StepKinds ==
    ASSUME Inv, PlacesOK, [Next]_vars
    PROVE  \/ Creates
           \/ /\ SimulateProgramStep \/ EnterService \/ Rest \/ (FinishService /\ svc.op \in SyncOps)
              /\ ~Creates
              /\ \A p \in Proc \ {Idle} :
                    state'[p] \in {"UNBORN", "NEW"} \/ state[p] \in {"UNBORN", "HALTED"}
                       => state'[p] = state[p]
<1>1. CASE ~Creates
  <2>1. \E blk : Moves(blk, Lost)
    BY <1>1, StepIsSeen DEF StepSeen, Creates
  <2>2. FinishService => svc.op \in SyncOps \/ FinishTermination \/ FinishIOTrap
    <3>1. LockOps \subseteq SyncOps /\ UnlockOps \subseteq SyncOps
          /\ {"WAIT_RESOURCE_1", "SIGNAL_RESOURCE_1"} \subseteq SyncOps
      BY DEF SyncOps
    <3>. QED
      BY <3>1 DEF FinishService, LockGranted, LockBlocks, UnlockFree, UnlockHandsOver, Wait,
         SignalNobody, SignalWakes, Serve
  <2>. QED
    BY <1>1, <2>1, <2>2 DEF Moves, Next, Creation, Creates, Rest
<1>. QED
  BY <1>1

LEMMA NextEndsAtZero ==
    ASSUME Inv, PlacesOK, LocksOK, [Next]_vars
    PROVE  EndsAtZero'
<1>1. /\ EndsAtZero /\ running \in Proc /\ laps \in [Proc -> Nat]
      /\ UNCHANGED svc => P' = P
  BY DEF LocksOK, Inv, TypeOK, P
<1>2. \A p \in IOProcs \union CompProcs : p \in Proc \ {Idle} /\ Terminate[p] \in Nat
  BY ProcessesDistinct, UserPrograms DEF Proc
<1>3. svc.op = "PCB_TERMINATED" => P \in IOProcs \union CompProcs
  <2>1. svc # NoSvc => ServiceExists(P, svc.op)
    BY DEF Inv, ControlOK, P
  <2>. QED
    BY <2>1, NoSvcNoLock DEF ServiceExists, IOTraps, LockOps, UnlockOps
<1>4. ASSUME laps' = laps, svc' = svc \/ svc' = NoSvc,
             \A p \in Proc \ {Idle} : /\ step'[p] = step[p]
                                      /\ CPU(p)' = CPU(p) \/ CPU(p)' = 0
                                      /\ state[p] = "HALTED" => state'[p] = "HALTED"
      PROVE  EndsAtZero'
  <2>1. \A p \in IOProcs \union CompProcs : Terminate[p] <= laps'[p] =>
           CPU(p)' = 0 /\ (step'[p] = "UNFINISHED" \/ state'[p] = "HALTED")
    BY <1>1, <1>2, <1>4 DEF EndsAtZero
  <2>2. svc'.op = "PCB_TERMINATED" => Terminate[P'] <= laps'[P']
    BY <1>1, <1>4, NoSvcNoLock DEF EndsAtZero
  <2>. QED
    BY <2>1, <2>2 DEF EndsAtZero
<1>5. CASE Creates
  BY <1>4, <1>5, CreationKeeps
<1>6. CASE Rest /\ ~Creates
  BY <1>1, <1>4, <1>6, RestKeeps, StepKinds
<1>7. CASE FinishService /\ svc.op \in SyncOps /\ ~Creates
  BY <1>4, <1>7, ServiceKeeps, StepKinds
<1>8. CASE SimulateProgramStep /\ ~Creates
  <2>1. /\ svc = NoSvc /\ CPU(running) = currentPC /\ currentPC \in Nat
        /\ UNCHANGED <<svc, state, running>>
        /\ \A p \in Proc \ {running} :
              CPU(p)' = CPU(p) /\ step'[p] = step[p] /\ laps'[p] = laps[p]
        /\ \/ /\ step[running] = "UNFINISHED" /\ step'[running] = "UNFINISHED"
              /\ CPU(running)' = CPU(running) /\ laps'[running] = laps[running]
           \/ /\ step[running] # "UNFINISHED" /\ step'[running] = "UNFINISHED"
              /\ CPU(running)' = LET c == NextPC(running, currentPC)
                                 IN  IF SkipsWait(running, c) THEN c + 1 ELSE c
              /\ laps'[running] = NextLaps(running, currentPC)
    BY <1>8, ProgramStep
  <2>2. state[running] # "HALTED"
    BY <1>1, <2>1, PlacesFacts, CPOrRes DEF NoSvc
  <2>3. ASSUME running \in IOProcs \union CompProcs, Terminate[running] <= laps'[running]
        PROVE  CPU(running)' = 0 /\ step'[running] = "UNFINISHED"
    <3>1. CASE Terminate[running] <= laps[running]
      BY <1>1, <2>1, <2>2, <2>3, <3>1 DEF EndsAtZero
    <3>2. CASE ~(Terminate[running] <= laps[running])
      <4>1. laps'[running] # laps[running]
        BY <2>3, <3>2
      <4>2. laps'[running] = NextLaps(running, currentPC) /\ step'[running] = "UNFINISHED"
            /\ CPU(running)' = LET c == NextPC(running, currentPC)
                               IN  IF SkipsWait(running, c) THEN c + 1 ELSE c
        BY <2>1, <4>1
      <4>3. NextPC(running, currentPC) = 0
        BY <4>1, <4>2 DEF NextLaps, NextPC
      <4>4. ~SkipsWait(running, NextPC(running, currentPC))
        BY <2>3, ProcessesDistinct DEF SkipsWait
      <4>. QED
        BY <4>2, <4>3, <4>4
    <3>. QED
      BY <3>1, <3>2
  <2>4. ASSUME NEW p \in IOProcs \union CompProcs, Terminate[p] <= laps'[p]
        PROVE  CPU(p)' = 0 /\ (step'[p] = "UNFINISHED" \/ state'[p] = "HALTED")
    <3>1. CASE p = running
      BY <2>1, <2>3, <2>4, <3>1
    <3>2. CASE p # running
      BY <1>1, <1>2, <2>1, <2>4, <3>2 DEF EndsAtZero
    <3>. QED
      BY <3>1, <3>2
  <2>5. svc'.op # "PCB_TERMINATED"
    BY <2>1, NoSvcNoLock
  <2>. QED
    BY <2>4, <2>5 DEF EndsAtZero
<1>9. CASE EnterService /\ ~Creates
  <2>1. /\ svc = NoSvc /\ laps' = laps
        /\ \A p \in Proc : CPU(p)' = CPU(p)
        /\ \A p \in Proc \ {running} : step'[p] = step[p] /\ state'[p] = state[p]
        /\ \/ Requested = "NONE" /\ svc' = NoSvc
           \/ /\ svc' = [op |-> Requested, proc |-> running]
              /\ Requested = "PCB_TERMINATED" => state'[running] = "HALTED"
    BY <1>9, TrapStep
  <2> HIDE DEF Requested
  <2>2. ASSUME NEW p \in IOProcs \union CompProcs, Terminate[p] <= laps'[p]
        PROVE  CPU(p)' = 0 /\ (step'[p] = "UNFINISHED" \/ state'[p] = "HALTED")
    <3>1. CPU(p) = 0 /\ (step[p] = "UNFINISHED" \/ state[p] = "HALTED")
      BY <1>1, <2>1, <2>2 DEF EndsAtZero
    <3>2. CASE p = running
      <4>1. Requested = "PCB_TERMINATED"
        BY <2>1, <2>2, <3>2, RequestedIs
      <4>. QED
        BY <1>2, <2>1, <3>1, <3>2, <4>1
    <3>3. CASE p # running
      BY <1>2, <2>1, <3>1, <3>3
    <3>. QED
      BY <3>2, <3>3
  <2>3. svc'.op = "PCB_TERMINATED" => Terminate[P'] <= laps'[P']
    <3>1. CASE svc' = NoSvc
      BY <3>1, NoSvcNoLock
    <3>2. CASE svc' = [op |-> Requested, proc |-> running]
      <4>1. P' = running /\ svc'.op = Requested
        BY <3>2 DEF P
      <4>. QED
        BY <2>1, <4>1, RequestedIs
    <3>. QED
      BY <2>1, <3>1, <3>2
  <2>. QED
    BY <2>2, <2>3 DEF EndsAtZero
<1>. QED
  BY <1>5, <1>6, <1>7, <1>8, <1>9, StepKinds

LEMMA NextStartsAtZero ==
    ASSUME Inv, PlacesOK, LocksOK, [Next]_vars
    PROVE  StartsAtZero'
<1> SUFFICES ASSUME NEW pair \in Pairs, NEW p \in Members(pair)
             PROVE  /\ state'[p] = "UNBORN" => step'[p] = "UNKNOWN"
                    /\ step'[p] = "UNKNOWN" => CPU(p)' = 0
  BY DEF StartsAtZero
<1>1. /\ EndsAtZero
      /\ state[p] = "UNBORN" => step[p] = "UNKNOWN"
      /\ step[p] = "UNKNOWN" => CPU(p) = 0
  BY DEF LocksOK, StartsAtZero
<1>2. p \in Proc \ {Idle}
  BY PairProcs
<1>3. state[running] # "UNBORN" /\ running \in Proc
  BY PlacesFacts
<1>4. CASE Creates
  BY <1>1, <1>2, <1>4, CreationKeeps
<1>5. CASE Rest /\ ~Creates
  BY <1>1, <1>2, <1>5, RestKeeps, StepKinds
<1>6. CASE FinishService /\ svc.op \in SyncOps /\ ~Creates
  BY <1>1, <1>2, <1>6, ServiceKeeps, StepKinds
<1>7. CASE SimulateProgramStep /\ ~Creates
  <2>1. /\ state' = state
        /\ p # running => CPU(p)' = CPU(p) /\ step'[p] = step[p]
        /\ p = running => step'[p] = "UNFINISHED"
    BY <1>2, <1>7, ProgramStep
  <2>. QED
    BY <1>1, <1>3, <2>1
<1>8. CASE EnterService /\ ~Creates
  <2>1. /\ CPU(p)' = CPU(p)
        /\ p # running => step'[p] = step[p]
        /\ p = running => step'[p] = "FINISHED"
    BY <1>2, <1>8, TrapStep
  <2>2. state'[p] = "UNBORN" => state[p] = "UNBORN"
    BY <1>2, <1>8, StepKinds
  <2>. QED
    BY <1>1, <1>3, <2>1, <2>2
<1>. QED
  BY <1>4, <1>5, <1>6, <1>7, <1>8, StepKinds

-----------------------------------------------------------------------------
(***************************************************************************)
(* Who owns a mutex, who claims it and who has passed it.                  *)
(***************************************************************************)
LEMMA Surviving ==
    ASSUME NEW own, NEW blk, NEW tb, Destructs(own, blk, tb), NEW m \in Mutex
    PROVE  /\ pairs' \subseteq pairs
           /\ owner'[m] \in {own[m], NoProc}
           /\ Range(blocked'[m]) \subseteq Range(blk[m])
           /\ Range(blocked'[m]) # {} \/ m[1] \in pairs' =>
                 owner'[m] = own[m] /\ blocked'[m] = blk[m]
<1>1. PICK dead \in SUBSET Deadlocked(own, blk) :
         /\ pairs' = pairs \ dead
         /\ owner' = [n \in Mutex |-> IF n[1] \in dead THEN NoProc ELSE own[n]]
         /\ blocked' = [n \in Mutex |-> IF n[1] \in dead THEN <<>> ELSE blk[n]]
  BY DEF Destructs
<1>2. \/ owner'[m] = own[m] /\ blocked'[m] = blk[m]
      \/ owner'[m] = NoProc /\ blocked'[m] = <<>> /\ m[1] \in dead
  BY <1>1
<1>. QED
  BY <1>1, <1>2, EmptyQueue

\* The process served and its mutex.
LEMMA AtService ==
    ASSUME Inv, PlacesOK, LocksOK, svc.op \in SyncOps
    PROVE  /\ P \in Proc \ {Idle} /\ P \notin Waiters /\ P \notin Held(blocked) /\ P \notin Held(waiting)
           /\ M \in Mutex /\ P \in Members(M[1]) /\ M[1] \in pairs
           /\ step[P] = "FINISHED" /\ CPU(P) \in Nat
           /\ svc.op \in LockOps => CPU(P) = LockPC(P, M)
           /\ svc.op \in UnlockOps => CPU(P) = UnlockPC(P, M)
           /\ svc.op \in {"WAIT_RESOURCE_1", "SIGNAL_RESOURCE_1"} =>
                 /\ M[2] = "mutex"
                 /\ LockPC(P, M) < CPU(P) /\ CPU(P) < UnlockPC(P, M)
           /\ svc.op = "WAIT_RESOURCE_1" => CPU(P) = CP_WAIT_PC
           /\ svc.op \notin LockOps => owner[M] = P
           /\ \A m \in Mutex : m[1] = M[1] /\ m # M =>
                 /\ CPU(P) # LockPC(P, m) /\ CPU(P) # UnlockPC(P, m)
                 /\ svc.op \notin {"WAIT_RESOURCE_1", "SIGNAL_RESOURCE_1"}
<1>1. svc # NoSvc
  BY NoSvcNoLock
<1>2. /\ P \in Proc \ {Idle} /\ P \notin Waiters /\ P \notin Held(blocked)
      /\ P \notin Held(waiting)
  BY <1>1, PlacesFacts DEF P, Waiters
<1>3. M \in Mutex /\ P \in Members(M[1])
  <2>1. ServiceExists(svc.proc, svc.op)
    BY <1>1 DEF Inv, ControlOK
  <2>. QED
    BY <2>1, ServedPair DEF SyncOps, P, M
<1>4. /\ IsAtSyncro(P, CPU(P)) = svc.op /\ step[P] = "FINISHED" /\ M[1] \in pairs
      /\ svc.op = "WAIT_RESOURCE_1" => owner[M] = P
  BY DEF LocksOK, ServedAtRequest
<1>5. CPU(P) \in Nat
  BY <1>2 DEF CPU, Inv, TypeOK
<1> DEFINE c == CPU(P)
           op == svc.op
           p == P
           mine == M
<1>6. \A m \in Mutex : m[1] = mine[1] =>
         /\ c = LockPC(p, m) <=> op \in LockOps /\ mine = m
         /\ c = UnlockPC(p, m) <=> op \in UnlockOps /\ mine = m
         /\ op \in {"WAIT_RESOURCE_1", "SIGNAL_RESOURCE_1"} =>
               /\ m[2] = "mutex" /\ mine = m
               /\ LockPC(p, m) < c /\ c < UnlockPC(p, m)
         /\ m[2] = "mutex" /\ op = "WAIT_RESOURCE_1" => c = CP_WAIT_PC
  <2> SUFFICES ASSUME NEW m \in Mutex, m[1] = mine[1]
      PROVE  /\ c = LockPC(p, m) <=> op \in LockOps /\ mine = m
             /\ c = UnlockPC(p, m) <=> op \in UnlockOps /\ mine = m
             /\ op \in {"WAIT_RESOURCE_1", "SIGNAL_RESOURCE_1"} =>
                   /\ m[2] = "mutex" /\ mine = m
                   /\ LockPC(p, m) < c /\ c < UnlockPC(p, m)
             /\ m[2] = "mutex" /\ op = "WAIT_RESOURCE_1" => c = CP_WAIT_PC
    OBVIOUS
  <2>1. p \in Members(m[1]) /\ c \in Nat /\ IsAtSyncro(p, c) = op /\ MutexOf(p, op) = mine
    BY <1>3, <1>4, <1>5 DEF P, M
  <2> HIDE DEF c, op, p, mine
  <2>. QED
    BY <2>1, Program
<1>7. op \notin LockOps => owner[mine] = p
  <2>1. CASE op \in UnlockOps \union {"SIGNAL_RESOURCE_1"}
    <3>1. Due(P, M)
      BY <1>3, <1>6, <2>1 DEF Due, P
    <3>2. Claims(P, M)
      BY <1>3, <1>4, <3>1 DEF LocksOK, DueIsOwned
    <3>3. P \notin Held(blocked) /\ P \notin Held(waiting)
      BY <1>2 DEF Waiters
    <3>4. P \notin Range(blocked[M]) /\ \A cond \in Cond : P \notin Range(waiting[cond])
      BY <1>3, <3>3, LockFamilies
    <3>5. svc.op # "WAIT_RESOURCE_1"
      BY <2>1 DEF UnlockOps
    <3>. QED
      BY <3>2, <3>4, <3>5 DEF Claims, Asleep
  <2>. QED
    BY <1>4, <2>1 DEF SyncOps
<1>. QED
  BY <1>2, <1>3, <1>4, <1>5, <1>6, <1>7

LEMMA LockKinds ==
    ASSUME Inv, PlacesOK, PairsOK, [Next]_vars, ~Creates
    PROVE  \E own, blk, tb :
              /\ Destructs(own, blk, tb)
              /\ \/ /\ Rest \/ SimulateProgramStep \/ EnterService
                    /\ Stays(own, blk, tb) /\ waiting' = waiting
                 \/ /\ FinishService /\ svc.op \in SyncOps
                    /\ \/ Served(own, blk, tb)
                       \/ /\ svc.op = "SIGNAL_RESOURCE_1"
                          /\ Stays(own, blk, tb) /\ waiting' = waiting
<1>1. PICK own, blk, tb : LockStep(own, blk, tb) /\ Destructs(own, blk, tb)
  BY StepIsSeen DEF StepSeen, Creates
<1>2. CASE SameLocks /\ Stays(own, blk, tb) /\ waiting' = waiting
  <2>1. CASE SignalNobody
    <3>1. svc.op = "SIGNAL_RESOURCE_1" /\ svc.op \in SyncOps
      BY <2>1 DEF SignalNobody, Serve, SyncOps
    <3>. QED
      BY <1>1, <1>2, <2>1, <3>1 DEF FinishService
  <2>2. CASE ~SignalNobody
    BY <1>1, <1>2, <2>2 DEF SameLocks, Rest
  <2>. QED
    BY <2>1, <2>2
<1>3. CASE FinishService /\ Served(own, blk, tb)
  BY <1>1, <1>3 DEF Served
<1>4. \/ SameLocks /\ Stays(own, blk, tb) /\ waiting' = waiting
      \/ FinishService
  BY <1>1 DEF LockStep, Stays, FinishService
<1>5. Effect(own, blk, tb)
  BY <1>1, LockStepEffect
<1>. QED
  BY <1>2, <1>3, <1>4, <1>5 DEF Effect

LEMMA Sleeper ==
    ASSUME Inv, PlacesOK, PairsOK, LocksOK, NEW own, NEW blk, NEW tb, Served(own, blk, tb),
           NEW m \in Mutex, NEW p \in Members(m[1]), m[2] = "mutex", p \in Held(waiting)
    PROVE  p \in Held(waiting') \/ p \in Range(blk[m])
<1>1. CASE UNCHANGED <<waiting, total_waiting>> \/ FallsAsleep
  BY <1>1 DEF FallsAsleep
<1>2. CASE svc.op = "SIGNAL_RESOURCE_1" /\ \E w : Joins(w, own, blk, tb) /\ WakesUp(w)
  <2>1. PICK w : Joins(w, own, blk, tb) /\ WakesUp(w)
    BY <1>2
  <2>2. CASE p # w
    BY <2>1, <2>2 DEF WakesUp
  <2>3. CASE p = w
    <3>1. p \in Members(M[1]) /\ p \in Range(blk[M])
      BY <2>1, <2>3 DEF Joins
    <3>2. M \in Mutex /\ M[2] = "mutex"
      BY <1>2, AtService DEF SyncOps
    <3>3. M[1] = m[1]
      BY <3>1, <3>2, MutexPair, OnlyPair
    <3>4. M = m
      BY <3>2, <3>3, MutexPair
    <3>. QED
      BY <3>1, <3>4
  <2>. QED
    BY <2>2, <2>3
<1>. QED
  BY <1>1, <1>2 DEF Served

\* Who claims a mutex still does when another process has been served, and
\* the process served claims those it has locked.
LEMMA ServedClaims ==
    ASSUME Inv, PlacesOK, PairsOK, LegalOK, LocksOK,
           NEW own, NEW blk, NEW tb, Served(own, blk, tb),
           NEW m \in Mutex, NEW p \in Members(m[1]),
           \/ p # P /\ Claims(p, m)
           \/ p = P /\ LockPC(p, m) <= CPU(p) /\ CPU(p) < UnlockPC(p, m)
    PROVE  own[m] = p \/ p \in Range(blk[m]) \/ (m[2] = "mutex" /\ p \in Held(waiting'))
<1>1. p \in Proc \ {Idle} /\ p # NoProc /\ m[1] \in Pairs
  BY Member
<1>2. svc.op \in SyncOps /\ \A n \in Mutex \ {M} : own[n] = owner[n] /\ Range(blk[n]) = Range(blocked[n])
  BY DEF Served
<1>3. /\ P \in Proc \ {Idle} /\ P \notin Held(blocked) /\ P \notin Held(waiting)
      /\ M \in Mutex /\ P \in Members(M[1]) /\ M[1] \in pairs
      /\ step[P] = "FINISHED" /\ CPU(P) \in Nat
      /\ svc.op \in LockOps => CPU(P) = LockPC(P, M)
      /\ svc.op \in UnlockOps => CPU(P) = UnlockPC(P, M)
      /\ svc.op \in {"WAIT_RESOURCE_1", "SIGNAL_RESOURCE_1"} => M[2] = "mutex"
      /\ svc.op \notin LockOps => owner[M] = P
      /\ \A n \in Mutex : n[1] = M[1] /\ n # M =>
            /\ CPU(P) # LockPC(P, n) /\ CPU(P) # UnlockPC(P, n)
            /\ svc.op \notin {"WAIT_RESOURCE_1", "SIGNAL_RESOURCE_1"}
  BY <1>2, AtService
<1>4. CASE p # P /\ Claims(p, m)
  <2>1. CASE owner[m] = p
    <3>1. CASE m = M
      <4>1. svc.op \in LockOps
        BY <1>3, <1>4, <2>1, <3>1
      <4>2. state[P] = "WAITING"
        BY <1>1, <1>4, <2>1, <3>1, <4>1 DEF LegalOK, LockDecided
      <4>3. ~Granted(own, blk, tb) /\ Joins(P, own, blk, tb)
        BY <4>1, <4>2 DEF Served, Granted, LockOps, UnlockOps
      <4>. QED
        BY <2>1, <4>3 DEF Joins
    <3>2. CASE m # M
      BY <1>2, <2>1, <3>2
    <3>. QED
      BY <3>1, <3>2
  <2>2. CASE p \in Range(blocked[m])
    <3>1. CASE m = M
      <4>1. CASE blk = blocked
        BY <2>2, <4>1
      <4>2. CASE \E w : Joins(w, own, blk, tb)
        BY <2>2, <3>1, <4>2 DEF Joins
      <4>3. CASE GivenUp(own, blk, tb)
        BY <2>2, <3>1, <4>3 DEF GivenUp
      <4>. QED
        BY <4>1, <4>2, <4>3 DEF Served, Granted
    <3>2. CASE m # M
      BY <1>2, <2>2, <3>2
    <3>. QED
      BY <3>1, <3>2
  <2>3. CASE m[2] = "mutex" /\ Asleep(p)
    <3>1. p \in Held(waiting)
      <4>1. \E c \in Cond : p \in Range(waiting[c])
        BY <1>4, <2>3 DEF Asleep, P
      <4>. QED
        BY <4>1, LockFamilies
    <3>. QED
      BY <2>3, <3>1, Sleeper
  <2>. QED
    BY <1>4, <2>1, <2>2, <2>3 DEF Claims
<1>5. CASE p = P /\ LockPC(p, m) <= CPU(p) /\ CPU(p) < UnlockPC(p, m)
  <2>0. m[1] = M[1]
    BY <1>1, <1>3, <1>5, MutexPair, OnlyPair
  <2>00. LockPC(p, m) \in Nat /\ UnlockPC(p, m) \in Nat /\ CPU(p) \in Nat
    BY <1>3, <1>5, Program
  <2>1. CASE m = M
    <3>1. svc.op \notin UnlockOps
      BY <1>3, <1>5, <2>00, <2>1
    <3>2. CASE Granted(own, blk, tb)
      BY <1>5, <2>1, <3>2 DEF Granted
    <3>3. CASE svc.op \in LockOps /\ Joins(P, own, blk, tb)
      BY <1>5, <2>1, <3>3 DEF Joins
    <3>4. CASE svc.op = "WAIT_RESOURCE_1" /\ FallsAsleep
      BY <1>3, <1>5, <2>1, <3>4 DEF FallsAsleep
    <3>5. CASE svc.op = "SIGNAL_RESOURCE_1" /\ \E w : Joins(w, own, blk, tb)
      BY <1>3, <1>5, <2>1, <3>5 DEF Joins, LockOps
    <3>. QED
      BY <3>1, <3>2, <3>3, <3>4, <3>5 DEF Served
  <2>2. CASE m # M
    <3>1. /\ CPU(P) # LockPC(P, m) /\ svc.op \notin {"WAIT_RESOURCE_1", "SIGNAL_RESOURCE_1"}
      BY <1>3, <2>0, <2>2
    <3>2. Due(p, m)
      BY <1>5, <2>00, <3>1 DEF Due
    <3>3. Claims(p, m)
      BY <1>3, <2>0, <3>2 DEF LocksOK, DueIsOwned
    <3>4. p \notin Range(blocked[m]) /\ ~Asleep(p)
      <4>1. p \notin Held(blocked) /\ p \notin Held(waiting)
        BY <1>3, <1>5
      <4>2. svc # [op |-> "WAIT_RESOURCE_1", proc |-> p]
        BY <3>1
      <4>. QED
        BY <4>1, <4>2, LockFamilies DEF Asleep
    <3>. QED
      BY <1>2, <2>2, <3>3, <3>4 DEF Claims
  <2>. QED
    BY <2>1, <2>2
<1>. QED
  BY <1>4, <1>5

\* A mutex goes to a process that has not come to its unlock yet.
LEMMA ServedOwner ==
    ASSUME Inv, PlacesOK, PairsOK, LegalOK, LocksOK,
           NEW own, NEW blk, NEW tb, Served(own, blk, tb),
           NEW m \in Mutex, NEW p \in Members(m[1]), own[m] = p
    PROVE  (p # P /\ owner[m] = p) \/ CPU(p) < UnlockPC(p, m)
<1>1. p \in Proc \ {Idle} /\ p # NoProc /\ m[1] \in Pairs
  BY Member
<1>2. svc.op \in SyncOps /\ \A n \in Mutex \ {M} : own[n] = owner[n]
  BY DEF Served
<1>3. /\ M \in Mutex /\ P \in Members(M[1]) /\ step[P] = "FINISHED" /\ CPU(P) \in Nat
      /\ svc.op \in LockOps => CPU(P) = LockPC(P, M)
      /\ svc.op \in {"WAIT_RESOURCE_1", "SIGNAL_RESOURCE_1"} => CPU(P) < UnlockPC(P, M)
      /\ \A n \in Mutex : n[1] = M[1] /\ n # M => CPU(P) # UnlockPC(P, n)
  BY <1>2, AtService
<1>4. LockPC(p, m) \in Nat /\ LockPC(p, m) < UnlockPC(p, m)
      /\ (m[2] = "mutex" => CP_WAIT_PC < UnlockPC(p, m))
  BY Program
<1>5. CASE m # M
  <2>1. owner[m] = p
    BY <1>2, <1>5
  <2>2. CASE p = P
    <3>1. m[1] = M[1]
      BY <1>1, <1>3, <2>2, MutexPair, OnlyPair
    <3>2. NotPassed(p, m)
      BY <2>1 DEF LocksOK, OwnedIsNotPassed
    <3>. QED
      BY <1>3, <1>5, <2>2, <3>1, <3>2 DEF NotPassed
  <2>. QED
    BY <2>1, <2>2
<1>6. CASE m = M
  <2>1. CASE Granted(own, blk, tb)
    BY <1>3, <1>4, <1>6, <2>1 DEF Granted
  <2>2. CASE svc.op \in LockOps \union {"SIGNAL_RESOURCE_1"} /\ \E w : Joins(w, own, blk, tb)
    <3>1. owner[m] = p
      BY <2>2 DEF Joins
    <3>. QED
      BY <1>3, <1>4, <1>6, <2>2, <3>1
  <2>3. CASE GivenUp(own, blk, tb)
    <3>1. p \in Range(blocked[m])
      BY <1>1, <1>6, <2>3 DEF GivenUp
    <3>. QED
      BY <1>4, <3>1 DEF LocksOK, QueuedAtRequest
  <2>. QED
    BY <2>1, <2>2, <2>3 DEF Served
<1>. QED
  BY <1>5, <1>6

\* Who queues for a mutex or sleeps on a condition is where it asked to, and
\* nobody queues for a mutex that is free or its own.
LEMMA ServedQueues ==
    ASSUME Inv, PlacesOK, PairsOK, LegalOK, LocksOK,
           NEW own, NEW blk, NEW tb, Served(own, blk, tb)
    PROVE  /\ \A m \in Mutex : \A p \in Range(blk[m]) :
                 /\ own[m] \notin {NoProc, p}
                 /\ CPU(p) = LockPC(p, m) \/ (m[2] = "mutex" /\ CPU(p) = CP_WAIT_PC)
           /\ \A c \in Cond : \A p \in Range(waiting'[c]) : CPU(p) = CP_WAIT_PC
<1>1. /\ svc.op \in SyncOps
      /\ \A n \in Mutex \ {M} : own[n] = owner[n] /\ Range(blk[n]) = Range(blocked[n])
  BY DEF Served
<1>2. /\ P \in Proc \ {Idle} /\ P # NoProc /\ P \notin Held(blocked) /\ P \notin Held(waiting)
      /\ M \in Mutex
      /\ svc.op \in LockOps => CPU(P) = LockPC(P, M)
      /\ svc.op \in {"WAIT_RESOURCE_1", "SIGNAL_RESOURCE_1"} => M[2] = "mutex"
      /\ svc.op = "WAIT_RESOURCE_1" => CPU(P) = CP_WAIT_PC
      /\ svc.op \notin LockOps => owner[M] = P
  BY <1>1, AtService, CPOrRes
<1>3. /\ \A m \in Mutex : \A p \in Range(blocked[m]) :
            /\ owner[m] \notin {NoProc, p}
            /\ CPU(p) = LockPC(p, m) \/ (m[2] = "mutex" /\ CPU(p) = CP_WAIT_PC)
      /\ \A c \in Cond : \A p \in Range(waiting[c]) : CPU(p) = CP_WAIT_PC
  BY DEF LocksOK, QueuedAtRequest, BlockedOnAnother
<1>4. \A p \in Held(waiting) : p \in Proc /\ CPU(p) = CP_WAIT_PC /\ p # P
  BY <1>2, <1>3, LockFamilies
<1>5. ASSUME NEW c \in Cond, NEW p \in Range(waiting'[c]) PROVE CPU(p) = CP_WAIT_PC
  <2>1. CASE UNCHANGED waiting \/ \E w : WakesUp(w)
    BY <1>3, <1>5, <2>1 DEF WakesUp
  <2>2. CASE svc.op = "WAIT_RESOURCE_1" /\ FallsAsleep
    BY <1>2, <1>3, <1>5, <2>2 DEF FallsAsleep
  <2>. QED
    BY <2>1, <2>2 DEF Served
<1>6. ASSUME NEW p \in Range(blk[M])
      PROVE  /\ own[M] \notin {NoProc, p}
             /\ CPU(p) = LockPC(p, M) \/ (M[2] = "mutex" /\ CPU(p) = CP_WAIT_PC)
  <2>0. \A x \in Range(blocked[M]) : x \in Proc /\ x # P
    BY <1>2, LockFamilies
  <2>1. CASE Granted(own, blk, tb)
    BY <1>2, <1>3, <1>6, <2>0, <2>1 DEF Granted
  <2>2. CASE svc.op \in LockOps /\ state[P] = "WAITING" /\ Joins(P, own, blk, tb)
    <3>1. owner[M] \notin {NoProc, P}
      BY <2>2 DEF LegalOK, LockDecided
    <3>. QED
      BY <1>2, <1>3, <1>6, <2>2, <3>1 DEF Joins
  <2>3. CASE svc.op = "SIGNAL_RESOURCE_1" /\ \E w : Joins(w, own, blk, tb) /\ WakesUp(w)
    <3>1. PICK w : Joins(w, own, blk, tb) /\ WakesUp(w)
      BY <2>3
    <3>2. own[M] = owner[M] /\ owner[M] = P
      BY <1>2, <2>3, <3>1 DEF Joins, LockOps
    <3>3. CASE p = w
      BY <1>2, <1>4, <2>3, <3>1, <3>2, <3>3 DEF WakesUp
    <3>4. CASE p \in Range(blocked[M])
      BY <1>2, <1>3, <2>0, <3>2, <3>4
    <3>. QED
      BY <1>6, <3>1, <3>3, <3>4 DEF Joins
  <2>4. CASE GivenUp(own, blk, tb)
    <3>1. p \in Range(blocked[M]) /\ own[M] \notin {NoProc, p}
      BY <1>6, <2>0, <2>4, CPOrRes, EmptyQueue DEF GivenUp
    <3>. QED
      BY <1>2, <1>3, <3>1
  <2>. QED
    BY <2>1, <2>2, <2>3, <2>4 DEF Served
<1>. QED
  BY <1>1, <1>3, <1>5, <1>6

LEMMA WaiterStays ==
    ASSUME Inv, PlacesOK, LocksOK, [Next]_vars, NEW p \in Waiters
    PROVE  CPU(p)' = CPU(p)
<1>1. p \in Proc \ {Idle} /\ p # running
  BY PlacesFacts
<1>2. EndsAtZero
  BY DEF LocksOK
<1>. QED
  BY <1>1, <1>2, StepKinds, CreationKeeps, RestKeeps, ServiceKeeps, ProgramStep, TrapStep

LEMMA NextQueues ==
    ASSUME Inv, PlacesOK, PairsOK, LegalOK, LocksOK, [Next]_vars
    PROVE  QueuedAtRequest' /\ BlockedOnAnother'
<1> DEFINE Q(own, blk, wt) ==
             /\ \A m \in Mutex : \A p \in Range(blk[m]) :
                   /\ own[m] \notin {NoProc, p}
                   /\ CPU(p)' = LockPC(p, m) \/ (m[2] = "mutex" /\ CPU(p)' = CP_WAIT_PC)
             /\ \A c \in Cond : \A p \in Range(wt[c]) : CPU(p)' = CP_WAIT_PC
<1>1. SUFFICES Q(owner', blocked', waiting')
  BY DEF QueuedAtRequest, BlockedOnAnother
<1>2. /\ \A m \in Mutex : \A p \in Range(blocked[m]) :
            /\ owner[m] \notin {NoProc, p} /\ p \in Waiters
            /\ CPU(p) = LockPC(p, m) \/ (m[2] = "mutex" /\ CPU(p) = CP_WAIT_PC)
      /\ \A c \in Cond : \A p \in Range(waiting[c]) : p \in Waiters /\ CPU(p) = CP_WAIT_PC
  <2>1. /\ \A m \in Mutex : \A p \in Range(blocked[m]) : p \in Waiters
        /\ \A c \in Cond : \A p \in Range(waiting[c]) : p \in Waiters
    BY LockFamilies
  <2>. QED
    BY <2>1 DEF LocksOK, QueuedAtRequest, BlockedOnAnother
<1>3. Q(owner, blocked, waiting)
  BY <1>2, WaiterStays
<1>4. CASE Creates
  BY <1>3, <1>4, CreationKeeps
<1>5. CASE ~Creates
  <2>1. PICK own, blk, tb :
           /\ Destructs(own, blk, tb)
           /\ \/ Stays(own, blk, tb) /\ waiting' = waiting
              \/ FinishService /\ svc.op \in SyncOps /\ Served(own, blk, tb)
    BY <1>5, LockKinds
  <2>2. Q(own, blk, waiting')
    <3>1. CASE Stays(own, blk, tb) /\ waiting' = waiting
      BY <1>3, <3>1 DEF Stays
    <3>2. CASE FinishService /\ svc.op \in SyncOps /\ Served(own, blk, tb)
      <4>1. /\ \A m \in Mutex : \A p \in Range(blk[m]) :
                  /\ own[m] \notin {NoProc, p}
                  /\ CPU(p) = LockPC(p, m) \/ (m[2] = "mutex" /\ CPU(p) = CP_WAIT_PC)
            /\ \A c \in Cond : \A p \in Range(waiting'[c]) : CPU(p) = CP_WAIT_PC
        BY <3>2, ServedQueues
      <4>2. /\ \A m \in Mutex : \A p \in Range(blk[m]) : CPU(p)' = CPU(p)
            /\ \A c \in Cond : \A p \in Range(waiting'[c]) : CPU(p)' = CPU(p)
        <5>1. \A p \in Proc \ {Idle} : CPU(p)' = CPU(p)
          BY <3>2, ServiceKeeps
        <5>2. P \in Proc \ {Idle} /\ \A p \in Waiters : p \in Proc \ {Idle}
          BY <3>2, AtService, PlacesFacts
        <5>3. /\ \A m \in Mutex : \A p \in Range(blk[m]) : p \in Waiters \union {P}
              /\ \A c \in Cond : \A p \in Range(waiting'[c]) : p \in Waiters \union {P}
          <6>1. ASSUME NEW m \in Mutex, NEW p \in Range(blk[m])
                PROVE  p \in Range(blocked[m]) \/ p \in Waiters \union {P}
            <7>1. Held(waiting) \subseteq Waiters
              BY DEF Waiters
            <7>. QED
              BY <3>2, <6>1, <7>1 DEF Served, Granted, Joins, GivenUp, WakesUp
          <6>2. ASSUME NEW c \in Cond, NEW p \in Range(waiting'[c])
                PROVE  p \in Range(waiting[c]) \/ p = P
            BY <3>2, <6>2 DEF Served, FallsAsleep, WakesUp
          <6>. QED
            BY <1>2, <6>1, <6>2
        <5>. QED
          BY <5>1, <5>2, <5>3
      <4>. QED
        BY <4>1, <4>2
    <3>. QED
      BY <2>1, <3>1, <3>2
  <2>3. \A m \in Mutex : \/ Range(blocked'[m]) = {}
                         \/ owner'[m] = own[m] /\ blocked'[m] = blk[m]
    BY <2>1, Surviving
  <2>. QED
    BY <2>2, <2>3
<1>. QED
  BY <1>4, <1>5

LEMMA NextOwnedIsNotPassed ==
    ASSUME Inv, PlacesOK, PairsOK, LegalOK, LocksOK, [Next]_vars
    PROVE  OwnedIsNotPassed'
<1> SUFFICES ASSUME NEW m \in Mutex, NEW p \in Members(m[1]), owner'[m] = p
             PROVE  \/ CPU(p)' < UnlockPC(p, m)
                    \/ CPU(p)' = UnlockPC(p, m) /\ (step'[p] # "FINISHED" \/ svc'.proc = p)
  BY DEF OwnedIsNotPassed, NotPassed
<1> DEFINE u == UnlockPC(p, m)
<1>1. /\ p \in Proc \ {Idle} /\ p # NoProc /\ p \notin IOProcs \union CompProcs
      /\ u \in Nat /\ 0 < u /\ CPU(p) \in Nat
  BY Member, Program DEF CPU, Inv, TypeOK
<1>2. owner[m] = p => \/ CPU(p) < u
                      \/ CPU(p) = u /\ (step[p] # "FINISHED" \/ svc.proc = p)
  BY DEF LocksOK, OwnedIsNotPassed, NotPassed
<1>3. EndsAtZero /\ StartsAtZero /\ (step[p] = "UNKNOWN" => CPU(p) = 0)
  BY Member DEF LocksOK, StartsAtZero
<1>4. step \in [Proc -> StepStates]
  BY DEF Inv, TypeOK
<1>5. CASE Creates
  BY <1>1, <1>2, <1>5, CreationKeeps
<1>6. CASE ~Creates
  <2>1. PICK own, blk, tb :
           /\ Destructs(own, blk, tb)
           /\ \/ /\ Rest \/ SimulateProgramStep \/ EnterService
                 /\ Stays(own, blk, tb)
              \/ /\ FinishService /\ svc.op \in SyncOps
                 /\ \/ Served(own, blk, tb)
                    \/ svc.op = "SIGNAL_RESOURCE_1" /\ Stays(own, blk, tb)
    BY <1>6, LockKinds
  <2>2. own[m] = p
    BY <1>1, <2>1, Surviving
  <2>3. Stays(own, blk, tb) => owner[m] = p
    BY <2>2 DEF Stays
  <2>4. CASE Rest /\ owner[m] = p
    <3>1. /\ step'[p] = step[p] /\ (CPU(p)' = CPU(p) \/ CPU(p)' = 0)
          /\ svc' = svc \/ svc.op \notin SyncOps
          /\ svc' = svc \/ svc' = NoSvc
      BY <1>1, <1>3, <2>4, RestKeeps
    <3>2. svc' # svc => svc.proc # p
      <4>1. svc.op \notin SyncOps /\ svc # NoSvc => svc.proc \in IOProcs \union CompProcs
        BY DEF Inv, ControlOK, ServiceExists, SyncOps, LockOps, UnlockOps
      <4>. QED
        BY <1>1, <3>1, <4>1
    <3>. QED
      BY <1>1, <1>2, <2>4, <3>1, <3>2
  <2>5. CASE SimulateProgramStep /\ owner[m] = p
    <3>1. CASE p # running
      BY <1>1, <1>2, <2>5, <3>1, ProgramStep
    <3>2. CASE p = running
      <4>1. /\ svc = NoSvc /\ CPU(p) = currentPC /\ step'[p] = "UNFINISHED" /\ running' = running
            /\ \/ CPU(p)' = CPU(p) /\ step[p] = "UNFINISHED"
               \/ /\ step[p] # "UNFINISHED"
                  /\ CPU(p)' = LET c == NextPC(p, CPU(p))
                               IN  IF SkipsWait(p, c) THEN c + 1 ELSE c
        BY <2>5, <3>2, ProgramStep
      <4>2. CPU(p) < u \/ (CPU(p) = u /\ step[p] # "FINISHED")
        BY <1>1, <1>2, <2>5, <4>1 DEF NoSvc
      <4>3. CASE CPU(p)' = CPU(p) /\ step[p] = "UNFINISHED"
        BY <4>1, <4>2, <4>3
      <4>4. CASE /\ step[p] # "UNFINISHED"
                 /\ CPU(p)' = LET c == NextPC(p, CPU(p))
                              IN  IF SkipsWait(p, c) THEN c + 1 ELSE c
        <5>1. CPU(p) < u
          BY <1>1, <1>3, <1>4, <4>2, <4>4 DEF StepStates
        <5>2. CPU(p)' \in Nat /\ CPU(p)' <= u
          BY <1>1, <4>4, <5>1, NextDue
        <5>. QED
          BY <1>1, <4>1, <5>2
      <4>. QED
        BY <4>1, <4>3, <4>4
    <3>. QED
      BY <3>1, <3>2
  <2>6. CASE EnterService /\ owner[m] = p
    <3>1. CASE p # running
      BY <1>1, <1>2, <2>6, <3>1, TrapStep DEF NoSvc
    <3>2. CASE p = running
      <4>1. /\ svc = NoSvc /\ CPU(p) = currentPC /\ CPU(p)' = CPU(p)
            /\ (Requested = "NONE" \/ svc'.proc = p)
        BY <1>1, <2>6, <3>2, TrapStep
      <4>2. CPU(p) < u \/ CPU(p) = u
        BY <1>2, <2>6
      <4>3. CPU(p) = u => Requested # "NONE"
        <5>1. Requested = IsAtSyncro(p, CPU(p))
          BY <1>1, <3>2, <4>1, RequestedIs
        <5>2. CPU(p) = u => IsAtSyncro(p, CPU(p)) \in UnlockOps
          BY <1>1, Program
        <5> HIDE DEF Requested
        <5>. QED
          BY <5>1, <5>2 DEF UnlockOps
      <4>. QED
        BY <4>1, <4>2, <4>3
    <3>. QED
      BY <3>1, <3>2
  <2>7. CASE /\ FinishService /\ svc.op \in SyncOps
             /\ \/ Served(own, blk, tb)
                \/ svc.op = "SIGNAL_RESOURCE_1" /\ Stays(own, blk, tb)
    <3>1. CPU(p)' = CPU(p) /\ step'[p] = step[p] /\ P \in Members(M[1])
      BY <1>1, <2>7, ServiceKeeps, AtService
    <3>2. CASE p # P /\ owner[m] = p
      BY <1>2, <3>1, <3>2 DEF P
    <3>3. CASE CPU(p) < u
      BY <3>1, <3>3
    <3>4. CASE svc.op = "SIGNAL_RESOURCE_1" /\ Stays(own, blk, tb) /\ p = P
      <4>1. owner[m] = p /\ M \in Mutex /\ m[1] \in Pairs
        BY <2>3, <2>7, <3>4, AtService, Member
      <4>2. m[1] = M[1]
        BY <3>1, <3>4, <4>1, MutexPair, OnlyPair
      <4>3. /\ CPU(P) < UnlockPC(P, M)
            /\ \A n \in Mutex : n[1] = M[1] /\ n # M => svc.op # "SIGNAL_RESOURCE_1"
        BY <2>7, <3>4, AtService
      <4>4. m = M
        BY <3>4, <4>2, <4>3
      <4>. QED
        BY <3>1, <3>4, <4>3, <4>4
    <3>5. Served(own, blk, tb) => (p # P /\ owner[m] = p) \/ CPU(p) < u
      BY <2>2, <2>7, ServedOwner
    <3>. QED
      BY <2>3, <2>7, <3>2, <3>3, <3>4, <3>5
  <2>. QED
    BY <2>1, <2>3, <2>4, <2>5, <2>6, <2>7
<1>. QED
  BY <1>5, <1>6

LEMMA NextDueIsOwned ==
    ASSUME Inv, Inv', PlacesOK, PairsOK, LegalOK, LocksOK, [Next]_vars
    PROVE  DueIsOwned'
<1> SUFFICES ASSUME NEW m \in Mutex, m[1] \in pairs', NEW p \in Members(m[1]), Due(p, m)'
             PROVE  Claims(p, m)'
  BY DEF DueIsOwned
<1> DEFINE l == LockPC(p, m)
           u == UnlockPC(p, m)
<1>1. /\ p \in Proc \ {Idle} /\ p # NoProc /\ p \notin IOProcs \union CompProcs
      /\ l \in Nat /\ u \in Nat /\ 0 < l /\ l < u /\ CPU(p) \in Nat /\ CPU(p)' \in Nat
      /\ step \in [Proc -> StepStates] /\ m[1] \in Pairs
  BY Member, Program DEF CPU, Inv, TypeOK
<1>2. /\ EndsAtZero /\ StartsAtZero /\ TrapIsNew
      /\ state[p] = "UNBORN" => CPU(p) = 0
      /\ step[p] = "UNKNOWN" => CPU(p) = 0
  BY <1>1 DEF LocksOK, StartsAtZero
<1>3. \/ l < CPU(p)' /\ CPU(p)' < u
      \/ CPU(p)' = l /\ step'[p] = "FINISHED" /\ svc'.proc # p
      \/ CPU(p)' = u /\ (step'[p] # "FINISHED" \/ svc'.proc = p)
  BY DEF Due
<1>4. Due(p, m) <=> \/ l < CPU(p) /\ CPU(p) < u
                    \/ CPU(p) = l /\ step[p] = "FINISHED" /\ svc.proc # p
                    \/ CPU(p) = u /\ (step[p] # "FINISHED" \/ svc.proc = p)
  BY DEF Due
<1>5. Due(p, m) /\ m[1] \in pairs => Claims(p, m)
  BY DEF LocksOK, DueIsOwned
<1> HIDE DEF l, u
<1>6. CASE Creates
  <2>1. /\ UNCHANGED <<svc, owner, blocked, waiting, step>> /\ CPU(p)' = CPU(p)
        /\ m[1] \in pairs \/ state[p] = "UNBORN"
    BY <1>1, <1>6, CreationKeeps
  <2>2. Due(p, m) /\ m[1] \in pairs
    BY <1>1, <1>2, <1>3, <1>4, <2>1
  <2>. QED
    BY <1>5, <2>1, <2>2 DEF Claims, Asleep
<1>7. CASE ~Creates
  <2>1. PICK own, blk, tb :
           /\ Destructs(own, blk, tb)
           /\ \/ /\ Rest \/ SimulateProgramStep \/ EnterService
                 /\ Stays(own, blk, tb) /\ waiting' = waiting
              \/ /\ FinishService /\ svc.op \in SyncOps
                 /\ \/ Served(own, blk, tb)
                    \/ /\ svc.op = "SIGNAL_RESOURCE_1"
                       /\ Stays(own, blk, tb) /\ waiting' = waiting
    BY <1>7, LockKinds
  <2>2. m[1] \in pairs /\ owner'[m] = own[m] /\ blocked'[m] = blk[m]
    BY <2>1, Surviving
  <2>3. ASSUME Claims(p, m), Stays(own, blk, tb) /\ waiting' = waiting,
               svc' = svc \/ svc.op # "WAIT_RESOURCE_1"
        PROVE  Claims(p, m)'
    <3>1. owner'[m] = owner[m] /\ blocked'[m] = blocked[m] /\ waiting' = waiting
      BY <2>2, <2>3 DEF Stays
    <3>2. Asleep(p) => Asleep(p)'
      BY <2>3, <3>1 DEF Asleep
    <3>. QED
      BY <2>3, <3>1, <3>2 DEF Claims
  <2>4. CASE Rest /\ Stays(own, blk, tb) /\ waiting' = waiting
    <3>1. /\ step'[p] = step[p] /\ (CPU(p)' = CPU(p) \/ CPU(p)' = 0)
          /\ svc' = svc \/ (svc' = NoSvc /\ svc.op \notin SyncOps)
      BY <1>1, <1>2, <2>4, RestKeeps
    <3>2. CPU(p)' = CPU(p)
      BY <1>1, <1>3, <3>1
    <3>3. svc' # svc => svc.proc # p /\ svc'.proc # p
      <4>1. svc.op \notin SyncOps /\ svc # NoSvc => svc.proc \in IOProcs \union CompProcs
        BY DEF Inv, ControlOK, ServiceExists, SyncOps, LockOps, UnlockOps
      <4>. QED
        BY <1>1, <3>1, <4>1 DEF NoSvc
    <3>4. Due(p, m)
      BY <1>3, <1>4, <3>1, <3>2, <3>3
    <3>5. svc' = svc \/ svc.op # "WAIT_RESOURCE_1"
      BY <3>1 DEF SyncOps
    <3>. QED
      BY <1>5, <2>2, <2>3, <2>4, <3>4, <3>5
  <2>5. CASE SimulateProgramStep /\ Stays(own, blk, tb) /\ waiting' = waiting
    <3>1. svc = NoSvc /\ svc' = svc /\ running' = running
      BY <2>5, ProgramStep
    <3>2. CASE CPU(p)' = CPU(p) /\ step'[p] = step[p]
      BY <1>3, <1>4, <1>5, <2>2, <2>3, <2>5, <3>1, <3>2
    <3>3. CASE ~(CPU(p)' = CPU(p) /\ step'[p] = step[p])
      <4>1. /\ step[p] # "UNFINISHED" /\ step'[p] = "UNFINISHED"
            /\ CPU(p)' = LET c == NextPC(p, CPU(p))
                         IN  IF SkipsWait(p, c) THEN c + 1 ELSE c
        BY <1>1, <2>5, <3>3, ProgramStep
      <4>2. l < CPU(p)' /\ CPU(p)' <= u
        BY <1>1, <1>3, <4>1
      <4>3. l <= CPU(p) /\ CPU(p) < u
        BY <1>1, <4>1, <4>2, NextDue DEF l, u
      <4>4. step[p] = "FINISHED"
        BY <1>1, <1>2, <4>1, <4>3 DEF StepStates
      <4>5. Due(p, m)
        BY <1>1, <1>4, <3>1, <4>3, <4>4 DEF NoSvc
      <4>. QED
        BY <1>5, <2>2, <2>3, <2>5, <3>1, <4>5
    <3>. QED
      BY <3>2, <3>3
  <2>6. CASE EnterService /\ Stays(own, blk, tb) /\ waiting' = waiting
    <3>1. /\ svc = NoSvc /\ at = "trap" /\ CPU(running) = currentPC /\ CPU(p)' = CPU(p)
          /\ p # running => step'[p] = step[p]
          /\ \/ Requested = "NONE" /\ svc' = NoSvc
             \/ svc'.proc = running
      BY <1>1, <2>6, TrapStep
    <3>2. svc.op # "WAIT_RESOURCE_1" /\ svc.proc # p
      BY <1>1, <3>1 DEF NoSvc
    <3>3. Due(p, m)
      <4>1. CASE p # running
        <5>1. svc'.proc # p
          BY <1>1, <3>1, <4>1 DEF NoSvc
        <5>. QED
          BY <1>3, <1>4, <3>1, <3>2, <4>1, <5>1
      <4>2. CASE p = running
        <5>1. step[p] # "FINISHED"
          BY <1>2, <3>1, <4>2 DEF TrapIsNew
        <5>2. CPU(p) = l => svc'.proc = p
          <6>1. Requested = IsAtSyncro(p, CPU(p))
            BY <1>1, <3>1, <4>2, RequestedIs
          <6>2. CPU(p) = l => IsAtSyncro(p, CPU(p)) \in LockOps
            BY <1>1, Program DEF l
          <6> HIDE DEF Requested
          <6>. QED
            BY <3>1, <4>2, <6>1, <6>2 DEF LockOps
        <5>. QED
          BY <1>3, <1>4, <3>1, <5>1, <5>2
      <4>. QED
        BY <4>1, <4>2
    <3>. QED
      BY <1>5, <2>2, <2>3, <2>6, <3>2, <3>3
  <2>7. CASE /\ FinishService /\ svc.op \in SyncOps
             /\ \/ Served(own, blk, tb)
                \/ /\ svc.op = "SIGNAL_RESOURCE_1"
                   /\ Stays(own, blk, tb) /\ waiting' = waiting
    <3>1. CPU(p)' = CPU(p) /\ step'[p] = step[p] /\ svc' = NoSvc /\ svc'.proc # p
      BY <1>1, <2>7, ServiceKeeps DEF NoSvc
    <3>2. \/ p # P /\ Claims(p, m)
          \/ p = P /\ LockPC(p, m) <= CPU(p) /\ CPU(p) < UnlockPC(p, m)
      <4>1. CASE p # P
        <5>1. Due(p, m)
          BY <1>3, <1>4, <3>1, <4>1 DEF P
        <5>. QED
          BY <1>5, <2>2, <4>1, <5>1
      <4>2. CASE p = P
        <5>1. step[p] = "FINISHED"
          BY <2>7, <4>2, AtService
        <5>2. l <= CPU(p) /\ CPU(p) < u
          BY <1>1, <1>3, <3>1, <5>1
        <5>. QED
          BY <4>2, <5>2 DEF l, u
      <4>. QED
        BY <4>1, <4>2
    <3>3. CASE Served(own, blk, tb)
      <4>1. own[m] = p \/ p \in Range(blk[m]) \/ (m[2] = "mutex" /\ p \in Held(waiting'))
        BY <3>2, <3>3, ServedClaims
      <4>2. p \in Held(waiting') => Asleep(p)'
        <5>1. waiting' \in [Cond -> Seq(Proc)]
          BY DEF Inv, TypeOK
        <5>2. p \in Held(waiting') => \E c \in Cond : p \in Range(waiting'[c])
          BY <5>1, HeldBy
        <5>. QED
          BY <5>2 DEF Asleep
      <4>. QED
        BY <2>2, <4>1, <4>2 DEF Claims
    <3>4. CASE /\ svc.op = "SIGNAL_RESOURCE_1"
               /\ Stays(own, blk, tb) /\ waiting' = waiting
      <4>1. CASE p # P /\ Claims(p, m)
        BY <2>3, <3>4, <4>1
      <4>2. CASE p = P
        <5>1. /\ M \in Mutex /\ P \in Members(M[1]) /\ owner[M] = P
              /\ \A n \in Mutex : n[1] = M[1] /\ n # M => svc.op # "SIGNAL_RESOURCE_1"
          BY <2>7, <3>4, AtService DEF LockOps
        <5>2. m[1] = M[1]
          BY <1>1, <4>2, <5>1, MutexPair, OnlyPair
        <5>3. m = M
          BY <3>4, <5>1, <5>2
        <5>4. Claims(p, m)
          BY <4>2, <5>1, <5>3 DEF Claims
        <5>. QED
          BY <2>3, <3>4, <5>4
      <4>. QED
        BY <3>2, <4>1, <4>2
    <3>. QED
      BY <2>7, <3>3, <3>4
  <2>. QED
    BY <2>1, <2>4, <2>5, <2>6, <2>7
<1>. QED
  BY <1>6, <1>7

\* A pair of which a process is not blocked is not destructed.
LEMMA PairStands ==
    ASSUME Inv, PlacesOK, Destructs(owner, blocked, total_blocked),
           NEW m \in Mutex, m[1] \in pairs, NEW p \in Members(m[1]), p \notin Held(blocked)
    PROVE  m[1] \in pairs' /\ owner'[m] = owner[m] /\ blocked'[m] = blocked[m]
<1>1. PICK dead \in SUBSET Deadlocked(owner, blocked) : pairs' = pairs \ dead
  BY DEF Destructs
<1>2. DOMAIN blocked = Mutex /\ Apart(blocked)
  BY LockFamilies
<1>3. m[1] \notin dead
  <2> SUFFICES ASSUME m[1] \in dead PROVE FALSE
    OBVIOUS
  <2>1. m[1] \in ResPairs /\ EdgeCount(m[1], owner, blocked) = 4
    BY <1>1 DEF Deadlocked
  <2>2. \E n \in PairMutexes(m[1]) : p \in Range(blocked[n])
    BY <1>2, <2>1, FourEdgesBlocked
  <2>3. PairMutexes(m[1]) \subseteq Mutex
    BY <2>1, MutexPair
  <2>. QED
    BY <2>2, <2>3, LockFamilies
<1>4. m[1] \in pairs'
  BY <1>1, <1>3
<1>. QED
  BY <1>4, Surviving

LEMMA NextServedAtRequest ==
    ASSUME Inv, Inv', PlacesOK, PairsOK, LocksOK, [Next]_vars
    PROVE  ServedAtRequest'
<1> SUFFICES ASSUME svc'.op \in SyncOps
             PROVE  /\ IsAtSyncro(P', CPU(P)') = svc'.op /\ step'[P'] = "FINISHED"
                    /\ M'[1] \in pairs'
                    /\ svc'.op = "WAIT_RESOURCE_1" => owner'[M'] = P'
  BY DEF ServedAtRequest
<1>1. svc' # NoSvc
  BY NoSvcNoLock
<1>2. ~Creates
  BY <1>1, CreationKeeps
<1>3. ~SimulateProgramStep /\ ~(FinishService /\ svc.op \in SyncOps)
  BY <1>1, ProgramStep, ServiceKeeps
<1>4. PICK own, blk, tb : Destructs(own, blk, tb) /\ Stays(own, blk, tb)
  BY <1>2, <1>3, LockKinds
<1>5. Destructs(owner, blocked, total_blocked)
  BY <1>4 DEF Stays
<1>6. CASE Rest
  <2>1. svc' = svc /\ P' = P /\ M' = M
    BY <1>1, <1>6, RestKeeps DEF LocksOK, P, M
  <2>2. /\ P \in Proc \ {Idle} /\ P \notin Held(blocked) /\ M \in Mutex /\ P \in Members(M[1])
        /\ M[1] \in pairs
    BY <2>1, AtService
  <2>3. step'[P] = step[P]
    BY <1>6, <2>2, RestKeeps DEF LocksOK
  <2>4. \A p \in Proc \ {Idle} : CPU(p)' = CPU(p)
    BY <1>1, <1>6, RestKeeps DEF LocksOK
  <2>5. CPU(P)' = CPU(P)
    <3>1. CPU(P)' = IF P' = running' THEN currentPC' ELSE pc'[P']
      BY DEF CPU
    <3>2. \A p : CPU(p)' = IF p = running' THEN currentPC' ELSE pc'[p]
      BY DEF CPU
    <3>. QED
      BY <2>1, <2>2, <2>4, <3>1, <3>2
  <2>6. M[1] \in pairs' /\ owner'[M] = owner[M]
    BY <1>5, <2>2, PairStands
  <2>. QED
    BY <2>1, <2>3, <2>5, <2>6 DEF LocksOK, ServedAtRequest
<1>7. CASE EnterService
  <2> DEFINE r == running
             op == Requested
             m == MutexOf(r, op)
  <2>1. /\ svc = NoSvc /\ at = "trap" /\ CPU(r) = currentPC
        /\ UNCHANGED <<owner, blocked, waiting, pairs, running, laps>>
        /\ \A p \in Proc : CPU(p)' = CPU(p)
        /\ step'[r] = "FINISHED"
        /\ svc' = [op |-> op, proc |-> r] /\ ServiceExists(r, op)
    BY <1>1, <1>7, TrapStep
  <2>2. P' = r /\ M' = m /\ svc'.op = op /\ op \in SyncOps
    BY <2>1 DEF P, M
  <2>3. op = IsAtSyncro(r, currentPC)
    <3>1. r \notin IOProcs \union CompProcs \/ op = IsAtSyncro(r, currentPC)
      BY <2>2, UserPrograms DEF Requested, IsAtTrap, SyncOps, LockOps, UnlockOps
    <3>. QED
      BY <3>1, RequestedIs
  <2> HIDE DEF op
  <2>4. m \in Mutex /\ r \in Members(m[1])
    BY <2>1, <2>2, ServedPair DEF SyncOps
  <2>5. r \in Proc \ {Idle} /\ currentPC \in Nat
    BY <2>4, Member DEF Inv, TypeOK
  <2>6. CPU(P)' = currentPC
    <3>1. CPU(P)' = IF P' = running' THEN currentPC' ELSE pc'[P']
      BY DEF CPU
    <3>2. \A p : CPU(p)' = IF p = running' THEN currentPC' ELSE pc'[p]
      BY DEF CPU
    <3>. QED
      BY <2>1, <2>2, <2>5, <3>1, <3>2
  <2>7. m[1] \in pairs
    <3>1. ~Nowhere(r)
      BY DEF Nowhere
    <3>. QED
      BY <2>4, <3>1, MutexPair DEF PairsOK
  <2>8. op = "WAIT_RESOURCE_1" => owner[m] = r
    <3> SUFFICES ASSUME op = "WAIT_RESOURCE_1" PROVE owner[m] = r
      OBVIOUS
    <3>1. LockPC(r, m) < currentPC /\ currentPC < UnlockPC(r, m)
      BY <2>3, <2>4, <2>5, Program
    <3>2. Due(r, m)
      BY <2>1, <3>1 DEF Due
    <3>3. Claims(r, m)
      BY <2>4, <2>7, <3>2 DEF LocksOK, DueIsOwned
    <3>4. r \notin Range(blocked[m]) /\ ~Asleep(r)
      <4>1. r \notin Held(blocked) /\ r \notin Held(waiting)
        BY PlacesFacts DEF Waiters
      <4>2. svc # [op |-> "WAIT_RESOURCE_1", proc |-> r]
        BY <2>1 DEF NoSvc
      <4>. QED
        BY <2>4, <4>1, <4>2, LockFamilies DEF Asleep
    <3>. QED
      BY <3>3, <3>4 DEF Claims
  <2> HIDE DEF m
  <2> HIDE DEF r
  <2>. QED
    BY <2>1, <2>2, <2>3, <2>6, <2>7, <2>8
<1>. QED
  BY <1>2, <1>3, <1>6, <1>7, StepKinds

LEMMA InitLocks == Init => LocksOK
<1> SUFFICES ASSUME Init PROVE LocksOK
  OBVIOUS
<1>1. /\ at = "boot" /\ svc = NoSvc /\ currentPC = 0 /\ running = Boot
      /\ pc = [p \in Proc |-> 0] /\ step = [p \in Proc |-> "UNKNOWN"]
      /\ laps = [p \in Proc |-> 0] /\ ioActive = [d \in Dev |-> FALSE]
      /\ owner = [m \in Mutex |-> NoProc]
      /\ blocked = [m \in Mutex |-> <<>>] /\ waiting = [c \in Cond |-> <<>>]
  BY DEF Init
<1>2. Boot \in Proc /\ \A p \in Proc : CPU(p) = 0 /\ step[p] = "UNKNOWN"
  BY <1>1 DEF CPU, Proc
<1>3. TrapIsNew
  BY <1>1, <1>2 DEF TrapIsNew
<1>4. EndsAtZero
  <2>1. \A p \in IOProcs \union CompProcs : ~(Terminate[p] <= laps[p])
    <3> SUFFICES ASSUME NEW p \in IOProcs \union CompProcs PROVE ~(Terminate[p] <= laps[p])
      OBVIOUS
    <3>1. Terminate[p] \in Nat \ {0} /\ p \in Proc
      BY UserPrograms DEF Proc
    <3>. QED
      BY <1>1, <3>1
  <2>. QED
    BY <1>1, <2>1, NoSvcNoLock DEF EndsAtZero
<1>5. StartsAtZero
  BY <1>2, PairProcs DEF StartsAtZero
<1>6. ServedAtRequest
  BY <1>1, NoSvcNoLock DEF ServedAtRequest
<1>7. ASSUME NEW m \in Mutex, NEW p \in Members(m[1])
      PROVE  /\ p \in Proc /\ p # NoProc /\ CPU(p) = 0 /\ step[p] = "UNKNOWN"
             /\ LockPC(p, m) \in Nat /\ UnlockPC(p, m) \in Nat
             /\ 0 < LockPC(p, m) /\ 0 < UnlockPC(p, m)
  BY <1>2, Member, Program
<1>8. DueIsOwned
  BY <1>7 DEF DueIsOwned, Due
<1>9. OwnedIsNotPassed
  BY <1>7 DEF OwnedIsNotPassed, NotPassed
<1>10. QueuedAtRequest /\ BlockedOnAnother
  <2>1. (\A m \in Mutex : Range(blocked[m]) = {}) /\ (\A c \in Cond : Range(waiting[c]) = {})
    BY <1>1, EmptyQueue
  <2>. QED
    BY <2>1 DEF QueuedAtRequest, BlockedOnAnother
<1>. QED
  BY <1>3, <1>4, <1>5, <1>6, <1>8, <1>9, <1>10 DEF LocksOK

\* If no trap is served twice, an owner is between its lock and its unlock,
\* who has locked a mutex owns it or queues for it, and who queues is where
\* it asked to (check_for_syncro_trap, lock_tsr, unlock_tsr, wait_tsr,
\* signal_tsr, IO_check).
THEOREM LocksAreKept ==
    ASSUME NoTrapAgain
    PROVE  Spec => []LocksOK
<1>1. Init => LocksOK
  BY InitLocks
<1>2. Inv /\ Inv' /\ PlacesOK /\ PairsOK /\ LegalOK /\ LocksOK /\ [Next]_vars => LocksOK'
  <2> SUFFICES ASSUME Inv, Inv', PlacesOK, PairsOK, LegalOK, LocksOK, [Next]_vars
               PROVE  LocksOK'
    OBVIOUS
  <2>1. TrapIsNew'
    BY NextTrapIsNew
  <2>2. EndsAtZero' /\ StartsAtZero'
    BY NextEndsAtZero, NextStartsAtZero
  <2>3. ServedAtRequest'
    BY NextServedAtRequest
  <2>4. DueIsOwned' /\ OwnedIsNotPassed'
    BY NextDueIsOwned, NextOwnedIsNotPassed
  <2>5. QueuedAtRequest' /\ BlockedOnAnother'
    BY NextQueues
  <2>. QED
    BY <2>1, <2>2, <2>3, <2>4, <2>5 DEF LocksOK
<1>. QED
  BY <1>1, <1>2, Invariance, PlacesAreKept, PairsAreKept, LegalIsKept, PTL DEF Spec

\* The owner of a mutex is the process that is inside, whatever interrupts,
\* preemptions, handovers and wake-ups there were since it locked it.
THEOREM MutualExclusion ==
    ASSUME NoTrapAgain
    PROVE  Spec => []OwnerIsInside
<1>1. Inv /\ PlacesOK /\ LocksOK => OwnerIsInside
  <2> SUFFICES ASSUME Inv, PlacesOK, LocksOK, NEW m \in Mutex, m[1] \in pairs,
                      NEW p \in Members(m[1]), Inside(p, m)
               PROVE  owner[m] = p
    BY DEF OwnerIsInside
  <2>1. LockPC(p, m) < CPU(p) /\ CPU(p) < UnlockPC(p, m) /\ ~Asleep(p)
    BY DEF Inside
  <2>2. Claims(p, m)
    BY <2>1 DEF LocksOK, DueIsOwned, Due
  <2>3. p \notin Range(blocked[m])
    <3>1. p \in Range(blocked[m]) => Blocked(p)
      BY DEF Blocked
    <3>2. p \in Range(blocked[m]) =>
             CPU(p) = LockPC(p, m) \/ (m[2] = "mutex" /\ CPU(p) = CP_WAIT_PC)
      BY DEF LocksOK, QueuedAtRequest
    <3>3. CPU(p) # LockPC(p, m)
      BY <2>1, Program
    <3>. QED
      BY <3>1, <3>2, <3>3 DEF Inside
  <2>. QED
    BY <2>1, <2>2, <2>3 DEF Claims
<1>. QED
  BY <1>1, LocksAreKept, Invariance, PlacesAreKept, PTL

\* Nobody is blocked on a mutex that is free or that it owns itself, also
\* after the producer or the consumer was woken up to queue for the mutex.
THEOREM NobodyBlockedInVain ==
    ASSUME NoTrapAgain
    PROVE  Spec => []BlockedOnAnother
<1>1. LocksOK => BlockedOnAnother
  BY DEF LocksOK
<1>. QED
  BY <1>1, LocksAreKept, PTL

-----------------------------------------------------------------------------
(***************************************************************************)
(* Without the DEADLOCK option.                                            *)
(***************************************************************************)
InnerOf(own) ==
    \A pair \in ResPairs : own[<<pair, "mutex_2">>] \in {NoProc, own[<<pair, "mutex_1">>]}

\* Both processes lock mutex_1 first and unlock it last.
LEMMA SameOrder ==
    ASSUME ~DEADLOCK, NEW pair \in ResPairs, NEW p \in Members(pair)
    PROVE  LET m1 == <<pair, "mutex_1">>
               m2 == <<pair, "mutex_2">>
           IN  /\ LockPC(p, m1) < LockPC(p, m2) /\ LockPC(p, m2) < UnlockPC(p, m2)
               /\ UnlockPC(p, m2) < UnlockPC(p, m1)
               /\ m1 \in Mutex /\ m2 \in Mutex /\ m1 # m2 /\ m1[1] = pair /\ m2[1] = pair
               /\ m1[2] # "mutex" /\ m2[2] # "mutex"
               /\ {LockPC(p, m1), LockPC(p, m2), UnlockPC(p, m2), UnlockPC(p, m1)} \subseteq Nat
<1> DEFINE m1 == <<pair, "mutex_1">>
           m2 == <<pair, "mutex_2">>
<1>1. /\ m1 \in Mutex /\ m2 \in Mutex /\ m1 # m2 /\ m1[1] = pair /\ m2[1] = pair
      /\ m1[2] = "mutex_1" /\ m2[2] = "mutex_2"
  BY MutexPair
<1>2. Swapped(p) = FALSE
  BY DEF Swapped
<1>3. /\ (m1[2] = "mutex_1") # Swapped(p)
      /\ (m2[2] = "mutex_1") = Swapped(p)
      /\ m1[2] # "mutex" /\ m2[2] # "mutex"
  BY <1>1, <1>2
<1> HIDE DEF m1, m2
<1>4. /\ LockPC(p, m1) = RES_LOCK1_PC /\ UnlockPC(p, m1) = RES_UNLOCK1_PC
      /\ LockPC(p, m2) = RES_LOCK2_PC /\ UnlockPC(p, m2) = RES_UNLOCK2_PC
  BY <1>3 DEF LockPC, UnlockPC
<1>. QED
  BY <1>1, <1>3, <1>4, SyncroPrograms DEF m1, m2

\* A process that has come to the lock of mutex_2 and is in no other queue
\* owns mutex_1.
LEMMA OuterFirst ==
    ASSUME ~DEADLOCK, Inv, PlacesOK, LocksOK,
           NEW pair \in pairs \intersect ResPairs, NEW p \in Members(pair),
           CPU(p) = LockPC(p, <<pair, "mutex_2">>), p \notin Range(blocked[<<pair, "mutex_1">>])
    PROVE  owner[<<pair, "mutex_1">>] = p
<1> DEFINE m1 == <<pair, "mutex_1">>
<1>1. /\ LockPC(p, m1) < CPU(p) /\ CPU(p) < UnlockPC(p, m1)
      /\ m1 \in Mutex /\ m1[1] = pair /\ m1[2] # "mutex"
  BY SameOrder
<1> HIDE DEF m1
<1>2. Claims(p, m1)
  BY <1>1 DEF LocksOK, DueIsOwned, Due
<1>. QED
  BY <1>1, <1>2 DEF Claims, m1

LEMMA ServedInner ==
    ASSUME ~DEADLOCK, Inv, PlacesOK, PairsOK, LegalOK, LocksOK, InnerOf(owner),
           NEW own, NEW blk, NEW tb, Served(own, blk, tb)
    PROVE  InnerOf(own)
<1>0. InnerOf(own) <=> \A pair \in ResPairs :
                          own[<<pair, "mutex_2">>] \in {NoProc, own[<<pair, "mutex_1">>]}
  BY DEF InnerOf
<1> SUFFICES ASSUME NEW pair \in ResPairs
             PROVE  own[<<pair, "mutex_2">>] \in {NoProc, own[<<pair, "mutex_1">>]}
  BY <1>0, Zenon
<1> DEFINE m1 == <<pair, "mutex_1">>
           m2 == <<pair, "mutex_2">>
<1>1. /\ m1 \in Mutex /\ m2 \in Mutex /\ m1 # m2 /\ m1[1] = pair /\ m2[1] = pair
      /\ m1[2] # "mutex" /\ m2[2] # "mutex"
      /\ \A m \in Mutex : m[1] = pair => m \in {m1, m2}
  BY MutexPair DEF PairMutexes
<1>2. owner[m2] \in {NoProc, owner[m1]}
  BY DEF InnerOf
<1>3. /\ svc.op \in SyncOps
      /\ \A n \in Mutex \ {M} : own[n] = owner[n]
  BY DEF Served
<1>4. /\ P \in Proc \ {Idle} /\ P \notin Held(blocked) /\ P # NoProc
      /\ M \in Mutex /\ P \in Members(M[1]) /\ M[1] \in pairs
      /\ svc.op \in LockOps => CPU(P) = LockPC(P, M)
      /\ svc.op \in UnlockOps => CPU(P) = UnlockPC(P, M)
      /\ svc.op \notin LockOps => owner[M] = P
  BY <1>3, AtService, CPOrRes
<1>5. P \notin Range(blocked[m1])
  BY <1>1, <1>4, LockFamilies
<1>6. CASE M \notin {m1, m2}
  BY <1>1, <1>2, <1>3, <1>6
<1>7. CASE M \in {m1, m2}
  <2>1. M[1] = pair /\ pair \in pairs /\ P \in Members(pair)
    BY <1>1, <1>4, <1>7
  <2>2. svc.op \notin {"WAIT_RESOURCE_1", "SIGNAL_RESOURCE_1"}
    BY <2>1, CPOrRes DEF Served
  <2>3. CASE Joins(P, own, blk, tb)
    BY <1>2, <2>3 DEF Joins
  <2>4. CASE Granted(own, blk, tb)
    <3>1. owner[M] \in {NoProc, P} /\ own[M] = P /\ svc.op \in LockOps
      BY <2>4 DEF Granted, LegalOK, LockDecided
    <3>2. CASE M = m1
      <4>1. own[m2] = owner[m2] /\ owner[m2] \in {NoProc, P}
        BY <1>1, <1>2, <1>3, <3>1, <3>2
      <4>. QED
        BY <3>1, <3>2, <4>1
    <3>3. CASE M = m2
      <4>1. CPU(P) = LockPC(P, <<pair, "mutex_2">>)
        BY <1>4, <3>1, <3>3
      <4>2. owner[m1] = P
        BY <1>5, <2>1, <4>1, OuterFirst
      <4>. QED
        BY <1>1, <1>3, <3>1, <3>3, <4>2
    <3>. QED
      BY <1>7, <3>2, <3>3
  <2>5. CASE svc.op \in UnlockOps /\ GivenUp(own, blk, tb)
    <3>1. owner[M] = P /\ CPU(P) = UnlockPC(P, M)
      BY <1>4, <2>5 DEF LockOps, UnlockOps
    <3>2. CASE M = m1
      <4>1. UnlockPC(P, m2) < UnlockPC(P, m1)
            /\ UnlockPC(P, m2) \in Nat /\ UnlockPC(P, m1) \in Nat
        BY <2>1, SameOrder
      <4>2. owner[m2] # P
        <5>1. owner[m2] = P => NotPassed(P, m2)
          BY <1>1, <2>1 DEF LocksOK, OwnedIsNotPassed
        <5>2. NotPassed(P, m2) => CPU(P) < UnlockPC(P, m2) \/ CPU(P) = UnlockPC(P, m2)
          BY DEF NotPassed
        <5>. QED
          BY <3>1, <3>2, <4>1, <5>1, <5>2
      <4>3. own[m2] = NoProc
        BY <1>1, <1>2, <1>3, <3>1, <3>2, <4>2
      <4>. QED
        BY <4>3
    <3>3. CASE M = m2
      <4>1. CASE own[M] = NoProc
        BY <3>3, <4>1
      <4>2. CASE own[M] # NoProc
        <5>1. PICK heir \in Range(blocked[M]) : own[M] = heir
          BY <2>5, <4>2 DEF GivenUp
        <5>2. heir \in Range(blocked[m2])
          BY <3>3, <5>1
        <5>3. heir \in Members(pair)
          BY <1>1, <5>2 DEF PairsOK, OwnLocksOnly
        <5>4. CPU(heir) = LockPC(heir, <<pair, "mutex_2">>)
          BY <1>1, <5>2 DEF LocksOK, QueuedAtRequest
        <5>5. heir \notin Range(blocked[m1])
          <6>1. DOMAIN blocked = Mutex /\ Apart(blocked)
            BY LockFamilies
          <6>. QED
            BY <1>1, <5>2, <6>1 DEF Apart
        <5>6. owner[m1] = heir
          BY <2>1, <5>3, <5>4, <5>5, OuterFirst
        <5>. QED
          BY <1>1, <1>3, <3>3, <5>1, <5>6
      <4>. QED
        BY <4>1, <4>2
    <3>. QED
      BY <1>7, <3>2, <3>3
  <2>. QED
    BY <2>2, <2>3, <2>4, <2>5 DEF Served
<1>. QED
  BY <1>6, <1>7

\* Then the owners and the blocked processes of a pair make no cycle.
LEMMA NoCycle ==
    ASSUME NEW own, NEW blk, NEW wt, DOMAIN blk = Mutex, Apart(blk),
           OwnLocksOnly(own, blk, wt), InnerOf(own),
           \A m \in Mutex : m[1] \in ResPairs =>
              \A x \in Range(blk[m]) : own[m] \notin {NoProc, x},
           NEW pair \in ResPairs
    PROVE  EdgeCount(pair, own, blk) # 4
<1> SUFFICES ASSUME EdgeCount(pair, own, blk) = 4 PROVE FALSE
  OBVIOUS
<1> DEFINE m1 == <<pair, "mutex_1">>
           m2 == <<pair, "mutex_2">>
           p  == pair[1]
           q  == pair[2]
<1>1. /\ p # q /\ m1 \in Mutex /\ m2 \in Mutex /\ m1[1] = pair /\ m2[1] = pair
      /\ Members(pair) = {p, q} /\ PairMutexes(pair) = {m1, m2}
  BY PairsDisjoint, MutexPair DEF Pairs, Members, PairMutexes
<1>2. /\ \E m \in {m1, m2} : p \in Range(blk[m])
      /\ \E m \in {m1, m2} : q \in Range(blk[m])
  BY <1>1, FourEdgesBlocked
<1>3. own[m2] \in {NoProc, own[m1]}
  BY DEF InnerOf
<1> HIDE DEF m1, m2, p, q
<1>4. \A m \in {m1, m2} : /\ own[m] \in {p, q, NoProc}
                          /\ \A x \in Range(blk[m]) : own[m] \notin {NoProc, x}
  BY <1>1 DEF OwnLocksOnly
<1>. QED
  BY <1>1, <1>2, <1>3, <1>4

LEMMA NextInner ==
    ASSUME ~DEADLOCK, Inv, PlacesOK, PairsOK, LegalOK, LocksOK, InnerOf(owner), [Next]_vars
    PROVE  InnerOf(owner') /\ pairs \subseteq pairs'
<1>1. CASE Creates
  <2>1. owner' = owner
    BY <1>1, CreationKeeps
  <2>2. pairs \subseteq pairs'
    BY <1>1, CreationSeen DEF Creates
  <2>. QED
    BY <2>1, <2>2
<1>2. CASE ~Creates
  <2>1. PICK own, blk, tb : /\ LockStep(own, blk, tb) /\ Destructs(own, blk, tb)
                            /\ Moves(blk, Lost)
    BY <1>2, StepIsSeen DEF StepSeen, Creates
  <2>2. Effect(own, blk, tb) /\ DOMAIN blk = Mutex /\ OwnLocksOnly(own, blk, waiting')
    BY <2>1, LockStepEffect, LockStepDomain, OwnLockStep DEF PairsOK
  <2>3. \A m \in Mutex : m[1] \in ResPairs =>
           \A p \in Range(blk[m]) : own[m] \notin {NoProc, p}
    BY <2>2, ResLocksLegal
  <2>4. InnerOf(own)
    <3>1. CASE Served(own, blk, tb)
      BY <3>1, ServedInner
    <3>2. CASE Stays(own, blk, tb)
      BY <3>2 DEF Stays
    <3>. QED
      BY <2>2, <3>1, <3>2 DEF Effect
  <2>5. Apart(blk)
    BY <2>1 DEF Moves
  <2>6. Deadlocked(own, blk) = {}
    BY <2>2, <2>3, <2>4, <2>5, NoCycle DEF Deadlocked
  <2>7. pairs' = pairs /\ owner' = [m \in Mutex |-> own[m]]
    BY <2>1, <2>6 DEF Destructs
  <2>8. \A m \in Mutex : owner'[m] = own[m]
    BY <2>7
  <2>9. \A pair \in ResPairs : /\ owner'[<<pair, "mutex_1">>] = own[<<pair, "mutex_1">>]
                               /\ owner'[<<pair, "mutex_2">>] = own[<<pair, "mutex_2">>]
    <3>1. \A pair \in ResPairs : <<pair, "mutex_1">> \in Mutex /\ <<pair, "mutex_2">> \in Mutex
      BY MutexPair, Zenon
    <3>. QED
      BY <2>8, <3>1, Zenon
  <2>. QED
    BY <2>4, <2>7, <2>9 DEF InnerOf
<1>. QED
  BY <1>1, <1>2

\* If both processes of a pair lock in the same order and no trap is served
\* twice, the second mutex is held only with the first.
THEOREM SecondWithFirst ==
    ASSUME NoTrapAgain
    PROVE  Spec => []InnerHasOuter
<1>1. InnerHasOuter <=> (~DEADLOCK => InnerOf(owner))
  BY DEF InnerHasOuter, InnerOf
<1>2. Init => InnerHasOuter
  <2> SUFFICES ASSUME Init, NEW pair \in ResPairs PROVE owner[<<pair, "mutex_2">>] = NoProc
    BY Zenon DEF InnerHasOuter
  <2>1. owner = [m \in Mutex |-> NoProc]
    BY DEF Init
  <2>2. <<pair, "mutex_2">> \in Mutex
    BY MutexPair, Zenon
  <2>. QED
    BY <2>1, <2>2
<1>3. Inv /\ PlacesOK /\ PairsOK /\ LegalOK /\ LocksOK /\ InnerHasOuter /\ [Next]_vars
         => InnerHasOuter'
  <2>1. ASSUME Inv, PlacesOK, PairsOK, LegalOK, LocksOK, InnerHasOuter, [Next]_vars, ~DEADLOCK
        PROVE  InnerOf(owner')
    BY <1>1, <2>1, NextInner
  <2>2. InnerHasOuter' <=> (~DEADLOCK => InnerOf(owner'))
    BY DEF InnerHasOuter, InnerOf
  <2>. QED
    BY <2>1, <2>2
<1>. QED
  BY <1>2, <1>3, Invariance, PlacesAreKept, PairsAreKept, LegalIsKept, LocksAreKept, PTL DEF Spec

\* Then no pair is ever taken for deadlocked, and none is destructed.
THEOREM NoPairDestructed ==
    ASSUME NoTrapAgain, ~DEADLOCK
    PROVE  Spec => NeverDestructed
<1>1. InnerHasOuter <=> InnerOf(owner)
  BY DEF InnerHasOuter, InnerOf
<1>2. Inv /\ PlacesOK /\ PairsOK /\ LegalOK /\ LocksOK /\ InnerHasOuter /\ [Next]_vars
         => [pairs \subseteq pairs']_vars
  BY <1>1, NextInner
<1>. QED
  BY <1>2, Invariance, PlacesAreKept, PairsAreKept, LegalIsKept, LocksAreKept, SecondWithFirst, PTL
     DEF Spec, NeverDestructed

-----------------------------------------------------------------------------
(***************************************************************************)
(* The slot of a CP pair.                                                  *)
(***************************************************************************)

\* The value is counted when the service is entered, and the flag is set when
\* it ends.
LEMMA DataStep ==
    ASSUME [Next]_vars
    PROVE  \/ UNCHANGED dataVars /\ ~EnterSignal /\ ~SignalNobody /\ ~SignalWakes
           \/ EnterSignal
           \/ SignalNobody \/ SignalWakes
<1> USE DEF dataVars
<1>1. CASE Creation \/ SimulateProgramStep \/ UNCHANGED vars
  BY <1>1 DEF Creation, CreateIOProcess, CreateComputeIntensiveProcess,
              CreateConsumerProducerPair, CreateSharedResourcePair, CreationDone, Enter,
              SimulateProgramStep, vars
<1>2. CASE Interrupts
  BY <1>2 DEF Interrupts, NoTimerInterrupt, PseudoISR, NoIOInterrupt, IOInterrupt, IOReturn
<1>3. CASE EnterService
  BY <1>3 DEF EnterService, NoTrap, EnterTermination, EnterIOTrap, EnterLock, EnterUnlock, EnterWait
<1>4. CASE FinishService
  BY <1>4 DEF FinishService, FinishTermination, FinishIOTrap, LockGranted, LockBlocks,
              UnlockFree, UnlockHandsOver, Wait, Serve
<1>. QED
  BY <1>1, <1>2, <1>3, <1>4 DEF Next

LEMMA SignalEffect ==
    ASSUME SignalNobody \/ SignalWakes
    PROVE  /\ svc.op = "SIGNAL_RESOURCE_1" /\ svc' = NoSvc /\ FinishService
           /\ filled' = [filled EXCEPT ![PairOf(P)] = IsProducer(P)]
           /\ UNCHANGED <<counter, reads>>
BY DEF SignalNobody, SignalWakes, Serve, SetFilled, FinishService

LEMMA EnterSignalEffect ==
    ASSUME EnterSignal
    PROVE  /\ Requested = "SIGNAL_RESOURCE_1" /\ EnterService /\ filled' = filled
           /\ IF IsProducer(running)
              THEN /\ counter' = [counter EXCEPT ![PairOf(running)] = (@ + 1) % CounterModulus]
                   /\ reads' = reads
              ELSE /\ reads' = [reads EXCEPT ![PairOf(running)] = (@ + 1) % CounterModulus]
                   /\ counter' = counter
BY DEF EnterSignal, EnterTSR, EnterService

\* Only EnterSignal begins the service, and only its two ends end it.
LEMMA SignalService ==
    ASSUME ~EnterSignal, ~SignalNobody, ~SignalWakes
    PROVE  /\ EnterService => svc'.op # "SIGNAL_RESOURCE_1" \/ svc' = svc
           /\ FinishService => svc.op # "SIGNAL_RESOURCE_1"
<1>1. ASSUME EnterService PROVE svc'.op # "SIGNAL_RESOURCE_1" \/ svc' = svc
  BY <1>1 DEF EnterService, NoTrap, EnterTermination, EnterIOTrap, EnterLock, EnterUnlock,
              EnterWait, EnterTSR, IOTraps, LockOps, UnlockOps
<1>2. ASSUME FinishService PROVE svc.op # "SIGNAL_RESOURCE_1"
  BY <1>2 DEF FinishService, FinishTermination, FinishIOTrap, LockGranted, LockBlocks,
              UnlockFree, UnlockHandsOver, Wait, Serve, IOTraps, LockOps, UnlockOps
<1>. QED
  BY <1>1, <1>2

\* Two values that follow each other can be told apart.
LEMMA NextValue ==
    ASSUME NEW v \in 0 .. CounterModulus - 1
    PROVE  /\ (v + 1) % CounterModulus \in 0 .. CounterModulus - 1
           /\ (v + 1) % CounterModulus # v
<1>1. CounterModulus \in Nat /\ CounterModulus > 1
  BY KernelBounds
<1>2. CASE v + 1 < CounterModulus
  <2>1. (v + 1) % CounterModulus = v + 1
    BY <1>1, <1>2
  <2>. QED
    BY <1>1, <1>2, <2>1
<1>3. CASE v + 1 = CounterModulus
  <2>1. (v + 1) % CounterModulus = 0
    BY <1>1, <1>3
  <2>. QED
    BY <1>1, <1>3, <2>1
<1>. QED
  BY <1>1, <1>2, <1>3

\* The members of a pair need the slot in different states, and request at
\* CP_SIGNAL_PC the signal and at CP_WAIT_PC the wait.
LEMMA PairProgram ==
    ASSUME NEW pair \in CPPairs, NEW p \in Members(pair)
    PROVE  /\ PairOf(p) = pair /\ p \in CPProcs /\ p \in Proc \ {Idle}
           /\ p \notin IOProcs \union CompProcs /\ p # NoProc
           /\ <<pair, "mutex">> \in Mutex
           /\ \A q \in Members(pair) : q # p => (IsProducer(q) <=> ~IsProducer(p))
           /\ \A c \in Nat : /\ IsAtSyncro(p, c) = "SIGNAL_RESOURCE_1" <=> c = CP_SIGNAL_PC
                             /\ IsAtSyncro(p, c) = "WAIT_RESOURCE_1" <=> c = CP_WAIT_PC
           /\ 0 < CP_WAIT_PC /\ CP_WAIT_PC + 1 < CP_SIGNAL_PC /\ CP_SIGNAL_PC < MaxPC(p)
           /\ {CP_WAIT_PC, CP_SIGNAL_PC, MaxPC(p)} \subseteq Nat
<1>1. <<pair, "mutex">> \in Mutex
  BY DEF Mutex
<1>2. /\ PairOf(p) = pair /\ p \in CPProcs /\ p \in Proc \ {Idle}
      /\ p \notin IOProcs \union CompProcs /\ p # NoProc
  <2>1. p \in Members(<<pair, "mutex">>[1])
    OBVIOUS
  <2>. QED
    BY <1>1, <2>1, MutexOfPair, Member
<1>3. \A q \in Members(pair) : q # p => (IsProducer(q) <=> ~IsProducer(p))
  <2>1. ASSUME NEW q \in Members(pair) PROVE PairOf(q) = pair
    <3>1. q \in Members(<<pair, "mutex">>[1])
      OBVIOUS
    <3>. QED
      BY <1>1, <3>1, MutexOfPair
  <2>. QED
    BY <1>2, <2>1 DEF IsProducer, Members
<1>a. p \notin ResProcs /\ p # Idle
  BY <1>2, ProcessesDistinct
<1>4. MaxPC(p) = CP_MAX_PC
  BY <1>2, <1>a DEF MaxPC
<1>5. \A c \in Nat : IsAtSyncro(p, c) = CPService(c)
  BY <1>2, <1>a DEF IsAtSyncro
<1>6. \A c \in Nat : /\ CPService(c) = "SIGNAL_RESOURCE_1" <=> c = CP_SIGNAL_PC
                     /\ CPService(c) = "WAIT_RESOURCE_1" <=> c = CP_WAIT_PC
  <2>1. /\ CP_LOCK_PC # CP_SIGNAL_PC /\ CP_WAIT_PC # CP_SIGNAL_PC /\ CP_LOCK_PC # CP_WAIT_PC
        /\ CP_UNLOCK_PC # CP_WAIT_PC /\ CP_UNLOCK_PC # CP_SIGNAL_PC
    BY SyncroPrograms
  <2>. QED
    BY <2>1 DEF CPService
<1>. QED
  BY <1>1, <1>2, <1>3, <1>4, <1>5, <1>6, SyncroPrograms

\* A process comes past the wait from the wait, or it has skipped it because
\* the slot was as it needs it.
LEMMA NextPastWait ==
    ASSUME NEW pair \in CPPairs, NEW p \in Members(pair), NEW c \in Nat
    PROVE  LET n == NextPC(p, c)
               d == IF SkipsWait(p, n) THEN n + 1 ELSE n
           IN  /\ CP_WAIT_PC < d /\ d <= CP_SIGNAL_PC =>
                      \/ c = CP_WAIT_PC
                      \/ CP_WAIT_PC < c /\ c < CP_SIGNAL_PC
                      \/ IsProducer(p) <=> ~filled[pair]
<1> DEFINE n == NextPC(p, c)
           d == IF SkipsWait(p, n) THEN n + 1 ELSE n
<1>1. n = IF c + 1 > MaxPC(p) THEN 0 ELSE c + 1
  BY DEF NextPC
<1>2. SkipsWait(p, n) => n = CP_WAIT_PC /\ (IsProducer(p) <=> ~filled[pair])
  BY PairProgram, Zenon DEF SkipsWait
<1>3. /\ CP_WAIT_PC + 1 < CP_SIGNAL_PC /\ CP_SIGNAL_PC < MaxPC(p)
      /\ CP_WAIT_PC \in Nat /\ CP_SIGNAL_PC \in Nat /\ MaxPC(p) \in Nat
  BY PairProgram
<1>4. ~SkipsWait(p, n) => d = n
  OBVIOUS
<1>5. CP_WAIT_PC < n /\ n <= CP_SIGNAL_PC => c = CP_WAIT_PC \/ (CP_WAIT_PC < c /\ c < CP_SIGNAL_PC)
  <2> HIDE DEF n
  <2>. QED
    BY <1>1, <1>3
<1>6. CP_WAIT_PC < d /\ d <= CP_SIGNAL_PC =>
          \/ c = CP_WAIT_PC
          \/ CP_WAIT_PC < c /\ c < CP_SIGNAL_PC
          \/ IsProducer(p) <=> ~filled[pair]
  <2> HIDE DEF n, d
  <2>. QED
    BY <1>2, <1>4, <1>5, Zenon
<1>. QED
  BY <1>6

\* Nobody who sleeps is woken up but by a signal of its own pair.
LEMMA AsleepStays ==
    ASSUME Inv, Inv', PlacesOK, PairsOK, LocksOK, [Next]_vars,
           NEW pair \in CPPairs, NEW p \in Members(pair), Asleep(p), ~SimulateProgramStep,
           ~(FinishService /\ svc.op = "SIGNAL_RESOURCE_1" /\ PairOf(P) = pair)
    PROVE  Asleep(p)'
<1>1. PairOf(p) = pair /\ p # NoProc
  BY PairProgram
<1>2. CASE waiting' = waiting /\ svc.op # "WAIT_RESOURCE_1"
  <2>1. svc # [op |-> "WAIT_RESOURCE_1", proc |-> p]
    BY <1>2
  <2>. QED
    BY <1>2, <2>1 DEF Asleep
<1>3. CASE Creates \/ (svc' = svc /\ waiting' = waiting)
  BY <1>3, CreationKeeps DEF Asleep
<1>4. CASE ~Creates
  <2>1. PICK own, blk, tb :
           \/ /\ Rest \/ SimulateProgramStep \/ EnterService
              /\ Stays(own, blk, tb) /\ waiting' = waiting
           \/ /\ FinishService /\ svc.op \in SyncOps
              /\ \/ Served(own, blk, tb)
                 \/ /\ svc.op = "SIGNAL_RESOURCE_1"
                    /\ Stays(own, blk, tb) /\ waiting' = waiting
    BY <1>4, LockKinds
  <2>2. CASE Rest /\ waiting' = waiting
    BY <1>2, <1>3, <2>2, RestKeeps DEF LocksOK, SyncOps
  <2>3. CASE EnterService /\ waiting' = waiting
    <3>1. svc.op # "WAIT_RESOURCE_1"
      BY <2>3, TrapStep DEF NoSvc
    <3>. QED
      BY <1>2, <2>3, <3>1
  <2>4. CASE svc.op = "SIGNAL_RESOURCE_1" /\ waiting' = waiting
    BY <1>2, <2>4
  <2>5. CASE FinishService /\ svc.op \in SyncOps /\ Served(own, blk, tb)
    <3>1. p \in Held(waiting) \/ (svc.op = "WAIT_RESOURCE_1" /\ p = P)
      <4>1. (\E c \in Cond : p \in Range(waiting[c])) => p \in Held(waiting)
        BY LockFamilies
      <4>. QED
        BY <4>1 DEF Asleep, P
    <3>2. p \in Held(waiting')
      <4>1. CASE UNCHANGED <<waiting, total_waiting>> /\ svc.op # "WAIT_RESOURCE_1"
        BY <3>1, <4>1
      <4>2. CASE FallsAsleep
        BY <3>1, <4>2 DEF FallsAsleep
      <4>3. CASE svc.op = "SIGNAL_RESOURCE_1" /\ \E w : Joins(w, own, blk, tb) /\ WakesUp(w)
        <5>1. PICK w : Joins(w, own, blk, tb) /\ WakesUp(w)
          BY <4>3
        <5>2. M \in Mutex /\ P \in Members(M[1]) /\ w \in Members(M[1])
          BY <2>5, <5>1, AtService DEF Joins
        <5>3. M[1] = PairOf(P) /\ M[1] = PairOf(w)
          BY <5>2, MutexOfPair
        <5>4. p # w
          BY <1>1, <2>5, <4>3, <5>3
        <5>. QED
          BY <3>1, <4>3, <5>1, <5>4 DEF WakesUp
      <4>. QED
        BY <2>5, <4>1, <4>2, <4>3 DEF Served, Granted, LockOps, UnlockOps
    <3>3. waiting' \in [Cond -> Seq(Proc)]
      BY DEF Inv, TypeOK
    <3>4. \E c \in Cond : p \in Range(waiting'[c])
      BY <3>2, <3>3, HeldBy
    <3>. QED
      BY <3>4 DEF Asleep
  <2>. QED
    BY <2>1, <2>2, <2>3, <2>4, <2>5
<1>. QED
  BY <1>3, <1>4

\* Nobody comes past the wait who was not there, but for one that skips the
\* wait, and one whose partner has just signalled.
LEMMA PastWaitBefore ==
    ASSUME Inv, Inv', PlacesOK, PairsOK, LocksOK, [Next]_vars,
           NEW pair \in CPPairs, NEW p \in Members(pair), PastWait(p)',
           ~(FinishService /\ svc.op = "SIGNAL_RESOURCE_1" /\ PairOf(P) = pair)
    PROVE  PastWait(p) \/ (SimulateProgramStep /\ (IsProducer(p) <=> ~filled[pair]))
<1>1. /\ p \in Proc \ {Idle} /\ p # NoProc /\ p \notin IOProcs \union CompProcs
      /\ CP_WAIT_PC \in Nat /\ CP_SIGNAL_PC \in Nat
      /\ 0 < CP_WAIT_PC /\ CP_WAIT_PC < CP_SIGNAL_PC
      /\ CPU(p) \in Nat /\ CPU(p)' \in Nat /\ step \in [Proc -> StepStates]
  <2>1. /\ p \in Proc \ {Idle} /\ p # NoProc /\ p \notin IOProcs \union CompProcs
        /\ CP_WAIT_PC \in Nat /\ CP_SIGNAL_PC \in Nat
        /\ 0 < CP_WAIT_PC /\ CP_WAIT_PC + 1 < CP_SIGNAL_PC
    BY PairProgram
  <2>2. CPU(p) \in Nat /\ CPU(p)' \in Nat /\ step \in [Proc -> StepStates]
    BY <2>1 DEF CPU, Inv, TypeOK
  <2>. QED
    BY <2>1, <2>2
<1>2. /\ EndsAtZero /\ TrapIsNew
      /\ step[p] = "UNKNOWN" => CPU(p) = 0
  BY <1>1 DEF LocksOK, StartsAtZero, Pairs
<1>3. \/ CP_WAIT_PC < CPU(p)' /\ CPU(p)' < CP_SIGNAL_PC
      \/ CPU(p)' = CP_WAIT_PC /\ step'[p] = "FINISHED" /\ ~(Asleep(p)')
      \/ CPU(p)' = CP_SIGNAL_PC /\ (step'[p] # "FINISHED" \/ svc'.proc = p)
  BY DEF PastWait
<1>4. PastWait(p) <=>
         \/ CP_WAIT_PC < CPU(p) /\ CPU(p) < CP_SIGNAL_PC
         \/ CPU(p) = CP_WAIT_PC /\ step[p] = "FINISHED" /\ ~Asleep(p)
         \/ CPU(p) = CP_SIGNAL_PC /\ (step[p] # "FINISHED" \/ svc.proc = p)
  BY DEF PastWait
<1>5. CASE ~SimulateProgramStep /\ ~EnterService
  <2>1. /\ step'[p] = step[p] /\ (CPU(p)' = CPU(p) \/ CPU(p)' = 0)
        /\ svc' = svc \/ svc' = NoSvc
    BY <1>1, <1>2, <1>5, StepKinds, CreationKeeps, RestKeeps, ServiceKeeps
  <2>2. CPU(p)' = CPU(p)
    BY <1>1, <1>3, <2>1
  <2>3. Asleep(p) => Asleep(p)'
    BY <1>5, AsleepStays
  <2>4. svc'.proc = p => svc.proc = p
    BY <1>1, <2>1 DEF NoSvc
  <2>. QED
    BY <1>3, <1>4, <2>1, <2>2, <2>3, <2>4
<1>6. CASE SimulateProgramStep
  <2>1. /\ svc = NoSvc /\ svc' = NoSvc /\ waiting' = waiting
    BY <1>6, ProgramStep
  <2>2. Asleep(p)' <=> Asleep(p)
    BY <2>1 DEF Asleep
  <2>3. CASE CPU(p)' = CPU(p) /\ step'[p] = step[p]
    BY <1>3, <1>4, <2>1, <2>2, <2>3
  <2>4. CASE ~(CPU(p)' = CPU(p) /\ step'[p] = step[p])
    <3>1. /\ p = running /\ step[p] # "UNFINISHED" /\ step'[p] = "UNFINISHED"
          /\ CPU(p)' = LET c == NextPC(p, CPU(p))
                       IN  IF SkipsWait(p, c) THEN c + 1 ELSE c
      BY <1>1, <1>6, <2>4, ProgramStep
    <3>2. CP_WAIT_PC < CPU(p)' /\ CPU(p)' <= CP_SIGNAL_PC
      BY <1>1, <1>3, <3>1
    <3>3. \/ CPU(p) = CP_WAIT_PC
          \/ CP_WAIT_PC < CPU(p) /\ CPU(p) < CP_SIGNAL_PC
          \/ IsProducer(p) <=> ~filled[pair]
      BY <1>1, <3>1, <3>2, NextPastWait
    <3>4. CPU(p) = CP_WAIT_PC => step[p] = "FINISHED"
      BY <1>1, <1>2, <3>1 DEF StepStates
    <3>5. ~Asleep(p)
      <4>1. running \notin Held(waiting)
        BY PlacesFacts DEF Waiters
      <4>2. svc # [op |-> "WAIT_RESOURCE_1", proc |-> p]
        BY <2>1 DEF NoSvc
      <4>. QED
        BY <3>1, <4>1, <4>2, LockFamilies DEF Asleep
    <3>. QED
      BY <1>4, <1>6, <3>3, <3>4, <3>5
  <2>. QED
    BY <2>3, <2>4
<1>7. CASE EnterService
  <2>1. /\ svc = NoSvc /\ at = "trap" /\ CPU(running) = currentPC /\ CPU(p)' = CPU(p)
        /\ p # running => step'[p] = step[p]
        /\ \/ Requested = "NONE" /\ svc' = NoSvc
           \/ Requested # "NONE" /\ svc' = [op |-> Requested, proc |-> running]
    BY <1>1, <1>7, TrapStep
  <2>2. ~SimulateProgramStep
    BY <2>1 DEF SimulateProgramStep
  <2>3. Asleep(p) => Asleep(p)'
    BY <2>2, AsleepStays
  <2>4. CASE p # running
    <3>1. svc'.proc # p
      BY <1>1, <2>1, <2>4 DEF NoSvc
    <3>. QED
      BY <1>3, <1>4, <2>1, <2>3, <2>4, <3>1
  <2>5. CASE p = running
    <3>1. step[p] # "FINISHED"
      BY <1>2, <2>1, <2>5 DEF TrapIsNew
    <3>2. CPU(p) = CP_WAIT_PC => Asleep(p)'
      <4>1. Requested = IsAtSyncro(p, CPU(p))
        BY <1>1, <2>1, <2>5, RequestedIs
      <4> HIDE DEF Requested
      <4>2. CPU(p) = CP_WAIT_PC => Requested = "WAIT_RESOURCE_1"
        BY <1>1, <4>1, PairProgram
      <4>. QED
        BY <2>1, <2>5, <4>2 DEF Asleep
    <3>. QED
      BY <1>3, <1>4, <2>1, <3>1, <3>2
  <2>. QED
    BY <2>4, <2>5
<1>. QED
  BY <1>5, <1>6, <1>7

\* The end of a signal.
LEMMA SignalEnds ==
    ASSUME Inv, PlacesOK, FinishService, svc.op = "SIGNAL_RESOURCE_1"
    PROVE  SignalNobody \/ SignalWakes
<1>1. svc # NoSvc
  BY DEF NoSvc
<1>2. ~EnterService
  BY <1>1, TrapStep
<1>3. ~EnterSignal
  BY <1>2, EnterSignalEffect
<1>. QED
  BY <1>3, SignalService

\* The pair of a process that signals, and what it has found in the slot.
LEMMA SignalsPair ==
    ASSUME Inv, PlacesOK, svc.op = "SIGNAL_RESOURCE_1"
    PROVE  PairOf(P) \in CPPairs /\ P \in Members(PairOf(P))
<1>1. ServiceExists(P, svc.op)
  BY DEF Inv, ControlOK, NoSvc, P
<1>2. M \in Mutex /\ P \in Members(M[1]) /\ P \in CPProcs
  BY <1>1, ServedPair DEF P, M, ServiceExists, IOTraps, LockOps, UnlockOps
<1>. QED
  BY <1>2, MutexOfPair

LEMMA NextSlotAsNeeded ==
    ASSUME Inv, Inv', PlacesOK, PairsOK, LocksOK, SlotAsNeeded, [Next]_vars
    PROVE  SlotAsNeeded'
<1> SUFFICES ASSUME NEW pair \in CPPairs, NEW p \in Members(pair), PastWait(p)'
             PROVE  filled'[pair] <=> ~IsProducer(p)
  BY DEF SlotAsNeeded
<1>1. filled \in [CPPairs -> BOOLEAN]
  BY DEF Inv, TypeOK
<1>2. PairOf(p) = pair
  BY PairProgram
<1>3. CASE FinishService /\ svc.op = "SIGNAL_RESOURCE_1" /\ PairOf(P) = pair
  <2>1. SignalNobody \/ SignalWakes
    BY <1>3, SignalEnds
  <2>2. filled'[pair] <=> IsProducer(P)
    BY <1>1, <1>3, <2>1, SignalEffect
  <2>3. P \in Members(pair)
    BY <1>3, SignalsPair
  <2>4. p # P
    <3>1. svc.op \in SyncOps
      BY <1>3 DEF SyncOps
    <3>2. IsAtSyncro(P, CPU(P)) = "SIGNAL_RESOURCE_1" /\ step[P] = "FINISHED" /\ CPU(P) \in Nat
      BY <1>3, <3>1, AtService DEF LocksOK, ServedAtRequest
    <3>3. CPU(P) = CP_SIGNAL_PC
      BY <2>3, <3>2, PairProgram
    <3>4. P \in Proc \ {Idle} /\ P # NoProc /\ {CP_WAIT_PC, CP_SIGNAL_PC} \subseteq Nat
          /\ CP_WAIT_PC < CP_SIGNAL_PC
      <4>1. P \in Proc \ {Idle} /\ P # NoProc
        BY <2>3, PairProgram
      <4>. QED
        BY <4>1, SyncroPrograms
    <3>5. svc' = NoSvc /\ \A q \in Proc \ {Idle} : step'[q] = step[q] /\ CPU(q)' = CPU(q)
      BY <1>3, <3>1, ServiceKeeps
    <3> SUFFICES ASSUME p = P PROVE FALSE
      OBVIOUS
    <3>6. step'[p] = "FINISHED" /\ CPU(p)' = CP_SIGNAL_PC /\ svc'.proc # p
      BY <3>2, <3>3, <3>4, <3>5 DEF NoSvc
    <3>. QED
      BY <3>4, <3>6 DEF PastWait
  <2>. QED
    BY <2>2, <2>3, <2>4, PairProgram
<1>4. CASE ~(FinishService /\ svc.op = "SIGNAL_RESOURCE_1" /\ PairOf(P) = pair)
  <2>1. filled'[pair] = filled[pair]
    BY <1>1, <1>4, DataStep, SignalEffect, EnterSignalEffect DEF dataVars
  <2>2. PastWait(p) => (filled[pair] <=> ~IsProducer(p))
    BY DEF SlotAsNeeded
  <2>3. PastWait(p) \/ (IsProducer(p) <=> ~filled[pair])
    BY <1>4, PastWaitBefore
  <2>. QED
    BY <2>1, <2>2, <2>3
<1>. QED
  BY <1>3, <1>4

LEMMA SignalPC ==
    ASSUME NEW pair \in CPPairs, NEW p \in Members(pair), NEW c \in Nat,
           IsAtSyncro(p, c) = "SIGNAL_RESOURCE_1"
    PROVE  c = CP_SIGNAL_PC
<1>1. \A d \in Nat : IsAtSyncro(p, d) = "SIGNAL_RESOURCE_1" <=> d = CP_SIGNAL_PC
  BY PairProgram, Zenon
<1>. QED
  BY <1>1, Zenon

\* A process signals when it has found the slot as it needs it.
LEMMA SignalRequest ==
    ASSUME Inv, PlacesOK, LocksOK, SlotAsNeeded, EnterSignal
    PROVE  LET pair == PairOf(running)
           IN  /\ pair \in CPPairs /\ running \in Members(pair)
               /\ filled[pair] <=> ~IsProducer(running)
               /\ svc = NoSvc /\ svc' = [op |-> "SIGNAL_RESOURCE_1", proc |-> running]
<1> DEFINE r == running
           pair == PairOf(running)
<1>1. Requested = "SIGNAL_RESOURCE_1" /\ EnterService
  BY EnterSignalEffect
<1>2. /\ svc = NoSvc /\ at = "trap" /\ CPU(r) = currentPC
      /\ svc' = [op |-> "SIGNAL_RESOURCE_1", proc |-> r]
      /\ ServiceExists(r, "SIGNAL_RESOURCE_1")
  BY <1>1, TrapStep
<1>3. pair \in CPPairs /\ r \in Members(pair)
  <2>1. LET m == MutexOf(r, "SIGNAL_RESOURCE_1")
        IN  m \in Mutex /\ r \in Members(m[1])
    BY <1>2, ServedPair
  <2>2. r \in CPProcs
    BY <1>2 DEF ServiceExists, IOTraps, LockOps, UnlockOps
  <2>. QED
    BY <2>1, <2>2, MutexOfPair
<1>4. CPU(r) = CP_SIGNAL_PC
  <2>1. currentPC \in Nat /\ r \notin IOProcs \union CompProcs
    BY <1>3, PairProgram DEF Inv, TypeOK
  <2>2. IsAtSyncro(r, currentPC) = "SIGNAL_RESOURCE_1"
    BY <1>1, <2>1, RequestedIs
  <2>3. currentPC = CP_SIGNAL_PC
    BY <1>3, <2>1, <2>2, SignalPC
  <2>. QED
    BY <1>2, <2>3
<1>5. PastWait(r)
  <2>1. step[r] # "FINISHED"
    BY <1>2 DEF LocksOK, TrapIsNew
  <2>. QED
    BY <1>4, <2>1 DEF PastWait
<1>6. filled[pair] <=> ~IsProducer(r)
  BY <1>3, <1>5 DEF SlotAsNeeded
<1>. QED
  BY <1>2, <1>3, <1>6

LEMMA NextValuesCounted ==
    ASSUME Inv, PlacesOK, LocksOK, SlotOK, [Next]_vars
    PROVE  ValuesCounted'
<1> SUFFICES ASSUME NEW pair \in CPPairs
             PROVE  counter'[pair] = IF HoldsValue(pair)' THEN (reads'[pair] + 1) % CounterModulus
                                     ELSE reads'[pair]
  BY DEF ValuesCounted
<1>1. /\ filled \in [CPPairs -> BOOLEAN]
      /\ counter \in [CPPairs -> 0 .. CounterModulus - 1]
      /\ reads \in [CPPairs -> 0 .. CounterModulus - 1]
  BY DEF Inv, TypeOK
<1>2. counter[pair] = IF HoldsValue(pair) THEN (reads[pair] + 1) % CounterModulus
                      ELSE reads[pair]
  BY DEF SlotOK, ValuesCounted
<1>3. CASE EnterSignal
  <2> DEFINE r == running
             up(v) == (v + 1) % CounterModulus
  <2>1. /\ PairOf(r) \in CPPairs
        /\ filled[PairOf(r)] <=> ~IsProducer(r)
        /\ svc = NoSvc /\ svc' = [op |-> "SIGNAL_RESOURCE_1", proc |-> r]
    BY <1>3, SignalRequest DEF SlotOK
  <2>2. /\ filled' = filled
        /\ IF IsProducer(r)
           THEN counter' = [counter EXCEPT ![PairOf(r)] = up(@)] /\ reads' = reads
           ELSE reads' = [reads EXCEPT ![PairOf(r)] = up(@)] /\ counter' = counter
    BY <1>3, EnterSignalEffect
  <2>3. HoldsValue(pair) <=> filled[pair]
    BY <1>1, <2>1 DEF HoldsValue, NoSvc
  <2>4. P' = r
    BY <2>1 DEF P
  <2>5. CASE pair = PairOf(r)
    <3>1. HoldsValue(pair)' <=> IsProducer(r)
      BY <2>1, <2>4, <2>5 DEF HoldsValue
    <3>2. CASE IsProducer(r)
      <4>1. counter'[pair] = up(counter[pair]) /\ reads' = reads /\ counter[pair] = reads[pair]
        BY <1>1, <1>2, <2>1, <2>2, <2>3, <2>5, <3>2
      <4>. QED
        BY <3>1, <3>2, <4>1
    <3>3. CASE ~IsProducer(r)
      <4>1. reads'[pair] = up(reads[pair]) /\ counter' = counter /\ counter[pair] = up(reads[pair])
        BY <1>1, <1>2, <2>1, <2>2, <2>3, <2>5, <3>3
      <4>. QED
        BY <3>1, <3>3, <4>1
    <3>. QED
      BY <3>2, <3>3
  <2>6. CASE pair # PairOf(r)
    <3>1. HoldsValue(pair)' <=> filled[pair]
      BY <1>1, <2>1, <2>2, <2>4, <2>6 DEF HoldsValue
    <3>2. counter'[pair] = counter[pair] /\ reads'[pair] = reads[pair]
      BY <1>1, <2>2, <2>6
    <3>. QED
      BY <1>2, <2>3, <3>1, <3>2
  <2>. QED
    BY <2>5, <2>6
<1>4. CASE SignalNobody \/ SignalWakes
  <2>1. /\ svc.op = "SIGNAL_RESOURCE_1" /\ svc' = NoSvc
        /\ filled' = [filled EXCEPT ![PairOf(P)] = IsProducer(P)]
        /\ UNCHANGED <<counter, reads>>
    BY <1>4, SignalEffect
  <2>2. PairOf(P) \in CPPairs
    BY <2>1, SignalsPair
  <2>3. HoldsValue(pair)' <=> filled'[pair]
    BY <2>1 DEF HoldsValue, NoSvc
  <2>4. filled'[pair] <=> HoldsValue(pair)
    BY <1>1, <2>1, <2>2 DEF HoldsValue
  <2>. QED
    BY <1>2, <2>1, <2>3, <2>4
<1>5. CASE UNCHANGED dataVars /\ ~EnterSignal /\ ~SignalNobody /\ ~SignalWakes
  <2>1. UNCHANGED <<filled, counter, reads>>
    BY <1>5 DEF dataVars
  <2>2. svc' = svc \/ (svc.op # "SIGNAL_RESOURCE_1" /\ svc'.op # "SIGNAL_RESOURCE_1")
    <3>1. /\ EnterService => svc'.op # "SIGNAL_RESOURCE_1" \/ svc' = svc
          /\ FinishService => svc.op # "SIGNAL_RESOURCE_1"
      BY <1>5, SignalService
    <3>2. EnterService => svc.op # "SIGNAL_RESOURCE_1"
      BY TrapStep DEF NoSvc
    <3>3. Creates \/ SimulateProgramStep => svc' = svc
      BY CreationKeeps, ProgramStep
    <3>4. Rest => svc' = svc \/ (svc' = NoSvc /\ svc.op # "SIGNAL_RESOURCE_1")
      BY RestKeeps DEF LocksOK, SyncOps
    <3>5. FinishService /\ svc.op \in SyncOps => svc' = NoSvc
      BY ServiceKeeps
    <3>. QED
      BY <3>1, <3>2, <3>3, <3>4, <3>5, StepKinds DEF NoSvc
  <2>3. HoldsValue(pair)' <=> HoldsValue(pair)
    BY <1>1, <2>1, <2>2 DEF HoldsValue, P
  <2>. QED
    BY <1>2, <2>1, <2>3
<1>. QED
  BY <1>3, <1>4, <1>5, DataStep

LEMMA InitSlot == Init => SlotOK
<1> SUFFICES ASSUME Init PROVE SlotOK
  OBVIOUS
<1>1. /\ svc = NoSvc /\ currentPC = 0 /\ pc = [p \in Proc |-> 0]
      /\ step = [p \in Proc |-> "UNKNOWN"]
      /\ filled = [pair \in CPPairs |-> FALSE]
      /\ counter = [pair \in CPPairs |-> 0] /\ reads = [pair \in CPPairs |-> 0]
  BY DEF Init
<1>2. SlotAsNeeded
  <2> SUFFICES ASSUME NEW pair \in CPPairs, NEW p \in Members(pair) PROVE ~PastWait(p)
    BY DEF SlotAsNeeded
  <2>1. p \in Proc \ {Idle} /\ 0 < CP_WAIT_PC /\ CP_WAIT_PC \in Nat /\ CP_SIGNAL_PC \in Nat
        /\ CP_WAIT_PC + 1 < CP_SIGNAL_PC
    BY PairProgram
  <2>2. CPU(p) = 0
    BY <1>1, <2>1 DEF CPU
  <2>. QED
    BY <2>1, <2>2 DEF PastWait
<1>3. ValuesCounted
  BY <1>1 DEF ValuesCounted, HoldsValue, NoSvc
<1>. QED
  BY <1>2, <1>3 DEF SlotOK

\* If no trap is served twice, a process that has come past its wait finds
\* the slot of its pair as it needs it until it signals, and the shared
\* variable counts what was put into the slot and read from it
\* (simulateProgramStep, wait_tsr, signal_tsr, check_for_syncro_trap).
THEOREM SlotIsKept ==
    ASSUME NoTrapAgain
    PROVE  Spec => []SlotOK
<1>1. Init => SlotOK
  BY InitSlot
<1>2. Inv /\ Inv' /\ PlacesOK /\ PairsOK /\ LocksOK /\ SlotOK /\ [Next]_vars => SlotOK'
  <2> SUFFICES ASSUME Inv, Inv', PlacesOK, PairsOK, LocksOK, SlotOK, [Next]_vars
               PROVE  SlotOK'
    OBVIOUS
  <2>1. SlotAsNeeded'
    BY NextSlotAsNeeded DEF SlotOK
  <2>2. ValuesCounted'
    BY NextValuesCounted
  <2>. QED
    BY <2>1, <2>2 DEF SlotOK
<1>. QED
  BY <1>1, <1>2, Invariance, PlacesAreKept, PairsAreKept, LocksAreKept, PTL DEF Spec

\* Every producer/consumer pair is a buffer of one slot: a value is produced
\* only after the one before it was read, and no value is read twice.
THEOREM PairIsOneSlot ==
    ASSUME NoTrapAgain
    PROVE  Spec => HandsOverEachValueOnce
<1>1. Init => Slot!Init
  BY DEF Init, Slot!Init
<1>2. Inv /\ PlacesOK /\ LocksOK /\ SlotOK /\ [Next]_vars => [Slot!Next]_<<counter, reads>>
  <2> SUFFICES ASSUME Inv, PlacesOK, LocksOK, SlotOK, [Next]_vars
               PROVE  [Slot!Next]_<<counter, reads>>
    OBVIOUS
  <2>1. CASE EnterSignal
    <3> DEFINE pair == PairOf(running)
    <3>1. /\ pair \in CPPairs /\ svc = NoSvc
          /\ filled[pair] <=> ~IsProducer(running)
      BY <2>1, SignalRequest DEF SlotOK
    <3>2. counter[pair] = IF filled[pair] THEN (reads[pair] + 1) % CounterModulus
                          ELSE reads[pair]
      BY <3>1 DEF SlotOK, ValuesCounted, HoldsValue, NoSvc
    <3>3. CASE IsProducer(running)
      <4>1. Slot!Produce(pair)
        BY <2>1, <3>1, <3>2, <3>3, EnterSignalEffect DEF Slot!Produce
      <4>. QED
        BY <3>1, <4>1 DEF Slot!Next
    <3>4. CASE ~IsProducer(running)
      <4>1. reads[pair] \in 0 .. CounterModulus - 1
        BY <3>1 DEF Inv, TypeOK
      <4>2. counter[pair] # reads[pair]
        BY <3>1, <3>2, <3>4, <4>1, NextValue
      <4>3. Slot!Consume(pair)
        BY <2>1, <3>4, <4>2, EnterSignalEffect DEF Slot!Consume
      <4>. QED
        BY <3>1, <4>3 DEF Slot!Next
    <3>. QED
      BY <3>3, <3>4
  <2>2. CASE ~EnterSignal
    BY <2>2, DataStep, SignalEffect DEF dataVars
  <2>. QED
    BY <2>1, <2>2
<1>. QED
  BY <1>1, <1>2, Invariance, PlacesAreKept, LocksAreKept, SlotIsKept, PTL
     DEF Spec, HandsOverEachValueOnce, Slot!Spec
=============================================================================
