------------------------ MODULE DeadlockMonitorProofs ------------------------
(***************************************************************************)
(* check_for_deadlock(), for any number of pairs and whatever their locks: *)
(* the array stays sound while the sweep moves pairs around in it, and the *)
(* call removes exactly the deadlocked pairs, as DeadlockCheck has it.     *)
(***************************************************************************)
EXTENDS DeadlockMonitor, DataProofs

\* The two mutexes of a pair are different, and belong to no other pair.
LEMMA MutexFacts ==
    ASSUME NEW pair \in ResPairs
    PROVE  /\ <<pair, "mutex_1">> \in Mutex /\ <<pair, "mutex_2">> \in Mutex
           /\ <<pair, "mutex_1">> # <<pair, "mutex_2">>
           /\ \A other \in ResPairs : \A m \in PairMutexes(other) : m[1] = other
           /\ PairMutexes(pair) \subseteq Mutex
BY DEF Mutex, PairMutexes

\* What a queue of at most one process holds.
LEMMA RangeOfOne ==
    /\ Range(<< >>) = {}
    /\ \A x : Range(<<x>>) = {x}
BY DEF Range

\* Four edges are a cycle: connectDLGraph counts four exactly when each of
\* the two processes owns one mutex and is blocked on the other.
LEMMA FourEdges ==
    ASSUME NEW pair \in ResPairs, LegalLocks(pair, own, blk, NoProc)
    PROVE  EdgesUpTo(pair, 5) = 4 <=> Stuck(pair, own, blk)
<1> DEFINE m1 == <<pair, "mutex_1">>
           m2 == <<pair, "mutex_2">>
           p  == pair[1]
           q  == pair[2]
           Row(m) == \/ own[m] \in {NoProc, p, q} /\ blk[m] = <<>>
                     \/ own[m] = p /\ blk[m] = <<q>>
                     \/ own[m] = q /\ blk[m] = <<p>>
           E(m, x) == (IF own[m] = x THEN 1 ELSE 0) + (IF x \in Range(blk[m]) THEN 1 ELSE 0)
<1>1. p # q /\ NoProc # p /\ NoProc # q /\ m1 # m2
  BY MonitorAssumption
<1>2. Row(m1) /\ Row(m2) /\ (blk[m1] # <<>> => blk[m1] # blk[m2])
  BY <1>1 DEF LegalLocks, PairMutexes
<1>3. EdgesUpTo(pair, 5) = E(m1, p) + E(m2, p) + E(m1, q) + E(m2, q)
  <2>1. Edges(pair, 1) = E(m1, p) /\ Edges(pair, 2) = E(m2, p)
    BY DEF Edges, Tested
  <2>2. Edges(pair, 3) = E(m1, q) /\ Edges(pair, 4) = E(m2, q)
    BY DEF Edges, Tested
  <2> QED BY <2>1, <2>2 DEF EdgesUpTo
<1>4. Stuck(pair, own, blk) <=>
        /\ \E m, n \in {m1, m2} : own[m] = p /\ p \in Range(blk[n])
        /\ \E m, n \in {m1, m2} : own[m] = q /\ q \in Range(blk[n])
  BY DEF Stuck, PairMutexes
<1> HIDE DEF m1, m2, p, q
<1>5. ASSUME NEW m \in {m1, m2}
      PROVE  \/ Range(blk[m]) = {}
             \/ own[m] = p /\ Range(blk[m]) = {q}
             \/ own[m] = q /\ Range(blk[m]) = {p}
  <2>1. Row(m)
    BY <1>2
  <2> QED BY <2>1, RangeOfOne
<1>6. Range(blk[m1]) # {} => Range(blk[m1]) # Range(blk[m2])
  <2>1. blk[m1] \in {<<>>, <<p>>, <<q>>} /\ blk[m2] \in {<<>>, <<p>>, <<q>>}
    BY <1>2
  <2>2. \A x : <<x>> # <<>>
    OBVIOUS
  <2>3. blk[m1] = <<>> \/ blk[m1] # blk[m2]
    BY <1>2
  <2>4. Range(<<>>) = {} /\ Range(<<p>>) = {p} /\ Range(<<q>>) = {q}
    BY RangeOfOne
  <2> QED BY <1>1, <2>1, <2>2, <2>3, <2>4
<1> HIDE DEF Row
<1>7. CASE Range(blk[m1]) = {}
  BY <1>1, <1>3, <1>4, <1>5, <1>7
<1>8. CASE own[m1] = p /\ Range(blk[m1]) = {q}
  BY <1>1, <1>3, <1>4, <1>5, <1>6, <1>8
<1>9. CASE own[m1] = q /\ Range(blk[m1]) = {p}
  BY <1>1, <1>3, <1>4, <1>5, <1>6, <1>9
<1> QED BY <1>5, <1>7, <1>8, <1>9

LEMMA EdgesType ==
    ASSUME NEW pair, NEW n
    PROVE  Edges(pair, n) \in 0 .. 2
BY DEF Edges

\* Nothing but the use of the mutexes changes the edges.
LEMMA SameEdges ==
    ASSUME UNCHANGED locks
    PROVE  /\ \A pair, n : EdgesUpTo(pair, n)' = EdgesUpTo(pair, n)
           /\ LocksOK => LocksOK'
<1>1. own' = own /\ blk' = blk
  BY DEF locks
<1>2. ASSUME NEW pair, NEW n PROVE Edges(pair, n)' = Edges(pair, n)
  BY <1>1 DEF Edges, Tested
<1> QED BY <1>1, <1>2 DEF EdgesUpTo, LocksOK

-----------------------------------------------------------------------------
LEMMA InitInv == Init => Inv
<1> SUFFICES ASSUME Init PROVE Inv
  OBVIOUS
<1> USE DEF Init
<1>1. TypeOK
  BY MonitorAssumption DEF TypeOK, Slots
<1>2. NoFreedPairInUse
  BY DEF NoFreedPairInUse
<1>3. LocksOK
  BY MutexFacts DEF LocksOK, LegalLocks
<1>4. WalkOK /\ VerdictsOK
  BY DEF WalkOK, VerdictsOK
<1> QED BY <1>1, <1>2, <1>3, <1>4 DEF Inv

LEMMA CreateInv ==
    ASSUME Inv, NEW pair \in ResPairs, CreateSharedResourcePair(pair)
    PROVE  Inv'
<1> USE DEF Inv, CreateSharedResourcePair, walk, locks
<1>1. TypeOK'
  BY MonitorAssumption DEF TypeOK, Slots
<1>2. NoFreedPairInUse'
  <2> DEFINE t == total_resource_pairs
  <2>1. t \in 0 .. SHARED_RESOURCE_MAX - 1 /\ t' = t + 1 /\ t + 1 \in Slots
    BY MonitorAssumption DEF TypeOK, Slots
  <2>2. /\ resource_pairs'[t + 1] = pair
        /\ \A j \in 1 .. t : resource_pairs'[j] = resource_pairs[j]
    BY <2>1 DEF TypeOK, Slots
  <2>3. pair \in ResPairs \ freed /\ \A j \in 1 .. t : resource_pairs[j] # pair
    BY DEF Live
  <2>4. \A j \in 1 .. t + 1 : j \in 1 .. t \/ j = t + 1
    BY <2>1
  <2> HIDE DEF t
  <2> QED BY <2>1, <2>2, <2>3, <2>4 DEF NoFreedPairInUse, t
<1>3. LocksOK'
  BY SameEdges
<1>4. WalkOK' /\ VerdictsOK'
  BY DEF WalkOK, VerdictsOK
<1> QED BY <1>1, <1>2, <1>3, <1>4

LEMMA UseInv ==
    ASSUME Inv, NEW pair \in ResPairs, UseMutexes(pair)
    PROVE  Inv'
<1> USE DEF Inv, walk
<1>1. PICK o \in [PairMutexes(pair) -> {NoProc, pair[1], pair[2]}],
           b \in [PairMutexes(pair) -> {<<>>, <<pair[1]>>, <<pair[2]>>}] :
         /\ LegalLocks(pair, o, b, NoProc)
         /\ own' = [m \in Mutex |-> IF m[1] = pair THEN o[m] ELSE own[m]]
         /\ blk' = [m \in Mutex |-> IF m[1] = pair THEN b[m] ELSE blk[m]]
  BY DEF UseMutexes
<1>2. \A m \in Mutex : m[1] = pair => m \in PairMutexes(pair)
  BY DEF Mutex, PairMutexes
<1>3. own' \in [Mutex -> {NoProc} \union UNION {{r[1], r[2]} : r \in ResPairs}]
  BY <1>1, <1>2 DEF TypeOK
<1>4. DOMAIN blk' = Mutex
  BY <1>1
<1>5. total_blocked' \in Int
  <2>1. \A m \in PairMutexes(pair) : blk[m] \in {<<>>, <<pair[1]>>, <<pair[2]>>}
    BY DEF LocksOK, LegalLocks
  <2>2. \A m \in PairMutexes(pair) : blk'[m] \in {<<>>, <<pair[1]>>, <<pair[2]>>}
    BY <1>1, MutexFacts
  <2>3. NumBlocked(pair, blk) \in Int
    BY <2>1 DEF NumBlocked, PairMutexes
  <2>4. NumBlocked(pair, blk') \in Int
    BY <2>2 DEF NumBlocked, PairMutexes
  <2> QED BY <2>3, <2>4 DEF UseMutexes, TypeOK
<1>6. TypeOK'
  BY <1>3, <1>4, <1>5 DEF TypeOK, UseMutexes
<1>7. NoFreedPairInUse'
  BY DEF NoFreedPairInUse, UseMutexes
<1>8. LocksOK'
  <2> SUFFICES ASSUME NEW other \in ResPairs PROVE LegalLocks(other, own', blk', NoProc)
    BY DEF LocksOK
  <2>1. CASE other = pair
    <3>1. \A m \in PairMutexes(pair) : own'[m] = o[m] /\ blk'[m] = b[m]
      BY <1>1, MutexFacts
    <3>2. LegalLocks(pair, own', blk', NoProc)
      <4>1. \A m \in PairMutexes(pair) :
               \/ o[m] \in {NoProc, pair[1], pair[2]} /\ b[m] = <<>>
               \/ o[m] = pair[1] /\ b[m] = <<pair[2]>>
               \/ o[m] = pair[2] /\ b[m] = <<pair[1]>>
        BY <1>1 DEF LegalLocks
      <4>2. \A m, n \in PairMutexes(pair) : m # n /\ b[m] # <<>> => b[m] # b[n]
        BY <1>1 DEF LegalLocks
      <4> QED BY <3>1, <4>1, <4>2, Zenon DEF LegalLocks
    <3> QED BY <2>1, <3>2
  <2>2. CASE other # pair
    <3>1. \A m \in PairMutexes(other) : own'[m] = own[m] /\ blk'[m] = blk[m]
      BY <1>1, <2>2, MutexFacts
    <3> QED BY <3>1 DEF LegalLocks, LocksOK
  <2> QED BY <2>1, <2>2
<1>9. WalkOK' /\ VerdictsOK'
  BY DEF WalkOK, VerdictsOK, UseMutexes
<1> QED BY <1>6, <1>7, <1>8, <1>9

LEMMA CallInv ==
    ASSUME Inv, CheckForDeadlock
    PROVE  Inv'
<1> USE DEF Inv, CheckForDeadlock, walk, locks
<1>1. TypeOK'
  BY MonitorAssumption DEF TypeOK, Slots
<1>2. NoFreedPairInUse'
  BY DEF NoFreedPairInUse
<1>3. LocksOK'
  BY SameEdges
<1>4. WalkOK'
  BY DEF WalkOK, EdgesUpTo
<1>5. VerdictsOK'
  BY DEF VerdictsOK, TypeOK
<1> QED BY <1>1, <1>2, <1>3, <1>4, <1>5

LEMMA ConnectInv ==
    ASSUME Inv, ConnectDLGraph
    PROVE  Inv'
<1> USE DEF Inv, ConnectDLGraph, locks
<1>1. WalkOK'
  <2> DEFINE pair == resource_pairs[i]
  <2>1. k \in 1 .. 4
    BY DEF TypeOK
  <2>2. EdgesUpTo(pair, k + 1) = EdgesUpTo(pair, k) + Edges(pair, k)
    BY <2>1, EdgesType DEF EdgesUpTo
  <2>3. (resource_pairs[i])' = pair
    OBVIOUS
  <2> QED BY <2>2, <2>3, SameEdges DEF WalkOK
<1>2. edge_count' \in 0 .. 8
  <2> DEFINE pair == resource_pairs[i]
  <2>1. k \in 1 .. 4
    BY DEF TypeOK
  <2>2. edge_count = EdgesUpTo(pair, k)
    BY DEF WalkOK
  <2>3. EdgesUpTo(pair, k) \in 0 .. 6
    BY <2>1, EdgesType DEF EdgesUpTo
  <2> HIDE DEF pair
  <2>4. edge_count' = edge_count + Edges(pair, k)
    BY DEF pair
  <2> QED BY <2>2, <2>3, <2>4, EdgesType
<1>3. TypeOK'
  BY <1>2 DEF TypeOK
<1>4. NoFreedPairInUse'
  BY DEF NoFreedPairInUse
<1>5. LocksOK'
  BY SameEdges
<1>6. VerdictsOK'
  BY DEF VerdictsOK
<1> QED BY <1>1, <1>3, <1>4, <1>5, <1>6

LEMMA TestInv ==
    ASSUME Inv, TestResourcePair
    PROVE  Inv'
<1> USE DEF Inv, TestResourcePair, locks
<1>1. i \in 1 .. total_resource_pairs /\ total_resource_pairs <= SHARED_RESOURCE_MAX
  BY MonitorAssumption DEF TypeOK
<1>2. TypeOK'
  BY <1>1, MonitorAssumption DEF TypeOK, Slots
<1>3. NoFreedPairInUse'
  BY DEF NoFreedPairInUse
<1>4. LocksOK'
  BY SameEdges
<1>5. WalkOK'
  BY DEF WalkOK, EdgesUpTo
<1>6. VerdictsOK'
  <2>1. resource_pairs[i] \in ResPairs
    BY <1>1 DEF NoFreedPairInUse
  <2>2. deadlocks'[i] <=> Stuck(resource_pairs[i], own, blk)
    <3>1. deadlocks'[i] <=> edge_count = 4
      <4>1. i \in Slots /\ deadlocks \in [Slots -> BOOLEAN]
        BY <1>1, MonitorAssumption DEF TypeOK, Slots
      <4>2. deadlocks' = [deadlocks EXCEPT ![i] = edge_count = 4]
        OBVIOUS
      <4> QED BY <4>1, <4>2, Zenon
    <3>2. edge_count = EdgesUpTo(resource_pairs[i], 5)
      BY DEF WalkOK
    <3>3. LegalLocks(resource_pairs[i], own, blk, NoProc)
      BY <2>1 DEF LocksOK
    <3> HIDE DEF Inv, TestResourcePair
    <3> QED BY <2>1, <3>1, <3>2, <3>3, FourEdges
  <2>3. \A j \in 1 .. total_resource_pairs : j # i => deadlocks'[j] = deadlocks[j]
    BY <1>1, MonitorAssumption DEF TypeOK, Slots
  <2>4. \A j \in 1 .. total_resource_pairs : j < i + 1 => j < i \/ j = i
    BY <1>1
  <2> QED BY <2>2, <2>3, <2>4 DEF VerdictsOK
<1> QED BY <1>2, <1>3, <1>4, <1>5, <1>6

LEMMA AllTestedInv ==
    ASSUME Inv, AllTested
    PROVE  Inv'
<1> USE DEF Inv, AllTested, locks, walk
<1>1. TypeOK'
  BY MonitorAssumption DEF TypeOK
<1>2. NoFreedPairInUse'
  BY DEF NoFreedPairInUse
<1>3. LocksOK'
  BY SameEdges
<1>4. WalkOK' /\ VerdictsOK'
  BY DEF WalkOK, VerdictsOK, TypeOK
<1> QED BY <1>1, <1>2, <1>3, <1>4

LEMMA KeepInv ==
    ASSUME Inv, KeepPair
    PROVE  Inv'
<1> USE DEF Inv, KeepPair, locks, walk
<1>1. TypeOK'
  BY MonitorAssumption DEF TypeOK
<1>2. NoFreedPairInUse'
  BY DEF NoFreedPairInUse
<1>3. LocksOK'
  BY SameEdges
<1>4. WalkOK'
  BY DEF WalkOK
<1>5. VerdictsOK'
  <2>1. \A j \in 1 .. total_resource_pairs : j < i + 1 => j < i \/ j = i
    BY DEF TypeOK
  <2> QED BY <2>1 DEF VerdictsOK
<1> QED BY <1>1, <1>2, <1>3, <1>4, <1>5

\* What the array holds after the last pair has filled the hole.
LEMMA AfterDestruct ==
    ASSUME Inv, DestructPair
    PROVE  /\ i \in 1 .. total_resource_pairs
           /\ total_resource_pairs \in 1 .. SHARED_RESOURCE_MAX
           /\ total_resource_pairs' = total_resource_pairs - 1
           /\ \A j \in 1 .. total_resource_pairs' :
                 /\ j # i => /\ resource_pairs'[j] = resource_pairs[j]
                            /\ deadlocks'[j] = deadlocks[j]
                 /\ j = i => /\ resource_pairs'[j] = resource_pairs[total_resource_pairs]
                            /\ deadlocks'[j] = deadlocks[total_resource_pairs]
BY MonitorAssumption DEF Inv, TypeOK, Slots, DestructPair

LEMMA DestructInv ==
    ASSUME Inv, DestructPair
    PROVE  Inv'
<1> DEFINE t == total_resource_pairs
<1>1. TypeOK'
  <2>1. resource_pairs[i] \in ResPairs
    BY AfterDestruct DEF Inv, NoFreedPairInUse
  <2>2. resource_pairs[t] \in ResPairs
    BY AfterDestruct DEF Inv, NoFreedPairInUse
  <2>3. deadlocks[t] \in BOOLEAN
    BY AfterDestruct, MonitorAssumption DEF Inv, TypeOK, Slots
  <2>4. t' \in 0 .. SHARED_RESOURCE_MAX
    BY AfterDestruct, MonitorAssumption
  <2>5. resource_pairs' \in [Slots -> ResPairs \union {NoPair}]
    BY <2>2 DEF Inv, TypeOK, DestructPair
  <2>6. deadlocks' \in [Slots -> BOOLEAN]
    BY <2>3 DEF Inv, TypeOK, DestructPair
  <2>7. freed' \subseteq ResPairs /\ total_blocked' \in Int
    BY <2>1 DEF Inv, TypeOK, DestructPair
  <2> HIDE DEF t
  <2> QED BY <2>4, <2>5, <2>6, <2>7 DEF Inv, TypeOK, DestructPair, walk, locks, t
<1>2. NoFreedPairInUse'
  <2> SUFFICES ASSUME NEW j \in 1 .. t'
               PROVE  /\ resource_pairs'[j] \in ResPairs \ freed'
                      /\ \A n \in 1 .. t' : j # n => resource_pairs'[j] # resource_pairs'[n]
    BY DEF NoFreedPairInUse
  <2> DEFINE Old(x) == IF x = i THEN t ELSE x
  <2>1. \A x \in 1 .. t' : /\ resource_pairs'[x] = resource_pairs[Old(x)]
                           /\ Old(x) \in 1 .. t
                           /\ Old(x) # i
    BY AfterDestruct
  <2>2. \A x, y \in 1 .. t' : x # y => Old(x) # Old(y)
    BY AfterDestruct
  <2> HIDE DEF Old
  <2>3. i \in 1 .. t /\ freed' = freed \union {resource_pairs[i]}
    BY AfterDestruct DEF DestructPair
  <2> QED BY <2>1, <2>2, <2>3 DEF Inv, NoFreedPairInUse
<1>3. LocksOK'
  BY SameEdges DEF Inv, DestructPair
<1>4. WalkOK'
  BY DEF Inv, WalkOK, DestructPair, walk
<1>5. VerdictsOK'
  <2>1. at = "sweep" /\ at' = "sweep" /\ i' = i /\ own' = own /\ blk' = blk
    BY DEF DestructPair, locks
  <2>2. \A j \in 1 .. t : /\ deadlocks[j] <=> Stuck(resource_pairs[j], own, blk)
                          /\ j < i => ~deadlocks[j]
    BY <2>1 DEF Inv, VerdictsOK
  <2>3. \A j \in 1 .. t' : /\ deadlocks'[j] <=> Stuck(resource_pairs'[j], own, blk)
                           /\ j < i => ~deadlocks'[j]
    BY <2>2, AfterDestruct
  <2> QED BY <2>1, <2>3 DEF VerdictsOK
<1> QED BY <1>1, <1>2, <1>3, <1>4, <1>5 DEF Inv

LEMMA ReturnInv ==
    ASSUME Inv, Return
    PROVE  Inv'
<1> USE DEF Inv, Return, locks, walk
<1>1. TypeOK'
  BY MonitorAssumption DEF TypeOK
<1>2. NoFreedPairInUse'
  BY DEF NoFreedPairInUse
<1>3. LocksOK'
  BY SameEdges
<1>4. WalkOK' /\ VerdictsOK'
  BY DEF WalkOK, VerdictsOK
<1> QED BY <1>1, <1>2, <1>3, <1>4

LEMMA StepInv == Inv /\ [Next]_vars => Inv'
<1> SUFFICES ASSUME Inv, [Next]_vars PROVE Inv'
  OBVIOUS
<1>1. CASE \E pair \in ResPairs : CreateSharedResourcePair(pair) \/ UseMutexes(pair)
  BY <1>1, CreateInv, UseInv
<1>2. CASE CheckForDeadlock
  BY <1>2, CallInv
<1>3. CASE Step
  BY <1>3, ConnectInv, TestInv, AllTestedInv, KeepInv, DestructInv, ReturnInv DEF Step
<1>4. CASE UNCHANGED vars
  <2>1. LocksOK'
    BY <1>4, SameEdges DEF Inv, vars
  <2>2. WalkOK'
    BY <1>4, SameEdges DEF Inv, WalkOK, vars, walk
  <2> QED BY <1>4, <2>1, <2>2 DEF Inv, vars, walk, locks, TypeOK, NoFreedPairInUse, VerdictsOK
<1> QED BY <1>1, <1>2, <1>3, <1>4 DEF Next

\* The invariant holds in every reachable state, for any number of pairs.
THEOREM MonitorInvariance == Spec => []Inv
BY InitInv, StepInv, PTL DEF Spec

\* No pair is read or destructed after it has been destructed, whatever the
\* order in which the sweep fills the holes of resource_pairs.
THEOREM NoPairIsFreedTwice == Spec => []NoFreedPairInUse
<1>1. Inv => NoFreedPairInUse
  BY DEF Inv
<1> QED BY <1>1, MonitorInvariance, PTL

-----------------------------------------------------------------------------
(***************************************************************************)
(* What is counted.                                                        *)
(***************************************************************************)

\* The edges counted so far are at most the edges of the pair, which are at
\* most four: one from each mutex to its owner, one to who is blocked on it.
LEMMA EdgesBound ==
    ASSUME NEW pair \in ResPairs, LegalLocks(pair, own, blk, NoProc)
    PROVE  /\ EdgesUpTo(pair, 5) = EdgeCount(pair, own, blk)
           /\ \A n \in 1 .. 5 : EdgesUpTo(pair, n) <= 4
<1> DEFINE m1 == <<pair, "mutex_1">>
           m2 == <<pair, "mutex_2">>
           p  == pair[1]
           q  == pair[2]
           E(m, x) == (IF own[m] = x THEN 1 ELSE 0) + (IF x \in Range(blk[m]) THEN 1 ELSE 0)
<1>1. p # q /\ NoProc # p /\ NoProc # q
  BY MonitorAssumption
<1>2. /\ Edges(pair, 1) = E(m1, p) /\ Edges(pair, 2) = E(m2, p)
      /\ Edges(pair, 3) = E(m1, q) /\ Edges(pair, 4) = E(m2, q)
  BY DEF Edges, Tested
<1>3. EdgeCount(pair, own, blk) = E(m1, p) + E(m1, q) + E(m2, p) + E(m2, q)
  BY <1>1, EdgeCountIs
<1>4. \A m \in {m1, m2} : \/ Range(blk[m]) = {}
                          \/ own[m] = p /\ Range(blk[m]) = {q}
                          \/ own[m] = q /\ Range(blk[m]) = {p}
  <2>1. \A m \in {m1, m2} : \/ blk[m] = <<>>
                            \/ own[m] = p /\ blk[m] = <<q>>
                            \/ own[m] = q /\ blk[m] = <<p>>
    BY DEF LegalLocks, PairMutexes
  <2> HIDE DEF m1, m2, p, q
  <2>. QED
    BY <2>1, RangeOfOne
<1> HIDE DEF m1, m2, p, q
<1>5. \A m \in {m1, m2} : E(m, p) \in 0 .. 2 /\ E(m, q) \in 0 .. 2 /\ E(m, p) + E(m, q) <= 2
  BY <1>1, <1>4
<1> HIDE DEF E
<1>6. EdgesUpTo(pair, 5) = E(m1, p) + E(m2, p) + E(m1, q) + E(m2, q)
  BY <1>2, <1>5 DEF EdgesUpTo
<1>7. \A n \in 1 .. 5 : EdgesUpTo(pair, n) <= EdgesUpTo(pair, 5)
  BY <1>2, <1>5 DEF EdgesUpTo
<1>. QED
  <2>1. E(m1, p) + E(m2, p) + E(m1, q) + E(m2, q) <= 4
    BY <1>5
  <2>2. \A n \in 1 .. 5 : EdgesUpTo(pair, n) \in Int
    BY <1>2, <1>5 DEF EdgesUpTo
  <2>. QED
    BY <1>3, <1>5, <1>6, <1>7, <2>1, <2>2

\* The assertion of testResourcePair never fails: connectDLGraph finds at
\* most four edges, one by one those that the graph of the pair has.
THEOREM WalkIsExact == Spec => []WalkCountsEdges
<1>1. Inv => WalkCountsEdges
  <2> SUFFICES ASSUME Inv PROVE WalkCountsEdges
    OBVIOUS
  <2>1. CASE at = "test" /\ i <= total_resource_pairs
    <3>1. i \in 1 .. total_resource_pairs /\ k \in 1 .. 5
      BY <2>1, MonitorAssumption DEF Inv, TypeOK
    <3>2. resource_pairs[i] \in ResPairs
      BY <3>1 DEF Inv, NoFreedPairInUse
    <3>3. LegalLocks(resource_pairs[i], own, blk, NoProc)
      BY <3>2 DEF Inv, LocksOK
    <3>4. edge_count = EdgesUpTo(resource_pairs[i], k)
      BY <2>1 DEF Inv, WalkOK
    <3>. QED
      BY <3>1, <3>2, <3>3, <3>4, EdgesBound DEF WalkCountsEdges
  <2>2. CASE ~(at = "test" /\ i <= total_resource_pairs)
    BY <2>2 DEF Inv, WalkOK, WalkCountsEdges
  <2>. QED
    BY <2>1, <2>2
<1>. QED
  BY <1>1, MonitorInvariance, PTL

\* The processes in the two queues of a pair.
LEMMA EntriesCount ==
    ASSUME NEW pair \in ResPairs, NEW b,
           b[<<pair, "mutex_1">>] \in {<<>>, <<pair[1]>>, <<pair[2]>>},
           b[<<pair, "mutex_2">>] \in {<<>>, <<pair[1]>>, <<pair[2]>>}
    PROVE  /\ IsFiniteSet(Entries(pair, b))
           /\ Cardinality(Entries(pair, b)) = NumBlocked(pair, b)
           /\ NumBlocked(pair, b) \in Nat
<1> DEFINE m1 == <<pair, "mutex_1">>
           m2 == <<pair, "mutex_2">>
           e1 == <<m1, 1>>
           e2 == <<m2, 1>>
           one(m) == IF b[m] = <<>> THEN 0 ELSE 1
           entry(m) == IF b[m] = <<>> THEN {} ELSE {<<m, 1>>}
<1>1. m1 # m2 /\ e1 # e2
  OBVIOUS
<1>2. \A m \in {m1, m2} : /\ {m} \X DOMAIN b[m] = entry(m)
                          /\ Len(b[m]) = one(m)
  <2>1. \A x : Len(<<x>>) = 1 /\ DOMAIN <<x>> = {1} /\ <<x>> # <<>>
    OBVIOUS
  <2>2. Len(<< >>) = 0 /\ DOMAIN << >> = {}
    OBVIOUS
  <2>3. \A m \in {m1, m2} : b[m] = <<>> \/ b[m] = <<pair[1]>> \/ b[m] = <<pair[2]>>
    OBVIOUS
  <2> HIDE DEF m1, m2
  <2>4. ASSUME NEW m \in {m1, m2}
        PROVE  {m} \X DOMAIN b[m] = entry(m) /\ Len(b[m]) = one(m)
    <3>1. CASE b[m] = <<>>
      BY <3>1, <2>2
    <3>2. CASE b[m] # <<>>
      <4>1. Len(b[m]) = 1 /\ DOMAIN b[m] = {1}
        BY <2>1, <2>3, <3>2
      <4>2. {m} \X {1} = {<<m, 1>>}
        OBVIOUS
      <4>. QED
        BY <3>2, <4>1, <4>2
    <3>. QED
      BY <3>1, <3>2
  <2>. QED
    BY <2>4
<1>3. Entries(pair, b) = entry(m1) \union entry(m2)
  BY <1>2 DEF Entries, PairMutexes
<1>4. NumBlocked(pair, b) = one(m1) + one(m2)
  BY <1>2 DEF NumBlocked
<1>5. IsFiniteSet(entry(m1)) /\ Cardinality(entry(m1)) = one(m1)
  BY FS_EmptySet, FS_Singleton
<1>6. IsFiniteSet(entry(m2)) /\ Cardinality(entry(m2)) = one(m2)
  BY FS_EmptySet, FS_Singleton
<1>7. entry(m1) \intersect entry(m2) = {}
  BY <1>1
<1> HIDE DEF entry
<1>8. /\ IsFiniteSet(entry(m1) \union entry(m2))
      /\ Cardinality(entry(m1) \union entry(m2)) = one(m1) + one(m2) - 0
  <2>1. Cardinality(entry(m1) \union entry(m2))
            = Cardinality(entry(m1)) + Cardinality(entry(m2)) - Cardinality({})
    BY <1>5, <1>6, <1>7, FS_Union
  <2>2. IsFiniteSet(entry(m1) \union entry(m2))
    BY <1>5, <1>6, FS_Union
  <2>. QED
    BY <1>5, <1>6, <2>1, <2>2, FS_EmptySet
<1>. QED
  BY <1>3, <1>4, <1>8

\* No entry belongs to two pairs.
LEMMA EntriesOfOthers ==
    ASSUME NEW pair \in ResPairs, NEW other \in ResPairs, pair # other, NEW b, NEW c
    PROVE  Entries(pair, b) \intersect Entries(other, c) = {}
<1> SUFFICES ASSUME NEW e \in Entries(pair, b), e \in Entries(other, c) PROVE FALSE
  OBVIOUS
<1>1. PICK m \in PairMutexes(pair) : e \in {m} \X DOMAIN b[m]
  BY DEF Entries
<1>2. PICK n \in PairMutexes(other) : e \in {n} \X DOMAIN c[n]
  BY DEF Entries
<1>3. e[1] = m /\ e[1] = n
  BY <1>1, <1>2
<1>. QED
  BY <1>3, MutexFacts

\* The entries of the pairs in a set, one pair apart.
LEMMA EntriesApart ==
    ASSUME NEW S \in SUBSET ResPairs, NEW pair \in S, NEW b,
           IsFiniteSet(Entries(pair, b)),
           IsFiniteSet(EntriesOf(S \ {pair}, b))
    PROVE  /\ IsFiniteSet(EntriesOf(S, b))
           /\ Cardinality(EntriesOf(S, b))
                  = Cardinality(EntriesOf(S \ {pair}, b)) + Cardinality(Entries(pair, b))
           /\ Cardinality(EntriesOf(S \ {pair}, b)) \in Nat
<1> DEFINE rest == EntriesOf(S \ {pair}, b)
           mine == Entries(pair, b)
<1>1. rest \intersect mine = {}
  BY EntriesOfOthers DEF EntriesOf
<1>2. EntriesOf(S, b) = rest \union mine
  BY DEF EntriesOf
<1> HIDE DEF rest, mine
<1>3. IsFiniteSet(rest) /\ IsFiniteSet(mine)
  BY DEF rest, mine
<1>4. /\ IsFiniteSet(rest \union mine)
      /\ Cardinality(rest \union mine) = Cardinality(rest) + Cardinality(mine) - Cardinality({})
  BY <1>1, <1>3, FS_Union
<1>5. Cardinality(rest) \in Nat /\ Cardinality(mine) \in Nat
  BY <1>3, FS_CardinalityType
<1>. QED
  BY <1>2, <1>4, <1>5, FS_EmptySet DEF rest, mine

LEMMA EntriesSubset ==
    ASSUME NEW S, NEW T \in SUBSET S, NEW b, IsFiniteSet(EntriesOf(S, b))
    PROVE  IsFiniteSet(EntriesOf(T, b))
<1>1. EntriesOf(T, b) \in SUBSET EntriesOf(S, b)
  BY DEF EntriesOf
<1>. QED
  BY <1>1, FS_Subset

\* What LegalLocks says of the queues alone.
LEMMA LegalEntries ==
    ASSUME LocksOK, NEW pair \in ResPairs
    PROVE  /\ IsFiniteSet(Entries(pair, blk))
           /\ Cardinality(Entries(pair, blk)) = NumBlocked(pair, blk)
           /\ NumBlocked(pair, blk) \in Nat
<1>1. \A m \in PairMutexes(pair) : blk[m] \in {<<>>, <<pair[1]>>, <<pair[2]>>}
  BY DEF LocksOK, LegalLocks
<1>2. /\ blk[<<pair, "mutex_1">>] \in {<<>>, <<pair[1]>>, <<pair[2]>>}
      /\ blk[<<pair, "mutex_2">>] \in {<<>>, <<pair[1]>>, <<pair[2]>>}
  BY <1>1 DEF PairMutexes
<1>. QED
  BY <1>2, EntriesCount

\* Both processes of a deadlocked pair are blocked.
LEMMA StuckBlocksTwo ==
    ASSUME LocksOK, NEW pair \in ResPairs, Stuck(pair, own, blk)
    PROVE  NumBlocked(pair, blk) = 2
<1> DEFINE m1 == <<pair, "mutex_1">>
           m2 == <<pair, "mutex_2">>
           p  == pair[1]
           q  == pair[2]
<1>1. p # q
  BY MonitorAssumption
<1>2. \A m \in {m1, m2} : blk[m] \in {<<>>, <<p>>, <<q>>}
  BY DEF LocksOK, LegalLocks, PairMutexes
<1>3. \A x \in {p, q} : \E n \in {m1, m2} : x \in Range(blk[n])
  BY DEF Stuck, PairMutexes
<1>4. NumBlocked(pair, blk) = Len(blk[m1]) + Len(blk[m2])
  BY DEF NumBlocked
<1> HIDE DEF m1, m2, p, q
<1>5. blk[m1] # <<>> /\ blk[m2] # <<>>
  BY <1>1, <1>2, <1>3, RangeOfOne
<1>6. \A x : Len(<<x>>) = 1
  OBVIOUS
<1>7. Len(blk[m1]) = 1 /\ Len(blk[m2]) = 1
  BY <1>2, <1>5, <1>6
<1>. QED
  BY <1>4, <1>7

LEMMA LiveInPairs == Inv => Live \subseteq ResPairs
BY DEF Inv, NoFreedPairInUse, Live

LEMMA CreatedLive ==
    ASSUME Inv, NEW pair \in ResPairs, CreateSharedResourcePair(pair)
    PROVE  Live' = Live \union {pair}
<1> DEFINE t == total_resource_pairs
<1>1. t \in 0 .. SHARED_RESOURCE_MAX - 1 /\ t' = t + 1 /\ t + 1 \in Slots
  BY MonitorAssumption DEF Inv, TypeOK, Slots, CreateSharedResourcePair
<1>2. /\ resource_pairs'[t + 1] = pair
      /\ \A j \in 1 .. t : resource_pairs'[j] = resource_pairs[j]
  BY <1>1 DEF Inv, TypeOK, Slots, CreateSharedResourcePair
<1>3. \A j : j \in 1 .. t + 1 <=> j \in 1 .. t \/ j = t + 1
  BY <1>1
<1> HIDE DEF t
<1>4. Live' = {resource_pairs'[j] : j \in 1 .. t + 1}
  BY <1>1 DEF Live, t
<1>5. Live = {resource_pairs[j] : j \in 1 .. t}
  BY DEF Live, t
<1>. QED
  BY <1>2, <1>3, <1>4, <1>5

LEMMA DestructedLive ==
    ASSUME Inv, DestructPair
    PROVE  resource_pairs[i] \in Live /\ Live' = Live \ {resource_pairs[i]}
<1> DEFINE t == total_resource_pairs
<1>1. /\ Live = {resource_pairs[j] : j \in 1 .. t}
      /\ Live' = {resource_pairs'[j] : j \in 1 .. t'}
      /\ i \in 1 .. t /\ t \in 1 .. t
  BY AfterDestruct DEF Live
<1>2. \A j \in 1 .. t : j # i => resource_pairs[j] # resource_pairs[i]
  BY <1>1 DEF Inv, NoFreedPairInUse
<1>3. ASSUME NEW j \in 1 .. t'
      PROVE  \E n \in 1 .. t : n # i /\ resource_pairs'[j] = resource_pairs[n]
  <2>1. CASE j = i
    BY <2>1, AfterDestruct
  <2>2. CASE j # i
    BY <2>2, AfterDestruct
  <2>. QED
    BY <2>1, <2>2
<1>4. ASSUME NEW n \in 1 .. t, n # i
      PROVE  \E j \in 1 .. t' : resource_pairs'[j] = resource_pairs[n]
  <2>1. CASE n = t
    BY <1>4, <2>1, AfterDestruct
  <2>2. CASE n # t
    BY <1>4, <2>2, AfterDestruct
  <2>. QED
    BY <2>1, <2>2
<1> HIDE DEF t
<1>. QED
  BY <1>1, <1>2, <1>3, <1>4

LEMMA InitCount == Init => CountOK
<1> SUFFICES ASSUME Init PROVE CountOK
  OBVIOUS
<1>1. Live = {} /\ total_blocked = 0
  <2>1. 1 .. total_resource_pairs = {}
    BY DEF Init
  <2>. QED
    BY <2>1 DEF Live, Init
<1>2. EntriesOf(Live, blk) = {}
  BY <1>1 DEF EntriesOf
<1>3. IsFiniteSet(EntriesOf(Live, blk)) /\ TotalBlockedExact
  BY <1>1, <1>2, FS_EmptySet DEF TotalBlockedExact
<1>4. ASSUME NEW pair \in ResPairs PROVE Entries(pair, blk) = {}
  <2>1. \A m \in PairMutexes(pair) : {m} \X DOMAIN blk[m] = {}
    <3>1. \A m \in PairMutexes(pair) : blk[m] = << >>
      BY MutexFacts DEF Init
    <3>. QED
      BY <3>1
  <2>. QED
    BY <2>1 DEF Entries
<1>. QED
  BY <1>3, <1>4 DEF CountOK

LEMMA CreateCount ==
    ASSUME Inv, CountOK, NEW pair \in ResPairs, CreateSharedResourcePair(pair)
    PROVE  CountOK'
<1>1. /\ Live' = Live \union {pair} /\ freed' = freed /\ blk' = blk
      /\ total_blocked' = total_blocked
      /\ pair \notin Live \union freed
  BY CreatedLive DEF CreateSharedResourcePair, locks
<1>2. Entries(pair, blk) = {}
  BY <1>1 DEF CountOK
<1>3. EntriesOf(Live', blk') = EntriesOf(Live, blk)
  BY <1>1, <1>2 DEF EntriesOf
<1>. QED
  BY <1>1, <1>3 DEF CountOK, TotalBlockedExact

LEMMA UseCount ==
    ASSUME Inv, CountOK, NEW pair \in ResPairs, UseMutexes(pair)
    PROVE  CountOK'
<1> DEFINE rest == EntriesOf(Live \ {pair}, blk)
<1>1. /\ pair \in Live /\ Live \in SUBSET ResPairs /\ Live' = Live /\ freed' = freed
      /\ total_blocked' = total_blocked + NumBlocked(pair, blk') - NumBlocked(pair, blk)
  BY LiveInPairs DEF UseMutexes, Live
<1>2. \A r \in ResPairs \ {pair} : Entries(r, blk') = Entries(r, blk)
  <2>1. PICK b : blk' = [m \in Mutex |-> IF m[1] = pair THEN b[m] ELSE blk[m]]
    BY DEF UseMutexes
  <2>2. ASSUME NEW r \in ResPairs \ {pair}, NEW m \in PairMutexes(r)
        PROVE  blk'[m] = blk[m]
    BY <2>1, <2>2, MutexFacts
  <2>. QED
    BY <2>2 DEF Entries
<1>3. EntriesOf(Live \ {pair}, blk') = rest
  BY <1>1, <1>2 DEF EntriesOf
<1>4. IsFiniteSet(rest)
  BY EntriesSubset DEF CountOK
<1>5. /\ IsFiniteSet(Entries(pair, blk))
      /\ Cardinality(Entries(pair, blk)) = NumBlocked(pair, blk)
      /\ NumBlocked(pair, blk) \in Nat
  BY LegalEntries DEF Inv
<1>6. /\ IsFiniteSet(Entries(pair, blk'))
      /\ Cardinality(Entries(pair, blk')) = NumBlocked(pair, blk')
      /\ NumBlocked(pair, blk') \in Nat
  <2>1. LocksOK'
    BY UseInv DEF Inv
  <2>2. \A m \in PairMutexes(pair) : blk'[m] \in {<<>>, <<pair[1]>>, <<pair[2]>>}
    BY <2>1 DEF LocksOK, LegalLocks
  <2>. QED
    BY <2>2, EntriesCount DEF PairMutexes
<1>7. /\ Cardinality(EntriesOf(Live, blk)) = Cardinality(rest) + NumBlocked(pair, blk)
      /\ Cardinality(rest) \in Nat
  BY <1>1, <1>4, <1>5, EntriesApart
<1>8. /\ IsFiniteSet(EntriesOf(Live, blk'))
      /\ Cardinality(EntriesOf(Live, blk')) = Cardinality(rest) + NumBlocked(pair, blk')
  BY <1>1, <1>3, <1>4, <1>6, EntriesApart
<1>9. TotalBlockedExact'
  BY <1>1, <1>5, <1>6, <1>7, <1>8 DEF CountOK, TotalBlockedExact
<1>. QED
  BY <1>1, <1>2, <1>8, <1>9 DEF CountOK

LEMMA DestructCount ==
    ASSUME Inv, CountOK, DestructPair
    PROVE  CountOK'
<1>1. PICK pair \in ResPairs : pair = resource_pairs[i]
  BY AfterDestruct DEF Inv, NoFreedPairInUse
<1>2. /\ pair \in Live /\ Live' = Live \ {pair} /\ Live \in SUBSET ResPairs
      /\ freed' = freed \union {pair} /\ total_blocked' = total_blocked - 2 /\ blk' = blk
  BY <1>1, DestructedLive, LiveInPairs DEF DestructPair, locks
<1>3. Stuck(pair, own, blk)
  BY <1>1, AfterDestruct DEF Inv, VerdictsOK, DestructPair
<1>4. IsFiniteSet(Entries(pair, blk)) /\ Cardinality(Entries(pair, blk)) = 2
  BY <1>3, LegalEntries, StuckBlocksTwo DEF Inv
<1>5. IsFiniteSet(EntriesOf(Live \ {pair}, blk))
  BY EntriesSubset DEF CountOK
<1>6. /\ Cardinality(EntriesOf(Live, blk)) = Cardinality(EntriesOf(Live \ {pair}, blk)) + 2
      /\ Cardinality(EntriesOf(Live \ {pair}, blk)) \in Nat
  BY <1>2, <1>4, <1>5, EntriesApart
<1>7. TotalBlockedExact'
  BY <1>2, <1>6 DEF CountOK, TotalBlockedExact
<1>8. Live' \union freed' = Live \union freed
  BY <1>2
<1>. QED
  BY <1>2, <1>5, <1>7, <1>8 DEF CountOK

\* The number of blocked processes stays exact, although it is changed by
\* two at once for each pair destructed and by one everywhere else.
THEOREM TotalBlockedIsExact == Spec => []TotalBlockedExact
<1>1. Inv /\ CountOK /\ [Next]_vars => CountOK'
  <2> SUFFICES ASSUME Inv, CountOK, [Next]_vars PROVE CountOK'
    OBVIOUS
  <2>1. ASSUME NEW pair \in ResPairs, CreateSharedResourcePair(pair) \/ UseMutexes(pair)
        PROVE  CountOK'
    BY <2>1, CreateCount, UseCount
  <2>2. CASE DestructPair
    BY <2>2, DestructCount
  <2>3. CASE \/ CheckForDeadlock \/ ConnectDLGraph \/ TestResourcePair \/ AllTested
             \/ KeepPair \/ Return \/ UNCHANGED vars
    <3>1. Live' = Live /\ freed' = freed /\ blk' = blk /\ total_blocked' = total_blocked
      BY <2>3 DEF CheckForDeadlock, ConnectDLGraph, TestResourcePair, AllTested, KeepPair,
                  Return, Live, locks, vars
    <3>. QED
      BY <3>1 DEF CountOK, TotalBlockedExact
  <2>. QED
    BY <2>1, <2>2, <2>3 DEF Next, Step
<1>2. CountOK => TotalBlockedExact
  BY DEF CountOK
<1>. QED
  BY <1>1, <1>2, InitCount, MonitorInvariance, PTL DEF Spec

-----------------------------------------------------------------------------
(***************************************************************************)
(* The call implements the one step of DeadlockCheck.                      *)
(***************************************************************************)

\* What DeadlockCheck sees.
Seen == <<Live \ Doomed, Live \union freed, at = "test", own, blk>>

\* While the pairs are created and tested, and while the sweep passes, no
\* pair comes or goes except by the actions named here.
LEMMA NoOneDoomed == at \in {"idle", "test"} => Live \ Doomed = Live
BY DEF Doomed

LEMMA CreateIsRegister ==
    ASSUME Inv, NEW pair \in ResPairs, CreateSharedResourcePair(pair)
    PROVE  Check!Register
<1>1. Doomed = {} /\ Doomed' = {} /\ pair \notin Live
  BY DEF Doomed, CreateSharedResourcePair
<1>2. (Live \ Doomed)' = (Live \ Doomed) \union {pair} /\ pair \in ResPairs \ (Live \ Doomed)
  BY <1>1, CreatedLive
<1>3. (Live \union freed)' = (Live \union freed) \union {pair} /\ pair \notin Live \union freed
  BY CreatedLive DEF CreateSharedResourcePair
<1>4. (at = "test") = FALSE /\ (at = "test")' = FALSE /\ UNCHANGED <<own, blk>>
  BY DEF CreateSharedResourcePair, locks
<1> QED BY <1>2, <1>3, <1>4 DEF Check!Register

LEMMA UseIsUse ==
    ASSUME NEW pair \in ResPairs, UseMutexes(pair)
    PROVE  Check!UseMutexes
<1>1. UNCHANGED <<Live \ Doomed, Live \union freed>>
  BY DEF UseMutexes, Live, Doomed
<1>2. (at = "test") = FALSE /\ (at = "test")' = FALSE
  BY DEF UseMutexes
<1> QED BY <1>1, <1>2 DEF Check!UseMutexes

LEMMA CallIsCall ==
    ASSUME CheckForDeadlock
    PROVE  Check!Call
<1>1. UNCHANGED <<Live \ Doomed, Live \union freed, own, blk>>
  BY DEF CheckForDeadlock, Live, Doomed, locks
<1>2. (at = "test") = FALSE /\ (at = "test")' = TRUE
  BY DEF CheckForDeadlock
<1> QED BY <1>1, <1>2 DEF Check!Call

\* When the last verdict is known, the pairs that are left are those that
\* are not deadlocked.
LEMMA AllTestedIsCheck ==
    ASSUME Inv, AllTested
    PROVE  Check!Check
<1> DEFINE t == total_resource_pairs
<1>1. \A j \in 1 .. t : deadlocks[j] <=> Stuck(resource_pairs[j], own, blk)
  BY DEF Inv, TypeOK, VerdictsOK, AllTested
<1>2. /\ Live' = {resource_pairs[j] : j \in 1 .. t}
      /\ Doomed' = {resource_pairs[j] : j \in {n \in 1 .. t : deadlocks[n]}}
      /\ Live = {resource_pairs[j] : j \in 1 .. t}
      /\ Doomed = {}
  BY DEF Live, Doomed, AllTested
<1>3. Live' \ Doomed' = {pair \in Live : ~Stuck(pair, own, blk)}
  BY <1>1, <1>2
<1>4. Live \ Doomed = Live
  BY <1>2
<1>5. (Live \ Doomed)' = {pair \in Live \ Doomed : ~Stuck(pair, own, blk)}
  BY <1>3, <1>4
<1>6. /\ UNCHANGED <<own, blk, Live \union freed>>
      /\ (at = "test") = TRUE /\ (at = "test")' = FALSE
  BY DEF AllTested, locks, Live
<1>7. \A pair : Check!Stuck(pair, own, blk) <=> Stuck(pair, own, blk)
  BY DEF Check!Stuck, Check!PairMutexes, Check!Range, Stuck, PairMutexes, Range
<1>8. {pair \in Live \ Doomed : ~Check!Stuck(pair, own, blk)}
          = {pair \in Live \ Doomed : ~Stuck(pair, own, blk)}
  BY <1>7
<1> QED BY <1>5, <1>6, <1>8 DEF Check!Check

\* The sweep removes a doomed pair from the array and from the doomed.
LEMMA DestructIsStutter ==
    ASSUME Inv, DestructPair
    PROVE  UNCHANGED Seen
<1> DEFINE t == total_resource_pairs
           Kept == {resource_pairs[j] : j \in {n \in 1 .. t : ~deadlocks[n]}}
<1>1. at = "sweep" /\ at' = "sweep" /\ deadlocks[i]
  BY DEF DestructPair
<1>2. Live \ Doomed = Kept
  BY <1>1 DEF Inv, NoFreedPairInUse, Live, Doomed
<1>3. (Live \ Doomed)' = Kept'
  BY <1>1, DestructInv DEF Inv, NoFreedPairInUse, Live, Doomed
<1>4. ASSUME NEW j \in 1 .. t, ~deadlocks[j]
      PROVE  \E n \in 1 .. t' : ~deadlocks'[n] /\ resource_pairs'[n] = resource_pairs[j]
  <2>1. CASE j = t
    BY <1>1, <1>4, <2>1, AfterDestruct
  <2>2. CASE j # t
    BY <1>1, <1>4, <2>2, AfterDestruct
  <2> QED BY <2>1, <2>2
<1>5. ASSUME NEW n \in 1 .. t', ~deadlocks'[n]
      PROVE  \E j \in 1 .. t : ~deadlocks[j] /\ resource_pairs[j] = resource_pairs'[n]
  <2>1. CASE n = i
    BY <1>5, <2>1, AfterDestruct
  <2>2. CASE n # i
    BY <1>5, <2>2, AfterDestruct
  <2> QED BY <2>1, <2>2
<1>6. Kept' = Kept
  BY <1>4, <1>5
<1>7. (Live \union freed)' = Live \union freed
  BY DestructedLive DEF DestructPair
<1>8. UNCHANGED <<own, blk>>
  BY DEF DestructPair, locks
<1> QED BY <1>1, <1>2, <1>3, <1>6, <1>7, <1>8 DEF Seen

LEMMA OthersStutter ==
    ASSUME Inv, ConnectDLGraph \/ TestResourcePair \/ KeepPair \/ UNCHANGED vars
    PROVE  UNCHANGED Seen
<1>1. CASE ConnectDLGraph \/ TestResourcePair
  <2>1. at = "test" /\ at' = "test"
    BY <1>1 DEF ConnectDLGraph, TestResourcePair
  <2>2. Live' = Live /\ Doomed = {} /\ Doomed' = {}
    BY <1>1, <2>1 DEF ConnectDLGraph, TestResourcePair, Live, Doomed
  <2> QED BY <1>1, <2>1, <2>2 DEF ConnectDLGraph, TestResourcePair, locks, Seen
<1>2. CASE KeepPair \/ UNCHANGED vars
  BY <1>2 DEF KeepPair, vars, locks, Live, Doomed, Seen
<1> QED BY <1>1, <1>2

\* When the sweep has passed every slot no pair is doomed any more.
LEMMA ReturnIsStutter ==
    ASSUME Inv, Return
    PROVE  UNCHANGED Seen
<1>1. \A j \in 1 .. total_resource_pairs : ~deadlocks[j]
  BY DEF Inv, TypeOK, VerdictsOK, Return
<1>2. Doomed = {} /\ Doomed' = {}
  BY <1>1 DEF Doomed, Return
<1> QED BY <1>2 DEF Return, Live, locks, Seen

\* check_for_deadlock() does what the scheduler relies on: every call takes
\* away all the pairs that are deadlocked when it begins, and no others; the
\* sweep over the shrinking array leaves none of them behind, and none comes
\* back.
THEOREM ImplementsCheck == Spec => DestructsExactlyTheDeadlocked
<1>1. Init => Check!Init
  <2> SUFFICES ASSUME Init PROVE Check!Init
    OBVIOUS
  <2>1. 1 .. total_resource_pairs = {}
    BY DEF Init
  <2>2. Live \ Doomed = {} /\ Live \union freed = {}
    BY <2>1 DEF Live, Init
  <2>3. (at = "test") = FALSE
    BY DEF Init
  <2> QED BY <2>2, <2>3 DEF Check!Init
<1>2. Inv /\ [Next]_vars => [Check!Next]_Seen
  <2> SUFFICES ASSUME Inv, [Next]_vars
               PROVE  [Check!Next]_Seen
    OBVIOUS
  <2>1. ASSUME NEW pair \in ResPairs, CreateSharedResourcePair(pair)
        PROVE  Check!Next
    BY <2>1, CreateIsRegister DEF Check!Next
  <2>2. ASSUME NEW pair \in ResPairs, UseMutexes(pair)
        PROVE  Check!Next
    BY <2>2, UseIsUse DEF Check!Next
  <2>3. CASE CheckForDeadlock
    BY <2>3, CallIsCall DEF Check!Next
  <2>4. CASE AllTested
    BY <2>4, AllTestedIsCheck DEF Check!Next
  <2>5. CASE DestructPair
    BY <2>5, DestructIsStutter
  <2>6. CASE Return
    BY <2>6, ReturnIsStutter
  <2>7. CASE ConnectDLGraph \/ TestResourcePair \/ KeepPair \/ UNCHANGED vars
    BY <2>7, OthersStutter
  <2> QED BY <2>1, <2>2, <2>3, <2>4, <2>5, <2>6, <2>7 DEF Next, Step
<1> QED BY <1>1, <1>2, MonitorInvariance, PTL
        DEF Spec, DestructsExactlyTheDeadlocked, Check!Spec, Seen
=============================================================================
