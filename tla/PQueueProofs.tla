---------------------------- MODULE PQueueProofs ----------------------------
(***************************************************************************)
(* The linked lists of PQueue, for any set of nodes and processes and any  *)
(* number of levels: they stay apart and lose no node but those known, and *)
(* the array of lists implements the one sequence of ReadyQueueSpec.       *)
(***************************************************************************)
EXTENDS PQueue, DataProofs

-----------------------------------------------------------------------------
(***************************************************************************)
(* Recursive functions.  The induction theorems of the library are about   *)
(* operators; here it is enough that a set of numbers has a smallest one.  *)
(***************************************************************************)

LEMMA Smallest ==
    ASSUME NEW T \in SUBSET Nat, T # {}
    PROVE  \E n \in T : \A m \in T : n <= m
<1> DEFINE R == OpToRel(<, Nat)
<1>1. IsWellFoundedOn(R, Nat)
  BY NatLessThanWellFounded, Zenon
<1>2. \A a, b \in Nat : a < b => <<a, b>> \in R
  BY DEF OpToRel
<1> HIDE DEF R
<1>3. PICK n \in T : \A m \in T : ~(<<m, n>> \in R)
  BY <1>1, WFMin
<1>4. \A m \in T : ~(m < n)
  BY <1>2, <1>3
<1>5. \A m \in T : n <= m
  BY <1>4
<1>. QED
  BY <1>5

\* What holds at 0 and goes on from one number to the next holds up to N.
LEMMA UpTo ==
    ASSUME NEW N \in Nat, NEW T \in SUBSET Nat, 0 \in T,
           \A n \in 0 .. N : n \in T /\ n < N => n + 1 \in T
    PROVE  0 .. N \subseteq T
<1> DEFINE Bad == (0 .. N) \ T
<1> SUFFICES ASSUME Bad # {} PROVE FALSE
  OBVIOUS
<1>1. PICK n \in Bad : \A m \in Bad : n <= m
  <2>1. Bad \in SUBSET Nat
    OBVIOUS
  <2> HIDE DEF Bad
  <2>. QED
    BY <2>1, Smallest
<1>2. n \in 1 .. N
  BY <1>1
<1>3. n - 1 \in T
  BY <1>1, <1>2
<1>4. n - 1 \in 0 .. N /\ n - 1 < N /\ (n - 1) + 1 = n
  BY <1>2
<1>. QED
  BY <1>1, <1>3, <1>4

\* A function may be defined by the value a that it takes first and by G,
\* which gives the next value for a number and the value before.
DefinedBy(f, N, a, G) ==
    \A i \in 1 .. N : f[i] = IF i = 1 THEN a ELSE G[<<i, f[i - 1]>>]

LEMMA RecursionExists ==
    ASSUME NEW N \in Nat, NEW S, NEW a \in S, NEW G \in [(1 .. N) \X S -> S]
    PROVE  \E f \in [1 .. N -> S] : DefinedBy(f, N, a, G)
<1> DEFINE Good(n, f) == \A i \in 1 .. n : f[i] = IF i = 1 THEN a ELSE G[<<i, f[i - 1]>>]
           T == {n \in 0 .. N : \E f \in [1 .. n -> S] : Good(n, f)}
<1>1. 0 \in T
  <2>1. [i \in 1 .. 0 |-> a] \in [1 .. 0 -> S] /\ Good(0, [i \in 1 .. 0 |-> a])
    OBVIOUS
  <2>2. 0 \in 0 .. N
    OBVIOUS
  <2> HIDE DEF Good
  <2>3. \E f \in [1 .. 0 -> S] : Good(0, f)
    BY <2>1
  <2>. QED
    BY <2>2, <2>3
<1>2. ASSUME NEW n \in 0 .. N, n \in T, n < N PROVE n + 1 \in T
  <2>1. PICK f \in [1 .. n -> S] : Good(n, f)
    BY <1>2
  <2> DEFINE x == IF n = 0 THEN a ELSE G[<<n + 1, f[n]>>]
             g == [i \in 1 .. n + 1 |-> IF i <= n THEN f[i] ELSE x]
  <2>2. n \in Nat /\ n + 1 \in 1 .. N
    BY <1>2
  <2>3. x \in S
    <3>1. n # 0 => f[n] \in S
      BY <2>1, <2>2
    <3>. QED
      BY <2>2, <3>1
  <2>a. /\ g \in [1 .. n + 1 -> S]
        /\ \A i \in 1 .. n : g[i] = f[i]
        /\ g[n + 1] = x
    <3> HIDE DEF x
    <3>. QED
      BY <2>1, <2>2, <2>3
  <2>4. ASSUME NEW i \in 1 .. n + 1
        PROVE  g[i] = IF i = 1 THEN a ELSE G[<<i, g[i - 1]>>]
    <3> HIDE DEF g
    <3>1. CASE i \in 1 .. n
      <4>1. i # 1 => i - 1 \in 1 .. n
        BY <2>2, <3>1
      <4>2. f[i] = IF i = 1 THEN a ELSE G[<<i, f[i - 1]>>]
        BY <2>1, <3>1
      <4>. QED
        BY <2>a, <3>1, <4>1, <4>2
    <3>2. CASE i = n + 1
      <4>1. i # 1 => i - 1 = n /\ n \in 1 .. n /\ n # 0
        BY <2>2, <3>2
      <4>2. i = 1 => n = 0
        BY <2>2, <3>2
      <4>. QED
        BY <2>a, <3>2, <4>1, <4>2
    <3>. QED
      BY <2>2, <3>1, <3>2
  <2>5. Good(n + 1, g)
    BY <2>4
  <2>6. n + 1 \in 0 .. N
    BY <1>2
  <2> HIDE DEF g, Good
  <2>. QED
    BY <2>a, <2>5, <2>6
<1>3. N \in T
  <2>1. T \in SUBSET Nat
    OBVIOUS
  <2> HIDE DEF T
  <2>2. 0 .. N \subseteq T
    BY <1>1, <1>2, <2>1, UpTo
  <2>. QED
    BY <2>2
<1>. QED
  BY <1>3 DEF DefinedBy

-----------------------------------------------------------------------------
(***************************************************************************)
(* The lists of a heap.                                                    *)
(***************************************************************************)

\* The heap h holds the lists ls: they start at the heads, follow next and
\* end with NULL, share no node, have no freed node, and no two of their
\* nodes are for one process.
Holds(h, ls) ==
    /\ ls \in [Queue -> Seq(Node)] /\ Apart(ls)
    /\ \A q \in Queue : h.head[q] = IF ls[q] = <<>> THEN NULL ELSE ls[q][1]
    /\ \A q \in Queue : \A i \in 1 .. Len(ls[q]) :
          h.next[ls[q][i]] = IF i = Len(ls[q]) THEN NULL ELSE ls[q][i + 1]
    /\ Held(ls) \subseteq h.used
    /\ \A n \in Held(ls) : h.pcb[n] \in Proc
    /\ \A m, n \in Held(ls) : h.pcb[m] = h.pcb[n] => m = n

\* What a heap is made of.
Heap == [head : [Queue -> Node \union {NULL}],
         next : [Node -> Node \union {NULL, Garbage}],
         pcb  : [Node -> Proc \union {Garbage}],
         used : SUBSET Node]

LEMMA ListFacts ==
    ASSUME NEW h, NEW ls, Holds(h, ls), NEW q \in Queue
    PROVE  /\ ls[q] \in Seq(Node) /\ Len(ls[q]) \in Nat
           /\ Len(ls[q]) <= Cardinality(Node) /\ Cardinality(Node) \in Nat
           /\ \A i \in 1 .. Len(ls[q]) : ls[q][i] \in Node
           /\ ls[q] # <<>> <=> 1 <= Len(ls[q])
<1>1. ls[q] \in Seq(Node) /\ Once(ls[q])
  BY DEF Holds, Apart
<1>2. Range(ls[q]) \subseteq Node
  BY <1>1, RangeOfSeq
<1>3. Len(ls[q]) = Cardinality(Range(ls[q]))
  BY <1>1, OnceLength
<1>4. IsFiniteSet(Node)
  BY NodeAssumption
<1>5. Cardinality(Range(ls[q])) <= Cardinality(Node) /\ Cardinality(Node) \in Nat
  BY <1>2, <1>4, FS_Subset, FS_CardinalityType
<1>6. Len(ls[q]) \in Nat /\ (ls[q] # <<>> <=> 1 <= Len(ls[q]))
  BY <1>1, EmptySeq, LenProperties
<1>7. \A i \in 1 .. Len(ls[q]) : ls[q][i] \in Node
  BY <1>1, ElementOfSeq
<1>. QED
  BY <1>1, <1>3, <1>5, <1>6, <1>7

\* The walk along next meets the nodes of the list that the heap holds.
LEMMA NodesAre ==
    ASSUME NEW h \in Heap, NEW ls, Holds(h, ls), NEW q \in Queue
    PROVE  Nodes(h, q) = ls[q]
<1> DEFINE C == Cardinality(Node)
           s == ls[q]
           Step(from, k) == [n \in Node |-> IF k = 1 \/ h.next[n] \notin Node THEN <<n>>
                                            ELSE <<n>> \o from[k - 1][h.next[n]]]
           from == CHOOSE f : f = [k \in 1 .. C |-> Step(f, k)]
<1>1. /\ s \in Seq(Node) /\ Len(s) \in Nat /\ Len(s) <= C /\ C \in Nat
      /\ \A i \in 1 .. Len(s) : s[i] \in Node
      /\ s # <<>> <=> 1 <= Len(s)
  BY ListFacts
<1>2. /\ h.next \in [Node -> Node \union {NULL, Garbage}]
      /\ h.head[q] = IF s = <<>> THEN NULL ELSE s[1]
      /\ \A i \in 1 .. Len(s) : h.next[s[i]] = IF i = Len(s) THEN NULL ELSE s[i + 1]
  BY DEF Heap, Holds
<1>3. NULL \notin Node
  BY NodeAssumption
<1>4. from = [k \in 1 .. C |-> Step(from, k)]
  <2> DEFINE S == [Node -> Seq(Node)]
             a == [n \in Node |-> <<n>>]
             G == [x \in (1 .. C) \X S |->
                     [n \in Node |-> IF h.next[n] \notin Node THEN <<n>>
                                     ELSE <<n>> \o x[2][h.next[n]]]]
  <2>1. \A n \in Node : <<n>> \in Seq(Node)
    OBVIOUS
  <2>2. a \in S
    BY <2>1
  <2>3. ASSUME NEW x \in (1 .. C) \X S
        PROVE  [n \in Node |-> IF h.next[n] \notin Node THEN <<n>>
                               ELSE <<n>> \o x[2][h.next[n]]] \in S
    <3>1. x[2] \in [Node -> Seq(Node)]
      OBVIOUS
    <3>2. ASSUME NEW n \in Node, h.next[n] \in Node PROVE <<n>> \o x[2][h.next[n]] \in Seq(Node)
      BY <2>1, <3>1, <3>2, ConcatProperties
    <3>. QED
      BY <2>1, <3>2
  <2>4. G \in [(1 .. C) \X S -> S]
    BY <2>3
  <2>5. PICK f \in [1 .. C -> S] : DefinedBy(f, C, a, G)
    <3>1. C \in Nat
      BY <1>1
    <3> HIDE DEF S, a, G, C
    <3>. QED
      BY <2>2, <2>4, <3>1, RecursionExists, Zenon
  <2>6. ASSUME NEW k \in 1 .. C PROVE f[k] = Step(f, k)
    <3>1. CASE k = 1
      BY <2>5, <3>1 DEF DefinedBy
    <3>2. CASE k # 1
      <4>1. k - 1 \in 1 .. C
        BY <1>1, <3>2
      <4>2. <<k, f[k - 1]>> \in (1 .. C) \X S
        BY <2>5, <4>1
      <4>3. f[k] = G[<<k, f[k - 1]>>]
        BY <2>5, <3>2 DEF DefinedBy
      <4>4. G[<<k, f[k - 1]>>] = [n \in Node |-> IF h.next[n] \notin Node THEN <<n>>
                                                ELSE <<n>> \o f[k - 1][h.next[n]]]
        BY <4>2
      <4>. QED
        BY <3>2, <4>3, <4>4
    <3>. QED
      BY <3>1, <3>2
  <2>7. f = [k \in 1 .. C |-> Step(f, k)]
    <3> HIDE DEF Step
    <3>. QED
      BY <2>5, <2>6
  <2>. QED
    BY <2>7, Zenon
<1>5. \A k \in 1 .. C : from[k] = Step(from, k)
  <2> HIDE DEF from, Step
  <2>. QED
    BY <1>4
<1>6. Nodes(h, q) = IF h.head[q] \notin Node THEN <<>> ELSE from[C][h.head[q]]
  BY DEF Nodes
<1> HIDE DEF from
\* From the i-th node on, the walk meets the rest of the list.
<1> DEFINE T == {k \in Nat : \A i \in 1 .. Len(s) :
                    1 <= k /\ k <= C /\ Len(s) < i + k => from[k][s[i]] = SubSeq(s, i, Len(s))}
<1>7. 0 \in T
  OBVIOUS
<1>8. ASSUME NEW m \in 0 .. C, m \in T, m < C PROVE m + 1 \in T
  <2> DEFINE k == m + 1
  <2> SUFFICES ASSUME NEW i \in 1 .. Len(s), Len(s) < i + k
               PROVE  from[k][s[i]] = SubSeq(s, i, Len(s))
    OBVIOUS
  <2>1. k \in 1 .. C /\ s[i] \in Node /\ m \in Nat /\ m < C
    BY <1>1, <1>8
  <2>2. from[k][s[i]] = IF k = 1 \/ h.next[s[i]] \notin Node THEN <<s[i]>>
                        ELSE <<s[i]>> \o from[m][h.next[s[i]]]
    <3>1. from[k] = Step(from, k)
      BY <1>5, <2>1
    <3>2. k - 1 = m
      BY <1>8
    <3> HIDE DEF k
    <3>. QED
      BY <2>1, <3>1, <3>2, SMTT(20)
  <2>3. SubSeq(s, i, Len(s)) = <<s[i]>> \o SubSeq(s, i + 1, Len(s))
    BY <1>1, SubSeqRecursiveFirst, SMTT(20)
  <2>4. CASE i = Len(s)
    <3>1. SubSeq(s, i + 1, Len(s)) = <<>>
      BY <1>1, <2>4, SubSeqEmpty, SMTT(20)
    <3>2. from[k][s[i]] = <<s[i]>>
      BY <1>2, <1>3, <2>2, <2>4
    <3>3. <<s[i]>> \o <<>> = <<s[i]>>
      BY <2>1, ConcatEmptySeq
    <3>. QED
      BY <2>3, <3>1, <3>2, <3>3
  <2>5. CASE i # Len(s)
    <3>1. i + 1 \in 1 .. Len(s) /\ k # 1 /\ 1 <= m /\ m <= C /\ Len(s) < (i + 1) + m
      <4>1. \A l \in Nat : l < i + (m + 1) /\ i \in 1 .. l /\ i # l
                 => i + 1 \in 1 .. l /\ m + 1 # 1 /\ 1 <= m /\ l < (i + 1) + m
        BY <2>1
      <4>2. i \in 1 .. Len(s) /\ Len(s) < i + (m + 1)
        OBVIOUS
      <4>. QED
        BY <1>1, <2>1, <2>5, <4>1, <4>2
    <3>2. h.next[s[i]] = s[i + 1] /\ s[i + 1] \in Node
      BY <1>1, <1>2, <2>5, <3>1
    <3>3. from[m][s[i + 1]] = SubSeq(s, i + 1, Len(s))
      BY <1>8, <3>1
    <3>. QED
      BY <2>2, <2>3, <3>1, <3>2, <3>3
  <2>. QED
    BY <2>4, <2>5
<1>9. C \in T
  <2>1. T \in SUBSET Nat
    OBVIOUS
  <2> HIDE DEF T, s
  <2>2. 0 .. C \subseteq T
    BY <1>1, <1>7, <1>8, <2>1, UpTo
  <2>. QED
    BY <1>1, <2>2
<1>10. CASE s = <<>>
  BY <1>2, <1>3, <1>6, <1>10
<1>11. CASE s # <<>>
  <2>1. 1 \in 1 .. Len(s) /\ 1 <= C /\ Len(s) < 1 + C
    BY <1>1, <1>11
  <2>2. from[C][s[1]] = SubSeq(s, 1, Len(s))
    BY <1>1, <1>9, <2>1
  <2>3. SubSeq(s, 1, Len(s)) = s
    BY <1>1, SubSeqFull
  <2>. QED
    BY <1>1, <1>2, <1>6, <1>11, <2>1, <2>2, <2>3
<1>. QED
  BY <1>10, <1>11

-----------------------------------------------------------------------------
(***************************************************************************)
(* What the operations on queues do to the lists that a heap holds.        *)
(***************************************************************************)

LEMMA ListNodes ==
    ASSUME NEW h, NEW ls, Holds(h, ls)
    PROVE  /\ ls \in [Queue -> Seq(Node)] /\ Family(ls, Queue, Node)
           /\ Held(ls) \subseteq Node
           /\ \A q \in Queue : /\ Range(ls[q]) \subseteq Held(ls)
                               /\ Range(ls[q]) = {ls[q][i] : i \in 1 .. Len(ls[q])}
           /\ \A n \in Held(ls) : \E q \in Queue : n \in Range(ls[q])
<1>1. ls \in [Queue -> Seq(Node)]
  BY DEF Holds
<1>2. Held(ls) \subseteq Node /\ \A n : n \in Held(ls) <=> \E q \in Queue : n \in Range(ls[q])
  BY <1>1, HeldBy
<1>3. \A q \in Queue : Range(ls[q]) = {ls[q][i] : i \in 1 .. Len(ls[q])}
  <2> SUFFICES ASSUME NEW q \in Queue
               PROVE  Range(ls[q]) = {ls[q][i] : i \in 1 .. Len(ls[q])}
    OBVIOUS
  <2>1. ls[q] \in Seq(Node)
    BY <1>1
  <2>. QED
    BY <2>1, RangeEquality
<1>. QED
  BY <1>1, <1>2, <1>3 DEF Family

\* The head field says whether the list is empty.
LEMMA EmptyList ==
    ASSUME NEW h \in Heap, NEW ls, Holds(h, ls), NEW q \in Queue
    PROVE  /\ QIsEmpty(h, q) <=> ls[q] = <<>>
           /\ ls[q] # <<>> => /\ h.head[q] = Head(ls[q]) /\ h.head[q] = ls[q][1]
                              /\ h.head[q] \in Node /\ h.head[q] \in Held(ls)
                              /\ h.head[q] \in h.used /\ h.pcb[h.head[q]] \in Proc
<1>1. h.head[q] = IF ls[q] = <<>> THEN NULL ELSE ls[q][1]
  BY DEF Holds
<1>2. ASSUME ls[q] # <<>>
      PROVE  ls[q][1] \in Range(ls[q]) /\ Head(ls[q]) = ls[q][1]
  <2>1. 1 \in 1 .. Len(ls[q])
    BY <1>2, ListFacts
  <2>2. ls[q] \in Seq(Node)
    BY ListFacts
  <2>3. Range(ls[q]) = {ls[q][i] : i \in 1 .. Len(ls[q])}
    BY <2>2, RangeEquality
  <2>4. ls[q][1] \in Range(ls[q])
    BY <2>1, <2>3
  <2>. QED
    BY <1>2, <2>2, <2>4
<1>3. NULL \notin Node
  BY NodeAssumption
<1>4. ASSUME ls[q] # <<>>
      PROVE  ls[q][1] \in Held(ls) /\ ls[q][1] \in Node /\ ls[q][1] \in h.used
             /\ h.pcb[ls[q][1]] \in Proc
  <2>1. Range(ls[q]) \subseteq Held(ls) /\ Held(ls) \subseteq Node
    BY ListNodes
  <2>. QED
    BY <1>2, <1>4, <2>1 DEF Holds
<1>. QED
  BY <1>1, <1>2, <1>3, <1>4 DEF QIsEmpty

\* The PCBs of a list, in its order.
LEMMA PcbsAre ==
    ASSUME NEW h \in Heap, NEW ls, Holds(h, ls), NEW q \in Queue
    PROVE  /\ Pcbs(h, q) = [i \in 1 .. Len(ls[q]) |-> h.pcb[ls[q][i]]]
           /\ Pcbs(h, q) \in Seq(Proc) /\ Len(Pcbs(h, q)) = Len(ls[q]) /\ Once(Pcbs(h, q))
           /\ Range(Pcbs(h, q)) = {h.pcb[n] : n \in Range(ls[q])}
<1> DEFINE s == ls[q]
           t == [i \in 1 .. Len(s) |-> h.pcb[s[i]]]
<1>1. Pcbs(h, q) = t
  BY NodesAre DEF Pcbs
<1>2. s \in Seq(Node) /\ Len(s) \in Nat /\ Range(s) = {s[i] : i \in 1 .. Len(s)} /\ Once(s)
  <2>1. ls \in [Queue -> Seq(Node)] /\ \A a \in DOMAIN ls : Once(ls[a])
    BY DEF Holds, Apart
  <2>2. s \in Seq(Node) /\ Once(s)
    BY <2>1
  <2>. QED
    BY <2>2, LenProperties, RangeEquality
<1>3. \A i \in 1 .. Len(s) : s[i] \in Held(ls) /\ h.pcb[s[i]] \in Proc
  <2>1. Range(s) \subseteq Held(ls)
    BY ListNodes
  <2>. QED
    BY <1>2, <2>1 DEF Holds
<1> HIDE DEF s
<1>4. t \in Seq(Proc) /\ Len(t) = Len(s)
  <2>1. t \in [1 .. Len(s) -> Proc]
    BY <1>3
  <2>. QED
    BY <1>2, <2>1
<1>5. Range(t) = {h.pcb[n] : n \in Range(s)}
  <2>1. Range(t) = {t[i] : i \in 1 .. Len(s)}
    BY <1>4, RangeEquality
  <2>. QED
    BY <1>2, <2>1
<1>6. Once(t)
  <2>1. \A i, j \in 1 .. Len(s) : h.pcb[s[i]] = h.pcb[s[j]] => s[i] = s[j]
    BY <1>3 DEF Holds
  <2>. QED
    BY <1>2, <1>4, <2>1 DEF Once
<1>. QED
  BY <1>1, <1>4, <1>5, <1>6 DEF s

\* What the nodes that are in no list hold does not matter.
LEMMA HoldsElsewhere ==
    ASSUME NEW h, NEW ls, Holds(h, ls), NEW g, g.head = h.head,
           \A n \in Held(ls) : g.next[n] = h.next[n] /\ g.pcb[n] = h.pcb[n] /\ n \in g.used
    PROVE  Holds(g, ls)
<1>1. \A q \in Queue : \A i \in 1 .. Len(ls[q]) : ls[q][i] \in Held(ls)
  BY ListNodes
<1>2. \A q \in Queue : \A i \in 1 .. Len(ls[q]) :
          g.next[ls[q][i]] = IF i = Len(ls[q]) THEN NULL ELSE ls[q][i + 1]
  BY <1>1 DEF Holds
<1>. QED
  BY <1>2 DEF Holds

\* q_enqueue appends the node to the list.
LEMMA HoldsEnqueue ==
    ASSUME NEW h \in Heap, NEW ls, Holds(h, ls), NEW q \in Queue,
           NEW n \in h.used \ Held(ls), h.pcb[n] \in Proc,
           \A m \in Held(ls) : h.pcb[m] # h.pcb[n]
    PROVE  /\ QEnqueue(h, q, n) \in Heap /\ Holds(QEnqueue(h, q, n), Joined(ls, q, n))
           /\ QEnqueue(h, q, n).used = h.used /\ QEnqueue(h, q, n).pcb = h.pcb
           /\ Held(Joined(ls, q, n)) = Held(ls) \union {n}
<1> DEFINE s   == ls[q]
           new == Joined(ls, q, n)
           cut == SetNodeNext(h, n, NULL)
           g   == QEnqueue(h, q, n)
           L   == Len(s)
<1>1. n \in Node /\ h.used \subseteq Node
  BY DEF Heap
<1>2. /\ cut \in Heap /\ cut.head = h.head /\ cut.used = h.used /\ cut.pcb = h.pcb
      /\ cut.next = [h.next EXCEPT ![n] = NULL] /\ cut.next[n] = NULL
      /\ \A m \in Node \ {n} : cut.next[m] = h.next[m]
  BY <1>1 DEF SetNodeNext, Heap
<1>3. Held(ls) \subseteq Node /\ Held(ls) \subseteq h.used /\ n \notin Held(ls)
  <2>1. Held(ls) \subseteq h.used
    BY DEF Holds
  <2>. QED
    BY <2>1, ListNodes
<1>a. \A r \in Queue : h.head[r] = IF ls[r] = <<>> THEN NULL ELSE ls[r][1]
  BY DEF Holds
<1> HIDE DEF cut
<1>4. Holds(cut, ls)
  <2>1. \A m \in Held(ls) : cut.next[m] = h.next[m] /\ cut.pcb[m] = h.pcb[m] /\ m \in cut.used
    BY <1>2, <1>3
  <2>. QED
    BY <1>2, <2>1, HoldsElsewhere
<1>5. /\ s \in Seq(Node) /\ L \in Nat /\ (s # <<>> <=> 1 <= L)
      /\ \A i \in 1 .. L : s[i] \in Node /\ s[i] # n
  <2>1. Range(s) = {s[i] : i \in 1 .. L} /\ Range(s) \subseteq Held(ls)
    BY ListNodes, ListFacts, RangeEquality
  <2>. QED
    BY <1>3, <2>1, ListFacts
<1>6. /\ Nodes(cut, q) = s
      /\ QIsEmpty(cut, q) <=> s = <<>>
  BY <1>2, <1>4, NodesAre, EmptyList
<1>7. /\ new \in [Queue -> Seq(Node)] /\ Held(new) = Held(ls) \union {n} /\ Apart(new)
      /\ new[q] = Append(s, n) /\ \A r \in Queue \ {q} : new[r] = ls[r]
  <2>1. Family(ls, Queue, Node) /\ Apart(ls) /\ DOMAIN ls = Queue
    BY ListNodes DEF Holds, Family
  <2>. QED
    <3>1. /\ Family(new, Queue, Node)
          /\ Held(new) = Held(ls) \union {n}
          /\ Apart(new)
      <4> HIDE DEF new
      <4>. QED
        BY <1>1, <1>3, <2>1, HeldAppend DEF new
    <3>. QED
      BY <2>1, <3>1 DEF Joined, Family
<1>8. /\ Len(new[q]) = L + 1 /\ new[q] # <<>> /\ new[q][L + 1] = n
      /\ \A i \in 1 .. L : new[q][i] = s[i]
  BY <1>1, <1>5, <1>7, AppendProperties
<1> HIDE DEF new
<1>9. CASE s = <<>>
  <2>1. g = SetHead(cut, q, n) /\ L = 0
    BY <1>5, <1>6, <1>9 DEF QEnqueue, cut
  <2>2. /\ g \in Heap /\ g.head = [h.head EXCEPT ![q] = n] /\ g.next = cut.next
        /\ g.used = h.used /\ g.pcb = h.pcb
    BY <1>1, <1>2, <2>1 DEF SetHead, Heap
  <2>3. \A r \in Queue : g.head[r] = IF new[r] = <<>> THEN NULL ELSE new[r][1]
    <3>1. g.head[q] = n /\ \A r \in Queue \ {q} : g.head[r] = h.head[r]
      BY <2>2 DEF Heap
    <3>. QED
      BY <1>a, <1>7, <1>8, <2>1, <3>1
  <2>4. \A r \in Queue : \A i \in 1 .. Len(new[r]) :
           g.next[new[r][i]] = IF i = Len(new[r]) THEN NULL ELSE new[r][i + 1]
    <3>1. \A r \in Queue \ {q} : \A i \in 1 .. Len(new[r]) :
             g.next[new[r][i]] = IF i = Len(new[r]) THEN NULL ELSE new[r][i + 1]
      <4>1. \A r \in Queue \ {q} : \A i \in 1 .. Len(ls[r]) :
               cut.next[ls[r][i]] = IF i = Len(ls[r]) THEN NULL ELSE ls[r][i + 1]
        BY <1>4 DEF Holds
      <4> HIDE DEF g
      <4>. QED
        BY <1>7, <2>2, <4>1
    <3>2. \A i \in 1 .. Len(new[q]) : i = 1 /\ new[q][i] = n /\ i = Len(new[q])
      BY <1>8, <2>1
    <3>. QED
      BY <1>2, <2>2, <3>1, <3>2
  <2> HIDE DEF g
  <2>5. \A m \in Held(new) : g.pcb[m] \in Proc /\ m \in g.used
    BY <1>3, <1>7, <2>2 DEF Holds
  <2>6. \A l, m \in Held(new) : g.pcb[l] = g.pcb[m] => l = m
    BY <1>7, <2>2 DEF Holds
  <2>7. Holds(g, new)
    BY <1>7, <2>3, <2>4, <2>5, <2>6 DEF Holds
  <2>. QED
    BY <1>7, <2>2, <2>7 DEF g, new
<1>10. CASE s # <<>>
  <2> DEFINE last == s[L]
  <2>1. g = SetNodeNext(cut, last, n) /\ L \in 1 .. L /\ last \in Node /\ last # n
    <3>1. L \in 1 .. L
      BY <1>5, <1>10
    <3>2. Last(s) = last
      BY DEF Last
    <3>. QED
      BY <1>5, <1>6, <1>10, <3>1, <3>2 DEF QEnqueue, cut
  <2> HIDE DEF last
  <2>2. /\ g \in Heap /\ g.head = h.head /\ g.next = [cut.next EXCEPT ![last] = n]
        /\ g.used = h.used /\ g.pcb = h.pcb
    BY <1>1, <1>2, <2>1 DEF SetNodeNext, Heap
  <2>3. g.next[last] = n /\ \A m \in Node \ {last} : g.next[m] = cut.next[m]
    BY <1>2, <2>1, <2>2 DEF Heap
  <2>4. \A r \in Queue : g.head[r] = IF new[r] = <<>> THEN NULL ELSE new[r][1]
    <3>1. new[q][1] = s[1] /\ h.head[q] = s[1]
      <4>1. 1 \in 1 .. L
        BY <1>5, <1>10
      <4>. QED
        BY <1>a, <1>8, <1>10, <4>1
    <3>2. g.head[q] = IF new[q] = <<>> THEN NULL ELSE new[q][1]
      BY <1>8, <2>2, <3>1
    <3>3. \A r \in Queue \ {q} : g.head[r] = IF new[r] = <<>> THEN NULL ELSE new[r][1]
      BY <1>a, <1>7, <2>2
    <3> HIDE DEF g
    <3>. QED
      BY <3>2, <3>3
  <2>5. \A r \in Queue : \A i \in 1 .. Len(new[r]) :
           g.next[new[r][i]] = IF i = Len(new[r]) THEN NULL ELSE new[r][i + 1]
    <3>1. ASSUME NEW r \in Queue \ {q}, NEW i \in 1 .. Len(new[r])
          PROVE  g.next[new[r][i]] = IF i = Len(new[r]) THEN NULL ELSE new[r][i + 1]
      <4>1. new[r] = ls[r] /\ ls[r] \in Seq(Node) /\ ls[r][i] \in Range(ls[r])
        <5>1. new[r] = ls[r] /\ ls[r] \in Seq(Node)
          BY <1>7, <3>1, ListFacts
        <5>. QED
          BY <3>1, <5>1, RangeEquality
      <4>2. ls[r][i] \in Node \ {last}
        <5>1. last \in Range(s)
          BY <1>5, <2>1, RangeEquality DEF last
        <5>2. Range(s) \intersect Range(ls[r]) = {}
          BY <3>1 DEF Holds, Apart
        <5>. QED
          BY <4>1, <5>1, <5>2, RangeOfSeq
      <4>. QED
        BY <1>4, <2>3, <3>1, <4>1, <4>2 DEF Holds
    <3>2. ASSUME NEW i \in 1 .. L + 1
          PROVE  g.next[new[q][i]] = IF i = L + 1 THEN NULL ELSE new[q][i + 1]
      <4>1. CASE i = L + 1
        BY <1>1, <1>2, <1>8, <2>1, <2>3, <4>1
      <4>2. CASE i = L
        <5>1. i \in 1 .. L /\ i # L + 1 /\ new[q][i] = last /\ new[q][i + 1] = n
          BY <1>5, <1>8, <1>10, <4>2 DEF last
        <5>. QED
          BY <2>3, <5>1
      <4>3. CASE i \in 1 .. L - 1
        <5>1. i \in 1 .. L /\ i + 1 \in 1 .. L /\ i # L + 1 /\ i # L
          BY <1>5, <4>3
        <5>2. s[i] # last
          BY <2>1, <5>1 DEF Holds, Apart, Once, last
        <5>3. cut.next[s[i]] = s[i + 1]
          BY <1>4, <5>1 DEF Holds
        <5>. QED
          BY <1>5, <1>8, <2>3, <5>1, <5>2, <5>3
      <4>. QED
        BY <1>5, <4>1, <4>2, <4>3
    <3>. QED
      BY <1>8, <3>1, <3>2
  <2> HIDE DEF g
  <2>6. \A m \in Held(new) : g.pcb[m] \in Proc /\ m \in g.used
    BY <1>3, <1>7, <2>2 DEF Holds
  <2>7. \A l, m \in Held(new) : g.pcb[l] = g.pcb[m] => l = m
    BY <1>7, <2>2 DEF Holds
  <2>8. Holds(g, new)
    BY <1>7, <2>4, <2>5, <2>6, <2>7 DEF Holds
  <2>. QED
    BY <1>7, <2>2, <2>8 DEF g, new
<1>. QED
  BY <1>9, <1>10

LEMMA SetHeadIs ==
    ASSUME NEW h \in Heap, NEW q \in Queue, NEW n \in Node \union {NULL}
    PROVE  LET g == SetHead(h, q, n)
           IN  /\ g \in Heap /\ g.head = [h.head EXCEPT ![q] = n]
               /\ g.next = h.next /\ g.pcb = h.pcb /\ g.used = h.used
BY DEF SetHead, Heap

LEMMA DestructNodeIs ==
    ASSUME NEW h \in Heap, NEW n \in Node
    PROVE  LET g == DestructNode(h, n)
           IN  /\ g \in Heap /\ g.head = h.head /\ g.used = h.used \ {n}
               /\ g.next = [h.next EXCEPT ![n] = Garbage] /\ g.pcb = [h.pcb EXCEPT ![n] = Garbage]
               /\ \A m \in Node \ {n} : g.next[m] = h.next[m] /\ g.pcb[m] = h.pcb[m]
BY DEF DestructNode, Heap

\* What the lists become when the head of the queue q leaves.
Left(ls, q) == [ls EXCEPT ![q] = Tail(@)]

LEMMA LeftIs ==
    ASSUME NEW h, NEW ls, Holds(h, ls), NEW q \in Queue, ls[q] # <<>>
    PROVE  /\ Left(ls, q) \in [Queue -> Seq(Node)] /\ Apart(Left(ls, q))
           /\ Held(Left(ls, q)) = Held(ls) \ {ls[q][1]}
           /\ Left(ls, q)[q] = Tail(ls[q]) /\ \A r \in Queue \ {q} : Left(ls, q)[r] = ls[r]
           /\ ls[q][1] \in Held(ls)
<1>1. ls \in [Queue -> Seq(Node)] /\ Apart(ls)
  BY DEF Holds
<1>2. Head(ls[q]) = ls[q][1] /\ ls[q] \in Seq(Node)
  BY <1>1
<1>3. /\ Left(ls, q) \in [Queue -> Seq(Node)]
      /\ Head(ls[q]) \in Held(ls)
      /\ Apart(Left(ls, q)) /\ Held(Left(ls, q)) = Held(ls) \ {Head(ls[q])}
  BY <1>1, HeldTail DEF Left
<1>4. Left(ls, q)[q] = Tail(ls[q]) /\ \A r \in Queue \ {q} : Left(ls, q)[r] = ls[r]
  BY <1>1 DEF Left
<1>. QED
  BY <1>2, <1>3, <1>4

\* q_dequeue takes the head out of the list and frees its node.
LEMMA HoldsDequeue ==
    ASSUME NEW h \in Heap, NEW ls, Holds(h, ls), NEW q \in Queue, ls[q] # <<>>
    PROVE  /\ QDequeue(h, q) \in Heap /\ Holds(QDequeue(h, q), Left(ls, q))
           /\ QDequeue(h, q).used = h.used \ {ls[q][1]}
           /\ \A n \in Node \ {ls[q][1]} : QDequeue(h, q).pcb[n] = h.pcb[n]
           /\ FirstPcb(h, q) = h.pcb[ls[q][1]]
<1> DEFINE s   == ls[q]
           x   == ls[q][1]
           new == Left(ls, q)
           g   == QDequeue(h, q)
           L   == Len(s)
<1>1. h.head[q] = x /\ x \in Node /\ x \in Held(ls)
  BY EmptyList
<1>2. /\ h.next[x] \in Node \union {NULL, Garbage}
      /\ \A r \in Queue : h.head[r] = IF ls[r] = <<>> THEN NULL ELSE ls[r][1]
      /\ \A r \in Queue : \A i \in 1 .. Len(ls[r]) :
            h.next[ls[r][i]] = IF i = Len(ls[r]) THEN NULL ELSE ls[r][i + 1]
  BY <1>1 DEF Heap, Holds
<1>3. s \in Seq(Node) /\ L \in Nat /\ 1 <= L /\ \A i \in 1 .. L : s[i] \in Node
  BY ListFacts
<1>4. h.next[x] = (IF L = 1 THEN NULL ELSE s[2]) /\ h.next[x] \in Node \union {NULL}
  <2>1. 1 \in 1 .. L /\ (L # 1 => 2 \in 1 .. L)
    <3>1. \A l \in Nat : 1 <= l => 1 \in 1 .. l /\ (l # 1 => 2 \in 1 .. l)
      OBVIOUS
    <3>. QED
      BY <1>3, <3>1
  <2>2. h.next[x] = IF 1 = L THEN NULL ELSE s[1 + 1]
    BY <1>2, <2>1
  <2>. QED
    BY <1>3, <2>1, <2>2
<1>5. /\ g \in Heap /\ g.head = [h.head EXCEPT ![q] = h.next[x]] /\ g.used = h.used \ {x}
      /\ \A n \in Node \ {x} : g.next[n] = h.next[n] /\ g.pcb[n] = h.pcb[n]
  <2> DEFINE d == SetHead(h, q, h.next[x])
  <2>1. g = DestructNode(d, x)
    BY <1>1 DEF QDequeue
  <2>2. /\ d \in Heap /\ d.head = [h.head EXCEPT ![q] = h.next[x]]
        /\ d.next = h.next /\ d.pcb = h.pcb /\ d.used = h.used
    BY <1>4, SetHeadIs
  <2> HIDE DEF d, x
  <2>3. /\ DestructNode(d, x) \in Heap /\ DestructNode(d, x).head = d.head
        /\ DestructNode(d, x).used = d.used \ {x}
        /\ \A n \in Node \ {x} : /\ DestructNode(d, x).next[n] = d.next[n]
                                 /\ DestructNode(d, x).pcb[n] = d.pcb[n]
    BY <1>1, <2>2, DestructNodeIs
  <2> HIDE DEF g
  <2>. QED
    BY <2>1, <2>2, <2>3
<1>8. /\ new \in [Queue -> Seq(Node)] /\ Apart(new) /\ Held(new) = Held(ls) \ {x}
      /\ new[q] = Tail(s) /\ \A r \in Queue \ {q} : new[r] = ls[r]
  BY LeftIs
<1>9. Held(ls) \subseteq Node
  BY ListNodes
<1>11. /\ Len(new[q]) = L - 1 /\ \A i \in 1 .. L - 1 : new[q][i] = s[i + 1]
       /\ new[q] = <<>> <=> L = 1
       /\ new[q] # <<>> => new[q][1] = s[2]
  <2>1. Tail(s) \in Seq(Node) /\ Len(Tail(s)) = L - 1 /\ \A i \in 1 .. L - 1 : Tail(s)[i] = s[i + 1]
    BY <1>3, HeadTailProperties
  <2>2. Tail(s) = <<>> <=> L = 1
    <3>1. \A t \in Seq(Node) : t = <<>> <=> Len(t) = 0
      BY EmptySeq
    <3>2. L - 1 = 0 <=> L = 1
      BY <1>3
    <3> HIDE DEF s
    <3>. QED
      BY <2>1, <3>1, <3>2
  <2>3. Tail(s) # <<>> => 1 \in 1 .. L - 1
    BY <1>3, <2>2
  <2>. QED
    BY <1>8, <2>1, <2>2, <2>3
<1> HIDE DEF g, new
<1>12. \A r \in Queue : g.head[r] = IF new[r] = <<>> THEN NULL ELSE new[r][1]
  <2>1. g.head[q] = IF new[q] = <<>> THEN NULL ELSE new[q][1]
    <3>1. g.head[q] = h.next[x]
      BY <1>5 DEF Heap
    <3>. QED
      BY <1>4, <1>11, <3>1
  <2>2. \A r \in Queue \ {q} : g.head[r] = IF new[r] = <<>> THEN NULL ELSE new[r][1]
    BY <1>2, <1>5, <1>8
  <2>. QED
    BY <2>1, <2>2
<1>13. \A r \in Queue : \A i \in 1 .. Len(new[r]) :
          g.next[new[r][i]] = IF i = Len(new[r]) THEN NULL ELSE new[r][i + 1]
  <2>1. ASSUME NEW r \in Queue, NEW i \in 1 .. Len(new[r]) PROVE new[r][i] \in Node \ {x}
    <3>1. new[r] \in Seq(Node)
      BY <1>8
    <3>2. new[r][i] \in Range(new[r])
      BY <3>1, <2>1, RangeEquality
    <3>3. new[r][i] \in Held(new)
      BY <1>8, <2>1, <3>2, HeldBy
    <3>. QED
      BY <1>8, <1>9, <3>3
  <2>2. ASSUME NEW r \in Queue \ {q}, NEW i \in 1 .. Len(new[r])
        PROVE  g.next[new[r][i]] = IF i = Len(new[r]) THEN NULL ELSE new[r][i + 1]
    <3>1. g.next[new[r][i]] = h.next[new[r][i]]
      BY <1>5, <2>1, <2>2
    <3>. QED
      BY <1>2, <1>8, <2>2, <3>1
  <2>3. ASSUME NEW i \in 1 .. L - 1
        PROVE  g.next[new[q][i]] = IF i = L - 1 THEN NULL ELSE new[q][i + 1]
    <3>1. g.next[new[q][i]] = h.next[s[i + 1]]
      BY <1>5, <1>11, <2>1, <2>3
    <3>2. i + 1 \in 1 .. L /\ (i + 1 = L <=> i = L - 1) /\ (i # L - 1 => i + 1 \in 1 .. L - 1)
      BY <1>3, <2>3
    <3>3. h.next[s[i + 1]] = IF i + 1 = L THEN NULL ELSE s[(i + 1) + 1]
      BY <1>2, <3>2
    <3>4. i # L - 1 => new[q][i + 1] = s[(i + 1) + 1]
      BY <1>11, <3>2, SMTT(20)
    <3>. QED
      BY <3>1, <3>2, <3>3, <3>4
  <2>. QED
    BY <1>11, <2>2, <2>3, SMTT(20)
<1>14. /\ Held(new) \subseteq g.used
       /\ \A n \in Held(new) : g.pcb[n] \in Proc
       /\ \A m, n \in Held(new) : g.pcb[m] = g.pcb[n] => m = n
  <2>1. Held(new) \subseteq Held(ls) /\ Held(new) \subseteq Node \ {x}
    BY <1>8, <1>9
  <2>2. /\ Held(ls) \subseteq h.used
        /\ \A n \in Held(ls) : h.pcb[n] \in Proc
        /\ \A m, n \in Held(ls) : h.pcb[m] = h.pcb[n] => m = n
    BY DEF Holds
  <2> HIDE DEF x
  <2>. QED
    BY <1>5, <2>1, <2>2
<1>15. Holds(g, new)
  BY <1>8, <1>12, <1>13, <1>14 DEF Holds
<1>. QED
  BY <1>1, <1>5, <1>15 DEF g, new, FirstPcb

\* A node that is made, until it is linked.
LEMMA NewNodeIs ==
    ASSUME NEW h \in Heap, NEW ls, Holds(h, ls), NEW n \in Node \ h.used, NEW p \in Proc
    PROVE  LET g == NewNode(h, n, p)
           IN  /\ g \in Heap /\ Holds(g, ls) /\ g.head = h.head
               /\ g.used = h.used \union {n} /\ n \in Node \ Held(ls) /\ g.pcb[n] = p
               /\ \A m \in Node \ {n} : g.pcb[m] = h.pcb[m]
<1> DEFINE g == NewNode(h, n, p)
<1>1. /\ g \in Heap /\ g.head = h.head /\ g.used = h.used \union {n}
      /\ g.next = [h.next EXCEPT ![n] = NULL] /\ g.pcb = [h.pcb EXCEPT ![n] = p]
  BY DEF NewNode, Heap
<1> HIDE DEF g
<1>2. Held(ls) \subseteq h.used
  BY DEF Holds
<1>3. Held(ls) \subseteq Node /\ n \in Node \ Held(ls)
  BY <1>2, ListNodes
<1>4. /\ g.pcb[n] = p
      /\ \A m \in Node \ {n} : g.next[m] = h.next[m] /\ g.pcb[m] = h.pcb[m]
  BY <1>1 DEF Heap
<1>5. Holds(g, ls)
  <2>1. \A m \in Held(ls) : g.next[m] = h.next[m] /\ g.pcb[m] = h.pcb[m] /\ m \in g.used
    BY <1>1, <1>2, <1>3, <1>4
  <2>. QED
    BY <1>1, <2>1, HoldsElsewhere
<1>. QED
  BY <1>1, <1>3, <1>4, <1>5 DEF g

\* A process that is in no queue of h gets a new node at the end of q.
LEMMA Grows ==
    ASSUME NEW h \in Heap, NEW ls, Holds(h, ls), NEW q \in Queue, NEW n \in Node \ h.used,
           NEW p \in Proc, \A m \in Held(ls) : h.pcb[m] # p
    PROVE  LET g   == QEnqueue(NewNode(h, n, p), q, n)
               new == Joined(ls, q, n)
           IN  /\ g \in Heap /\ Holds(g, new)
               /\ Held(new) = Held(ls) \union {n} /\ g.used \ Held(new) = h.used \ Held(ls)
               /\ n \in Node \ Held(ls) /\ g.pcb[n] = p
               /\ \A m \in Node \ {n} : g.pcb[m] = h.pcb[m]
<1> DEFINE f   == NewNode(h, n, p)
           g   == QEnqueue(f, q, n)
           new == Joined(ls, q, n)
<1>1. /\ f \in Heap /\ Holds(f, ls) /\ f.used = h.used \union {n}
      /\ n \in Node \ Held(ls) /\ f.pcb[n] = p /\ \A m \in Node \ {n} : f.pcb[m] = h.pcb[m]
  BY NewNodeIs
<1>2. Held(ls) \subseteq Node
  BY ListNodes
<1> HIDE DEF f
<1>3. n \in f.used \ Held(ls) /\ f.pcb[n] \in Proc /\ \A m \in Held(ls) : f.pcb[m] # f.pcb[n]
  BY <1>1, <1>2
<1>4. /\ g \in Heap /\ Holds(g, new)
      /\ g.used = f.used /\ g.pcb = f.pcb
      /\ Held(new) = Held(ls) \union {n}
  BY <1>1, <1>3, HoldsEnqueue
<1> HIDE DEF g, new
<1>5. g.used \ Held(new) = h.used \ Held(ls)
  BY <1>1, <1>4
<1>. QED
  BY <1>1, <1>4, <1>5 DEF f, g, new

\* The head of a queue leaves, and its node with it.
LEMMA Shrinks ==
    ASSUME NEW h \in Heap, NEW ls, Holds(h, ls), NEW q \in Queue, ls[q] # <<>>
    PROVE  LET g   == QDequeue(h, q)
               new == Left(ls, q)
               x   == ls[q][1]
           IN  /\ g \in Heap /\ Holds(g, new)
               /\ Held(new) = Held(ls) \ {x} /\ g.used \ Held(new) = h.used \ Held(ls)
               /\ x \in Node /\ x \in Held(ls) /\ g.used = h.used \ {x}
               /\ FirstPcb(h, q) = h.pcb[x] /\ FirstPcb(h, q) \in Proc
               /\ \A m \in Node \ {x} : g.pcb[m] = h.pcb[m]
               /\ \A m \in Held(new) : g.pcb[m] = h.pcb[m] /\ h.pcb[m] # FirstPcb(h, q)
<1> DEFINE g   == QDequeue(h, q)
           new == Left(ls, q)
           x   == ls[q][1]
<1>1. /\ g \in Heap /\ Holds(g, new) /\ g.used = h.used \ {x}
      /\ \A n \in Node \ {x} : g.pcb[n] = h.pcb[n]
      /\ FirstPcb(h, q) = h.pcb[x]
  BY HoldsDequeue
<1>2. Held(new) = Held(ls) \ {x} /\ x \in Held(ls)
  BY LeftIs
<1>3. Held(ls) \subseteq Node
  BY ListNodes
<1>4. /\ Held(ls) \subseteq h.used
      /\ \A n \in Held(ls) : h.pcb[n] \in Proc
      /\ \A m, n \in Held(ls) : h.pcb[m] = h.pcb[n] => m = n
  BY DEF Holds
<1> HIDE DEF g, new, x
<1>5. g.used \ Held(new) = h.used \ Held(ls)
  BY <1>1, <1>2, <1>4
<1>6. \A m \in Held(new) : g.pcb[m] = h.pcb[m] /\ h.pcb[m] # h.pcb[x]
  BY <1>1, <1>2, <1>3, <1>4
<1>. QED
  BY <1>1, <1>2, <1>3, <1>4, <1>5, <1>6 DEF g, new, x

\* Nodes that are in no list are forgotten.
LEMMA ForgetIs ==
    ASSUME NEW h \in Heap, NEW ls, Holds(h, ls), NEW lost \in SUBSET Node,
           lost \intersect Held(ls) = {}
    PROVE  LET g == Forget(h, lost)
           IN  /\ g \in Heap /\ Holds(g, ls)
               /\ g.used = h.used \union lost
               /\ \A m \in Held(ls) : g.pcb[m] = h.pcb[m]
<1> DEFINE g == Forget(h, lost)
<1>1. /\ g \in Heap /\ g.head = h.head /\ g.used = h.used \union lost
      /\ g.next = [n \in Node |-> IF n \in lost THEN Garbage ELSE h.next[n]]
      /\ g.pcb = [n \in Node |-> IF n \in lost THEN Garbage ELSE h.pcb[n]]
  <2> DEFINE next == [n \in Node |-> IF n \in lost THEN Garbage ELSE h.next[n]]
             pcb  == [n \in Node |-> IF n \in lost THEN Garbage ELSE h.pcb[n]]
             used == h.used \union lost
  <2>1. g = [[[h EXCEPT !.used = used] EXCEPT !.next = next] EXCEPT !.pcb = pcb]
    BY DEF Forget
  <2>2. /\ h.head \in [Queue -> Node \union {NULL}] /\ used \in SUBSET Node
        /\ next \in [Node -> Node \union {NULL, Garbage}] /\ pcb \in [Node -> Proc \union {Garbage}]
    BY DEF Heap
  <2> HIDE DEF g, next, pcb, used
  <2>3. g = [head |-> h.head, next |-> next, pcb |-> pcb, used |-> used]
    BY <2>1 DEF Heap
  <2>4. g \in Heap /\ g.head = h.head /\ g.used = used /\ g.next = next /\ g.pcb = pcb
    BY <2>2, <2>3 DEF Heap
  <2>. QED
    BY <2>4 DEF used, next, pcb
<1>2. Held(ls) \subseteq Node
  BY ListNodes
<1>3. Held(ls) \subseteq h.used
  BY DEF Holds
<1> HIDE DEF g
<1>4. \A m \in Held(ls) : g.next[m] = h.next[m] /\ g.pcb[m] = h.pcb[m] /\ m \in g.used
  BY <1>1, <1>2, <1>3
<1>5. Holds(g, ls)
  BY <1>1, <1>4, HoldsElsewhere
<1>. QED
  BY <1>1, <1>4, <1>5 DEF g

\* Nodes that are in no list are freed.
LEMMA DestructNodesIs ==
    ASSUME NEW h \in Heap, NEW ls, Holds(h, ls), NEW freed \in SUBSET Node,
           freed \intersect Held(ls) = {}
    PROVE  LET g == DestructNodes(h, freed)
           IN  /\ g \in Heap /\ Holds(g, ls)
               /\ g.used = h.used \ freed
               /\ \A m \in Held(ls) : g.pcb[m] = h.pcb[m]
<1> DEFINE g == DestructNodes(h, freed)
<1>1. /\ g \in Heap /\ g.head = h.head /\ g.used = h.used \ freed
      /\ g.next = [n \in Node |-> IF n \in freed THEN Garbage ELSE h.next[n]]
      /\ g.pcb = [n \in Node |-> IF n \in freed THEN Garbage ELSE h.pcb[n]]
  <2> DEFINE next == [n \in Node |-> IF n \in freed THEN Garbage ELSE h.next[n]]
             pcb  == [n \in Node |-> IF n \in freed THEN Garbage ELSE h.pcb[n]]
             used == h.used \ freed
  <2>1. g = [[[h EXCEPT !.used = used] EXCEPT !.next = next] EXCEPT !.pcb = pcb]
    BY DEF DestructNodes
  <2>2. /\ h.head \in [Queue -> Node \union {NULL}] /\ used \in SUBSET Node
        /\ next \in [Node -> Node \union {NULL, Garbage}] /\ pcb \in [Node -> Proc \union {Garbage}]
    BY DEF Heap
  <2> HIDE DEF g, next, pcb, used
  <2>3. g = [head |-> h.head, next |-> next, pcb |-> pcb, used |-> used]
    BY <2>1 DEF Heap
  <2>4. g \in Heap /\ g.head = h.head /\ g.used = used /\ g.next = next /\ g.pcb = pcb
    BY <2>2, <2>3 DEF Heap
  <2>. QED
    BY <2>4 DEF used, next, pcb
<1>2. Held(ls) \subseteq Node
  BY ListNodes
<1>3. Held(ls) \subseteq h.used
  BY DEF Holds
<1> HIDE DEF g
<1>4. \A m \in Held(ls) : g.next[m] = h.next[m] /\ g.pcb[m] = h.pcb[m] /\ m \in g.used
  BY <1>1, <1>2, <1>3
<1>5. Holds(g, ls)
  BY <1>1, <1>4, HoldsElsewhere
<1>. QED
  BY <1>1, <1>4, <1>5 DEF g

-----------------------------------------------------------------------------
(***************************************************************************)
(* What they do to the processes in the queues.                            *)
(***************************************************************************)

\* The PCBs of the lists.
PcbsOf(pcb, ls) == [q \in Queue |-> [i \in 1 .. Len(ls[q]) |-> pcb[ls[q][i]]]]

LEMMA ProcessesAre ==
    ASSUME NEW h \in Heap, NEW ls, Holds(h, ls)
    PROVE  /\ [q \in Queue |-> Nodes(h, q)] = ls
           /\ [q \in Queue |-> Pcbs(h, q)] = PcbsOf(h.pcb, ls)
           /\ PcbsOf(h.pcb, ls) \in [Queue -> Seq(Proc)] /\ Apart(PcbsOf(h.pcb, ls))
           /\ \A p : p \in Held(PcbsOf(h.pcb, ls)) <=> \E n \in Held(ls) : h.pcb[n] = p
           /\ \A q \in Queue : Range(PcbsOf(h.pcb, ls)[q]) = {h.pcb[n] : n \in Range(ls[q])}
           /\ \A q \in Queue : PcbsOf(h.pcb, ls)[q] = <<>> <=> ls[q] = <<>>
<1> DEFINE P == PcbsOf(h.pcb, ls)
<1>1. /\ ls \in [Queue -> Seq(Node)] /\ Apart(ls)
      /\ \A m, n \in Held(ls) : h.pcb[m] = h.pcb[n] => m = n
  BY DEF Holds
<1>2. /\ \A q \in Queue : Range(ls[q]) \subseteq Held(ls)
      /\ \A n \in Held(ls) : \E q \in Queue : n \in Range(ls[q])
  BY ListNodes
<1>3. [q \in Queue |-> Nodes(h, q)] = ls
  <2>1. \A q \in Queue : Nodes(h, q) = ls[q]
    BY NodesAre
  <2>. QED
    BY <1>1, <2>1
<1>4. /\ DOMAIN P = Queue
      /\ \A q \in Queue : P[q] = Pcbs(h, q)
  BY PcbsAre DEF PcbsOf
<1>5. [q \in Queue |-> Pcbs(h, q)] = P
  BY <1>4 DEF PcbsOf
<1>6. \A q \in Queue : /\ P[q] \in Seq(Proc) /\ Len(P[q]) = Len(ls[q]) /\ Once(P[q])
                       /\ Range(P[q]) = {h.pcb[n] : n \in Range(ls[q])}
  BY <1>4, PcbsAre
<1>7. P \in [Queue -> Seq(Proc)]
  BY <1>6 DEF PcbsOf
<1> HIDE DEF P
<1>8. Apart(P)
  <2>1. ASSUME NEW q \in Queue, NEW r \in Queue, q # r
        PROVE  Range(P[q]) \intersect Range(P[r]) = {}
    <3> SUFFICES ASSUME NEW p \in Range(P[q]), p \in Range(P[r]) PROVE FALSE
      OBVIOUS
    <3>1. PICK m \in Range(ls[q]) : h.pcb[m] = p
      BY <1>6
    <3>2. PICK n \in Range(ls[r]) : h.pcb[n] = p
      BY <1>6
    <3>3. m = n
      BY <1>1, <1>2, <3>1, <3>2
    <3>. QED
      BY <1>1, <2>1, <3>3 DEF Apart
  <2>. QED
    BY <1>4, <1>6, <2>1 DEF Apart
<1>9. \A p : p \in Held(P) <=> \E n \in Held(ls) : h.pcb[n] = p
  <2>1. \A p : p \in Held(P) <=> \E q \in Queue : p \in Range(P[q])
    BY <1>7, HeldBy
  <2>2. \A q \in Queue : \A p : p \in Range(P[q]) <=> \E n \in Range(ls[q]) : h.pcb[n] = p
    BY <1>6
  <2>. QED
    BY <1>2, <2>1, <2>2
<1>10. \A q \in Queue : P[q] = <<>> <=> ls[q] = <<>>
  <2>1. \A q \in Queue : ls[q] \in Seq(Node)
    BY <1>1
  <2>2. \A S : \A s \in Seq(S) : s = <<>> <=> Len(s) = 0
    BY EmptySeq
  <2>. QED
    BY <1>6, <2>1, <2>2
<1>. QED
  BY <1>3, <1>5, <1>6, <1>7, <1>8, <1>9, <1>10 DEF P

LEMMA PcbsOfSame ==
    ASSUME NEW f, NEW g, NEW ls \in [Queue -> Seq(Node)],
           \A m \in Held(ls) : g[m] = f[m]
    PROVE  PcbsOf(g, ls) = PcbsOf(f, ls)
<1>1. ASSUME NEW q \in Queue, NEW i \in 1 .. Len(ls[q]) PROVE ls[q][i] \in Held(ls)
  <2>1. ls[q] \in Seq(Node)
    OBVIOUS
  <2>2. ls[q][i] \in Range(ls[q])
    BY <2>1, RangeEquality
  <2>. QED
    BY <2>2, HeldBy
<1>2. \A q \in Queue : [i \in 1 .. Len(ls[q]) |-> g[ls[q][i]]]
                         = [i \in 1 .. Len(ls[q]) |-> f[ls[q][i]]]
  BY <1>1
<1>. QED
  BY <1>2 DEF PcbsOf

LEMMA PcbsOfJoined ==
    ASSUME NEW f, NEW g, NEW ls \in [Queue -> Seq(Node)], NEW q \in Queue, NEW n \in Node,
           \A m \in Held(ls) : g[m] = f[m]
    PROVE  PcbsOf(g, Joined(ls, q, n)) = Joined(PcbsOf(f, ls), q, g[n])
<1> DEFINE new == Joined(ls, q, n)
           P   == PcbsOf(f, ls)
           Of(s) == [i \in 1 .. Len(s) |-> g[s[i]]]
<1>1. new[q] = Append(ls[q], n) /\ \A r \in Queue \ {q} : new[r] = ls[r]
  BY DEF Joined
<1>2. P = PcbsOf(g, ls)
  BY PcbsOfSame
<1>3. DOMAIN P = Queue /\ \A r \in Queue : P[r] = Of(ls[r])
  BY <1>2 DEF PcbsOf
<1>4. Of(new[q]) = Append(P[q], g[n])
  <2>1. ls[q] \in Seq(Node)
    OBVIOUS
  <2>2. /\ Len(new[q]) = Len(ls[q]) + 1 /\ new[q][Len(ls[q]) + 1] = n
        /\ \A i \in 1 .. Len(ls[q]) : new[q][i] = ls[q][i]
    BY <1>1, <2>1, AppendProperties
  <2>3. Len(ls[q]) \in Nat
    BY <2>1, LenProperties
  <2>4. Append([i \in 1 .. Len(ls[q]) |-> g[ls[q][i]]], g[n])
          = [i \in 1 .. Len(ls[q]) + 1 |->
                IF i = Len(ls[q]) + 1 THEN g[n] ELSE g[ls[q][i]]]
    BY <2>3
  <2>5. [i \in 1 .. Len(ls[q]) + 1 |-> g[new[q][i]]]
          = [i \in 1 .. Len(ls[q]) + 1 |->
                IF i = Len(ls[q]) + 1 THEN g[n] ELSE g[ls[q][i]]]
    <3> HIDE DEF new
    <3>. QED
      BY <2>2, <2>3
  <2>. QED
    BY <1>3, <2>2, <2>4, <2>5
<1>5. PcbsOf(g, new) = [r \in Queue |-> Of(new[r])]
  BY DEF PcbsOf
<1>6. Joined(P, q, g[n]) = [r \in Queue |-> IF r = q THEN Append(P[q], g[n]) ELSE P[r]]
  BY <1>3 DEF Joined
<1> HIDE DEF new, P, Of
<1>7. \A r \in Queue : Of(new[r]) = IF r = q THEN Append(P[q], g[n]) ELSE P[r]
  BY <1>1, <1>3, <1>4
<1>8. PcbsOf(g, new) = Joined(P, q, g[n])
  BY <1>5, <1>6, <1>7
<1>. QED
  BY <1>8 DEF new, P

LEMMA PcbsOfLeft ==
    ASSUME NEW f, NEW g, NEW ls \in [Queue -> Seq(Node)], NEW q \in Queue, ls[q] # <<>>,
           \A m \in Held(Left(ls, q)) : g[m] = f[m]
    PROVE  PcbsOf(g, Left(ls, q)) = Left(PcbsOf(f, ls), q)
<1> DEFINE new == Left(ls, q)
           P   == PcbsOf(f, ls)
           Of(s) == [i \in 1 .. Len(s) |-> f[s[i]]]
<1>1. new[q] = Tail(ls[q]) /\ \A r \in Queue \ {q} : new[r] = ls[r]
  BY DEF Left
<1>2. new \in [Queue -> Seq(Node)]
  BY HeldTail DEF Left
<1>3. PcbsOf(g, new) = PcbsOf(f, new)
  BY <1>2, PcbsOfSame
<1>4. DOMAIN P = Queue /\ \A r \in Queue : P[r] = Of(ls[r])
  BY DEF PcbsOf
<1>5. Of(new[q]) = Tail(P[q])
  <2>1. ls[q] \in Seq(Node)
    OBVIOUS
  <2>2. /\ Len(new[q]) = Len(ls[q]) - 1
        /\ \A i \in 1 .. Len(ls[q]) - 1 : new[q][i] = ls[q][i + 1]
    BY <1>1, <2>1, HeadTailProperties
  <2>3. Len(ls[q]) \in Nat
    BY <2>1, LenProperties
  <2>4. Tail([i \in 1 .. Len(ls[q]) |-> f[ls[q][i]]])
          = [i \in 1 .. Len(ls[q]) - 1 |-> f[ls[q][i + 1]]]
    BY <2>3
  <2>5. [i \in 1 .. Len(ls[q]) - 1 |-> f[new[q][i]]]
          = [i \in 1 .. Len(ls[q]) - 1 |-> f[ls[q][i + 1]]]
    <3> HIDE DEF new
    <3>. QED
      BY <2>2
  <2>. QED
    BY <1>4, <2>2, <2>4, <2>5
<1>6. PcbsOf(f, new) = [r \in Queue |-> Of(new[r])]
  BY DEF PcbsOf
<1>7. Left(P, q) = [r \in Queue |-> IF r = q THEN Tail(P[q]) ELSE P[r]]
  BY <1>4 DEF Left
<1> HIDE DEF new, P, Of
<1>8. \A r \in Queue : Of(new[r]) = IF r = q THEN Tail(P[q]) ELSE P[r]
  BY <1>1, <1>4, <1>5
<1>9. PcbsOf(g, new) = Left(P, q)
  BY <1>3, <1>6, <1>7, <1>8
<1>. QED
  BY <1>9 DEF new, P

-----------------------------------------------------------------------------
(***************************************************************************)
(* The invariant.                                                          *)
(***************************************************************************)

\* A process is queued at the level of its priority.
PriorityTellsLevel == \A i \in Levels : \A p \in Range(Processes[i]) : priority[p] = i

OutIsNotQueued == out \notin Held(Processes)

\* The reset has emptied the levels over which it has walked.
WalkedIsEmpty == level # 0 /\ \A i \in Levels : 0 < i /\ i < level => Processes[i] = <<>>

\* The nodes that are neither in a list nor free are those counted as lost.
LostAreCounted == Cardinality(heap.used \ Held(Lists)) = leaked

Inv == /\ TypeOK
       /\ Holds(heap, Lists) /\ LostAreCounted
       /\ PriorityTellsLevel /\ OutIsNotQueued /\ WalkedIsEmpty

LEMMA QueueIs ==
    /\ MaxPriority \in Nat
    /\ Levels \subseteq Queue /\ 0 \in Levels
    /\ Others \subseteq Queue /\ \A q \in Others : q \notin Levels
    /\ \A q \in Queue : q \in Levels \/ q \in Others
    /\ Waiting \in Others /\ Blocked \in Others /\ Zombies \in Others
    /\ Waiting # Blocked
    /\ IsFiniteSet(Node) /\ NULL \notin Node /\ Garbage \notin Node
    /\ Idle \notin Proc /\ None \notin Proc /\ None # Idle
BY NodeAssumption, PQueueAssumption DEF Queue, Levels, Others, Waiting, Blocked, Zombies

LEMMA InvFacts ==
    ASSUME Inv
    PROVE  /\ heap \in Heap /\ Lists \in [Queue -> Seq(Node)]
           /\ Processes = PcbsOf(heap.pcb, Lists) /\ Processes \in [Queue -> Seq(Proc)]
           /\ Apart(Processes)
           /\ \A p : p \in Held(Processes) <=> \E n \in Held(Lists) : heap.pcb[n] = p
           /\ \A p : p \in Held(Processes) <=> \E q \in Queue : p \in Range(Processes[q])
           /\ \A p : IsQueued(p) <=> p \in Held(Processes)
           /\ \A q \in Queue : /\ QIsEmpty(heap, q) <=> Lists[q] = <<>>
                               /\ QIsEmpty(heap, q) <=> Processes[q] = <<>>
<1>1. heap \in Heap /\ Holds(heap, Lists)
  BY DEF Inv, TypeOK, Heap
<1>2. Lists \in [Queue -> Seq(Node)]
  BY <1>1 DEF Holds
<1>3. Processes = PcbsOf(heap.pcb, Lists)
  BY <1>1, ProcessesAre DEF Processes
<1>4. /\ Processes \in [Queue -> Seq(Proc)] /\ Apart(Processes)
      /\ \A p : p \in Held(Processes) <=> \E n \in Held(Lists) : heap.pcb[n] = p
      /\ \A q \in Queue : Processes[q] = <<>> <=> Lists[q] = <<>>
  <2> DEFINE P == PcbsOf(heap.pcb, Lists)
  <2>1. /\ P \in [Queue -> Seq(Proc)] /\ Apart(P)
        /\ \A p : p \in Held(P) <=> \E n \in Held(Lists) : heap.pcb[n] = p
        /\ \A q \in Queue : P[q] = <<>> <=> Lists[q] = <<>>
    BY <1>1, ProcessesAre
  <2>. QED
    BY <1>3, <2>1
<1>5. \A p : p \in Held(Processes) <=> \E q \in Queue : p \in Range(Processes[q])
  BY <1>4, HeldBy
<1>6. \A p : IsQueued(p) <=> p \in Held(Processes)
  <2>1. \A q \in Queue : Processes[q] = Pcbs(heap, q)
    BY DEF Processes
  <2>. QED
    BY <1>5, <2>1 DEF IsQueued, QContains
<1>7. \A q \in Queue : QIsEmpty(heap, q) <=> Lists[q] = <<>>
  BY <1>1, EmptyList
<1>. QED
  BY <1>1, <1>2, <1>3, <1>4, <1>5, <1>6, <1>7

LEMMA InvInit == Init => Inv
<1> SUFFICES ASSUME Init PROVE Inv
  OBVIOUS
<1> DEFINE ls == [q \in Queue |-> <<>>]
<1>1. /\ heap \in Heap /\ heap.used = {}
      /\ \A q \in Queue : heap.head[q] = NULL
  BY DEF Init, EmptyHeap, Heap
<1>2. TypeOK
  BY <1>1, QueueIs, PQueueAssumption DEF Init, TypeOK, Levels, Heap
<1>3. /\ ls \in [Queue -> Seq(Node)] /\ DOMAIN ls = Queue
      /\ \A q \in Queue : ls[q] = <<>> /\ Len(ls[q]) = 0 /\ Range(ls[q]) = {} /\ Once(ls[q])
  BY EmptyQueue
<1>4. Held(ls) = {} /\ Apart(ls)
  BY <1>3 DEF Held, Apart
<1> HIDE DEF ls
<1>5. Holds(heap, ls)
  BY <1>1, <1>3, <1>4 DEF Holds
<1>6. Lists = ls /\ Processes = PcbsOf(heap.pcb, ls)
  BY <1>1, <1>5, ProcessesAre DEF Lists, Processes
<1>7. /\ Held(Processes) = {}
      /\ \A q \in Queue : Range(Processes[q]) = {} /\ Processes[q] = <<>>
  <2> DEFINE P == PcbsOf(heap.pcb, ls)
  <2>1. /\ \A p : p \in Held(P) <=> \E n \in Held(ls) : heap.pcb[n] = p
        /\ \A q \in Queue : P[q] = <<>> <=> ls[q] = <<>>
    BY <1>1, <1>5, ProcessesAre
  <2>2. Held(P) = {} /\ \A q \in Queue : P[q] = <<>>
    BY <1>3, <1>4, <2>1
  <2>. QED
    BY <1>6, <2>2, EmptyQueue
<1>8. LostAreCounted
  <2>1. heap.used \ Held(ls) = {}
    BY <1>1
  <2>. QED
    BY <1>6, <2>1, FS_EmptySet DEF LostAreCounted, Init
<1>9. PriorityTellsLevel /\ OutIsNotQueued /\ WalkedIsEmpty
  <2>1. \A i \in Levels : Range(Processes[i]) = {} /\ Processes[i] = <<>>
    BY <1>7, QueueIs
  <2>2. level = -1
    BY DEF Init
  <2>. QED
    BY <1>7, <2>1, <2>2 DEF PriorityTellsLevel, OutIsNotQueued, WalkedIsEmpty
<1>. QED
  BY <1>2, <1>5, <1>6, <1>8, <1>9 DEF Inv

-----------------------------------------------------------------------------
(***************************************************************************)
(* Every step keeps the invariant.  Each lemma says also what the step     *)
(* does to the processes in the queues.                                    *)
(***************************************************************************)

LEMMA NextLists ==
    ASSUME NEW new, heap' \in Heap, Holds(heap', new)
    PROVE  /\ Lists' = new /\ Holds(heap', Lists') /\ Processes' = PcbsOf(heap'.pcb, new)
           /\ Processes' \in [Queue -> Seq(Proc)]
BY ProcessesAre DEF Lists, Processes

LEMMA P_EnqueueIs ==
    ASSUME NEW h, NEW n, h.pcb[n] \in Proc, NEW pr
    PROVE  P_Enqueue(h, n, pr) = QEnqueue(h, pr[h.pcb[n]], n)
BY QueueIs DEF P_Enqueue

\* The process at the head of a queue.
LEMMA FirstIs ==
    ASSUME Inv, NEW q \in Queue, ~QIsEmpty(heap, q)
    PROVE  /\ Lists[q] # <<>> /\ Processes[q] # <<>>
           /\ FirstPcb(heap, q) = Head(Processes[q]) /\ FirstPcb(heap, q) \in Proc
           /\ FirstPcb(heap, q) \in Range(Processes[q]) /\ FirstPcb(heap, q) \in Held(Processes)
           /\ Range(Left(Processes, q)[q]) = Range(Processes[q]) \ {FirstPcb(heap, q)}
           /\ \A r \in Queue \ {q} : Left(Processes, q)[r] = Processes[r]
           /\ Left(Processes, q) \in [Queue -> Seq(Proc)] /\ Apart(Left(Processes, q))
           /\ Held(Left(Processes, q)) = Held(Processes) \ {FirstPcb(heap, q)}
<1>1. heap \in Heap /\ Holds(heap, Lists)
  BY InvFacts DEF Inv
<1>2. Lists[q] # <<>> /\ Processes[q] # <<>> /\ Processes[q] \in Seq(Proc)
  <2>1. /\ Processes \in [Queue -> Seq(Proc)]
        /\ \A r \in Queue : /\ QIsEmpty(heap, r) <=> Lists[r] = <<>>
                            /\ QIsEmpty(heap, r) <=> Processes[r] = <<>>
    BY InvFacts
  <2> HIDE DEF Processes
  <2>. QED
    BY <2>1
<1>3. FirstPcb(heap, q) = heap.pcb[Lists[q][1]]
  BY <1>1, <1>2, Shrinks
<1>4. 1 \in 1 .. Len(Lists[q])
  BY <1>1, <1>2, ListFacts
<1>5. Head(Processes[q]) = Processes[q][1]
  BY <1>2
<1>6. Processes[q] = [i \in 1 .. Len(Lists[q]) |-> heap.pcb[Lists[q][i]]]
  BY <1>1, PcbsAre DEF Processes
<1>7. FirstPcb(heap, q) = Head(Processes[q])
  BY <1>3, <1>4, <1>5, <1>6
<1>8. /\ Left(Processes, q) \in [Queue -> Seq(Proc)] /\ Apart(Left(Processes, q))
      /\ Head(Processes[q]) \in Range(Processes[q]) /\ Head(Processes[q]) \in Held(Processes)
      /\ Range(Left(Processes, q)[q]) = Range(Processes[q]) \ {Head(Processes[q])}
      /\ Held(Left(Processes, q)) = Held(Processes) \ {Head(Processes[q])}
  <2>1. Processes \in [Queue -> Seq(Proc)] /\ Apart(Processes)
    BY InvFacts
  <2>. QED
    BY <1>2, <2>1, HeldTail DEF Left
<1>9. \A r \in Queue \ {q} : Left(Processes, q)[r] = Processes[r]
  BY InvFacts DEF Left
<1>10. Head(Processes[q]) \in Proc
  BY <1>2, HeadTailProperties
<1>. QED
  BY <1>2, <1>7, <1>8, <1>9, <1>10

\* Who is in the queues after a process has joined one of them.
LEMMA JoinedRange ==
    ASSUME NEW P \in [Queue -> Seq(Proc)], NEW i \in Queue, NEW p \in Proc, NEW r \in Queue
    PROVE  Range(Joined(P, i, p)[r]) = IF r = i THEN Range(P[r]) \union {p} ELSE Range(P[r])
<1>1. CASE r = i
  <2>1. Joined(P, i, p)[r] = Append(P[r], p) /\ P[r] \in Seq(Proc)
    BY <1>1 DEF Joined
  <2>. QED
    BY <1>1, <2>1, AppendOnce
<1>2. CASE r # i
  BY <1>2 DEF Joined
<1>. QED
  BY <1>1, <1>2

\* A process that is in no queue gets a new node at the end of q.
LEMMA QueueGrows ==
    ASSUME Inv, NEW q \in Queue, NEW n \in Free(heap), NEW p \in Proc, ~IsQueued(p),
           heap' = QEnqueue(NewNode(heap, n, p), q, n)
    PROVE  /\ heap' \in Heap /\ Holds(heap', Lists')
           /\ heap'.used \ Held(Lists') = heap.used \ Held(Lists)
           /\ Processes' = Joined(Processes, q, p)
           /\ Held(Processes') = Held(Processes) \union {p}
           /\ \A r \in Queue : Range(Processes'[r]) = IF r = q THEN Range(Processes[r]) \union {p}
                                                      ELSE Range(Processes[r])
           /\ \A r \in Queue \ {q} : Processes'[r] = Processes[r]
<1>1. /\ heap \in Heap /\ Holds(heap, Lists) /\ Lists \in [Queue -> Seq(Node)]
      /\ Processes = PcbsOf(heap.pcb, Lists) /\ Processes \in [Queue -> Seq(Proc)]
      /\ \A m \in Held(Lists) : heap.pcb[m] # p
  BY InvFacts DEF Inv
<1>2. n \in Node \ heap.used /\ Held(Lists) \subseteq Node
  BY <1>1, ListNodes DEF Free
<1> DEFINE new == Joined(Lists, q, n)
<1>3. /\ heap' \in Heap /\ Holds(heap', new)
      /\ heap'.used \ Held(new) = heap.used \ Held(Lists)
      /\ n \in Node \ Held(Lists) /\ heap'.pcb[n] = p
      /\ \A m \in Node \ {n} : heap'.pcb[m] = heap.pcb[m]
  BY <1>1, <1>2, Grows
<1>4. Lists' = new /\ Processes' = PcbsOf(heap'.pcb, new)
  BY <1>3, NextLists
<1>5. Processes' = Joined(Processes, q, p)
  <2>1. \A m \in Held(Lists) : heap'.pcb[m] = heap.pcb[m]
    BY <1>2, <1>3
  <2>2. PcbsOf(heap'.pcb, new) = Joined(PcbsOf(heap.pcb, Lists), q, heap'.pcb[n])
    <3> DEFINE a == heap.pcb
               b == heap'.pcb
    <3>1. Lists \in [Queue -> Seq(Node)] /\ n \in Node
      BY <1>1, <1>2
    <3>2. \A m \in Held(Lists) : b[m] = a[m]
      BY <2>1
    <3> HIDE DEF a, b
    <3>3. PcbsOf(b, Joined(Lists, q, n)) = Joined(PcbsOf(a, Lists), q, b[n])
      BY <3>1, <3>2, PcbsOfJoined
    <3>. QED
      BY <3>3 DEF a, b
  <2>. QED
    BY <1>1, <1>3, <1>4, <2>2
<1>6. Family(Processes, Queue, Proc)
  BY <1>1 DEF Family
<1>7. /\ Held(Processes') = Held(Processes) \union {p}
      /\ \A r \in Queue : Range(Processes'[r]) = IF r = q THEN Range(Processes[q]) \union {p}
                                                 ELSE Range(Processes[r])
  <2>1. Held(Processes') = Held(Processes) \union {p}
    BY <1>5, <1>6, HeldAppend
  <2>2. \A r \in Queue : Range(Joined(Processes, q, p)[r])
                             = IF r = q THEN Range(Processes[q]) \union {p} ELSE Range(Processes[r])
    BY <1>6, JoinedQueue
  <2>. QED
    BY <1>5, <2>1, <2>2
<1>8. \A r \in Queue \ {q} : Processes'[r] = Processes[r]
  BY <1>1, <1>5 DEF Joined
<1>. QED
  BY <1>3, <1>4, <1>5, <1>7, <1>8

LEMMA ReadyStep ==
    ASSUME Inv, Ready, NEW p \in Proc, p = out
    PROVE  /\ Inv' /\ ~IsQueued(p)
           /\ \E i \in Levels : /\ priority' = [priority EXCEPT ![p] = i]
                                /\ Processes' = Joined(Processes, i, p)
<1> DEFINE i == Bumped(priority[p])
<1>1. PICK n \in Free(heap) : /\ priority' = [priority EXCEPT ![p] = i]
                              /\ heap' = P_Enqueue(NewNode(heap, n, p), n, priority')
  BY DEF Ready
<1>2. i \in Levels /\ priority' \in [Proc -> Levels] /\ priority'[p] = i
      /\ \A r \in Proc \ {p} : priority'[r] = priority[r]
  <2>1. priority \in [Proc -> Levels] /\ MaxPriority \in Nat
    BY QueueIs DEF Inv, TypeOK
  <2>2. i \in Levels
    BY <2>1 DEF Levels, Bumped
  <2> HIDE DEF i
  <2>. QED
    BY <1>1, <2>1, <2>2
<1> HIDE DEF i
<1>3. i \in Queue /\ n \in Node \ heap.used
  BY <1>2, QueueIs DEF Free
<1>4. ~IsQueued(p) /\ level' = level /\ leaked' = leaked /\ out' = None
  BY InvFacts DEF Ready, Inv, OutIsNotQueued
<1>5. heap' = QEnqueue(NewNode(heap, n, p), i, n)
  <2> DEFINE f == NewNode(heap, n, p)
  <2>1. f.pcb[n] = p
    BY <1>3, InvFacts, NewNodeIs DEF Inv
  <2> HIDE DEF f
  <2>2. P_Enqueue(f, n, priority') = QEnqueue(f, priority'[f.pcb[n]], n)
    BY <2>1, P_EnqueueIs
  <2>. QED
    BY <1>1, <1>2, <2>1, <2>2 DEF f
<1>6. /\ heap' \in Heap /\ Holds(heap', Lists')
      /\ heap'.used \ Held(Lists') = heap.used \ Held(Lists)
      /\ Processes' = Joined(Processes, i, p)
      /\ Held(Processes') = Held(Processes) \union {p}
      /\ \A r \in Queue : Range(Processes'[r]) = IF r = i THEN Range(Processes[r]) \union {p}
                                                 ELSE Range(Processes[r])
  BY <1>3, <1>4, <1>5, QueueGrows
<1>7. TypeOK'
  BY <1>2, <1>4, <1>6 DEF Inv, TypeOK, Heap
<1>8. LostAreCounted'
  BY <1>4, <1>6 DEF Inv, LostAreCounted
<1>9. PriorityTellsLevel'
  <2>1. p \notin Held(Processes) /\ \A r \in Queue : Range(Processes[r]) \subseteq Held(Processes)
        /\ Range(Processes[r]) \subseteq Proc
    BY <1>4, InvFacts, RangeOfSeq
  <2>2. ASSUME NEW l \in Levels, NEW r \in Range(Processes'[l]) PROVE priority'[r] = l
    <3>1. l \in Queue
      BY QueueIs
    <3>2. CASE r = p
      BY <1>2, <1>6, <2>1, <2>2, <3>1, <3>2
    <3>3. CASE r # p
      <4>1. r \in Range(Processes[l]) /\ r \in Proc
        BY <1>6, <2>1, <2>2, <3>1, <3>3
      <4>2. priority[r] = l
        BY <4>1 DEF Inv, PriorityTellsLevel
      <4>. QED
        BY <1>2, <3>3, <4>1, <4>2
    <3>. QED
      BY <3>2, <3>3
  <2>. QED
    BY <2>2 DEF PriorityTellsLevel
<1>10. OutIsNotQueued'
  <2>1. ~(p = None) /\ None \notin Held(Processes')
    <3>1. Held(Processes) \subseteq Proc
      BY InvFacts, HeldBy
    <3>. QED
      BY <1>6, <3>1, QueueIs
  <2>. QED
    BY <1>4, <1>6, <2>1 DEF Inv, OutIsNotQueued
<1>11. WalkedIsEmpty'
  <2>1. level = -1
    BY DEF Ready
  <2>. QED
    BY <1>4, <2>1 DEF WalkedIsEmpty, Levels
<1>. QED
  BY <1>1, <1>2, <1>4, <1>6, <1>7, <1>8, <1>9, <1>10, <1>11 DEF Inv

\* A process that is in no queue joins one that is not a level.
LEMMA JoinStep ==
    ASSUME Inv, NEW p \in Proc, NEW q \in Others, ~IsQueued(p), level = -1,
           NEW n \in Free(heap), heap' = QEnqueue(NewNode(heap, n, p), q, n),
           UNCHANGED <<priority, level, leaked>>, out' = IF p = out THEN None ELSE out
    PROVE  Inv' /\ Processes' = Joined(Processes, q, p)
<1>1. q \in Queue /\ q \notin Levels
  BY QueueIs
<1>2. /\ heap' \in Heap /\ Holds(heap', Lists')
      /\ heap'.used \ Held(Lists') = heap.used \ Held(Lists)
      /\ Processes' = Joined(Processes, q, p)
      /\ Held(Processes') = Held(Processes) \union {p}
      /\ \A r \in Queue \ {q} : Processes'[r] = Processes[r]
  BY <1>1, QueueGrows
<1>3. TypeOK'
  BY <1>2 DEF Inv, TypeOK, Heap
<1>4. LostAreCounted'
  BY <1>2 DEF Inv, LostAreCounted
<1>5. PriorityTellsLevel'
  <2>1. \A l \in Levels : Processes'[l] = Processes[l]
    BY <1>1, <1>2, QueueIs
  <2>. QED
    BY <2>1 DEF Inv, PriorityTellsLevel
<1>6. OutIsNotQueued'
  <2>1. p # None /\ None \notin Held(Processes')
    <3>1. Held(Processes) \subseteq Proc
      BY InvFacts, HeldBy
    <3>. QED
      BY <1>2, <3>1, QueueIs
  <2>. QED
    BY <1>2, <2>1 DEF Inv, OutIsNotQueued
<1>7. WalkedIsEmpty'
  BY DEF WalkedIsEmpty, Levels
<1>. QED
  BY <1>2, <1>3, <1>4, <1>5, <1>6, <1>7 DEF Inv

LEMMA AwaitStep ==
    ASSUME Inv, NEW p \in Proc, NEW q \in Others, Await(p, q)
    PROVE  Inv' /\ Processes' = Joined(Processes, q, p)
<1>1. PICK n \in Free(heap) : heap' = QEnqueue(NewNode(heap, n, p), q, n)
  BY DEF Await
<1>2. /\ ~IsQueued(p) /\ level = -1 /\ UNCHANGED <<priority, level, leaked>>
      /\ out' = IF p = out THEN None ELSE out
  BY DEF Await
<1>. QED
  BY <1>1, <1>2, JoinStep

LEMMA HaltStep ==
    ASSUME Inv, Halt
    PROVE  /\ Inv' /\ out \in Proc /\ out' = None
           /\ Processes' = Joined(Processes, Zombies, out)
<1>1. PICK n \in Free(heap) : heap' = QEnqueue(NewNode(heap, n, out), Zombies, n)
  BY DEF Halt
<1>2. /\ level = -1 /\ UNCHANGED <<priority, level, leaked>>
      /\ out \in Proc /\ out' = None
  BY DEF Halt
<1>3. PICK p \in Proc : p = out
  BY <1>2
<1>4. ~IsQueued(p)
  BY <1>3, InvFacts DEF Inv, OutIsNotQueued
<1>5. heap' = QEnqueue(NewNode(heap, n, p), Zombies, n) /\ out' = IF p = out THEN None ELSE out
  BY <1>1, <1>2, <1>3
<1>6. Inv' /\ Processes' = Joined(Processes, Zombies, p)
  BY <1>2, <1>4, <1>5, QueueIs, JoinStep
<1>. QED
  BY <1>2, <1>3, <1>6

LEMMA HighestIs ==
    ASSUME Inv, ~(\A i \in Levels : QIsEmpty(heap, i))
    PROVE  /\ Highest \in Levels /\ ~QIsEmpty(heap, Highest)
           /\ \A j \in Levels : ~QIsEmpty(heap, j) => Highest <= j
<1> DEFINE T == {i \in Levels : ~QIsEmpty(heap, i)}
<1>1. T \in SUBSET Nat /\ T # {}
  BY QueueIs DEF Levels
<1> HIDE DEF T
<1>2. PICK i \in T : \A j \in T : i <= j
  BY <1>1, Smallest
<1>3. /\ i \in Levels /\ ~QIsEmpty(heap, i)
      /\ \A j \in Levels : ~QIsEmpty(heap, j) => i <= j
  BY <1>2 DEF T
<1>. QED
  BY <1>3 DEF Highest

LEMMA P_DequeueStep ==
    ASSUME Inv, P_Dequeue
    PROVE  /\ Inv'
           /\ \/ /\ \A i \in Levels : Processes[i] = <<>>
                 /\ out' = Idle /\ Processes' = Processes
              \/ \E i \in Levels : /\ Processes[i] # <<>>
                                   /\ \A j \in Levels : j < i => Processes[j] = <<>>
                                   /\ out' = Head(Processes[i]) /\ Processes' = Left(Processes, i)
<1>1. level = -1 /\ level' = level /\ leaked' = leaked /\ priority' = priority
  BY DEF P_Dequeue
<1>2. /\ heap \in Heap /\ Holds(heap, Lists) /\ Lists \in [Queue -> Seq(Node)]
      /\ Processes = PcbsOf(heap.pcb, Lists)
      /\ \A q \in Queue : QIsEmpty(heap, q) <=> Processes[q] = <<>>
  BY InvFacts DEF Inv
<1>3. CASE \A i \in Levels : QIsEmpty(heap, i)
  <2>1. out' = Idle /\ heap' = heap
    BY <1>3 DEF P_Dequeue
  <2>2. Lists' = Lists /\ Processes' = Processes
    BY <2>1 DEF Lists, Processes
  <2>3. Idle \notin Held(Processes)
    BY InvFacts, HeldBy, QueueIs
  <2>4. TypeOK' /\ LostAreCounted'
    BY <1>1, <2>1, <2>2 DEF Inv, TypeOK, LostAreCounted
  <2>5. PriorityTellsLevel' /\ OutIsNotQueued' /\ WalkedIsEmpty'
    BY <1>1, <2>1, <2>2, <2>3 DEF Inv, PriorityTellsLevel, OutIsNotQueued, WalkedIsEmpty
  <2>6. Inv'
    BY <2>1, <2>2, <2>4, <2>5 DEF Inv
  <2>7. \A i \in Levels : Processes[i] = <<>>
    BY <1>2, <1>3, QueueIs
  <2>. QED
    BY <2>1, <2>2, <2>6, <2>7
<1>4. CASE ~(\A i \in Levels : QIsEmpty(heap, i))
  <2> DEFINE i == Highest
  <2>1. /\ i \in Levels /\ ~QIsEmpty(heap, i)
        /\ \A j \in Levels : ~QIsEmpty(heap, j) => i <= j
    BY <1>4, HighestIs
  <2>2. out' = FirstPcb(heap, i) /\ heap' = QDequeue(heap, i)
    BY <1>4 DEF P_Dequeue
  <2> HIDE DEF i
  <2>3. i \in Queue
    BY <2>1, QueueIs
  <2>4. /\ Lists[i] # <<>> /\ Processes[i] # <<>>
        /\ FirstPcb(heap, i) = Head(Processes[i]) /\ FirstPcb(heap, i) \in Proc
        /\ Range(Left(Processes, i)[i]) = Range(Processes[i]) \ {FirstPcb(heap, i)}
        /\ \A r \in Queue \ {i} : Left(Processes, i)[r] = Processes[r]
        /\ Held(Left(Processes, i)) = Held(Processes) \ {FirstPcb(heap, i)}
    BY <2>1, <2>3, FirstIs
  <2> DEFINE new == Left(Lists, i)
  <2>5. /\ heap' \in Heap /\ Holds(heap', new)
        /\ heap'.used \ Held(new) = heap.used \ Held(Lists)
        /\ \A m \in Held(new) : heap'.pcb[m] = heap.pcb[m]
    BY <1>2, <2>2, <2>3, <2>4, Shrinks
  <2>6. Lists' = new /\ Holds(heap', Lists') /\ Processes' = PcbsOf(heap'.pcb, new)
    BY <2>5, NextLists
  <2>7. PcbsOf(heap'.pcb, new) = Left(PcbsOf(heap.pcb, Lists), i)
    <3>1. Lists \in [Queue -> Seq(Node)] /\ Lists[i] # <<>>
      BY <1>2, <2>4
    <3>2. \A m \in Held(Left(Lists, i)) : heap'.pcb[m] = heap.pcb[m]
      BY <2>5
    <3>. QED
      BY <2>3, <3>1, <3>2, PcbsOfLeft
  <2>8. Processes' = Left(Processes, i)
    BY <1>2, <2>6, <2>7
  <2>9. TypeOK' /\ LostAreCounted'
    BY <1>1, <2>2, <2>4, <2>5, <2>6 DEF Inv, TypeOK, LostAreCounted, Heap
  <2>10. PriorityTellsLevel'
    <3>1. \A r \in Queue : Range(Processes'[r]) \subseteq Range(Processes[r])
      BY <2>4, <2>8
    <3>. QED
      BY <1>1, <3>1, QueueIs DEF Inv, PriorityTellsLevel
  <2>11. OutIsNotQueued' /\ WalkedIsEmpty'
    BY <1>1, <2>2, <2>4, <2>8 DEF OutIsNotQueued, WalkedIsEmpty, Levels
  <2>12. Inv'
    BY <2>6, <2>9, <2>10, <2>11 DEF Inv
  <2>13. \A j \in Levels : j < i => Processes[j] = <<>>
    <3>1. \A j \in Levels : j < i => QIsEmpty(heap, j)
      BY <2>1, QueueIs DEF Levels
    <3>. QED
      BY <1>2, <3>1, QueueIs
  <2>. QED
    BY <2>1, <2>2, <2>4, <2>8, <2>12, <2>13
<1>. QED
  BY <1>3, <1>4

LEMMA ReadyIdleStep ==
    ASSUME Inv, ReadyIdle
    PROVE  Inv' /\ Processes' = Processes
<1>1. PICK n \in Free(heap) : heap' = P_Enqueue(NewNode(heap, n, Idle), n, priority)
  BY DEF ReadyIdle
<1>2. out' = None /\ level' = level /\ leaked' = leaked /\ priority' = priority
  BY DEF ReadyIdle
<1>3. /\ heap \in Heap /\ Holds(heap, Lists) /\ Processes = PcbsOf(heap.pcb, Lists)
      /\ Lists \in [Queue -> Seq(Node)] /\ Held(Processes) \subseteq Proc
  BY InvFacts, HeldBy DEF Inv
<1>4. n \in Node \ heap.used
  BY DEF Free
<1> DEFINE f == NewNode(heap, n, Idle)
<1>5. /\ f.head = heap.head /\ f.used = heap.used \union {n}
      /\ f.next = [heap.next EXCEPT ![n] = NULL] /\ f.pcb = [heap.pcb EXCEPT ![n] = Idle]
      /\ f = [head |-> f.head, next |-> f.next, pcb |-> f.pcb, used |-> f.used]
  <2> DEFINE next == [heap.next EXCEPT ![n] = NULL]
             pcb  == [heap.pcb EXCEPT ![n] = Idle]
             used == heap.used \union {n}
  <2>1. f = [[[heap EXCEPT !.used = used] EXCEPT !.next = next] EXCEPT !.pcb = pcb]
    BY <1>3 DEF NewNode, Heap
  <2> HIDE DEF f, next, pcb, used
  <2>2. f = [head |-> heap.head, next |-> next, pcb |-> pcb, used |-> used]
    BY <1>3, <2>1 DEF Heap
  <2>. QED
    BY <2>2 DEF next, pcb, used
<1> HIDE DEF f
<1>6. f.pcb[n] = Idle
  BY <1>3, <1>4, <1>5 DEF Heap
<1>7. heap' = DestructNode(f, n)
  BY <1>1, <1>6 DEF P_Enqueue, f
<1>8. /\ heap'.head = f.head /\ heap'.used = f.used \ {n}
      /\ heap'.next = [f.next EXCEPT ![n] = Garbage] /\ heap'.pcb = [f.pcb EXCEPT ![n] = Garbage]
      /\ heap' = [head |-> heap'.head, next |-> heap'.next, pcb |-> heap'.pcb, used |-> heap'.used]
  <2>1. heap' = [[[f EXCEPT !.used = @ \ {n}] EXCEPT !.next[n] = Garbage] EXCEPT !.pcb[n] = Garbage]
    BY <1>7 DEF DestructNode
  <2>. QED
    BY <1>5, <2>1
<1>9. /\ heap'.head = heap.head /\ heap'.used = heap.used
      /\ heap'.next = [heap.next EXCEPT ![n] = Garbage]
      /\ heap'.pcb = [heap.pcb EXCEPT ![n] = Garbage]
  <2>1. heap.next \in [Node -> Node \union {NULL, Garbage}] /\ heap.pcb \in [Node -> Proc \union {Garbage}]
    BY <1>3 DEF Heap
  <2>. QED
    BY <1>4, <1>5, <1>8, <2>1
<1>10. heap' \in Heap
  <2>1. /\ heap'.head \in [Queue -> Node \union {NULL}] /\ heap'.used \in SUBSET Node
        /\ heap'.next \in [Node -> Node \union {NULL, Garbage}]
        /\ heap'.pcb \in [Node -> Proc \union {Garbage}]
    BY <1>3, <1>9 DEF Heap
  <2>. QED
    BY <1>8, <2>1 DEF Heap
<1>11. Held(Lists) \subseteq heap.used /\ Held(Lists) \subseteq Node /\ n \notin Held(Lists)
  <2>1. Held(Lists) \subseteq heap.used
    BY <1>3 DEF Holds
  <2>. QED
    BY <1>3, <1>4, <2>1, ListNodes
<1>12. \A m \in Held(Lists) : /\ heap'.next[m] = heap.next[m] /\ heap'.pcb[m] = heap.pcb[m]
                              /\ m \in heap'.used
  BY <1>3, <1>9, <1>11 DEF Heap
<1>13. Holds(heap', Lists)
  BY <1>3, <1>9, <1>12, HoldsElsewhere
<1>14. Lists' = Lists /\ Processes' = Processes
  <2>1. Lists' = Lists /\ Processes' = PcbsOf(heap'.pcb, Lists)
    BY <1>10, <1>13, NextLists
  <2>2. PcbsOf(heap'.pcb, Lists) = PcbsOf(heap.pcb, Lists)
    BY <1>3, <1>12, PcbsOfSame
  <2>. QED
    BY <1>3, <2>1, <2>2
<1>15. TypeOK' /\ LostAreCounted'
  BY <1>2, <1>9, <1>10, <1>14 DEF Inv, TypeOK, LostAreCounted, Heap
<1>16. PriorityTellsLevel' /\ OutIsNotQueued' /\ WalkedIsEmpty'
  BY <1>2, <1>3, <1>14, QueueIs DEF Inv, PriorityTellsLevel, OutIsNotQueued, WalkedIsEmpty
<1>. QED
  BY <1>13, <1>14, <1>15, <1>16 DEF Inv

LEMMA LoseNodeStep ==
    ASSUME Inv, LoseNode
    PROVE  Inv' /\ Processes' = Processes
<1>1. PICK n \in Free(heap) : heap' = Forget(heap, {n})
  BY DEF LoseNode
<1>2. /\ out' = None /\ level' = level /\ leaked' = leaked + 1 /\ priority' = priority
      /\ leaked < MaxLeaks
  BY DEF LoseNode
<1>3. /\ heap \in Heap /\ Holds(heap, Lists) /\ Processes = PcbsOf(heap.pcb, Lists)
      /\ Lists \in [Queue -> Seq(Node)] /\ Held(Processes) \subseteq Proc
  BY InvFacts, HeldBy DEF Inv
<1>4. n \in Node \ heap.used
  BY DEF Free
<1>5. Held(Lists) \subseteq heap.used
  BY <1>3 DEF Holds
<1>6. /\ heap' \in Heap /\ Holds(heap', Lists) /\ heap'.used = heap.used \union {n}
      /\ \A m \in Held(Lists) : heap'.pcb[m] = heap.pcb[m]
  <2>1. {n} \in SUBSET Node /\ {n} \intersect Held(Lists) = {}
    BY <1>4, <1>5
  <2>. QED
    BY <1>1, <1>3, <2>1, ForgetIs
<1>7. Lists' = Lists /\ Processes' = Processes
  <2>1. Lists' = Lists /\ Processes' = PcbsOf(heap'.pcb, Lists)
    BY <1>6, NextLists
  <2>2. PcbsOf(heap'.pcb, Lists) = PcbsOf(heap.pcb, Lists)
    BY <1>3, <1>6, PcbsOfSame
  <2>. QED
    BY <1>3, <2>1, <2>2
<1>8. LostAreCounted'
  <2> DEFINE T == heap.used \ Held(Lists)
  <2>1. T \in SUBSET Node
    BY <1>3 DEF Heap
  <2>2. heap'.used \ Held(Lists) = T \union {n} /\ n \notin T
    BY <1>4, <1>5, <1>6
  <2>3. Cardinality(T) = leaked
    BY DEF Inv, LostAreCounted
  <2> HIDE DEF T
  <2>4. Cardinality(T \union {n}) = Cardinality(T) + 1
    BY <2>1, <2>2, QueueIs, FS_Subset, FS_AddElement
  <2>. QED
    BY <1>2, <1>7, <2>2, <2>3, <2>4 DEF LostAreCounted
<1>9. TypeOK'
  BY <1>2, <1>6, PQueueAssumption DEF Inv, TypeOK, Heap
<1>10. PriorityTellsLevel' /\ OutIsNotQueued' /\ WalkedIsEmpty'
  BY <1>2, <1>3, <1>7, QueueIs DEF Inv, PriorityTellsLevel, OutIsNotQueued, WalkedIsEmpty
<1>. QED
  BY <1>6, <1>7, <1>8, <1>9, <1>10 DEF Inv

\* The head of a queue that is not a level has left it, and its new node is
\* linked to another queue.
LEMMA RelinkStep ==
    ASSUME Inv, NEW q \in Others, NEW t \in Queue \ {q}, ~QIsEmpty(heap, q),
           t \in Levels => t = priority[FirstPcb(heap, q)],
           NEW g \in Heap, Holds(g, Left(Lists, q)),
           NEW n \in g.used \ Held(Left(Lists, q)), g.pcb[n] = FirstPcb(heap, q),
           \A m \in Held(Left(Lists, q)) : g.pcb[m] = heap.pcb[m],
           g.used \ (Held(Left(Lists, q)) \union {n}) = heap.used \ Held(Lists),
           heap' = QEnqueue(g, t, n),
           level = -1, UNCHANGED <<priority, level, out, leaked>>
    PROVE  Inv' /\ Processes' = Joined(Left(Processes, q), t, FirstPcb(heap, q))
<1> DEFINE p   == FirstPcb(heap, q)
           ls  == Left(Lists, q)
           new == Joined(ls, t, n)
<1>1. /\ heap \in Heap /\ Holds(heap, Lists) /\ Processes = PcbsOf(heap.pcb, Lists)
      /\ Lists \in [Queue -> Seq(Node)] /\ Held(Processes) \subseteq Proc
  BY InvFacts, HeldBy DEF Inv
<1>2. q \in Queue /\ q \notin Levels
  BY QueueIs
<1>3. /\ Lists[q] # <<>> /\ p \in Proc
      /\ \A r \in Queue \ {q} : Left(Processes, q)[r] = Processes[r]
      /\ Left(Processes, q) \in [Queue -> Seq(Proc)]
      /\ p \in Held(Processes) /\ Held(Left(Processes, q)) = Held(Processes) \ {p}
  BY <1>2, FirstIs
<1>4. \A m \in Held(ls) : heap.pcb[m] # p
  BY <1>1, <1>2, <1>3, Shrinks
<1>5. n \in g.used \ Held(ls) /\ n \in Node
  BY DEF Heap
<1> HIDE DEF p, ls
<1>6. /\ Holds(g, ls) /\ g.pcb[n] = p
      /\ \A m \in Held(ls) : g.pcb[m] = heap.pcb[m] /\ g.pcb[m] # g.pcb[n]
      /\ g.used \ (Held(ls) \union {n}) = heap.used \ Held(Lists)
  BY <1>4 DEF p, ls
<1>7. /\ heap' \in Heap /\ Holds(heap', new) /\ heap'.used = g.used /\ heap'.pcb = g.pcb
      /\ Held(new) = Held(ls) \union {n}
  BY <1>3, <1>5, <1>6, HoldsEnqueue
<1> HIDE DEF new
<1>8. heap'.used \ Held(new) = heap.used \ Held(Lists)
  BY <1>6, <1>7
<1>9. Lists' = new /\ Holds(heap', Lists') /\ Processes' = PcbsOf(heap'.pcb, new)
  BY <1>7, NextLists
<1>10. Processes' = Joined(Left(Processes, q), t, p)
  <2>1. PcbsOf(g.pcb, ls) = Left(PcbsOf(heap.pcb, Lists), q)
    <3>1. Lists \in [Queue -> Seq(Node)] /\ Lists[q] # <<>>
      BY <1>1, <1>3
    <3>2. \A m \in Held(Left(Lists, q)) : g.pcb[m] = heap.pcb[m]
      OBVIOUS
    <3>. QED
      BY <1>2, <3>1, <3>2, PcbsOfLeft DEF ls
  <2>2. PcbsOf(heap'.pcb, Joined(ls, t, n)) = Joined(PcbsOf(g.pcb, ls), t, heap'.pcb[n])
    <3>1. ls \in [Queue -> Seq(Node)] /\ n \in Node /\ t \in Queue
      BY <1>5, <1>6 DEF Holds
    <3> DEFINE old == g.pcb
               now == heap'.pcb
    <3>2. \A m \in Held(ls) : now[m] = old[m]
      BY <1>7
    <3> HIDE DEF old, now
    <3>3. PcbsOf(now, Joined(ls, t, n)) = Joined(PcbsOf(old, ls), t, now[n])
      BY <3>1, <3>2, PcbsOfJoined
    <3>. QED
      BY <3>3 DEF old, now
  <2>. QED
    BY <1>1, <1>6, <1>7, <1>9, <2>1, <2>2 DEF new
<1>11. /\ Held(Processes') = Held(Processes)
       /\ \A r \in Levels : Range(Processes'[r]) = IF r = t THEN Range(Processes[r]) \union {p}
                                                   ELSE Range(Processes[r])
  <2> DEFINE P == Left(Processes, q)
  <2>1. Family(P, Queue, Proc) /\ P \in [Queue -> Seq(Proc)]
    BY <1>3 DEF Family
  <2> HIDE DEF P
  <2>2. Held(Joined(P, t, p)) = Held(P) \union {p}
    BY <1>3, <2>1, HeldAppend
  <2>3. \A r \in Queue : Range(Joined(P, t, p)[r]) = IF r = t THEN Range(P[t]) \union {p}
                                                     ELSE Range(P[r])
    <3>1. t \in Queue /\ p \in Proc
      BY <1>3
    <3> DEFINE J == Joined(P, t, p)
    <3>2. J = [r \in DOMAIN P |-> IF r = t THEN Append(P[t], p) ELSE P[r]]
      BY <2>1, <3>1 DEF Joined
    <3> HIDE DEF J
    <3>3. J[t] = Append(P[t], p) /\ \A r \in Queue \ {t} : J[r] = P[r]
      BY <2>1, <3>1, <3>2
    <3>4. Range(Append(P[t], p)) = Range(P[t]) \union {p}
      BY <2>1, <3>1, AppendOnce
    <3>5. \A r \in Queue : Range(J[r]) = IF r = t THEN Range(P[t]) \union {p} ELSE Range(P[r])
      BY <3>3, <3>4
    <3>. QED
      BY <3>5 DEF J
  <2>4. \A r \in Levels : r \in Queue /\ P[r] = Processes[r]
    BY <1>2, <1>3, QueueIs DEF P
  <2>. QED
    BY <1>3, <1>10, <2>2, <2>3, <2>4 DEF P
<1>12. TypeOK' /\ LostAreCounted'
  BY <1>7, <1>8, <1>9 DEF Inv, TypeOK, LostAreCounted, Heap
<1>13. PriorityTellsLevel'
  <2>1. ASSUME NEW l \in Levels, NEW r \in Range(Processes'[l]) PROVE priority[r] = l
    <3>1. CASE r \in Range(Processes[l])
      BY <3>1 DEF Inv, PriorityTellsLevel
    <3>2. CASE r \notin Range(Processes[l])
      BY <1>11, <2>1, <3>2 DEF p
    <3>. QED
      BY <3>1, <3>2
  <2>. QED
    BY <2>1 DEF PriorityTellsLevel
<1>14. OutIsNotQueued' /\ WalkedIsEmpty'
  BY <1>11 DEF Inv, OutIsNotQueued, WalkedIsEmpty, Levels
<1>15. Inv'
  BY <1>9, <1>12, <1>13, <1>14 DEF Inv
<1>. QED
  BY <1>10, <1>15 DEF p

\* The new node is made first, and so is not the one that is freed.
LEMMA MadeFirstStep ==
    ASSUME Inv, NEW q \in Others, NEW t \in Queue \ {q}, ~QIsEmpty(heap, q),
           t \in Levels => t = priority[FirstPcb(heap, q)], NEW n \in Free(heap),
           heap' = QEnqueue(QDequeue(NewNode(heap, n, FirstPcb(heap, q)), q), t, n),
           level = -1, UNCHANGED <<priority, level, out, leaked>>
    PROVE  Inv' /\ Processes' = Joined(Left(Processes, q), t, FirstPcb(heap, q))
<1> DEFINE p  == FirstPcb(heap, q)
           x  == Lists[q][1]
           f  == NewNode(heap, n, p)
           g  == QDequeue(f, q)
           ls == Left(Lists, q)
<1>1. heap \in Heap /\ Holds(heap, Lists) /\ q \in Queue /\ n \in Node \ heap.used
  BY InvFacts, QueueIs DEF Inv, Free
<1>2. Lists[q] # <<>> /\ p \in Proc
  BY <1>1, FirstIs
<1>3. Held(ls) = Held(Lists) \ {x} /\ x \in Held(Lists)
  BY <1>1, <1>2, Shrinks
<1>4. /\ f \in Heap /\ Holds(f, Lists) /\ f.used = heap.used \union {n} /\ f.pcb[n] = p
      /\ \A m \in Node \ {n} : f.pcb[m] = heap.pcb[m]
  <2> HIDE DEF p
  <2>. QED
    BY <1>1, <1>2, NewNodeIs
<1> HIDE DEF f, p
<1>5. /\ g \in Heap /\ Holds(g, ls) /\ g.used = f.used \ {x}
      /\ \A m \in Node \ {x} : g.pcb[m] = f.pcb[m]
  BY <1>1, <1>2, <1>4, Shrinks
<1>6. Held(Lists) \subseteq Node /\ Held(Lists) \subseteq heap.used
  <2>1. Held(Lists) \subseteq heap.used
    BY <1>1 DEF Holds
  <2>. QED
    BY <1>1, <2>1, ListNodes
<1>7. heap' = QEnqueue(g, t, n)
  BY DEF f, g, p
<1> HIDE DEF g, x, ls
<1>8. /\ n \in g.used \ Held(ls) /\ g.pcb[n] = p /\ \A m \in Held(ls) : g.pcb[m] = heap.pcb[m]
      /\ g.used \ (Held(ls) \union {n}) = heap.used \ Held(Lists)
  BY <1>1, <1>3, <1>4, <1>5, <1>6
<1>. QED
  BY <1>5, <1>7, <1>8, RelinkStep DEF p, ls

\* The old node is freed first, and may be the new one.
LEMMA FreedFirstStep ==
    ASSUME Inv, NEW q \in Others, NEW t \in Queue \ {q}, ~QIsEmpty(heap, q),
           t \in Levels => t = priority[FirstPcb(heap, q)], NEW n \in Free(QDequeue(heap, q)),
           heap' = QEnqueue(NewNode(QDequeue(heap, q), n, FirstPcb(heap, q)), t, n),
           level = -1, UNCHANGED <<priority, level, out, leaked>>
    PROVE  Inv' /\ Processes' = Joined(Left(Processes, q), t, FirstPcb(heap, q))
<1> DEFINE p  == FirstPcb(heap, q)
           f  == QDequeue(heap, q)
           g  == NewNode(f, n, p)
           ls == Left(Lists, q)
<1>1. heap \in Heap /\ Holds(heap, Lists) /\ q \in Queue
  BY InvFacts, QueueIs DEF Inv
<1>2. Lists[q] # <<>> /\ p \in Proc
  BY <1>1, FirstIs
<1>3. /\ f \in Heap /\ Holds(f, ls) /\ f.used \ Held(ls) = heap.used \ Held(Lists)
      /\ \A m \in Held(ls) : f.pcb[m] = heap.pcb[m]
  BY <1>1, <1>2, Shrinks
<1>4. n \in Node \ f.used
  BY DEF Free
<1>5. heap' = QEnqueue(g, t, n)
  OBVIOUS
<1> HIDE DEF f, p, ls
<1>6. /\ g \in Heap /\ Holds(g, ls) /\ g.used = f.used \union {n}
      /\ n \in Node \ Held(ls) /\ g.pcb[n] = p
      /\ \A m \in Node \ {n} : g.pcb[m] = f.pcb[m]
  BY <1>2, <1>3, <1>4, NewNodeIs
<1>7. Held(ls) \subseteq Node
  BY <1>3, ListNodes
<1> HIDE DEF g
<1>8. /\ n \in g.used \ Held(ls) /\ \A m \in Held(ls) : g.pcb[m] = heap.pcb[m]
      /\ g.used \ (Held(ls) \union {n}) = heap.used \ Held(Lists)
  BY <1>3, <1>4, <1>6, <1>7
<1>. QED
  BY <1>5, <1>6, <1>8, RelinkStep DEF p, ls

\* The ready queue's part of the dispatchers: the node goes to the level of
\* its process.
LEMMA FirstEnqueued ==
    ASSUME Inv, NEW q \in Others, ~QIsEmpty(heap, q)
    PROVE  /\ FirstPcb(heap, q) \in Proc /\ FirstPcb(heap, q) \in Range(Processes[q])
           /\ priority[FirstPcb(heap, q)] \in Levels /\ priority[FirstPcb(heap, q)] \in Queue \ {q}
           /\ \A n \in Free(heap) :
                 P_Enqueue(QDequeue(NewNode(heap, n, FirstPcb(heap, q)), q), n, priority)
                    = QEnqueue(QDequeue(NewNode(heap, n, FirstPcb(heap, q)), q),
                               priority[FirstPcb(heap, q)], n)
           /\ \A n \in Free(QDequeue(heap, q)) :
                 P_Enqueue(NewNode(QDequeue(heap, q), n, FirstPcb(heap, q)), n, priority)
                    = QEnqueue(NewNode(QDequeue(heap, q), n, FirstPcb(heap, q)),
                               priority[FirstPcb(heap, q)], n)
<1> DEFINE p == FirstPcb(heap, q)
<1>1. heap \in Heap /\ Holds(heap, Lists) /\ q \in Queue /\ q \notin Levels
  BY InvFacts, QueueIs DEF Inv
<1>2. Lists[q] # <<>> /\ p \in Proc /\ p \in Range(Processes[q])
  BY <1>1, FirstIs
<1>3. priority[p] \in Levels /\ priority[p] \in Queue \ {q}
  BY <1>1, <1>2, QueueIs DEF Inv, TypeOK
<1> HIDE DEF p
<1>4. ASSUME NEW n \in Free(heap)
      PROVE  P_Enqueue(QDequeue(NewNode(heap, n, p), q), n, priority)
                = QEnqueue(QDequeue(NewNode(heap, n, p), q), priority[p], n)
  <2> DEFINE f == NewNode(heap, n, p)
             g == QDequeue(f, q)
             x == Lists[q][1]
  <2>1. n \in Node \ heap.used
    BY DEF Free
  <2>2. f \in Heap /\ Holds(f, Lists) /\ f.pcb[n] = p
    BY <1>1, <1>2, <2>1, NewNodeIs
  <2>3. x \in heap.used
    BY <1>1, <1>2, EmptyList
  <2> HIDE DEF f
  <2>4. \A m \in Node \ {x} : g.pcb[m] = f.pcb[m]
    BY <1>1, <1>2, <2>2, Shrinks
  <2> HIDE DEF g, x
  <2>5. g.pcb[n] = p
    BY <2>1, <2>2, <2>3, <2>4
  <2>6. P_Enqueue(g, n, priority) = QEnqueue(g, priority[g.pcb[n]], n)
    BY <1>2, <2>5, P_EnqueueIs
  <2>. QED
    BY <2>5, <2>6 DEF f, g
<1>5. ASSUME NEW n \in Free(QDequeue(heap, q))
      PROVE  P_Enqueue(NewNode(QDequeue(heap, q), n, p), n, priority)
                = QEnqueue(NewNode(QDequeue(heap, q), n, p), priority[p], n)
  <2> DEFINE f == QDequeue(heap, q)
             g == NewNode(f, n, p)
  <2>1. f \in Heap /\ Holds(f, Left(Lists, q))
    BY <1>1, <1>2, Shrinks
  <2>2. n \in Node \ f.used
    BY DEF Free
  <2> HIDE DEF f
  <2>3. g.pcb[n] = p
    BY <1>2, <2>1, <2>2, NewNodeIs
  <2> HIDE DEF g
  <2>4. P_Enqueue(g, n, priority) = QEnqueue(g, priority[g.pcb[n]], n)
    BY <1>2, <2>3, P_EnqueueIs
  <2>. QED
    BY <2>3, <2>4 DEF f, g
<1>. QED
  BY <1>2, <1>3, <1>4, <1>5 DEF p

LEMMA ResumeStep ==
    ASSUME Inv, NEW q \in Others, Resume(q)
    PROVE  /\ Inv'
           /\ \E p \in Proc : /\ p \in Range(Processes[q])
                              /\ Processes' = Joined(Left(Processes, q), priority[p], p)
<1> DEFINE p == FirstPcb(heap, q)
<1>1. PICK n \in Free(heap) : heap' = P_Enqueue(QDequeue(NewNode(heap, n, p), q), n, priority)
  BY DEF Resume
<1>2. level = -1 /\ ~QIsEmpty(heap, q) /\ UNCHANGED <<priority, level, out, leaked>>
  BY DEF Resume
<1>3. /\ p \in Proc /\ p \in Range(Processes[q]) /\ priority[p] \in Queue \ {q}
      /\ heap' = QEnqueue(QDequeue(NewNode(heap, n, p), q), priority[p], n)
  BY <1>1, <1>2, FirstEnqueued
<1>4. Inv' /\ Processes' = Joined(Left(Processes, q), priority[p], p)
  BY <1>2, <1>3, MadeFirstStep
<1>. QED
  BY <1>3, <1>4

LEMMA UnlockStep ==
    ASSUME Inv, Unlock
    PROVE  /\ Inv'
           /\ \E p \in Proc : /\ p \in Range(Processes[Blocked])
                              /\ Processes' = Joined(Left(Processes, Blocked), priority[p], p)
<1> DEFINE p == FirstPcb(heap, Blocked)
<1>1. PICK n \in Free(QDequeue(heap, Blocked)) :
          heap' = P_Enqueue(NewNode(QDequeue(heap, Blocked), n, p), n, priority)
  BY DEF Unlock
<1>2. level = -1 /\ ~QIsEmpty(heap, Blocked) /\ UNCHANGED <<priority, level, out, leaked>>
  BY DEF Unlock
<1>3. /\ p \in Proc /\ p \in Range(Processes[Blocked]) /\ priority[p] \in Queue \ {Blocked}
      /\ heap' = QEnqueue(NewNode(QDequeue(heap, Blocked), n, p), priority[p], n)
  BY <1>1, <1>2, QueueIs, FirstEnqueued
<1>4. Inv' /\ Processes' = Joined(Left(Processes, Blocked), priority[p], p)
  BY <1>2, <1>3, QueueIs, FreedFirstStep
<1>. QED
  BY <1>3, <1>4

LEMMA SignalStep ==
    ASSUME Inv, Signal
    PROVE  Inv' /\ \A i \in Levels : Processes'[i] = Processes[i]
<1> DEFINE p == FirstPcb(heap, Waiting)
<1>1. PICK n \in Free(heap) :
          heap' = QEnqueue(QDequeue(NewNode(heap, n, p), Waiting), Blocked, n)
  BY DEF Signal
<1>2. level = -1 /\ ~QIsEmpty(heap, Waiting) /\ UNCHANGED <<priority, level, out, leaked>>
  BY DEF Signal
<1>3. /\ Blocked \in Queue \ {Waiting} /\ Blocked \notin Levels /\ Waiting \in Others
      /\ \A i \in Levels : i \in Queue /\ i # Waiting /\ i # Blocked
  BY QueueIs
<1>4. Inv' /\ Processes' = Joined(Left(Processes, Waiting), Blocked, p)
  BY <1>1, <1>2, <1>3, MadeFirstStep
<1>5. Left(Processes, Waiting) \in [Queue -> Seq(Proc)]
      /\ \A i \in Levels : Left(Processes, Waiting)[i] = Processes[i]
  BY <1>2, <1>3, QueueIs, FirstIs
<1>6. \A i \in Levels : Processes'[i] = Left(Processes, Waiting)[i]
  BY <1>3, <1>4, <1>5 DEF Joined
<1>. QED
  BY <1>4, <1>5, <1>6

\* What the lists become when all leave the queue q at once.
Emptied(ls, q) == [ls EXCEPT ![q] = <<>>]

LEMMA EmptiedIs ==
    ASSUME NEW h \in Heap, NEW ls, Holds(h, ls), NEW q \in Queue
    PROVE  LET f   == SetHead(h, q, NULL)
               new == Emptied(ls, q)
           IN  /\ f \in Heap /\ Holds(f, new) /\ f.used = h.used /\ f.pcb = h.pcb
               /\ Held(new) = Held(ls) \ Range(ls[q])
               /\ Range(ls[q]) \in SUBSET Node /\ Range(ls[q]) \subseteq Held(ls)
               /\ Len(ls[q]) = Cardinality(Range(ls[q])) /\ IsFiniteSet(Range(ls[q]))
               /\ PcbsOf(h.pcb, new) = Emptied(PcbsOf(h.pcb, ls), q)
<1> DEFINE s    == ls[q]
           lost == Range(s)
           new  == Emptied(ls, q)
           f    == SetHead(h, q, NULL)
<1>1. ls \in [Queue -> Seq(Node)] /\ Apart(ls)
  BY DEF Holds
<1>2. /\ lost \in SUBSET Node /\ lost \subseteq Held(ls)
      /\ Len(s) = Cardinality(lost) /\ IsFiniteSet(lost)
  <2>1. s \in Seq(Node) /\ Once(s)
    BY <1>1 DEF Apart
  <2>2. lost \subseteq Held(ls)
    BY ListNodes
  <2>. QED
    BY <2>1, <2>2, RangeOfSeq, OnceLength
<1>3. /\ new \in [Queue -> Seq(Node)] /\ new[q] = <<>>
      /\ \A r \in Queue \ {q} : new[r] = ls[r]
  BY <1>1 DEF Emptied
<1> HIDE DEF new
<1>4. Apart(new) /\ Held(new) = Held(ls) \ lost
  <2>1. DOMAIN new = Queue /\ \A r \in Queue : new[r] \in {ls[r], <<>>}
    BY <1>3
  <2>2. Apart(new)
    BY <1>1, <2>1, HeldEmptied
  <2>3. \A n : n \in Held(new) <=> \E r \in Queue : n \in Range(new[r])
    BY <1>3, HeldBy, SMTT(20)
  <2>4. \A n : n \in Held(ls) <=> \E r \in Queue : n \in Range(ls[r])
    BY <1>1, HeldBy
  <2>5. \A r \in Queue \ {q} : Range(ls[r]) \intersect lost = {}
    BY <1>1 DEF Apart
  <2>6. Range(new[q]) = {}
    BY <1>3, EmptyQueue
  <2>7. ASSUME NEW n PROVE n \in Held(new) <=> n \in Held(ls) \ lost
    <3>1. n \in Held(new) <=> \E r \in Queue \ {q} : n \in Range(ls[r])
      BY <1>3, <2>3, <2>6
    <3>. QED
      BY <2>4, <2>5, <3>1
  <2>. QED
    BY <2>2, <2>7
<1>5. /\ f \in Heap /\ f.head = [h.head EXCEPT ![q] = NULL]
      /\ f.next = h.next /\ f.pcb = h.pcb /\ f.used = h.used
  BY SetHeadIs
<1> HIDE DEF f
<1>6. Holds(f, new)
  <2>1. \A r \in Queue : f.head[r] = IF new[r] = <<>> THEN NULL ELSE new[r][1]
    <3>1. \A r \in Queue : h.head[r] = IF ls[r] = <<>> THEN NULL ELSE ls[r][1]
      BY DEF Holds
    <3>2. f.head[q] = NULL /\ \A r \in Queue \ {q} : f.head[r] = h.head[r]
      BY <1>5 DEF Heap
    <3>. QED
      BY <1>3, <3>1, <3>2
  <2>2. \A r \in Queue : \A i \in 1 .. Len(new[r]) :
           f.next[new[r][i]] = IF i = Len(new[r]) THEN NULL ELSE new[r][i + 1]
    <3>1. \A r \in Queue : \A i \in 1 .. Len(ls[r]) :
             h.next[ls[r][i]] = IF i = Len(ls[r]) THEN NULL ELSE ls[r][i + 1]
      BY DEF Holds
    <3>2. Len(new[q]) = 0
      BY <1>3, EmptySeq
    <3>3. \A i \in 1 .. Len(new[q]) : FALSE
      BY <3>2
    <3>4. \A r \in Queue \ {q} : \A i \in 1 .. Len(new[r]) :
             f.next[new[r][i]] = IF i = Len(new[r]) THEN NULL ELSE new[r][i + 1]
      BY <1>3, <1>5, <3>1
    <3>. QED
      BY <3>3, <3>4
  <2>3. /\ Held(new) \subseteq f.used
        /\ \A n \in Held(new) : f.pcb[n] \in Proc
        /\ \A m, n \in Held(new) : f.pcb[m] = f.pcb[n] => m = n
    BY <1>4, <1>5 DEF Holds
  <2>. QED
    BY <1>3, <1>4, <2>1, <2>2, <2>3 DEF Holds
<1>7. PcbsOf(h.pcb, new) = Emptied(PcbsOf(h.pcb, ls), q)
  <2> DEFINE Of(t) == [i \in 1 .. Len(t) |-> h.pcb[t[i]]]
             P     == PcbsOf(h.pcb, ls)
  <2>1. [i \in 1 .. Len(new[q]) |-> h.pcb[new[q][i]]] = <<>>
    <3>1. Len(new[q]) = 0
      BY <1>3, EmptySeq
    <3>. QED
      BY <3>1
  <2>2. P = [r \in Queue |-> Of(ls[r])]
    BY DEF PcbsOf
  <2>3. PcbsOf(h.pcb, new) = [r \in Queue |-> Of(new[r])]
    BY DEF PcbsOf
  <2>4. Of(new[q]) = <<>> /\ \A r \in Queue \ {q} : Of(new[r]) = Of(ls[r])
    BY <1>3, <2>1
  <2> HIDE DEF P, Of
  <2>5. Emptied(P, q) = [r \in Queue |-> IF r = q THEN <<>> ELSE P[r]]
    BY <2>2 DEF Emptied
  <2>6. \A r \in Queue : Of(new[r]) = IF r = q THEN <<>> ELSE P[r]
    BY <2>2, <2>4
  <2>7. PcbsOf(h.pcb, new) = Emptied(P, q)
    BY <2>3, <2>5, <2>6
  <2>. QED
    BY <2>7 DEF P
<1>. QED
  BY <1>2, <1>4, <1>5, <1>6, <1>7 DEF f, new

\* All leave a queue that is not a level; what becomes of their nodes is
\* counted.
LEMMA EmptiedStep ==
    ASSUME Inv, NEW q \in Others, heap' \in Heap, Holds(heap', Emptied(Lists, q)),
           \A m \in Held(Emptied(Lists, q)) : heap'.pcb[m] = heap.pcb[m],
           Cardinality(heap'.used \ Held(Emptied(Lists, q))) = leaked', leaked' \in 0 .. MaxLeaks,
           UNCHANGED <<priority, level, out>>
    PROVE  /\ Inv' /\ Processes' = Emptied(Processes, q)
           /\ \A i \in Levels : Processes'[i] = Processes[i]
<1> DEFINE ls == Emptied(Lists, q)
<1>1. /\ heap \in Heap /\ Holds(heap, Lists) /\ Processes = PcbsOf(heap.pcb, Lists)
      /\ Processes \in [Queue -> Seq(Proc)] /\ q \in Queue /\ q \notin Levels
  BY InvFacts, QueueIs DEF Inv
<1>2. Lists' = ls /\ Holds(heap', Lists') /\ Processes' = PcbsOf(heap'.pcb, ls)
  BY NextLists
<1>3. Processes' = Emptied(Processes, q)
  <2>1. ls \in [Queue -> Seq(Node)]
    BY DEF Holds
  <2> HIDE DEF ls
  <2>2. PcbsOf(heap'.pcb, ls) = PcbsOf(heap.pcb, ls)
    <3> DEFINE old == heap.pcb
               now == heap'.pcb
    <3>1. \A m \in Held(ls) : now[m] = old[m]
      BY DEF ls
    <3> HIDE DEF old, now
    <3>2. PcbsOf(now, ls) = PcbsOf(old, ls)
      BY <2>1, <3>1, PcbsOfSame
    <3>. QED
      BY <3>2 DEF old, now
  <2>3. PcbsOf(heap.pcb, ls) = Emptied(PcbsOf(heap.pcb, Lists), q)
    BY <1>1, EmptiedIs DEF ls
  <2>. QED
    BY <1>1, <1>2, <2>2, <2>3
<1>4. \A i \in Levels : Processes'[i] = Processes[i]
  BY <1>1, <1>3, QueueIs DEF Emptied
<1>5. TypeOK' /\ LostAreCounted'
  BY <1>2 DEF Inv, TypeOK, LostAreCounted, Heap
<1>6. PriorityTellsLevel' /\ WalkedIsEmpty'
  BY <1>4 DEF Inv, PriorityTellsLevel, WalkedIsEmpty
<1>7. OutIsNotQueued'
  <2>1. DOMAIN Processes' = Queue /\ \A r \in Queue : Processes'[r] \in {Processes[r], <<>>}
    BY <1>1, <1>3 DEF Emptied
  <2>2. Held(Processes') \subseteq Held(Processes)
    BY <1>1, <2>1, HeldEmptied
  <2>. QED
    BY <2>2 DEF Inv, OutIsNotQueued
<1>. QED
  BY <1>2, <1>3, <1>4, <1>5, <1>6, <1>7 DEF Inv

LEMMA EmptyZombiesStep ==
    ASSUME Inv, EmptyZombies
    PROVE  Inv' /\ \A i \in Levels : Processes'[i] = Processes[i]
<1> DEFINE freed == Range(Lists[Zombies])
           ls    == Emptied(Lists, Zombies)
           f     == SetHead(heap, Zombies, NULL)
<1>1. heap \in Heap /\ Holds(heap, Lists) /\ Zombies \in Queue /\ Zombies \in Others
  BY InvFacts, QueueIs DEF Inv
<1>2. Nodes(heap, Zombies) = Lists[Zombies]
  BY <1>1, NodesAre
<1>3. heap' = DestructNodes(f, freed) /\ UNCHANGED <<priority, level, out, leaked>>
  BY <1>2 DEF EmptyZombies
<1>4. /\ f \in Heap /\ Holds(f, ls) /\ f.used = heap.used /\ f.pcb = heap.pcb
      /\ Held(ls) = Held(Lists) \ freed
      /\ freed \in SUBSET Node /\ freed \subseteq Held(Lists)
  BY <1>1, EmptiedIs
<1> HIDE DEF f, ls, freed
<1>5. freed \intersect Held(ls) = {}
  BY <1>4
<1>6. /\ heap' \in Heap /\ Holds(heap', ls) /\ heap'.used = f.used \ freed
      /\ \A m \in Held(ls) : heap'.pcb[m] = f.pcb[m]
  BY <1>3, <1>4, <1>5, DestructNodesIs
<1>7. heap'.used \ Held(ls) = heap.used \ Held(Lists)
  BY <1>4, <1>6
<1>8. Cardinality(heap'.used \ Held(ls)) = leaked' /\ leaked' \in 0 .. MaxLeaks
  BY <1>3, <1>7 DEF Inv, LostAreCounted, TypeOK
<1>9. \A m \in Held(ls) : heap'.pcb[m] = heap.pcb[m]
  BY <1>4, <1>6
<1>. QED
  BY <1>1, <1>3, <1>6, <1>8, <1>9, EmptiedStep DEF ls

LEMMA DestructBlockedStep ==
    ASSUME Inv, DestructBlocked
    PROVE  Inv' /\ \A i \in Levels : Processes'[i] = Processes[i]
<1> DEFINE lost == Range(Lists[Blocked])
           ls   == Emptied(Lists, Blocked)
           f    == SetHead(heap, Blocked, NULL)
<1>1. heap \in Heap /\ Holds(heap, Lists) /\ Blocked \in Queue /\ Blocked \in Others
  BY InvFacts, QueueIs DEF Inv
<1>2. Nodes(heap, Blocked) = Lists[Blocked]
  BY <1>1, NodesAre
<1>3. /\ heap' = Forget(f, lost) /\ UNCHANGED <<priority, level, out>>
      /\ leaked + Len(Lists[Blocked]) <= MaxLeaks /\ leaked' = leaked + Len(Lists[Blocked])
  BY <1>2 DEF DestructBlocked
<1>4. /\ f \in Heap /\ Holds(f, ls) /\ f.used = heap.used /\ f.pcb = heap.pcb
      /\ Held(ls) = Held(Lists) \ lost
      /\ lost \in SUBSET Node /\ lost \subseteq Held(Lists)
      /\ Len(Lists[Blocked]) = Cardinality(lost) /\ IsFiniteSet(lost)
  BY <1>1, EmptiedIs
<1> HIDE DEF f, ls, lost
<1>5. lost \intersect Held(ls) = {}
  BY <1>4
<1>6. /\ heap' \in Heap /\ Holds(heap', ls) /\ heap'.used = f.used \union lost
      /\ \A m \in Held(ls) : heap'.pcb[m] = f.pcb[m]
  BY <1>3, <1>4, <1>5, ForgetIs
<1>7. leaked' = leaked + Cardinality(lost) /\ leaked' \in 0 .. MaxLeaks
  <2>1. leaked \in 0 .. MaxLeaks /\ Cardinality(lost) \in Nat /\ MaxLeaks \in Nat
    BY <1>4, FS_CardinalityType, PQueueAssumption DEF Inv, TypeOK
  <2>. QED
    BY <1>3, <1>4, <2>1
<1>8. Cardinality(heap'.used \ Held(ls)) = leaked'
  <2> DEFINE T == heap.used \ Held(Lists)
  <2>1. IsFiniteSet(T) /\ T \intersect lost = {} /\ Cardinality(T) = leaked
    <3>1. T \in SUBSET Node
      BY <1>1 DEF Heap
    <3>2. IsFiniteSet(T)
      BY <3>1, QueueIs, FS_Subset
    <3>. QED
      BY <1>4, <3>2 DEF Inv, LostAreCounted
  <2>2. heap'.used \ Held(ls) = T \union lost
    <3>1. Held(Lists) \subseteq heap.used
      BY <1>1 DEF Holds
    <3>. QED
      BY <1>4, <1>6, <3>1
  <2> HIDE DEF T
  <2>3. Cardinality(T \union lost) = Cardinality(T) + Cardinality(lost) - Cardinality({})
    BY <1>4, <2>1, FS_Union
  <2>4. Cardinality({}) = 0
    BY FS_EmptySet
  <2>5. leaked \in Nat /\ Cardinality(lost) \in Nat
    BY <1>4, FS_CardinalityType DEF Inv, TypeOK
  <2>6. \A a, b \in Nat : a + b - 0 = a + b
    OBVIOUS
  <2>7. Cardinality(T \union lost) = leaked + Cardinality(lost)
    BY <2>1, <2>3, <2>4, <2>5, <2>6
  <2>. QED
    BY <1>7, <2>2, <2>7
<1>9. \A m \in Held(ls) : heap'.pcb[m] = heap.pcb[m]
  BY <1>4, <1>6
<1>. QED
  BY <1>1, <1>3, <1>6, <1>7, <1>8, <1>9, EmptiedStep DEF ls

LEMMA MoveHeadStep ==
    ASSUME Inv, MoveHead
    PROVE  /\ Inv' /\ level \in 1 .. MaxPriority /\ Processes[level] # <<>>
           /\ \E p \in Proc : /\ p = Head(Processes[level])
                              /\ priority' = [priority EXCEPT ![p] = 0]
                              /\ Processes' = Joined(Left(Processes, level), 0, p)
<1> DEFINE p     == FirstPcb(heap, level)
           freed == QDequeue(heap, level)
<1>1. PICK n \in Free(freed) : heap' = P_Enqueue(NewNode(freed, n, p), n, priority')
  BY DEF MoveHead
<1>2. /\ out' = out /\ level' = level /\ leaked' = leaked
      /\ level \in Levels /\ ~QIsEmpty(heap, level) /\ priority' = [priority EXCEPT ![p] = 0]
  BY DEF MoveHead
<1>3. level \in 1 .. MaxPriority /\ level \in Queue /\ level # 0 /\ 0 \in Levels /\ 0 \in Queue
  BY <1>2, QueueIs DEF Inv, WalkedIsEmpty, Levels
<1>4. /\ heap \in Heap /\ Holds(heap, Lists) /\ Processes = PcbsOf(heap.pcb, Lists)
      /\ Lists \in [Queue -> Seq(Node)]
  BY InvFacts DEF Inv
<1>5. /\ Lists[level] # <<>> /\ Processes[level] # <<>>
      /\ p = Head(Processes[level]) /\ p \in Proc /\ p \in Held(Processes)
      /\ Range(Left(Processes, level)[level]) = Range(Processes[level]) \ {p}
      /\ \A r \in Queue \ {level} : Left(Processes, level)[r] = Processes[r]
      /\ Left(Processes, level) \in [Queue -> Seq(Proc)]
      /\ Held(Left(Processes, level)) = Held(Processes) \ {p}
  BY <1>2, <1>3, FirstIs
<1> DEFINE ls  == Left(Lists, level)
           new == Joined(ls, 0, n)
<1>6. /\ freed \in Heap /\ Holds(freed, ls)
      /\ freed.used \ Held(ls) = heap.used \ Held(Lists)
      /\ \A m \in Held(ls) : freed.pcb[m] = heap.pcb[m] /\ freed.pcb[m] # p
  <2> HIDE DEF freed, ls, p
  <2>. QED
    BY <1>3, <1>4, <1>5, Shrinks DEF freed, ls, p
<1> HIDE DEF freed, p, ls
<1>7. n \in Node \ freed.used
  BY DEF Free
<1>8. /\ priority' \in [Proc -> Levels] /\ priority'[p] = 0
      /\ \A r \in Proc \ {p} : priority'[r] = priority[r]
  BY <1>2, <1>3, <1>5 DEF Inv, TypeOK
<1>9. heap' = QEnqueue(NewNode(freed, n, p), 0, n)
  <2> DEFINE f == NewNode(freed, n, p)
  <2>1. f.pcb[n] = p
    BY <1>5, <1>6, <1>7, NewNodeIs
  <2> HIDE DEF f
  <2>2. P_Enqueue(f, n, priority') = QEnqueue(f, priority'[f.pcb[n]], n)
    BY <1>5, <2>1, P_EnqueueIs
  <2>. QED
    BY <1>1, <1>8, <2>1, <2>2 DEF f
<1>10. /\ heap' \in Heap /\ Holds(heap', new)
       /\ heap'.used \ Held(new) = freed.used \ Held(ls)
       /\ n \in Node \ Held(ls) /\ heap'.pcb[n] = p
       /\ \A m \in Node \ {n} : heap'.pcb[m] = freed.pcb[m]
  BY <1>3, <1>5, <1>6, <1>7, <1>9, Grows, SMTT(20)
<1>11. Lists' = new /\ Holds(heap', Lists') /\ Processes' = PcbsOf(heap'.pcb, new)
  <2> HIDE DEF new
  <2>. QED
    BY <1>10, NextLists
<1>12. Processes' = Joined(Left(Processes, level), 0, p)
  <2>1. PcbsOf(freed.pcb, ls) = Left(PcbsOf(heap.pcb, Lists), level)
    <3>1. Lists \in [Queue -> Seq(Node)] /\ Lists[level] # <<>> /\ level \in Queue
      BY <1>3, <1>4, <1>5
    <3>2. \A m \in Held(Left(Lists, level)) : freed.pcb[m] = heap.pcb[m]
      BY <1>6 DEF ls
    <3>. QED
      BY <3>1, <3>2, PcbsOfLeft DEF ls
  <2>2. PcbsOf(heap'.pcb, Joined(ls, 0, n)) = Joined(PcbsOf(freed.pcb, ls), 0, heap'.pcb[n])
    <3>1. ls \in [Queue -> Seq(Node)] /\ n \in Node /\ 0 \in Queue
      BY <1>3, <1>6, <1>7 DEF Holds
    <3>2. \A m \in Held(ls) : heap'.pcb[m] = freed.pcb[m]
      BY <1>6, <1>10, ListNodes
    <3> DEFINE a == freed.pcb
               b == heap'.pcb
    <3>3. \A m \in Held(ls) : b[m] = a[m]
      BY <3>2
    <3> HIDE DEF a, b
    <3>4. PcbsOf(b, Joined(ls, 0, n)) = Joined(PcbsOf(a, ls), 0, b[n])
      BY <3>1, <3>3, PcbsOfJoined
    <3>. QED
      BY <3>4 DEF a, b
  <2>. QED
    BY <1>4, <1>10, <1>11, <2>1, <2>2 DEF new
<1>13. /\ Held(Processes') = Held(Processes)
       /\ \A r \in Queue : Range(Processes'[r]) = IF r = 0 THEN Range(Processes[r]) \union {p}
                                                  ELSE IF r = level THEN Range(Processes[r]) \ {p}
                                                  ELSE Range(Processes[r])
       /\ \A r \in Queue \ {0, level} : Processes'[r] = Processes[r]
  <2> DEFINE P == Left(Processes, level)
  <2>1. Family(P, Queue, Proc) /\ 0 \in Queue /\ p \in Proc
    BY <1>3, <1>5 DEF Family
  <2>2. /\ Range(P[level]) = Range(Processes[level]) \ {p}
        /\ \A r \in Queue \ {level} : P[r] = Processes[r]
        /\ Held(P) = Held(Processes) \ {p}
    BY <1>5
  <2> HIDE DEF P
  <2>3. Held(Joined(P, 0, p)) = Held(P) \union {p}
    BY <2>1, HeldAppend
  <2>4. ASSUME NEW r \in Queue
        PROVE  Range(Joined(P, 0, p)[r]) = IF r = 0 THEN Range(P[r]) \union {p} ELSE Range(P[r])
    <3>1. P \in [Queue -> Seq(Proc)] /\ 0 \in Queue /\ p \in Proc
      BY <2>1 DEF Family
    <3>. QED
      BY <3>1, JoinedRange
  <2>5. \A r \in Queue \ {0} : Joined(P, 0, p)[r] = P[r]
    BY <2>1 DEF Joined, Family
  <2>6. Processes' = Joined(P, 0, p)
    BY <1>12 DEF P
  <2>7. Held(Processes') = Held(Processes)
    BY <1>5, <2>2, <2>3, <2>6
  <2>8. ASSUME NEW r \in Queue
        PROVE  Range(Processes'[r]) = IF r = 0 THEN Range(Processes[r]) \union {p}
                                      ELSE IF r = level THEN Range(Processes[r]) \ {p}
                                      ELSE Range(Processes[r])
    BY <1>3, <2>2, <2>4, <2>6
  <2>. QED
    BY <2>2, <2>5, <2>6, <2>7, <2>8
<1>14. TypeOK' /\ LostAreCounted'
  BY <1>2, <1>6, <1>8, <1>10, <1>11 DEF Inv, TypeOK, LostAreCounted, Heap
<1>15. PriorityTellsLevel'
  <2>1. ASSUME NEW l \in Levels, NEW r \in Range(Processes'[l]) PROVE priority'[r] = l
    <3>1. l \in Queue /\ Range(Processes[l]) \subseteq Proc
      BY QueueIs, InvFacts, RangeOfSeq
    <3>2. CASE r = p
      <4>1. l = 0
        <5>1. l = level \/ p \notin Range(Processes[l])
          <6>1. p \in Range(Processes[level])
            BY <1>3, <1>5, InvFacts, HeadTailProperties, TailOnce
          <6>. QED
            BY <1>3, <3>1, <6>1, InvFacts DEF Apart
        <5>. QED
          BY <1>3, <1>13, <2>1, <3>1, <3>2, <5>1
      <4>. QED
        BY <1>8, <3>2, <4>1
    <3>3. CASE r # p
      <4>1. r \in Range(Processes[l])
        BY <1>13, <2>1, <3>1, <3>3
      <4>2. priority[r] = l
        BY <4>1 DEF Inv, PriorityTellsLevel
      <4>. QED
        BY <1>8, <3>1, <3>3, <4>1, <4>2
    <3>. QED
      BY <3>2, <3>3
  <2>. QED
    BY <2>1 DEF PriorityTellsLevel
<1>16. OutIsNotQueued'
  BY <1>2, <1>13 DEF Inv, OutIsNotQueued
<1>17. WalkedIsEmpty'
  <2>1. \A i \in Levels : 0 < i /\ i < level => i \in Queue \ {0, level} /\ Processes[i] = <<>>
    BY <1>3, QueueIs DEF Inv, WalkedIsEmpty, Levels
  <2>. QED
    BY <1>2, <1>3, <1>13, <2>1 DEF WalkedIsEmpty
<1>18. Inv'
  BY <1>11, <1>14, <1>15, <1>16, <1>17 DEF Inv
<1>. QED
  BY <1>2, <1>3, <1>5, <1>12, <1>18

LEMMA ResetPriorityStep ==
    ASSUME Inv, ResetPriority
    PROVE  Inv' /\ Processes' = Processes
<1>1. level' = 1 /\ UNCHANGED <<heap, priority, out, leaked>>
  BY DEF ResetPriority
<1>2. Lists' = Lists /\ Processes' = Processes
  BY <1>1 DEF Lists, Processes
<1>3. TypeOK' /\ LostAreCounted' /\ PriorityTellsLevel' /\ OutIsNotQueued' /\ WalkedIsEmpty'
  BY <1>1, <1>2, QueueIs
  DEF Inv, TypeOK, LostAreCounted, PriorityTellsLevel, OutIsNotQueued, WalkedIsEmpty, Levels
<1>. QED
  BY <1>1, <1>2, <1>3 DEF Inv

LEMMA NextLevelStep ==
    ASSUME Inv, NextLevel
    PROVE  Inv' /\ Processes' = Processes
<1>1. /\ level' = level + 1 /\ UNCHANGED <<heap, priority, out, leaked>>
      /\ level \in Levels /\ QIsEmpty(heap, level)
  BY DEF NextLevel
<1>2. Lists' = Lists /\ Processes' = Processes
  BY <1>1 DEF Lists, Processes
<1>3. Processes[level] = <<>> /\ level \in Nat /\ MaxPriority \in Nat
  BY <1>1, QueueIs, InvFacts DEF Levels
<1>4. TypeOK' /\ LostAreCounted' /\ PriorityTellsLevel' /\ OutIsNotQueued'
  BY <1>1, <1>2, <1>3
  DEF Inv, TypeOK, LostAreCounted, PriorityTellsLevel, OutIsNotQueued, Levels
<1>5. WalkedIsEmpty'
  <2>1. ASSUME NEW i \in Levels, 0 < i, i < level + 1 PROVE Processes[i] = <<>>
    <3>1. CASE i = level
      BY <1>3, <3>1
    <3>2. CASE i # level
      <4>1. i < level
        BY <1>3, <2>1, <3>2 DEF Levels
      <4>. QED
        BY <2>1, <4>1 DEF Inv, WalkedIsEmpty
    <3>. QED
      BY <3>1, <3>2
  <2>. QED
    BY <1>1, <1>2, <1>3, <2>1 DEF WalkedIsEmpty
<1>. QED
  BY <1>1, <1>2, <1>4, <1>5 DEF Inv

LEMMA ResetDoneIs ==
    ASSUME Inv, ResetDone
    PROVE  /\ priority' \in [Proc -> Levels]
           /\ \A p \in Proc : priority'[p] \in {0, priority[p]}
<1> DEFINE waiting == QResetPriority(heap, Waiting, priority)
           blocked == QResetPriority(heap, Blocked, waiting)
<1>1. priority \in [Proc -> Levels]
  BY DEF Inv, TypeOK
<1>2. waiting = [x \in Proc |-> IF QContains(heap, Waiting, x) THEN 0 ELSE priority[x]]
  BY <1>1 DEF QResetPriority
<1>3. blocked = [x \in Proc |-> IF QContains(heap, Blocked, x) THEN 0 ELSE waiting[x]]
  BY <1>2 DEF QResetPriority
<1>4. priority' = [x \in Proc |-> IF x = out THEN 0 ELSE blocked[x]]
  BY DEF ResetDone
<1> HIDE DEF waiting, blocked
<1>5. \A x \in Proc : waiting[x] \in {0, priority[x]}
  BY <1>2
<1>6. \A x \in Proc : blocked[x] \in {0, priority[x]}
  BY <1>3, <1>5
<1>7. \A x \in Proc : priority'[x] \in {0, priority[x]}
  BY <1>4, <1>6
<1>. QED
  BY <1>1, <1>4, <1>7, QueueIs

LEMMA ResetDoneStep ==
    ASSUME Inv, ResetDone
    PROVE  Inv' /\ Processes' = Processes /\ level' = -1
<1>1. level = MaxPriority + 1 /\ level' = -1 /\ UNCHANGED <<heap, out, leaked>>
  BY DEF ResetDone
<1>2. Lists' = Lists /\ Processes' = Processes
  BY <1>1 DEF Lists, Processes
<1>3. \A p \in Proc : priority'[p] \in {0, priority[p]}
  BY ResetDoneIs
<1>4. priority' \in [Proc -> Levels]
  BY ResetDoneIs
<1>5. TypeOK' /\ LostAreCounted' /\ OutIsNotQueued' /\ WalkedIsEmpty'
  BY <1>1, <1>2, <1>4, QueueIs
  DEF Inv, TypeOK, LostAreCounted, OutIsNotQueued, WalkedIsEmpty, Levels
<1>6. PriorityTellsLevel'
  <2>1. ASSUME NEW i \in Levels, NEW p \in Range(Processes[i]) PROVE priority'[p] = i
    <3>1. CASE i = 0
      <4>1. priority[p] = 0 /\ p \in Proc
        BY <3>1, QueueIs, InvFacts, RangeOfSeq DEF Inv, PriorityTellsLevel
      <4>. QED
        BY <1>3, <3>1, <4>1
    <3>2. CASE i # 0
      <4>1. Processes[i] = <<>>
        BY <1>1, <3>2, QueueIs DEF Inv, WalkedIsEmpty, Levels
      <4>. QED
        BY <2>1, <4>1, EmptyQueue
    <3>. QED
      BY <3>1, <3>2
  <2>. QED
    BY <1>2, <2>1 DEF PriorityTellsLevel
<1>. QED
  BY <1>1, <1>2, <1>5, <1>6 DEF Inv

LEMMA InvStutter ==
    ASSUME Inv, UNCHANGED vars
    PROVE  Inv' /\ Processes' = Processes
<1>1. UNCHANGED <<heap, priority, level, out, leaked>>
  BY DEF vars
<1>2. Lists' = Lists /\ Processes' = Processes
  BY <1>1 DEF Lists, Processes
<1>3. TypeOK' /\ LostAreCounted' /\ PriorityTellsLevel' /\ OutIsNotQueued' /\ WalkedIsEmpty'
  BY <1>1, <1>2 DEF Inv, TypeOK, LostAreCounted, PriorityTellsLevel, OutIsNotQueued, WalkedIsEmpty
<1>. QED
  BY <1>1, <1>2, <1>3 DEF Inv

\* The invariant holds in every state that the program reaches.
THEOREM SpecInv == Spec => []Inv
<1>1. Inv /\ [Next]_vars => Inv'
  <2> SUFFICES ASSUME Inv, [Next]_vars PROVE Inv'
    OBVIOUS
  <2>1. CASE Ready
    BY <2>1, ReadyStep DEF Ready
  <2>2. ASSUME NEW p \in Proc, NEW q \in {Waiting, Blocked}, Await(p, q) PROVE Inv'
    BY <2>2, AwaitStep, QueueIs
  <2>3. CASE ReadyIdle
    BY <2>3, ReadyIdleStep
  <2>4. CASE LoseNode
    BY <2>4, LoseNodeStep
  <2>5. CASE Halt
    BY <2>5, HaltStep
  <2>6. CASE P_Dequeue
    BY <2>6, P_DequeueStep
  <2>7. ASSUME NEW q \in {Waiting, Blocked}, Resume(q) PROVE Inv'
    BY <2>7, ResumeStep, QueueIs
  <2>8. CASE Unlock
    BY <2>8, UnlockStep
  <2>9. CASE Signal
    BY <2>9, SignalStep
  <2>10. CASE EmptyZombies
    BY <2>10, EmptyZombiesStep
  <2>11. CASE DestructBlocked
    BY <2>11, DestructBlockedStep
  <2>12. CASE ResetPriority
    BY <2>12, ResetPriorityStep
  <2>13. CASE MoveHead
    BY <2>13, MoveHeadStep
  <2>14. CASE NextLevel
    BY <2>14, NextLevelStep
  <2>15. CASE ResetDone
    BY <2>15, ResetDoneStep
  <2>16. CASE UNCHANGED vars
    BY <2>16, InvStutter
  <2>. QED
    BY <2>1, <2>2, <2>3, <2>4, <2>5, <2>6, <2>7, <2>8, <2>9, <2>10, <2>11, <2>12, <2>13, <2>14,
       <2>15, <2>16
    DEF Next, ResetStep
<1>. QED
  BY <1>1, InvInit, PTL DEF Spec

\* Through all the allocating, freeing and reusing of nodes, in the orders of
\* the dispatchers (most make the new node before another one is freed,
\* dispatcherUnlock and the reset make it from what they have freed, maybe,
\* dispatcherSignal moves between two queues, emptyZombies frees a queue's),
\* and also in the middle of a reset: the lists end, share no node and no
\* process, hold no node that has been freed, and no node is lost but those
\* that are counted.
THEOREM SpecNodesWellUsed == Spec => []NodesWellUsed
<1>1. Inv => NodesWellUsed
  <2> SUFFICES ASSUME Inv PROVE NodesWellUsed
    OBVIOUS
  <2>1. TypeOK /\ Holds(heap, Lists) /\ LostAreCounted
    BY DEF Inv
  <2>2. ASSUME NEW q \in Queue, Lists[q] # <<>> PROVE heap.next[Last(Lists[q])] = NULL
    <3>1. Len(Lists[q]) \in Nat /\ 1 <= Len(Lists[q])
      BY <2>1, <2>2, ListFacts
    <3>2. Len(Lists[q]) \in 1 .. Len(Lists[q])
      BY <3>1
    <3>. QED
      BY <2>1, <3>2 DEF Holds, Last
  <2>3. Apart(Lists) /\ Held(Lists) \subseteq heap.used
    BY <2>1 DEF Holds
  <2>4. Apart(Processes) /\ Held(Processes) \subseteq Proc
    BY InvFacts, HeldBy
  <2>. QED
    BY <2>1, <2>2, <2>3, <2>4 DEF NodesWellUsed, LostAreCounted
<1>. QED
  BY <1>1, SpecInv, PTL

-----------------------------------------------------------------------------
(***************************************************************************)
(* One sequence made of several.                                           *)
(***************************************************************************)

\* What FlattenSeq puts together: the first, the first two, the first three...
Firsts(ss) ==
    LET flatten[i \in 1 .. Len(ss)] == IF i = 1 THEN ss[i] ELSE flatten[i - 1] \o ss[i]
    IN  flatten

LEMMA FirstsAre ==
    ASSUME NEW S, NEW ss \in Seq(Seq(S)), ss # <<>>
    PROVE  /\ Len(ss) \in Nat \ {0} /\ \A i \in 1 .. Len(ss) : ss[i] \in Seq(S)
           /\ \A i \in 1 .. Len(ss) : Firsts(ss)[i] \in Seq(S)
           /\ Firsts(ss)[1] = ss[1]
           /\ \A i \in 1 .. Len(ss) : i # 1 => Firsts(ss)[i] = Firsts(ss)[i - 1] \o ss[i]
           /\ FlattenSeq(ss) = Firsts(ss)[Len(ss)]
<1> DEFINE N == Len(ss)
           Step(f, i) == IF i = 1 THEN ss[i] ELSE f[i - 1] \o ss[i]
           first == CHOOSE f : f = [i \in 1 .. N |-> Step(f, i)]
           Z == Seq(S)
           G == [x \in (1 .. N) \X Z |-> x[2] \o ss[x[1]]]
<1>1. N \in Nat /\ N # 0 /\ \A i \in 1 .. N : ss[i] \in Z
  BY EmptySeq, ElementOfSeq
<1>2. first = [i \in 1 .. N |-> Step(first, i)]
  <2>1. G \in [(1 .. N) \X Z -> Z]
    <3>1. ASSUME NEW x \in (1 .. N) \X Z PROVE x[2] \o ss[x[1]] \in Z
      <4>1. x[2] \in Seq(S) /\ ss[x[1]] \in Seq(S)
        BY <1>1
      <4>. QED
        BY <4>1, ConcatProperties
    <3>. QED
      BY <3>1
  <2>2. 1 \in 1 .. N
    BY <1>1
  <2>3. PICK f \in [1 .. N -> Z] : DefinedBy(f, N, ss[1], G)
    <3> HIDE DEF N, Z, G
    <3>. QED
      BY <1>1, <2>1, <2>2, RecursionExists
  <2>4. ASSUME NEW i \in 1 .. N PROVE f[i] = Step(f, i)
    <3>1. CASE i = 1
      BY <2>3, <3>1 DEF DefinedBy
    <3>2. CASE i # 1
      <4>1. i - 1 \in 1 .. N
        BY <1>1, <3>2
      <4>2. <<i, f[i - 1]>> \in (1 .. N) \X Z
        BY <2>3, <4>1
      <4>3. G[<<i, f[i - 1]>>] = f[i - 1] \o ss[i]
        BY <4>2
      <4>. QED
        BY <2>3, <3>2, <4>3 DEF DefinedBy
    <3>. QED
      BY <3>1, <3>2
  <2>5. f = [i \in 1 .. N |-> Step(f, i)]
    <3> HIDE DEF Step
    <3>. QED
      BY <2>3, <2>4
  <2>. QED
    BY <2>5, Zenon
<1>3. \A i \in 1 .. N : first[i] = Step(first, i)
  <2> HIDE DEF first, Step
  <2>. QED
    BY <1>2
<1>4. Firsts(ss) = first
  BY DEF Firsts
<1>5. FlattenSeq(ss) = first[N]
  BY <1>1 DEF FlattenSeq
<1> HIDE DEF first
<1> DEFINE T == {n \in Nat : n \in 1 .. N => first[n] \in Z}
<1>6. T \in SUBSET Nat /\ 0 \in T
  OBVIOUS
<1>7. ASSUME NEW n \in 0 .. N, n \in T, n < N PROVE n + 1 \in T
  <2> SUFFICES first[n + 1] \in Z
    BY <1>7
  <2>1. n + 1 \in 1 .. N /\ (n + 1) - 1 = n
    BY <1>1, <1>7
  <2>2. CASE n = 0
    BY <1>1, <1>3, <2>1, <2>2
  <2>3. CASE n # 0
    <3>1. first[n] \in Seq(S) /\ ss[n + 1] \in Seq(S)
      BY <1>1, <1>7, <2>1, <2>3
    <3>2. first[n + 1] = Step(first, n + 1)
      <4> HIDE DEF Step
      <4>. QED
        BY <1>3, <2>1
    <3>3. first[n + 1] = first[n] \o ss[n + 1]
      <4>1. n + 1 # 1
        BY <2>1, <2>3
      <4>. QED
        BY <3>2, <4>1, <2>1
    <3>. QED
      BY <3>1, <3>3, ConcatProperties
  <2>. QED
    BY <2>2, <2>3
<1>8. \A n \in 1 .. N : first[n] \in Z
  <2> HIDE DEF T
  <2>1. 0 .. N \subseteq T
    BY <1>1, <1>6, <1>7, UpTo
  <2>2. 1 .. N \subseteq 0 .. N
    BY <1>1
  <2>. QED
    BY <2>1, <2>2 DEF T
<1>9. first[1] = ss[1]
  BY <1>1, <1>3
<1>10. ASSUME NEW i \in 1 .. N, i # 1 PROVE first[i] = first[i - 1] \o ss[i]
  BY <1>3, <1>10
<1> HIDE DEF Step, T, G
<1>. QED
  BY <1>1, <1>4, <1>5, <1>8, <1>9, <1>10

\* Nobody gets lost.
LEMMA FirstsRange ==
    ASSUME NEW S, NEW ss \in Seq(Seq(S)), ss # <<>>, NEW k \in 1 .. Len(ss)
    PROVE  \A x : x \in Range(Firsts(ss)[k]) <=> \E i \in 1 .. k : x \in Range(ss[i])
<1> DEFINE N == Len(ss)
           first == Firsts(ss)
           T == {n \in Nat : n \in 1 .. N =>
                    \A x : x \in Range(first[n]) <=> \E i \in 1 .. n : x \in Range(ss[i])}
<1>1. /\ N \in Nat /\ \A i \in 1 .. N : ss[i] \in Seq(S) /\ first[i] \in Seq(S)
      /\ first[1] = ss[1]
      /\ \A i \in 1 .. N : i # 1 => first[i] = first[i - 1] \o ss[i]
  BY FirstsAre
<1> HIDE DEF first, N
<1>2. T \in SUBSET Nat /\ 0 \in T
  OBVIOUS
<1>3. ASSUME NEW n \in 0 .. N, n \in T, n < N PROVE n + 1 \in T
  <2> SUFFICES ASSUME NEW x
               PROVE  x \in Range(first[n + 1]) <=> \E i \in 1 .. n + 1 : x \in Range(ss[i])
    BY <1>3
  <2>1. n \in Nat /\ n + 1 \in 1 .. N /\ (n + 1) - 1 = n
    BY <1>1, <1>3
  <2>2. CASE n = 0
    <3>1. 1 .. n + 1 = {1} /\ n + 1 = 1
      BY <2>2
    <3>. QED
      BY <1>1, <3>1
  <2>3. CASE n # 0
    <3>1. n \in 1 .. N /\ 1 .. n + 1 = (1 .. n) \union {n + 1}
      BY <1>3, <2>1, <2>3
    <3>2. first[n + 1] = first[n] \o ss[n + 1]
      <4> DEFINE m == n + 1
      <4>1. m \in 1 .. N /\ m # 1 /\ m - 1 = n
        BY <2>1, <2>3
      <4> HIDE DEF m
      <4>2. first[m] = first[m - 1] \o ss[m]
        BY <1>1, <4>1
      <4>3. first[m] = first[n] \o ss[m]
        BY <4>1, <4>2
      <4>. QED
        BY <4>3 DEF m
    <3>3. Range(first[n + 1]) = Range(first[n]) \union Range(ss[n + 1])
      BY <1>1, <2>1, <3>1, <3>2, RangeConcatenation
    <3>4. x \in Range(first[n]) <=> \E i \in 1 .. n : x \in Range(ss[i])
      BY <1>3, <3>1
    <3>. QED
      BY <3>1, <3>3, <3>4
  <2>. QED
    BY <2>2, <2>3
<1>4. k \in T
  <2> HIDE DEF T
  <2>1. 0 .. N \subseteq T
    BY <1>1, <1>2, <1>3, UpTo
  <2>2. k \in 0 .. N
    BY <1>1 DEF N
  <2>. QED
    BY <2>1, <2>2
<1>. QED
  BY <1>4 DEF first, N

-----------------------------------------------------------------------------
(***************************************************************************)
(* The one sequence that the levels P of the array make.                   *)
(***************************************************************************)
LevelSeq(P) == [i \in 1 .. MaxPriority + 1 |-> P[i - 1]]
Flat(P)     == FlattenSeq(LevelSeq(P))
Upto(P)     == [i \in Levels |-> Firsts(LevelSeq(P))[i + 1]]

LEMMA UptoIs ==
    ASSUME NEW P \in [Queue -> Seq(Proc)]
    PROVE  /\ \A i \in Levels : Upto(P)[i] \in Seq(Proc) /\ P[i] \in Seq(Proc)
           /\ Upto(P)[0] = P[0]
           /\ \A i \in Levels : i # 0 => i - 1 \in Levels /\ Upto(P)[i] = Upto(P)[i - 1] \o P[i]
           /\ Flat(P) = Upto(P)[MaxPriority] /\ MaxPriority \in Levels
           /\ \A x : x \in Range(Flat(P)) <=> \E i \in Levels : x \in Range(P[i])
<1> DEFINE ss == LevelSeq(P)
           N == MaxPriority + 1
<1>1. \A i \in Levels : P[i] \in Seq(Proc) /\ i + 1 \in 1 .. N
  BY QueueIs DEF Levels
<1>2. /\ N \in Nat /\ N # 0 /\ MaxPriority \in Levels /\ 0 \in Levels /\ N - 1 = MaxPriority
      /\ \A i \in 1 .. N : i - 1 \in Levels
  BY QueueIs DEF Levels
<1>3. ss = [i \in 1 .. N |-> P[i - 1]]
  BY DEF LevelSeq
<1>4. ss \in Seq(Seq(Proc)) /\ ss # <<>> /\ Len(ss) = N
  <2>1. ss \in [1 .. N -> Seq(Proc)]
    BY <1>1, <1>2, <1>3
  <2>2. N \in Nat /\ N # 0
    BY <1>2
  <2> HIDE DEF ss, N
  <2>3. ss \in Seq(Seq(Proc)) /\ Len(ss) = N
    BY <2>1, <2>2
  <2>. QED
    BY <2>2, <2>3
<1>5. \A i \in Levels : ss[i + 1] = P[i]
  <2>1. ASSUME NEW i \in Levels PROVE ss[i + 1] = P[i]
    <3>1. i + 1 \in 1 .. N /\ (i + 1) - 1 = i
      BY <1>1 DEF Levels
    <3>. QED
      BY <1>3, <3>1
  <2>. QED
    BY <2>1
<1> HIDE DEF ss, N
<1>6. /\ \A i \in 1 .. N : Firsts(ss)[i] \in Seq(Proc)
      /\ Firsts(ss)[1] = ss[1]
      /\ \A i \in 1 .. N : i # 1 => Firsts(ss)[i] = Firsts(ss)[i - 1] \o ss[i]
      /\ FlattenSeq(ss) = Firsts(ss)[N]
  BY <1>4, FirstsAre
<1>7. \A i \in Levels : Upto(P)[i] = Firsts(ss)[i + 1]
  BY DEF Upto, ss
<1>8. Upto(P)[0] = P[0]
  BY <1>2, <1>5, <1>6, <1>7
<1>9. ASSUME NEW i \in Levels, i # 0
      PROVE  i - 1 \in Levels /\ Upto(P)[i] = Upto(P)[i - 1] \o P[i]
  <2>1. i - 1 \in Levels /\ (i - 1) + 1 = i
    BY <1>9, QueueIs DEF Levels
  <2> DEFINE m == i + 1
  <2>2. m \in 1 .. N /\ m # 1 /\ m - 1 = i
    BY <1>1, <1>9 DEF Levels
  <2>3. Upto(P)[i] = Firsts(ss)[m] /\ ss[m] = P[i]
    BY <1>5, <1>7
  <2> HIDE DEF m
  <2>4. Firsts(ss)[m] = Firsts(ss)[m - 1] \o ss[m]
    BY <1>6, <2>2
  <2>5. Upto(P)[i - 1] = Firsts(ss)[i]
    BY <1>7, <2>1
  <2>. QED
    BY <2>1, <2>2, <2>3, <2>4, <2>5
<1>10. Flat(P) = Firsts(ss)[N] /\ Flat(P) = Upto(P)[MaxPriority]
  BY <1>2, <1>6, <1>7 DEF Flat, ss, N
<1>11. \A x : x \in Range(Flat(P)) <=> \E i \in Levels : x \in Range(P[i])
  <2>1. N \in 1 .. Len(ss)
    BY <1>2, <1>4
  <2>2. \A x : x \in Range(Flat(P)) <=> \E i \in 1 .. N : x \in Range(ss[i])
    BY <1>4, <1>10, <2>1, FirstsRange
  <2>3. ASSUME NEW i \in 1 .. N PROVE i - 1 \in Levels /\ ss[i] = P[i - 1]
    BY <1>2, <1>3
  <2>4. ASSUME NEW x, NEW i \in Levels, x \in Range(P[i])
        PROVE  \E j \in 1 .. N : x \in Range(ss[j])
    <3>1. i + 1 \in 1 .. N /\ ss[i + 1] = P[i]
      BY <1>1, <1>5
    <3>. QED
      BY <2>4, <3>1
  <2>5. ASSUME NEW x, NEW j \in 1 .. N, x \in Range(ss[j])
        PROVE  \E i \in Levels : x \in Range(P[i])
    <3>1. j - 1 \in Levels /\ x \in Range(P[j - 1])
      BY <2>3, <2>5
    <3>. QED
      BY <3>1
  <2>. QED
    BY <2>2, <2>4, <2>5
<1>12. \A i \in Levels : Upto(P)[i] \in Seq(Proc)
  BY <1>1, <1>6, <1>7
<1>. QED
  BY <1>1, <1>2, <1>8, <1>9, <1>10, <1>11, <1>12

\* Only what is up to a level counts for it.
LEMMA UptoSame ==
    ASSUME NEW P \in [Queue -> Seq(Proc)], NEW Q \in [Queue -> Seq(Proc)], NEW k \in Levels,
           \A j \in Levels : j <= k => Q[j] = P[j]
    PROVE  Upto(Q)[k] = Upto(P)[k]
<1> DEFINE T == {n \in Nat : n \in 0 .. k => Upto(Q)[n] = Upto(P)[n]}
<1>1. k \in Nat /\ k <= MaxPriority /\ MaxPriority \in Nat /\ 0 \in Levels
  BY QueueIs DEF Levels
<1>2. T \in SUBSET Nat /\ 0 \in T
  <2>1. Upto(Q)[0] = Q[0] /\ Upto(P)[0] = P[0]
    BY UptoIs
  <2>2. Q[0] = P[0]
    BY <1>1
  <2>. QED
    BY <2>1, <2>2
<1>3. ASSUME NEW n \in 0 .. k, n \in T, n < k PROVE n + 1 \in T
  <2> DEFINE m == n + 1
  <2>1. m \in Levels /\ m # 0 /\ m - 1 = n /\ m <= k /\ m \in Nat
    BY <1>1, <1>3 DEF Levels
  <2>2. Upto(Q)[n] = Upto(P)[n]
    BY <1>3
  <2> HIDE DEF m
  <2>3. Upto(Q)[m] = Upto(Q)[n] \o Q[m] /\ Upto(P)[m] = Upto(P)[n] \o P[m]
    BY <2>1, UptoIs
  <2>4. Upto(Q)[m] = Upto(P)[m]
    BY <2>1, <2>2, <2>3
  <2>. QED
    BY <2>1, <2>4 DEF m
<1>4. k \in T
  <2> HIDE DEF T
  <2>1. 0 .. k \subseteq T
    BY <1>1, <1>2, <1>3, UpTo
  <2>. QED
    BY <1>1, <2>1
<1>. QED
  BY <1>1, <1>4

\* Levels that are empty add nothing.
LEMMA UptoEmpty ==
    ASSUME NEW Q \in [Queue -> Seq(Proc)], NEW k \in Levels,
           \A j \in Levels : 0 < j /\ j <= k => Q[j] = <<>>
    PROVE  Upto(Q)[k] = Q[0]
<1> DEFINE T == {n \in Nat : n \in 0 .. k => Upto(Q)[n] = Q[0]}
<1>1. k \in Nat /\ k <= MaxPriority /\ MaxPriority \in Nat /\ 0 \in Levels /\ Q[0] \in Seq(Proc)
  BY QueueIs DEF Levels
<1>2. T \in SUBSET Nat /\ 0 \in T
  BY UptoIs
<1>3. ASSUME NEW n \in 0 .. k, n \in T, n < k PROVE n + 1 \in T
  <2> DEFINE m == n + 1
  <2>1. m \in Levels /\ m # 0 /\ m - 1 = n /\ 0 < m /\ m <= k /\ m \in Nat
    BY <1>1, <1>3 DEF Levels
  <2>2. Upto(Q)[n] = Q[0]
    BY <1>3
  <2> HIDE DEF m
  <2>3. Upto(Q)[m] = Upto(Q)[n] \o Q[m] /\ Q[m] = <<>>
    BY <2>1, UptoIs
  <2>4. Upto(Q)[m] = Q[0]
    BY <1>1, <2>2, <2>3, ConcatEmptySeq
  <2>. QED
    BY <2>1, <2>4 DEF m
<1>4. k \in T
  <2> HIDE DEF T
  <2>1. 0 .. k \subseteq T
    BY <1>1, <1>2, <1>3, UpTo
  <2>. QED
    BY <1>1, <2>1
<1>. QED
  BY <1>1, <1>4

\* What the levels after k add does not depend on the others.
LEMMA After ==
    ASSUME NEW P \in [Queue -> Seq(Proc)], NEW k \in Levels
    PROVE  \E b \in Seq(Proc) :
              /\ \A x : x \in Range(b) <=> \E j \in Levels : k < j /\ x \in Range(P[j])
              /\ \A Q \in [Queue -> Seq(Proc)] :
                    (\A j \in Levels : k < j => Q[j] = P[j]) => Flat(Q) = Upto(Q)[k] \o b
<1> DEFINE Agree(Q) == \A j \in Levels : k < j => Q[j] = P[j]
           Adds(n, b) == /\ \A x : x \in Range(b) <=>
                               \E j \in Levels : k < j /\ j <= n /\ x \in Range(P[j])
                         /\ \A Q \in [Queue -> Seq(Proc)] :
                               Agree(Q) => Upto(Q)[n] = Upto(Q)[k] \o b
           T == {n \in Nat : n \in k .. MaxPriority => \E b \in Seq(Proc) : Adds(n, b)}
<1>1. k \in Nat /\ k <= MaxPriority /\ MaxPriority \in Nat
  BY QueueIs DEF Levels
<1>2. \E b \in Seq(Proc) : Adds(k, b)
  <2>1. <<>> \in Seq(Proc) /\ Range(<<>>) = {}
    BY EmptyQueue
  <2>2. ASSUME NEW j \in Levels, k < j, j <= k PROVE FALSE
    BY <1>1, <2>2 DEF Levels
  <2>3. ASSUME NEW Q \in [Queue -> Seq(Proc)] PROVE Upto(Q)[k] = Upto(Q)[k] \o <<>>
    <3>1. Upto(Q)[k] \in Seq(Proc)
      BY UptoIs
    <3>. QED
      BY <3>1, ConcatEmptySeq
  <2>4. Adds(k, <<>>)
    <3> HIDE DEF Agree
    <3>. QED
      BY <2>1, <2>2, <2>3
  <2>. QED
    BY <2>1, <2>4
<1>3. ASSUME NEW n \in k .. MaxPriority, n < MaxPriority, NEW b \in Seq(Proc), Adds(n, b)
      PROVE  \E c \in Seq(Proc) : Adds(n + 1, c)
  <2> DEFINE m == n + 1
  <2>1. /\ m \in Levels /\ m # 0 /\ m - 1 = n /\ n \in Levels /\ k < m /\ m \in Nat
        /\ \A j \in Levels : j <= m <=> j <= n \/ j = m
    BY <1>1, <1>3 DEF Levels
  <2> HIDE DEF m
  <2>2. P[m] \in Seq(Proc)
    BY <2>1, UptoIs
  <2>3. b \o P[m] \in Seq(Proc) /\ Range(b \o P[m]) = Range(b) \union Range(P[m])
    BY <2>2, ConcatProperties, RangeConcatenation
  <2>4. \A x : x \in Range(b) <=> \E j \in Levels : k < j /\ j <= n /\ x \in Range(P[j])
    BY <1>3
  <2>5. \A x : x \in Range(b \o P[m]) <=>
            \E j \in Levels : k < j /\ j <= m /\ x \in Range(P[j])
    BY <2>1, <2>3, <2>4
  <2>6. ASSUME NEW Q \in [Queue -> Seq(Proc)], Agree(Q)
        PROVE  Upto(Q)[m] = Upto(Q)[k] \o (b \o P[m])
    <3>1. Upto(Q)[m] = Upto(Q)[n] \o Q[m] /\ Upto(Q)[k] \in Seq(Proc)
      BY <2>1, UptoIs
    <3>2. Q[m] = P[m]
      BY <2>1, <2>6
    <3>3. Upto(Q)[n] = Upto(Q)[k] \o b
      <4> HIDE DEF Agree
      <4>. QED
        BY <1>3, <2>6
    <3>4. Upto(Q)[m] = (Upto(Q)[k] \o b) \o P[m]
      BY <3>1, <3>2, <3>3
    <3> DEFINE u == Upto(Q)[k]
               s == P[m]
    <3>5. u \in Seq(Proc) /\ s \in Seq(Proc)
      BY <2>2, <3>1
    <3> HIDE DEF u, s
    <3>6. (u \o b) \o s = u \o (b \o s)
      BY <3>5, ConcatAssociative, SMTT(20)
    <3>. QED
      BY <3>4, <3>6 DEF u, s
  <2>7. Adds(m, b \o P[m])
    <3> HIDE DEF Agree
    <3>. QED
      BY <2>5, <2>6
  <2> HIDE DEF Adds
  <2>. QED
    BY <2>3, <2>7 DEF m
<1>4. MaxPriority \in T
  <2> HIDE DEF Adds
  <2> DEFINE U == {i \in Nat : i + k \in T}
  <2>1. U \in SUBSET Nat /\ 0 \in U
    BY <1>1, <1>2
  <2>2. ASSUME NEW i \in 0 .. MaxPriority - k, i \in U, i < MaxPriority - k PROVE i + 1 \in U
    <3> DEFINE n == i + k
    <3>1. n \in k .. MaxPriority /\ n < MaxPriority /\ n \in T /\ (i + 1) + k = n + 1
          /\ n + 1 \in Nat
      BY <1>1, <2>2
    <3>2. PICK b \in Seq(Proc) : Adds(n, b)
      BY <3>1
    <3> HIDE DEF n
    <3>3. \E c \in Seq(Proc) : Adds(n + 1, c)
      BY <1>3, <3>1, <3>2
    <3>. QED
      BY <3>1, <3>3
  <2>3. MaxPriority - k \in Nat /\ (MaxPriority - k) + k = MaxPriority
    BY <1>1
  <2> HIDE DEF T
  <2>4. MaxPriority - k \in U
    <3> HIDE DEF U
    <3>1. 0 .. MaxPriority - k \subseteq U
      BY <2>1, <2>2, <2>3, UpTo
    <3>2. MaxPriority - k \in 0 .. MaxPriority - k
      BY <2>3
    <3>. QED
      BY <3>1, <3>2
  <2>. QED
    BY <2>3, <2>4
<1>5. PICK b \in Seq(Proc) : Adds(MaxPriority, b)
  <2>1. MaxPriority \in k .. MaxPriority
    BY <1>1
  <2> HIDE DEF Adds
  <2>. QED
    BY <1>4, <2>1
<1>6. \A x : x \in Range(b) <=> \E j \in Levels : k < j /\ x \in Range(P[j])
  <2>1. \A j \in Levels : j <= MaxPriority
    BY <1>1 DEF Levels
  <2>. QED
    BY <1>5, <2>1
<1>7. ASSUME NEW Q \in [Queue -> Seq(Proc)], Agree(Q) PROVE Flat(Q) = Upto(Q)[k] \o b
  <2>1. Flat(Q) = Upto(Q)[MaxPriority]
    BY UptoIs
  <2>. QED
    BY <1>5, <1>7, <2>1
<1>. QED
  BY <1>6, <1>7

\* Where the processes of one level are in the sequence.
LEMMA Around ==
    ASSUME NEW P \in [Queue -> Seq(Proc)], NEW k \in Levels
    PROVE  \E a \in Seq(Proc), b \in Seq(Proc) :
              /\ \A x : x \in Range(a) <=> \E j \in Levels : j < k /\ x \in Range(P[j])
              /\ \A x : x \in Range(b) <=> \E j \in Levels : k < j /\ x \in Range(P[j])
              /\ \A Q \in [Queue -> Seq(Proc)] :
                    (\A j \in Levels : j # k => Q[j] = P[j]) => Flat(Q) = (a \o Q[k]) \o b
<1> DEFINE none == [q \in Queue |-> IF q \in Levels /\ q < k THEN P[q] ELSE <<>>]
<1>1. k \in Nat /\ \A j \in Levels : j \in Nat
  BY DEF Levels
<1>2. PICK b \in Seq(Proc) :
          /\ \A x : x \in Range(b) <=> \E j \in Levels : k < j /\ x \in Range(P[j])
          /\ \A Q \in [Queue -> Seq(Proc)] :
                (\A j \in Levels : k < j => Q[j] = P[j]) => Flat(Q) = Upto(Q)[k] \o b
  BY After
<1>3. none \in [Queue -> Seq(Proc)] /\ \A j \in Levels : none[j] = IF j < k THEN P[j] ELSE <<>>
  <2>1. <<>> \in Seq(Proc) /\ Levels \subseteq Queue
    BY QueueIs
  <2>. QED
    BY <2>1
<1> HIDE DEF none
<1> DEFINE a == Flat(none)
<1>4. a \in Seq(Proc) /\ \A x : x \in Range(a) <=> \E j \in Levels : j < k /\ x \in Range(P[j])
  <2>1. a \in Seq(Proc) /\ \A x : x \in Range(a) <=> \E j \in Levels : x \in Range(none[j])
    BY <1>3, UptoIs
  <2>2. Range(<<>>) = {}
    BY EmptyQueue
  <2> HIDE DEF a
  <2>. QED
    BY <1>3, <2>1, <2>2
<1>5. ASSUME NEW Q \in [Queue -> Seq(Proc)], \A j \in Levels : j # k => Q[j] = P[j]
      PROVE  Flat(Q) = (a \o Q[k]) \o b
  <2>1. Flat(Q) = Upto(Q)[k] \o b
    <3>1. \A j \in Levels : k < j => Q[j] = P[j]
      BY <1>1, <1>5
    <3>. QED
      BY <1>2, <3>1
  <2>2. Upto(Q)[k] = a \o Q[k]
    <3>1. CASE k = 0
      <4>1. a = <<>>
        <5>1. ASSUME NEW j \in Levels PROVE none[j] = <<>>
          <6>1. ~(j < 0)
            BY <1>1
          <6>. QED
            BY <1>3, <3>1, <6>1
        <5>2. Upto(none)[MaxPriority] = none[0] /\ a = Upto(none)[MaxPriority]
          BY <1>3, <5>1, UptoIs, UptoEmpty
        <5>. QED
          BY <5>1, <5>2, QueueIs
      <4>2. Upto(Q)[k] = Q[k] /\ Q[k] \in Seq(Proc)
        BY <3>1, UptoIs
      <4> HIDE DEF a
      <4>. QED
        BY <4>1, <4>2, ConcatEmptySeq
    <3>2. CASE k # 0
      <4>1. k - 1 \in Levels /\ Upto(Q)[k] = Upto(Q)[k - 1] \o Q[k]
        BY <3>2, UptoIs
      <4>2. Upto(Q)[k - 1] = Upto(none)[k - 1]
        <5> DEFINE l == k - 1
        <5>1. l \in Levels /\ \A j \in Levels : j <= l => j < k /\ j # k
          BY <1>1, <4>1
        <5> HIDE DEF l
        <5>2. \A j \in Levels : j <= l => Q[j] = none[j]
          BY <1>3, <1>5, <5>1
        <5>3. Upto(Q)[l] = Upto(none)[l]
          BY <1>3, <5>1, <5>2, UptoSame
        <5>. QED
          BY <5>3 DEF l
      <4>3. a = Upto(none)[k - 1]
        <5> DEFINE l == k - 1
        <5>1. l \in Levels /\ \A j \in Levels : l < j => ~(j < k)
          BY <1>1, <4>1
        <5> HIDE DEF l
        <5>2. PICK c \in Seq(Proc) :
                  /\ \A x : x \in Range(c) <=> \E j \in Levels : l < j /\ x \in Range(none[j])
                  /\ Flat(none) = Upto(none)[l] \o c
          BY <1>3, <5>1, After
        <5>3. Range(c) = {}
          <6>1. \A j \in Levels : l < j => none[j] = <<>>
            BY <1>3, <5>1
          <6>2. Range(<<>>) = {}
            BY EmptyQueue
          <6>. QED
            BY <5>2, <6>1, <6>2
        <5>4. c = <<>> /\ Upto(none)[l] \in Seq(Proc)
          BY <1>3, <5>1, <5>3, UptoIs, EmptyQueue
        <5>5. Flat(none) = Upto(none)[l]
          BY <5>2, <5>4, ConcatEmptySeq
        <5>. QED
          BY <5>5 DEF l
      <4>. QED
        BY <4>1, <4>2, <4>3
    <3>. QED
      BY <3>1, <3>2
  <2>. QED
    BY <2>1, <2>2
<1> HIDE DEF a
<1>. QED
  BY <1>2, <1>4, <1>5

\* The operators of the abstract queue are those of module ReadyQueue.
LEMMA AbstractOps ==
    /\ \A s, f, p : Abstract!PEnqueue(s, f, p) = PEnqueue(s, f, p)
    /\ \A s : Abstract!PDequeue(s, Idle) = PDequeue(s, Idle) /\ Abstract!PRest(s) = PRest(s)
    /\ \A s : Abstract!Range(s) = Range(s)
<1>1. \A s, f, p : Abstract!PEnqueue(s, f, p) = PEnqueue(s, f, p)
  BY DEF Abstract!PEnqueue, Abstract!EnqueueAll, Abstract!Rank, Abstract!Cardinality,
         PEnqueue, EnqueueAll, Rank, Cardinality
<1>2. \A s : Abstract!PDequeue(s, Idle) = PDequeue(s, Idle) /\ Abstract!PRest(s) = PRest(s)
  BY DEF Abstract!PDequeue, Abstract!PRest, PDequeue, PRest
<1>3. \A s : Abstract!Range(s) = Range(s)
  BY DEF Abstract!Range, Range
<1>. QED
  BY <1>1, <1>2, <1>3

LEMMA OneByOne ==
    ASSUME NEW S, NEW s \in Seq(S)
    PROVE  /\ \A p \in S : <<p>> \in Seq(S) /\ Append(s, p) = s \o <<p>>
           /\ s # <<>> => /\ Head(s) \in S /\ Tail(s) \in Seq(S)
                          /\ s = <<Head(s)>> \o Tail(s)
<1>1. ASSUME NEW p \in S PROVE <<p>> \in Seq(S) /\ Append(s, p) = s \o <<p>>
  OBVIOUS
<1>2. ASSUME s # <<>>
      PROVE  Head(s) \in S /\ Tail(s) \in Seq(S) /\ s = <<Head(s)>> \o Tail(s)
  <2>1. Head(s) \in S /\ Tail(s) \in Seq(S)
    BY <1>2, HeadTailProperties
  <2>2. s = <<Head(s)>> \o Tail(s)
    BY <1>2
  <2>. QED
    BY <2>1, <2>2
<1>. QED
  BY <1>1, <1>2

LEMMA HeadOfConcat ==
    ASSUME NEW S, NEW p \in S, NEW s \in Seq(S)
    PROVE  <<p>> \o s # <<>> /\ Head(<<p>> \o s) = p /\ Tail(<<p>> \o s) = s
<1>1. Head(<<p>> \o s) = p
  OBVIOUS
<1>2. <<p>> \o s # <<>>
  OBVIOUS
<1>3. Tail(<<p>> \o s) = s
  OBVIOUS
<1>. QED
  BY <1>1, <1>2, <1>3

LEMMA EnqueueAllAt ==
    ASSUME NEW S, NEW q \in Seq(S), NEW s \in Seq(S), NEW pr, NEW n, NEW k \in Nat
    PROVE  LET t == EnqueueAll(q, pr, n, s)
           IN  Rank(q, pr, n) = k =>
                 /\ t \in Seq(S)
                 /\ Len(t) = Len(q) + Len(s)
                 /\ \A i \in 1 .. Len(t) :
                       t[i] = IF i <= k THEN q[i]
                              ELSE IF i <= k + Len(s) THEN s[i - k] ELSE q[i - Len(s)]
<1> DEFINE t == EnqueueAll(q, pr, n, s)
           r == Rank(q, pr, n)
<1>1. /\ t \in Seq(S) /\ Len(t) = Len(q) + Len(s)
      /\ \A i \in 1 .. Len(t) : t[i] = IF i <= r THEN q[i]
                                       ELSE IF i <= r + Len(s) THEN s[i - r] ELSE q[i - Len(s)]
  BY EnqueueAllIndex
<1> HIDE DEF r, t
<1>2. r = k => /\ t \in Seq(S) /\ Len(t) = Len(q) + Len(s)
               /\ \A i \in 1 .. Len(t) : t[i] = IF i <= k THEN q[i]
                                                ELSE IF i <= k + Len(s) THEN s[i - k]
                                                ELSE q[i - Len(s)]
  BY <1>1
<1>. QED
  BY <1>2 DEF r, t

\* A process is enqueued behind all of c and before all of b.
LEMMA EnqueueBetween ==
    ASSUME NEW S, NEW c \in Seq(S), NEW b \in Seq(S), NEW t \in Seq(S), NEW pr, NEW n,
           \A x \in Range(c) : pr[x] <= n, \A x \in Range(b) : ~(pr[x] <= n)
    PROVE  EnqueueAll(c \o b, pr, n, t) = (c \o t) \o b
<1> DEFINE q == c \o b
           k == Len(c)
           u == EnqueueAll(q, pr, n, t)
           v == (c \o t) \o b
<1>1. /\ q \in Seq(S) /\ Len(c) \in Nat /\ Len(b) \in Nat /\ Len(t) \in Nat
      /\ Len(q) = Len(c) + Len(b)
      /\ \A i \in 1 .. Len(c) + Len(b) : q[i] = IF i <= Len(c) THEN c[i] ELSE b[i - Len(c)]
  BY ConcatProperties
<1>2. c \o t \in Seq(S) /\ Len(c \o t) = Len(c) + Len(t)
      /\ \A i \in 1 .. Len(c) + Len(t) : (c \o t)[i] = IF i <= Len(c) THEN c[i] ELSE t[i - Len(c)]
  BY ConcatProperties
<1>3. /\ \A i \in 1 .. Len(c) : c[i] \in Range(c)
      /\ \A i \in 1 .. Len(b) : b[i] \in Range(b)
  BY DEF Range
<1> HIDE DEF q
<1>4. {i \in 1 .. Len(q) : pr[q[i]] <= n} = 1 .. k
  <2>1. ASSUME NEW i \in 1 .. Len(q) PROVE pr[q[i]] <= n <=> i <= k
    <3>1. CASE i <= k
      <4>1. i \in 1 .. Len(c) /\ q[i] = c[i]
        BY <1>1, <3>1
      <4>. QED
        BY <1>3, <3>1, <4>1
    <3>2. CASE ~(i <= k)
      <4>1. i - k \in 1 .. Len(b) /\ q[i] = b[i - k]
        BY <1>1, <3>2
      <4>. QED
        BY <1>3, <3>2, <4>1
    <3>. QED
      BY <3>1, <3>2
  <2>. QED
    BY <1>1, <2>1
<1>5. Rank(q, pr, n) = k
  BY <1>1, <1>4, IndexSet DEF Rank
<1>6. /\ u \in Seq(S) /\ Len(u) = Len(q) + Len(t)
      /\ \A i \in 1 .. Len(u) :
            u[i] = IF i <= k THEN q[i] ELSE IF i <= k + Len(t) THEN t[i - k] ELSE q[i - Len(t)]
  <2> HIDE DEF k
  <2>1. q \in Seq(S) /\ k \in Nat
    BY <1>1 DEF k
  <2>2. u \in Seq(S) /\ Len(u) = Len(q) + Len(t)
    BY <1>5, <2>1, EnqueueAllAt
  <2>3. ASSUME NEW i \in 1 .. Len(u)
        PROVE  u[i] = IF i <= k THEN q[i]
                      ELSE IF i <= k + Len(t) THEN t[i - k] ELSE q[i - Len(t)]
    BY <1>5, <2>1, EnqueueAllAt
  <2>. QED
    BY <2>2, <2>3
<1> HIDE DEF u
<1> DEFINE w == c \o t
<1> HIDE DEF w
<1>7. /\ v \in Seq(S) /\ Len(v) = Len(c) + Len(t) + Len(b)
      /\ \A i \in 1 .. Len(c) + Len(t) + Len(b) :
            v[i] = IF i <= Len(c) + Len(t) THEN w[i] ELSE b[i - (Len(c) + Len(t))]
  <2>1. w \in Seq(S) /\ Len(w) = Len(c) + Len(t)
    BY <1>2 DEF w
  <2>2. /\ w \o b \in Seq(S) /\ Len(w \o b) = Len(w) + Len(b)
        /\ \A i \in 1 .. Len(w) + Len(b) :
              (w \o b)[i] = IF i <= Len(w) THEN w[i] ELSE b[i - Len(w)]
    <3>1. w \in Seq(S)
      BY <2>1
    <3>. QED
      BY <3>1, ConcatProperties
  <2>. QED
    BY <2>1, <2>2 DEF w
<1> HIDE DEF v
<1>8. ASSUME NEW i \in 1 .. Len(u) PROVE u[i] = v[i]
  <2>0. i \in 1 .. Len(c) + Len(t) + Len(b) /\ i \in Nat
    BY <1>1, <1>6
  <2>1. CASE i <= k
    <3>1. i \in 1 .. Len(c) + Len(b) /\ i \in 1 .. Len(c) + Len(t) /\ i <= Len(c) + Len(t)
      BY <1>1, <2>0, <2>1
    <3>2. u[i] = c[i]
      BY <1>1, <1>6, <2>1, <3>1
    <3>3. v[i] = c[i]
      BY <1>2, <1>7, <2>0, <2>1, <3>1 DEF w
    <3>. QED
      BY <3>2, <3>3
  <2>2. CASE ~(i <= k) /\ i <= k + Len(t)
    <3>1. u[i] = t[i - k]
      BY <1>6, <2>2
    <3>2. i \in 1 .. Len(c) + Len(t)
      BY <1>1, <2>0, <2>2
    <3>3. v[i] = t[i - k]
      BY <1>2, <1>7, <2>0, <2>2, <3>2 DEF w
    <3>. QED
      BY <3>1, <3>3
  <2>3. CASE ~(i <= k + Len(t))
    <3> DEFINE j == i - Len(t)
    <3>1. j \in 1 .. Len(c) + Len(b) /\ ~(j <= Len(c)) /\ ~(i <= k)
          /\ j - Len(c) = i - (Len(c) + Len(t))
      BY <1>1, <2>0, <2>3
    <3>2. u[i] = q[j]
      BY <1>6, <2>3, <3>1
    <3> HIDE DEF j
    <3>3. q[j] = b[j - Len(c)]
      BY <1>1, <3>1
    <3>4. v[i] = b[i - (Len(c) + Len(t))]
      BY <1>7, <2>0, <2>3
    <3>. QED
      BY <3>1, <3>2, <3>3, <3>4
  <2>. QED
    BY <1>1, <2>0, <2>1, <2>2, <2>3
<1>9. u = v
  <2>1. u \in Seq(S) /\ v \in Seq(S) /\ Len(u) = Len(v)
    BY <1>1, <1>6, <1>7
  <2>. QED
    BY <1>8, <2>1, SeqEqual
<1>. QED
  BY <1>9 DEF u, v, q

-----------------------------------------------------------------------------
(***************************************************************************)
(* What becomes of the sequence when the queues change.                    *)
(***************************************************************************)

\* The processes that wait elsewhere have no place in it.
LEMMA FlatSame ==
    ASSUME NEW P, NEW Q, \A j \in Levels : Q[j] = P[j]
    PROVE  Flat(Q) = Flat(P)
<1>1. ASSUME NEW i \in 1 .. MaxPriority + 1 PROVE Q[i - 1] = P[i - 1]
  <2>1. i - 1 \in Levels
    BY QueueIs DEF Levels
  <2>. QED
    BY <2>1
<1>2. LevelSeq(Q) = LevelSeq(P)
  BY <1>1 DEF LevelSeq
<1>. QED
  BY <1>2 DEF Flat

LEMMA FlatEmpty ==
    ASSUME NEW P \in [Queue -> Seq(Proc)], \A j \in Levels : P[j] = <<>>
    PROVE  Flat(P) = <<>>
BY QueueIs, UptoIs, UptoEmpty

\* p_enqueue at the end of a level is an enqueue behind its rank.
LEMMA FlatJoined ==
    ASSUME NEW P \in [Queue -> Seq(Proc)], NEW i \in Levels, NEW p \in Proc, NEW pr,
           \A j \in Levels : \A x \in Range(P[j]) : pr[x] = j, pr[p] = i
    PROVE  Flat(Joined(P, i, p)) = PEnqueue(Flat(P), pr, p)
<1> DEFINE Q == Joined(P, i, p)
           s == P[i]
<1>1. /\ s \in Seq(Proc) /\ <<p>> \in Seq(Proc) /\ Append(s, p) = s \o <<p>>
      /\ Append(s, p) \in Seq(Proc)
  <2>1. s \in Seq(Proc)
    BY UptoIs
  <2> HIDE DEF s
  <2>2. <<p>> \in Seq(Proc) /\ Append(s, p) = s \o <<p>>
    BY <2>1, OneByOne
  <2>3. Append(s, p) \in Seq(Proc)
    BY <2>1
  <2>. QED
    BY <2>1, <2>2, <2>3
<1>2. /\ Q \in [Queue -> Seq(Proc)] /\ Q[i] = Append(s, p)
      /\ \A j \in Levels : j # i => Q[j] = P[j]
  BY <1>1, QueueIs DEF Joined
<1>3. PICK a \in Seq(Proc), b \in Seq(Proc) :
          /\ \A x : x \in Range(a) <=> \E j \in Levels : j < i /\ x \in Range(P[j])
          /\ \A x : x \in Range(b) <=> \E j \in Levels : i < j /\ x \in Range(P[j])
          /\ \A R \in [Queue -> Seq(Proc)] :
                (\A j \in Levels : j # i => R[j] = P[j]) => Flat(R) = (a \o R[i]) \o b
  BY Around
<1> HIDE DEF Q, s
<1>4. Flat(P) = (a \o s) \o b
  BY <1>3 DEF s
<1>5. Flat(Q) = (a \o (s \o <<p>>)) \o b
  BY <1>1, <1>2, <1>3
<1>6. a \o (s \o <<p>>) = (a \o s) \o <<p>>
  BY <1>1, ConcatAssociative
<1>7. a \o s \in Seq(Proc) /\ Range(a \o s) = Range(a) \union Range(s)
  BY <1>1, ConcatProperties, RangeConcatenation
<1>8. i \in Int /\ \A j \in Levels : j \in Int
  BY DEF Levels
<1>9. ASSUME NEW x \in Range(a \o s) PROVE pr[x] <= i
  <2>1. PICK j \in Levels : (j < i \/ j = i) /\ x \in Range(P[j])
    BY <1>3, <1>7 DEF s
  <2>. QED
    BY <1>8, <2>1
<1>10. ASSUME NEW x \in Range(b) PROVE ~(pr[x] <= i)
  <2>1. PICK j \in Levels : i < j /\ x \in Range(P[j])
    BY <1>3
  <2>. QED
    BY <1>8, <2>1
<1>11. EnqueueAll((a \o s) \o b, pr, i, <<p>>) = ((a \o s) \o <<p>>) \o b
  <2> DEFINE c == a \o s
             t == <<p>>
  <2>1. c \in Seq(Proc) /\ t \in Seq(Proc)
    BY <1>1, <1>7
  <2>2. \A x \in Range(c) : pr[x] <= i
    BY <1>9
  <2>3. \A x \in Range(b) : ~(pr[x] <= i)
    BY <1>10
  <2> HIDE DEF c, t
  <2>4. EnqueueAll(c \o b, pr, i, t) = (c \o t) \o b
    BY <2>1, <2>2, <2>3, EnqueueBetween
  <2>. QED
    BY <2>4 DEF c, t
<1>12. PEnqueue(Flat(P), pr, p) = ((a \o s) \o <<p>>) \o b
  BY <1>4, <1>11 DEF PEnqueue
<1>. QED
  BY <1>5, <1>6, <1>12 DEF Q

\* p_dequeue at the first level that is not empty takes the first of all.
LEMMA FlatLeft ==
    ASSUME NEW P \in [Queue -> Seq(Proc)], NEW i \in Levels, P[i] # <<>>,
           \A j \in Levels : j < i => P[j] = <<>>
    PROVE  /\ Flat(P) # <<>> /\ Head(Flat(P)) = Head(P[i])
           /\ Flat(Left(P, i)) = Tail(Flat(P))
<1> DEFINE Q == Left(P, i)
           s == P[i]
           p == Head(s)
           t == Tail(s)
<1>1. s \in Seq(Proc) /\ p \in Proc /\ t \in Seq(Proc) /\ s = <<p>> \o t /\ <<p>> \in Seq(Proc)
  BY UptoIs, OneByOne
<1>2. /\ Q \in [Queue -> Seq(Proc)] /\ Q[i] = t
      /\ \A j \in Levels : j # i => Q[j] = P[j]
  BY <1>1, QueueIs DEF Left
<1>3. PICK a \in Seq(Proc), b \in Seq(Proc) :
          /\ \A x : x \in Range(a) <=> \E j \in Levels : j < i /\ x \in Range(P[j])
          /\ \A x : x \in Range(b) <=> \E j \in Levels : i < j /\ x \in Range(P[j])
          /\ \A R \in [Queue -> Seq(Proc)] :
                (\A j \in Levels : j # i => R[j] = P[j]) => Flat(R) = (a \o R[i]) \o b
  BY Around
<1>4. a = <<>>
  <2>1. Range(<<>>) = {}
    BY EmptyQueue
  <2>2. Range(a) = {}
    BY <1>3, <2>1
  <2>. QED
    BY <2>2, EmptyQueue
<1> HIDE DEF Q, s, p, t
<1>5. Flat(P) = (a \o s) \o b /\ Flat(Q) = (a \o t) \o b
  <2>1. Flat(P) = (a \o s) \o b
    BY <1>3 DEF s
  <2>2. Flat(Q) = (a \o t) \o b
    BY <1>2, <1>3
  <2>. QED
    BY <2>1, <2>2
<1>6. a \o s = s /\ a \o t = t
  BY <1>1, <1>4, ConcatEmptySeq
<1>7. (<<p>> \o t) \o b = <<p>> \o (t \o b) /\ t \o b \in Seq(Proc)
  BY <1>1, ConcatAssociative, ConcatProperties
<1> DEFINE r == t \o b
<1>8. Flat(P) = <<p>> \o r /\ Flat(Q) = r /\ r \in Seq(Proc)
  BY <1>1, <1>5, <1>6, <1>7
<1> HIDE DEF r
<1>9. Flat(P) # <<>> /\ Head(Flat(P)) = p /\ Tail(Flat(P)) = r
  BY <1>1, <1>8, HeadOfConcat
<1>. QED
  BY <1>8, <1>9 DEF Q, p, s

\* The head of a level that goes to the end of level 0 stays where it is, if
\* the levels between are empty.
LEMMA FlatMoved ==
    ASSUME NEW P \in [Queue -> Seq(Proc)], NEW k \in Levels, k # 0, P[k] # <<>>,
           \A j \in Levels : 0 < j /\ j < k => P[j] = <<>>
    PROVE  Flat(Joined(Left(P, k), 0, Head(P[k]))) = Flat(P)
<1> DEFINE s == P[k]
           p == Head(s)
           t == Tail(s)
           z == P[0]
           Q == Joined(Left(P, k), 0, p)
<1>1. /\ s \in Seq(Proc) /\ p \in Proc /\ t \in Seq(Proc) /\ s = <<p>> \o t
      /\ <<p>> \in Seq(Proc) /\ z \in Seq(Proc) /\ Append(z, p) = z \o <<p>>
      /\ Append(z, p) \in Seq(Proc)
  BY UptoIs, OneByOne, QueueIs
<1>2. /\ Q \in [Queue -> Seq(Proc)] /\ Q[k] = t /\ Q[0] = z \o <<p>>
      /\ \A j \in Levels : j # k /\ j # 0 => Q[j] = P[j]
  BY <1>1, QueueIs DEF Left, Joined
<1> HIDE DEF Q, s, p, t, z
<1>3. k \in Nat /\ \A j \in Levels : j \in Nat
  BY DEF Levels
<1>4. PICK b \in Seq(Proc) :
          \A R \in [Queue -> Seq(Proc)] :
             (\A j \in Levels : k < j => R[j] = P[j]) => Flat(R) = Upto(R)[k] \o b
  BY After
<1>5. ASSUME NEW R \in [Queue -> Seq(Proc)], \A j \in Levels : j # k /\ j # 0 => R[j] = P[j]
      PROVE  Flat(R) = (R[0] \o R[k]) \o b
  <2>1. \A j \in Levels : k < j => R[j] = P[j]
    BY <1>3, <1>5
  <2>2. Flat(R) = Upto(R)[k] \o b
    BY <1>4, <2>1
  <2>3. k - 1 \in Levels /\ Upto(R)[k] = Upto(R)[k - 1] \o R[k]
    BY UptoIs
  <2>4. Upto(R)[k - 1] = R[0]
    <3> DEFINE l == k - 1
    <3>1. l \in Levels /\ \A j \in Levels : j <= l => j < k /\ j # k
      BY <1>3, <2>3
    <3> HIDE DEF l
    <3>2. ASSUME NEW j \in Levels, 0 < j, j <= l PROVE R[j] = <<>>
      <4>1. j < k /\ j # k /\ j # 0
        BY <1>3, <3>1, <3>2
      <4>. QED
        BY <1>5, <3>2, <4>1
    <3>3. Upto(R)[l] = R[0]
      BY <3>1, <3>2, UptoEmpty
    <3>. QED
      BY <3>3 DEF l
  <2>. QED
    BY <2>2, <2>3, <2>4
<1>6. Flat(P) = (z \o s) \o b
  BY <1>5 DEF z, s
<1>7. Flat(Q) = ((z \o <<p>>) \o t) \o b
  BY <1>2, <1>5
<1>8. (z \o <<p>>) \o t = z \o s
  BY <1>1, ConcatAssociative
<1>. QED
  BY <1>6, <1>7, <1>8 DEF Q, p, s

-----------------------------------------------------------------------------
(***************************************************************************)
(* The array of lists implements the one sequence.                         *)
(***************************************************************************)

\* The priorities as the abstract queue has them: during a reset those of
\* the array are 0 already.
AbstractPr ==
    LET zeroed == IF level = -1 THEN {} ELSE Range(ReadyPcbs)
    IN  [p \in Proc |-> IF p \in zeroed THEN 0 ELSE priority[p]]

LEMMA ReadyPcbsIs == ReadyPcbs = Flat(Processes) /\ ReadyPcbs' = Flat(Processes')
<1>1. ASSUME NEW i \in 1 .. MaxPriority + 1
      PROVE  Processes[i - 1] = Pcbs(heap, i - 1) /\ Processes'[i - 1] = Pcbs(heap', i - 1)
  <2>1. i - 1 \in Queue
    BY QueueIs DEF Queue, Levels
  <2>. QED
    BY <2>1 DEF Processes
<1>2. [i \in 1 .. MaxPriority + 1 |-> Pcbs(heap, i - 1)] = LevelSeq(Processes)
  BY <1>1 DEF LevelSeq
<1>3. [i \in 1 .. MaxPriority + 1 |-> Pcbs(heap', i - 1)] = LevelSeq(Processes')
  BY <1>1 DEF LevelSeq
<1>. QED
  BY <1>2, <1>3 DEF ReadyPcbs, Flat

LEMMA AbstractFacts ==
    ASSUME Inv
    PROVE  /\ ReadyPcbs = Flat(Processes)
           /\ \A p : p \in Range(ReadyPcbs) <=> \E i \in Levels : p \in Range(Processes[i])
           /\ \A p : p \in Range(ReadyPcbs) => p \in Held(Processes)
           /\ level = -1 => AbstractPr = priority
           /\ level # -1 => AbstractPr = [p \in Proc |-> IF p \in Range(ReadyPcbs) THEN 0
                                                         ELSE priority[p]]
           /\ priority \in [Proc -> Levels] /\ out \in Proc \union {Idle, None}
<1>1. Processes \in [Queue -> Seq(Proc)]
  BY InvFacts
<1>2. ReadyPcbs = Flat(Processes)
  BY ReadyPcbsIs
<1>3. \A p : p \in Range(ReadyPcbs) <=> \E i \in Levels : p \in Range(Processes[i])
  BY <1>1, <1>2, UptoIs
<1>4. \A p : p \in Range(ReadyPcbs) => p \in Held(Processes)
  BY <1>3, InvFacts, QueueIs
<1>5. priority \in [Proc -> Levels] /\ out \in Proc \union {Idle, None}
  BY DEF Inv, TypeOK
<1>6. ASSUME level = -1 PROVE AbstractPr = priority
  BY <1>5, <1>6 DEF AbstractPr
<1>7. ASSUME level # -1
      PROVE  AbstractPr = [p \in Proc |-> IF p \in Range(ReadyPcbs) THEN 0 ELSE priority[p]]
  BY <1>7 DEF AbstractPr
<1>. QED
  BY <1>2, <1>3, <1>4, <1>5, <1>6, <1>7

LEMMA NextPr ==
    /\ Inv' /\ level' = -1 => AbstractPr' = priority'
    /\ level' # -1 => AbstractPr' = [p \in Proc |-> IF p \in Range(ReadyPcbs') THEN 0
                                                    ELSE priority'[p]]
<1>1. ASSUME Inv', level' = -1 PROVE AbstractPr' = priority'
  <2>1. priority' \in [Proc -> Levels]
    BY <1>1 DEF Inv, TypeOK
  <2>. QED
    BY <1>1, <2>1 DEF AbstractPr
<1>2. ASSUME level' # -1
      PROVE  AbstractPr' = [p \in Proc |-> IF p \in Range(ReadyPcbs') THEN 0 ELSE priority'[p]]
  BY <1>2 DEF AbstractPr
<1>. QED
  BY <1>1, <1>2

LEMMA AbstractInit == Init => Abstract!Init
<1> SUFFICES ASSUME Init PROVE Abstract!Init
  OBVIOUS
<1>1. Inv
  BY InvInit
<1>2. ASSUME NEW i \in Levels PROVE Processes[i] = <<>>
  <2>1. QIsEmpty(heap, i)
    BY QueueIs DEF Init, EmptyHeap, QIsEmpty
  <2>. QED
    BY <1>1, <2>1, InvFacts, QueueIs
<1>3. ReadyPcbs = <<>>
  BY <1>1, <1>2, InvFacts, FlatEmpty, ReadyPcbsIs
<1>4. AbstractPr = [p \in Proc |-> 0]
  <2>1. level = -1 /\ priority = [p \in Proc |-> 0]
    BY DEF Init
  <2>. QED
    BY <1>1, <2>1, AbstractFacts
<1>5. out = None
  BY DEF Init
<1>. QED
  BY <1>3, <1>4, <1>5 DEF Abstract!Init, AbstractPr

LEMMA AbstractEnqueue ==
    ASSUME Inv, Inv', level = -1, level' = -1, NEW p \in Proc, NEW i \in Levels,
           NEW P \in [Queue -> Seq(Proc)], \A j \in Levels : P[j] = Processes[j],
           Processes' = Joined(P, i, p), \A j \in Levels : p \notin Range(P[j]),
           priority' = [priority EXCEPT ![p] = i],
           out' = IF p = out THEN None ELSE out
    PROVE  Abstract!Enqueue(p)
<1>1. /\ AbstractPr = priority /\ AbstractPr' = priority' /\ priority \in [Proc -> Levels]
      /\ \A x : x \in Range(ReadyPcbs) <=> \E j \in Levels : x \in Range(Processes[j])
  BY AbstractFacts, NextPr
<1>2. priority'[p] = i /\ \A x \in Proc \ {p} : priority'[x] = priority[x]
  BY <1>1
<1>3. ReadyPcbs = Flat(P) /\ ReadyPcbs' = Flat(Joined(P, i, p))
  BY ReadyPcbsIs, FlatSame
<1>4. ASSUME NEW j \in Levels, NEW x \in Range(P[j]) PROVE priority'[x] = j
  <2>1. x \in Range(Processes[j]) /\ x # p
    BY <1>4
  <2>2. x \in Proc
    <3>1. P[j] \in Seq(Proc)
      BY UptoIs
    <3>. QED
      BY <3>1 DEF Range
  <2>3. priority[x] = j
    BY <2>1 DEF Inv, PriorityTellsLevel
  <2>. QED
    BY <1>2, <2>1, <2>2, <2>3
<1>5. ReadyPcbs' = PEnqueue(ReadyPcbs, priority', p)
  <2> DEFINE new == priority'
  <2>1. new[p] = i /\ \A j \in Levels : \A x \in Range(P[j]) : new[x] = j
    BY <1>2, <1>4
  <2> HIDE DEF new
  <2>2. Flat(Joined(P, i, p)) = PEnqueue(Flat(P), new, p)
    BY <2>1, FlatJoined
  <2>. QED
    BY <1>3, <2>2 DEF new
<1>6. p \in Range(ReadyPcbs') \ Range(ReadyPcbs)
  <2>1. p \notin Range(ReadyPcbs)
    BY <1>1
  <2>2. Range(Joined(P, i, p)[i]) = Range(P[i]) \union {p}
    <3>1. i \in Queue
      BY QueueIs
    <3>2. P[i] \in Seq(Proc) /\ Joined(P, i, p)[i] = Append(P[i], p)
      BY <3>1 DEF Joined
    <3>3. Range(Append(P[i], p)) = Range(P[i]) \union {p}
      BY <3>2, AppendOnce
    <3>. QED
      BY <3>2, <3>3
  <2>3. Processes' \in [Queue -> Seq(Proc)]
    <3>1. P[i] \in Seq(Proc)
      BY UptoIs
    <3>2. Append(P[i], p) \in Seq(Proc)
      BY <3>1
    <3>. QED
      BY <3>2 DEF Joined
  <2>4. p \in Range(ReadyPcbs')
    BY <2>2, <2>3, ReadyPcbsIs, UptoIs
  <2>. QED
    BY <2>1, <2>4
<1>7. \E n \in 0 .. MaxPriority : AbstractPr' = [AbstractPr EXCEPT ![p] = n]
  BY <1>1 DEF Levels
<1>8. /\ Abstract!PEnqueue(ReadyPcbs, AbstractPr', p) = ReadyPcbs'
      /\ Abstract!Range(ReadyPcbs) = Range(ReadyPcbs)
      /\ Abstract!Range(ReadyPcbs') = Range(ReadyPcbs')
  BY <1>1, <1>5, AbstractOps
<1>. QED
  BY <1>6, <1>7, <1>8 DEF Abstract!Enqueue, AbstractPr

LEMMA ReadyIsEnqueue ==
    ASSUME Inv, Ready
    PROVE  \E p \in Proc : Abstract!Enqueue(p)
<1>0. PICK p \in Proc : p = out
  BY DEF Ready
<1>1. Inv' /\ ~IsQueued(p) /\ \E i \in Levels : /\ priority' = [priority EXCEPT ![p] = i]
                                                /\ Processes' = Joined(Processes, i, p)
  BY <1>0, ReadyStep
<1>2. level = -1 /\ level' = -1 /\ out' = IF p = out THEN None ELSE out
  BY <1>0 DEF Ready
<1>3. Processes \in [Queue -> Seq(Proc)] /\ \A j \in Levels : p \notin Range(Processes[j])
  BY <1>1, InvFacts, QueueIs
<1>4. PICK i \in Levels : /\ priority' = [priority EXCEPT ![p] = i]
                          /\ Processes' = Joined(Processes, i, p)
  BY <1>1
<1> DEFINE P == Processes
<1>5. P \in [Queue -> Seq(Proc)] /\ Processes' = Joined(P, i, p)
      /\ \A j \in Levels : P[j] = Processes[j] /\ p \notin Range(P[j])
  BY <1>3, <1>4
<1> HIDE DEF P
<1>6. Abstract!Enqueue(p)
  BY <1>1, <1>2, <1>4, <1>5, AbstractEnqueue
<1>. QED
  BY <1>6

\* A process comes from a queue that is not a level.
LEMMA ComesIsEnqueue ==
    ASSUME Inv, Inv', NEW q \in Others, NEW p \in Proc, p \in Range(Processes[q]),
           Processes' = Joined(Left(Processes, q), priority[p], p),
           level = -1, UNCHANGED <<priority, level, out>>
    PROVE  Abstract!Enqueue(p)
<1>1. /\ Processes \in [Queue -> Seq(Proc)] /\ Apart(Processes)
      /\ \A x : x \in Held(Processes) <=> \E r \in Queue : x \in Range(Processes[r])
  BY InvFacts
<1>2. q \in Queue /\ q \notin Levels
  BY QueueIs
<1>3. p # out
  BY <1>1, <1>2 DEF Inv, OutIsNotQueued
<1>4. priority \in [Proc -> Levels] /\ priority[p] \in Levels
  BY DEF Inv, TypeOK
<1> DEFINE P == Left(Processes, q)
           i == priority[p]
<1>5. P \in [Queue -> Seq(Proc)]
  <2>1. Processes[q] \in Seq(Proc)
    BY <1>1, <1>2
  <2>2. Processes[q] # <<>>
    BY EmptyQueue
  <2>3. Tail(Processes[q]) \in Seq(Proc)
    BY <2>1, <2>2, HeadTailProperties
  <2>. QED
    BY <1>1, <2>3 DEF Left
<1>6. \A j \in Levels : P[j] = Processes[j]
  BY <1>1, <1>2, QueueIs DEF Left
<1>7. ASSUME NEW j \in Levels PROVE p \notin Range(P[j])
  <2>1. j \in Queue /\ j # q
    BY <1>2, QueueIs
  <2>2. Range(Processes[j]) \intersect Range(Processes[q]) = {}
    BY <1>1, <1>2, <2>1 DEF Apart
  <2>. QED
    BY <1>6, <2>2
<1>8. priority' = [priority EXCEPT ![p] = i]
  BY <1>4
<1>9. i \in Levels /\ Processes' = Joined(P, i, p) /\ out' = IF p = out THEN None ELSE out
  BY <1>3, <1>4
<1> HIDE DEF P, i
<1>. QED
  BY <1>5, <1>6, <1>7, <1>8, <1>9, AbstractEnqueue

LEMMA ResumeIsEnqueue ==
    ASSUME Inv, NEW q \in Others, Resume(q)
    PROVE  \E p \in Proc : Abstract!Enqueue(p)
<1>1. Inv' /\ level = -1 /\ UNCHANGED <<priority, level, out>>
  BY ResumeStep DEF Resume
<1>2. PICK p \in Proc : /\ p \in Range(Processes[q])
                        /\ Processes' = Joined(Left(Processes, q), priority[p], p)
  BY ResumeStep
<1>3. Abstract!Enqueue(p)
  BY <1>1, <1>2, ComesIsEnqueue
<1>. QED
  BY <1>3

LEMMA UnlockIsEnqueue ==
    ASSUME Inv, Unlock
    PROVE  \E p \in Proc : Abstract!Enqueue(p)
<1>1. Inv' /\ level = -1 /\ UNCHANGED <<priority, level, out>>
  BY UnlockStep DEF Unlock
<1>2. PICK p \in Proc : /\ p \in Range(Processes[Blocked])
                        /\ Processes' = Joined(Left(Processes, Blocked), priority[p], p)
  BY UnlockStep
<1>3. Abstract!Enqueue(p)
  BY <1>1, <1>2, QueueIs, ComesIsEnqueue
<1>. QED
  BY <1>3

\* A process joins a queue that is not a level.
LEMMA JoinsIsPutAway ==
    ASSUME Inv, Inv', NEW q \in Others, NEW p \in Proc, Processes' = Joined(Processes, q, p),
           level = -1, UNCHANGED <<priority, level>>, out' = IF p = out THEN None ELSE out
    PROVE  [Abstract!Next]_<<ReadyPcbs, AbstractPr, out>>
<1>1. \A j \in Levels : Processes'[j] = Processes[j]
  BY InvFacts, QueueIs DEF Joined
<1>2. ReadyPcbs' = ReadyPcbs
  BY <1>1, FlatSame, ReadyPcbsIs
<1>3. AbstractPr' = AbstractPr
  BY AbstractFacts, NextPr
<1>4. CASE p = out
  <2>1. out # None /\ out' = None
    BY <1>4, QueueIs
  <2>. QED
    BY <1>2, <1>3, <2>1 DEF Abstract!Next, Abstract!PutAway, AbstractPr
<1>5. CASE p # out
  BY <1>2, <1>3, <1>5
<1>. QED
  BY <1>4, <1>5

LEMMA AwaitIsPutAway ==
    ASSUME Inv, NEW p \in Proc, NEW q \in Others, Await(p, q)
    PROVE  [Abstract!Next]_<<ReadyPcbs, AbstractPr, out>>
<1>1. Inv' /\ Processes' = Joined(Processes, q, p)
  BY AwaitStep
<1>2. /\ level = -1 /\ UNCHANGED <<priority, level>>
      /\ out' = IF p = out THEN None ELSE out
  BY DEF Await
<1>. QED
  BY <1>1, <1>2, JoinsIsPutAway

LEMMA HaltIsPutAway ==
    ASSUME Inv, Halt
    PROVE  [Abstract!Next]_<<ReadyPcbs, AbstractPr, out>>
<1>1. Inv' /\ out \in Proc /\ out' = None /\ Processes' = Joined(Processes, Zombies, out)
  BY HaltStep
<1>2. level = -1 /\ UNCHANGED <<priority, level>>
  BY DEF Halt
<1>3. PICK p \in Proc : p = out
  BY <1>1
<1>4. Processes' = Joined(Processes, Zombies, p) /\ out' = IF p = out THEN None ELSE out
  BY <1>1, <1>3
<1>. QED
  BY <1>1, <1>2, <1>4, QueueIs, JoinsIsPutAway

LEMMA PutAwaySteps ==
    ASSUME Inv, ReadyIdle \/ LoseNode
    PROVE  Abstract!PutAway
<1>1. Inv' /\ Processes' = Processes
  BY ReadyIdleStep, LoseNodeStep
<1>2. /\ level = -1 /\ level' = -1 /\ priority' = priority
      /\ out # None /\ out' = None
  BY QueueIs DEF ReadyIdle, LoseNode
<1>3. ReadyPcbs' = ReadyPcbs
  BY <1>1, ReadyPcbsIs
<1>4. AbstractPr' = AbstractPr
  BY <1>1, <1>2, AbstractFacts, NextPr
<1>. QED
  BY <1>2, <1>3, <1>4 DEF Abstract!PutAway, AbstractPr

LEMMA P_DequeueIsDequeue ==
    ASSUME Inv, P_Dequeue
    PROVE  Abstract!Dequeue
<1>1. Inv' /\ level = -1 /\ level' = -1 /\ priority' = priority
  BY P_DequeueStep DEF P_Dequeue
<1>2. AbstractPr' = AbstractPr
  BY <1>1, AbstractFacts, NextPr
<1>3. out' = PDequeue(ReadyPcbs, Idle) /\ ReadyPcbs' = PRest(ReadyPcbs)
  <2>0. Processes \in [Queue -> Seq(Proc)]
    BY InvFacts
  <2>1. CASE \A i \in Levels : Processes[i] = <<>>
    <3>1. ReadyPcbs = <<>>
      BY <2>0, <2>1, FlatEmpty, ReadyPcbsIs
    <3>2. out' = Idle /\ Processes' = Processes
      BY <2>1, P_DequeueStep
    <3>3. ReadyPcbs' = ReadyPcbs
      BY <3>2, ReadyPcbsIs
    <3>. QED
      BY <3>1, <3>2, <3>3 DEF PDequeue, PRest
  <2>2. CASE ~(\A i \in Levels : Processes[i] = <<>>)
    <3>1. PICK i \in Levels : /\ Processes[i] # <<>>
                              /\ \A j \in Levels : j < i => Processes[j] = <<>>
                              /\ out' = Head(Processes[i]) /\ Processes' = Left(Processes, i)
      BY <2>2, P_DequeueStep
    <3> DEFINE P == Processes
    <3>2. /\ P \in [Queue -> Seq(Proc)] /\ P[i] # <<>>
          /\ \A j \in Levels : j < i => P[j] = <<>>
          /\ out' = Head(P[i]) /\ Processes' = Left(P, i) /\ ReadyPcbs = Flat(P)
      BY <2>0, <3>1, ReadyPcbsIs
    <3> HIDE DEF P
    <3>3. Flat(P) # <<>> /\ Head(Flat(P)) = Head(P[i]) /\ Flat(Left(P, i)) = Tail(Flat(P))
      BY <3>2, FlatLeft
    <3>4. ReadyPcbs' = Flat(Left(P, i))
      BY <3>2, ReadyPcbsIs
    <3>. QED
      BY <3>2, <3>3, <3>4 DEF PDequeue, PRest
  <2>. QED
    BY <2>1, <2>2
<1>4. out' = Abstract!PDequeue(ReadyPcbs, Idle) /\ ReadyPcbs' = Abstract!PRest(ReadyPcbs)
  BY <1>3, AbstractOps
<1>. QED
  BY <1>2, <1>4 DEF Abstract!Dequeue, AbstractPr

LEMMA ElsewhereIsQuiet ==
    ASSUME Inv, Signal \/ EmptyZombies \/ DestructBlocked
    PROVE  [Abstract!Next]_<<ReadyPcbs, AbstractPr, out>>
<1>1. Inv' /\ \A j \in Levels : Processes'[j] = Processes[j]
  BY SignalStep, EmptyZombiesStep, DestructBlockedStep
<1>2. level = -1 /\ level' = -1 /\ priority' = priority /\ out' = out
  BY DEF Signal, EmptyZombies, DestructBlocked
<1>3. ReadyPcbs' = ReadyPcbs
  BY <1>1, FlatSame, ReadyPcbsIs
<1>4. AbstractPr' = AbstractPr
  BY <1>1, <1>2, AbstractFacts, NextPr
<1>. QED
  BY <1>2, <1>3, <1>4

\* The reset starts, and for the sequence that is the reset.
LEMMA ResetPriorityIsReset ==
    ASSUME Inv, ResetPriority
    PROVE  Abstract!Reset
<1>1. ReadyPcbs' = ReadyPcbs /\ level = -1 /\ level' # -1 /\ priority' = priority /\ out' = out
  BY ResetPriorityStep, ReadyPcbsIs DEF ResetPriority
<1>2. /\ AbstractPr = priority /\ priority \in [Proc -> Levels]
      /\ AbstractPr' = [p \in Proc |-> IF p \in Range(ReadyPcbs) THEN 0 ELSE priority[p]]
  BY <1>1, AbstractFacts, NextPr
<1>3. AbstractPr' \in [Proc -> 0 .. MaxPriority]
  BY <1>2, QueueIs DEF Levels
<1>4. \A p \in Proc : \/ AbstractPr'[p] = 0
                      \/ AbstractPr'[p] = AbstractPr[p] /\ p \notin Range(ReadyPcbs)
  BY <1>2
<1>. QED
  BY <1>1, <1>3, <1>4, AbstractOps DEF Abstract!Reset, AbstractPr

\* While it goes on, nothing changes.
LEMMA MoveHeadIsQuiet ==
    ASSUME Inv, MoveHead
    PROVE  [Abstract!Next]_<<ReadyPcbs, AbstractPr, out>>
<1>1. /\ Inv' /\ level \in 1 .. MaxPriority /\ Processes[level] # <<>>
      /\ level' = level /\ out' = out
  BY MoveHeadStep DEF MoveHead
<1>2. PICK p \in Proc : /\ p = Head(Processes[level])
                        /\ priority' = [priority EXCEPT ![p] = 0]
                        /\ Processes' = Joined(Left(Processes, level), 0, p)
  BY MoveHeadStep
<1>3. level \in Levels /\ level # 0 /\ level # -1
      /\ \A j \in Levels : 0 < j /\ j < level => Processes[j] = <<>>
  BY <1>1, QueueIs DEF Levels, Inv, WalkedIsEmpty
<1>4. Processes \in [Queue -> Seq(Proc)]
  BY InvFacts
<1> DEFINE P == Processes
           k == level
<1>5. /\ P \in [Queue -> Seq(Proc)] /\ k \in Levels /\ k # 0 /\ P[k] # <<>>
      /\ \A j \in Levels : 0 < j /\ j < k => P[j] = <<>>
      /\ Processes' = Joined(Left(P, k), 0, Head(P[k])) /\ ReadyPcbs = Flat(P)
      /\ p = Head(P[k])
  BY <1>1, <1>2, <1>3, <1>4, ReadyPcbsIs
<1> HIDE DEF P, k
<1>6. Flat(Joined(Left(P, k), 0, Head(P[k]))) = Flat(P)
  BY <1>5, FlatMoved
<1>7. ReadyPcbs' = ReadyPcbs
  BY <1>5, <1>6, ReadyPcbsIs
<1>8. p \in Range(ReadyPcbs)
  <2>1. P[k] \in Seq(Proc)
    BY <1>5, UptoIs
  <2>2. p \in Range(P[k])
    BY <1>5, <2>1, TailOnce
  <2>. QED
    BY <1>5, <2>2, UptoIs
<1>9. /\ AbstractPr = [x \in Proc |-> IF x \in Range(ReadyPcbs) THEN 0 ELSE priority[x]]
      /\ AbstractPr' = [x \in Proc |-> IF x \in Range(ReadyPcbs) THEN 0 ELSE priority'[x]]
  BY <1>1, <1>3, <1>7, AbstractFacts, NextPr
<1>10. ASSUME NEW x \in Proc, x \notin Range(ReadyPcbs) PROVE priority'[x] = priority[x]
  <2>1. priority \in [Proc -> Levels]
    BY DEF Inv, TypeOK
  <2>. QED
    BY <1>2, <1>8, <1>10, <2>1
<1>11. AbstractPr' = AbstractPr
  BY <1>9, <1>10
<1>. QED
  BY <1>1, <1>7, <1>11

LEMMA NextLevelIsQuiet ==
    ASSUME Inv, NextLevel
    PROVE  [Abstract!Next]_<<ReadyPcbs, AbstractPr, out>>
<1>1. /\ ReadyPcbs' = ReadyPcbs /\ priority' = priority /\ out' = out
      /\ level # -1 /\ level' # -1
  BY NextLevelStep, ReadyPcbsIs DEF NextLevel, Levels
<1>2. AbstractPr' = AbstractPr
  BY <1>1, AbstractFacts, NextPr
<1>. QED
  BY <1>1, <1>2

\* At its end those that wait or run are reset, and the others have been.
LEMMA ResetDoneIsReset ==
    ASSUME Inv, ResetDone
    PROVE  Abstract!Reset
<1>1. /\ Inv' /\ ReadyPcbs' = ReadyPcbs /\ level = MaxPriority + 1 /\ level' = -1 /\ out' = out
      /\ level # -1
  BY ResetDoneStep, ReadyPcbsIs, QueueIs DEF ResetDone
<1>2. /\ AbstractPr = [p \in Proc |-> IF p \in Range(ReadyPcbs) THEN 0 ELSE priority[p]]
      /\ AbstractPr' = priority' /\ priority \in [Proc -> Levels]
      /\ \A p : p \in Range(ReadyPcbs) <=> \E i \in Levels : p \in Range(Processes[i])
  BY <1>1, AbstractFacts, NextPr
<1>3. priority' \in [Proc -> Levels]
  BY <1>1 DEF Inv, TypeOK
<1>4. \A p \in Proc : priority'[p] \in {0, priority[p]}
  BY ResetDoneIs
<1>5. ASSUME NEW p \in Proc, p \in Range(ReadyPcbs) PROVE priority[p] = 0
  <2>1. PICK i \in Levels : p \in Range(Processes[i])
    BY <1>2, <1>5
  <2>2. i = 0
    <3>1. CASE 0 < i
      <4>1. i < level
        BY <1>1, QueueIs DEF Levels
      <4>2. Processes[i] = <<>>
        BY <3>1, <4>1 DEF Inv, WalkedIsEmpty
      <4>. QED
        BY <2>1, <4>2, EmptyQueue
    <3>2. CASE ~(0 < i)
      BY <3>2 DEF Levels
    <3>. QED
      BY <3>1, <3>2
  <2>. QED
    BY <2>1, <2>2 DEF Inv, PriorityTellsLevel
<1>6. ASSUME NEW p \in Proc
      PROVE  \/ AbstractPr'[p] = 0
             \/ AbstractPr'[p] = AbstractPr[p] /\ p \notin Range(ReadyPcbs)
  <2>1. CASE p \in Range(ReadyPcbs)
    BY <1>2, <1>4, <1>5, <2>1
  <2>2. CASE p \notin Range(ReadyPcbs)
    BY <1>2, <1>4, <2>2
  <2>. QED
    BY <2>1, <2>2
<1>7. AbstractPr' \in [Proc -> 0 .. MaxPriority]
  BY <1>2, <1>3 DEF Levels
<1>. QED
  BY <1>1, <1>6, <1>7, AbstractOps DEF Abstract!Reset, AbstractPr

\* The array of queues hands the processes out in the order of the one
\* sequence that the kernel is modelled with: enqueuing at a level is an
\* enqueue behind the rank, dequeuing from the first level that is not empty
\* takes the head, and resetPriority, which moves everybody to level 0 one by
\* one, is one reset at which nobody changes place.
THEOREM SpecImplementsReadyQueue == Spec => ImplementsReadyQueue
<1>1. Init => Abstract!Init
  BY AbstractInit
<1>2. Inv /\ [Next]_vars => [Abstract!Next]_<<ReadyPcbs, AbstractPr, out>>
  <2> SUFFICES ASSUME Inv, [Next]_vars
               PROVE  [Abstract!Next]_<<ReadyPcbs, AbstractPr, out>>
    OBVIOUS
  <2>1. CASE Ready
    BY <2>1, ReadyIsEnqueue DEF Abstract!Next
  <2>2. ASSUME NEW p \in Proc, NEW q \in {Waiting, Blocked}, Await(p, q)
        PROVE  [Abstract!Next]_<<ReadyPcbs, AbstractPr, out>>
    BY <2>2, AwaitIsPutAway, QueueIs
  <2>3. CASE ReadyIdle \/ LoseNode
    BY <2>3, PutAwaySteps DEF Abstract!Next
  <2>4. CASE Halt
    BY <2>4, HaltIsPutAway
  <2>5. CASE P_Dequeue
    BY <2>5, P_DequeueIsDequeue DEF Abstract!Next
  <2>6. ASSUME NEW q \in {Waiting, Blocked}, Resume(q) PROVE Abstract!Next
    BY <2>6, ResumeIsEnqueue, QueueIs DEF Abstract!Next
  <2>7. CASE Unlock
    BY <2>7, UnlockIsEnqueue DEF Abstract!Next
  <2>8. CASE Signal \/ EmptyZombies \/ DestructBlocked
    BY <2>8, ElsewhereIsQuiet
  <2>9. CASE ResetPriority
    BY <2>9, ResetPriorityIsReset DEF Abstract!Next
  <2>10. CASE MoveHead
    BY <2>10, MoveHeadIsQuiet
  <2>11. CASE NextLevel
    BY <2>11, NextLevelIsQuiet
  <2>12. CASE ResetDone
    BY <2>12, ResetDoneIsReset DEF Abstract!Next
  <2>13. CASE UNCHANGED vars
    <3>1. Inv' /\ Processes' = Processes
      BY <2>13, InvStutter
    <3>2. ReadyPcbs' = ReadyPcbs
      BY <3>1, ReadyPcbsIs
    <3>3. AbstractPr' = AbstractPr
      BY <2>13, <3>2 DEF AbstractPr, vars
    <3>. QED
      BY <2>13, <3>2, <3>3 DEF vars
  <2>. QED
    BY <2>1, <2>2, <2>3, <2>4, <2>5, <2>6, <2>7, <2>8, <2>9, <2>10, <2>11,
       <2>12, <2>13
    DEF Next, ResetStep
<1>. QED
  BY <1>1, <1>2, SpecInv, PTL DEF Spec, ImplementsReadyQueue, Abstract!Spec, AbstractPr

\* Why the loop of resetPriority ends, although it adds to a queue of the
\* array that it walks over: it starts behind level 0, so that each turn
\* leaves the level that it is at one shorter, or goes on to the next.
THEOREM SpecResetShrinks ==
    Spec => [][/\ MoveHead => /\ level' = level /\ level # 0
                              /\ Len(Processes'[level]) = Len(Processes[level]) - 1
               /\ NextLevel => level' = level + 1]_vars
<1> DEFINE Shrink == /\ MoveHead => /\ level' = level /\ level # 0
                                    /\ Len(Processes'[level]) = Len(Processes[level]) - 1
                     /\ NextLevel => level' = level + 1
<1>1. Inv /\ [Next]_vars => [Shrink]_vars
  <2> SUFFICES ASSUME Inv PROVE Shrink
    OBVIOUS
  <2>1. ASSUME MoveHead
        PROVE  /\ level' = level /\ level # 0
               /\ Len(Processes'[level]) = Len(Processes[level]) - 1
    <3>1. level \in 1 .. MaxPriority /\ Processes[level] # <<>> /\ level' = level
      BY <2>1, MoveHeadStep DEF MoveHead
    <3>2. PICK p \in Proc : Processes' = Joined(Left(Processes, level), 0, p)
      BY <2>1, MoveHeadStep
    <3>3. Processes \in [Queue -> Seq(Proc)] /\ level \in Queue /\ level # 0 /\ 0 \in Queue
      BY <3>1, InvFacts, QueueIs DEF Queue, Levels
    <3>4. Processes'[level] = Tail(Processes[level])
      BY <3>2, <3>3 DEF Joined, Left
    <3>5. Processes[level] \in Seq(Proc)
      BY <3>3
    <3>6. Len(Tail(Processes[level])) = Len(Processes[level]) - 1
      BY <3>1, <3>5, HeadTailProperties
    <3>. QED
      BY <3>1, <3>3, <3>4, <3>6
  <2>2. NextLevel => level' = level + 1
    BY DEF NextLevel
  <2>. QED
    BY <2>1, <2>2
<1>. QED
  BY <1>1, SpecInv, PTL DEF Spec
=============================================================================
