----------------------------- MODULE DataProofs ------------------------------
(***************************************************************************)
(* What the operations on queues do to the processes in them: who is in,   *)
(* how often, and in which order of priority.  How the edges of the graph  *)
(* of a pair are counted.                                                  *)
(***************************************************************************)
EXTENDS Queues, ReadyQueue, DeadlockGraph, SequenceTheorems, FiniteSetTheorems, TLAPS

-----------------------------------------------------------------------------
(***************************************************************************)
(* p_enqueue puts the new processes in the middle of the queue.            *)
(***************************************************************************)

LEMMA IndexSet ==
    ASSUME NEW n \in Nat
    PROVE  IsFiniteSet(1 .. n) /\ Cardinality(1 .. n) = n
<1>1. 1 \in Int /\ n \in Int
  OBVIOUS
<1>2. IsFiniteSet(1 .. n) /\ Cardinality(1 .. n) = IF 1 > n THEN 0 ELSE n - 1 + 1
  BY <1>1, FS_Interval
<1>. QED
  BY <1>2

LEMMA RankBound ==
    ASSUME NEW S, NEW q \in Seq(S), NEW pr, NEW n
    PROVE  Rank(q, pr, n) \in 0 .. Len(q)
<1>1. Len(q) \in Nat
  BY LenProperties
<1>2. {i \in 1 .. Len(q) : pr[q[i]] <= n} \in SUBSET (1 .. Len(q))
  OBVIOUS
<1>3. /\ IsFiniteSet({i \in 1 .. Len(q) : pr[q[i]] <= n})
      /\ Cardinality({i \in 1 .. Len(q) : pr[q[i]] <= n}) <= Cardinality(1 .. Len(q))
  BY <1>1, <1>2, IndexSet, FS_Subset
<1>4. Cardinality({i \in 1 .. Len(q) : pr[q[i]] <= n}) \in Nat
  BY <1>3, FS_CardinalityType
<1>. QED
  BY <1>1, <1>3, <1>4, IndexSet DEF Rank

LEMMA EnqueueAllIndex ==
    ASSUME NEW S, NEW q \in Seq(S), NEW s \in Seq(S), NEW pr, NEW n
    PROVE  LET k == Rank(q, pr, n)
               t == EnqueueAll(q, pr, n, s)
           IN  /\ t \in Seq(S)
               /\ Len(t) = Len(q) + Len(s)
               /\ \A i \in 1 .. Len(t) :
                     t[i] = IF i <= k THEN q[i]
                            ELSE IF i <= k + Len(s) THEN s[i - k] ELSE q[i - Len(s)]
<1> DEFINE k == Rank(q, pr, n)
           a == SubSeq(q, 1, k)
           b == SubSeq(q, k + 1, Len(q))
           t == EnqueueAll(q, pr, n, s)
<1>1. Len(q) \in Nat /\ Len(s) \in Nat /\ \A i \in 1 .. Len(q) : q[i] \in S
  BY LenProperties, ElementOfSeq
<1>2. k \in 0 .. Len(q)
  BY RankBound
<1>3. t = (a \o s) \o b
  BY DEF EnqueueAll
<1> HIDE DEF k, t
<1>4. a \in Seq(S) /\ Len(a) = k /\ \A i \in 1 .. k : a[i] = q[i]
  <2>1. 1 \in Int /\ k \in Int /\ \A i \in 1 .. k : q[i] \in S
    BY <1>1, <1>2
  <2>2. /\ a \in Seq(S) /\ Len(a) = IF 1 <= k THEN k - 1 + 1 ELSE 0
        /\ \A i \in 1 .. k - 1 + 1 : a[i] = q[1 + i - 1]
    BY <2>1, SubSeqProperties
  <2>3. k - 1 + 1 = k /\ \A i \in 1 .. k : 1 + i - 1 = i
    BY <2>1
  <2>. QED
    BY <1>2, <2>2, <2>3
<1>5. b \in Seq(S) /\ Len(b) = Len(q) - k /\ \A i \in 1 .. Len(q) - k : b[i] = q[k + i]
  <2>1. k + 1 \in Int /\ Len(q) \in Int /\ \A i \in k + 1 .. Len(q) : q[i] \in S
    BY <1>1, <1>2
  <2>2. /\ b \in Seq(S) /\ Len(b) = IF k + 1 <= Len(q) THEN Len(q) - (k + 1) + 1 ELSE 0
        /\ \A i \in 1 .. Len(q) - (k + 1) + 1 : b[i] = q[k + 1 + i - 1]
    BY <2>1, SubSeqProperties
  <2> HIDE DEF b
  <2>3. Len(q) - (k + 1) + 1 = Len(q) - k /\ \A i \in 1 .. Len(q) - k : k + 1 + i - 1 = k + i
    BY <1>1, <1>2
  <2>4. Len(b) = Len(q) - k
    BY <1>1, <1>2, <2>2
  <2>5. \A i \in 1 .. Len(q) - k : b[i] = q[k + i]
    BY <2>2, <2>3
  <2>. QED
    BY <2>2, <2>4, <2>5
<1> HIDE DEF a, b
<1>6. /\ a \o s \in Seq(S) /\ Len(a \o s) = k + Len(s)
      /\ \A i \in 1 .. k + Len(s) : (a \o s)[i] = IF i <= k THEN a[i] ELSE s[i - k]
  BY <1>4, ConcatProperties
<1>7. /\ t \in Seq(S) /\ Len(t) = Len(a \o s) + Len(b)
      /\ \A i \in 1 .. Len(a \o s) + Len(b) :
            t[i] = IF i <= Len(a \o s) THEN (a \o s)[i] ELSE b[i - Len(a \o s)]
  <2> DEFINE c == a \o s
  <2>1. c \in Seq(S) /\ t = c \o b
    BY <1>3, <1>6
  <2> HIDE DEF c
  <2>2. /\ t \in Seq(S) /\ Len(t) = Len(c) + Len(b)
        /\ \A i \in 1 .. Len(c) + Len(b) :
              t[i] = IF i <= Len(c) THEN c[i] ELSE b[i - Len(c)]
    BY <1>5, <2>1, ConcatProperties
  <2>. QED
    BY <2>2 DEF c
<1>8. Len(t) = Len(q) + Len(s)
  BY <1>1, <1>2, <1>5, <1>6, <1>7
<1>9. ASSUME NEW i \in 1 .. Len(t)
      PROVE  t[i] = IF i <= k THEN q[i]
                    ELSE IF i <= k + Len(s) THEN s[i - k] ELSE q[i - Len(s)]
  <2>1. CASE i <= k
    <3>1. i \in 1 .. k /\ i \in 1 .. k + Len(s) /\ i \in 1 .. Len(a \o s) + Len(b)
      BY <1>1, <1>2, <1>6, <1>7, <2>1
    <3>2. t[i] = (a \o s)[i] /\ (a \o s)[i] = a[i] /\ a[i] = q[i]
      BY <1>4, <1>6, <1>7, <2>1, <3>1
    <3>. QED
      BY <2>1, <3>2
  <2>2. CASE ~(i <= k) /\ i <= k + Len(s)
    BY <1>1, <1>2, <1>6, <1>7, <1>8, <1>9, <2>2
  <2>3. CASE ~(i <= k) /\ ~(i <= k + Len(s))
    <3>1. t[i] = b[i - (k + Len(s))]
      BY <1>1, <1>2, <1>6, <1>7, <1>8, <1>9, <2>3
    <3>2. i - (k + Len(s)) \in 1 .. Len(q) - k /\ k + (i - (k + Len(s))) = i - Len(s)
      BY <1>1, <1>2, <1>8, <1>9, <2>3
    <3>. QED
      BY <1>5, <2>3, <3>1, <3>2
  <2>. QED
    BY <2>1, <2>2, <2>3
<1>10. /\ t \in Seq(S) /\ Len(t) = Len(q) + Len(s)
       /\ \A i \in 1 .. Len(t) :
             t[i] = IF i <= k THEN q[i]
                    ELSE IF i <= k + Len(s) THEN s[i - k] ELSE q[i - Len(s)]
  BY <1>7, <1>8, <1>9
<1>. QED
  BY <1>10, Zenon DEF k, t

\* The same, by the three parts of the new queue.
LEMMA EnqueueAllParts ==
    ASSUME NEW S, NEW q \in Seq(S), NEW s \in Seq(S), NEW pr, NEW n
    PROVE  /\ EnqueueAll(q, pr, n, s) \in Seq(S)
           /\ Len(EnqueueAll(q, pr, n, s)) = Len(q) + Len(s)
           /\ \A i \in 1 .. Len(EnqueueAll(q, pr, n, s)) :
                 \/ /\ i <= Rank(q, pr, n) /\ i \in 1 .. Len(q)
                    /\ EnqueueAll(q, pr, n, s)[i] = q[i]
                 \/ /\ i > Rank(q, pr, n) /\ i <= Rank(q, pr, n) + Len(s)
                    /\ i - Rank(q, pr, n) \in 1 .. Len(s)
                    /\ EnqueueAll(q, pr, n, s)[i] = s[i - Rank(q, pr, n)]
                 \/ /\ i > Rank(q, pr, n) + Len(s) /\ i - Len(s) > Rank(q, pr, n)
                    /\ i - Len(s) \in 1 .. Len(q)
                    /\ EnqueueAll(q, pr, n, s)[i] = q[i - Len(s)]
<1> DEFINE k == Rank(q, pr, n)
           t == EnqueueAll(q, pr, n, s)
           l == Len(s)
<1>1. /\ t \in Seq(S)
      /\ Len(t) = Len(q) + l
      /\ \A i \in 1 .. Len(t) : t[i] = IF i <= k THEN q[i]
                                       ELSE IF i <= k + l THEN s[i - k] ELSE q[i - l]
  BY EnqueueAllIndex
<1>2. k \in 0 .. Len(q) /\ Len(q) \in Nat /\ l \in Nat
  BY RankBound, LenProperties
<1> HIDE DEF k, t, l
<1>3. \A i \in 1 .. Len(t) :
         \/ i <= k /\ i \in 1 .. Len(q) /\ t[i] = q[i]
         \/ i > k /\ i <= k + l /\ i - k \in 1 .. l /\ t[i] = s[i - k]
         \/ i > k + l /\ i - l > k /\ i - l \in 1 .. Len(q) /\ t[i] = q[i - l]
  BY <1>1, <1>2
<1>. QED
  BY <1>1, <1>3, Zenon DEF k, t, l

-----------------------------------------------------------------------------
(***************************************************************************)
(* Who is in a queue, and that nobody is in it twice.                      *)
(***************************************************************************)

LEMMA EmptyQueue ==
    /\ Once(<<>>) /\ Range(<<>>) = {}
    /\ \A S : \A q \in Seq(S) : Range(q) = {} => q = <<>>
<1>1. ASSUME NEW S, NEW q \in Seq(S), Range(q) = {} PROVE q = <<>>
  <2>1. q # <<>> => 1 \in 1 .. Len(q)
    BY EmptySeq
  <2>2. Range(q) = {q[i] : i \in 1 .. Len(q)}
    BY RangeEquality
  <2>. QED
    BY <1>1, <2>1, <2>2
<1>. QED
  BY <1>1 DEF Once, Range

LEMMA OneInQueue == \A p : Once(<<p>>) /\ Range(<<p>>) = {p}
BY DEF Once, Range

LEMMA EnqueueAllOnce ==
    ASSUME NEW S, NEW q \in Seq(S), NEW s \in Seq(S), NEW pr, NEW n
    PROVE  LET t == EnqueueAll(q, pr, n, s)
           IN  /\ t \in Seq(S)
               /\ Range(t) = Range(q) \union Range(s)
               /\ Once(q) /\ Once(s) /\ Range(q) \intersect Range(s) = {} => Once(t)
<1> DEFINE k == Rank(q, pr, n)
           t == EnqueueAll(q, pr, n, s)
           l == Len(s)
<1>1. /\ t \in Seq(S)
      /\ Len(t) = Len(q) + l
      /\ \A i \in 1 .. Len(t) : t[i] = IF i <= k THEN q[i]
                                       ELSE IF i <= k + l THEN s[i - k] ELSE q[i - l]
  BY EnqueueAllIndex
<1>2. k \in 0 .. Len(q) /\ Len(q) \in Nat /\ l \in Nat
  BY RankBound, LenProperties
<1>3. /\ Range(q) = {q[i] : i \in 1 .. Len(q)} /\ Range(s) = {s[i] : i \in 1 .. l}
      /\ Range(t) = {t[i] : i \in 1 .. Len(t)}
  BY <1>1, RangeEquality
<1> HIDE DEF k, t, l
<1>4. \A i \in 1 .. Len(q) : q[i] \in Range(t)
  <2> SUFFICES ASSUME NEW i \in 1 .. Len(q) PROVE q[i] \in Range(t)
    OBVIOUS
  <2>1. CASE i <= k
    BY <1>1, <1>2, <1>3, <2>1
  <2>2. CASE i > k
    <3>1. i + l \in 1 .. Len(t) /\ ~(i + l <= k) /\ ~(i + l <= k + l) /\ (i + l) - l = i
      BY <1>1, <1>2, <2>2
    <3>. QED
      BY <1>1, <1>3, <3>1
  <2>. QED
    BY <1>2, <2>1, <2>2
<1>5. \A i \in 1 .. l : s[i] \in Range(t)
  <2> SUFFICES ASSUME NEW i \in 1 .. l PROVE s[i] \in Range(t)
    OBVIOUS
  <2>1. i + k \in 1 .. Len(t) /\ ~(i + k <= k) /\ i + k <= k + l /\ (i + k) - k = i
    BY <1>1, <1>2
  <2>. QED
    BY <1>1, <1>3, <2>1
<1>6. \A i \in 1 .. Len(t) :
         \/ i <= k /\ i \in 1 .. Len(q) /\ t[i] = q[i]
         \/ i > k /\ i <= k + l /\ i - k \in 1 .. l /\ t[i] = s[i - k]
         \/ i > k + l /\ i - l > k /\ i - l \in 1 .. Len(q) /\ t[i] = q[i - l]
  BY <1>1, <1>2
<1>7. Range(t) = Range(q) \union Range(s)
  BY <1>3, <1>4, <1>5, <1>6
<1>8. ASSUME Once(q), Once(s), Range(q) \intersect Range(s) = {} PROVE Once(t)
  <2> SUFFICES ASSUME NEW i \in 1 .. Len(t), NEW j \in 1 .. Len(t), t[i] = t[j]
               PROVE  i = j
    BY DEF Once
  <2>1. \A a \in 1 .. Len(q), b \in 1 .. l : q[a] # s[b]
    BY <1>3, <1>8
  <2>2. \A a, b \in 1 .. Len(q) : q[a] = q[b] => a = b
    BY <1>8 DEF Once
  <2>3. \A a, b \in 1 .. l : s[a] = s[b] => a = b
    BY <1>8 DEF Once, l
  <2>4. i \in Int /\ j \in Int
    OBVIOUS
  <2>5. CASE i <= k /\ i \in 1 .. Len(q) /\ t[i] = q[i]
    <3>1. \/ j <= k /\ j \in 1 .. Len(q) /\ t[j] = q[j]
          \/ j - l > k /\ j - l \in 1 .. Len(q) /\ t[j] = q[j - l]
      BY <1>6, <2>1, <2>5
    <3>2. i = j \/ (j - l > k /\ i = j - l)
      BY <2>2, <2>5, <3>1
    <3>. QED
      BY <1>2, <2>4, <2>5, <3>2
  <2>6. CASE i > k /\ i <= k + l /\ i - k \in 1 .. l /\ t[i] = s[i - k]
    <3>1. j > k /\ j <= k + l /\ j - k \in 1 .. l /\ t[j] = s[j - k]
      BY <1>6, <2>1, <2>6
    <3>2. i - k = j - k
      BY <2>3, <2>6, <3>1
    <3>. QED
      BY <1>2, <2>4, <3>2
  <2>7. CASE i > k + l /\ i - l > k /\ i - l \in 1 .. Len(q) /\ t[i] = q[i - l]
    <3>1. \/ j <= k /\ j \in 1 .. Len(q) /\ t[j] = q[j]
          \/ j - l > k /\ j - l \in 1 .. Len(q) /\ t[j] = q[j - l]
      BY <1>6, <2>1, <2>7
    <3>2. (j <= k /\ i - l = j) \/ i - l = j - l
      BY <2>2, <2>7, <3>1
    <3>. QED
      BY <1>2, <2>4, <2>7, <3>2
  <2>. QED
    BY <1>6, <2>5, <2>6, <2>7
<1>. QED
  BY <1>1, <1>7, <1>8 DEF t

LEMMA AppendOnce ==
    ASSUME NEW S, NEW q \in Seq(S), NEW p \in S
    PROVE  /\ Append(q, p) \in Seq(S)
           /\ Range(Append(q, p)) = Range(q) \union {p}
           /\ Once(q) /\ p \notin Range(q) => Once(Append(q, p))
<1> DEFINE t == Append(q, p)
<1>1. /\ t \in Seq(S) /\ Len(t) = Len(q) + 1 /\ t[Len(q) + 1] = p
      /\ \A i \in 1 .. Len(q) : t[i] = q[i]
  BY AppendProperties
<1>2. Len(q) \in Nat
  BY LenProperties
<1>3. Range(q) = {q[i] : i \in 1 .. Len(q)} /\ Range(t) = {t[i] : i \in 1 .. Len(t)}
  BY <1>1, RangeEquality
<1> HIDE DEF t
<1>4. 1 .. Len(t) = (1 .. Len(q)) \union {Len(q) + 1}
  BY <1>1, <1>2
<1>5. Range(t) = Range(q) \union {p}
  BY <1>1, <1>3, <1>4
<1>6. Once(q) /\ p \notin Range(q) => Once(t)
  BY <1>1, <1>2, <1>3, <1>4 DEF Once
<1>. QED
  BY <1>1, <1>5, <1>6 DEF t

LEMMA TailOnce ==
    ASSUME NEW S, NEW q \in Seq(S), q # <<>>
    PROVE  /\ Tail(q) \in Seq(S)
           /\ Head(q) \in Range(q)
           /\ Range(q) = Range(Tail(q)) \union {Head(q)}
           /\ Once(q) => Once(Tail(q)) /\ Range(Tail(q)) = Range(q) \ {Head(q)}
<1> DEFINE t == Tail(q)
<1>1. /\ t \in Seq(S) /\ Len(t) = Len(q) - 1
      /\ \A i \in 1 .. Len(t) : t[i] = q[i + 1]
  BY HeadTailProperties
<1>2. Len(q) \in Nat \ {0} /\ Head(q) = q[1]
  BY EmptySeq
<1>3. Range(q) = {q[i] : i \in 1 .. Len(q)} /\ Range(t) = {t[i] : i \in 1 .. Len(t)}
  BY <1>1, RangeEquality
<1> HIDE DEF t
<1>4. 1 .. Len(q) = {1} \union {i + 1 : i \in 1 .. Len(t)}
  <2>1. \A i \in 1 .. Len(q) : i = 1 \/ (i - 1 \in 1 .. Len(t) /\ i = (i - 1) + 1)
    BY <1>1, <1>2
  <2>2. \A i \in 1 .. Len(t) : i + 1 \in 1 .. Len(q)
    BY <1>1, <1>2
  <2>3. \A i \in 1 .. Len(q) : i # 1 => \E j \in 1 .. Len(t) : i = j + 1
    BY <2>1
  <2>4. 1 \in 1 .. Len(q)
    BY <1>2
  <2>. QED
    BY <2>2, <2>3, <2>4
<1>5. Range(q) = Range(t) \union {Head(q)}
  <2>1. \A i \in 1 .. Len(t) : t[i] = q[i + 1] /\ i + 1 \in 1 .. Len(q)
    BY <1>1, <1>4
  <2>2. \A x \in Range(q) : x = Head(q) \/ \E i \in 1 .. Len(t) : x = q[i + 1]
    BY <1>2, <1>3, <1>4
  <2>3. Head(q) \in Range(q)
    BY <1>2, <1>3, <1>4
  <2>. QED
    BY <1>3, <2>1, <2>2, <2>3
<1>6. ASSUME Once(q) PROVE Once(t) /\ Head(q) \notin Range(t)
  <2>1. \A i, j \in 1 .. Len(q) : q[i] = q[j] => i = j
    BY <1>6 DEF Once
  <2>2. \A i \in 1 .. Len(t) : i + 1 \in 1 .. Len(q) /\ i + 1 # 1 /\ t[i] = q[i + 1]
    BY <1>1, <1>2
  <2>3. 1 \in 1 .. Len(q)
    BY <1>2
  <2>4. Head(q) \notin Range(t)
    BY <1>2, <1>3, <2>1, <2>2, <2>3
  <2>5. \A i, j \in 1 .. Len(t) : t[i] = t[j] => i + 1 = j + 1
    BY <2>1, <2>2
  <2>. QED
    BY <2>4, <2>5 DEF Once
<1>. QED
  BY <1>1, <1>2, <1>3, <1>5, <1>6 DEF t

\* A queue where nobody is twice is as long as there are processes in it.
LEMMA OnceLength ==
    ASSUME NEW S, NEW q \in Seq(S), Once(q)
    PROVE  IsFiniteSet(Range(q)) /\ Len(q) = Cardinality(Range(q))
<1>1. Len(q) \in Nat /\ q \in [1 .. Len(q) -> S] /\ DOMAIN q = 1 .. Len(q)
  BY LenProperties
<1>2. Range(q) = {q[i] : i \in 1 .. Len(q)}
  BY RangeEquality
<1>3. q \in Bijection(1 .. Len(q), Range(q))
  <2>1. q \in [1 .. Len(q) -> Range(q)]
    BY <1>1, <1>2
  <2>2. \A y \in Range(q) : \E x \in 1 .. Len(q) : q[x] = y
    BY <1>2
  <2>3. \A a, b \in 1 .. Len(q) : q[a] = q[b] => a = b
    BY DEF Once
  <2>. QED
    BY <2>1, <2>2, <2>3 DEF Bijection, Injection, Surjection, IsInjective
<1>4. ExistsBijection(1 .. Len(q), Range(q))
  BY <1>3 DEF ExistsBijection
<1>. QED
  BY <1>1, <1>4, IndexSet, FS_Bijection

-----------------------------------------------------------------------------
(***************************************************************************)
(* Families of queues, when one of their queues changes.                   *)
(***************************************************************************)

LEMMA HeldBy ==
    ASSUME NEW D, NEW S, NEW qs \in [D -> Seq(S)]
    PROVE  /\ \A p : p \in Held(qs) <=> \E a \in D : p \in Range(qs[a])
           /\ Held(qs) \subseteq S
<1>1. \A a \in D : Range(qs[a]) \in SUBSET S
  BY RangeOfSeq
<1>. QED
  BY <1>1 DEF Held

\* A family of queues of S, one for each element of D, and what it becomes
\* when p joins the queue of a.
Family(qs, D, S) == qs \in [D -> Seq(S)]
Joined(qs, a, p) == [qs EXCEPT ![a] = Append(@, p)]

LEMMA JoinedQueue ==
    ASSUME NEW D, NEW S, NEW qs, Family(qs, D, S), NEW a \in D, NEW p \in S
    PROVE  \A b \in D : Range(Joined(qs, a, p)[b]) = IF b = a THEN Range(qs[a]) \union {p}
                                                     ELSE Range(qs[b])
<1> USE DEF Family
<1> DEFINE new == Joined(qs, a, p)
<1>1. /\ new[a] = Append(qs[a], p) /\ \A b \in D \ {a} : new[b] = qs[b]
      /\ DOMAIN new = D /\ DOMAIN qs = D
  BY DEF Joined
<1>2. /\ new[a] \in Seq(S)
      /\ Range(new[a]) = Range(qs[a]) \union {p}
  <2>1. qs[a] \in Seq(S)
    OBVIOUS
  <2>. QED
    BY <1>1, <2>1, AppendOnce
<1>. QED
  BY <1>1, <1>2

LEMMA HeldAppend ==
    ASSUME NEW D, NEW S, NEW qs, Family(qs, D, S), NEW a \in D, NEW p \in S
    PROVE  /\ Family(Joined(qs, a, p), D, S)
           /\ Held(Joined(qs, a, p)) = Held(qs) \union {p}
           /\ Apart(qs) /\ p \notin Held(qs) => Apart(Joined(qs, a, p))
<1> USE DEF Family
<1> DEFINE new == Joined(qs, a, p)
<1>1. /\ new[a] = Append(qs[a], p) /\ \A b \in D \ {a} : new[b] = qs[b]
      /\ DOMAIN new = D /\ DOMAIN qs = D
  BY DEF Joined
<1>2. /\ new[a] \in Seq(S)
      /\ Range(new[a]) = Range(qs[a]) \union {p}
      /\ Once(qs[a]) /\ p \notin Range(qs[a]) => Once(new[a])
  <2>1. qs[a] \in Seq(S)
    OBVIOUS
  <2>. QED
    BY <1>1, <2>1, AppendOnce
<1>3. new \in [D -> Seq(S)]
  BY <1>2 DEF Joined
<1> HIDE DEF new
<1>4. \A b \in D : Range(new[b]) = IF b = a THEN Range(qs[a]) \union {p} ELSE Range(qs[b])
  BY <1>1, <1>2
<1>5. Held(new) = Held(qs) \union {p}
  <2>1. \A x : x \in Held(new) <=> \E b \in D : x \in Range(new[b])
    BY <1>3, HeldBy
  <2>2. \A x : x \in Held(qs) <=> \E b \in D : x \in Range(qs[b])
    BY HeldBy
  <2>. QED
    BY <1>4, <2>1, <2>2
<1>6. ASSUME Apart(qs), p \notin Held(qs) PROVE Apart(new)
  <2>1. \A b \in D : p \notin Range(qs[b])
    BY <1>6, HeldBy
  <2>2. \A b \in D : Once(new[b])
    BY <1>1, <1>2, <1>6, <2>1 DEF Apart
  <2>3. \A b, c \in D : b # c => Range(qs[b]) \intersect Range(qs[c]) = {}
    BY <1>1, <1>6 DEF Apart
  <2>4. \A b, c \in D : b # c => Range(new[b]) \intersect Range(new[c]) = {}
    BY <1>4, <2>1, <2>3
  <2>. QED
    BY <1>1, <2>2, <2>4 DEF Apart
<1>. QED
  BY <1>3, <1>4, <1>5, <1>6 DEF new

LEMMA HeldTail ==
    ASSUME NEW D, NEW S, NEW qs \in [D -> Seq(S)], NEW a \in D, qs[a] # <<>>
    PROVE  LET new == [qs EXCEPT ![a] = Tail(@)]
           IN  /\ new \in [D -> Seq(S)]
               /\ Head(qs[a]) \in Range(qs[a]) /\ Head(qs[a]) \in Held(qs)
               /\ \A b \in D : Range(new[b]) \subseteq Range(qs[b])
               /\ Apart(qs) =>
                     /\ Apart(new)
                     /\ Range(new[a]) = Range(qs[a]) \ {Head(qs[a])}
                     /\ \A b \in D \ {a} : Range(new[b]) = Range(qs[b])
                     /\ Held(new) = Held(qs) \ {Head(qs[a])}
<1> DEFINE new == [qs EXCEPT ![a] = Tail(@)]
           h   == Head(qs[a])
<1>1. /\ new[a] = Tail(qs[a]) /\ \A b \in D \ {a} : new[b] = qs[b]
      /\ DOMAIN new = D /\ DOMAIN qs = D
  OBVIOUS
<1>2. /\ new[a] \in Seq(S) /\ h \in Range(qs[a])
      /\ Range(qs[a]) = Range(new[a]) \union {h}
      /\ Once(qs[a]) => Once(new[a]) /\ Range(new[a]) = Range(qs[a]) \ {h}
  <2>1. qs[a] \in Seq(S)
    OBVIOUS
  <2>. QED
    BY <1>1, <2>1, TailOnce
<1>3. new \in [D -> Seq(S)]
  BY <1>2
<1> HIDE DEF new, h
<1>4. h \in Held(qs) /\ \A b \in D : Range(new[b]) \subseteq Range(qs[b])
  BY <1>1, <1>2, HeldBy
<1>5. ASSUME Apart(qs)
      PROVE  /\ Apart(new) /\ Range(new[a]) = Range(qs[a]) \ {h}
             /\ \A b \in D \ {a} : Range(new[b]) = Range(qs[b])
             /\ Held(new) = Held(qs) \ {h}
  <2>1. /\ \A b \in D : Once(qs[b])
        /\ \A b, c \in D : b # c => Range(qs[b]) \intersect Range(qs[c]) = {}
    BY <1>1, <1>5 DEF Apart
  <2>2. Range(new[a]) = Range(qs[a]) \ {h} /\ \A b \in D : Once(new[b])
    BY <1>1, <1>2, <2>1
  <2>3. \A b \in D \ {a} : Range(new[b]) = Range(qs[b]) /\ h \notin Range(qs[b])
    BY <1>1, <1>2, <2>1
  <2>4. Held(new) = Held(qs) \ {h}
    <3>1. \A x : x \in Held(new) <=> \E b \in D : x \in Range(new[b])
      BY <1>3, HeldBy
    <3>2. \A x : x \in Held(qs) <=> \E b \in D : x \in Range(qs[b])
      BY HeldBy
    <3>. QED
      BY <2>2, <2>3, <3>1, <3>2
  <2>5. \A b, c \in D : b # c => Range(new[b]) \intersect Range(new[c]) = {}
    BY <1>4, <2>1
  <2>. QED
    BY <1>1, <2>2, <2>3, <2>4, <2>5 DEF Apart
<1>. QED
  BY <1>2, <1>3, <1>4, <1>5 DEF new, h

LEMMA HeldEmptied ==
    ASSUME NEW D, NEW S, NEW qs \in [D -> Seq(S)], NEW new,
           DOMAIN new = D, \A a \in D : new[a] \in {qs[a], <<>>}
    PROVE  /\ Held(new) \subseteq Held(qs)
           /\ \A a \in D : Range(new[a]) \subseteq Range(qs[a])
           /\ Apart(qs) => Apart(new)
<1>1. \A a \in D : Range(new[a]) \in {Range(qs[a]), {}} /\ (Once(qs[a]) => Once(new[a]))
  BY EmptyQueue
<1>. QED
  BY <1>1 DEF Held, Apart

-----------------------------------------------------------------------------
(***************************************************************************)
(* The order of priority.                                                  *)
(***************************************************************************)

\* In a sorted queue, the processes that leave before one enqueued at level n
\* are the first ones.
LEMMA RankOfSorted ==
    ASSUME NEW S, NEW q \in Seq(S), NEW pr \in [S -> Int], NEW n \in Int, SortedBy(q, pr)
    PROVE  \A i \in 1 .. Len(q) : pr[q[i]] <= n <=> i <= Rank(q, pr, n)
<1> DEFINE L == Len(q)
           T == {i \in 1 .. L : pr[q[i]] <= n}
           k == Rank(q, pr, n)
<1>1. L \in Nat /\ \A i \in 1 .. L : q[i] \in S
  BY LenProperties, ElementOfSeq
<1>2. k \in 0 .. L
  BY RankBound
<1>3. k = Cardinality(T)
  BY DEF Rank
<1>4. \A i, j \in 1 .. L : i < j => pr[q[i]] <= pr[q[j]]
  BY DEF SortedBy
<1>5. \A i \in 1 .. L : pr[q[i]] \in Int
  BY <1>1
<1> HIDE DEF L, k
<1>6. IsFiniteSet(1 .. L) /\ IsFiniteSet(T)
  <2>1. IsFiniteSet(1 .. L) /\ T \in SUBSET (1 .. L)
    BY <1>1, IndexSet
  <2>. QED
    BY <2>1, FS_Subset
<1>7. \A i \in T : 1 .. i \subseteq T
  BY <1>1, <1>4, <1>5
<1> HIDE DEF T
<1>8. T \subseteq 1 .. k
  <2> SUFFICES ASSUME NEW i \in T PROVE i <= k /\ i >= 1 /\ i \in Int
    BY <1>2
  <2>1. i \in Nat /\ i >= 1
    BY <1>1 DEF T
  <2>2. Cardinality(1 .. i) = i
    BY <2>1, IndexSet
  <2>3. Cardinality(1 .. i) <= Cardinality(T)
    BY <1>6, <1>7, FS_Subset
  <2>. QED
    BY <1>3, <2>1, <2>2, <2>3
<1>9. T = 1 .. k
  <2>1. k \in Nat
    BY <1>1, <1>2
  <2>2. IsFiniteSet(1 .. k) /\ Cardinality(1 .. k) = k
    BY <2>1, IndexSet
  <2>. QED
    BY <1>3, <1>8, <2>2, FS_Subset
<1>10. ASSUME NEW i \in 1 .. L PROVE pr[q[i]] <= n <=> i <= k
  <2>1. i \in T <=> i <= k
    BY <1>1, <1>2, <1>9
  <2>. QED
    BY <2>1 DEF T
<1>. QED
  BY <1>10 DEF L, k

\* p_enqueue keeps the queue sorted.
LEMMA EnqueueAllSorted ==
    ASSUME NEW S, NEW q \in Seq(S), NEW s \in Seq(S), NEW pr, NEW n
    PROVE  pr \in [S -> Int] /\ n \in Int /\ SortedBy(q, pr) /\ (\A p \in Range(s) : pr[p] = n)
               => SortedBy(EnqueueAll(q, pr, n, s), pr)
<1> DEFINE k == Rank(q, pr, n)
           t == EnqueueAll(q, pr, n, s)
           l == Len(s)
<1>1. /\ t \in Seq(S) /\ Len(t) = Len(q) + l
      /\ \A i \in 1 .. Len(t) :
            \/ /\ i <= k /\ i \in 1 .. Len(q)
               /\ t[i] = q[i]
            \/ /\ i > k /\ i <= k + l
               /\ i - k \in 1 .. l
               /\ t[i] = s[i - k]
            \/ /\ i > k + l /\ i - l > k
               /\ i - l \in 1 .. Len(q)
               /\ t[i] = q[i - l]
  BY EnqueueAllParts
<1> SUFFICES ASSUME pr \in [S -> Int], n \in Int, SortedBy(q, pr),
                    \A p \in Range(s) : pr[p] = n
             PROVE  SortedBy(t, pr)
  OBVIOUS
<1>2. k \in 0 .. Len(q) /\ Len(q) \in Nat /\ l \in Nat
  BY RankBound, LenProperties
<1>3. \A i \in 1 .. l : pr[s[i]] = n
  BY RangeEquality
<1>4. \A i \in 1 .. Len(q) : /\ pr[q[i]] \in Int
                             /\ pr[q[i]] <= n <=> i <= k
  BY RankOfSorted, ElementOfSeq
<1>5. \A i, j \in 1 .. Len(q) : i < j => pr[q[i]] <= pr[q[j]]
  BY DEF SortedBy
<1> HIDE DEF k, t, l
<1>6. \A i \in 1 .. Len(t) :
         \/ i <= k /\ i \in 1 .. Len(q) /\ t[i] = q[i]
         \/ i > k /\ i <= k + l /\ pr[t[i]] = n
         \/ i > k + l /\ i - l > k /\ i - l \in 1 .. Len(q) /\ t[i] = q[i - l]
  BY <1>1, <1>3
<1>7. ASSUME NEW i \in 1 .. Len(t), NEW j \in 1 .. Len(t), i < j
      PROVE  pr[t[i]] <= pr[t[j]]
  <2>1. CASE i <= k /\ i \in 1 .. Len(q) /\ t[i] = q[i]
    <3>1. pr[t[i]] <= n /\ pr[t[i]] \in Int
      BY <1>4, <2>1
    <3>2. CASE j <= k /\ j \in 1 .. Len(q) /\ t[j] = q[j]
      BY <1>5, <1>7, <2>1, <3>2
    <3>3. CASE j > k /\ j <= k + l /\ pr[t[j]] = n
      BY <3>1, <3>3
    <3>4. CASE j > k + l /\ j - l > k /\ j - l \in 1 .. Len(q) /\ t[j] = q[j - l]
      <4>1. ~(j - l <= k) /\ pr[t[j]] \in Int /\ ~(pr[t[j]] <= n)
        BY <1>2, <1>4, <3>4
      <4>. QED
        BY <3>1, <4>1
    <3>. QED
      BY <1>6, <3>2, <3>3, <3>4
  <2>2. CASE i > k /\ i <= k + l /\ pr[t[i]] = n
    <3>1. ~(j <= k)
      BY <1>2, <1>7, <2>2
    <3>2. CASE j > k /\ j <= k + l /\ pr[t[j]] = n
      BY <2>2, <3>2
    <3>3. CASE j > k + l /\ j - l > k /\ j - l \in 1 .. Len(q) /\ t[j] = q[j - l]
      <4>1. ~(j - l <= k) /\ pr[t[j]] \in Int /\ ~(pr[t[j]] <= n)
        BY <1>2, <1>4, <3>3
      <4>. QED
        BY <2>2, <4>1
    <3>. QED
      BY <1>6, <3>1, <3>2, <3>3
  <2>3. CASE i > k + l /\ i - l > k /\ i - l \in 1 .. Len(q) /\ t[i] = q[i - l]
    <3>1. ~(j <= k) /\ ~(j <= k + l)
      BY <1>2, <1>7, <2>3
    <3>2. j - l > k /\ j - l \in 1 .. Len(q) /\ t[j] = q[j - l]
      BY <1>6, <3>1
    <3>3. i - l < j - l
      BY <1>2, <1>7
    <3>. QED
      BY <1>5, <2>3, <3>2, <3>3
  <2>. QED
    BY <1>6, <2>1, <2>2, <2>3
<1>. QED
  BY <1>7 DEF SortedBy, t

LEMMA TailSorted ==
    ASSUME NEW S, NEW q \in Seq(S), NEW pr, q # <<>>, SortedBy(q, pr)
    PROVE  SortedBy(Tail(q), pr)
<1> DEFINE t == Tail(q)
<1>1. Len(t) = Len(q) - 1 /\ \A i \in 1 .. Len(t) : t[i] = q[i + 1]
  BY HeadTailProperties
<1>2. Len(q) \in Nat \ {0}
  BY EmptySeq
<1> HIDE DEF t
<1>3. \A i, j \in 1 .. Len(t) : i < j =>
         i + 1 \in 1 .. Len(q) /\ j + 1 \in 1 .. Len(q) /\ i + 1 < j + 1
  BY <1>1, <1>2
<1>4. SortedBy(t, pr)
  BY <1>1, <1>3 DEF SortedBy
<1>. QED
  BY <1>4 DEF t

\* Only the priorities of the processes in the queue matter.
LEMMA SortedAgrees ==
    ASSUME NEW S, NEW q \in Seq(S), NEW pr, NEW new, SortedBy(q, pr),
           \/ \A p \in Range(q) : new[p] = pr[p]
           \/ \A p \in Range(q) : new[p] = 0
    PROVE  SortedBy(q, new)
<1>1. \A i \in 1 .. Len(q) : q[i] \in Range(q)
  BY RangeEquality
<1>. QED
  BY <1>1 DEF SortedBy

-----------------------------------------------------------------------------
(***************************************************************************)
(* How often a process is in a queue, and in a family of queues.           *)
(***************************************************************************)

LEMMA OccursOnce ==
    ASSUME NEW S, NEW q \in Seq(S), NEW p, Once(q)
    PROVE  Cardinality({i \in 1 .. Len(q) : q[i] = p}) = IF p \in Range(q) THEN 1 ELSE 0
<1> DEFINE T == {i \in 1 .. Len(q) : q[i] = p}
<1>1. Range(q) = {q[i] : i \in 1 .. Len(q)}
  BY RangeEquality
<1>2. CASE p \in Range(q)
  <2>1. PICK i \in 1 .. Len(q) : q[i] = p
    BY <1>1, <1>2
  <2>2. T = {i}
    BY <2>1 DEF Once
  <2>. QED
    BY <1>2, <2>2, FS_Singleton
<1>3. CASE p \notin Range(q)
  <2>1. T = {}
    BY <1>1, <1>3
  <2>. QED
    BY <1>3, <2>1, FS_EmptySet
<1>. QED
  BY <1>2, <1>3

LEMMA OccursInOnce ==
    ASSUME NEW D, NEW S, NEW qs \in [D -> Seq(S)], NEW p, IsFiniteSet(S), Apart(qs)
    PROVE  Cardinality({e \in (DOMAIN qs) \X (1 .. Cardinality(S)) :
                            e[2] <= Len(qs[e[1]]) /\ qs[e[1]][e[2]] = p})
               = IF p \in Held(qs) THEN 1 ELSE 0
<1> DEFINE n == Cardinality(S)
           T == {e \in (DOMAIN qs) \X (1 .. n) : e[2] <= Len(qs[e[1]]) /\ qs[e[1]][e[2]] = p}
<1>1. DOMAIN qs = D /\ \A a \in D : qs[a] \in Seq(S)
  OBVIOUS
<1>2. /\ \A a \in D : Once(qs[a])
      /\ \A a, b \in D : a # b => Range(qs[a]) \intersect Range(qs[b]) = {}
  BY <1>1 DEF Apart
<1>3. \A a \in D : Range(qs[a]) = {qs[a][i] : i \in 1 .. Len(qs[a])}
  BY <1>1, RangeEquality
<1>4. \A a \in D : Len(qs[a]) \in Nat /\ Len(qs[a]) <= n
  <2> SUFFICES ASSUME NEW a \in D PROVE Len(qs[a]) \in Nat /\ Len(qs[a]) <= n
    OBVIOUS
  <2>1. Len(qs[a]) = Cardinality(Range(qs[a]))
    BY <1>1, <1>2, OnceLength
  <2>2. Range(qs[a]) \in SUBSET S
    BY <1>1, RangeOfSeq
  <2>. QED
    BY <1>1, <2>1, <2>2, FS_Subset, LenProperties
<1>5. n \in Nat
  BY FS_CardinalityType
<1>6. \A x : x \in Held(qs) <=> \E a \in D : x \in Range(qs[a])
  BY HeldBy
<1> HIDE DEF n
<1>7. \A e \in T : /\ e[1] \in D /\ e[2] \in 1 .. Len(qs[e[1]]) /\ qs[e[1]][e[2]] = p
                   /\ e = <<e[1], e[2]>>
  BY <1>1, <1>4, <1>5
<1>8. CASE p \in Held(qs)
  <2>1. PICK a \in D : p \in Range(qs[a])
    BY <1>6, <1>8
  <2>2. PICK i \in 1 .. Len(qs[a]) : qs[a][i] = p
    BY <1>3, <2>1
  <2>3. <<a, i>> \in T
    <3>1. i \in 1 .. n /\ i <= Len(qs[a])
      BY <1>4, <1>5, <2>2
    <3>. QED
      BY <1>1, <2>2, <3>1
  <2>4. \A e \in T : e = <<a, i>>
    <3> SUFFICES ASSUME NEW e \in T PROVE e[1] = a /\ e[2] = i
      BY <1>7
    <3>1. p \in Range(qs[e[1]])
      BY <1>3, <1>7
    <3>2. e[1] = a
      BY <1>2, <1>7, <2>1, <3>1
    <3>. QED
      BY <1>2, <1>7, <2>2, <3>2 DEF Once
  <2>5. T = {<<a, i>>}
    BY <2>3, <2>4
  <2> HIDE DEF T
  <2>6. Cardinality(T) = 1
    BY <2>5, FS_Singleton
  <2>. QED
    BY <1>8, <2>6 DEF T, n
<1>9. CASE p \notin Held(qs)
  <2>1. \A e \in T : p \in Range(qs[e[1]]) /\ e[1] \in D
    BY <1>3, <1>7
  <2>2. T = {}
    BY <1>6, <1>9, <2>1
  <2> HIDE DEF T
  <2>3. Cardinality(T) = 0
    BY <2>2, FS_EmptySet
  <2>. QED
    BY <1>9, <2>3 DEF T, n
<1>. QED
  BY <1>8, <1>9

\* A process is counted once in the queues of a family.
LEMMA HeldCount ==
    ASSUME NEW D, NEW S, NEW qs \in [D -> Seq(S)], IsFiniteSet(D), IsFiniteSet(S), Apart(qs)
    PROVE  Cardinality({e \in D \X S : e[2] \in Range(qs[e[1]])}) = Cardinality(Held(qs))
<1> DEFINE T == {e \in D \X S : e[2] \in Range(qs[e[1]])}
           f == [e \in T |-> e[2]]
<1>1. \A a, b \in D : a # b => Range(qs[a]) \intersect Range(qs[b]) = {}
  BY DEF Apart
<1>2. /\ \A x : x \in Held(qs) <=> \E a \in D : x \in Range(qs[a])
      /\ Held(qs) \subseteq S
  BY HeldBy
<1>3. IsFiniteSet(T)
  <2>1. IsFiniteSet(D \X S) /\ T \in SUBSET (D \X S)
    BY FS_Product
  <2>. QED
    BY <2>1, FS_Subset
<1>4. \A e \in T : e = <<e[1], e[2]>> /\ e[1] \in D /\ e[2] \in Range(qs[e[1]])
  OBVIOUS
<1>5. \A x \in Held(qs) : \E a \in D : <<a, x>> \in T
  BY <1>2
<1> HIDE DEF T
<1>6. \A e, g \in T : e[2] = g[2] => e = g
  <2> SUFFICES ASSUME NEW e \in T, NEW g \in T, e[2] = g[2] PROVE e[1] = g[1]
    BY <1>4
  <2>. QED
    BY <1>1, <1>4
<1>7. f \in [T -> Held(qs)]
  BY <1>2, <1>4
<1>8. \A x \in Held(qs) : \E e \in T : f[e] = x
  <2> SUFFICES ASSUME NEW x \in Held(qs) PROVE \E e \in T : f[e] = x
    OBVIOUS
  <2>1. PICK a \in D : <<a, x>> \in T
    BY <1>5
  <2>2. f[<<a, x>>] = x
    BY <2>1
  <2>. QED
    BY <2>1, <2>2
<1>9. \A e, g \in T : f[e] = f[g] => e = g
  BY <1>6
<1> HIDE DEF f
<1>10. f \in Bijection(T, Held(qs))
  BY <1>7, <1>8, <1>9 DEF Bijection, Injection, Surjection, IsInjective
<1>11. ExistsBijection(T, Held(qs))
  BY <1>10 DEF ExistsBijection
<1>12. Cardinality(Held(qs)) = Cardinality(T)
  BY <1>3, <1>11, FS_Bijection
<1>. QED
  BY <1>12 DEF T

-----------------------------------------------------------------------------
(***************************************************************************)
(* The graph of a pair.                                                    *)
(***************************************************************************)

\* A set of at most four elements, counted one by one.
LEMMA CountFour ==
    ASSUME NEW a, NEW b, NEW c, NEW d, NEW X \in SUBSET {a, b, c, d},
           a # b, a # c, a # d, b # c, b # d, c # d
    PROVE  LET one(x) == IF x \in X THEN 1 ELSE 0
           IN  Cardinality(X) = one(a) + one(b) + one(c) + one(d)
<1> DEFINE one(x) == IF x \in X THEN 1 ELSE 0
<1>1. ASSUME NEW Y, IsFiniteSet(Y), NEW x, x \notin Y
      PROVE  /\ IsFiniteSet(Y \union {x})
             /\ Cardinality((Y \union {x}) \intersect X) = Cardinality(Y \intersect X) + one(x)
             /\ Cardinality(Y \intersect X) \in Nat
  <2>1. IsFiniteSet(Y \union {x}) /\ IsFiniteSet(Y \intersect X)
    BY <1>1, FS_AddElement, FS_Intersection
  <2>2. Cardinality(Y \intersect X) \in Nat
    BY <2>1, FS_CardinalityType
  <2>3. CASE x \in X
    <3>1. (Y \union {x}) \intersect X = (Y \intersect X) \union {x} /\ x \notin Y \intersect X
      BY <1>1, <2>3
    <3>2. Cardinality((Y \intersect X) \union {x}) = Cardinality(Y \intersect X) + 1
      BY <2>1, <3>1, FS_AddElement
    <3>. QED
      BY <2>1, <2>2, <2>3, <3>1, <3>2
  <2>4. CASE x \notin X
    <3>1. (Y \union {x}) \intersect X = Y \intersect X
      BY <2>4
    <3>. QED
      BY <2>1, <2>2, <2>4, <3>1
  <2>. QED
    BY <2>3, <2>4
<1>2. IsFiniteSet({}) /\ {} \intersect X = {} /\ Cardinality({}) = 0
  BY FS_EmptySet
<1> DEFINE Y1 == {} \union {a}
           Y2 == Y1 \union {b}
           Y3 == Y2 \union {c}
           Y4 == Y3 \union {d}
<1> HIDE DEF one
<1>3. IsFiniteSet(Y1) /\ Cardinality(Y1 \intersect X) = one(a)
  <2>1. /\ IsFiniteSet({} \union {a}) /\ Cardinality({} \intersect X) \in Nat
        /\ Cardinality(({} \union {a}) \intersect X) = Cardinality({} \intersect X) + one(a)
    BY <1>1, <1>2
  <2>2. one(a) \in Nat
    BY DEF one
  <2>. QED
    BY <1>2, <2>1, <2>2
<1>4. IsFiniteSet(Y2) /\ Cardinality(Y2 \intersect X) = one(a) + one(b)
  <2>1. b \notin Y1
    OBVIOUS
  <2> HIDE DEF Y1
  <2>. QED
    BY <1>1, <1>3, <2>1
<1>5. IsFiniteSet(Y3) /\ Cardinality(Y3 \intersect X) = one(a) + one(b) + one(c)
  <2>1. c \notin Y2
    OBVIOUS
  <2> HIDE DEF Y2
  <2>. QED
    BY <1>1, <1>4, <2>1
<1>6. Cardinality(Y4 \intersect X) = one(a) + one(b) + one(c) + one(d)
  <2>1. d \notin Y3
    OBVIOUS
  <2> HIDE DEF Y3
  <2>. QED
    BY <1>1, <1>5, <2>1
<1>7. Y4 \intersect X = X
  OBVIOUS
<1> HIDE DEF Y4
<1>. QED
  BY <1>6, <1>7 DEF one

\* connectDLGraph adds up eight tests.
LEMMA EdgeCountIs ==
    ASSUME NEW pair, pair[1] # pair[2], NEW own, NEW blk
    PROVE  LET m1 == <<pair, "mutex_1">>
               m2 == <<pair, "mutex_2">>
               E(m, p) == (IF own[m] = p THEN 1 ELSE 0) + (IF p \in Range(blk[m]) THEN 1 ELSE 0)
           IN  EdgeCount(pair, own, blk) = E(m1, pair[1]) + E(m1, pair[2])
                                           + E(m2, pair[1]) + E(m2, pair[2])
<1> DEFINE m1 == <<pair, "mutex_1">>
           m2 == <<pair, "mutex_2">>
           p  == pair[1]
           q  == pair[2]
           O  == {e \in Candidates(pair) : own[e[1]] = e[2]}
           B  == {e \in Candidates(pair) : e[2] \in Range(blk[e[1]])}
           one(X, x) == IF x \in X THEN 1 ELSE 0
           sum(X) == one(X, <<m1, p>>) + one(X, <<m1, q>>) + one(X, <<m2, p>>)
                        + one(X, <<m2, q>>)
<1>1. p # q /\ m1 # m2
  OBVIOUS
<1>2. Candidates(pair) = {<<m1, p>>, <<m1, q>>, <<m2, p>>, <<m2, q>>}
  <2>1. Candidates(pair) = {m1, m2} \X {p, q}
    BY DEF Candidates, PairMutexes
  <2> HIDE DEF m1, m2, p, q
  <2>. QED
    BY <2>1
<1>3. \A m \in {m1, m2}, x \in {p, q} : /\ <<m, x>> \in O <=> own[m] = x
                                        /\ <<m, x>> \in B <=> x \in Range(blk[m])
  BY DEF Candidates, PairMutexes
<1>4. O \in SUBSET Candidates(pair) /\ B \in SUBSET Candidates(pair)
  OBVIOUS
<1>5. EdgeCount(pair, own, blk) = Cardinality(O) + Cardinality(B)
  BY DEF EdgeCount
<1> HIDE DEF m1, m2, p, q, O, B
<1>6. /\ <<m1, p>> # <<m1, q>> /\ <<m1, p>> # <<m2, p>> /\ <<m1, p>> # <<m2, q>>
      /\ <<m1, q>> # <<m2, p>> /\ <<m1, q>> # <<m2, q>> /\ <<m2, p>> # <<m2, q>>
  BY <1>1
<1>7. Cardinality(O) = sum(O) /\ Cardinality(B) = sum(B)
  <2> DEFINE a == <<m1, p>>
             b == <<m1, q>>
             c == <<m2, p>>
             d == <<m2, q>>
  <2>1. O \in SUBSET {a, b, c, d} /\ B \in SUBSET {a, b, c, d}
    BY <1>2, <1>4
  <2>2. a # b /\ a # c /\ a # d /\ b # c /\ b # d /\ c # d
    BY <1>6
  <2> HIDE DEF a, b, c, d
  <2>3. \A X \in SUBSET {a, b, c, d} :
            Cardinality(X) = one(X, a) + one(X, b) + one(X, c) + one(X, d)
    BY <2>2, CountFour
  <2>. QED
    BY <2>1, <2>3 DEF a, b, c, d
<1>8. EdgeCount(pair, own, blk) = sum(O) + sum(B)
  BY <1>5, <1>7
<1>9. \A m \in {m1, m2}, x \in {p, q} : /\ one(O, <<m, x>>) = IF own[m] = x THEN 1 ELSE 0
                                        /\ one(B, <<m, x>>) = IF x \in Range(blk[m]) THEN 1 ELSE 0
  BY <1>3
<1> HIDE DEF one
<1>10. EdgeCount(pair, own, blk) = one(O, <<m1, p>>) + one(O, <<m1, q>>) + one(O, <<m2, p>>)
          + one(O, <<m2, q>>) + one(B, <<m1, p>>) + one(B, <<m1, q>>) + one(B, <<m2, p>>)
          + one(B, <<m2, q>>)
  <2>1. \A X \in {O, B} : \A x : one(X, x) \in Int
    BY DEF one
  <2>. QED
    BY <1>8, <2>1
<1>. QED
  BY <1>9, <1>10 DEF m1, m2, p, q
=============================================================================
