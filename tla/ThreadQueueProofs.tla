-------------------------- MODULE ThreadQueueProofs --------------------------
(***************************************************************************)
(* The intrusive lists of the wait queues are lists: what they represent,  *)
(* and what inserting, clearing and taking off make of that, for every     *)
(* number of threads and queues.  A list to which items are only appended  *)
(* needs less: it is a set with a rank (Row), alarm queues too.            *)
(***************************************************************************)
EXTENDS ThreadQueue, FiniteSetTheorems, WellFoundedInduction, TLAPS

USE ThreadQueueAssumption

(* Every non-empty set of naturals has a least element. *)
LEMMA LeastNat ==
    ASSUME NEW T \in SUBSET Nat, T # {}
    PROVE  \E x \in T : \A y \in T : x =< y
<1>1. \E x \in T : \A y \in T : ~(<<y, x>> \in OpToRel(<, Nat))
  BY NatLessThanWellFounded, WFMin
<1>2. \A x, y \in Nat : ~(<<y, x>> \in OpToRel(<, Nat)) => x =< y
  BY DEF OpToRel
<1> QED BY <1>1, <1>2

-----------------------------------------------------------------------------
(* The lists of threads.  A and N say what the links of all the queues       *)
(* represent: the thread at place n of queue q, counted from 0, and null     *)
(* from the end on; and the lengths.                                         *)

\* Thread p sleeps where no queue leads to it.
Orphan(s, A, p) ==
    p \in Thread /\ s[p] = "Waiting" /\ \A q \in WaitQueue, n \in Nat : A[q][n] # p

\* The list of queue q: what follows what, and what led there.
Chain(l, s, N, A, q) ==
    /\ \A n \in Nat : A[q][n] # NoThread <=> n < N[q]
    /\ l.head[q] = A[q][0]
    /\ l.tail[q] = IF N[q] = 0 THEN NoThread ELSE A[q][N[q] - 1]
    /\ \A n \in Nat : n < N[q] => /\ l.next[A[q][n]] = A[q][n + 1]
                                  /\ s[A[q][n]] = "Waiting"
    /\ \A n \in Nat : n + 1 < N[q] => l.prev[A[q][n + 1]] = A[q][n]
    /\ l.prev[A[q][0]] # NoThread => N[q] = 0 \/ Orphan(s, A, l.prev[A[q][0]])

Apart(N, A) ==
    \A q, r \in WaitQueue : \A m, n \in Nat :
        m < N[q] /\ n < N[r] /\ A[q][m] = A[r][n] => q = r /\ m = n

States == {"Running", "Ready", "Waiting", "None", "Moribund"}
Lengths == [WaitQueue -> Nat]
Places0 == [WaitQueue -> [Nat -> Link]]

Represents(l, s, N, A) ==
    /\ \A q \in WaitQueue : Chain(l, s, N, A, q)
    /\ Apart(N, A)

\* Thread u is on the list of queue q.
On(N, A, q, u) == \E n \in Nat : n < N[q] /\ u = A[q][n]

\* At most thread t was put on the list of queue q, and nobody on another.
Grown(N, A, N2, A2, q, t) ==
    /\ \A r \in WaitQueue \ {q} : \A u : On(N2, A2, r, u) <=> On(N, A, r, u)
    /\ \A u : On(N, A, q, u) => On(N2, A2, q, u)
    /\ \A u : On(N2, A2, q, u) => On(N, A, q, u) \/ u = t

\* Nobody was taken off a list but thread h.
Shrunk(N, A, N2, A2, h) ==
    \A r \in WaitQueue : \A u : On(N, A, r, u) /\ u # h => On(N2, A2, r, u)

\* The list of queue q was emptied, and no other.
Emptied(N, A, N2, A2, q) ==
    /\ \A r \in WaitQueue \ {q} : \A u : On(N2, A2, r, u) <=> On(N, A, r, u)
    /\ \A u : ~On(N2, A2, q, u)

LinksType == [head : [WaitQueue -> Link], tail : [WaitQueue -> Link],
              next : [Thread -> Link], prev : [Thread -> Link]]

(* No list is longer than there are threads. *)
LEMMA LengthBound ==
    ASSUME NEW l \in LinksType, NEW s \in [Thread -> States],
           NEW N \in Lengths, NEW A \in Places0, Represents(l, s, N, A),
           NEW q \in WaitQueue
    PROVE  N[q] =< Cardinality(Thread)
<1> DEFINE I == 1 .. N[q]
           f == [i \in I |-> A[q][i - 1]]
<1>1. N[q] \in Nat
  BY DEF Lengths
<1>2. \A i \in I : A[q][i - 1] \in Thread
  BY <1>1 DEF Represents, Chain, Places0, Link
<1>3. f \in [I -> Thread]
  BY <1>2
<1>4. \A i, j \in I : f[i] = f[j] => i = j
  BY <1>1 DEF Represents, Apart
<1>5. f \in Injection(I, Thread)
  BY <1>3, <1>4 DEF Injection, IsInjective
<1>6. IsFiniteSet(I) /\ Cardinality(I) = N[q]
  BY <1>1, FS_Interval, SMTT(40)
<1> QED BY <1>5, <1>6, FS_Injection

(* Following next from the head visits the list and ends. *)
LEMMA ItemIs ==
    ASSUME NEW l \in LinksType, NEW s \in [Thread -> States],
           NEW N \in Lengths, NEW A \in Places0, Represents(l, s, N, A),
           NEW q \in WaitQueue
    PROVE  Item(l, q) = [n \in 0 .. Cardinality(Thread) |-> A[q][n]]
<1> DEFINE D == 0 .. Cardinality(Thread)
           Def(f) == f = [n \in D |->
                            IF n = 0 THEN l.head[q]
                            ELSE IF f[n - 1] = NoThread THEN NoThread
                            ELSE l.next[f[n - 1]]]
           g == [n \in D |-> A[q][n]]
<1>1. Cardinality(Thread) \in Nat /\ N[q] \in Nat
  BY FS_CardinalityType DEF Lengths
<1>2. Def(g)
  <2>1. ASSUME NEW n \in D
        PROVE  g[n] = IF n = 0 THEN l.head[q]
                      ELSE IF g[n - 1] = NoThread THEN NoThread
                      ELSE l.next[g[n - 1]]
    <3>1. CASE n = 0
      BY <3>1 DEF Represents, Chain
    <3>2. CASE n # 0
      <4>1. n - 1 \in D /\ n - 1 \in Nat /\ n \in Nat /\ (n - 1) + 1 = n
        BY <3>2, <1>1
      <4>2. g[n - 1] = A[q][n - 1] /\ g[n] = A[q][n]
        BY <4>1
      <4>3. CASE A[q][n - 1] = NoThread
        <5>1. A[q][n] = NoThread
          BY <4>1, <4>3, <1>1 DEF Represents, Chain
        <5> QED BY <3>2, <4>2, <4>3, <5>1
      <4>4. CASE A[q][n - 1] # NoThread
        <5>1. A[q][n] = l.next[A[q][n - 1]]
          BY <4>1, <4>4, <1>1 DEF Represents, Chain
        <5> QED BY <3>2, <4>2, <4>4, <5>1
      <4> QED BY <4>3, <4>4
    <3> QED BY <3>1, <3>2
  <2> QED BY <2>1
<1>3. Item(l, q) = CHOOSE f : Def(f)
  BY DEF Item
<1>4. Def(Item(l, q))
  <2> HIDE DEF Def, g
  <2> QED BY <1>2, <1>3
<1> DEFINE f == Item(l, q)
<1> HIDE DEF f, g
<1>5. \A n \in D : f[n] = g[n]
  <2> DEFINE Bad == {n \in D : f[n] # g[n]}
  <2>1. SUFFICES ASSUME Bad # {} PROVE FALSE
    OBVIOUS
  <2>2. Bad \in SUBSET Nat
    BY <1>1
  <2>3. PICK n \in Bad : \A m \in Bad : n =< m
    BY <2>1, <2>2, LeastNat
  <2>4. n \in Nat /\ n \in D /\ f[n] # g[n]
    BY <1>1
  <2>5. n # 0
    BY <1>2, <1>4, <2>4 DEF f
  <2>6. n - 1 \in D /\ n - 1 \notin Bad
    BY <1>1, <2>3, <2>4, <2>5
  <2>7. f[n - 1] = g[n - 1]
    BY <2>6
  <2>8. f[n] = IF f[n - 1] = NoThread THEN NoThread ELSE l.next[f[n - 1]]
    BY <1>4, <2>4, <2>5 DEF f
  <2>9. g[n] = IF g[n - 1] = NoThread THEN NoThread ELSE l.next[g[n - 1]]
    BY <1>2, <2>4, <2>5
  <2> QED BY <2>4, <2>7, <2>8, <2>9
<1> QED BY <1>2, <1>4, <1>5 DEF f, g

(* The threads a wake-up of queue q reaches are those on its list. *)
LEMMA ListedIs ==
    ASSUME NEW l \in LinksType, NEW s \in [Thread -> States],
           NEW N \in Lengths, NEW A \in Places0, Represents(l, s, N, A),
           NEW q \in WaitQueue
    PROVE  /\ \A t : t \in Listed(l, q) <=> \E n \in Nat : n < N[q] /\ t = A[q][n]
           /\ Listed(l, q) \subseteq Thread
           /\ N[q] = 0 <=> l.head[q] = NoThread
<1>1. Cardinality(Thread) \in Nat /\ N[q] \in Nat /\ N[q] =< Cardinality(Thread)
  BY FS_CardinalityType, LengthBound DEF Lengths
<1>2. \A n \in 0 .. Cardinality(Thread) : Item(l, q)[n] = A[q][n]
  <2>1. Item(l, q) = [n \in 0 .. Cardinality(Thread) |-> A[q][n]]
    BY ItemIs
  <2> QED BY <2>1
<1>3. \A n \in Nat : A[q][n] # NoThread <=> n < N[q]
  BY DEF Represents, Chain
<1>4. \A n \in Nat : A[q][n] \in Link
  BY DEF Places0
<1>5. l.head[q] = A[q][0]
  BY DEF Represents, Chain
<1> QED BY <1>1, <1>2, <1>3, <1>4, <1>5 DEF Listed, Link

(* OSInsertThreadQueue stops at a place of the list or at its end, with only *)
(* threads of priority zero before it.                                       *)
LEMMA InsertBeforeIs ==
    ASSUME NEW l \in LinksType, NEW s \in [Thread -> States],
           NEW N \in Lengths, NEW A \in Places0, Represents(l, s, N, A),
           NEW q \in WaitQueue
    PROVE  \E k \in 0 .. N[q] :
             /\ InsertBefore(l, q) = A[q][k]
             /\ k = N[q] \/ BasePriority[A[q][k]] > priority
<1> DEFINE after == {n \in 0 .. Cardinality(Thread) :
                        LET t == Item(l, q)[n] IN
                        t = NoThread \/ BasePriority[t] > priority}
           First(n) == n \in after /\ \A m \in after : n =< m
           k == CHOOSE n \in after : \A m \in after : n =< m
<1>1. Cardinality(Thread) \in Nat /\ N[q] \in Nat /\ N[q] =< Cardinality(Thread)
  BY FS_CardinalityType, LengthBound DEF Lengths
<1>2. \A n \in 0 .. Cardinality(Thread) : Item(l, q)[n] = A[q][n]
  <2>1. Item(l, q) = [n \in 0 .. Cardinality(Thread) |-> A[q][n]]
    BY ItemIs
  <2> QED BY <2>1
<1>3. A[q][N[q]] = NoThread
  BY <1>1 DEF Represents, Chain
<1>4. N[q] \in after
  BY <1>1, <1>2, <1>3
<1>5. after \in SUBSET Nat
  BY <1>1
<1>6. InsertBefore(l, q) = Item(l, q)[k]
  BY DEF InsertBefore
<1> HIDE DEF after
<1>7. k \in after /\ \A m \in after : k =< m
  BY <1>4, <1>5, LeastNat
<1>8. k =< N[q] /\ k \in Nat
  BY <1>4, <1>5, <1>7
<1>9. k = N[q] \/ BasePriority[A[q][k]] > priority
  <2>1. Item(l, q)[k] = A[q][k] /\ k \in 0 .. Cardinality(Thread)
    BY <1>1, <1>2, <1>8
  <2>2. A[q][k] = NoThread \/ BasePriority[A[q][k]] > priority
    BY <1>7, <2>1 DEF after
  <2> HIDE DEF k
  <2>3. CASE A[q][k] = NoThread
    <3>1. k = N[q]
      BY <1>1, <1>8, <2>3 DEF Represents, Chain
    <3> QED BY <3>1
  <2>4. CASE A[q][k] # NoThread
    BY <2>2, <2>4
  <2> QED BY <2>3, <2>4
<1> HIDE DEF k
<1> QED BY <1>1, <1>2, <1>6, <1>8, <1>9

(* A list whose links and threads are left alone stays as it is. *)
LEMMA ChainKept ==
    ASSUME NEW l, NEW l2, NEW s, NEW s2, NEW N, NEW N2, NEW A, NEW A2,
           NEW q \in WaitQueue, Chain(l, s, N, A, q), N[q] \in Nat,
           N2[q] = N[q], A2[q] = A[q],
           l2.head[q] = l.head[q], l2.tail[q] = l.tail[q],
           \A n \in Nat : n < N[q] => /\ l2.next[A[q][n]] = l.next[A[q][n]]
                                      /\ l2.prev[A[q][n]] = l.prev[A[q][n]]
                                      /\ s2[A[q][n]] = "Waiting",
           \A p : Orphan(s, A, p) => Orphan(s2, A2, p)
    PROVE  Chain(l2, s2, N2, A2, q)
<1>1. \A n \in Nat : n + 1 < N[q] => l2.prev[A[q][n + 1]] = A[q][n]
  BY DEF Chain
<1>2. l2.prev[A[q][0]] # NoThread => N[q] = 0 \/ Orphan(s2, A2, l2.prev[A[q][0]])
  <2>1. CASE N[q] = 0
    BY <2>1
  <2>2. CASE N[q] # 0
    <3>1. l2.prev[A[q][0]] = l.prev[A[q][0]]
      BY <2>2
    <3> QED BY <2>2, <3>1 DEF Chain
  <2> QED BY <2>1, <2>2
<1> HIDE DEF Orphan
<1> QED BY <1>1, <1>2 DEF Chain

\* Place k of the list of queue q given to t, and the rest moved up.
Inserted(A, q, k, t) ==
    [A EXCEPT ![q] = [n \in Nat |-> IF n < k THEN A[q][n]
                                    ELSE IF n = k THEN t ELSE A[q][n - 1]]]

Longer(N, q) == [N EXCEPT ![q] = @ + 1]

(* A thread that ran is on no list; with it, the lists stay apart. *)
LEMMA InsertedApart ==
    ASSUME NEW l \in LinksType, NEW s \in [Thread -> States],
           NEW N \in Lengths, NEW A \in Places0, Represents(l, s, N, A),
           NEW q \in WaitQueue, NEW k \in 0 .. N[q],
           NEW t \in Thread, s[t] # "Waiting"
    PROVE  /\ Longer(N, q) \in Lengths /\ Inserted(A, q, k, t) \in Places0
           /\ Apart(Longer(N, q), Inserted(A, q, k, t))
           /\ \A r \in WaitQueue, n \in Nat :
                 Inserted(A, q, k, t)[r][n] # NoThread <=> n < Longer(N, q)[r]
           /\ \A r \in WaitQueue \ {q} : /\ Inserted(A, q, k, t)[r] = A[r]
                                         /\ Longer(N, q)[r] = N[r]
           /\ Longer(N, q)[q] = N[q] + 1
           /\ \A n \in Nat : Inserted(A, q, k, t)[q][n] =
                               IF n < k THEN A[q][n]
                               ELSE IF n = k THEN t ELSE A[q][n - 1]
<1> DEFINE N2 == Longer(N, q)
           A2 == Inserted(A, q, k, t)
<1>1. N[q] \in Nat /\ k \in Nat /\ k =< N[q] /\ \A r \in WaitQueue : N[r] \in Nat
  BY DEF Lengths
<1>2. \A n \in Nat : n - 1 \in Nat \/ n = 0
  OBVIOUS
<1>3. N2 \in Lengths /\ A2 \in Places0
  <2>1. [n \in Nat |-> IF n < k THEN A[q][n]
                       ELSE IF n = k THEN t ELSE A[q][n - 1]] \in [Nat -> Link]
    BY <1>1, <1>2 DEF Places0, Link
  <2> QED BY <2>1 DEF Lengths, Places0, Inserted, Longer
<1>4. /\ \A r \in WaitQueue \ {q} : A2[r] = A[r] /\ N2[r] = N[r]
      /\ N2[q] = N[q] + 1
      /\ \A n \in Nat : A2[q][n] = IF n < k THEN A[q][n]
                                   ELSE IF n = k THEN t ELSE A[q][n - 1]
  BY DEF Lengths, Places0, Inserted, Longer
<1>5. \A r \in WaitQueue, n \in Nat : n < N[r] => A[r][n] # t
  BY DEF Represents, Chain
<1>6. \A r \in WaitQueue, n \in Nat : A[r][n] # NoThread <=> n < N[r]
  BY DEF Represents, Chain
<1> HIDE DEF N2, A2
<1>7. \A r \in WaitQueue, n \in Nat : A2[r][n] # NoThread <=> n < N2[r]
  <2>1. ASSUME NEW n \in Nat PROVE A2[q][n] # NoThread <=> n < N2[q]
    <3>1. CASE n < k
      BY <3>1, <1>1, <1>4, <1>6
    <3>2. CASE n = k
      BY <3>2, <1>1, <1>4
    <3>3. CASE n > k
      BY <3>3, <1>1, <1>2, <1>4, <1>6
    <3> QED BY <3>1, <3>2, <3>3, <1>1
  <2> QED BY <2>1, <1>4, <1>6
<1>8. Apart(N2, A2)
  <2> DEFINE Old(n) == IF n < k THEN n ELSE n - 1
  <2>1. \A n \in Nat : n < N2[q] /\ n # k =>
           Old(n) \in Nat /\ Old(n) < N[q] /\ A2[q][n] = A[q][Old(n)]
    BY <1>1, <1>2, <1>4
  <2>2. A2[q][k] = t
    BY <1>1, <1>4
  <2>3. \A r \in WaitQueue, n \in Nat : n < N2[r] /\ A2[r][n] = t => r = q /\ n = k
    <3>1. ASSUME NEW n \in Nat, n < N2[q], A2[q][n] = t PROVE n = k
      BY <2>1, <3>1, <1>5
    <3> QED BY <3>1, <1>4, <1>5
  <2>4. ASSUME NEW m \in Nat, NEW n \in Nat, m < N2[q], n < N2[q],
               A2[q][m] = A2[q][n]
        PROVE  m = n
    <3>1. CASE m = k \/ n = k
      BY <3>1, <2>2, <2>3, <2>4
    <3>2. CASE m # k /\ n # k
      <4>1. Old(m) = Old(n)
        BY <2>1, <2>4, <3>2 DEF Represents, Apart
      <4> QED BY <4>1, <3>2, <1>1
    <3> QED BY <3>1, <3>2
  <2>5. ASSUME NEW r \in WaitQueue \ {q}, NEW m \in Nat, NEW n \in Nat,
               m < N2[q], n < N2[r], A2[q][m] = A2[r][n]
        PROVE  FALSE
    <3>1. m # k
      BY <2>2, <2>3, <2>5
    <3>2. A[q][Old(m)] = A[r][n] /\ n < N[r] /\ Old(m) < N[q] /\ Old(m) \in Nat
      BY <2>1, <2>5, <3>1, <1>4
    <3> HIDE DEF Old
    <3> QED BY <3>2 DEF Represents, Apart
  <2>6. ASSUME NEW r \in WaitQueue \ {q}, NEW u \in WaitQueue \ {q},
               NEW m \in Nat, NEW n \in Nat,
               m < N2[r], n < N2[u], A2[r][m] = A2[u][n]
        PROVE  r = u /\ m = n
    BY <2>6, <1>4 DEF Represents, Apart
  <2> SUFFICES ASSUME NEW r \in WaitQueue, NEW u \in WaitQueue,
                      NEW m \in Nat, NEW n \in Nat,
                      m < N2[r], n < N2[u], A2[r][m] = A2[u][n]
               PROVE  r = u /\ m = n
    BY DEF Apart
  <2>7. CASE r = q /\ u = q
    BY <2>4, <2>7
  <2>8. CASE r = q /\ u # q
    BY <2>5, <2>8
  <2>9. CASE r # q /\ u = q
    <3>1. A2[u][n] = A2[r][m]
      OBVIOUS
    <3> QED BY <2>5, <2>9, <3>1
  <2>10. CASE r # q /\ u # q
    BY <2>6, <2>10
  <2> QED BY <2>7, <2>8, <2>9, <2>10
<1> QED BY <1>3, <1>4, <1>5, <1>7, <1>8 DEF N2, A2

(* A thread that goes to sleep on queue q is put into its list, at the end or *)
(* before a less important thread; before the head it is not, but then the    *)
(* list, which it does not enter, is not harmed either.                       *)
LEMMA InsertKeeps ==
    ASSUME NEW l \in LinksType, NEW s \in [Thread -> States],
           NEW N \in Lengths, NEW A \in Places0, Represents(l, s, N, A),
           NEW q \in WaitQueue, NEW t \in Thread, s[t] # "Waiting",
           NEW s2 \in [Thread -> States], s2[t] = "Waiting",
           \A u \in Thread : s[u] = "Waiting" => s2[u] = "Waiting"
    PROVE  /\ OSInsertThreadQueue(l, q, t) \in LinksType
           /\ \E N2 \in Lengths, A2 \in Places0 :
                 /\ Represents(OSInsertThreadQueue(l, q, t), s2, N2, A2)
                 /\ Grown(N, A, N2, A2, q, t)
                 /\ \/ On(N2, A2, q, t)
                    \/ PutBeforeHead(l, OSInsertThreadQueue(l, q, t), q, t)
           /\ \A r \in WaitQueue \ {q} :
                 OSInsertThreadQueue(l, q, t).head[r] = l.head[r]
<1>0. PICK k \in 0 .. N[q] :
         /\ InsertBefore(l, q) = A[q][k]
         /\ k = N[q] \/ BasePriority[A[q][k]] > priority
  BY InsertBeforeIs
<1> DEFINE l2 == OSInsertThreadQueue(l, q, t)
           b == InsertBefore(l, q)
           p == l.prev[b]
           last == A[q][N[q] - 1]
<1>1. b = A[q][k]
  BY <1>0
<1>2. /\ N[q] \in Nat /\ k \in Nat /\ k =< N[q]
      /\ \A r \in WaitQueue : N[r] \in Nat
  BY DEF Lengths
<1>3. /\ \A r \in WaitQueue : Chain(l, s, N, A, r)
      /\ \A r \in WaitQueue, n \in Nat :
            n < N[r] => A[r][n] \in Thread /\ A[r][n] # t
  BY DEF Represents, Chain, Places0, Link
<1>4. /\ l.head \in [WaitQueue -> Link] /\ l.tail \in [WaitQueue -> Link]
      /\ l.next \in [Thread -> Link] /\ l.prev \in [Thread -> Link]
  BY DEF LinksType
<1>5. /\ \A u : Orphan(s, A, u) => u # t
      /\ \A u \in Thread : s[u] = "Waiting" => s2[u] = "Waiting"
      /\ s2[t] = "Waiting"
  BY DEF Orphan
<1>6. b = NoThread <=> k = N[q]
  <2>1. A[q][k] # NoThread <=> k < N[q]
    BY <1>2, <1>3 DEF Chain
  <2> HIDE DEF b
  <2> QED BY <1>1, <1>2, <2>1
<1>7. l.head[q] = NoThread <=> N[q] = 0
  BY <1>2, <1>3 DEF Chain
<1> DEFINE N2 == Longer(N, q)
           A2 == Inserted(A, q, k, t)
<1>8. /\ N2 \in Lengths /\ A2 \in Places0 /\ Apart(N2, A2)
      /\ \A r \in WaitQueue, n \in Nat : A2[r][n] # NoThread <=> n < N2[r]
      /\ \A r \in WaitQueue \ {q} : A2[r] = A[r] /\ N2[r] = N[r]
      /\ N2[q] = N[q] + 1
      /\ \A n \in Nat : A2[q][n] = IF n < k THEN A[q][n]
                                   ELSE IF n = k THEN t ELSE A[q][n - 1]
  BY InsertedApart
<1> HIDE DEF N2, A2, b, l2
<1>9. \A u : Orphan(s, A, u) => Orphan(s2, A2, u)
  <2> SUFFICES ASSUME NEW u, Orphan(s, A, u), NEW r \in WaitQueue, NEW n \in Nat
               PROVE  A2[r][n] # u
    BY <1>5 DEF Orphan
  <2>1. u # t /\ \A m \in Nat : A[r][m] # u
    BY <1>5 DEF Orphan
  <2>2. n - 1 \in Nat \/ n = 0
    OBVIOUS
  <2> QED BY <2>1, <2>2, <1>2, <1>8
<1>9a. Grown(N, A, N2, A2, q, t) /\ On(N2, A2, q, t)
  <2>1. \A r \in WaitQueue \ {q} : \A u : On(N2, A2, r, u) <=> On(N, A, r, u)
    BY <1>8 DEF On
  <2>2. ASSUME NEW u, On(N, A, q, u) PROVE On(N2, A2, q, u)
    <3>1. PICK n \in Nat : n < N[q] /\ u = A[q][n]
      BY <2>2 DEF On
    <3>2. CASE n < k
      <4>1. n < N2[q] /\ u = A2[q][n]
        BY <1>2, <1>8, <3>1, <3>2
      <4> QED BY <4>1 DEF On
    <3>3. CASE n >= k
      <4>1. n + 1 \in Nat /\ n + 1 < N2[q] /\ u = A2[q][n + 1]
        BY <1>2, <1>8, <3>1, <3>3
      <4> QED BY <4>1 DEF On
    <3> QED BY <1>2, <3>2, <3>3
  <2>3. ASSUME NEW u, On(N2, A2, q, u), u # t PROVE On(N, A, q, u)
    <3>1. PICK n \in Nat : n < N2[q] /\ u = A2[q][n]
      BY <2>3 DEF On
    <3>2. CASE n < k
      <4>1. n < N[q] /\ u = A[q][n]
        BY <1>2, <1>8, <3>1, <3>2
      <4> QED BY <4>1 DEF On
    <3>3. CASE n > k
      <4>1. n - 1 \in Nat /\ n - 1 < N[q] /\ u = A[q][n - 1]
        BY <1>2, <1>8, <3>1, <3>3
      <4> QED BY <4>1 DEF On
    <3> QED BY <1>2, <1>8, <2>3, <3>1, <3>2, <3>3
  <2>4. On(N2, A2, q, t)
    <3>1. k < N2[q] /\ t = A2[q][k]
      BY <1>2, <1>8
    <3> QED BY <1>2, <3>1 DEF On
  <2> QED BY <2>1, <2>2, <2>3, <2>4 DEF Grown
\* The list is empty: t is all of it.
<1>10. CASE N[q] = 0
  <2>1. /\ l2 = [head |-> [l.head EXCEPT ![q] = t], tail |-> [l.tail EXCEPT ![q] = t],
                 next |-> [l.next EXCEPT ![t] = NoThread],
                 prev |-> [l.prev EXCEPT ![t] = NoThread]]
    BY <1>7, <1>10 DEF OSInsertThreadQueue, l2
  <2>2. l2 \in LinksType
    BY <2>1, <1>4 DEF LinksType, Link
  <2>3. ASSUME NEW r \in WaitQueue \ {q} PROVE Chain(l2, s2, N2, A2, r)
    <3>1. /\ l2.head[r] = l.head[r] /\ l2.tail[r] = l.tail[r]
          /\ \A n \in Nat : n < N[r] => /\ l2.next[A[r][n]] = l.next[A[r][n]]
                                        /\ l2.prev[A[r][n]] = l.prev[A[r][n]]
                                        /\ s2[A[r][n]] = "Waiting"
      BY <2>1, <1>3, <1>4, <1>5 DEF Chain
    <3> QED BY <3>1, <1>2, <1>3, <1>8, <1>9, ChainKept
  <2>4. A2[q][0] = t /\ A2[q][1] = NoThread /\ N2[q] = 1
    BY <1>2, <1>8, <1>10
  <2>5. Chain(l2, s2, N2, A2, q)
    BY <2>1, <2>4, <1>4, <1>5, <1>8 DEF Chain
  <2>6. \A r \in WaitQueue \ {q} : l2.head[r] = l.head[r]
    BY <2>1, <1>4
  <2> QED BY <2>2, <2>3, <2>5, <2>6, <1>8, <1>9a DEF Represents, l2
\* It goes to the end.
<1>11. CASE N[q] # 0 /\ k = N[q]
  <2>0. last \in Thread /\ last # t /\ N[q] - 1 \in Nat /\ l.tail[q] = last
    BY <1>2, <1>3, <1>11 DEF Chain
  <2>1. l2 = [l EXCEPT !.next = [@ EXCEPT ![last] = t, ![t] = NoThread],
                       !.prev[t] = last, !.tail[q] = t]
    BY <2>0, <1>6, <1>7, <1>11 DEF OSInsertThreadQueue, l2, b
  <2>2. /\ l2.head = l.head /\ l2.tail = [l.tail EXCEPT ![q] = t]
        /\ l2.next = [l.next EXCEPT ![last] = t, ![t] = NoThread]
        /\ l2.prev = [l.prev EXCEPT ![t] = last]
        /\ l2 \in LinksType
    BY <2>0, <2>1, <1>4 DEF LinksType, Link
  <2>3. ASSUME NEW r \in WaitQueue \ {q} PROVE Chain(l2, s2, N2, A2, r)
    <3>1. \A n \in Nat : n < N[r] => A[r][n] # last
      BY <2>0, <1>2, <1>11 DEF Represents, Apart
    <3>2. /\ l2.head[r] = l.head[r] /\ l2.tail[r] = l.tail[r]
          /\ \A n \in Nat : n < N[r] => /\ l2.next[A[r][n]] = l.next[A[r][n]]
                                        /\ l2.prev[A[r][n]] = l.prev[A[r][n]]
                                        /\ s2[A[r][n]] = "Waiting"
      BY <2>2, <3>1, <1>3, <1>4, <1>5 DEF Chain
    <3> QED BY <3>2, <1>2, <1>3, <1>8, <1>9, ChainKept
  <2>4. /\ \A n \in Nat : n < N[q] => A2[q][n] = A[q][n]
        /\ A2[q][N[q]] = t /\ A2[q][N[q] + 1] = NoThread
    BY <1>2, <1>8, <1>11
  <2>5. \A n \in Nat : n < N[q] - 1 => A[q][n] # last
    BY <2>0, <1>2 DEF Represents, Apart
  <2>6. \A n \in Nat : n < N2[q] => /\ l2.next[A2[q][n]] = A2[q][n + 1]
                                    /\ s2[A2[q][n]] = "Waiting"
    <3> SUFFICES ASSUME NEW n \in Nat, n < N[q] + 1
                 PROVE  l2.next[A2[q][n]] = A2[q][n + 1] /\ s2[A2[q][n]] = "Waiting"
      BY <1>8
    <3>1. CASE n < N[q] - 1
      <4>1. A2[q][n] = A[q][n] /\ A2[q][n + 1] = A[q][n + 1] /\ A[q][n] \in Thread
            /\ A[q][n] # t
        BY <2>4, <3>1, <1>2, <1>3
      <4>2. l.next[A[q][n]] = A[q][n + 1] /\ s[A[q][n]] = "Waiting"
        BY <3>1, <1>2, <1>3 DEF Chain
      <4> QED BY <4>1, <4>2, <2>2, <2>5, <3>1, <1>4, <1>5
    <3>2. CASE n = N[q] - 1
      <4>1. A2[q][n] = last /\ A2[q][n + 1] = t
        BY <2>0, <2>4, <3>2, <1>2
      <4>2. s[last] = "Waiting"
        BY <2>0, <1>2, <1>3 DEF Chain
      <4> QED BY <4>1, <4>2, <2>0, <2>2, <1>4, <1>5
    <3>3. CASE n = N[q]
      BY <2>2, <2>4, <3>3, <1>4, <1>5
    <3> QED BY <3>1, <3>2, <3>3, <1>2
  <2>7. \A n \in Nat : n + 1 < N2[q] => l2.prev[A2[q][n + 1]] = A2[q][n]
    <3> SUFFICES ASSUME NEW n \in Nat, n + 1 < N[q] + 1
                 PROVE  l2.prev[A2[q][n + 1]] = A2[q][n]
      BY <1>8
    <3>1. CASE n + 1 < N[q]
      <4>1. A2[q][n] = A[q][n] /\ A2[q][n + 1] = A[q][n + 1]
            /\ A[q][n + 1] # t /\ A[q][n + 1] \in Thread
        BY <2>4, <3>1, <1>2, <1>3
      <4>2. l.prev[A[q][n + 1]] = A[q][n]
        BY <3>1, <1>3 DEF Chain
      <4> QED BY <4>1, <4>2, <2>2, <1>4
    <3>2. CASE n + 1 = N[q]
      <4>1. A2[q][n + 1] = t /\ A2[q][n] = last
        BY <2>0, <2>4, <3>2, <1>2
      <4> QED BY <4>1, <2>2, <1>4
    <3> QED BY <3>1, <3>2, <1>2
  <2>8. l2.prev[A2[q][0]] # NoThread => Orphan(s2, A2, l2.prev[A2[q][0]])
    <3>1. A2[q][0] = A[q][0] /\ A[q][0] # t /\ A[q][0] \in Thread
      BY <2>4, <1>2, <1>3, <1>11
    <3>2. l2.prev[A2[q][0]] = l.prev[A[q][0]]
      BY <3>1, <2>2, <1>4
    <3> QED BY <3>2, <1>3, <1>9, <1>11 DEF Chain
  <2>9. l2.head[q] = A2[q][0] /\ l2.tail[q] = A2[q][N2[q] - 1]
    BY <2>2, <2>4, <1>2, <1>3, <1>4, <1>8, <1>11 DEF Chain
  <2>10. Chain(l2, s2, N2, A2, q)
    <3> HIDE DEF Orphan
    <3> QED BY <2>6, <2>7, <2>8, <2>9, <1>2, <1>8 DEF Chain
  <2>11. \A r \in WaitQueue \ {q} : l2.head[r] = l.head[r]
    BY <2>2
  <2> QED BY <2>2, <2>3, <2>10, <2>11, <1>8, <1>9a DEF Represents, l2
<1> DEFINE l3 == [l EXCEPT !.next = [u \in Thread |-> IF u = t THEN b
                                         ELSE IF u = p THEN t ELSE @[u]],
                           !.prev = [@ EXCEPT ![t] = p, ![b] = t]]
<1>12. CASE N[q] # 0 /\ k # N[q]
  <2>1. l2 = l3
    BY <1>6, <1>7, <1>12 DEF OSInsertThreadQueue, l2, b
  <2>2. b \in Thread /\ b # t /\ p \in Link
    <3>1. k \in Nat /\ k < N[q]
      BY <1>2, <1>12
    <3>2. b \in Thread /\ b # t
      BY <3>1, <1>1, <1>3
    <3> QED BY <3>2, <1>4
  <2>3. /\ l2.head = l.head /\ l2.tail = l.tail
        /\ \A u \in Thread : l2.next[u] = IF u = t THEN b
                                          ELSE IF u = p THEN t ELSE l.next[u]
        /\ l2.prev = [l.prev EXCEPT ![t] = p, ![b] = t]
    BY <2>1, <1>4 DEF LinksType
  <2>4. l2 \in LinksType
    BY <2>1, <2>2, <1>4 DEF LinksType, Link
  <2>5. \A r \in WaitQueue \ {q} : l2.head[r] = l.head[r]
    BY <2>3
  <2>6. \A r \in WaitQueue \ {q}, n \in Nat : n < N[r] => A[r][n] # b
    BY <1>1, <1>2, <1>12 DEF Represents, Apart, b
\* Before the head: it is lost.
  <2>7. CASE k = 0
    <3>1. p = NoThread \/ Orphan(s, A, p)
      BY <2>7, <1>1, <1>3, <1>12 DEF Chain
    <3>2. \A r \in WaitQueue, n \in Nat : n < N[r] => A[r][n] # p
      BY <3>1, <1>3, ThreadQueueAssumption DEF Orphan
    <3>3. \A u : Orphan(s, A, u) => Orphan(s2, A, u)
      BY <1>5 DEF Orphan
    <3>4. ASSUME NEW r \in WaitQueue \ {q} PROVE Chain(l2, s2, N, A, r)
      <4>1. /\ l2.head[r] = l.head[r] /\ l2.tail[r] = l.tail[r]
            /\ \A n \in Nat : n < N[r] => /\ l2.next[A[r][n]] = l.next[A[r][n]]
                                          /\ l2.prev[A[r][n]] = l.prev[A[r][n]]
                                          /\ s2[A[r][n]] = "Waiting"
        BY <2>3, <2>6, <3>2, <1>3, <1>4, <1>5 DEF Chain
      <4> QED BY <4>1, <3>3, <1>2, <1>3, ChainKept
    <3>5. b = A[q][0]
      BY <2>7, <1>1
    <3>6. Orphan(s2, A, t)
      <4>1. \A r \in WaitQueue, n \in Nat : A[r][n] # t
        BY <1>3, ThreadQueueAssumption DEF Chain
      <4> QED BY <4>1, <1>5 DEF Orphan
    <3>7. l2.prev[A[q][0]] = t
      BY <2>2, <2>3, <3>5, <1>4
    <3>8. \A n \in Nat : n < N[q] => /\ l2.next[A[q][n]] = A[q][n + 1]
                                     /\ s2[A[q][n]] = "Waiting"
      BY <2>3, <3>2, <1>3, <1>5 DEF Chain
    <3>9. \A n \in Nat : n + 1 < N[q] => l2.prev[A[q][n + 1]] = A[q][n]
      <4> SUFFICES ASSUME NEW n \in Nat, n + 1 < N[q]
                   PROVE  l2.prev[A[q][n + 1]] = A[q][n]
        OBVIOUS
      <4>1. A[q][n + 1] # b /\ A[q][n + 1] # t /\ A[q][n + 1] \in Thread
        BY <3>5, <1>2, <1>3 DEF Represents, Apart
      <4>2. l.prev[A[q][n + 1]] = A[q][n]
        BY <1>3 DEF Chain
      <4> QED BY <4>1, <4>2, <2>3, <1>4
    <3>10. Chain(l2, s2, N, A, q)
      <4>1. /\ \A n \in Nat : A[q][n] # NoThread <=> n < N[q]
            /\ l2.head[q] = A[q][0]
            /\ l2.tail[q] = IF N[q] = 0 THEN NoThread ELSE A[q][N[q] - 1]
        BY <2>3, <1>3 DEF Chain
      <4> HIDE DEF Orphan
      <4> QED BY <4>1, <3>6, <3>7, <3>8, <3>9 DEF Chain
    <3>11. Represents(l2, s2, N, A)
      BY <3>4, <3>10 DEF Represents
    <3>12. Grown(N, A, N, A, q, t) /\ PutBeforeHead(l, l2, q, t)
      <4>1. l.head[q] = A[q][0] /\ BasePriority[A[q][0]] > priority
        BY <1>0, <1>3, <1>12, <2>7 DEF Chain
      <4> QED BY <4>1, <3>7, <1>7, <1>12 DEF Grown, PutBeforeHead
    <3> QED BY <2>4, <2>5, <3>11, <3>12 DEF l2
\* Before another thread.
  <2>8. CASE k # 0
    <3>0. k - 1 \in Nat /\ k < N[q] /\ (k - 1) + 1 = k
      BY <2>8, <1>2, <1>12
    <3>1. p = A[q][k - 1] /\ p \in Thread /\ p # t
      <4>1. l.prev[A[q][k - 1 + 1]] = A[q][k - 1]
        BY <3>0, <1>3 DEF Chain
      <4>2. p = A[q][k - 1]
        BY <4>1, <3>0, <1>1
      <4>3. A[q][k - 1] \in Thread /\ A[q][k - 1] # t
        BY <3>0, <1>2, <1>3
      <4> QED BY <4>2, <4>3
    <3>2. \A r \in WaitQueue \ {q}, n \in Nat : n < N[r] => A[r][n] # p
      BY <3>0, <3>1, <1>2 DEF Represents, Apart
    <3>3. ASSUME NEW r \in WaitQueue \ {q} PROVE Chain(l2, s2, N2, A2, r)
      <4>1. /\ l2.head[r] = l.head[r] /\ l2.tail[r] = l.tail[r]
            /\ \A n \in Nat : n < N[r] => /\ l2.next[A[r][n]] = l.next[A[r][n]]
                                          /\ l2.prev[A[r][n]] = l.prev[A[r][n]]
                                          /\ s2[A[r][n]] = "Waiting"
        BY <2>3, <2>6, <3>2, <1>3, <1>4, <1>5 DEF Chain
      <4> QED BY <4>1, <1>2, <1>3, <1>8, <1>9, ChainKept
    <3>4. /\ \A n \in Nat : n < k => A2[q][n] = A[q][n]
          /\ A2[q][k] = t
          /\ \A n \in Nat : n > k => A2[q][n] = A[q][n - 1]
      BY <1>2, <1>8
    <3>5. /\ \A n \in Nat : n < N[q] /\ A[q][n] = b => n = k
          /\ \A n \in Nat : n < N[q] /\ A[q][n] = p => n = k - 1
      BY <3>0, <3>1, <1>1, <1>2 DEF Represents, Apart
    <3>6. \A n \in Nat : n < N2[q] => /\ l2.next[A2[q][n]] = A2[q][n + 1]
                                      /\ s2[A2[q][n]] = "Waiting"
      <4> SUFFICES ASSUME NEW n \in Nat, n < N[q] + 1
                   PROVE  l2.next[A2[q][n]] = A2[q][n + 1] /\ s2[A2[q][n]] = "Waiting"
        BY <1>8
      <4>1. CASE n + 1 < k
        <5>1. A2[q][n] = A[q][n] /\ A2[q][n + 1] = A[q][n + 1] /\ A[q][n] \in Thread
              /\ A[q][n] # t /\ A[q][n] # p
          BY <3>0, <3>4, <3>5, <4>1, <1>2, <1>3
        <5>2. l.next[A[q][n]] = A[q][n + 1] /\ s[A[q][n]] = "Waiting"
          BY <3>0, <4>1, <1>2, <1>3 DEF Chain
        <5> QED BY <5>1, <5>2, <2>3, <1>5
      <4>2. CASE n + 1 = k
        <5>1. n = k - 1 /\ A2[q][n] = p /\ A2[q][n + 1] = t
          BY <3>0, <3>1, <3>4, <4>2
        <5>2. s[p] = "Waiting"
          BY <3>0, <3>1, <1>2, <1>3 DEF Chain
        <5> QED BY <5>1, <5>2, <2>3, <3>1, <1>5
      <4>3. CASE n = k
        <5>1. A2[q][n] = t /\ A2[q][n + 1] = b
          BY <3>4, <4>3, <1>1, <1>2
        <5> QED BY <5>1, <2>3, <1>5
      <4>4. CASE n > k
        <5>1. n - 1 \in Nat /\ n - 1 < N[q] /\ (n - 1) + 1 = n /\ n - 1 # k - 1
          BY <4>4, <1>2
        <5>2. /\ A2[q][n] = A[q][n - 1] /\ A2[q][n + 1] = A[q][n]
          BY <3>4, <4>4, <1>2
        <5>3. A[q][n - 1] \in Thread /\ A[q][n - 1] # t /\ A[q][n - 1] # p
          BY <3>5, <5>1, <1>3
        <5>4. l.next[A[q][n - 1]] = A[q][n] /\ s[A[q][n - 1]] = "Waiting"
          BY <5>1, <1>3 DEF Chain
        <5> QED BY <5>2, <5>3, <5>4, <2>3, <1>5
      <4> QED BY <4>1, <4>2, <4>3, <4>4, <1>2
    <3>7. \A n \in Nat : n + 1 < N2[q] => l2.prev[A2[q][n + 1]] = A2[q][n]
      <4> SUFFICES ASSUME NEW n \in Nat, n + 1 < N[q] + 1
                   PROVE  l2.prev[A2[q][n + 1]] = A2[q][n]
        BY <1>8
      <4>1. CASE n + 1 < k
        <5>1. A2[q][n] = A[q][n] /\ A2[q][n + 1] = A[q][n + 1] /\ A[q][n + 1] \in Thread
              /\ A[q][n + 1] # t /\ A[q][n + 1] # b
          BY <3>0, <3>4, <3>5, <4>1, <1>2, <1>3
        <5>2. l.prev[A[q][n + 1]] = A[q][n]
          BY <3>0, <4>1, <1>2, <1>3 DEF Chain
        <5> QED BY <5>1, <5>2, <2>3, <1>4
      <4>2. CASE n + 1 = k
        <5>1. A2[q][n] = p /\ A2[q][n + 1] = t
          BY <3>0, <3>1, <3>4, <4>2
        <5> QED BY <5>1, <2>2, <2>3, <1>4
      <4>3. CASE n = k
        <5>1. A2[q][n] = t /\ A2[q][n + 1] = b
          BY <3>4, <4>3, <1>1, <1>2
        <5> QED BY <5>1, <2>2, <2>3, <1>4
      <4>4. CASE n > k
        <5>1. n - 1 \in Nat /\ n < N[q] /\ (n - 1) + 1 = n
          BY <4>4, <1>2
        <5>2. /\ A2[q][n] = A[q][n - 1] /\ A2[q][n + 1] = A[q][n]
          BY <3>4, <4>4, <1>2
        <5>3. A[q][n] \in Thread /\ A[q][n] # t /\ A[q][n] # b
          BY <3>5, <4>4, <5>1, <1>2, <1>3
        <5>4. l.prev[A[q][n]] = A[q][n - 1]
          BY <5>1, <1>3 DEF Chain
        <5> QED BY <5>2, <5>3, <5>4, <2>3, <1>4
      <4> QED BY <4>1, <4>2, <4>3, <4>4, <1>2
    <3>8. l2.prev[A2[q][0]] # NoThread => Orphan(s2, A2, l2.prev[A2[q][0]])
      <4>1. /\ A2[q][0] = A[q][0] /\ A[q][0] # t /\ A[q][0] # b /\ A[q][0] \in Thread
        BY <2>8, <3>4, <3>5, <1>2, <1>3, <1>12
      <4>2. l2.prev[A2[q][0]] = l.prev[A[q][0]]
        BY <4>1, <2>3, <1>4
      <4> QED BY <4>2, <1>3, <1>9, <1>12 DEF Chain
    <3>9. l2.head[q] = A2[q][0] /\ l2.tail[q] = A2[q][N2[q] - 1]
      <4>1. l2.head[q] = A2[q][0]
        BY <2>3, <2>8, <3>4, <1>2, <1>3 DEF Chain
      <4>2. N2[q] - 1 = N[q] /\ N[q] > k
        BY <3>0, <1>2, <1>8
      <4>3. A2[q][N2[q] - 1] = A[q][N[q] - 1]
        BY <4>2, <3>4, <1>2
      <4> QED BY <4>1, <4>3, <2>3, <1>3, <1>12 DEF Chain
    <3>10. Chain(l2, s2, N2, A2, q)
      <4> HIDE DEF Orphan
      <4> QED BY <3>6, <3>7, <3>8, <3>9, <1>2, <1>8 DEF Chain
    <3>11. Represents(l2, s2, N2, A2)
      BY <3>3, <3>10, <1>8 DEF Represents
    <3> QED BY <2>4, <2>5, <3>11, <1>8, <1>9a DEF l2
  <2> QED BY <2>7, <2>8
<1> QED BY <1>10, <1>11, <1>12

(* Waking a queue empties its list and leaves the other lists alone, whatever *)
(* becomes of the threads that were on it.                                    *)
LEMMA ClearKeeps ==
    ASSUME NEW l \in LinksType, NEW s \in [Thread -> States],
           NEW N \in Lengths, NEW A \in Places0, Represents(l, s, N, A),
           NEW q \in WaitQueue, NEW s2 \in [Thread -> States],
           \A u \in Thread : s[u] = "Waiting" /\ u \notin Listed(l, q) => s2[u] = "Waiting"
    PROVE  /\ OSClearQueue(l, q) \in LinksType
           /\ \E N2 \in Lengths, A2 \in Places0 :
                 /\ Represents(OSClearQueue(l, q), s2, N2, A2)
                 /\ Emptied(N, A, N2, A2, q)
           /\ OSClearQueue(l, q).head[q] = NoThread
           /\ \A r \in WaitQueue \ {q} : OSClearQueue(l, q).head[r] = l.head[r]
<1> DEFINE l2 == OSClearQueue(l, q)
           N2 == [N EXCEPT ![q] = 0]
           A2 == [A EXCEPT ![q] = [n \in Nat |-> NoThread]]
<1>1. /\ l.head \in [WaitQueue -> Link] /\ l.tail \in [WaitQueue -> Link]
      /\ l.next \in [Thread -> Link] /\ l.prev \in [Thread -> Link]
  BY DEF LinksType
<1>2. /\ l2.head = [l.head EXCEPT ![q] = NoThread]
      /\ l2.tail = [l.tail EXCEPT ![q] = NoThread]
      /\ \A u \in Thread : u \notin Listed(l, q) =>
            l2.next[u] = l.next[u] /\ l2.prev[u] = l.prev[u]
  BY DEF OSClearQueue
<1>3. l2 \in LinksType
  BY <1>1 DEF OSClearQueue, LinksType, Link
<1>4. N2 \in Lengths /\ A2 \in Places0
  BY DEF Lengths, Places0, Link
<1>5. /\ N2[q] = 0 /\ \A n \in Nat : A2[q][n] = NoThread
      /\ \A r \in WaitQueue \ {q} : N2[r] = N[r] /\ A2[r] = A[r]
  BY DEF Lengths, Places0
<1>6. \A r \in WaitQueue : N[r] \in Nat /\ Chain(l, s, N, A, r)
  BY DEF Lengths, Represents
<1>7. \A u : u \in Listed(l, q) <=> \E n \in Nat : n < N[q] /\ u = A[q][n]
  BY ListedIs
<1> HIDE DEF l2, N2, A2
<1>8. \A u : Orphan(s, A, u) => Orphan(s2, A2, u)
  BY <1>5, <1>7 DEF Orphan
<1>9. ASSUME NEW r \in WaitQueue \ {q} PROVE Chain(l2, s2, N2, A2, r)
  <2>1. \A n \in Nat : n < N[r] => A[r][n] \in Thread /\ A[r][n] \notin Listed(l, q)
    BY <1>6, <1>7 DEF Represents, Apart, Chain, Places0, Link
  <2>2. /\ l2.head[r] = l.head[r] /\ l2.tail[r] = l.tail[r]
        /\ \A n \in Nat : n < N[r] => /\ l2.next[A[r][n]] = l.next[A[r][n]]
                                      /\ l2.prev[A[r][n]] = l.prev[A[r][n]]
                                      /\ s2[A[r][n]] = "Waiting"
    BY <2>1, <1>1, <1>2, <1>6 DEF Chain
  <2> QED BY <2>2, <1>5, <1>6, <1>8, ChainKept
<1>10. Chain(l2, s2, N2, A2, q)
  BY <1>1, <1>2, <1>5 DEF Chain
<1>11. Apart(N2, A2)
  <2> SUFFICES ASSUME NEW r \in WaitQueue, NEW u \in WaitQueue,
                      NEW m \in Nat, NEW n \in Nat,
                      m < N2[r], n < N2[u], A2[r][m] = A2[u][n]
               PROVE  r = u /\ m = n
    BY DEF Apart
  <2>1. r # q /\ u # q
    BY <1>5
  <2> QED BY <2>1, <1>5 DEF Represents, Apart
<1>12. l2.head[q] = NoThread /\ \A r \in WaitQueue \ {q} : l2.head[r] = l.head[r]
  BY <1>1, <1>2
<1>13. Emptied(N, A, N2, A2, q)
  BY <1>5 DEF Emptied, On
<1> QED BY <1>3, <1>4, <1>9, <1>10, <1>11, <1>12, <1>13 DEF Represents, l2

(* Taking the head off a list leaves the rest of it, and the other lists. *)
LEMMA PopKeeps ==
    ASSUME NEW l \in LinksType, NEW s \in [Thread -> States],
           NEW N \in Lengths, NEW A \in Places0, Represents(l, s, N, A),
           NEW q \in WaitQueue, l.head[q] # NoThread, NEW s2 \in [Thread -> States],
           \A u \in Thread : s[u] = "Waiting" /\ u # l.head[q] => s2[u] = "Waiting"
    PROVE  /\ OSPopFrontFromQueue(l, q) \in LinksType
           /\ \E N2 \in Lengths, A2 \in Places0 :
                 /\ Represents(OSPopFrontFromQueue(l, q), s2, N2, A2)
                 /\ Shrunk(N, A, N2, A2, l.head[q])
           /\ \A r \in WaitQueue \ {q} :
                 OSPopFrontFromQueue(l, q).head[r] = l.head[r]
<1> DEFINE l2 == OSPopFrontFromQueue(l, q)
           h == l.head[q]
           N2 == [N EXCEPT ![q] = @ - 1]
           A2 == [A EXCEPT ![q] = [n \in Nat |-> A[q][n + 1]]]
<1>1. /\ l.head \in [WaitQueue -> Link] /\ l.tail \in [WaitQueue -> Link]
      /\ l.next \in [Thread -> Link] /\ l.prev \in [Thread -> Link]
  BY DEF LinksType
<1>2. \A r \in WaitQueue : N[r] \in Nat /\ Chain(l, s, N, A, r)
  BY DEF Lengths, Represents
<1>3. h = A[q][0] /\ h \in Thread /\ N[q] > 0 /\ l.next[h] = A[q][1]
  BY <1>1, <1>2 DEF Chain, Link
<1>4. /\ l2.head = [l.head EXCEPT ![q] = A[q][1]]
      /\ l2.tail = [l.tail EXCEPT ![q] = IF @ = h THEN NoThread ELSE @]
      /\ l2.next = l.next
      /\ \A u \in Thread : l2.prev[u] = IF u = A[q][1] THEN NoThread ELSE l.prev[u]
  BY <1>1, <1>3 DEF OSPopFrontFromQueue, LinksType
<1>5. l2 \in LinksType
  <2>1. A[q][1] \in Link
    BY DEF Places0
  <2> QED BY <2>1, <1>1, <1>3 DEF OSPopFrontFromQueue, LinksType, Link
<1>6. N2 \in Lengths /\ A2 \in Places0
  BY <1>2, <1>3 DEF Lengths, Places0, Link
<1>7. /\ N2[q] = N[q] - 1 /\ N2[q] \in Nat /\ \A n \in Nat : A2[q][n] = A[q][n + 1]
      /\ \A r \in WaitQueue \ {q} : N2[r] = N[r] /\ A2[r] = A[r]
  BY <1>2, <1>3 DEF Lengths, Places0
<1>8. \A r \in WaitQueue, n \in Nat : n < N[r] =>
         A[r][n] \in Thread /\ (A[r][n] = h => r = q /\ n = 0)
                            /\ (A[r][n] = A[q][1] => r = q /\ n = 1)
  <2>1. A[q][1] # NoThread => 1 < N[q]
    BY <1>2 DEF Chain
  <2> QED BY <2>1, <1>2, <1>3 DEF Represents, Apart, Chain, Places0, Link
<1> HIDE DEF l2, N2, A2, h
<1>9. \A u : Orphan(s, A, u) => Orphan(s2, A2, u)
  <2> SUFFICES ASSUME NEW u, Orphan(s, A, u), NEW r \in WaitQueue, NEW n \in Nat
               PROVE  s2[u] = "Waiting" /\ A2[r][n] # u
    BY DEF Orphan
  <2>1. u \in Thread /\ u # h
    BY <1>3 DEF Orphan
  <2>2. s2[u] = "Waiting"
    BY <2>1 DEF Orphan, h
  <2>3. A[r][n] # u /\ A[r][n + 1] # u
    BY DEF Orphan
  <2> QED BY <2>2, <2>3, <1>7
<1>10. ASSUME NEW r \in WaitQueue \ {q} PROVE Chain(l2, s2, N2, A2, r)
  <2>1. \A n \in Nat : n < N[r] => s2[A[r][n]] = "Waiting"
    BY <1>2, <1>8 DEF Chain, h
  <2>2. /\ l2.head[r] = l.head[r] /\ l2.tail[r] = l.tail[r]
        /\ \A n \in Nat : n < N[r] => /\ l2.next[A[r][n]] = l.next[A[r][n]]
                                      /\ l2.prev[A[r][n]] = l.prev[A[r][n]]
                                      /\ s2[A[r][n]] = "Waiting"
    BY <2>1, <1>1, <1>4, <1>8
  <2> QED BY <2>2, <1>2, <1>7, <1>9, ChainKept
<1>11. Chain(l2, s2, N2, A2, q)
  <2>1. \A n \in Nat : A2[q][n] # NoThread <=> n < N2[q]
    BY <1>2, <1>7 DEF Chain
  <2>2. l2.head[q] = A2[q][0]
    BY <1>1, <1>4, <1>7
  <2>3. l2.tail[q] = IF N2[q] = 0 THEN NoThread ELSE A2[q][N2[q] - 1]
    <3>1. l.tail[q] = A[q][N[q] - 1] /\ N[q] - 1 \in Nat /\ N[q] - 1 < N[q]
      BY <1>2, <1>3 DEF Chain
    <3>2. l.tail[q] = h <=> N[q] = 1
      BY <3>1, <1>2, <1>3, <1>8
    <3>3. N[q] # 1 => A2[q][N2[q] - 1] = A[q][N[q] - 1]
      BY <3>1, <1>2, <1>3, <1>7
    <3> QED BY <3>1, <3>2, <3>3, <1>1, <1>2, <1>4, <1>7
  <2>4. \A n \in Nat : n < N2[q] => /\ l2.next[A2[q][n]] = A2[q][n + 1]
                                    /\ s2[A2[q][n]] = "Waiting"
    <3> SUFFICES ASSUME NEW n \in Nat, n < N[q] - 1
                 PROVE  l2.next[A2[q][n]] = A2[q][n + 1] /\ s2[A2[q][n]] = "Waiting"
      BY <1>7
    <3>1. n + 1 \in Nat /\ n + 1 < N[q] /\ n + 1 # 0
      BY <1>2
    <3>2. A[q][n + 1] \in Thread /\ A[q][n + 1] # h
      BY <3>1, <1>8
    <3>3. l.next[A[q][n + 1]] = A[q][n + 1 + 1] /\ s[A[q][n + 1]] = "Waiting"
      BY <3>1, <1>2 DEF Chain
    <3> QED BY <3>1, <3>2, <3>3, <1>4, <1>7 DEF h
  <2>5. \A n \in Nat : n + 1 < N2[q] => l2.prev[A2[q][n + 1]] = A2[q][n]
    <3> SUFFICES ASSUME NEW n \in Nat, n + 1 < N[q] - 1
                 PROVE  l2.prev[A2[q][n + 1]] = A2[q][n]
      BY <1>7
    <3>1. n + 1 \in Nat /\ n + 1 + 1 \in Nat /\ n + 1 + 1 < N[q] /\ n + 1 + 1 # 1
      BY <1>2
    <3>2. A[q][n + 1 + 1] \in Thread /\ A[q][n + 1 + 1] # A[q][1]
      BY <3>1, <1>8
    <3>3. l.prev[A[q][n + 1 + 1]] = A[q][n + 1]
      BY <3>1, <1>2 DEF Chain
    <3> QED BY <3>1, <3>2, <3>3, <1>4, <1>7
  <2>6. N2[q] # 0 => l2.prev[A2[q][0]] = NoThread
    <3> SUFFICES ASSUME N2[q] # 0 PROVE l2.prev[A2[q][0]] = NoThread
      OBVIOUS
    <3>1. A2[q][0] = A[q][1] /\ 1 < N[q]
      BY <1>2, <1>3, <1>7
    <3> QED BY <3>1, <1>4, <1>8
  <2> HIDE DEF Orphan
  <2> QED BY <2>1, <2>2, <2>3, <2>4, <2>5, <2>6 DEF Chain
<1>12. Apart(N2, A2)
  <2> SUFFICES ASSUME NEW r \in WaitQueue, NEW u \in WaitQueue,
                      NEW m \in Nat, NEW n \in Nat,
                      m < N2[r], n < N2[u], A2[r][m] = A2[u][n]
               PROVE  r = u /\ m = n
    BY DEF Apart
  <2> DEFINE Old(w, x) == IF w = q THEN x + 1 ELSE x
  <2>1. ASSUME NEW w \in WaitQueue, NEW x \in Nat, x < N2[w]
        PROVE  Old(w, x) \in Nat /\ Old(w, x) < N[w] /\ A2[w][x] = A[w][Old(w, x)]
    BY <2>1, <1>2, <1>7
  <2>2. r = u /\ Old(r, m) = Old(u, n)
    <3> HIDE DEF Old
    <3> QED BY <2>1 DEF Represents, Apart
  <2> QED BY <2>2
<1>13. \A r \in WaitQueue \ {q} : l2.head[r] = l.head[r]
  BY <1>1, <1>4
<1>14. ASSUME NEW r \in WaitQueue, NEW u, On(N, A, r, u), u # h PROVE On(N2, A2, r, u)
  <2>1. PICK n \in Nat : n < N[r] /\ u = A[r][n]
    BY <1>14 DEF On
  <2>2. CASE r # q
    BY <1>7, <2>1, <2>2 DEF On
  <2>3. CASE r = q
    <3>1. n # 0 /\ n - 1 \in Nat /\ n - 1 < N[q] - 1 /\ (n - 1) + 1 = n
      BY <1>2, <1>3, <1>14, <2>1, <2>3
    <3>2. A2[q][n - 1] = u /\ n - 1 < N2[q]
      BY <1>7, <2>1, <2>3, <3>1
    <3> QED BY <2>3, <3>1, <3>2 DEF On
  <2> QED BY <2>2, <2>3
<1>15. Shrunk(N, A, N2, A2, l.head[q])
  BY <1>14 DEF Shrunk, h
<1> QED BY <1>5, <1>6, <1>10, <1>11, <1>12, <1>13, <1>15 DEF Represents, l2

(* Taking any thread off its list leaves the rest of it, and the other lists. *)
LEMMA EraseKeeps ==
    ASSUME NEW l \in LinksType, NEW s \in [Thread -> States],
           NEW N \in Lengths, NEW A \in Places0, Represents(l, s, N, A),
           NEW q \in WaitQueue, NEW k \in Nat, k < N[q],
           NEW s2 \in [Thread -> States],
           \A u \in Thread : s[u] = "Waiting" /\ u # A[q][k] => s2[u] = "Waiting"
    PROVE  /\ Erasable(l, q, A[q][k])
           /\ OSEraseFromQueue(l, q, A[q][k]) \in LinksType
           /\ \E N2 \in Lengths, A2 \in Places0 :
                 Represents(OSEraseFromQueue(l, q, A[q][k]), s2, N2, A2)
<1> DEFINE t == A[q][k]
           a == A[q][k + 1]
           b == IF k = 0 THEN NoThread ELSE A[q][k - 1]
           l2 == OSEraseFromQueue(l, q, t)
           N2 == [N EXCEPT ![q] = @ - 1]
           A2 == [A EXCEPT ![q] = [n \in Nat |-> IF n < k THEN A[q][n] ELSE A[q][n + 1]]]
<1>1. /\ l.head \in [WaitQueue -> Link] /\ l.tail \in [WaitQueue -> Link]
      /\ l.next \in [Thread -> Link] /\ l.prev \in [Thread -> Link]
      /\ l = [head |-> l.head, tail |-> l.tail, next |-> l.next, prev |-> l.prev]
  BY DEF LinksType
<1>2. \A r \in WaitQueue : N[r] \in Nat /\ Chain(l, s, N, A, r)
  BY DEF Lengths, Represents
<1>3. /\ k + 1 \in Nat /\ (k # 0 => k - 1 \in Nat /\ k - 1 < N[q] /\ (k - 1) + 1 = k)
      /\ N[q] - 1 \in Nat /\ N[q] - 1 < N[q] /\ 0 < N[q]
  BY <1>2
<1>4. \A r \in WaitQueue, n \in Nat : n < N[r] =>
         A[r][n] \in Thread /\ (A[r][n] = t => r = q /\ n = k)
                            /\ (A[r][n] = a => r = q /\ n = k + 1)
                            /\ (A[r][n] = b => r = q /\ n + 1 = k)
                            /\ (A[r][n] = A[q][0] => r = q /\ n = 0)
                            /\ (A[r][n] = A[q][N[q] - 1] => r = q /\ n = N[q] - 1)
  <2>1. \A r \in WaitQueue, n \in Nat : n < N[r] => A[r][n] \in Thread
    BY <1>2 DEF Chain, Places0, Link
  <2>2. a # NoThread => k + 1 < N[q]
    BY <1>2, <1>3 DEF Chain
  <2>3. \A r \in WaitQueue, n \in Nat, m \in Nat :
           n < N[r] /\ m < N[q] /\ A[r][n] = A[q][m] => r = q /\ n = m
    BY DEF Represents, Apart
  <2> QED BY <2>1, <2>2, <2>3, <1>3
<1>5. /\ t \in Thread /\ a \in Link /\ b \in Link
      /\ l.next[t] = a /\ (k # 0 => l.prev[t] = b /\ b \in Thread)
      /\ (a # NoThread <=> k + 1 < N[q])
      /\ l.head[q] = A[q][0] /\ l.tail[q] = A[q][N[q] - 1]
      /\ t # NoThread
  <2>1. k # 0 => l.prev[A[q][(k - 1) + 1]] = A[q][k - 1]
    BY <1>2, <1>3 DEF Chain
  <2>2. k # 0 => A[q][k - 1] \in Thread
    BY <1>3, <1>4
  <2>3. b \in Link
    BY <2>2 DEF Link
  <2> QED BY <1>2, <1>3, <1>4, <2>1, <2>2, <2>3 DEF Chain, Places0, Link
<1>6. /\ Erasable(l, q, t)
      /\ l.head[q] = t <=> k = 0
      /\ l.tail[q] = t <=> k = N[q] - 1
  <2>1. /\ l.head[q] = t <=> k = 0
        /\ l.tail[q] = t <=> k = N[q] - 1
    BY <1>3, <1>4, <1>5
  <2>2. k # 0 /\ k # N[q] - 1 => l.prev[t] # NoThread /\ l.next[t] # NoThread
    BY <1>2, <1>5
  <2> QED BY <2>1, <2>2 DEF Erasable
<1>7. /\ l2 \in LinksType
      /\ l2.head = [l.head EXCEPT ![q] = IF k = 0 THEN a ELSE @]
      /\ l2.tail = [l.tail EXCEPT ![q] = IF k = N[q] - 1 THEN b ELSE @]
      /\ \A u \in Thread : l2.next[u] = IF u = b THEN a ELSE l.next[u]
      /\ \A u \in Thread : l2.prev[u] = IF u = a THEN b ELSE l.prev[u]
  <2> PICK x : x = t
    OBVIOUS
  <2> PICK y, z : y = a /\ z = b
    OBVIOUS
  <2>0. /\ x \in Thread /\ y \in Link /\ z \in Link /\ l.next[x] = y /\ NoThread \notin Thread
        /\ (y # NoThread <=> k + 1 < N[q]) /\ (k # 0 => l.prev[x] = z /\ z \in Thread)
        /\ (k = 0 => z = NoThread) /\ N[q] \in Nat
        /\ l.head[q] = x <=> k = 0
        /\ l.tail[q] = x <=> k = N[q] - 1
        /\ l2 = OSEraseFromQueue(l, q, x)
    BY <1>2, <1>5, <1>6
  <2> HIDE DEF a, b, t, l2
  <2>1. CASE k = 0
    <3>1. l2 = [l EXCEPT !.head[q] = y,
                         !.tail[q] = IF y = NoThread THEN NoThread ELSE @,
                         !.prev = IF y = NoThread THEN @ ELSE [@ EXCEPT ![y] = NoThread]]
      BY <2>0, <2>1 DEF OSEraseFromQueue
    <3>2. /\ l2.head = [l.head EXCEPT ![q] = y]
          /\ l2.tail = [l.tail EXCEPT ![q] = IF y = NoThread THEN NoThread ELSE l.tail[q]]
          /\ l2.prev = IF y = NoThread THEN l.prev ELSE [l.prev EXCEPT ![y] = NoThread]
          /\ l2.next = l.next
          /\ l2 = [head |-> l2.head, tail |-> l2.tail, next |-> l2.next, prev |-> l2.prev]
      BY <1>1, <3>1
    <3>3. l2 \in LinksType
      BY <1>1, <2>0, <3>2 DEF LinksType, Link
    <3>4. y = NoThread <=> k = N[q] - 1
      BY <2>0, <2>1
    <3> QED BY <1>1, <2>0, <2>1, <3>2, <3>3, <3>4 DEF Link
  <2>2. CASE k # 0 /\ k = N[q] - 1
    <3>1. l2 = [l EXCEPT !.tail[q] = z,
                         !.next = IF z = NoThread THEN @ ELSE [@ EXCEPT ![z] = NoThread]]
      BY <2>0, <2>2 DEF OSEraseFromQueue
    <3>2. /\ l2.head = l.head /\ l2.prev = l.prev
          /\ l2.tail = [l.tail EXCEPT ![q] = z]
          /\ l2.next = [l.next EXCEPT ![z] = NoThread]
          /\ l2 = [head |-> l2.head, tail |-> l2.tail, next |-> l2.next, prev |-> l2.prev]
      BY <1>1, <2>0, <2>2, <3>1
    <3>3. l2 \in LinksType
      BY <1>1, <2>0, <3>2 DEF LinksType, Link
    <3>4. y = NoThread
      BY <2>0, <2>2
    <3> QED BY <1>1, <2>0, <2>2, <3>2, <3>3, <3>4 DEF Link
  <2>3. CASE k # 0 /\ k # N[q] - 1
    <3>1. l2 = [l EXCEPT !.next[z] = y, !.prev[y] = z]
      BY <2>0, <2>3 DEF OSEraseFromQueue
    <3>2. /\ l2.head = l.head /\ l2.tail = l.tail
          /\ l2.next = [l.next EXCEPT ![z] = y]
          /\ l2.prev = [l.prev EXCEPT ![y] = z]
          /\ l2 = [head |-> l2.head, tail |-> l2.tail, next |-> l2.next, prev |-> l2.prev]
      BY <1>1, <3>1
    <3>3. l2 \in LinksType
      BY <1>1, <2>0, <3>2 DEF LinksType, Link
    <3>4. y # NoThread /\ y \in Thread
      BY <2>0, <2>3 DEF Link
    <3> QED BY <1>1, <2>0, <2>3, <3>2, <3>3, <3>4
  <2> QED BY <2>1, <2>2, <2>3
<1>8. N2 \in Lengths /\ A2 \in Places0
  BY <1>2, <1>3 DEF Lengths, Places0, Link
<1>9. /\ N2[q] = N[q] - 1 /\ N2[q] \in Nat
      /\ \A n \in Nat : A2[q][n] = IF n < k THEN A[q][n] ELSE A[q][n + 1]
      /\ \A r \in WaitQueue \ {q} : N2[r] = N[r] /\ A2[r] = A[r]
  BY <1>2, <1>3 DEF Lengths, Places0
<1> DEFINE Old(n) == IF n < k THEN n ELSE n + 1
<1>10. ASSUME NEW n \in Nat, n < N2[q]
       PROVE  Old(n) \in Nat /\ Old(n) < N[q] /\ Old(n) # k /\ A2[q][n] = A[q][Old(n)]
  BY <1>2, <1>3, <1>9, <1>10
<1> HIDE DEF l2, N2, A2
<1>11. \A u : Orphan(s, A, u) => Orphan(s2, A2, u)
  <2> SUFFICES ASSUME NEW u, Orphan(s, A, u), NEW r \in WaitQueue, NEW n \in Nat
               PROVE  u \in Thread /\ s2[u] = "Waiting" /\ A2[r][n] # u
    BY DEF Orphan
  <2>1. u \in Thread /\ u # t /\ s[u] = "Waiting"
    BY DEF Orphan
  <2>2. A[r][n] # u /\ A[r][n + 1] # u
    BY DEF Orphan
  <2> QED BY <2>1, <2>2, <1>9
<1>12. ASSUME NEW r \in WaitQueue \ {q} PROVE Chain(l2, s2, N2, A2, r)
  <2>1. \A n \in Nat : n < N[r] => /\ A[r][n] \in Thread
                                   /\ A[r][n] # t /\ A[r][n] # a /\ A[r][n] # b
    BY <1>4
  <2>2. \A n \in Nat : n < N[r] => s2[A[r][n]] = "Waiting"
    BY <1>2, <2>1 DEF Chain
  <2> HIDE DEF t, a, b
  <2>3. /\ l2.head[r] = l.head[r] /\ l2.tail[r] = l.tail[r]
        /\ \A n \in Nat : n < N[r] => /\ l2.next[A[r][n]] = l.next[A[r][n]]
                                      /\ l2.prev[A[r][n]] = l.prev[A[r][n]]
                                      /\ s2[A[r][n]] = "Waiting"
    BY <2>1, <2>2, <1>1, <1>7
  <2> QED BY <2>3, <1>2, <1>9, <1>11, ChainKept
<1>13. Chain(l2, s2, N2, A2, q)
  <2>1. \A n \in Nat : A2[q][n] # NoThread <=> n < N2[q]
    <3> SUFFICES ASSUME NEW n \in Nat PROVE A2[q][n] # NoThread <=> n < N[q] - 1
      BY <1>9
    <3>1. n + 1 \in Nat /\ \A m \in Nat : A[q][m] # NoThread <=> m < N[q]
      BY <1>2 DEF Chain
    <3> QED BY <3>1, <1>2, <1>9
  <2>2. l2.head[q] = A2[q][0]
    BY <1>1, <1>3, <1>5, <1>7, <1>9
  <2>3. l2.tail[q] = IF N2[q] = 0 THEN NoThread ELSE A2[q][N2[q] - 1]
    <3>1. CASE k = N[q] - 1
      <4>1. N2[q] # 0 => A2[q][N2[q] - 1] = A[q][k - 1]
        BY <3>1, <1>2, <1>9
      <4> QED BY <3>1, <4>1, <1>1, <1>2, <1>7, <1>9
    <3>2. CASE k # N[q] - 1
      <4>1. N2[q] # 0 /\ A2[q][N2[q] - 1] = A[q][N[q] - 1]
        BY <3>2, <1>2, <1>9
      <4> QED BY <3>2, <4>1, <1>1, <1>5, <1>7
    <3> QED BY <3>1, <3>2
  <2>4. ASSUME NEW n \in Nat, n < N2[q]
        PROVE  l2.next[A2[q][n]] = A2[q][n + 1] /\ s2[A2[q][n]] = "Waiting"
    <3>1. /\ Old(n) \in Nat /\ Old(n) < N[q] /\ Old(n) # k /\ A2[q][n] = A[q][Old(n)]
      BY <2>4, <1>10
    <3>2. /\ A[q][Old(n)] \in Thread /\ A[q][Old(n)] # t
          /\ A[q][Old(n)] = b <=> Old(n) + 1 = k
      <4>1. Old(n) + 1 = k => A[q][Old(n)] = b
        BY <1>3, <3>1
      <4> QED BY <3>1, <4>1, <1>4
    <3>3. l.next[A[q][Old(n)]] = A[q][Old(n) + 1] /\ s[A[q][Old(n)]] = "Waiting"
      BY <3>1, <1>2 DEF Chain
    <3>4. A2[q][n + 1] = IF n + 1 < k THEN A[q][n + 1] ELSE A[q][n + 1 + 1]
      BY <1>9
    <3>5. s2[A2[q][n]] = "Waiting"
      BY <3>1, <3>2, <3>3
    <3>6. l2.next[A2[q][n]] = IF Old(n) + 1 = k THEN a ELSE A[q][Old(n) + 1]
      <4> HIDE DEF a, b, t, Old
      <4> QED BY <3>1, <3>2, <3>3, <1>7
    <3>7. CASE n + 1 = k
      BY <3>4, <3>5, <3>6, <3>7
    <3>8. CASE n + 1 # k
      BY <3>1, <3>4, <3>5, <3>6, <3>8
    <3> QED BY <3>7, <3>8
  <2>5. ASSUME NEW n \in Nat, n + 1 < N2[q]
        PROVE  l2.prev[A2[q][n + 1]] = A2[q][n]
    <3>1. /\ n + 1 \in Nat /\ n < N2[q]
          /\ Old(n) \in Nat /\ Old(n + 1) \in Nat /\ Old(n + 1) < N[q] /\ Old(n + 1) # k
          /\ A2[q][n + 1] = A[q][Old(n + 1)] /\ A2[q][n] = A[q][Old(n)]
      BY <2>5, <1>9, <1>10
    <3>2. /\ A[q][Old(n + 1)] \in Thread
          /\ A[q][Old(n + 1)] = a <=> Old(n + 1) = k + 1
      BY <3>1, <1>4
    <3>3. CASE n + 1 = k
      <4>1. A2[q][n] = b /\ A2[q][n + 1] = a
        BY <3>1, <3>3
      <4> QED BY <4>1, <3>1, <3>2, <1>7
    <3>4. CASE n + 1 # k
      <4>1. Old(n + 1) = Old(n) + 1 /\ Old(n + 1) # k + 1
        BY <3>4, <3>1
      <4>2. l.prev[A[q][Old(n) + 1]] = A[q][Old(n)]
        BY <4>1, <3>1, <1>2 DEF Chain
      <4> HIDE DEF a, b, t, Old
      <4> QED BY <4>1, <4>2, <3>1, <3>2, <1>7
    <3> QED BY <3>3, <3>4
  <2>6. l2.prev[A2[q][0]] # NoThread => N2[q] = 0 \/ Orphan(s2, A2, l2.prev[A2[q][0]])
    <3> SUFFICES ASSUME N2[q] # 0
                 PROVE  \/ l2.prev[A2[q][0]] = NoThread
                        \/ Orphan(s2, A2, l2.prev[A2[q][0]])
      OBVIOUS
    <3>1. CASE k = 0
      <4>1. A2[q][0] = a /\ a \in Thread /\ b = NoThread
        BY <3>1, <1>2, <1>5, <1>9 DEF Link
      <4> QED BY <4>1, <1>7
    <3>2. CASE k # 0
      <4>1. A2[q][0] = A[q][0] /\ A[q][0] \in Thread /\ A[q][0] # a
        BY <3>2, <1>3, <1>4, <1>9
      <4>2. l2.prev[A2[q][0]] = l.prev[A[q][0]]
        <5> HIDE DEF a, b, t
        <5> QED BY <4>1, <1>7
      <4>3. l.prev[A[q][0]] = NoThread \/ Orphan(s, A, l.prev[A[q][0]])
        <5> HIDE DEF Orphan
        <5> QED BY <1>2, <1>3 DEF Chain
      <4> HIDE DEF Orphan
      <4> QED BY <4>2, <4>3, <1>11
    <3> QED BY <3>1, <3>2
  <2> HIDE DEF Orphan
  <2> QED BY <2>1, <2>2, <2>3, <2>4, <2>5, <2>6 DEF Chain
<1>14. Apart(N2, A2)
  <2> SUFFICES ASSUME NEW r \in WaitQueue, NEW u \in WaitQueue,
                      NEW m \in Nat, NEW n \in Nat,
                      m < N2[r], n < N2[u], A2[r][m] = A2[u][n]
               PROVE  r = u /\ m = n
    BY DEF Apart
  <2> DEFINE Was(w, x) == IF w = q THEN Old(x) ELSE x
  <2>1. ASSUME NEW w \in WaitQueue, NEW x \in Nat, x < N2[w]
        PROVE  Was(w, x) \in Nat /\ Was(w, x) < N[w] /\ A2[w][x] = A[w][Was(w, x)]
    BY <2>1, <1>2, <1>9, <1>10
  <2>2. r = u /\ Was(r, m) = Was(u, n)
    <3> HIDE DEF Was, Old
    <3> QED BY <2>1 DEF Represents, Apart
  <2> QED BY <2>2
<1> QED BY <1>6, <1>7, <1>8, <1>12, <1>13, <1>14 DEF Represents, l2

-----------------------------------------------------------------------------
(* The same in terms of what a wake-up of a queue reaches.                   *)

\* The links are those of lists of threads that wait.
Lists(l, s) == \E N \in Lengths, A \in Places0 : Represents(l, s, N, A)

LEMMA ListedOn ==
    ASSUME NEW l \in LinksType, NEW s \in [Thread -> States],
           NEW N \in Lengths, NEW A \in Places0, Represents(l, s, N, A),
           NEW q \in WaitQueue
    PROVE  \A t : t \in Listed(l, q) <=> On(N, A, q, t)
BY ListedIs DEF On

(* Who is listed waits, in one queue only. *)
LEMMA ListedWait ==
    ASSUME NEW l \in LinksType, NEW s \in [Thread -> States], Lists(l, s),
           NEW q \in WaitQueue
    PROVE  /\ Listed(l, q) \subseteq Thread
           /\ \A t \in Listed(l, q) : s[t] = "Waiting"
           /\ \A r \in WaitQueue, t \in Listed(l, q) : t \in Listed(l, r) => r = q
<1>1. PICK N \in Lengths, A \in Places0 : Represents(l, s, N, A)
  BY DEF Lists
<1>2. \A r \in WaitQueue : /\ \A t : t \in Listed(l, r) <=> On(N, A, r, t)
                           /\ Listed(l, r) \subseteq Thread
  BY <1>1, ListedOn, ListedIs
<1>3. \A t : On(N, A, q, t) => s[t] = "Waiting"
  BY <1>1 DEF On, Represents, Chain
<1>4. \A r \in WaitQueue : \A t : On(N, A, q, t) /\ On(N, A, r, t) => r = q
  BY <1>1 DEF On, Represents, Apart
<1> QED BY <1>2, <1>3, <1>4

(* A queue without a head has an empty list. *)
LEMMA EmptyLists ==
    ASSUME NEW s \in [Thread -> States]
    PROVE  /\ EmptyLinks \in LinksType /\ Lists(EmptyLinks, s)
           /\ \A q \in WaitQueue : Listed(EmptyLinks, q) = {}
<1> DEFINE N == [q \in WaitQueue |-> 0]
           A == [q \in WaitQueue |-> [n \in Nat |-> NoThread]]
           l == EmptyLinks
<1>1. l \in LinksType
  BY DEF EmptyLinks, LinksType, Link
<1>2. N \in Lengths /\ A \in Places0
  BY DEF Lengths, Places0, Link
<1>3. ASSUME NEW q \in WaitQueue PROVE Chain(l, s, N, A, q)
  <2>1. N[q] = 0 /\ \A n \in Nat : A[q][n] = NoThread
    OBVIOUS
  <2>2. l.head[q] = NoThread /\ l.tail[q] = NoThread
    BY DEF EmptyLinks
  <2> HIDE DEF N, A, l
  <2> QED BY <2>1, <2>2 DEF Chain
<1>4. Apart(N, A)
  BY DEF Apart
<1>5. \A q \in WaitQueue : N[q] = 0
  OBVIOUS
<1> HIDE DEF N, A, l
<1>6. Represents(l, s, N, A)
  BY <1>3, <1>4 DEF Represents
<1>7. \A q \in WaitQueue : Listed(l, q) = {}
  <2> SUFFICES ASSUME NEW q \in WaitQueue PROVE Listed(l, q) = {}
    OBVIOUS
  <2>1. \A t : t \in Listed(l, q) <=> \E n \in Nat : n < N[q] /\ t = A[q][n]
    BY <1>1, <1>2, <1>6, ListedIs
  <2> QED BY <1>5, <2>1
<1> QED BY <1>1, <1>2, <1>6, <1>7 DEF Lists, l

(* The lists do not depend on threads that do not wait. *)
LEMMA ListsStay ==
    ASSUME NEW l \in LinksType, NEW s \in [Thread -> States], Lists(l, s),
           NEW s2 \in [Thread -> States],
           \A u \in Thread : s[u] = "Waiting" => s2[u] = "Waiting"
    PROVE  Lists(l, s2)
<1>1. PICK N \in Lengths, A \in Places0 : Represents(l, s, N, A)
  BY DEF Lists
<1>2. \A u : Orphan(s, A, u) => Orphan(s2, A, u)
  BY DEF Orphan
<1>3. ASSUME NEW q \in WaitQueue PROVE Chain(l, s2, N, A, q)
  <2>1. Chain(l, s, N, A, q) /\ N[q] \in Nat
    BY <1>1 DEF Represents, Lengths
  <2>2. \A n \in Nat : n < N[q] => s2[A[q][n]] = "Waiting"
    BY <2>1 DEF Chain, Places0, Link
  <2> QED BY <1>2, <2>1, <2>2, ChainKept
<1>4. Represents(l, s2, N, A)
  BY <1>1, <1>3 DEF Represents
<1> QED BY <1>4 DEF Lists

(* Going to sleep on q. *)
LEMMA SleepLists ==
    ASSUME NEW l \in LinksType, NEW s \in [Thread -> States], Lists(l, s),
           NEW q \in WaitQueue, NEW t \in Thread, s[t] # "Waiting",
           NEW s2 \in [Thread -> States], s2[t] = "Waiting",
           \A u \in Thread : s[u] = "Waiting" => s2[u] = "Waiting",
           NEW l2, l2 = OSInsertThreadQueue(l, q, t)
    PROVE  /\ l2 \in LinksType /\ Lists(l2, s2)
           /\ \A r \in WaitQueue \ {q} : Listed(l2, r) = Listed(l, r)
           /\ Listed(l, q) \subseteq Listed(l2, q)
           /\ Listed(l2, q) \subseteq Listed(l, q) \cup {t}
           /\ t \in Listed(l2, q) \/ PutBeforeHead(l, l2, q, t)
<1>1. PICK N \in Lengths, A \in Places0 : Represents(l, s, N, A)
  BY DEF Lists
<1>2. /\ OSInsertThreadQueue(l, q, t) \in LinksType
      /\ \E N2 \in Lengths, A2 \in Places0 :
            /\ Represents(OSInsertThreadQueue(l, q, t), s2, N2, A2)
            /\ Grown(N, A, N2, A2, q, t)
            /\ \/ On(N2, A2, q, t)
               \/ PutBeforeHead(l, OSInsertThreadQueue(l, q, t), q, t)
  BY <1>1, InsertKeeps
<1>3. l2 \in LinksType
  BY <1>2
<1>4. PICK N2 \in Lengths, A2 \in Places0 : /\ Represents(l2, s2, N2, A2)
                                            /\ Grown(N, A, N2, A2, q, t)
                                            /\ \/ On(N2, A2, q, t)
                                               \/ PutBeforeHead(l, l2, q, t)
  BY <1>2
<1>5. \A r \in WaitQueue : \A u : u \in Listed(l, r) <=> On(N, A, r, u)
  BY <1>1, ListedOn
<1>6. \A r \in WaitQueue : \A u : u \in Listed(l2, r) <=> On(N2, A2, r, u)
  BY <1>3, <1>4, ListedOn
<1> HIDE DEF On
<1>7. \A r \in WaitQueue \ {q} : Listed(l2, r) = Listed(l, r)
  BY <1>4, <1>5, <1>6 DEF Grown
<1>8. /\ Listed(l, q) \subseteq Listed(l2, q)
      /\ Listed(l2, q) \subseteq Listed(l, q) \cup {t}
      /\ t \in Listed(l2, q) \/ PutBeforeHead(l, l2, q, t)
  BY <1>4, <1>5, <1>6 DEF Grown
<1> QED BY <1>3, <1>4, <1>7, <1>8 DEF Lists

(* Waking the first of q. *)
LEMMA PopLists ==
    ASSUME NEW l \in LinksType, NEW s \in [Thread -> States], Lists(l, s),
           NEW q \in WaitQueue, l.head[q] # NoThread, NEW s2 \in [Thread -> States],
           \A u \in Thread : s[u] = "Waiting" /\ u # l.head[q] => s2[u] = "Waiting",
           NEW l2, l2 = OSPopFrontFromQueue(l, q)
    PROVE  /\ l2 \in LinksType /\ Lists(l2, s2)
           /\ \A r \in WaitQueue : Listed(l, r) \ {l.head[q]} \subseteq Listed(l2, r)
<1>1. PICK N \in Lengths, A \in Places0 : Represents(l, s, N, A)
  BY DEF Lists
<1>2. /\ l2 \in LinksType
      /\ \E N2 \in Lengths, A2 \in Places0 :
            Represents(l2, s2, N2, A2) /\ Shrunk(N, A, N2, A2, l.head[q])
  BY <1>1, PopKeeps
<1>3. PICK N2 \in Lengths, A2 \in Places0 :
         Represents(l2, s2, N2, A2) /\ Shrunk(N, A, N2, A2, l.head[q])
  BY <1>2
<1>4. \A r \in WaitQueue : \A u : u \in Listed(l, r) <=> On(N, A, r, u)
  BY <1>1, ListedOn
<1>5. \A r \in WaitQueue : \A u : u \in Listed(l2, r) <=> On(N2, A2, r, u)
  BY <1>2, <1>3, ListedOn
<1> HIDE DEF On
<1> QED BY <1>2, <1>3, <1>4, <1>5 DEF Shrunk, Lists

(* Taking a thread off its list, wherever it is there. *)
LEMMA EraseLists ==
    ASSUME NEW l \in LinksType, NEW s \in [Thread -> States], Lists(l, s),
           NEW q \in WaitQueue, NEW t \in Listed(l, q), NEW s2 \in [Thread -> States],
           \A u \in Thread : s[u] = "Waiting" /\ u # t => s2[u] = "Waiting",
           NEW l2, l2 = OSEraseFromQueue(l, q, t)
    PROVE  Erasable(l, q, t) /\ l2 \in LinksType /\ Lists(l2, s2)
<1>1. PICK N \in Lengths, A \in Places0 : Represents(l, s, N, A)
  BY DEF Lists
<1>2. PICK k \in Nat : k < N[q] /\ t = A[q][k]
  BY <1>1, ListedOn DEF On
<1>3. /\ Erasable(l, q, A[q][k])
      /\ OSEraseFromQueue(l, q, A[q][k]) \in LinksType
      /\ \E N2 \in Lengths, A2 \in Places0 :
            Represents(OSEraseFromQueue(l, q, A[q][k]), s2, N2, A2)
  BY <1>1, <1>2, EraseKeeps
<1> QED BY <1>2, <1>3 DEF Lists

(* The head of a queue is on its list. *)
LEMMA HeadListed ==
    ASSUME NEW l \in LinksType, NEW s \in [Thread -> States], Lists(l, s),
           NEW q \in WaitQueue, l.head[q] # NoThread
    PROVE  l.head[q] \in Listed(l, q)
<1>1. PICK N \in Lengths, A \in Places0 : Represents(l, s, N, A)
  BY DEF Lists
<1>2. l.head[q] = A[q][0] /\ 0 < N[q]
  BY <1>1 DEF Represents, Chain
<1> QED BY <1>1, <1>2, ListedOn DEF On

(* Waking q, or forgetting who waits there. *)
LEMMA ClearLists ==
    ASSUME NEW l \in LinksType, NEW s \in [Thread -> States], Lists(l, s),
           NEW q \in WaitQueue, NEW s2 \in [Thread -> States],
           \A u \in Thread : s[u] = "Waiting" /\ u \notin Listed(l, q) => s2[u] = "Waiting",
           NEW l2, l2 = OSClearQueue(l, q)
    PROVE  /\ l2 \in LinksType /\ Lists(l2, s2)
           /\ \A r \in WaitQueue \ {q} : Listed(l2, r) = Listed(l, r)
           /\ Listed(l2, q) = {}
<1>1. PICK N \in Lengths, A \in Places0 : Represents(l, s, N, A)
  BY DEF Lists
<1>2. /\ OSClearQueue(l, q) \in LinksType
      /\ \E N2 \in Lengths, A2 \in Places0 :
            /\ Represents(OSClearQueue(l, q), s2, N2, A2)
            /\ Emptied(N, A, N2, A2, q)
  BY <1>1, ClearKeeps
<1>3. l2 \in LinksType
  BY <1>2
<1>4. PICK N2 \in Lengths, A2 \in Places0 : /\ Represents(l2, s2, N2, A2)
                                            /\ Emptied(N, A, N2, A2, q)
  BY <1>2
<1>5. \A r \in WaitQueue : \A u : u \in Listed(l, r) <=> On(N, A, r, u)
  BY <1>1, ListedOn
<1>6. \A r \in WaitQueue : \A u : u \in Listed(l2, r) <=> On(N2, A2, r, u)
  BY <1>3, <1>4, ListedOn
<1> HIDE DEF On
<1>7. \A r \in WaitQueue \ {q} : Listed(l2, r) = Listed(l, r)
  BY <1>4, <1>5, <1>6 DEF Emptied
<1>8. Listed(l2, q) = {}
  BY <1>4, <1>6 DEF Emptied
<1> QED BY <1>3, <1>4, <1>7, <1>8 DEF Lists


-----------------------------------------------------------------------------
(* Lists whose items stay in the order in which they were appended: with a    *)
(* rank for every item, a list is a set.                                      *)

RowType(X, Q) == [head : [Q -> X \cup {NoThread}], tail : [Q -> X \cup {NoThread}],
                  next : [X -> X \cup {NoThread}], prev : [X -> X \cup {NoThread}]]

\* Item a has nothing of E after it, or b is what comes next.
Follows(E, r, a, b) ==
    IF b = NoThread THEN \A x \in E : r[x] =< r[a]
    ELSE b \in E /\ r[a] < r[b] /\ \A x \in E : r[x] =< r[a] \/ r[b] =< r[x]

\* Item b has nothing of E before it, or a is what comes before.
Precedes(E, r, a, b) ==
    IF a = NoThread THEN \A x \in E : r[b] =< r[x]
    ELSE a \in E /\ r[a] < r[b] /\ \A x \in E : r[x] =< r[a] \/ r[b] =< r[x]

\* The list of queue q has the items of E, by rank.
Row(l, q, E, r) ==
    /\ IF E = {} THEN l.head[q] = NoThread /\ l.tail[q] = NoThread
       ELSE /\ l.head[q] \in E /\ \A x \in E : r[l.head[q]] =< r[x]
            /\ l.tail[q] \in E /\ \A x \in E : r[x] =< r[l.tail[q]]
    /\ \A a \in E : Follows(E, r, a, l.next[a]) /\ Precedes(E, r, l.prev[a], a)
    /\ \A a, b \in E : r[a] = r[b] => a = b

\* List l2 is l with item a appended to queue q, ...
Appended(X, Q, l, q, E, r, a, l2) ==
    /\ l2 \in RowType(X, Q)
    /\ \E r2 \in [X -> Nat] :
          /\ Row(l2, q, E \cup {a}, r2)
          /\ \A x \in E : r2[x] < r2[a]
          /\ \A x \in X : x # a => r2[x] = r[x]
    /\ \A d \in Q \ {q}, F \in SUBSET X, r2 \in [X -> Nat] :
          /\ F \cap (E \cup {a}) = {} /\ Row(l, d, F, r)
          /\ \A x \in X : x # a => r2[x] = r[x]
          => Row(l2, d, F, r2)

\* ... or taken off it; and the lists of the other queues are what they were.
Removed(X, Q, l, q, E, r, a, l2) ==
    /\ l2 \in RowType(X, Q)
    /\ Row(l2, q, E \ {a}, r)
    /\ \A x \in X \ E : l2.prev[x] = l.prev[x]
    /\ \A d \in Q \ {q}, F \in SUBSET X :
          F \cap E = {} /\ Row(l, d, F, r) => Row(l2, d, F, r)

(* OSAppendQueue puts the item at the end. *)
LEMMA RowAppend ==
    ASSUME NEW X, NoThread \notin X, NEW Q, NEW l \in RowType(X, Q), NEW q \in Q,
           NEW E \in SUBSET X, NEW r \in [X -> Nat], Row(l, q, E, r), NEW a \in X \ E,
           NEW l2, l2 = OSAppendQueue(l, q, a)
    PROVE  Appended(X, Q, l, q, E, r, a, l2)
<1> DEFINE t == l.tail[q]
<1>1. /\ l.head \in [Q -> X \cup {NoThread}] /\ l.tail \in [Q -> X \cup {NoThread}]
      /\ l.next \in [X -> X \cup {NoThread}] /\ l.prev \in [X -> X \cup {NoThread}]
  BY DEF RowType
<1>2. t = NoThread <=> E = {}
  BY DEF Row
<1>3. /\ l2.head = IF E = {} THEN [l.head EXCEPT ![q] = a] ELSE l.head
      /\ l2.tail = [l.tail EXCEPT ![q] = a]
      /\ l2.next = IF E = {} THEN [l.next EXCEPT ![a] = NoThread]
                   ELSE [[l.next EXCEPT ![a] = NoThread] EXCEPT ![t] = a]
      /\ l2.prev = [l.prev EXCEPT ![a] = t]
      /\ l2 = [head |-> l2.head, tail |-> l2.tail, next |-> l2.next, prev |-> l2.prev]
  BY <1>2 DEF OSAppendQueue, RowType
<1>4. l2 \in RowType(X, Q)
  <2>1. a \in X /\ t \in X \cup {NoThread} /\ (E # {} => t \in X)
    BY <1>1, <1>2
  <2>2. l2.head \in [Q -> X \cup {NoThread}]
    BY <1>1, <1>3, <2>1
  <2>3. l2.tail \in [Q -> X \cup {NoThread}]
    BY <1>1, <1>3, <2>1
  <2>4. l2.next \in [X -> X \cup {NoThread}]
    <3>1. [l.next EXCEPT ![a] = NoThread] \in [X -> X \cup {NoThread}]
      BY <1>1
    <3>2. E # {} => [[l.next EXCEPT ![a] = NoThread] EXCEPT ![t] = a] \in [X -> X \cup {NoThread}]
      BY <3>1, <2>1
    <3> QED BY <1>3, <3>1, <3>2
  <2>5. l2.prev \in [X -> X \cup {NoThread}]
    BY <1>1, <1>3, <2>1
  <2> QED BY <1>3, <2>2, <2>3, <2>4, <2>5 DEF RowType
<1>5. ASSUME NEW r2 \in [X -> Nat], \A x \in E : r2[x] < r2[a],
             \A x \in X : x # a => r2[x] = r[x]
      PROVE  Row(l2, q, E \cup {a}, r2)
  <2>1. CASE E = {}
    <3>1. l2.head[q] = a /\ l2.tail[q] = a /\ l2.next[a] = NoThread /\ l2.prev[a] = NoThread
      BY <1>1, <1>2, <1>3, <2>1
    <3>2. E \cup {a} = {a} /\ r2[a] \in Nat
      BY <2>1
    <3> QED BY <3>1, <3>2 DEF Row, Follows, Precedes
  <2>2. CASE E # {}
    <3>1. t \in E /\ t # a /\ t \in X /\ \A x \in E : r[x] =< r[t]
      BY <2>2 DEF Row
    <3>2. /\ l2.head[q] = l.head[q] /\ l2.tail[q] = a /\ l2.next[a] = NoThread
          /\ l2.prev[a] = t /\ l2.next[t] = a
          /\ \A x \in E : x # t => l2.next[x] = l.next[x]
          /\ \A x \in E : l2.prev[x] = l.prev[x]
      BY <1>1, <1>3, <2>2, <3>1
    <3>3. \A x \in E : r2[x] = r[x] /\ r2[x] < r2[a] /\ r2[x] \in Nat /\ r2[a] \in Nat
      BY <1>5
    <3>4. l2.head[q] \in E \cup {a} /\ \A x \in E \cup {a} : r2[l2.head[q]] =< r2[x]
      BY <2>2, <3>2, <3>3 DEF Row
    <3>5. l2.tail[q] \in E \cup {a} /\ \A x \in E \cup {a} : r2[x] =< r2[l2.tail[q]]
      BY <3>2, <3>3
    <3>6. ASSUME NEW x \in E \cup {a} PROVE Follows(E \cup {a}, r2, x, l2.next[x])
      <4>1. CASE x = a
        BY <3>2, <3>3, <4>1 DEF Follows
      <4>2. CASE x = t
        <5>1. a # NoThread /\ \A y \in E : r2[y] =< r2[t]
          BY <3>1, <3>3
        <5> QED BY <3>1, <3>2, <3>3, <4>2, <5>1 DEF Follows
      <4>3. CASE x # a /\ x # t
        <5>1. x \in E /\ l2.next[x] = l.next[x] /\ Follows(E, r, x, l.next[x])
          BY <3>2, <4>3 DEF Row
        <5>2. l.next[x] # NoThread
          <6>1. SUFFICES ASSUME l.next[x] = NoThread PROVE FALSE
            OBVIOUS
          <6>2. r[t] =< r[x] /\ r[x] =< r[t]
            BY <3>1, <5>1, <6>1 DEF Follows
          <6>3. r[t] = r[x]
            BY <3>1, <5>1, <6>2
          <6> QED BY <3>1, <4>3, <5>1, <6>3 DEF Row
        <5> QED BY <3>3, <5>1, <5>2 DEF Follows
      <4> QED BY <4>1, <4>2, <4>3
    <3>7. ASSUME NEW x \in E \cup {a} PROVE Precedes(E \cup {a}, r2, l2.prev[x], x)
      <4>1. CASE x = a
        <5>1. t # NoThread /\ \A y \in E : r2[y] =< r2[t]
          BY <3>1, <3>3
        <5> QED BY <3>1, <3>2, <3>3, <4>1, <5>1 DEF Precedes
      <4>2. CASE x # a
        <5>1. x \in E /\ l2.prev[x] = l.prev[x] /\ Precedes(E, r, l.prev[x], x)
          BY <3>2, <4>2 DEF Row
        <5> QED BY <3>3, <5>1 DEF Precedes
      <4> QED BY <4>1, <4>2
    <3>8. \A x, y \in E \cup {a} : r2[x] = r2[y] => x = y
      BY <3>3 DEF Row
    <3> QED BY <3>4, <3>5, <3>6, <3>7, <3>8 DEF Row
  <2> QED BY <2>1, <2>2
<1>6. \E r2 \in [X -> Nat] : /\ \A x \in E : r2[x] < r2[a]
                             /\ \A x \in X : x # a => r2[x] = r[x]
  <2> DEFINE m == IF E = {} THEN 0 ELSE r[t] + 1
             r2 == [r EXCEPT ![a] = m]
  <2>1. E # {} => t \in E /\ t \in X /\ \A x \in E : r[x] =< r[t]
    BY DEF Row
  <2>2. m \in Nat /\ \A x \in E : r[x] < m
    BY <2>1
  <2> HIDE DEF m
  <2>3. r2 \in [X -> Nat] /\ r2[a] = m /\ \A x \in X : x # a => r2[x] = r[x]
    BY <2>2
  <2> HIDE DEF r2
  <2> QED BY <2>2, <2>3
<1>7. ASSUME NEW d \in Q \ {q}, NEW F \in SUBSET X, NEW r2 \in [X -> Nat],
             F \cap (E \cup {a}) = {}, Row(l, d, F, r), \A x \in X : x # a => r2[x] = r[x]
      PROVE  Row(l2, d, F, r2)
  <2>1. \A x \in F : x # a /\ x \notin E /\ r2[x] = r[x]
    BY <1>7
  <2>2. E # {} => t \in E
    BY DEF Row
  <2>3. /\ l2.head[d] = l.head[d] /\ l2.tail[d] = l.tail[d]
        /\ \A x \in F : l2.next[x] = l.next[x] /\ l2.prev[x] = l.prev[x]
    BY <1>1, <1>3, <2>1, <2>2
  <2> QED BY <1>7, <2>1, <2>3 DEF Row, Follows, Precedes
<1> QED BY <1>4, <1>5, <1>6, <1>7 DEF Appended

(* What is in a list can be taken off. *)
LEMMA RowErasable ==
    ASSUME NEW X, NoThread \notin X, NEW Q, NEW l \in RowType(X, Q), NEW q \in Q,
           NEW E \in SUBSET X, NEW r \in [X -> Nat], Row(l, q, E, r), NEW a \in E
    PROVE  Erasable(l, q, a)
<1>1. a \in X /\ \A x \in E : r[x] \in Nat
  OBVIOUS
<1>2. ASSUME l.next[a] = NoThread PROVE l.tail[q] = a
  <2>1. l.tail[q] \in E /\ r[l.tail[q]] =< r[a] /\ r[a] =< r[l.tail[q]]
    BY <1>2 DEF Row, Follows
  <2> QED BY <1>1, <2>1 DEF Row
<1>3. ASSUME l.prev[a] = NoThread PROVE l.head[q] = a
  <2>1. l.head[q] \in E /\ r[l.head[q]] =< r[a] /\ r[a] =< r[l.head[q]]
    BY <1>3 DEF Row, Precedes
  <2> QED BY <1>1, <2>1 DEF Row
<1> QED BY <1>2, <1>3 DEF Erasable

(* OSEraseFromQueue takes the item out and keeps the order. *)
LEMMA RowErase ==
    ASSUME NEW X, NoThread \notin X, NEW Q, NEW l \in RowType(X, Q), NEW q \in Q,
           NEW E \in SUBSET X, NEW r \in [X -> Nat], Row(l, q, E, r), NEW a \in E,
           NEW l2, l2 = OSEraseFromQueue(l, q, a)
    PROVE  Removed(X, Q, l, q, E, r, a, l2)
<1> DEFINE n == l.next[a]
           p == l.prev[a]
<1>1. /\ l.head \in [Q -> X \cup {NoThread}] /\ l.tail \in [Q -> X \cup {NoThread}]
      /\ l.next \in [X -> X \cup {NoThread}] /\ l.prev \in [X -> X \cup {NoThread}]
  BY DEF RowType
<1>2. /\ a \in X /\ \A x \in E : r[x] \in Nat /\ x \in X /\ x # NoThread
      /\ \A x, y \in E : r[x] = r[y] => x = y
      /\ l.head[q] \in E /\ \A x \in E : r[l.head[q]] =< r[x]
      /\ l.tail[q] \in E /\ \A x \in E : r[x] =< r[l.tail[q]]
      /\ \A x \in E : Follows(E, r, x, l.next[x]) /\ Precedes(E, r, l.prev[x], x)
  BY DEF Row
<1>3. /\ n = NoThread <=> l.tail[q] = a
      /\ p = NoThread <=> l.head[q] = a
      /\ n # NoThread => n \in E /\ r[a] < r[n]
      /\ p # NoThread => p \in E /\ r[p] < r[a]
  <2>1. Follows(E, r, a, n) /\ Precedes(E, r, p, a)
    BY <1>2
  <2>2. n # NoThread => n \in E /\ r[a] < r[n]
    BY <2>1 DEF Follows
  <2>3. p # NoThread => p \in E /\ r[p] < r[a]
    BY <2>1 DEF Precedes
  <2>4. ASSUME n = NoThread PROVE l.tail[q] = a
    <3>1. r[l.tail[q]] =< r[a] /\ r[a] =< r[l.tail[q]] /\ r[a] \in Nat /\ r[l.tail[q]] \in Nat
      BY <1>2, <2>1, <2>4 DEF Follows
    <3>2. r[a] = r[l.tail[q]]
      BY <3>1
    <3> QED BY <1>2, <3>2
  <2>5. ASSUME p = NoThread PROVE l.head[q] = a
    <3>1. r[l.head[q]] =< r[a] /\ r[a] =< r[l.head[q]] /\ r[a] \in Nat /\ r[l.head[q]] \in Nat
      BY <1>2, <2>1, <2>5 DEF Precedes
    <3>2. r[a] = r[l.head[q]]
      BY <3>1
    <3> QED BY <1>2, <3>2
  <2>6. ASSUME n # NoThread, l.tail[q] = a PROVE FALSE
    <3>1. r[n] =< r[a] /\ r[a] < r[n] /\ r[a] \in Nat /\ r[n] \in Nat
      BY <1>2, <2>2, <2>6
    <3> QED BY <3>1
  <2>7. ASSUME p # NoThread, l.head[q] = a PROVE FALSE
    <3>1. r[a] =< r[p] /\ r[p] < r[a] /\ r[a] \in Nat /\ r[p] \in Nat
      BY <1>2, <2>3, <2>7
    <3> QED BY <3>1
  <2> QED BY <2>2, <2>3, <2>4, <2>5, <2>6, <2>7
<1>4. /\ l2.head = IF p = NoThread THEN [l.head EXCEPT ![q] = n] ELSE l.head
      /\ l2.tail = IF n = NoThread THEN [l.tail EXCEPT ![q] = p] ELSE l.tail
      /\ l2.next = IF p = NoThread THEN l.next ELSE [l.next EXCEPT ![p] = n]
      /\ l2.prev = IF n = NoThread THEN l.prev ELSE [l.prev EXCEPT ![n] = p]
      /\ l2 = [head |-> l2.head, tail |-> l2.tail, next |-> l2.next, prev |-> l2.prev]
  <2>1. CASE p = NoThread /\ n = NoThread
    BY <1>3, <2>1 DEF OSEraseFromQueue, RowType
  <2>2. CASE p = NoThread /\ n # NoThread
    BY <1>1, <1>3, <2>2 DEF OSEraseFromQueue, RowType
  <2>3. CASE p # NoThread /\ n = NoThread
    BY <1>3, <2>3 DEF OSEraseFromQueue, RowType
  <2>4. CASE p # NoThread /\ n # NoThread
    BY <1>3, <2>4 DEF OSEraseFromQueue, RowType
  <2> QED BY <2>1, <2>2, <2>3, <2>4
<1>5. n \in X \cup {NoThread} /\ p \in X \cup {NoThread}
  BY <1>1, <1>2
<1>6. l2 \in RowType(X, Q)
  <2>1. /\ l2.head \in [Q -> X \cup {NoThread}] /\ l2.tail \in [Q -> X \cup {NoThread}]
        /\ l2.next \in [X -> X \cup {NoThread}] /\ l2.prev \in [X -> X \cup {NoThread}]
    BY <1>1, <1>4, <1>5
  <2> QED BY <1>4, <2>1 DEF RowType
<1>7. /\ l2.head[q] = IF p = NoThread THEN n ELSE l.head[q]
      /\ l2.tail[q] = IF n = NoThread THEN p ELSE l.tail[q]
      /\ \A x \in X : l2.next[x] = IF x = p THEN n ELSE l.next[x]
      /\ \A x \in X : l2.prev[x] = IF x = n THEN p ELSE l.prev[x]
  BY <1>1, <1>2, <1>4
<1> DEFINE G == E \ {a}
<1>8. ASSUME NEW x \in G PROVE Follows(G, r, x, l2.next[x])
  <2>1. x \in E /\ x # a /\ x \in X /\ Follows(E, r, x, l.next[x]) /\ r[x] \in Nat /\ r[a] \in Nat
    BY <1>2
  <2>2. Follows(E, r, a, n) /\ Precedes(E, r, p, a)
    BY <1>2
  <2>3. CASE x = p
    <3>1. l2.next[x] = n /\ x # NoThread
      BY <1>7, <2>1, <2>3, <1>2
    <3>2. r[x] < r[a] /\ \A y \in E : r[y] =< r[x] \/ r[a] =< r[y]
      BY <2>2, <2>3, <3>1 DEF Precedes
    <3>3. \A y \in G : r[y] =< r[x] \/ r[a] < r[y]
      BY <1>2, <2>1, <3>2
    <3>4. CASE n = NoThread
      <4>1. \A y \in E : r[y] =< r[a]
        BY <2>2, <3>4 DEF Follows
      <4>2. \A y \in G : r[y] =< r[x]
        BY <1>2, <2>1, <3>3, <4>1
      <4> QED BY <3>1, <3>4, <4>2 DEF Follows
    <3>5. CASE n # NoThread
      <4>1. n \in E /\ n # a /\ r[a] < r[n] /\ r[n] \in Nat
            /\ \A y \in E : r[y] =< r[a] \/ r[n] =< r[y]
        BY <1>2, <2>2, <3>5 DEF Follows
      <4>2. r[x] < r[n] /\ \A y \in G : r[y] =< r[x] \/ r[n] =< r[y]
        BY <1>2, <2>1, <3>2, <3>3, <4>1
      <4> QED BY <3>1, <3>5, <4>1, <4>2 DEF Follows
    <3> QED BY <3>4, <3>5
  <2>4. CASE x # p
    <3>1. l2.next[x] = l.next[x]
      BY <1>7, <2>1, <2>4
    <3>2. l.next[x] # a
      <4>1. SUFFICES ASSUME l.next[x] = a PROVE FALSE
        OBVIOUS
      <4>2. r[x] < r[a] /\ \A y \in E : r[y] =< r[x] \/ r[a] =< r[y]
        BY <1>2, <2>1, <4>1 DEF Follows
      <4>3. CASE p = NoThread
        <5>1. r[a] =< r[x]
          BY <2>1, <2>2, <4>3 DEF Precedes
        <5> QED BY <2>1, <4>2, <5>1
      <4>4. CASE p # NoThread
        <5>1. p \in E /\ r[p] < r[a] /\ r[p] \in Nat /\ (r[x] =< r[p] \/ r[a] =< r[x])
          BY <1>2, <2>1, <2>2, <4>4 DEF Precedes
        <5>2. r[p] =< r[x] \/ r[a] =< r[p]
          BY <4>2, <5>1
        <5>3. r[p] = r[x]
          BY <2>1, <4>2, <5>1, <5>2
        <5> QED BY <1>2, <2>1, <2>4, <5>1, <5>3
      <4> QED BY <4>3, <4>4
    <3> QED BY <2>1, <3>1, <3>2 DEF Follows
  <2> QED BY <2>3, <2>4
<1>9. ASSUME NEW x \in G PROVE Precedes(G, r, l2.prev[x], x)
  <2>1. x \in E /\ x # a /\ x \in X /\ Precedes(E, r, l.prev[x], x) /\ r[x] \in Nat /\ r[a] \in Nat
    BY <1>2
  <2>2. Follows(E, r, a, n) /\ Precedes(E, r, p, a)
    BY <1>2
  <2>3. CASE x = n
    <3>1. l2.prev[x] = p /\ x # NoThread
      BY <1>7, <2>1, <2>3, <1>2
    <3>2. r[a] < r[x] /\ \A y \in E : r[y] =< r[a] \/ r[x] =< r[y]
      BY <2>2, <2>3, <3>1 DEF Follows
    <3>3. \A y \in G : r[y] < r[a] \/ r[x] =< r[y]
      BY <1>2, <2>1, <3>2
    <3>4. CASE p = NoThread
      <4>1. \A y \in E : r[a] =< r[y]
        BY <2>2, <3>4 DEF Precedes
      <4>2. \A y \in G : r[x] =< r[y]
        BY <1>2, <2>1, <3>3, <4>1
      <4> QED BY <3>1, <3>4, <4>2 DEF Precedes
    <3>5. CASE p # NoThread
      <4>1. p \in E /\ p # a /\ r[p] < r[a] /\ r[p] \in Nat
            /\ \A y \in E : r[y] =< r[p] \/ r[a] =< r[y]
        BY <1>2, <2>2, <3>5 DEF Precedes
      <4>2. r[p] < r[x] /\ \A y \in G : r[y] =< r[p] \/ r[x] =< r[y]
        BY <1>2, <2>1, <3>2, <3>3, <4>1
      <4> QED BY <3>1, <3>5, <4>1, <4>2 DEF Precedes
    <3> QED BY <3>4, <3>5
  <2>4. CASE x # n
    <3>1. l2.prev[x] = l.prev[x]
      BY <1>7, <2>1, <2>4
    <3>2. l.prev[x] # a
      <4>1. SUFFICES ASSUME l.prev[x] = a PROVE FALSE
        OBVIOUS
      <4>2. r[a] < r[x] /\ \A y \in E : r[y] =< r[a] \/ r[x] =< r[y]
        BY <1>2, <2>1, <4>1 DEF Precedes
      <4>3. CASE n = NoThread
        <5>1. r[x] =< r[a]
          BY <2>1, <2>2, <4>3 DEF Follows
        <5> QED BY <2>1, <4>2, <5>1
      <4>4. CASE n # NoThread
        <5>1. n \in E /\ r[a] < r[n] /\ r[n] \in Nat /\ (r[x] =< r[a] \/ r[n] =< r[x])
          BY <1>2, <2>1, <2>2, <4>4 DEF Follows
        <5>2. r[n] =< r[a] \/ r[x] =< r[n]
          BY <4>2, <5>1
        <5>3. r[n] = r[x]
          BY <2>1, <4>2, <5>1, <5>2
        <5> QED BY <1>2, <2>1, <2>4, <5>1, <5>3
      <4> QED BY <4>3, <4>4
    <3> QED BY <2>1, <3>1, <3>2 DEF Precedes
  <2> QED BY <2>3, <2>4
<1>10. IF G = {} THEN l2.head[q] = NoThread /\ l2.tail[q] = NoThread
       ELSE /\ l2.head[q] \in G /\ \A x \in G : r[l2.head[q]] =< r[x]
            /\ l2.tail[q] \in G /\ \A x \in G : r[x] =< r[l2.tail[q]]
  <2>1. Follows(E, r, a, n) /\ Precedes(E, r, p, a)
    BY <1>2
  <2>2. CASE G = {}
    <3>1. n = NoThread /\ p = NoThread
      <4>1. n # NoThread => n \in G
        BY <1>2, <1>3
      <4>2. p # NoThread => p \in G
        BY <1>2, <1>3
      <4> QED BY <2>2, <4>1, <4>2
    <3> QED BY <1>7, <2>2, <3>1
  <2>3. CASE G # {}
    <3>1. l2.head[q] \in G /\ \A x \in G : r[l2.head[q]] =< r[x]
      <4>1. CASE p # NoThread
        BY <1>2, <1>3, <1>7, <4>1
      <4>2. CASE p = NoThread
        <5>1. l2.head[q] = n /\ \A x \in E : r[a] =< r[x]
          BY <1>7, <2>1, <4>2 DEF Precedes
        <5>2. n # NoThread
          <6>1. SUFFICES ASSUME n = NoThread PROVE FALSE
            OBVIOUS
          <6>2. PICK x \in G : TRUE
            BY <2>3
          <6>3. r[x] =< r[a] /\ r[a] =< r[x] /\ r[a] \in Nat /\ r[x] \in Nat
            BY <1>2, <2>1, <5>1, <6>1 DEF Follows
          <6>4. r[x] = r[a]
            BY <6>3
          <6> QED BY <1>2, <6>4
        <5>3. n \in G /\ \A x \in E : r[x] =< r[a] \/ r[n] =< r[x]
          BY <1>2, <1>3, <2>1, <5>2 DEF Follows
        <5>4. ASSUME NEW x \in G PROVE r[n] =< r[x]
          <6>1. r[a] =< r[x] /\ r[x] # r[a] /\ r[x] \in Nat /\ r[a] \in Nat
            BY <1>2, <5>1
          <6> QED BY <5>3, <6>1
        <5> QED BY <5>1, <5>3, <5>4
      <4> QED BY <4>1, <4>2
    <3>2. l2.tail[q] \in G /\ \A x \in G : r[x] =< r[l2.tail[q]]
      <4>1. CASE n # NoThread
        BY <1>2, <1>3, <1>7, <4>1
      <4>2. CASE n = NoThread
        <5>1. l2.tail[q] = p /\ \A x \in E : r[x] =< r[a]
          BY <1>7, <2>1, <4>2 DEF Follows
        <5>2. p # NoThread
          <6>1. SUFFICES ASSUME p = NoThread PROVE FALSE
            OBVIOUS
          <6>2. PICK x \in G : TRUE
            BY <2>3
          <6>3. r[x] =< r[a] /\ r[a] =< r[x] /\ r[a] \in Nat /\ r[x] \in Nat
            BY <1>2, <2>1, <5>1, <6>1 DEF Precedes
          <6>4. r[x] = r[a]
            BY <6>3
          <6> QED BY <1>2, <6>4
        <5>3. p \in G /\ \A x \in E : r[x] =< r[p] \/ r[a] =< r[x]
          BY <1>2, <1>3, <2>1, <5>2 DEF Precedes
        <5>4. ASSUME NEW x \in G PROVE r[x] =< r[p]
          <6>1. r[x] =< r[a] /\ r[x] # r[a] /\ r[x] \in Nat /\ r[a] \in Nat
            BY <1>2, <5>1
          <6> QED BY <5>3, <6>1
        <5> QED BY <5>1, <5>3, <5>4
      <4> QED BY <4>1, <4>2
    <3> QED BY <2>3, <3>1, <3>2
  <2> QED BY <2>2, <2>3
<1>11. \A x, y \in G : r[x] = r[y] => x = y
  BY <1>2
<1>12. Row(l2, q, G, r)
  <2> HIDE DEF G
  <2> QED BY <1>8, <1>9, <1>10, <1>11 DEF Row
<1>13. \A x \in X \ E : l2.prev[x] = l.prev[x]
  BY <1>3, <1>7
<1>14. ASSUME NEW d \in Q \ {q}, NEW F \in SUBSET X, F \cap E = {}, Row(l, d, F, r)
       PROVE  Row(l2, d, F, r)
  <2>1. \A x \in F : x # a /\ x # n /\ x # p
    BY <1>2, <1>3, <1>14
  <2>2. l2.head[d] = l.head[d] /\ l2.tail[d] = l.tail[d]
    BY <1>1, <1>4
  <2>3. \A x \in F : l2.next[x] = l.next[x] /\ l2.prev[x] = l.prev[x]
    BY <1>7, <2>1
  <2> QED BY <1>14, <2>2, <2>3 DEF Row
<1> QED BY <1>6, <1>12, <1>13, <1>14 DEF Removed
-----------------------------------------------------------------------------
(* A walk along a list: what the items' places are. *)

Place(E, r, a) == Cardinality({x \in E : r[x] < r[a]})

(* The places in a list are the naturals below its length. *)
LEMMA RowPlaces ==
    ASSUME NEW X, NoThread \notin X, NEW E \in SUBSET X, IsFiniteSet(E), NEW r \in [X -> Nat],
           \A a, b \in E : r[a] = r[b] => a = b
    PROVE  /\ Cardinality(E) \in Nat
           /\ \A a \in E : Place(E, r, a) \in Nat /\ Place(E, r, a) < Cardinality(E)
           /\ \A a, b \in E : Place(E, r, a) = Place(E, r, b) => a = b
           /\ \A n \in Nat : n < Cardinality(E) => \E a \in E : Place(E, r, a) = n
<1> DEFINE Before(a) == {x \in E : r[x] < r[a]}
           K == Cardinality(E)
<1>1. K \in Nat
  BY FS_CardinalityType
<1>2. ASSUME NEW a \in E
      PROVE  Place(E, r, a) \in Nat /\ Place(E, r, a) < K /\ IsFiniteSet(Before(a))
  <2>1. Before(a) \subseteq E /\ Before(a) # E
    BY <1>2
  <2>2. IsFiniteSet(Before(a)) /\ Cardinality(Before(a)) =< K /\ Cardinality(Before(a)) # K
    BY <2>1, FS_Subset
  <2>3. Cardinality(Before(a)) \in Nat
    BY <2>2, FS_CardinalityType
  <2>4. Place(E, r, a) = Cardinality(Before(a))
    BY DEF Place
  <2> HIDE DEF Before, K
  <2> QED BY <1>1, <2>2, <2>3, <2>4
<1>3. ASSUME NEW a \in E, NEW b \in E, r[a] < r[b]
      PROVE  Place(E, r, a) # Place(E, r, b)
  <2>1. a \notin Before(a) /\ a \in Before(b)
    BY <1>3
  <2>2. Before(a) \subseteq Before(b)
    BY <1>3
  <2>3. Before(a) # Before(b)
    BY <2>1
  <2>4. IsFiniteSet(Before(b))
    BY <1>2
  <2>5. Cardinality(Before(a)) # Cardinality(Before(b))
    BY <2>2, <2>3, <2>4, FS_Subset
  <2> QED BY <2>5 DEF Place
<1>4. ASSUME NEW a \in E, NEW b \in E, Place(E, r, a) = Place(E, r, b)
      PROVE  a = b
  <2>1. r[a] \in Nat /\ r[b] \in Nat
    OBVIOUS
  <2>2. ~(r[a] < r[b]) /\ ~(r[b] < r[a])
    BY <1>3, <1>4
  <2>3. r[a] = r[b]
    BY <2>1, <2>2
  <2> QED BY <2>3
<1>5. ASSUME NEW n \in Nat, n < K PROVE \E a \in E : Place(E, r, a) = n
  <2> DEFINE f == [a \in E |-> Place(E, r, a)]
             I == 0 .. K - 1
             J == {f[a] : a \in E}
  <2>1. J \subseteq I
    <3>1. \A a \in E : f[a] \in Nat /\ f[a] < K
      BY <1>2
    <3> HIDE DEF f
    <3> QED BY <1>1, <3>1
  <2>2. IsFiniteSet(I) /\ Cardinality(I) = K
    <3>1. K - 1 \in Int /\ ~(0 > K - 1) /\ (K - 1) - 0 + 1 = K
      BY <1>1, <1>5
    <3> HIDE DEF K
    <3> QED BY <3>1, FS_Interval
  <2>3. f \in Bijection(E, J)
    <3>1. f \in [E -> J]
      OBVIOUS
    <3>2. \A a, b \in E : f[a] = f[b] => a = b
      BY <1>4
    <3>3. \A y \in J : \E a \in E : f[a] = y
      OBVIOUS
    <3> HIDE DEF f, J
    <3> QED BY <3>1, <3>2, <3>3 DEF Bijection, Injection, Surjection, IsInjective
  <2>4. IsFiniteSet(J) /\ Cardinality(J) = K
    <3>1. ExistsBijection(E, J)
      BY <2>3 DEF ExistsBijection
    <3> HIDE DEF J
    <3> QED BY <3>1, FS_Bijection
  <2>5. J = I
    BY <2>1, <2>2, <2>4, FS_Subset
  <2>6. n \in J
    <3>1. n \in I
      BY <1>1, <1>5
    <3> HIDE DEF I, J
    <3> QED BY <2>5, <3>1
  <2> QED BY <2>6
<1> QED BY <1>1, <1>2, <1>4, <1>5
\* What a walk along queue q of list l visits, step by step.
Walks(l, q, m, f) ==
    f = [n \in 0 .. m |-> IF n = 0 THEN l.head[q]
                          ELSE IF f[n - 1] = NoThread THEN NoThread
                          ELSE l.next[f[n - 1]]]

(* A walk from the head meets every item, then the end. *)
LEMMA RowWalk ==
    ASSUME NEW X, NoThread \notin X, NEW Q, NEW l \in RowType(X, Q), NEW q \in Q,
           NEW E \in SUBSET X, IsFiniteSet(E), NEW r \in [X -> Nat], Row(l, q, E, r),
           NEW m \in Nat, Cardinality(E) =< m
    PROVE  LET f == CHOOSE g : Walks(l, q, m, g) IN
           /\ Walks(l, q, m, f)
           /\ {f[n] : n \in 0 .. m} \ {NoThread} = E
           /\ \A n \in 0 .. m : f[n] \in E \cup {NoThread}
           /\ f[Cardinality(E)] = NoThread
<1> DEFINE K == Cardinality(E)
           g == [n \in 0 .. m |-> IF n < K THEN CHOOSE a \in E : Place(E, r, a) = n
                                  ELSE NoThread]
           f == CHOOSE h : Walks(l, q, m, h)
<1>1. /\ K \in Nat
      /\ \A a \in E : Place(E, r, a) \in Nat /\ Place(E, r, a) < K
      /\ \A a, b \in E : Place(E, r, a) = Place(E, r, b) => a = b
      /\ \A n \in Nat : n < K => \E a \in E : Place(E, r, a) = n
  <2>1. \A a, b \in E : r[a] = r[b] => a = b
    BY DEF Row
  <2> QED BY <2>1, RowPlaces
<1>2. /\ \A n \in 0 .. m : n < K => g[n] \in E /\ Place(E, r, g[n]) = n
      /\ \A n \in 0 .. m : ~(n < K) => g[n] = NoThread
  <2>1. ASSUME NEW n \in 0 .. m, n < K PROVE g[n] \in E /\ Place(E, r, g[n]) = n
    <3>1. g[n] = CHOOSE a \in E : Place(E, r, a) = n
      BY <2>1
    <3>2. \E a \in E : Place(E, r, a) = n
      BY <1>1, <2>1
    <3> HIDE DEF g
    <3> QED BY <3>1, <3>2
  <2> QED BY <2>1
<1>3. \A a \in E : Place(E, r, a) \in 0 .. m /\ g[Place(E, r, a)] = a
  <2> SUFFICES ASSUME NEW a \in E PROVE Place(E, r, a) \in 0 .. m /\ g[Place(E, r, a)] = a
    OBVIOUS
  <2> DEFINE n == Place(E, r, a)
  <2> HIDE DEF g
  <2>1. n \in 0 .. m /\ n < K
    BY <1>1
  <2> QED BY <2>1, <1>1, <1>2
<1> HIDE DEF g
<1>4. Cardinality({}) = 0
  BY FS_EmptySet
<1>5. \A a \in E : r[a] \in Nat
  OBVIOUS
<1>6. K = 0 <=> E = {}
  BY FS_EmptySet
<1>7. ASSUME NEW a \in E, \A x \in E : r[a] =< r[x] PROVE Place(E, r, a) = 0
  <2>1. {x \in E : r[x] < r[a]} = {}
    BY <1>5, <1>7
  <2> QED BY <1>4, <2>1 DEF Place
<1>8. ASSUME NEW a \in E
      PROVE  IF l.next[a] = NoThread THEN K = Place(E, r, a) + 1
             ELSE l.next[a] \in E /\ Place(E, r, l.next[a]) = Place(E, r, a) + 1
  <2> DEFINE B == {x \in E : r[x] < r[a]}
             b == l.next[a]
  <2>1. Follows(E, r, a, b)
    BY <1>8 DEF Row
  <2>2. IsFiniteSet(B) /\ a \notin B
    BY <1>5, FS_Subset
  <2>3. Cardinality(B \cup {a}) = Place(E, r, a) + 1
    <3>1. Place(E, r, a) = Cardinality(B)
      BY DEF Place
    <3> HIDE DEF B
    <3> QED BY <2>2, <3>1, FS_AddElement
  <2>4. \A x, y \in E : r[x] = r[y] => x = y
    BY DEF Row
  <2>5. CASE b = NoThread
    <3>1. B \cup {a} = E
      <4>1. \A x \in E : r[x] =< r[a]
        BY <2>1, <2>5 DEF Follows
      <4> QED BY <1>5, <2>4, <4>1
    <3> QED BY <2>3, <2>5, <3>1
  <2>6. CASE b # NoThread
    <3>1. b \in E /\ r[a] < r[b] /\ \A x \in E : r[x] =< r[a] \/ r[b] =< r[x]
      BY <2>1, <2>6 DEF Follows
    <3>2. {x \in E : r[x] < r[b]} = B \cup {a}
      <4>1. ASSUME NEW x \in E PROVE r[x] < r[b] <=> (r[x] < r[a] \/ x = a)
        <5>1. r[x] \in Nat /\ r[a] \in Nat /\ r[b] \in Nat
          BY <1>5, <3>1
        <5>2. r[x] = r[a] <=> x = a
          BY <2>4
        <5>3. r[x] =< r[a] \/ r[b] =< r[x]
          BY <3>1
        <5> HIDE DEF b
        <5> QED BY <3>1, <5>1, <5>2, <5>3
      <4> QED BY <4>1
    <3> QED BY <2>3, <2>6, <3>1, <3>2 DEF Place
  <2> QED BY <2>5, <2>6
<1>9. ASSUME NEW n \in 0 .. m
      PROVE  g[n] = IF n = 0 THEN l.head[q]
                    ELSE IF g[n - 1] = NoThread THEN NoThread ELSE l.next[g[n - 1]]
  <2>1. CASE n = 0 /\ E = {}
    <3>1. l.head[q] = NoThread
      BY <2>1 DEF Row
    <3> QED BY <1>1, <1>2, <1>6, <2>1, <3>1
  <2>2. CASE n = 0 /\ E # {}
    <3>1. l.head[q] \in E /\ \A x \in E : r[l.head[q]] =< r[x]
      BY <2>2 DEF Row
    <3>2. Place(E, r, l.head[q]) = 0
      BY <1>7, <3>1
    <3> QED BY <1>3, <2>2, <3>1, <3>2
  <2>3. CASE n # 0
    <3>1. n - 1 \in 0 .. m /\ n \in Nat
      BY <2>3
    <3>2. CASE ~(n - 1 < K)
      <4>1. ~(n < K)
        BY <1>1, <3>1, <3>2
      <4> QED BY <1>2, <2>3, <3>1, <3>2, <4>1
    <3>3. CASE n - 1 < K
      <4> DEFINE a == g[n - 1]
      <4>1. a \in E /\ Place(E, r, a) = n - 1 /\ a # NoThread
        BY <1>2, <3>1, <3>3
      <4>2. CASE l.next[a] = NoThread
        <5>1. K = (n - 1) + 1
          BY <1>8, <4>1, <4>2
        <5>2. ~(n < K)
          BY <1>1, <3>1, <5>1
        <5> QED BY <1>2, <2>3, <4>1, <4>2, <5>2
      <4>3. CASE l.next[a] # NoThread
        <5>1. l.next[a] \in E /\ Place(E, r, l.next[a]) = (n - 1) + 1
          BY <1>8, <4>1, <4>3
        <5>2. g[n] = l.next[a]
          <6>1. (n - 1) + 1 = n
            BY <3>1
          <6> QED BY <1>3, <5>1, <6>1
        <5> QED BY <2>3, <4>1, <5>2
      <4> QED BY <4>2, <4>3
    <3> QED BY <3>2, <3>3
  <2> QED BY <2>1, <2>2, <2>3
<1>10. Walks(l, q, m, g)
  <2>1. g = [n \in 0 .. m |-> g[n]]
    BY DEF g
  <2> QED BY <1>9, <2>1 DEF Walks
<1>11. Walks(l, q, m, f)
  BY <1>10
<1> HIDE DEF f
<1>12. \A n \in 0 .. m : f[n] = g[n]
  <2> DEFINE Bad == {n \in 0 .. m : f[n] # g[n]}
  <2>1. SUFFICES ASSUME Bad # {} PROVE FALSE
    OBVIOUS
  <2>2. PICK n \in Bad : \A k \in Bad : n =< k
    <3>1. Bad \in SUBSET Nat
      OBVIOUS
    <3> HIDE DEF Bad
    <3> QED BY <2>1, <3>1, LeastNat
  <2>3. n \in 0 .. m /\ f[n] # g[n]
    OBVIOUS
  <2>4. f[n] = IF n = 0 THEN l.head[q]
               ELSE IF f[n - 1] = NoThread THEN NoThread ELSE l.next[f[n - 1]]
    BY <1>11, <2>3 DEF Walks
  <2>5. n # 0
    BY <1>9, <2>3, <2>4
  <2>6. f[n - 1] = g[n - 1]
    <3>1. n - 1 \in 0 .. m /\ ~(n =< n - 1)
      BY <2>3, <2>5
    <3> QED BY <2>2, <3>1
  <2> QED BY <1>9, <2>3, <2>4, <2>5, <2>6
<1>13. \A n \in 0 .. m : f[n] \in E \cup {NoThread}
  BY <1>2, <1>12
<1>14. {f[n] : n \in 0 .. m} \ {NoThread} = E
  <2>1. \A a \in E : a # NoThread /\ \E n \in 0 .. m : f[n] = a
    BY <1>3, <1>12
  <2> QED BY <1>13, <2>1
<1>15. f[K] = NoThread
  <2>1. K \in 0 .. m /\ ~(K < K)
    BY <1>1
  <2> QED BY <1>2, <1>12, <2>1
<1> QED BY <1>11, <1>13, <1>14, <1>15 DEF f
=============================================================================
