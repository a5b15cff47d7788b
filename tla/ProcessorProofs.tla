-------------------------- MODULE ProcessorProofs --------------------------
(***************************************************************************)
(* What Processor guarantees for every number of cores and threads, every  *)
(* priority and affinity, and every set of kernel calls the game makes.    *)
(***************************************************************************)
EXTENDS Processor, FiniteSetTheorems, SequenceTheorems, WellFoundedInduction, TLAPS

TypeInv == TypeOK /\ ControlOK

(* Every non-empty set of naturals has a least element. *)
LEMMA LeastNat ==
    ASSUME NEW T \in SUBSET Nat, T # {}
    PROVE  \E x \in T : \A y \in T : x =< y
<1>1. \E x \in T : \A y \in T : ~(<<y, x>> \in OpToRel(<, Nat))
  BY NatLessThanWellFounded, WFMin
<1>2. \A x, y \in Nat : ~(<<y, x>> \in OpToRel(<, Nat)) => x =< y
  BY DEF OpToRel
<1> QED BY <1>1, <1>2

(* Inserting f at i moves the elements from i on one place up; it adds f, and *)
(* nothing else, to the elements.                                            *)
LEMMA InsertRange ==
    ASSUME NEW S, NEW q \in Seq(S), NEW f \in S, NEW i \in 1 .. Len(q) + 1
    PROVE  /\ InsertAt(q, i, f) \in Seq(S)
           /\ Range(InsertAt(q, i, f)) = Range(q) \cup {f}
           /\ Len(InsertAt(q, i, f)) = Len(q) + 1
           /\ \A k \in 1 .. Len(q) + 1 :
                 InsertAt(q, i, f)[k] = IF k < i THEN q[k]
                                        ELSE IF k = i THEN f ELSE q[k - 1]
<1> DEFINE a == SubSeq(q, 1, i - 1)
           b == SubSeq(q, i, Len(q))
           af == a \o <<f>>
           r == af \o b
<1>0. Len(q) \in Nat /\ i \in Nat /\ \A k \in 1 .. Len(q) : q[k] \in S
  BY LenProperties, ElementOfSeq
<1>2. a \in Seq(S) /\ Len(a) = i - 1 /\ \A k \in 1 .. i - 1 : a[k] = q[k]
  BY <1>0, SubSeqProperties
<1>3. /\ b \in Seq(S) /\ Len(b) = Len(q) - i + 1
      /\ \A k \in 1 .. Len(q) - i + 1 : b[k] = q[i + k - 1]
  BY <1>0, SubSeqProperties
<1>4. <<f>> \in Seq(S) /\ Len(<<f>>) = 1 /\ <<f>>[1] = f
  OBVIOUS
<1> HIDE DEF a, b
<1>5. /\ af \in Seq(S) /\ Len(af) = i
      /\ \A k \in 1 .. i : af[k] = IF k =< i - 1 THEN a[k] ELSE <<f>>[k - (i - 1)]
  BY <1>0, <1>2, <1>4, ConcatProperties
<1>6. af[i] = f /\ \A k \in 1 .. i - 1 : af[k] = q[k]
  BY <1>0, <1>2, <1>4, <1>5
<1> HIDE DEF af
<1>7. /\ r \in Seq(S) /\ Len(r) = Len(q) + 1
      /\ \A k \in 1 .. Len(q) + 1 :
            r[k] = IF k =< i THEN af[k] ELSE b[k - i]
  BY <1>0, <1>3, <1>5, ConcatProperties
<1>8. \A k \in 1 .. i - 1 : r[k] = q[k]
  BY <1>0, <1>6, <1>7
<1>9. r[i] = f
  BY <1>0, <1>6, <1>7
<1>10. \A k \in i + 1 .. Len(q) + 1 : r[k] = q[k - 1]
  BY <1>0, <1>3, <1>7
<1>11. r = InsertAt(q, i, f)
  BY DEF InsertAt, a, b, af
<1>12. DOMAIN r = 1 .. Len(q) + 1 /\ DOMAIN q = 1 .. Len(q)
  BY <1>7, LenProperties
<1> HIDE DEF r
<1>13. ASSUME NEW k \in DOMAIN r PROVE r[k] \in Range(q) \cup {f}
  <2>1. CASE k < i
    BY <2>1, <1>0, <1>8, <1>12 DEF Range
  <2>2. CASE k = i
    BY <2>2, <1>9
  <2>3. CASE k > i
    BY <2>3, <1>0, <1>10, <1>12 DEF Range
  <2> QED BY <2>1, <2>2, <2>3, <1>0, <1>12
<1>14. ASSUME NEW k \in DOMAIN q PROVE q[k] \in Range(r)
  <2>1. CASE k < i
    BY <2>1, <1>0, <1>8, <1>12 DEF Range
  <2>2. CASE k >= i
    <3>1. k + 1 \in i + 1 .. Len(q) + 1 /\ k + 1 - 1 = k
      BY <2>2, <1>0, <1>12
    <3>2. r[k + 1] = q[k]
      BY <3>1, <1>10
    <3> QED BY <3>1, <3>2, <1>0, <1>12 DEF Range
  <2> QED BY <2>1, <2>2, <1>0, <1>12
<1>15. f \in Range(r)
  BY <1>0, <1>9, <1>12 DEF Range
<1>16. \A k \in 1 .. Len(q) + 1 : r[k] = IF k < i THEN q[k]
                                        ELSE IF k = i THEN f ELSE q[k - 1]
  BY <1>0, <1>8, <1>9, <1>10
<1> QED BY <1>7, <1>11, <1>13, <1>14, <1>15, <1>16 DEF Range

(* Erasing f removes f, and nothing else, from the elements, and leaves     *)
(* those that stay in their order.                                           *)
LEMMA EraseRange ==
    ASSUME NEW S, NEW q \in Seq(S), NEW f
    PROVE  /\ Erase(q, f) \in Seq(S)
           /\ Range(Erase(q, f)) = Range(q) \ {f}
           /\ \A k, l \in DOMAIN Erase(q, f) : k =< l =>
                 \E i, j \in DOMAIN q :
                    i =< j /\ Erase(q, f)[k] = q[i] /\ Erase(q, f)[l] = q[j]
<1> DEFINE n == Cardinality(Kept(q, f))
           Least(i, k) == Rank(q, f, i) >= k /\ \A j \in Kept(q, f) : Rank(q, f, j) >= k => i =< j
           nth(k) == CHOOSE i \in Kept(q, f) : Least(i, k)
<1>1. Len(q) \in Nat /\ DOMAIN q = 1 .. Len(q)
  BY LenProperties
<1>2. Kept(q, f) \subseteq DOMAIN q /\ Kept(q, f) \subseteq Nat /\ \A i \in Kept(q, f) : q[i] \in S
  BY <1>1, ElementOfSeq DEF Kept
<1>3. IsFiniteSet(Kept(q, f))
  <2>1. IsFiniteSet(1 .. Len(q))
    BY <1>1, FS_Interval
  <2>2. Kept(q, f) \in SUBSET (1 .. Len(q))
    BY <1>1, <1>2
  <2> QED BY <2>1, <2>2, FS_Subset
<1>4. n \in Nat
  BY <1>3, FS_CardinalityType
<1>5. \A i \in Kept(q, f) : {j \in Kept(q, f) : j =< i} \in SUBSET Kept(q, f)
  OBVIOUS
<1>6. \A i \in Kept(q, f) : Rank(q, f, i) \in Nat /\ IsFiniteSet({j \in Kept(q, f) : j =< i})
  BY <1>3, <1>5, FS_Subset, FS_CardinalityType DEF Rank
<1>61. \A i \in Kept(q, f) : Rank(q, f, i) \in Nat
  BY <1>6
<1>7. \A i \in Kept(q, f) : Rank(q, f, i) =< n
  BY <1>3, <1>5, FS_Subset DEF Rank
<1>8. ASSUME NEW i \in Kept(q, f), NEW j \in Kept(q, f), j < i PROVE Rank(q, f, j) < Rank(q, f, i)
  <2> DEFINE lo == {x \in Kept(q, f) : x =< j}
             hi == {x \in Kept(q, f) : x =< i}
  <2>1. lo \in SUBSET hi /\ i \in hi /\ i \notin lo
    BY <1>2, <1>8
  <2>2. Cardinality(lo) =< Cardinality(hi) /\ Cardinality(lo) # Cardinality(hi)
    BY <2>1, <1>6, FS_Subset
  <2>3. Rank(q, f, j) = Cardinality(lo) /\ Rank(q, f, i) = Cardinality(hi)
    BY DEF Rank
  <2>4. Rank(q, f, j) \in Nat /\ Rank(q, f, i) \in Nat
    BY <1>6
  <2> HIDE DEF lo, hi
  <2> QED BY <2>2, <2>3, <2>4
<1>9. ASSUME NEW k \in 1 .. n PROVE \E i \in Kept(q, f) : Rank(q, f, i) >= k
  <2>1. Kept(q, f) # {}
    BY <1>3, <1>4, <1>9, FS_EmptySet
  <2> DEFINE up == {u \in Nat : \A i \in Kept(q, f) : i =< u}
  <2>2. Len(q) \in up
    BY <1>1, <1>2
  <2>3. PICK m \in up : \A u \in up : m =< u
    BY <2>2, LeastNat
  <2>4. m \in Kept(q, f)
    <3>1. SUFFICES ASSUME m \notin Kept(q, f) PROVE FALSE
      OBVIOUS
    <3>2. PICK i \in Kept(q, f) : TRUE
      BY <2>1
    <3>3. m >= 1 /\ m - 1 \in Nat
      BY <1>1, <1>2, <2>3, <3>2
    <3>4. \A x \in Kept(q, f) : x =< m - 1
      BY <1>2, <2>3, <3>1, <3>3
    <3> QED BY <2>3, <3>3, <3>4
  <2>5. {j \in Kept(q, f) : j =< m} = Kept(q, f)
    BY <2>3
  <2>6. Rank(q, f, m) = n
    BY <2>5 DEF Rank
  <2> QED BY <2>4, <2>6, <1>4, <1>9
<1>10. ASSUME NEW k \in 1 .. n PROVE \E i \in Kept(q, f) : Least(i, k)
  <2>1. {i \in Kept(q, f) : Rank(q, f, i) >= k} \in SUBSET Nat
    BY <1>2
  <2>2. {i \in Kept(q, f) : Rank(q, f, i) >= k} # {}
    BY <1>9, <1>10
  <2>3. \E i \in {x \in Kept(q, f) : Rank(q, f, x) >= k} :
           \A j \in {x \in Kept(q, f) : Rank(q, f, x) >= k} : i =< j
    BY <2>1, <2>2, LeastNat
  <2> QED BY <2>3
<1>11. \A k \in 1 .. n : nth(k) \in Kept(q, f)
  BY <1>10
<1>12. ASSUME NEW i \in Kept(q, f)
       PROVE  Rank(q, f, i) \in 1 .. n /\ nth(Rank(q, f, i)) = i
  <2>1. Rank(q, f, i) \in Nat
    BY <1>61
  <2>2. ASSUME NEW j \in Kept(q, f), Rank(q, f, j) >= Rank(q, f, i)
        PROVE  i =< j
    <3>1. CASE j < i
      <4>1. Rank(q, f, j) < Rank(q, f, i) /\ Rank(q, f, j) \in Nat
        BY <3>1, <1>61, <1>8
      <4> QED BY <4>1, <2>1, <2>2
    <3> QED BY <3>1, <1>2
  <2>3. Least(i, Rank(q, f, i))
    BY <2>1, <2>2
  <2>4. \A j \in Kept(q, f) : Least(j, Rank(q, f, i)) => j = i
    <3> TAKE j \in Kept(q, f)
    <3> HAVE Least(j, Rank(q, f, i))
    <3>1. j =< i /\ Rank(q, f, j) >= Rank(q, f, i)
      BY <2>1
    <3>2. i =< j
      BY <3>1, <2>2
    <3> QED BY <3>1, <3>2, <1>2
  <2>5. Rank(q, f, i) # 0
    <3>1. {j \in Kept(q, f) : j =< i} # {}
      BY <1>2
    <3> QED BY <3>1, <1>6, FS_EmptySet DEF Rank
  <2>6. Rank(q, f, i) \in 1 .. n
    <3> HIDE DEF n
    <3>1. Rank(q, f, i) =< n
      BY <1>7
    <3> QED BY <3>1, <2>1, <2>5, <1>4
  <2>7. nth(Rank(q, f, i)) = i
    <3> HIDE DEF Least
    <3> QED BY <2>3, <2>4
  <2> QED BY <2>6, <2>7
<1>20. ASSUME NEW k \in 1 .. n, NEW l \in 1 .. n, k =< l PROVE nth(k) =< nth(l)
  <2>1. Least(nth(k), k) /\ Least(nth(l), l) /\ nth(l) \in Kept(q, f)
    BY <1>10
  <2>2. Rank(q, f, nth(l)) >= k
    BY <2>1, <1>4, <1>20, <1>61
  <2> QED BY <2>1, <2>2
<1>13. Erase(q, f) = [k \in 1 .. n |-> q[nth(k)]]
  BY DEF Erase
<1> HIDE DEF n, nth, Least
<1>14. Erase(q, f) \in [1 .. n -> S] /\ DOMAIN Erase(q, f) = 1 .. n
  BY <1>2, <1>11, <1>13
<1>15. Erase(q, f) \in Seq(S)
  BY <1>4, <1>14
<1>16. \A k \in 1 .. n : Erase(q, f)[k] = q[nth(k)]
  BY <1>13
<1>17. \A i \in Kept(q, f) : q[i] \in Range(q) \ {f}
  BY <1>2 DEF Kept, Range
<1>18. Range(Erase(q, f)) \subseteq Range(q) \ {f}
  BY <1>11, <1>14, <1>16, <1>17 DEF Range
<1>19. ASSUME NEW x \in Range(q) \ {f} PROVE x \in Range(Erase(q, f))
  <2>1. PICK i \in DOMAIN q : q[i] = x
    BY DEF Range
  <2>2. i \in Kept(q, f)
    BY <2>1 DEF Kept
  <2> QED BY <2>1, <2>2, <1>12, <1>14, <1>16 DEF Range
<1>21. ASSUME NEW k \in DOMAIN Erase(q, f), NEW l \in DOMAIN Erase(q, f), k =< l
       PROVE  \E i, j \in DOMAIN q :
                 i =< j /\ Erase(q, f)[k] = q[i] /\ Erase(q, f)[l] = q[j]
  BY <1>2, <1>11, <1>14, <1>16, <1>20, <1>21
<1> QED BY <1>15, <1>18, <1>19, <1>21

(* queueNoLock keeps the run queue a sequence of threads and adds the one    *)
(* fiber it is given, and whoever waited on mCondition looks again.          *)
LEMMA QueueAdds ==
    ASSUME TypeOK, NEW c \in Core, NEW f \in Thread, NEW p \in Pc, Queue(c, f, p)
    PROVE  /\ MutexFree
           /\ mFiberQueue' \in Seq(Thread)
           /\ Range(mFiberQueue') = Range(mFiberQueue) \cup {f}
           /\ pc' \in [Core -> Pc]
           /\ \A d \in Core : pc'[d] = IF d = c /\ p # "cond" THEN p
                                       ELSE IF d = c \/ pc[d] = "cond" THEN "loop"
                                       ELSE pc[d]
<1>1. PICK i \in UpperBound(mFiberQueue, f) :
         mFiberQueue' = InsertAt(mFiberQueue, i, f)
  BY DEF Queue
<1>2. i \in 1 .. Len(mFiberQueue) + 1
  BY DEF UpperBound
<1>3. mFiberQueue \in Seq(Thread) /\ pc \in [Core -> Pc]
  BY DEF TypeOK
<1>4. /\ mFiberQueue' \in Seq(Thread)
      /\ Range(mFiberQueue') = Range(mFiberQueue) \cup {f}
  BY <1>1, <1>2, <1>3, InsertRange
<1>5. pc' = Notified([pc EXCEPT ![c] = p]) /\ MutexFree
  BY DEF Queue
<1>6. "loop" \in Pc
  BY DEF Pc, PrimaryPc
<1> QED BY <1>3, <1>4, <1>5, <1>6 DEF Notified

(* The kinds of threads do not overlap, and null is none of them. *)
LEMMA Threads ==
    /\ Guest \subseteq Thread /\ NoFiber \notin Thread
    /\ \A c \in Core : /\ InterruptThread[c] \in Thread
                       /\ InterruptThread[c] \notin Guest
                       /\ Attr0[InterruptThread[c]] = {c}
    /\ \A t \in Thread : t \notin Guest => \E c \in Core : t = InterruptThread[c]
    /\ \A c, d \in Core : InterruptThread[c] = InterruptThread[d] => c = d
BY ConstantsAssumption DEF Thread, Handlers

USE DEF TypeInv, Pc, PrimaryPc, GuestPc, HandlerPc, fiberVars, threadVars,
        alarmVars, interruptVars

(* The initial states are well-typed. *)
LEMMA TypeInit == Init => TypeInv
<1> SUFFICES ASSUME Init PROVE TypeInv
  OBVIOUS
<1> USE ConstantsAssumption
<1>1. IsFiniteSet(Handlers)
  <2>1. InterruptThread \in Surjection(Core, Handlers)
    BY DEF Handlers, Surjection
  <2> QED BY <2>1, FS_Surjection
<1>2. IsFiniteSet(Started)
  BY <1>1, FS_AddElement DEF Started
<1>3. Cardinality(Started) \in Nat
  BY <1>2, FS_CardinalityType
<1>4. Started \subseteq Thread
  BY DEF Started, Thread
<1>5. mFiberQueue \in Seq(Thread)
  <2>1. mFiberQueue \in [1 .. Cardinality(Started) -> Thread]
    BY <1>4 DEF Init
  <2> QED BY <2>1, <1>3
<1>6. mFiberList \subseteq Thread /\ threadFiber \subseteq Thread
  BY <1>4 DEF Init
<1>7. /\ state \in [Thread -> {"None", "Ready", "Running", "Waiting", "Moribund"}]
      /\ suspendCounter \in [Thread -> Nat]
      /\ context \in [Thread -> {"guest", "relock", "first", "check"}]
      /\ parentFiber \in [Thread -> Core \cup {NoFiber}]
  BY DEF Init
<1>8. /\ basePriority \in [Thread -> Nat] /\ attr \in [Thread -> SUBSET Core]
      /\ interruptCount \in 0 .. MaxInterrupts /\ waiters \subseteq Guest
  BY DEF Init
<1>9. /\ mFiberDeleteList \in [Core -> SUBSET Thread]
      /\ alarms \in [Core -> SUBSET Guest] /\ timerSet \in [Core -> BOOLEAN]
      /\ interrupt \in [Core -> BOOLEAN] /\ gSchedulerLock \in BOOLEAN
  BY DEF Init
<1>10. /\ pc \in [Core -> Pc]
       /\ executing \in [Core -> Thread \cup {NoFiber}]
       /\ target \in [Core -> Thread \cup {NoFiber}]
       /\ currentFiber \in [Core -> Thread \cup {NoFiber}]
       /\ interruptedFiber \in [Core -> Thread \cup {NoFiber}]
       /\ interruptHandlerFiber \in [Core -> Thread \cup {NoFiber}]
  BY DEF Init
<1>11. TypeOK
  BY <1>5, <1>6, <1>7, <1>8, <1>9, <1>10 DEF TypeOK
<1>12. ControlOK
  BY Threads DEF Init, ControlOK, Control
<1> QED BY <1>11, <1>12

(* What handleInterrupt does, by what the core has for an interrupt fiber:   *)
(* none, the one it executes already, or one to switch to.                   *)
LEMMA EnterInterruptCases ==
    ASSUME TypeOK, NEW c \in Core, Control(c), EnterInterrupt(c),
           pc[c] \in {"loop", "guest", "first", "callback"}
    PROVE  LET h == InterruptThread[c] IN
           /\ interruptedFiber' = [interruptedFiber EXCEPT ![c] = currentFiber[c]]
           /\ currentFiber' = [currentFiber EXCEPT ![c] = interruptHandlerFiber[c]]
           /\ interrupt' = [interrupt EXCEPT ![c] = FALSE]
           /\ interruptHandlerFiber' = interruptHandlerFiber
           /\ \/ /\ pc' = [pc EXCEPT ![c] = "crash"]
                 /\ UNCHANGED <<executing, context>>
              \/ /\ interruptHandlerFiber[c] = h /\ executing[c] = h
                 /\ UNCHANGED <<executing, context, pc>>
              \/ /\ interruptHandlerFiber[c] = h
                 /\ executing' = [executing EXCEPT ![c] = h]
                 /\ pc' = [pc EXCEPT ![c] = "check"]
                 /\ \/ context' = context
                    \/ /\ executing[c] \in Guest
                       /\ context' = [context EXCEPT ![executing[c]] = "guest"]
<1> USE Threads
<1>1. CASE interruptHandlerFiber[c] = NoFiber
  BY <1>1 DEF EnterInterrupt, SetCurrentFiber, SaveInterruptedFiber
<1>2. CASE interruptHandlerFiber[c] # NoFiber
  <2>1. /\ interruptHandlerFiber[c] = InterruptThread[c]
        /\ context[InterruptThread[c]] = "check"
    BY <1>2 DEF Control
  <2>2. CASE executing[c] = InterruptThread[c]
    BY <1>2, <2>1, <2>2 DEF EnterInterrupt, SetCurrentFiber, SaveInterruptedFiber
  <2>3. CASE executing[c] # InterruptThread[c]
    <3>1. pc[c] \in {"loop", "guest"}
      BY <2>3 DEF Control
    <3>2. executing[c] = NoFiber \/ (executing[c] \in Guest /\ pc[c] = "guest")
      BY <3>1 DEF Control
    <3> QED BY <1>2, <2>1, <2>3, <3>2
            DEF EnterInterrupt, SetCurrentFiber, SaveInterruptedFiber
  <2> QED BY <2>2, <2>3
<1> QED BY <1>1, <1>2

LEMMA TypeDispatch ==
    ASSUME TypeInv, NEW c \in Core, Dispatch(c)
    PROVE  TypeInv'
<1>0. TypeOK /\ ControlOK /\ Control(c)
  BY DEF ControlOK
<1>1. PICK i \in DOMAIN mFiberQueue :
         /\ IsNext(i, c)
         /\ mFiberQueue' = Erase(mFiberQueue, mFiberQueue[i])
         /\ currentFiber' = [currentFiber EXCEPT ![c] = mFiberQueue[i]]
         /\ parentFiber' = [parentFiber EXCEPT ![mFiberQueue[i]] = c]
         /\ state' = [state EXCEPT ![mFiberQueue[i]] = "Running"]
         /\ executing' = [executing EXCEPT ![c] = mFiberQueue[i]]
         /\ pc' = [pc EXCEPT ![c] = context[mFiberQueue[i]]]
  BY DEF Dispatch, SetCurrentFiber
<1> DEFINE f == mFiberQueue[i]
<1>2. f \in Thread
  BY <1>0, LenProperties, ElementOfSeq DEF TypeOK
<1>3. f \in Guest \/ f = InterruptThread[c]
  <2>1. c \in attr[f]
    BY <1>1 DEF IsNext, Eligible
  <2> QED BY <1>0, <1>2, <2>1, Threads DEF ControlOK, Control
<1>4. mFiberQueue' \in Seq(Thread)
  BY <1>0, <1>1, EraseRange DEF TypeOK
<1> HIDE DEF f
<1>5. /\ currentFiber' = [currentFiber EXCEPT ![c] = f]
      /\ parentFiber' = [parentFiber EXCEPT ![f] = c]
      /\ state' = [state EXCEPT ![f] = "Running"]
      /\ executing' = [executing EXCEPT ![c] = f]
      /\ pc' = [pc EXCEPT ![c] = context[f]]
  BY <1>1 DEF f
<1>6. /\ mFiberDeleteList' = [mFiberDeleteList EXCEPT ![c] = {}]
      /\ UNCHANGED <<mFiberList, threadFiber, threadVars, context, waiters,
                     alarmVars, gSchedulerLock, target, interruptVars>>
  BY DEF Dispatch
<1>7. TypeOK'
  BY <1>0, <1>2, <1>4, <1>5, <1>6, Threads DEF TypeOK
<1>8. \/ f \in Guest /\ context[f] \in {"guest", "relock"}
      \/ f = InterruptThread[c] /\ context[f] \in {"first", "check"}
  <2>1. CASE f \in Guest
    BY <1>0, <2>1 DEF ControlOK
  <2>2. CASE f = InterruptThread[c]
    BY <1>0, <2>2 DEF Control
  <2> QED BY <1>3, <2>1, <2>2
<1>9. Control(c)'
  BY <1>0, <1>2, <1>5, <1>6, <1>8, Threads DEF TypeOK, Control
<1>10. ASSUME NEW d \in Core \ {c} PROVE Control(d)'
  <2>1. Control(d)
    BY <1>0 DEF ControlOK
  <2> QED BY <1>0, <1>5, <1>6, <2>1 DEF TypeOK, Control
<1>11. ControlOK'
  BY <1>0, <1>6, <1>9, <1>10 DEF ControlOK
<1> QED BY <1>7, <1>11

LEMMA TypeIdleInterrupt ==
    ASSUME TypeInv, NEW c \in Core, IdleInterrupt(c)
    PROVE  TypeInv'
<1>0. TypeOK /\ ControlOK /\ Control(c)
  BY DEF ControlOK
<1>1. EnterInterrupt(c) /\ pc[c] \in {"loop", "guest", "first", "callback"}
  BY DEF IdleInterrupt
<1> DEFINE h == InterruptThread[c]
<1>2. /\ interruptedFiber' = [interruptedFiber EXCEPT ![c] = currentFiber[c]]
      /\ currentFiber' = [currentFiber EXCEPT ![c] = interruptHandlerFiber[c]]
      /\ interrupt' = [interrupt EXCEPT ![c] = FALSE]
      /\ interruptHandlerFiber' = interruptHandlerFiber
  BY <1>0, <1>1, EnterInterruptCases
<1>3. \/ /\ pc' = [pc EXCEPT ![c] = "crash"]
         /\ UNCHANGED <<executing, context>>
      \/ /\ interruptHandlerFiber[c] = h /\ executing[c] = h
         /\ UNCHANGED <<executing, context, pc>>
      \/ /\ interruptHandlerFiber[c] = h
         /\ executing' = [executing EXCEPT ![c] = h]
         /\ pc' = [pc EXCEPT ![c] = "check"]
         /\ \/ context' = context
            \/ /\ executing[c] \in Guest
               /\ context' = [context EXCEPT ![executing[c]] = "guest"]
  BY <1>0, <1>1, EnterInterruptCases
<1>4. /\ mFiberDeleteList' \in [Core -> SUBSET Thread]
      /\ UNCHANGED <<mFiberQueue, mFiberList, threadFiber, parentFiber, state,
                     threadVars, waiters, alarmVars, gSchedulerLock, target>>
  BY <1>0 DEF IdleInterrupt, TypeOK
<1> HIDE DEF h
<1>h. h \in Thread
  BY Threads DEF h
<1>5. /\ executing' \in [Core -> Thread \cup {NoFiber}] /\ pc' \in [Core -> Pc]
      /\ context' \in [Thread -> {"guest", "relock", "first", "check"}]
  <2>1. executing' \in [Core -> Thread \cup {NoFiber}]
    BY <1>0, <1>3, <1>h DEF TypeOK
  <2>2. pc' \in [Core -> Pc]
    BY <1>0, <1>3 DEF TypeOK
  <2>3. context \in [Thread -> {"guest", "relock", "first", "check"}]
    BY <1>0 DEF TypeOK
  <2>4. context' \in [Thread -> {"guest", "relock", "first", "check"}]
    BY <1>3, <2>3
  <2> QED BY <2>1, <2>2, <2>4
<1>6. TypeOK'
  BY <1>0, <1>2, <1>4, <1>5, Threads DEF TypeOK
<1>7. \A t \in Thread : \/ context'[t] = context[t]
                        \/ t \in Guest /\ context'[t] = "guest"
  <2>1. CASE context' = context
    BY <2>1
  <2>2. CASE /\ executing[c] \in Guest
             /\ context' = [context EXCEPT ![executing[c]] = "guest"]
    BY <1>0, <2>2 DEF TypeOK
  <2> QED BY <1>3, <2>1, <2>2
<1>8. Control(c)'
  BY <1>0, <1>1, <1>2, <1>3, <1>4, <1>7, Threads DEF TypeOK, Control, h
<1>9. ASSUME NEW d \in Core \ {c} PROVE Control(d)'
  BY <1>0, <1>2, <1>3, <1>4, <1>7, Threads, SMTT(40) DEF TypeOK, ControlOK, Control
<1>10. ControlOK'
  BY <1>0, <1>7, <1>8, <1>9, Threads DEF ControlOK
<1> QED BY <1>6, <1>10

LEMMA TypeDecideToWait ==
    ASSUME TypeInv, NEW c \in Core,
           DecideToWait(c)
    PROVE  TypeInv'
<1>0. Control(c)
  BY DEF ControlOK
<1>1. TypeOK'
  BY <1>0, Threads DEF DecideToWait, TypeOK, Control
<1>2. ControlOK'
  BY Threads DEF DecideToWait, TypeOK, ControlOK, Control
<1> QED BY <1>1, <1>2

LEMMA TypeWait ==
    ASSUME TypeInv, NEW c \in Core,
           Wait(c)
    PROVE  TypeInv'
<1>0. Control(c)
  BY DEF ControlOK
<1>1. TypeOK'
  BY <1>0, Threads DEF Wait, TypeOK, Control
<1>2. ControlOK'
  BY Threads DEF Wait, TypeOK, ControlOK, Control
<1> QED BY <1>1, <1>2

LEMMA TypeRescheduleReturn ==
    ASSUME TypeInv, NEW c \in Core,
           RescheduleReturn(c)
    PROVE  TypeInv'
<1>0. Control(c)
  BY DEF ControlOK
<1>1. TypeOK'
  BY <1>0, Threads DEF RescheduleReturn, OSUnlockScheduler, TypeOK, Control
<1>2. ControlOK'
  BY Threads DEF RescheduleReturn, OSUnlockScheduler, TypeOK, ControlOK, Control
<1> QED BY <1>1, <1>2

LEMMA TypeRescheduleLeave ==
    ASSUME TypeInv, NEW c \in Core,
           RescheduleLeave(c)
    PROVE  TypeInv'
<1>0. TypeOK /\ ControlOK /\ Control(c)
  BY DEF ControlOK
<1>1. currentFiber[c] \in Guest /\ executing[c] \in Thread
  BY <1>0, Threads DEF Control, RescheduleLeave
<1>2. /\ mFiberQueue' \in Seq(Thread) /\ pc' \in [Core -> Pc]
      /\ \A d \in Core : pc'[d] = IF d = c THEN "switchLocked"
                                  ELSE IF pc[d] = "cond" THEN "loop" ELSE pc[d]
  BY <1>0, <1>1, Threads, QueueAdds DEF RescheduleLeave, Leave
<1>3. TypeOK'
  BY <1>0, <1>1, <1>2, Threads
  DEF RescheduleLeave, Leave, OSUnlockScheduler, TypeOK, Control
<1>4. ControlOK'
  BY <1>0, <1>1, <1>2, Threads
  DEF RescheduleLeave, Leave, OSUnlockScheduler, TypeOK, ControlOK, Control
<1> QED BY <1>3, <1>4

LEMMA TypeSwitchToPrimary ==
    ASSUME TypeInv, NEW c \in Core,
           SwitchToPrimary(c)
    PROVE  TypeInv'
<1>0. Control(c)
  BY DEF ControlOK
<1>1. TypeOK'
  BY <1>0, Threads DEF SwitchToPrimary, TypeOK, Control
<1>2. ControlOK'
  BY Threads DEF SwitchToPrimary, TypeOK, ControlOK, Control
<1> QED BY <1>1, <1>2

LEMMA TypeRelock ==
    ASSUME TypeInv, NEW c \in Core,
           Relock(c)
    PROVE  TypeInv'
<1>0. Control(c)
  BY DEF ControlOK
<1>1. TypeOK'
  BY <1>0, Threads DEF Relock, TypeOK, Control
<1>2. ControlOK'
  BY Threads DEF Relock, TypeOK, ControlOK, Control
<1> QED BY <1>1, <1>2

LEMMA TypeQueueWoken ==
    ASSUME TypeInv, NEW c \in Core,
           QueueWoken(c)
    PROVE  TypeInv'
<1>0. TypeOK /\ ControlOK /\ Control(c)
  BY DEF ControlOK
<1>1. target[c] \in Guest /\ executing[c] \in Thread
  BY <1>0, Threads DEF Control, QueueWoken
<1>2. /\ mFiberQueue' \in Seq(Thread) /\ pc' \in [Core -> Pc]
      /\ \A d \in Core \ {c} :
            \/ pc'[d] = pc[d]
            \/ pc[d] = "cond" /\ pc'[d] = "loop"
      /\ pc'[c] \in {"guest", "crash"}
  <2>1. CASE target[c] \in threadFiber
    BY <2>1, <1>0, <1>1, Threads, QueueAdds DEF QueueWoken, QueueTarget
  <2>2. CASE target[c] \notin threadFiber
    BY <2>2, <1>0 DEF QueueWoken, QueueTarget, TypeOK
  <2> QED BY <2>1, <2>2
<1>3. TypeOK'
  BY <1>0, <1>1, <1>2, Threads
  DEF QueueWoken, OSUnlockScheduler, QueueTarget, TypeOK, Control
<1>4. ControlOK'
  BY <1>0, <1>1, <1>2, Threads, SMTT(40)
  DEF QueueWoken, OSUnlockScheduler, QueueTarget, TypeOK, ControlOK, Control
<1> QED BY <1>3, <1>4

LEMMA TypeQueueResumed ==
    ASSUME TypeInv, NEW c \in Core,
           QueueResumed(c)
    PROVE  TypeInv'
<1>0. TypeOK /\ ControlOK /\ Control(c)
  BY DEF ControlOK
<1>1. target[c] \in Guest /\ executing[c] \in Thread
  BY <1>0, Threads DEF Control, QueueResumed
<1>2. /\ mFiberQueue' \in Seq(Thread) /\ pc' \in [Core -> Pc]
      /\ \A d \in Core \ {c} :
            \/ pc'[d] = pc[d]
            \/ pc[d] = "cond" /\ pc'[d] = "loop"
      /\ pc'[c] \in {"reschedule", "crash"}
  <2>1. CASE target[c] \in threadFiber
    BY <2>1, <1>0, <1>1, Threads, QueueAdds DEF QueueResumed, QueueTarget
  <2>2. CASE target[c] \notin threadFiber
    BY <2>2, <1>0 DEF QueueResumed, QueueTarget, TypeOK
  <2> QED BY <2>1, <2>2
<1>3. TypeOK'
  BY <1>0, <1>1, <1>2, Threads
  DEF QueueResumed, QueueTarget, TypeOK, Control
<1>4. ControlOK'
  BY <1>0, <1>1, <1>2, Threads
  DEF QueueResumed, QueueTarget, TypeOK, ControlOK, Control
<1> QED BY <1>3, <1>4

LEMMA TypeExit ==
    ASSUME TypeInv, NEW c \in Core,
           Exit(c)
    PROVE  TypeInv'
<1>0. Control(c)
  BY DEF ControlOK
<1>1. TypeOK'
  BY <1>0, Threads DEF Exit, SetCurrentFiber, TypeOK, Control
<1>2. ControlOK'
  BY Threads DEF Exit, SetCurrentFiber, TypeOK, ControlOK, Control
<1> QED BY <1>1, <1>2

LEMMA TypeOSYieldThread ==
    ASSUME TypeInv, NEW c \in Core,
           OSYieldThread(c)
    PROVE  TypeInv'
<1>0. TypeOK /\ ControlOK /\ Control(c)
  BY DEF ControlOK
<1>1. currentFiber[c] \in Guest /\ executing[c] \in Thread
  BY <1>0, Threads DEF Control, OSYieldThread
<1>2. /\ mFiberQueue' \in Seq(Thread) /\ pc' \in [Core -> Pc]
      /\ \A d \in Core : pc'[d] = IF d = c THEN "switchYield"
                                  ELSE IF pc[d] = "cond" THEN "loop" ELSE pc[d]
  BY <1>0, <1>1, Threads, QueueAdds DEF OSYieldThread, Leave
<1>3. TypeOK'
  BY <1>0, <1>1, <1>2, Threads
  DEF OSYieldThread, Leave, TypeOK, Control
<1>4. ControlOK'
  BY <1>0, <1>1, <1>2, Threads
  DEF OSYieldThread, Leave, TypeOK, ControlOK, Control
<1> QED BY <1>3, <1>4

LEMMA TypeOSSleepThread ==
    ASSUME TypeInv, NEW c \in Core,
           OSSleepThread(c)
    PROVE  TypeInv'
<1>0. Control(c)
  BY DEF ControlOK
<1>1. TypeOK'
  BY <1>0, Threads DEF OSSleepThread, Enter, TypeOK, Control
<1>2. ControlOK'
  BY Threads DEF OSSleepThread, Enter, TypeOK, ControlOK, Control
<1> QED BY <1>1, <1>2

LEMMA TypeOSSleepTicks ==
    ASSUME TypeInv, NEW c \in Core,
           OSSleepTicks(c)
    PROVE  TypeInv'
<1>0. Control(c)
  BY DEF ControlOK
<1>1. TypeOK'
  BY <1>0, Threads DEF OSSleepTicks, Enter, TypeOK, Control
<1>2. ControlOK'
  BY Threads DEF OSSleepTicks, Enter, TypeOK, ControlOK, Control
<1> QED BY <1>1, <1>2

LEMMA TypeOSSuspendThread ==
    ASSUME TypeInv, NEW c \in Core,
           OSSuspendThread(c)
    PROVE  TypeInv'
<1>0. Control(c)
  BY DEF ControlOK
<1>1. TypeOK'
  BY <1>0, Threads DEF OSSuspendThread, Enter, TypeOK, Control
<1>2. ControlOK'
  BY Threads DEF OSSuspendThread, Enter, TypeOK, ControlOK, Control
<1> QED BY <1>1, <1>2

LEMMA TypeOSExitThread ==
    ASSUME TypeInv, NEW c \in Core,
           OSExitThread(c)
    PROVE  TypeInv'
<1>0. Control(c)
  BY DEF ControlOK
<1>1. TypeOK'
  BY <1>0, Threads DEF OSExitThread, TypeOK, Control
<1>2. ControlOK'
  BY Threads DEF OSExitThread, TypeOK, ControlOK, Control
<1> QED BY <1>1, <1>2

LEMMA TypeOSRunThread ==
    ASSUME TypeInv, NEW c \in Core, NEW t \in Guest,
           OSRunThread(c, t)
    PROVE  TypeInv'
<1>0. Control(c)
  BY DEF ControlOK
<1>1. TypeOK'
  BY <1>0, Threads DEF OSRunThread, Enter, TypeOK, Control
<1>2. ControlOK'
  BY Threads DEF OSRunThread, Enter, TypeOK, ControlOK, Control
<1> QED BY <1>1, <1>2

LEMMA TypeOSWakeupOneThread ==
    ASSUME TypeInv, NEW c \in Core, NEW t \in Guest,
           OSWakeupOneThread(c, t)
    PROVE  TypeInv'
<1>0. Control(c)
  BY DEF ControlOK
<1>1. TypeOK'
  BY <1>0, Threads DEF OSWakeupOneThread, Enter, TypeOK, Control
<1>2. ControlOK'
  BY Threads DEF OSWakeupOneThread, Enter, TypeOK, ControlOK, Control
<1> QED BY <1>1, <1>2

LEMMA TypeOSResumeThread ==
    ASSUME TypeInv, NEW c \in Core, NEW t \in Guest,
           OSResumeThread(c, t)
    PROVE  TypeInv'
<1>0. Control(c)
  BY DEF ControlOK
<1>1. TypeOK'
  BY <1>0, Threads DEF OSResumeThread, ResumedCounter, TypeOK, Control
<1>2. ControlOK'
  BY Threads DEF OSResumeThread, ResumedCounter, TypeOK, ControlOK, Control
<1> QED BY <1>1, <1>2

LEMMA TypeOSSetThreadPriority ==
    ASSUME TypeInv, NEW c \in Core, NEW t \in Guest, NEW p \in Priorities,
           OSSetThreadPriority(c, t, p)
    PROVE  TypeInv'
<1>1. TypeOK'
  BY ConstantsAssumption DEF OSSetThreadPriority, Enter, TypeOK
<1>2. ControlOK'
  BY Threads DEF OSSetThreadPriority, Enter, TypeOK, ControlOK, Control
<1> QED BY <1>1, <1>2

LEMMA TypeOSSetThreadAffinity ==
    ASSUME TypeInv, NEW c \in Core, NEW t \in Guest,
           NEW a \in SUBSET Core \ {{}},
           OSSetThreadAffinity(c, t, a)
    PROVE  TypeInv'
<1>0. Control(c)
  BY DEF ControlOK
<1>1. TypeOK'
  BY <1>0, Threads DEF OSSetThreadAffinity, Enter, TypeOK, Control
<1>2. ControlOK'
  BY Threads DEF OSSetThreadAffinity, Enter, TypeOK, ControlOK, Control
<1> QED BY <1>1, <1>2

LEMMA TypeHandleInterrupt ==
    ASSUME TypeInv, NEW c \in Core, HandleInterrupt(c)
    PROVE  TypeInv'
<1>0. TypeOK /\ ControlOK /\ Control(c)
  BY DEF ControlOK
<1>1. EnterInterrupt(c) /\ pc[c] \in {"loop", "guest", "first", "callback"}
  BY DEF HandleInterrupt
<1> DEFINE h == InterruptThread[c]
<1>2. /\ interruptedFiber' = [interruptedFiber EXCEPT ![c] = currentFiber[c]]
      /\ currentFiber' = [currentFiber EXCEPT ![c] = interruptHandlerFiber[c]]
      /\ interrupt' = [interrupt EXCEPT ![c] = FALSE]
      /\ interruptHandlerFiber' = interruptHandlerFiber
  BY <1>0, <1>1, EnterInterruptCases
<1>3. \/ /\ pc' = [pc EXCEPT ![c] = "crash"]
         /\ UNCHANGED <<executing, context>>
      \/ /\ interruptHandlerFiber[c] = h /\ executing[c] = h
         /\ UNCHANGED <<executing, context, pc>>
      \/ /\ interruptHandlerFiber[c] = h
         /\ executing' = [executing EXCEPT ![c] = h]
         /\ pc' = [pc EXCEPT ![c] = "check"]
         /\ \/ context' = context
            \/ /\ executing[c] \in Guest
               /\ context' = [context EXCEPT ![executing[c]] = "guest"]
  BY <1>0, <1>1, EnterInterruptCases
<1>4. /\ mFiberDeleteList' \in [Core -> SUBSET Thread]
      /\ UNCHANGED <<mFiberQueue, mFiberList, threadFiber, parentFiber, state,
                     threadVars, waiters, alarmVars, gSchedulerLock, target>>
  BY <1>0 DEF HandleInterrupt, TypeOK
<1> HIDE DEF h
<1>h. h \in Thread
  BY Threads DEF h
<1>5. /\ executing' \in [Core -> Thread \cup {NoFiber}] /\ pc' \in [Core -> Pc]
      /\ context' \in [Thread -> {"guest", "relock", "first", "check"}]
  <2>1. executing' \in [Core -> Thread \cup {NoFiber}]
    BY <1>0, <1>3, <1>h DEF TypeOK
  <2>2. pc' \in [Core -> Pc]
    BY <1>0, <1>3 DEF TypeOK
  <2>3. context \in [Thread -> {"guest", "relock", "first", "check"}]
    BY <1>0 DEF TypeOK
  <2>4. context' \in [Thread -> {"guest", "relock", "first", "check"}]
    BY <1>3, <2>3
  <2> QED BY <2>1, <2>2, <2>4
<1>6. TypeOK'
  BY <1>0, <1>2, <1>4, <1>5, Threads DEF TypeOK
<1>7. \A t \in Thread : \/ context'[t] = context[t]
                        \/ t \in Guest /\ context'[t] = "guest"
  <2>1. CASE context' = context
    BY <2>1
  <2>2. CASE /\ executing[c] \in Guest
             /\ context' = [context EXCEPT ![executing[c]] = "guest"]
    BY <1>0, <2>2 DEF TypeOK
  <2> QED BY <1>3, <2>1, <2>2
<1>8. Control(c)'
  BY <1>0, <1>1, <1>2, <1>3, <1>4, <1>7, Threads DEF TypeOK, Control, h
<1>9. ASSUME NEW d \in Core \ {c} PROVE Control(d)'
  BY <1>0, <1>2, <1>3, <1>4, <1>7, Threads, SMTT(40) DEF TypeOK, ControlOK, Control
<1>10. ControlOK'
  BY <1>0, <1>7, <1>8, <1>9, Threads DEF ControlOK
<1> QED BY <1>6, <1>10

LEMMA TypeWaitFirstInterrupt ==
    ASSUME TypeInv, NEW c \in Core,
           WaitFirstInterrupt(c)
    PROVE  TypeInv'
<1>0. Control(c)
  BY DEF ControlOK
<1>1. TypeOK'
  BY <1>0, Threads DEF WaitFirstInterrupt, TypeOK, Control
<1>2. ControlOK'
  BY Threads DEF WaitFirstInterrupt, TypeOK, ControlOK, Control
<1> QED BY <1>1, <1>2

LEMMA TypeTriggerAlarm ==
    ASSUME TypeInv, NEW c \in Core, NEW t \in Guest,
           TriggerAlarm(c, t)
    PROVE  TypeInv'
<1>0. Control(c)
  BY DEF ControlOK
<1>1. TypeOK'
  BY <1>0, Threads DEF TriggerAlarm, TypeOK, Control
<1>2. ControlOK'
  BY Threads DEF TriggerAlarm, TypeOK, ControlOK, Control
<1> QED BY <1>1, <1>2

LEMMA TypeSleepAlarmHandler ==
    ASSUME TypeInv, NEW c \in Core,
           SleepAlarmHandler(c)
    PROVE  TypeInv'
<1>0. Control(c)
  BY DEF ControlOK
<1>1. TypeOK'
  BY <1>0, Threads DEF SleepAlarmHandler, TypeOK, Control
<1>2. ControlOK'
  BY Threads DEF SleepAlarmHandler, TypeOK, ControlOK, Control
<1> QED BY <1>1, <1>2

LEMMA TypeQueueSleeper ==
    ASSUME TypeInv, NEW c \in Core,
           QueueSleeper(c)
    PROVE  TypeInv'
<1>0. TypeOK /\ ControlOK /\ Control(c)
  BY DEF ControlOK
<1>1. target[c] \in Guest /\ executing[c] \in Thread
  BY <1>0, Threads DEF Control, QueueSleeper
<1>2. /\ mFiberQueue' \in Seq(Thread) /\ pc' \in [Core -> Pc]
      /\ \A d \in Core \ {c} :
            \/ pc'[d] = pc[d]
            \/ pc[d] = "cond" /\ pc'[d] = "loop"
      /\ pc'[c] \in {"check", "crash"}
  <2>1. CASE target[c] \in threadFiber
    BY <2>1, <1>0, <1>1, Threads, QueueAdds DEF QueueSleeper, QueueTarget
  <2>2. CASE target[c] \notin threadFiber
    BY <2>2, <1>0 DEF QueueSleeper, QueueTarget, TypeOK
  <2> QED BY <2>1, <2>2
<1>3. TypeOK'
  BY <1>0, <1>1, <1>2, Threads
  DEF QueueSleeper, OSUnlockScheduler, QueueTarget, TypeOK, Control
<1>4. ControlOK'
  BY <1>0, <1>1, <1>2, Threads, SMTT(40)
  DEF QueueSleeper, OSUnlockScheduler, QueueTarget, TypeOK, ControlOK,
      Control
<1> QED BY <1>3, <1>4

LEMMA TypeAlarmsChecked ==
    ASSUME TypeInv, NEW c \in Core,
           AlarmsChecked(c)
    PROVE  TypeInv'
<1>0. Control(c)
  BY DEF ControlOK
<1>1. TypeOK'
  BY <1>0, Threads DEF AlarmsChecked, TypeOK, Control
<1>2. ControlOK'
  BY Threads DEF AlarmsChecked, TypeOK, ControlOK, Control
<1> QED BY <1>1, <1>2

LEMMA TypeFinishInterrupt ==
    ASSUME TypeInv, NEW c \in Core, FinishInterrupt(c)
    PROVE  TypeInv'
<1> DEFINE f == interruptedFiber[c]
           h == InterruptThread[c]
<1>0. TypeOK /\ ControlOK /\ Control(c)
  BY DEF ControlOK
<1>1. executing[c] = h /\ interruptHandlerFiber[c] = h /\ context[h] = "check"
  BY <1>0, Threads DEF Control, FinishInterrupt
<1>2. context' = context
  BY <1>0, <1>1 DEF FinishInterrupt, TypeOK
<1>3. f \in Guest \cup {h, NoFiber}
  BY <1>0 DEF Control
<1>4. /\ currentFiber' = [currentFiber EXCEPT ![c] = f]
      /\ interruptedFiber' = [interruptedFiber EXCEPT ![c] = NoFiber]
      /\ executing' = [executing EXCEPT ![c] = f]
      /\ pc' = [pc EXCEPT ![c] = IF f = NoFiber THEN "loop" ELSE context[f]]
      /\ UNCHANGED <<mFiberQueue, fiberVars, state, threadVars, waiters,
                     alarmVars, gSchedulerLock, target, interruptHandlerFiber,
                     interrupt>>
  BY <1>2 DEF FinishInterrupt, SetCurrentFiber
<1> HIDE DEF f
<1>5. TypeOK'
  BY <1>0, <1>2, <1>3, <1>4, Threads DEF TypeOK
<1>6. ControlOK'
  BY <1>0, <1>1, <1>2, <1>3, <1>4, Threads DEF TypeOK, ControlOK, Control
<1> QED BY <1>5, <1>6

LEMMA TypeTimerFires ==
    ASSUME TypeInv, NEW c \in Core, TimerFires(c)
    PROVE  TypeInv'
<1>1. TypeOK'
  BY ConstantsAssumption DEF TimerFires, Notified, TypeOK
<1>2. ControlOK'
  BY DEF TimerFires, Notified, TypeOK, ControlOK, Control
<1> QED BY <1>1, <1>2

(* No step breaks the types, nor what the code knows where it is. *)
LEMMA TypeNext == TypeInv /\ [Next]_vars => TypeInv'
<1> SUFFICES ASSUME TypeInv, [Next]_vars PROVE TypeInv'
  OBVIOUS
<1>1. CASE UNCHANGED vars
  BY <1>1 DEF vars, TypeOK, ControlOK, Control
<1>2. ASSUME NEW c \in Core, Primary(c) PROVE TypeInv'
  BY <1>2, TypeDispatch, TypeIdleInterrupt, TypeDecideToWait, TypeWait DEF Primary
<1>3. ASSUME NEW c \in Core, Kernel(c) PROVE TypeInv'
  BY <1>3, TypeRescheduleReturn, TypeRescheduleLeave, TypeSwitchToPrimary,
     TypeRelock, TypeQueueWoken, TypeQueueResumed, TypeExit
  DEF Kernel
<1>4. ASSUME NEW c \in Core, GuestCall(c) PROVE TypeInv'
  BY <1>4, TypeOSYieldThread, TypeOSSleepThread, TypeOSSleepTicks,
     TypeOSSuspendThread, TypeOSExitThread, TypeOSRunThread,
     TypeOSWakeupOneThread, TypeOSResumeThread, TypeOSSetThreadPriority,
     TypeOSSetThreadAffinity
  DEF GuestCall
<1>5. ASSUME NEW c \in Core, Interrupt(c) PROVE TypeInv'
  BY <1>5, TypeHandleInterrupt, TypeWaitFirstInterrupt, TypeTriggerAlarm,
     TypeSleepAlarmHandler, TypeQueueSleeper, TypeAlarmsChecked,
     TypeFinishInterrupt
  DEF Interrupt
<1> QED BY <1>1, <1>2, <1>3, <1>4, <1>5, TypeTimerFires DEF Next

(* The inductive invariant the other proofs start from. *)
THEOREM Typed == Spec => []TypeInv
<1> QED BY TypeInit, TypeNext, PTL DEF Spec

(* The variables keep their types: in particular the suspend counter, which  *)
(* OSResumeThread clamps at zero, never goes negative.                       *)
THEOREM TypeCorrect == Spec => []TypeOK
<1>1. TypeInv => TypeOK
  OBVIOUS
<1> QED BY <1>1, Typed, PTL

(* Wherever a core is, guest code and interrupt handlers included, the fiber *)
(* it executes is the one getCurrentFiber answers with.                      *)
THEOREM CurrentCorrect == Spec => []CurrentIsExecuting
<1>1. TypeInv => CurrentIsExecuting
  <2> SUFFICES ASSUME TypeInv, NEW c \in Core,
                      executing[c] # NoFiber, pc[c] # "crash"
               PROVE  currentFiber[c] = executing[c]
    BY DEF CurrentIsExecuting
  <2>1. Control(c) /\ pc[c] \in Pc
    BY DEF TypeOK, ControlOK
  <2> QED BY <2>1 DEF Control
<1> QED BY <1>1, Typed, PTL

-----------------------------------------------------------------------------
(* The safety of the core scheduler, from the types shown above.             *)

Step(c) == \/ Primary(c) \/ Kernel(c) \/ GuestCall(c) \/ Interrupt(c)
           \/ TimerFires(c)

\* What a step of core c may do to the other cores: wake them.
Others(c) ==
    \A d \in Core \ {c} :
        /\ executing'[d] = executing[d] /\ target'[d] = target[d]
        /\ pc'[d] = pc[d] \/ (pc[d] = "cond" /\ pc'[d] = "loop")

(* queue(thread->fiber) adds the fiber, or crashes where there is none.       *)
LEMMA QueueTargetCases ==
    ASSUME TypeOK, NEW c \in Core, NEW p \in Pc, target[c] \in Thread,
           QueueTarget(c, p)
    PROVE  /\ MutexFree
           /\ \/ /\ target[c] \in threadFiber
                 /\ Range(mFiberQueue') = Range(mFiberQueue) \cup {target[c]}
                 /\ pc' = Notified([pc EXCEPT ![c] = p])
              \/ /\ target[c] \notin threadFiber
                 /\ mFiberQueue' = mFiberQueue
                 /\ pc' = [pc EXCEPT ![c] = "crash"]
<1>1. CASE target[c] \in threadFiber
  <2>1. Queue(c, target[c], p)
    BY <1>1 DEF QueueTarget
  <2> QED BY <1>1, <2>1, QueueAdds DEF Queue
<1>2. CASE target[c] \notin threadFiber
  BY <1>2 DEF QueueTarget
<1> QED BY <1>1, <1>2

LEMMA QueueTargetOthers ==
    ASSUME TypeOK, NEW c \in Core, NEW p, QueueTarget(c, p),
           UNCHANGED <<executing, target>>
    PROVE  Others(c)
<1>1. CASE target[c] \in threadFiber
  BY <1>1 DEF QueueTarget, Queue, Notified, Others, TypeOK
<1>2. CASE target[c] \notin threadFiber
  BY <1>2 DEF QueueTarget, Others, TypeOK
<1> QED BY <1>1, <1>2

LEMMA EnterInterruptOthers ==
    ASSUME TypeOK, NEW c \in Core, EnterInterrupt(c), UNCHANGED target
    PROVE  Others(c)
<1>1. CASE interruptHandlerFiber[c] = NoFiber
  BY <1>1 DEF EnterInterrupt, Others, TypeOK
<1>2. CASE interruptHandlerFiber[c] # NoFiber
  <2>1. CASE executing[c] = interruptHandlerFiber[c]
    BY <1>2, <2>1 DEF EnterInterrupt, Others, TypeOK
  <2>2. CASE executing[c] # interruptHandlerFiber[c]
    BY <1>2, <2>2 DEF EnterInterrupt, Others, TypeOK
  <2> QED BY <2>1, <2>2
<1> QED BY <1>1, <1>2

(* A core acts on itself only, but for the notify_all of mCondition. *)
LEMMA StepOthers ==
    ASSUME TypeInv, NEW c \in Core, Step(c)
    PROVE  Others(c)
<1> USE DEF TypeOK, Others, SetCurrentFiber, Enter, OSUnlockScheduler
<1>1. CASE Dispatch(c)
  BY <1>1 DEF Dispatch
<1>2. CASE IdleInterrupt(c)
  BY <1>2, EnterInterruptOthers DEF IdleInterrupt
<1>3. CASE DecideToWait(c)
  BY <1>3 DEF DecideToWait
<1>4. CASE Wait(c)
  BY <1>4 DEF Wait
<1>5. CASE RescheduleReturn(c)
  BY <1>5 DEF RescheduleReturn
<1>6. CASE RescheduleLeave(c)
  BY <1>6 DEF RescheduleLeave, Leave, Queue, Notified
<1>7. CASE SwitchToPrimary(c)
  BY <1>7 DEF SwitchToPrimary
<1>8. CASE Relock(c)
  BY <1>8 DEF Relock
<1>9. CASE QueueWoken(c)
  BY <1>9, QueueTargetOthers DEF QueueWoken
<1>10. CASE QueueResumed(c)
  BY <1>10, QueueTargetOthers DEF QueueResumed
<1>11. CASE Exit(c)
  BY <1>11 DEF Exit
<1>12. CASE OSYieldThread(c)
  BY <1>12 DEF OSYieldThread, Leave, Queue, Notified
<1>13. CASE OSSleepThread(c)
  BY <1>13 DEF OSSleepThread
<1>14. CASE OSSleepTicks(c)
  BY <1>14 DEF OSSleepTicks
<1>15. CASE OSSuspendThread(c)
  BY <1>15 DEF OSSuspendThread
<1>16. CASE OSExitThread(c)
  BY <1>16 DEF OSExitThread
<1>17. ASSUME NEW t \in Guest, OSRunThread(c, t) PROVE Others(c)
  BY <1>17 DEF OSRunThread
<1>18. ASSUME NEW t \in Guest, OSWakeupOneThread(c, t) PROVE Others(c)
  BY <1>18 DEF OSWakeupOneThread
<1>19. ASSUME NEW t \in Guest, OSResumeThread(c, t) PROVE Others(c)
  BY <1>19 DEF OSResumeThread
<1>20. ASSUME NEW t \in Guest, NEW p \in Priorities, OSSetThreadPriority(c, t, p)
       PROVE  Others(c)
  BY <1>20 DEF OSSetThreadPriority
<1>21. ASSUME NEW t \in Guest, NEW a \in SUBSET Core \ {{}},
              OSSetThreadAffinity(c, t, a)
       PROVE  Others(c)
  BY <1>21 DEF OSSetThreadAffinity
<1>22. CASE HandleInterrupt(c)
  BY <1>22, EnterInterruptOthers DEF HandleInterrupt
<1>23. CASE WaitFirstInterrupt(c)
  BY <1>23 DEF WaitFirstInterrupt
<1>24. ASSUME NEW t \in Guest, TriggerAlarm(c, t) PROVE Others(c)
  BY <1>24 DEF TriggerAlarm
<1>25. CASE SleepAlarmHandler(c)
  BY <1>25 DEF SleepAlarmHandler
<1>26. CASE QueueSleeper(c)
  BY <1>26, QueueTargetOthers DEF QueueSleeper
<1>27. CASE AlarmsChecked(c)
  BY <1>27 DEF AlarmsChecked
<1>28. CASE FinishInterrupt(c)
  BY <1>28 DEF FinishInterrupt
<1>29. CASE TimerFires(c)
  BY <1>29 DEF TimerFires, Notified
<1> QED
  BY <1>1, <1>2, <1>3, <1>4, <1>5, <1>6, <1>7, <1>8, <1>9, <1>10, <1>11, <1>12,
     <1>13, <1>14, <1>15, <1>16, <1>17, <1>18, <1>19, <1>20, <1>21, <1>22, <1>23,
     <1>24, <1>25, <1>26, <1>27, <1>28, <1>29
  DEF Step, Primary, Kernel, GuestCall, Interrupt

-----------------------------------------------------------------------------
(* gSchedulerLock.  A step keeps the lock where it is, takes it or drops it. *)

LockKept(c) ==
    gSchedulerLock' = gSchedulerLock /\ (HoldsScheduler(c)' <=> HoldsScheduler(c))
LockTaken(c) == ~gSchedulerLock /\ gSchedulerLock' = TRUE /\ HoldsScheduler(c)'
LockDropped(c) ==
    HoldsScheduler(c) /\ gSchedulerLock' = FALSE /\ ~HoldsScheduler(c)'


\* OSResumeThread holds the lock from the moment it sees the fiber until it
\* queues it, so nobody can take the fiber away in between.
ResumesFiber == \A c \in Core : pc[c] = "resume" => target[c] \in threadFiber

LockMoves(c) ==
    /\ LockKept(c) \/ LockTaken(c) \/ LockDropped(c)
    /\ pc'[c] = "resume" => target'[c] \in threadFiber'

LockInv == SchedulerLockHeldOnce /\ ResumesFiber

LEMMA StepLock ==
    ASSUME TypeInv, LockInv, NEW c \in Core, Step(c)
    PROVE  LockMoves(c)
<1> USE DEF TypeOK, LockMoves, LockKept, LockTaken, LockDropped, HoldsScheduler,
            Enter, OSUnlockScheduler
<1>0. Control(c) /\ target[c] \in Thread \cup {NoFiber}
  BY DEF ControlOK
<1>1. CASE Dispatch(c)
  <2>1. PICK i \in DOMAIN mFiberQueue :
           pc' = [pc EXCEPT ![c] = context[mFiberQueue[i]]]
    BY <1>1 DEF Dispatch
  <2>2. mFiberQueue[i] \in Thread
    BY <2>1, LenProperties, ElementOfSeq
  <2>3. pc'[c] \in {"guest", "relock", "first", "check"}
    BY <2>1, <2>2
  <2> QED BY <1>1, <2>3 DEF Dispatch
<1>2. CASE IdleInterrupt(c)
  <2>1. EnterInterrupt(c) /\ pc[c] = "loop" /\ gSchedulerLock' = gSchedulerLock
    BY <1>2 DEF IdleInterrupt
  <2>2. pc'[c] \in {"crash", "loop", "check"}
    BY <1>0, <2>1, EnterInterruptCases
  <2> QED BY <2>1, <2>2
<1>3. CASE DecideToWait(c)
  BY <1>3 DEF DecideToWait
<1>4. CASE Wait(c)
  BY <1>4 DEF Wait
<1>5. CASE RescheduleReturn(c)
  BY <1>5 DEF RescheduleReturn
<1>6. CASE RescheduleLeave(c)
  BY <1>6 DEF RescheduleLeave, Leave, Queue, Notified
<1>7. CASE SwitchToPrimary(c)
  BY <1>7 DEF SwitchToPrimary
<1>8. CASE Relock(c)
  BY <1>8 DEF Relock
<1>9. CASE QueueWoken(c)
  <2>1. pc'[c] \in {"guest", "crash"}
    BY <1>0, <1>9, QueueTargetCases, Threads DEF QueueWoken, Notified, Control
  <2> QED BY <1>9, <2>1 DEF QueueWoken
<1>10. CASE QueueResumed(c)
  <2>1. target[c] \in threadFiber
    BY <1>10 DEF QueueResumed, LockInv, ResumesFiber
  <2>2. pc'[c] = "reschedule"
    BY <1>10, <2>1 DEF QueueResumed, QueueTarget, Queue, Notified
  <2> QED BY <1>10, <2>2 DEF QueueResumed
<1>11. CASE Exit(c)
  BY <1>11 DEF Exit
<1>12. CASE OSYieldThread(c)
  BY <1>12 DEF OSYieldThread, Leave, Queue, Notified
<1>13. CASE OSSleepThread(c)
  BY <1>13 DEF OSSleepThread
<1>14. CASE OSSleepTicks(c)
  BY <1>14 DEF OSSleepTicks
<1>15. CASE OSSuspendThread(c)
  BY <1>15 DEF OSSuspendThread
<1>16. CASE OSExitThread(c)
  BY <1>16 DEF OSExitThread
<1>17. ASSUME NEW t \in Guest, OSRunThread(c, t) PROVE LockMoves(c)
  BY <1>17 DEF OSRunThread
<1>18. ASSUME NEW t \in Guest, OSWakeupOneThread(c, t) PROVE LockMoves(c)
  BY <1>18 DEF OSWakeupOneThread
<1>19. ASSUME NEW t \in Guest, OSResumeThread(c, t) PROVE LockMoves(c)
  <2>1. /\ pc[c] = "guest" /\ ~gSchedulerLock
        /\ gSchedulerLock' = (ResumedCounter(suspendCounter[t]) = 0)
    BY <1>19 DEF OSResumeThread
  <2>2. CASE ResumedCounter(suspendCounter[t]) > 0
    <3>1. pc'[c] = "guest" /\ gSchedulerLock' = FALSE
      BY <1>19, <2>2 DEF OSResumeThread
    <3> QED BY <2>1, <3>1
  <2>3. CASE ResumedCounter(suspendCounter[t]) = 0
    <3>0. gSchedulerLock' = TRUE
      BY <2>1, <2>3, Zenon
    <3>1. pc'[c] \in {"resume", "reschedule"}
      BY <1>19, <2>3 DEF OSResumeThread
    <3>2. ASSUME pc'[c] = "resume" PROVE target'[c] \in threadFiber'
      <4>1. suspendCounter[t] = 1 /\ state[t] = "Ready"
        BY <1>19, <2>3, <3>2 DEF OSResumeThread
      <4> QED BY <1>19, <4>1 DEF OSResumeThread
    <3> QED BY <2>1, <3>0, <3>1, <3>2
  <2>4. ResumedCounter(suspendCounter[t]) \in Nat
    BY Threads DEF ResumedCounter
  <2>5. \/ ResumedCounter(suspendCounter[t]) > 0
        \/ ResumedCounter(suspendCounter[t]) = 0
    BY <2>4
  <2> QED BY <2>2, <2>3, <2>5
<1>20. ASSUME NEW t \in Guest, NEW p \in Priorities, OSSetThreadPriority(c, t, p)
       PROVE  LockMoves(c)
  BY <1>20 DEF OSSetThreadPriority
<1>21. ASSUME NEW t \in Guest, NEW a \in SUBSET Core \ {{}},
              OSSetThreadAffinity(c, t, a)
       PROVE  LockMoves(c)
  BY <1>21 DEF OSSetThreadAffinity
<1>22. CASE HandleInterrupt(c)
  <2>1. /\ EnterInterrupt(c) /\ pc[c] \in {"guest", "first", "callback"}
        /\ gSchedulerLock' = gSchedulerLock
    BY <1>22 DEF HandleInterrupt
  <2>2. pc'[c] \in {"crash", "guest", "first", "callback", "check"}
    BY <1>0, <2>1, EnterInterruptCases
  <2> QED BY <2>1, <2>2
<1>23. CASE WaitFirstInterrupt(c)
  BY <1>23 DEF WaitFirstInterrupt
<1>24. ASSUME NEW t \in Guest, TriggerAlarm(c, t) PROVE LockMoves(c)
  BY <1>24 DEF TriggerAlarm
<1>25. CASE SleepAlarmHandler(c)
  BY <1>25 DEF SleepAlarmHandler
<1>26. CASE QueueSleeper(c)
  <2>1. pc'[c] \in {"check", "crash"}
    BY <1>0, <1>26, QueueTargetCases, Threads DEF QueueSleeper, Notified, Control
  <2> QED BY <1>26, <2>1 DEF QueueSleeper
<1>27. CASE AlarmsChecked(c)
  BY <1>27 DEF AlarmsChecked
<1>28. CASE FinishInterrupt(c)
  <2>1. context' \in [Thread -> {"guest", "relock", "first", "check"}]
    BY <1>28 DEF FinishInterrupt
  <2>2. interruptedFiber[c] # NoFiber => interruptedFiber[c] \in Thread
    OBVIOUS
  <2>3. pc'[c] \in {"loop", "guest", "relock", "first", "check"}
    BY <1>28, <2>1, <2>2 DEF FinishInterrupt
  <2> QED BY <1>28, <2>3 DEF FinishInterrupt
<1>29. CASE TimerFires(c)
  BY <1>29 DEF TimerFires, Notified, LockInv, ResumesFiber
<1> QED
  BY <1>1, <1>2, <1>3, <1>4, <1>5, <1>6, <1>7, <1>8, <1>9, <1>10, <1>11, <1>12,
     <1>13, <1>14, <1>15, <1>16, <1>17, <1>18, <1>19, <1>20, <1>21, <1>22, <1>23,
     <1>24, <1>25, <1>26, <1>27, <1>28, <1>29
  DEF Step, Primary, Kernel, GuestCall, Interrupt

(* Only a thread's own exit takes its fiber away, and only while nobody holds *)
(* the lock.                                                                  *)
LEMMA StepFiber ==
    ASSUME TypeInv, NEW c \in Core, Step(c)
    PROVE  threadFiber \subseteq threadFiber' \/ OSExitThread(c)
BY DEF Step, Primary, Kernel, GuestCall, Interrupt, Dispatch, IdleInterrupt,
       DecideToWait, Wait, RescheduleReturn, RescheduleLeave, SwitchToPrimary,
       Relock, QueueWoken, QueueResumed, Exit, OSYieldThread, OSSleepThread,
       OSSleepTicks, OSSuspendThread, OSRunThread, OSWakeupOneThread,
       OSResumeThread, OSSetThreadPriority, OSSetThreadAffinity,
       HandleInterrupt, WaitFirstInterrupt, TriggerAlarm, SleepAlarmHandler,
       QueueSleeper, AlarmsChecked, FinishInterrupt, TimerFires

LEMMA LockNext == TypeInv /\ LockInv /\ [Next]_vars => LockInv'
<1> SUFFICES ASSUME TypeInv, LockInv, [Next]_vars PROVE LockInv'
  OBVIOUS
<1>1. CASE UNCHANGED vars
  BY <1>1 DEF vars, LockInv, SchedulerLockHeldOnce, HoldsScheduler, ResumesFiber
<1>2. ASSUME NEW c \in Core, Step(c) PROVE LockInv'
  <2>1. LockMoves(c) /\ Others(c)
    BY <1>2, StepLock, StepOthers
  <2>2. \A d \in Core \ {c} : HoldsScheduler(d)' <=> HoldsScheduler(d)
    BY <2>1 DEF Others, HoldsScheduler
  <2>3. SchedulerLockHeldOnce'
    BY <2>1, <2>2
    DEF LockMoves, LockKept, LockTaken, LockDropped, LockInv, SchedulerLockHeldOnce
  <2>4. threadFiber \subseteq threadFiber'
        \/ \A d \in Core : pc[d] # "resume"
    <3>1. CASE OSExitThread(c)
      BY <3>1 DEF OSExitThread, LockInv, SchedulerLockHeldOnce, HoldsScheduler
    <3> QED BY <1>2, <3>1, StepFiber
  <2>5. ResumesFiber'
    BY <2>1, <2>4 DEF LockMoves, Others, LockInv, ResumesFiber
  <2> QED BY <2>3, <2>5 DEF LockInv
<1> QED BY <1>1, <1>2 DEF Next, Step

(* The spin lock of the scheduler has one holder at most, and is taken        *)
(* exactly while a core is between a lock and its unlock: no path of the      *)
(* kernel calls, the interrupts or reschedule forgets or doubles an unlock.   *)
THEOREM SchedulerLockCorrect == Spec => []SchedulerLockHeldOnce
<1>1. Init => LockInv
  BY DEF Init, LockInv, SchedulerLockHeldOnce, HoldsScheduler, ResumesFiber
<1>2. LockInv => SchedulerLockHeldOnce
  BY DEF LockInv
<1> QED BY <1>1, <1>2, LockNext, Typed, PTL DEF Spec

-----------------------------------------------------------------------------
(* No thread is forgotten. *)

Places == {"wake", "resume", "wakeSleeper", "reschedule"}

\* Where a Ready thread may be.
Placed(t) ==
    \/ t \in Range(mFiberQueue)
    \/ BeingQueued(t)
    \/ \E c \in Core : executing[c] = t /\ pc[c] = "reschedule"

\* Steps that change neither who is Ready nor who is where.
Quiet(c) ==
    /\ UNCHANGED <<mFiberQueue, state, threadFiber>>
    /\ \/ pc[c] \notin Places
       \/ pc'[c] = pc[c] /\ UNCHANGED <<executing, target>>

(* What the other cores are about to queue stays placed. *)
LEMMA OthersPlaced ==
    ASSUME TypeInv, NEW c \in Core, Others(c), NEW t, Placed(t)
    PROVE  \/ Placed(t)'
           \/ t \in Range(mFiberQueue) \ Range(mFiberQueue')
           \/ pc[c] \in Places /\ t \in {executing[c], target[c]}
BY DEF Placed, BeingQueued, Others, Places

LEMMA QuietPlaced ==
    ASSUME TypeInv, ReadyIsQueued, NEW c \in Core, Quiet(c), Others(c)
    PROVE  ReadyIsQueued'
BY DEF ReadyIsQueued, BeingQueued, Quiet, Others, Places

LEMMA StepQuiet ==
    ASSUME TypeInv, NEW c \in Core,
           \/ Wait(c) \/ IdleInterrupt(c) \/ DecideToWait(c)
           \/ SwitchToPrimary(c) \/ Relock(c) \/ Exit(c)
           \/ HandleInterrupt(c) \/ WaitFirstInterrupt(c)
           \/ AlarmsChecked(c) \/ FinishInterrupt(c) \/ TimerFires(c)
           \/ \E t \in Guest :
                 \/ TriggerAlarm(c, t)
                 \/ \E p \in Priorities : OSSetThreadPriority(c, t, p)
                 \/ \E a \in SUBSET Core \ {{}} : OSSetThreadAffinity(c, t, a)
    PROVE  Quiet(c)
<1>1. CASE TimerFires(c)
  BY <1>1 DEF TimerFires, Notified, Quiet, Places, TypeOK
<1> QED
  BY <1>1 DEF Wait, IdleInterrupt, DecideToWait, SwitchToPrimary, Relock, Exit,
          HandleInterrupt, WaitFirstInterrupt, AlarmsChecked, FinishInterrupt,
          TriggerAlarm, OSSetThreadPriority, OSSetThreadAffinity, Enter,
          Quiet, Places

(* The other steps, by the thread t they could forget. *)
LEMMA StepReady ==
    ASSUME TypeInv, ReadyIsQueued, NEW c \in Core, Step(c), Others(c),
           NEW t \in threadFiber', state'[t] = "Ready"
    PROVE  Placed(t)'
<1> USE DEF TypeOK, SetCurrentFiber, Enter, Places
<1>0. Control(c) /\ t \in Thread
  <2>1. threadFiber' \subseteq Thread
    BY TypeNext DEF Next, Step
  <2> QED BY <2>1 DEF ControlOK
<1>p. t \in threadFiber /\ state[t] = "Ready" => Placed(t)
  BY DEF ReadyIsQueued, Placed
<1>1. ASSUME t \in threadFiber, state[t] = "Ready",
             Range(mFiberQueue) \subseteq Range(mFiberQueue'),
             ~(pc[c] \in Places /\ t \in {executing[c], target[c]})
      PROVE  Placed(t)'
  BY <1>p, <1>1, OthersPlaced
<1>2. CASE Dispatch(c)
  <2>1. PICK i \in DOMAIN mFiberQueue :
           /\ mFiberQueue' = Erase(mFiberQueue, mFiberQueue[i])
           /\ state' = [state EXCEPT ![mFiberQueue[i]] = "Running"]
    BY <1>2 DEF Dispatch
  <2>2. t # mFiberQueue[i] /\ state[t] = "Ready"
    BY <2>1, <1>0
  <2>3. Range(mFiberQueue') = Range(mFiberQueue) \ {mFiberQueue[i]}
    BY <2>1, EraseRange
  <2>4. pc[c] \notin Places /\ t \in threadFiber
    BY <1>2 DEF Dispatch
  <2> QED BY <1>p, <2>2, <2>3, <2>4, OthersPlaced
<1>3. CASE RescheduleReturn(c)
  <2>1. t \in threadFiber /\ state[t] = "Ready" /\ mFiberQueue' = mFiberQueue
    BY <1>3 DEF RescheduleReturn
  <2>2. executing[c] = currentFiber[c] /\ state[executing[c]] = "Running"
    BY <1>0, <1>3 DEF RescheduleReturn, KeepsRunning, Control
  <2>3. pc[c] = "reschedule"
    BY <1>3 DEF RescheduleReturn
  <2>4. Placed(t) /\ t # executing[c]
    BY <1>p, <2>1, <2>2
  <2> QED BY <2>1, <2>3, <2>4 DEF Placed, BeingQueued, Others
<1>4. CASE RescheduleLeave(c) \/ OSYieldThread(c)
  <2>1. /\ executing[c] = currentFiber[c] /\ currentFiber[c] \in Thread
        /\ pc[c] \in {"guest", "reschedule"}
    BY <1>0, <1>4, Threads DEF RescheduleLeave, OSYieldThread, Control
  <2>2. /\ Range(mFiberQueue') = Range(mFiberQueue) \cup {currentFiber[c]}
        /\ t \in threadFiber
    BY <1>4, <2>1, QueueAdds DEF RescheduleLeave, OSYieldThread, Leave
  <2>3. t # currentFiber[c] => state[t] = "Ready"
    BY <1>4, <1>0, <2>1 DEF RescheduleLeave, OSYieldThread, Leave
  <2>4. CASE t = currentFiber[c]
    BY <2>2, <2>4 DEF Placed
  <2>5. CASE t # currentFiber[c]
    BY <1>p, <2>1, <2>2, <2>3, <2>5 DEF Placed, BeingQueued, Others
  <2> QED BY <2>4, <2>5
<1>5. CASE QueueWoken(c) \/ QueueResumed(c) \/ QueueSleeper(c)
  <2>1. /\ pc[c] \in {"wake", "resume", "wakeSleeper"}
        /\ UNCHANGED <<state, threadFiber, executing, target>>
        /\ \E p \in Pc : QueueTarget(c, p)
    BY <1>5 DEF QueueWoken, QueueResumed, QueueSleeper
  <2>2. target[c] \in Thread
    BY <1>0, <2>1, Threads DEF Control
  <2>3. \/ Range(mFiberQueue') = Range(mFiberQueue) \cup {target[c]}
        \/ target[c] \notin threadFiber /\ mFiberQueue' = mFiberQueue
    BY <2>1, <2>2, QueueTargetCases
  <2>4. CASE t = target[c]
    BY <2>1, <2>3, <2>4 DEF Placed
  <2>5. CASE t # target[c]
    BY <1>p, <2>1, <2>3, <2>5 DEF Placed, BeingQueued, Others
  <2> QED BY <2>4, <2>5
<1>6. CASE OSSleepThread(c) \/ OSSleepTicks(c) \/ OSExitThread(c)
  <2>1. /\ t \in threadFiber /\ state[t] = "Ready" /\ mFiberQueue' = mFiberQueue
        /\ pc[c] = "guest"
    BY <1>6, <1>0 DEF OSSleepThread, OSSleepTicks, OSExitThread
  <2> QED BY <1>1, <2>1
<1>7. CASE OSSuspendThread(c)
  <2>1. /\ executing'[c] = currentFiber[c] /\ pc'[c] = "reschedule"
        /\ t \in threadFiber /\ mFiberQueue' = mFiberQueue /\ pc[c] = "guest"
    BY <1>0, <1>7 DEF OSSuspendThread, Control
  <2>2. CASE t = currentFiber[c]
    BY <2>1, <2>2 DEF Placed
  <2>3. CASE t # currentFiber[c]
    <3>1. state[t] = "Ready"
      BY <1>0, <1>7, <2>3 DEF OSSuspendThread
    <3> QED BY <1>1, <2>1, <3>1
  <2> QED BY <2>2, <2>3
<1>8. ASSUME NEW u \in Guest,
             OSRunThread(c, u) \/ OSWakeupOneThread(c, u) \/ OSResumeThread(c, u)
      PROVE  Placed(t)'
  <2>1. /\ pc[c] = "guest" /\ mFiberQueue' = mFiberQueue
        /\ target'[c] = u /\ (t = u \/ (t \in threadFiber /\ state[t] = "Ready"))
    BY <1>0, <1>8 DEF OSRunThread, OSWakeupOneThread, OSResumeThread
  <2>2. CASE t \in threadFiber /\ state[t] = "Ready"
    BY <1>1, <2>1, <2>2
  <2>3. CASE t = u /\ ~(t \in threadFiber /\ state[t] = "Ready")
    <3>1. pc'[c] \in {"wake", "resume"}
      <4>1. CASE OSRunThread(c, u) \/ OSWakeupOneThread(c, u)
        BY <4>1 DEF OSRunThread, OSWakeupOneThread
      <4>2. CASE OSResumeThread(c, u)
        <5>1. state[u] = "Ready" /\ u \notin threadFiber /\ u \in threadFiber'
          BY <2>3, <4>2 DEF OSResumeThread
        <5>2. suspendCounter[u] = 1
          BY <4>2, <5>1 DEF OSResumeThread
        <5> QED BY <4>2, <5>1, <5>2 DEF OSResumeThread, ResumedCounter
      <4> QED BY <1>8, <4>1, <4>2
    <3> QED BY <2>1, <2>3, <3>1 DEF Placed, BeingQueued
  <2> QED BY <2>1, <2>2, <2>3
<1>9. CASE SleepAlarmHandler(c)
  <2>1. /\ pc[c] = "callback" /\ mFiberQueue' = mFiberQueue /\ target' = target
        /\ pc'[c] = "wakeSleeper" /\ t \in threadFiber
    BY <1>9 DEF SleepAlarmHandler
  <2>2. CASE t = target[c]
    BY <2>1, <2>2 DEF Placed, BeingQueued
  <2>3. CASE t # target[c]
    <3>1. state[t] = "Ready"
      BY <1>0, <1>9, <2>3 DEF SleepAlarmHandler
    <3> QED BY <1>1, <2>1, <3>1
  <2> QED BY <2>2, <2>3
<1>10. CASE Quiet(c)
  <2>1. ReadyIsQueued'
    BY <1>10, QuietPlaced
  <2> QED BY <2>1 DEF ReadyIsQueued, Placed
<1> QED
  BY <1>2, <1>3, <1>4, <1>5, <1>6, <1>7, <1>8, <1>9, <1>10, StepQuiet
  DEF Step, Primary, Kernel, GuestCall, Interrupt

(* A thread that is Ready, and has a fiber, is in the run queue or about to   *)
(* be put there, whatever the affinities, the interrupts and the exits.       *)
THEOREM ReadyCorrect == Spec => []ReadyIsQueued
<1>1. Init => ReadyIsQueued
  BY DEF Init, ReadyIsQueued
<1>2. TypeInv /\ ReadyIsQueued /\ [Next]_vars => ReadyIsQueued'
  <2> SUFFICES ASSUME TypeInv, ReadyIsQueued, [Next]_vars PROVE ReadyIsQueued'
    OBVIOUS
  <2>1. CASE UNCHANGED vars
    BY <2>1 DEF vars, ReadyIsQueued, BeingQueued
  <2>2. ASSUME NEW c \in Core, Step(c) PROVE ReadyIsQueued'
    BY <2>2, StepOthers, StepReady DEF ReadyIsQueued, Placed
  <2> QED BY <2>1, <2>2 DEF Next, Step
<1> QED BY <1>1, <1>2, Typed, PTL DEF Spec

-----------------------------------------------------------------------------
(* No wake-up of a core is lost, as long as affinities do not change. *)

Waiting == {"sleep", "cond"}
Queueing == {"wake", "resume", "wakeSleeper"}

\* Steps after which nothing more is eligible and no queue() was finished.
Still(c) ==
    /\ threadFiber' \subseteq threadFiber /\ mFiberQueue' = mFiberQueue
    /\ \A t \in Thread : state'[t] = "Ready" /\ suspendCounter'[t] = 0 =>
                            state[t] = "Ready" /\ suspendCounter[t] = 0
    /\ pc[c] \notin Queueing \/ (pc'[c] = pc[c] /\ target'[c] = target[c])
    /\ pc'[c] \in Waiting => pc[c] \in Waiting

LEMMA StepAttr ==
    ASSUME "affinity" \notin Calls, NEW c \in Core, Step(c)
    PROVE  attr' = attr
BY DEF Step, Primary, Kernel, GuestCall, Interrupt, Dispatch, IdleInterrupt,
       DecideToWait, Wait, RescheduleReturn, RescheduleLeave, SwitchToPrimary,
       Relock, QueueWoken, QueueResumed, Exit, OSYieldThread, OSSleepThread,
       OSSleepTicks, OSSuspendThread, OSExitThread, OSRunThread, Enter,
       OSWakeupOneThread, OSResumeThread, OSSetThreadPriority,
       OSSetThreadAffinity, HandleInterrupt, WaitFirstInterrupt, TriggerAlarm,
       SleepAlarmHandler, QueueSleeper, AlarmsChecked, FinishInterrupt,
       TimerFires

\* The promise of NoLostWakeup to a core and a thread.
Woken(d, t) ==
    pc[d] \in Waiting /\ t \in threadFiber \cap Range(mFiberQueue)
        /\ Eligible(t, d) => BeingQueued(t)

LEMMA StillWoken ==
    ASSUME TypeInv, NoLostWakeup, NEW c \in Core, Others(c), Still(c), attr' = attr,
           NEW d \in Core, NEW t \in Thread
    PROVE  Woken(d, t)'
<1> SUFFICES ASSUME pc'[d] \in Waiting, t \in threadFiber',
                    t \in Range(mFiberQueue'), Eligible(t, d)'
             PROVE  BeingQueued(t)'
  BY DEF Woken
<1>1. pc[d] \in Waiting /\ t \in threadFiber \cap Range(mFiberQueue)
  BY DEF Still, Others, Waiting
<1>2. Eligible(t, d)
  BY DEF Still, Eligible
<1>3. BeingQueued(t)
  BY <1>1, <1>2 DEF NoLostWakeup, Waiting
<1> QED BY <1>3 DEF BeingQueued, Still, Others, Queueing

LEMMA UndisturbedWoken ==
    ASSUME TypeInv, NoLostWakeup, NEW c \in Core, Others(c),
           NEW d \in Core, NEW t \in Thread,
           pc[c] \notin Queueing, pc'[c] \notin Waiting,
           t \in threadFiber' => t \in threadFiber,
           t \in Range(mFiberQueue') => t \in Range(mFiberQueue),
           Eligible(t, d)' => Eligible(t, d)
    PROVE  Woken(d, t)'
<1> SUFFICES ASSUME pc'[d] \in Waiting, t \in threadFiber \cap Range(mFiberQueue),
                    Eligible(t, d)
             PROVE  BeingQueued(t)'
  BY DEF Woken
<1>1. pc[d] \in Waiting
  BY DEF Others, Waiting
<1>2. BeingQueued(t)
  BY <1>1 DEF NoLostWakeup, Waiting
<1> QED BY <1>2 DEF BeingQueued, Others, Queueing

(* A queue() leaves no core waiting. *)
LEMMA QueueWakes ==
    ASSUME TypeInv, NEW c \in Core, NEW f, NEW p \in Pc \ Waiting, Queue(c, f, p)
    PROVE  \A d \in Core : pc'[d] \notin Waiting
BY DEF Queue, Notified, MutexFree, Waiting, TypeOK

(* Most steps are still. *)
LEMMA StepStill ==
    ASSUME TypeInv, NEW c \in Core,
           \/ Wait(c) \/ IdleInterrupt(c) \/ RescheduleReturn(c)
           \/ SwitchToPrimary(c) \/ Relock(c) \/ Exit(c) \/ OSSleepThread(c)
           \/ OSSleepTicks(c) \/ OSSuspendThread(c) \/ OSExitThread(c)
           \/ HandleInterrupt(c) \/ WaitFirstInterrupt(c)
           \/ AlarmsChecked(c) \/ FinishInterrupt(c) \/ TimerFires(c)
           \/ \E t \in Guest :
                 \/ TriggerAlarm(c, t)
                 \/ \E p \in Priorities : OSSetThreadPriority(c, t, p)
                 \/ \E a \in SUBSET Core \ {{}} : OSSetThreadAffinity(c, t, a)
    PROVE  Still(c)
<1> USE DEF TypeOK, Still, Waiting, Queueing, Enter
<1>0. Control(c)
  BY DEF ControlOK
<1>1. CASE \/ Wait(c) \/ RescheduleReturn(c) \/ SwitchToPrimary(c) \/ Relock(c)
           \/ Exit(c) \/ WaitFirstInterrupt(c) \/ AlarmsChecked(c)
           \/ \E t \in Guest :
                 \/ TriggerAlarm(c, t)
                 \/ \E p \in Priorities : OSSetThreadPriority(c, t, p)
                 \/ \E a \in SUBSET Core \ {{}} : OSSetThreadAffinity(c, t, a)
  BY <1>1, ZenonT(60) DEF Wait, RescheduleReturn, SwitchToPrimary, Relock, Exit,
     WaitFirstInterrupt, AlarmsChecked, TriggerAlarm, OSSetThreadPriority,
     OSSetThreadAffinity
<1>2. CASE OSSleepThread(c) \/ OSSleepTicks(c) \/ OSExitThread(c)
  BY <1>2 DEF OSSleepThread, OSSleepTicks, OSExitThread
<1>3. CASE OSSuspendThread(c)
  BY <1>3 DEF OSSuspendThread
<1>4. CASE IdleInterrupt(c) \/ HandleInterrupt(c)
  <2>1. EnterInterrupt(c) /\ pc[c] \in {"loop", "guest", "first", "callback"}
    BY <1>4 DEF IdleInterrupt, HandleInterrupt
  <2>2. pc'[c] \in {"crash", "check"} \/ pc' = pc
    BY <1>0, <2>1, EnterInterruptCases
  <2> QED BY <1>4, <2>1, <2>2 DEF IdleInterrupt, HandleInterrupt
<1>5. CASE FinishInterrupt(c)
  <2>1. context' \in [Thread -> {"guest", "relock", "first", "check"}]
    BY <1>5 DEF FinishInterrupt
  <2>2. pc'[c] \in {"loop", "guest", "relock", "first", "check"}
    BY <1>5, <2>1 DEF FinishInterrupt
  <2> QED BY <1>5, <2>2 DEF FinishInterrupt
<1>6. CASE TimerFires(c)
  BY <1>6 DEF TimerFires, Notified
<1> QED BY <1>1, <1>2, <1>3, <1>4, <1>5, <1>6

LEMMA StepWoken ==
    ASSUME TypeInv, NoLostWakeup, "affinity" \notin Calls,
           NEW c \in Core, Step(c), Others(c), NEW d \in Core, NEW t \in Thread
    PROVE  Woken(d, t)'
<1> USE DEF TypeOK, Waiting, Queueing, SetCurrentFiber, Enter
<1>0. Control(c) /\ attr' = attr
  BY StepAttr DEF ControlOK
<1>1. CASE Still(c)
  BY <1>0, <1>1, StillWoken
<1>2. CASE Dispatch(c)
  <2>1. PICK i \in DOMAIN mFiberQueue :
           /\ mFiberQueue' = Erase(mFiberQueue, mFiberQueue[i])
           /\ state' = [state EXCEPT ![mFiberQueue[i]] = "Running"]
           /\ pc' = [pc EXCEPT ![c] = context[mFiberQueue[i]]]
    BY <1>2 DEF Dispatch
  <2>2. /\ mFiberQueue[i] \in Thread
        /\ Range(mFiberQueue') = Range(mFiberQueue) \ {mFiberQueue[i]}
    BY <2>1, LenProperties, ElementOfSeq, EraseRange
  <2>3. pc'[c] \notin Waiting /\ pc[c] = "loop"
    BY <1>2, <2>1, <2>2, ZenonT(60) DEF Dispatch
  <2>4. Eligible(t, d)' => Eligible(t, d)
    BY <1>0, <1>2, <2>1 DEF Dispatch, Eligible
  <2>5. UNCHANGED <<threadFiber, target>>
    BY <1>2 DEF Dispatch
  <2> QED BY <2>2, <2>3, <2>4, <2>5, UndisturbedWoken
<1>3. CASE DecideToWait(c)
  <2>1. CASE d = c
    <3>1. t \in Range(mFiberQueue) => ~Eligible(t, c)
      BY <1>3 DEF DecideToWait, NothingFor, Range
    <3> QED BY <1>3, <2>1, <3>1 DEF DecideToWait, Woken, Eligible
  <2>2. CASE d # c
    BY <1>3, <2>2, ZenonT(60) DEF DecideToWait, Woken, Eligible, NoLostWakeup, BeingQueued
  <2> QED BY <2>1, <2>2
<1>4. CASE RescheduleLeave(c) \/ OSYieldThread(c)
  <2>1. \E p \in {"switchLocked", "switchYield"} : Queue(c, currentFiber[c], p)
    BY <1>4 DEF RescheduleLeave, OSYieldThread, Leave
  <2> QED BY <2>1, QueueWakes DEF Woken
<1>5. CASE QueueWoken(c) \/ QueueResumed(c) \/ QueueSleeper(c)
  <2>1. \E p \in {"guest", "reschedule", "check"} : QueueTarget(c, p)
    BY <1>5 DEF QueueWoken, QueueResumed, QueueSleeper
  <2>2. CASE target[c] \in threadFiber
    <3>1. \E p \in {"guest", "reschedule", "check"} : Queue(c, target[c], p)
      BY <2>1, <2>2 DEF QueueTarget
    <3> QED BY <3>1, QueueWakes DEF Woken
  <2>3. CASE target[c] \notin threadFiber
    <3>1. /\ mFiberQueue' = mFiberQueue /\ pc' = [pc EXCEPT ![c] = "crash"]
          /\ UNCHANGED <<state, threadFiber, threadVars, target>>
      BY <1>5, <2>3 DEF QueueWoken, QueueResumed, QueueSleeper, QueueTarget
    <3> QED BY <1>0, <2>3, <3>1 DEF Woken, Eligible, NoLostWakeup, BeingQueued
  <2> QED BY <2>2, <2>3
<1>6. ASSUME NEW u \in Guest,
             OSRunThread(c, u) \/ OSWakeupOneThread(c, u) \/ OSResumeThread(c, u)
      PROVE  Woken(d, t)'
  <2>1. /\ pc[c] = "guest" /\ mFiberQueue' = mFiberQueue /\ target'[c] = u
        /\ pc'[c] \notin Waiting
    BY <1>6 DEF OSRunThread, OSWakeupOneThread, OSResumeThread
  <2>2. CASE t # u
    <3>1. /\ Eligible(t, d)' => Eligible(t, d)
          /\ t \in threadFiber' => t \in threadFiber
      BY <1>0, <1>6, <2>2 DEF OSRunThread, OSWakeupOneThread, OSResumeThread, Eligible
    <3> QED BY <2>1, <3>1, UndisturbedWoken
  <2>3. CASE t = u
    <3>1. CASE pc'[c] \in {"wake", "resume"}
      BY <2>1, <2>3, <3>1 DEF Woken, BeingQueued
    <3>2. CASE pc'[c] \notin {"wake", "resume"}
      <4>1. OSResumeThread(c, u) /\ state' = state
            /\ ~(suspendCounter[u] = 1 /\ state[u] = "Ready")
        BY <1>6, <3>2 DEF OSRunThread, OSWakeupOneThread, OSResumeThread, ResumedCounter
      <4>2. threadFiber' = threadFiber
        BY <4>1 DEF OSResumeThread
      <4>3. suspendCounter'[u] = 0 /\ state[u] = "Ready" => suspendCounter[u] = 0
        BY <4>1, Threads DEF OSResumeThread, ResumedCounter
      <4>4. Eligible(t, d)' => Eligible(t, d)
        BY <1>0, <2>3, <4>1, <4>3 DEF Eligible
      <4> QED BY <2>1, <4>2, <4>4, UndisturbedWoken
    <3> QED BY <3>1, <3>2
  <2> QED BY <2>2, <2>3
<1>7. CASE SleepAlarmHandler(c)
  <2>1. /\ pc[c] = "callback" /\ mFiberQueue' = mFiberQueue /\ target' = target
        /\ pc' = [pc EXCEPT ![c] = "wakeSleeper"] /\ threadFiber' = threadFiber
    BY <1>7 DEF SleepAlarmHandler
  <2>2. CASE t = target[c]
    BY <2>1, <2>2 DEF Woken, BeingQueued
  <2>3. CASE t # target[c]
    <3>1. Eligible(t, d)' => Eligible(t, d)
      BY <1>0, <1>7, <2>3 DEF SleepAlarmHandler, Eligible
    <3> QED BY <2>1, <3>1, UndisturbedWoken
  <2> QED BY <2>2, <2>3
<1> QED
  BY <1>1, <1>2, <1>3, <1>4, <1>5, <1>6, <1>7, StepStill
  DEF Step, Primary, Kernel, GuestCall, Interrupt

(* While no thread changes its affinity, a core waits on mCondition only when *)
(* the run queue holds nothing it may run, or somebody is about to queue it   *)
(* again and to notify.  (OSSetThreadAffinity breaks this.)                    *)
THEOREM WakeupCorrect ==
    ASSUME "affinity" \notin Calls
    PROVE  Spec => []NoLostWakeup
<1>1. Init => NoLostWakeup
  BY DEF Init, NoLostWakeup
<1>2. TypeInv /\ NoLostWakeup /\ [Next]_vars => NoLostWakeup'
  <2> SUFFICES ASSUME TypeInv, NoLostWakeup, [Next]_vars PROVE NoLostWakeup'
    OBVIOUS
  <2>1. CASE UNCHANGED vars
    BY <2>1 DEF vars, NoLostWakeup, BeingQueued, Eligible
  <2>2. ASSUME NEW c \in Core, Step(c) PROVE NoLostWakeup'
    <3>1. \A d \in Core, t \in Thread : Woken(d, t)'
      BY <2>2, StepOthers, StepWoken
    <3>2. threadFiber' \subseteq Thread
      BY <2>2, TypeNext DEF Next, Step, TypeOK
    <3> QED BY <3>1, <3>2 DEF Woken, NoLostWakeup, Waiting
  <2> QED BY <2>1, <2>2 DEF Next, Step
<1> QED BY <1>1, <1>2, Typed, PTL DEF Spec

-----------------------------------------------------------------------------
(* Pinned threads are never executed by two cores at once. *)

\* Every thread has the affinity of one core, and keeps it.
Pinned == /\ \A t \in Thread : \A c, d \in Attr0[t] : c = d
          /\ "affinity" \notin Calls

\* The fibers core c executes, calls current, or has set aside.
Fibers(c) == {executing[c], currentFiber[c], interruptedFiber[c]}

\* A pinned core's fibers are threads of that core.
PinInv ==
    /\ attr = Attr0
    /\ \A c \in Core : \A f \in Fibers(c) : f # NoFiber => c \in attr[f]

(* A core gets fibers from the queue, or its own interrupt fiber. *)
LEMMA StepFibers ==
    ASSUME TypeInv, NEW c \in Core, Step(c), NEW d \in Core, NEW f \in Fibers(d)'
    PROVE  \/ f \in Fibers(d) \cup {NoFiber, InterruptThread[d]}
           \/ f \in Thread /\ d \in attr[f]
<1> USE DEF TypeOK, Fibers, SetCurrentFiber
<1>0. Control(c)
  BY DEF ControlOK
<1>1. CASE UNCHANGED <<executing, currentFiber, interruptedFiber>>
  BY <1>1
<1>2. CASE Dispatch(c)
  <2>1. PICK i \in DOMAIN mFiberQueue :
           /\ c \in attr[mFiberQueue[i]]
           /\ executing' = [executing EXCEPT ![c] = mFiberQueue[i]]
           /\ currentFiber' = [currentFiber EXCEPT ![c] = mFiberQueue[i]]
    BY <1>2 DEF Dispatch, IsNext, Eligible
  <2>2. mFiberQueue[i] \in Thread /\ interruptedFiber' = interruptedFiber
    BY <1>2, <2>1, LenProperties, ElementOfSeq DEF Dispatch
  <2> QED BY <2>1, <2>2
<1>3. CASE IdleInterrupt(c) \/ HandleInterrupt(c)
  <2>1. EnterInterrupt(c) /\ pc[c] \in {"loop", "guest", "first", "callback"}
    BY <1>3 DEF IdleInterrupt, HandleInterrupt
  <2>2. /\ interruptedFiber' = [interruptedFiber EXCEPT ![c] = currentFiber[c]]
        /\ currentFiber' = [currentFiber EXCEPT ![c] = interruptHandlerFiber[c]]
        /\ \/ executing' = executing
           \/ executing' = [executing EXCEPT ![c] = InterruptThread[c]]
    BY <1>0, <2>1, EnterInterruptCases
  <2>3. interruptHandlerFiber[c] \in {NoFiber, InterruptThread[c]}
    BY <1>0 DEF Control
  <2> QED BY <2>2, <2>3
<1>4. CASE SwitchToPrimary(c) \/ WaitFirstInterrupt(c) \/ Exit(c)
  BY <1>4 DEF SwitchToPrimary, WaitFirstInterrupt, Exit
<1>5. CASE FinishInterrupt(c)
  BY <1>5 DEF FinishInterrupt
<1> QED
  BY <1>1, <1>2, <1>3, <1>4, <1>5
  DEF Step, Primary, Kernel, GuestCall, Interrupt, DecideToWait, Wait,
      RescheduleReturn, RescheduleLeave, Relock, QueueWoken, QueueResumed,
      OSYieldThread, OSSleepThread, OSSleepTicks, OSSuspendThread, OSExitThread,
      OSRunThread, OSWakeupOneThread, OSResumeThread, OSSetThreadPriority,
      OSSetThreadAffinity, TriggerAlarm, SleepAlarmHandler, QueueSleeper,
      AlarmsChecked, TimerFires, interruptVars

(* When every thread is pinned to a core, no fiber is executed by two host    *)
(* threads at once, although reschedule queues a fiber before it has switched *)
(* away from it.  (Without pinning it is: see SchedDoubleRun.)                *)
THEOREM OneCoreCorrect ==
    ASSUME Pinned
    PROVE  Spec => []OneCorePerFiber
<1>1. Init => PinInv
  BY DEF Init, PinInv, Fibers
<1>2. TypeInv /\ PinInv /\ [Next]_vars => PinInv'
  <2> SUFFICES ASSUME TypeInv, PinInv, [Next]_vars PROVE PinInv'
    OBVIOUS
  <2>1. CASE UNCHANGED vars
    BY <2>1 DEF vars, PinInv, Fibers
  <2>2. ASSUME NEW c \in Core, Step(c) PROVE PinInv'
    <3>1. attr' = attr
      BY <2>2, StepAttr DEF Pinned
    <3>2. ASSUME NEW d \in Core, NEW f \in Fibers(d)', f # NoFiber
          PROVE  d \in attr[f]
      BY <2>2, <3>2, StepFibers, Threads DEF PinInv
    <3> QED BY <3>1, <3>2 DEF PinInv
  <2> QED BY <2>1, <2>2 DEF Next, Step
<1>3. TypeInv /\ PinInv => OneCorePerFiber
  BY DEF PinInv, Pinned, OneCorePerFiber, Fibers, TypeOK
<1> QED BY <1>1, <1>2, <1>3, Typed, PTL DEF Spec

-----------------------------------------------------------------------------
(* The run queue is sorted, as long as priorities do not change. *)

Sorted ==
    \A i, j \in DOMAIN mFiberQueue : i =< j =>
        basePriority[mFiberQueue[i]] =< basePriority[mFiberQueue[j]]

(* std::upper_bound finds a place that keeps the queue sorted. *)
LEMMA QueueSorts ==
    ASSUME TypeOK, Sorted, NEW c \in Core, NEW f \in Thread, NEW p,
           Queue(c, f, p), basePriority' = basePriority
    PROVE  Sorted'
<1> DEFINE q == mFiberQueue
           P(t) == basePriority[t]
<1>1. PICK i \in UpperBound(q, f) : mFiberQueue' = InsertAt(q, i, f)
  BY DEF Queue
<1>2. /\ i \in 1 .. Len(q) + 1
      /\ i > 1 => P(q[i - 1]) =< P(f)
      /\ i =< Len(q) => P(f) < P(q[i])
  BY DEF UpperBound
<1>3. q \in Seq(Thread) /\ basePriority \in [Thread -> Nat]
  BY DEF TypeOK
<1>4. /\ Len(q) \in Nat /\ DOMAIN q = 1 .. Len(q)
      /\ \A k \in 1 .. Len(q) : P(q[k]) \in Nat
  BY <1>3, LenProperties, ElementOfSeq
<1> HIDE DEF q
<1>5. /\ mFiberQueue' \in Seq(Thread) /\ Len(mFiberQueue') = Len(q) + 1
      /\ \A k \in 1 .. Len(q) + 1 :
            mFiberQueue'[k] = IF k < i THEN q[k] ELSE IF k = i THEN f ELSE q[k - 1]
  <2>1. /\ InsertAt(q, i, f) \in Seq(Thread)
        /\ Len(InsertAt(q, i, f)) = Len(q) + 1
        /\ \A k \in 1 .. Len(q) + 1 :
              InsertAt(q, i, f)[k] = IF k < i THEN q[k]
                                     ELSE IF k = i THEN f ELSE q[k - 1]
    BY <1>2, <1>3, InsertRange
  <2> QED BY <2>1, <1>1
<1> USE DEF q
<1>6. DOMAIN mFiberQueue' = 1 .. Len(q) + 1
  BY <1>5, LenProperties
<1>7. P(f) \in Nat
  BY <1>3
<1>8. \A k \in 1 .. Len(q) : (k < i => P(q[k]) =< P(f)) /\ (k >= i => P(f) =< P(q[k]))
  <2> SUFFICES ASSUME NEW k \in 1 .. Len(q)
               PROVE  (k < i => P(q[k]) =< P(f)) /\ (k >= i => P(f) =< P(q[k]))
    OBVIOUS
  <2>1. CASE k < i
    <3>1. i - 1 \in 1 .. Len(q) /\ k =< i - 1
      BY <2>1, <1>2, <1>4
    <3>2. P(q[k]) =< P(q[i - 1])
      BY <3>1, <1>4 DEF Sorted
    <3> QED BY <2>1, <3>1, <3>2, <1>2, <1>4, <1>7
  <2>2. CASE k >= i
    <3>1. i \in 1 .. Len(q)
      BY <2>2, <1>2, <1>4
    <3>2. P(q[i]) =< P(q[k])
      BY <2>2, <3>1, <1>4 DEF Sorted
    <3> QED BY <2>2, <3>1, <3>2, <1>2, <1>4, <1>7
  <2> QED BY <2>1, <2>2, <1>2, <1>4
<1> HIDE DEF P
<1>9. ASSUME NEW k \in 1 .. Len(q) + 1, NEW l \in 1 .. Len(q) + 1, k =< l
      PROVE  P(mFiberQueue'[k]) =< P(mFiberQueue'[l])
  <2> DEFINE r == [m \in 1 .. Len(q) + 1 |->
                      IF m < i THEN q[m] ELSE IF m = i THEN f ELSE q[m - 1]]
  <2>1. mFiberQueue'[k] = r[k] /\ mFiberQueue'[l] = r[l]
    BY <1>5
  <2>2. \A m, n \in 1 .. Len(q) : m =< n => P(q[m]) =< P(q[n])
    BY <1>4 DEF Sorted, P
  <2>3. CASE l < i
    BY <2>1, <2>2, <2>3, <1>2, <1>4, <1>9
  <2>4. CASE k < i /\ l = i
    BY <2>1, <2>4, <1>2, <1>4, <1>8
  <2>5. CASE k < i /\ l > i
    <3>1. P(q[k]) =< P(q[l - 1])
      BY <2>2, <2>5, <1>2, <1>4
    <3> QED BY <2>1, <2>5, <3>1, <1>2, <1>4
  <2>6. CASE k = i /\ l = i
    BY <2>1, <2>6, <1>7
  <2>7. CASE k = i /\ l > i
    <3>1. P(f) =< P(q[l - 1])
      BY <2>7, <1>2, <1>4, <1>8
    <3> QED BY <2>1, <2>7, <3>1, <1>2
  <2>8. CASE k > i
    <3>1. P(q[k - 1]) =< P(q[l - 1])
      BY <2>2, <2>8, <1>2, <1>4, <1>9
    <3> QED BY <2>1, <2>8, <3>1, <1>2, <1>9
  <2> QED BY <2>3, <2>4, <2>5, <2>6, <2>7, <2>8, <1>2, <1>4, <1>9
<1> QED BY <1>6, <1>9 DEF Sorted, P

LEMMA StepPriority ==
    ASSUME "priority" \notin Calls, NEW c \in Core, Step(c)
    PROVE  basePriority' = basePriority
BY DEF Step, Primary, Kernel, GuestCall, Interrupt, Dispatch, IdleInterrupt,
       DecideToWait, Wait, RescheduleReturn, RescheduleLeave, SwitchToPrimary,
       Relock, QueueWoken, QueueResumed, Exit, OSYieldThread, OSSleepThread,
       OSSleepTicks, OSSuspendThread, OSExitThread, OSRunThread, Enter,
       OSWakeupOneThread, OSResumeThread, OSSetThreadPriority,
       OSSetThreadAffinity, HandleInterrupt, WaitFirstInterrupt, TriggerAlarm,
       SleepAlarmHandler, QueueSleeper, AlarmsChecked, FinishInterrupt,
       TimerFires

(* A step that touches the queue inserts a thread of the game or takes off    *)
(* the fiber it dispatches.                                                   *)
LEMMA StepQueue ==
    ASSUME TypeInv, NEW c \in Core, Step(c)
    PROVE  \/ mFiberQueue' = mFiberQueue
           \/ \E f \in Guest, p \in Pc : Queue(c, f, p)
           \/ \E i \in DOMAIN mFiberQueue :
                 /\ mFiberQueue' = Erase(mFiberQueue, mFiberQueue[i])
                 /\ executing' = [executing EXCEPT ![c] = mFiberQueue[i]]
<1> USE Threads
<1>0. Control(c)
  BY DEF ControlOK
<1>1. CASE Dispatch(c)
  BY <1>1 DEF Dispatch
<1>2. CASE RescheduleLeave(c) \/ OSYieldThread(c)
  <2>1. \E p \in {"switchLocked", "switchYield"} : Queue(c, currentFiber[c], p)
    BY <1>2 DEF RescheduleLeave, OSYieldThread, Leave
  <2>2. currentFiber[c] \in Guest
    BY <1>0, <1>2 DEF RescheduleLeave, OSYieldThread, Control
  <2> QED BY <2>1, <2>2
<1>3. CASE QueueWoken(c) \/ QueueResumed(c) \/ QueueSleeper(c)
  <2>1. \E p \in {"guest", "reschedule", "check"} : QueueTarget(c, p)
    BY <1>3 DEF QueueWoken, QueueResumed, QueueSleeper
  <2>2. target[c] \in Guest
    BY <1>0, <1>3 DEF QueueWoken, QueueResumed, QueueSleeper, Control
  <2> QED BY <2>1, <2>2 DEF QueueTarget
<1> QED
  BY <1>1, <1>2, <1>3
  DEF Step, Primary, Kernel, GuestCall, Interrupt, IdleInterrupt, DecideToWait,
      Wait, RescheduleReturn, SwitchToPrimary, Relock, Exit, OSSleepThread,
      OSSleepTicks, OSSuspendThread, OSExitThread, OSRunThread,
      OSWakeupOneThread, OSResumeThread, OSSetThreadPriority,
      OSSetThreadAffinity, HandleInterrupt, WaitFirstInterrupt, TriggerAlarm,
      SleepAlarmHandler, AlarmsChecked, FinishInterrupt, TimerFires

LEMMA SortedNext ==
    ASSUME "priority" \notin Calls
    PROVE  TypeInv /\ Sorted /\ [Next]_vars => Sorted'
<1> SUFFICES ASSUME TypeInv, Sorted, [Next]_vars PROVE Sorted'
  OBVIOUS
<1>1. CASE UNCHANGED vars
  BY <1>1 DEF vars, Sorted
<1>2. ASSUME NEW c \in Core, Step(c) PROVE Sorted'
  <2>1. basePriority' = basePriority
    BY <1>2, StepPriority
  <2>2. CASE mFiberQueue' = mFiberQueue
    BY <2>1, <2>2 DEF Sorted
  <2>3. ASSUME NEW f \in Guest, NEW p \in Pc, Queue(c, f, p) PROVE Sorted'
    BY <2>1, <2>3, QueueSorts, Threads
  <2>4. ASSUME NEW i \in DOMAIN mFiberQueue,
               mFiberQueue' = Erase(mFiberQueue, mFiberQueue[i])
        PROVE  Sorted'
    <3>1. \A k, l \in DOMAIN mFiberQueue' : k =< l =>
             \E m, n \in DOMAIN mFiberQueue :
                m =< n /\ mFiberQueue'[k] = mFiberQueue[m]
                       /\ mFiberQueue'[l] = mFiberQueue[n]
      BY <2>4, EraseRange DEF TypeOK
    <3> QED BY <2>1, <3>1 DEF Sorted
  <2> QED BY <1>2, <2>2, <2>3, <2>4, StepQueue
<1> QED BY <1>1, <1>2 DEF Next, Step

LEMMA SortedInit == Init => Sorted
<1> SUFFICES ASSUME Init PROVE Sorted
  OBVIOUS
<1>1. \A i \in DOMAIN mFiberQueue : mFiberQueue[i] \in Started
  BY DEF Init, Range
<1>2. Started \subseteq Thread
  BY ConstantsAssumption DEF Started, Thread
<1>3. \A s, t \in Started : Priority0[s] = Priority0[t] /\ Priority0[s] \in Nat
  BY <1>2, ConstantsAssumption
<1> QED BY <1>1, <1>3 DEF Init, Sorted

(* While no thread changes its priority, a core that goes to the queue for    *)
(* its next fiber takes one that none of those it may run should go before:   *)
(* peekNextFiberNoLock's first match is the best match, because queueNoLock   *)
(* and the erasure in coreEntryPoint keep the queue in order.                 *)
THEOREM DispatchCorrect ==
    ASSUME "priority" \notin Calls
    PROVE  Spec => DispatchesBest
<1> DEFINE Best == \A c \in Core : executing[c] = NoFiber /\ executing'[c] # NoFiber =>
                      \A g \in Range(mFiberQueue) : Eligible(g, c) =>
                         basePriority[executing'[c]] =< basePriority[g]
<1>1. TypeInv /\ Sorted /\ [Next]_vars => [Best]_vars
  <2> SUFFICES ASSUME TypeInv, Sorted, Next, NEW c \in Core,
                      executing[c] = NoFiber, executing'[c] # NoFiber,
                      NEW g \in Range(mFiberQueue), Eligible(g, c)
               PROVE  basePriority[executing'[c]] =< basePriority[g]
    OBVIOUS
  <2> USE DEF TypeOK
  <2>1. PICK d \in Core : Step(d)
    BY DEF Next, Step
  <2>2. d = c
    BY <2>1, StepOthers DEF Others
  <2>3. Control(c)
    BY DEF ControlOK
  <2>4. PICK j \in DOMAIN mFiberQueue : mFiberQueue[j] = g
    BY DEF Range
  <2>5. CASE Dispatch(c)
    <3>1. PICK i \in DOMAIN mFiberQueue :
             IsNext(i, c) /\ executing' = [executing EXCEPT ![c] = mFiberQueue[i]]
      BY <2>5 DEF Dispatch
    <3>2. DOMAIN mFiberQueue = 1 .. Len(mFiberQueue) /\ Len(mFiberQueue) \in Nat
      BY LenProperties
    <3>3. i =< j
      <4>1. j \notin 1 .. i - 1
        BY <2>4, <3>1 DEF IsNext
      <4> QED BY <4>1, <3>2
    <3> QED BY <2>4, <3>1, <3>3 DEF Sorted
  <2>6. CASE IdleInterrupt(c)
    BY <2>4, <2>6 DEF IdleInterrupt, NothingFor
  <2>7. CASE HandleInterrupt(c) \/ FinishInterrupt(c)
    BY <2>3, <2>7, Threads DEF HandleInterrupt, FinishInterrupt, Control
  <2> QED
    BY <2>1, <2>2, <2>5, <2>6, <2>7, ZenonT(60)
    DEF Step, Primary, Kernel, GuestCall, Interrupt, DecideToWait, Wait,
        RescheduleReturn, RescheduleLeave, SwitchToPrimary, Relock, QueueWoken,
        QueueResumed, Exit, OSYieldThread, OSSleepThread, OSSleepTicks,
        OSSuspendThread, OSExitThread, OSRunThread, OSWakeupOneThread,
        OSResumeThread, OSSetThreadPriority, OSSetThreadAffinity,
        WaitFirstInterrupt, TriggerAlarm, SleepAlarmHandler, QueueSleeper,
        AlarmsChecked, TimerFires
<1> QED BY <1>1, SortedInit, SortedNext, Typed, PTL DEF Spec, DispatchesBest

-----------------------------------------------------------------------------
(* Interrupts lose no thread, as long as they do not nest. *)

Leaving == {"switchLocked", "switchYield", "exit"}

\* Core c is responsible for thread t: it executes it, and is not about to
\* leave it, or finishInterrupt will come back to it.
Has(c, t) ==
    (executing[c] = t /\ pc[c] \notin Leaving) \/ interruptedFiber[c] = t

RunInv ==
    /\ \A t \in Guest : state[t] = "Running" => \E c \in Core : Has(c, t)
    /\ \A c \in Core :
          pc[c] \in PrimaryPc \cup GuestPc \cup {"first"} =>
              interruptedFiber[c] = NoFiber
    /\ \A c \in Core : pc[c] = "first" => interruptHandlerFiber[c] = NoFiber

\* No interrupt is raised on a core while an alarm callback runs there.
NoNesting == \A c \in Core : pc[c] = "callback" => ~interrupt[c]

\* What core c may do to thread t that is Running afterwards.
Passes(c, t) == \/ Has(c, t)'
                \/ state[t] = "Running" /\ ~Has(c, t)

LEMMA StepInterrupted ==
    ASSUME TypeInv, NEW c \in Core, Step(c), NEW d \in Core \ {c}
    PROVE  /\ interruptedFiber'[d] = interruptedFiber[d]
           /\ interruptHandlerFiber'[d] = interruptHandlerFiber[d]
<1>1. CASE IdleInterrupt(c) \/ HandleInterrupt(c) \/ WaitFirstInterrupt(c)
  BY <1>1 DEF IdleInterrupt, HandleInterrupt, WaitFirstInterrupt, EnterInterrupt,
     SaveInterruptedFiber, TypeOK
<1>2. CASE FinishInterrupt(c)
  BY <1>2 DEF FinishInterrupt, TypeOK
<1> QED
  BY <1>1, <1>2
  DEF Step, Primary, Kernel, GuestCall, Interrupt, Dispatch, DecideToWait, Wait,
      RescheduleReturn, RescheduleLeave, SwitchToPrimary, Relock, QueueWoken,
      QueueResumed, Exit, OSYieldThread, OSSleepThread, OSSleepTicks,
      OSSuspendThread, OSExitThread, OSRunThread, OSWakeupOneThread,
      OSResumeThread, OSSetThreadPriority, OSSetThreadAffinity, TriggerAlarm,
      SleepAlarmHandler, QueueSleeper, AlarmsChecked, TimerFires

LEMMA StepPasses ==
    ASSUME TypeInv, RunInv, NoNesting, NEW c \in Core, Step(c)
    PROVE  /\ \A t \in Guest : state'[t] = "Running" => Passes(c, t)
           /\ pc'[c] \in PrimaryPc \cup GuestPc \cup {"first"} =>
                 interruptedFiber'[c] = NoFiber
           /\ pc'[c] = "first" => interruptHandlerFiber'[c] = NoFiber
<1> DEFINE Goal == /\ \A t \in Guest : state'[t] = "Running" => Passes(c, t)
                   /\ pc'[c] \in PrimaryPc \cup GuestPc \cup {"first"} =>
                         interruptedFiber'[c] = NoFiber
                   /\ pc'[c] = "first" => interruptHandlerFiber'[c] = NoFiber
<1> USE DEF TypeOK, Leaving, Has, Passes, SetCurrentFiber, Enter
<1>0. /\ Control(c)
      /\ pc[c] \in PrimaryPc \cup GuestPc \cup {"first"} => interruptedFiber[c] = NoFiber
      /\ pc[c] = "first" => interruptHandlerFiber[c] = NoFiber
  BY DEF ControlOK, RunInv
<1>1. CASE Dispatch(c)
  <2>0. PICK i \in DOMAIN mFiberQueue :
           /\ state' = [state EXCEPT ![mFiberQueue[i]] = "Running"]
           /\ executing' = [executing EXCEPT ![c] = mFiberQueue[i]]
           /\ pc' = [pc EXCEPT ![c] = context[mFiberQueue[i]]]
    BY <1>1 DEF Dispatch
  <2>1. PICK f \in Thread :
           /\ state' = [state EXCEPT ![f] = "Running"]
           /\ executing' = [executing EXCEPT ![c] = f]
           /\ pc' = [pc EXCEPT ![c] = context[f]]
    <3>1. mFiberQueue[i] \in Thread
      BY LenProperties, ElementOfSeq
    <3> QED BY <2>0, <3>1
  <2>2. /\ pc[c] = "loop" /\ interruptedFiber' = interruptedFiber
        /\ executing[c] = NoFiber /\ interruptedFiber[c] = NoFiber
    BY <1>0, <1>1 DEF Dispatch, Control
  <2>3. pc'[c] \in {"guest", "relock", "first", "check"}
    BY <2>1
  <2>4. \A t \in Guest : state'[t] = "Running" => Passes(c, t)
    BY <2>1, <2>2, <2>3, Threads
  <2>5. pc'[c] = "first" => interruptHandlerFiber'[c] = NoFiber
    <3>1. SUFFICES ASSUME context[f] = "first" PROVE interruptHandlerFiber'[c] = NoFiber
      BY <2>1
    <3>2. executing'[c] = f /\ context' = context
      BY <1>1, <2>1 DEF Dispatch
    <3>3. f = InterruptThread[c]
      BY <1>1, TypeDispatch, <3>1, <3>2, <2>1, Threads, SMTT(40) DEF ControlOK, Control
    <3> QED BY <1>0, <1>1, <3>1, <3>3 DEF Dispatch, Control
  <2> QED BY <2>2, <2>4, <2>5
<1>2. CASE IdleInterrupt(c) \/ HandleInterrupt(c)
  <2>1. /\ EnterInterrupt(c) /\ pc[c] \in {"loop", "guest", "first", "callback"}
        /\ state' = state /\ interrupt[c]
    BY <1>2 DEF IdleInterrupt, HandleInterrupt, EnterInterrupt
  <2>2. pc[c] # "callback" /\ interruptedFiber[c] = NoFiber
    BY <1>0, <2>1 DEF NoNesting
  <2>3. /\ interruptedFiber' = [interruptedFiber EXCEPT ![c] = currentFiber[c]]
        /\ \/ pc'[c] = "crash" /\ executing' = executing
           \/ pc'[c] = "check"
           \/ interruptHandlerFiber[c] = InterruptThread[c]
              /\ executing[c] = InterruptThread[c] /\ pc' = pc
    BY <1>0, <2>1, EnterInterruptCases
  <2>4. pc[c] \in {"first", "guest"} => executing[c] = currentFiber[c]
    BY <1>0 DEF Control
  <2>5. pc[c] = "loop" => executing[c] = NoFiber
    BY <1>0 DEF Control
  <2>6. pc'[c] \in {"crash", "check"}
    <3>1. SUFFICES ASSUME interruptHandlerFiber[c] = InterruptThread[c],
                          executing[c] = InterruptThread[c]
                   PROVE  FALSE
      BY <2>3
    <3>2. pc[c] = "first"
      BY <1>0, <2>1, <2>2, <3>1, Threads DEF Control
    <3> QED BY <1>0, <3>1, <3>2, Threads
  <2>7. ASSUME NEW t \in Guest, state'[t] = "Running" PROVE Passes(c, t)
    BY <2>1, <2>2, <2>3, <2>4, <2>5, <2>7, Threads
  <2> QED BY <2>6, <2>7
<1>3. CASE FinishInterrupt(c)
  <2>1. executing[c] = InterruptThread[c] /\ context' \in [Thread -> {"guest", "relock", "first", "check"}]
    BY <1>0, <1>3 DEF FinishInterrupt, Control
  <2>2. /\ executing' = [executing EXCEPT ![c] = interruptedFiber[c]]
        /\ interruptedFiber' = [interruptedFiber EXCEPT ![c] = NoFiber]
        /\ pc' = [pc EXCEPT ![c] = IF interruptedFiber[c] = NoFiber THEN "loop"
                                   ELSE context'[interruptedFiber[c]]]
        /\ state' = state
    BY <1>3 DEF FinishInterrupt
  <2>3. pc'[c] \notin Leaving \cup {"first"}
    <3>1. interruptedFiber[c] \in Guest \cup {InterruptThread[c], NoFiber}
      BY <1>0 DEF Control
    <3>2. /\ \A g \in Guest : context'[g] \in {"guest", "relock"}
          /\ context'[InterruptThread[c]] = "check"
      BY <1>3, <2>1, Threads DEF FinishInterrupt, ControlOK
    <3> QED BY <2>2, <3>1, <3>2
  <2> QED BY <2>1, <2>2, <2>3, Threads
<1>4. CASE SwitchToPrimary(c) \/ Exit(c)
  BY <1>0, <1>4, Threads DEF SwitchToPrimary, Exit, Control
<1>5. CASE WaitFirstInterrupt(c)
  BY <1>0, <1>5, Threads DEF WaitFirstInterrupt, Control
<1>6. CASE RescheduleLeave(c) \/ OSYieldThread(c)
  <2>1. /\ interruptedFiber' = interruptedFiber /\ executing' = executing
        /\ pc[c] \in {"reschedule", "guest"} /\ interruptedFiber[c] = NoFiber
        /\ currentFiber[c] = executing[c]
    BY <1>0, <1>6 DEF RescheduleLeave, OSYieldThread, Control
  <2>2. /\ state'[currentFiber[c]] # "Running"
        /\ \A t \in Guest : state'[t] = "Running" => state[t] = "Running"
    BY <1>0, <1>6, Threads DEF RescheduleLeave, OSYieldThread, Leave, Control
  <2>3. pc'[c] \in {"switchLocked", "switchYield"}
    BY <1>6 DEF RescheduleLeave, OSYieldThread, Leave, Queue, Notified
  <2> QED BY <2>1, <2>2, <2>3, Threads
<1>7. CASE OSExitThread(c)
  BY <1>0, <1>7, Threads DEF OSExitThread, Control
<1>8. CASE QueueWoken(c) \/ QueueResumed(c) \/ QueueSleeper(c)
  <2>1. /\ UNCHANGED <<executing, interruptedFiber, state>>
        /\ \E p \in {"guest", "reschedule", "check"} : QueueTarget(c, p)
        /\ pc[c] \in {"wake", "resume", "wakeSleeper"}
    BY <1>8 DEF QueueWoken, QueueResumed, QueueSleeper
  <2>2. target[c] \in Thread
    BY <1>0, <2>1, Threads DEF Control
  <2>3. pc'[c] \in {"guest", "reschedule", "check", "crash"}
    BY <2>1, <2>2, QueueTargetCases DEF Notified
  <2>4. pc[c] \in {"wake", "resume"} \/ pc'[c] \in {"check", "crash"}
    BY <1>8, <2>2, QueueTargetCases DEF QueueWoken, QueueResumed, QueueSleeper, Notified
  <2>5. \A t \in Guest : state'[t] = "Running" => Passes(c, t)
    BY <2>1, <2>3
  <2> QED BY <1>0, <2>1, <2>3, <2>4, <2>5
<1>9. CASE TimerFires(c)
  BY <1>0, <1>9 DEF TimerFires, Notified
<1>10. CASE SleepAlarmHandler(c) \/ AlarmsChecked(c) \/ \E t \in Guest : TriggerAlarm(c, t)
  BY <1>0, <1>10, Threads DEF SleepAlarmHandler, AlarmsChecked, TriggerAlarm, Control
<1>11. CASE DecideToWait(c) \/ Wait(c) \/ RescheduleReturn(c) \/ Relock(c)
  BY <1>0, <1>11 DEF DecideToWait, Wait, RescheduleReturn, Relock
<1>13. CASE OSSleepThread(c) \/ OSSleepTicks(c) \/ OSSuspendThread(c)
  <2>1. /\ UNCHANGED <<executing, interruptedFiber>>
        /\ pc[c] = "guest" /\ pc'[c] = "reschedule"
    BY <1>13 DEF OSSleepThread, OSSleepTicks, OSSuspendThread
  <2>2. \A t \in Guest : state'[t] = "Running" => state[t] = "Running"
    BY <1>13, Threads DEF OSSleepThread, OSSleepTicks, OSSuspendThread
  <2> QED BY <1>0, <2>1, <2>2
<1>12. ASSUME NEW u \in Guest,
              \/ OSRunThread(c, u) \/ OSWakeupOneThread(c, u) \/ OSResumeThread(c, u)
              \/ \E p \in Priorities : OSSetThreadPriority(c, u, p)
              \/ \E a \in SUBSET Core \ {{}} : OSSetThreadAffinity(c, u, a)
       PROVE  Goal
  <2>1. /\ UNCHANGED <<executing, interruptedFiber>> /\ pc[c] = "guest"
        /\ pc'[c] \in GuestPc \ Leaving
    BY <1>12 DEF OSRunThread, OSWakeupOneThread, OSResumeThread,
       OSSetThreadPriority, OSSetThreadAffinity
  <2>2. \A t \in Guest : state'[t] = "Running" => state[t] = "Running"
    BY <1>12, Threads DEF OSRunThread, OSWakeupOneThread, OSResumeThread,
       OSSetThreadPriority, OSSetThreadAffinity
  <2> QED BY <1>0, <2>1, <2>2
<1> QED
  BY <1>1, <1>2, <1>3, <1>4, <1>5, <1>6, <1>7, <1>8, <1>9, <1>10, <1>11, <1>12,
     <1>13
  DEF Step, Primary, Kernel, GuestCall, Interrupt

(* As long as no interrupt is raised on a core that is still in an alarm      *)
(* callback, every Running thread of the game is executed, and stays so, or   *)
(* is what finishInterrupt returns to: handleInterrupt saves the one fiber    *)
(* there is to save, and the return takes it back.                            *)
THEOREM RunningCorrect == Spec /\ []NoNesting => []NoThreadLost
<1>1. Init => RunInv
  BY Threads DEF Init, RunInv, Has
<1>2. TypeInv /\ NoNesting /\ RunInv /\ [Next]_vars => RunInv'
  <2> SUFFICES ASSUME TypeInv, NoNesting, RunInv, [Next]_vars PROVE RunInv'
    OBVIOUS
  <2>1. CASE UNCHANGED vars
    BY <2>1 DEF vars, RunInv, Has
  <2>2. ASSUME NEW c \in Core, Step(c) PROVE RunInv'
    <3>1. /\ \A t \in Guest : state'[t] = "Running" => Passes(c, t)
          /\ pc'[c] \in PrimaryPc \cup GuestPc \cup {"first"} =>
                interruptedFiber'[c] = NoFiber
          /\ pc'[c] = "first" => interruptHandlerFiber'[c] = NoFiber
      BY <2>2, StepPasses
    <3>2. Others(c) /\ \A d \in Core \ {c} : /\ interruptedFiber'[d] = interruptedFiber[d]
                                           /\ interruptHandlerFiber'[d] = interruptHandlerFiber[d]
      BY <2>2, StepOthers, StepInterrupted
    <3>3. \A d \in Core \ {c}, t \in Guest : Has(d, t) => Has(d, t)'
      BY <3>2 DEF Others, Has, Leaving
    <3>4. ASSUME NEW t \in Guest, state'[t] = "Running"
          PROVE  \E d \in Core : Has(d, t)'
      BY <3>1, <3>3, <3>4 DEF Passes, RunInv
    <3>5. \A d \in Core \ {c} :
             /\ pc'[d] \in PrimaryPc \cup GuestPc \cup {"first"} =>
                   interruptedFiber'[d] = NoFiber
             /\ pc'[d] = "first" => interruptHandlerFiber'[d] = NoFiber
      BY <3>2 DEF Others, RunInv
    <3> QED BY <3>1, <3>4, <3>5 DEF RunInv, Has
  <2> QED BY <2>1, <2>2 DEF Next, Step
<1>3. RunInv => NoThreadLost
  BY DEF RunInv, Has, NoThreadLost
<1> QED BY <1>1, <1>2, <1>3, Typed, PTL DEF Spec

=============================================================================
