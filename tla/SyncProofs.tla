----------------------------- MODULE SyncProofs -----------------------------
(***************************************************************************)
(* What the synchronisation objects guarantee for every number of threads, *)
(* every priority, and every size of a message queue.                      *)
(***************************************************************************)
EXTENDS Sync, ThreadQueueProofs, SequenceTheorems

USE ThreadQueueAssumption

-----------------------------------------------------------------------------
(* What the steps of the objects do to threads and lists. *)

ThreadStates == {"Running", "Ready", "Waiting"}

LEMMA StatesAre == [Thread -> ThreadStates] \subseteq [Thread -> States]
  BY DEF ThreadStates, States

\* The links represent lists of threads that wait.
QueueInv == \E N \in Lengths, A \in Places0 : Represents(links, state, N, A)

ThreadInv == ThreadTypeOK(Places) /\ QueueInv

\* The lists of the queues other than q start where they did.
OtherHeads(q) == \A r \in WaitQueue \ {q} : links'.head[r] = links.head[r]

(* The lists do not depend on threads that are on none of them. *)
LEMMA AwakeKeeps ==
    ASSUME ThreadInv, links' = links, state' \in [Thread -> ThreadStates],
           \A u \in Thread : state[u] = "Waiting" => state'[u] = "Waiting"
    PROVE  QueueInv'
<1>1. PICK N \in Lengths, A \in Places0 : Represents(links, state, N, A)
  BY DEF ThreadInv, QueueInv
<1>2. \A u : Orphan(state, A, u) => Orphan(state', A, u)
  BY DEF Orphan
<1>3. ASSUME NEW q \in WaitQueue PROVE Chain(links', state', N, A, q)
  <2>1. Chain(links, state, N, A, q) /\ N[q] \in Nat
    BY <1>1 DEF Represents, Lengths
  <2>2. \A n \in Nat : n < N[q] => state'[A[q][n]] = "Waiting"
    BY <2>1 DEF Chain, Places0, Link
  <2>3. \A n \in Nat : n < N[q] => /\ links'.next[A[q][n]] = links.next[A[q][n]]
                                   /\ links'.prev[A[q][n]] = links.prev[A[q][n]]
                                   /\ state'[A[q][n]] = "Waiting"
    BY <2>2
  <2>4. links'.head[q] = links.head[q] /\ links'.tail[q] = links.tail[q]
    OBVIOUS
  <2> QED BY <1>2, <2>1, <2>3, <2>4, ChainKept
<1> QED BY <1>1, <1>3 DEF QueueInv, Represents

(* A running thread goes to sleep. *)
LEMMA SleepKeeps ==
    ASSUME ThreadInv, NEW q \in WaitQueue, NEW t \in Thread, NEW p \in Places,
           state[t] = "Running", OSSleepThreadNoLock(t, q, p)
    PROVE  ThreadInv' /\ OtherHeads(q) /\ pc' = [pc EXCEPT ![t] = p]
<1>1. PICK N \in Lengths, A \in Places0 : Represents(links, state, N, A)
  BY DEF ThreadInv, QueueInv
<1>2. links \in LinksType /\ state \in [Thread -> ThreadStates] /\ pc \in [Thread -> Places]
  BY DEF ThreadInv, ThreadTypeOK, LinksType, ThreadStates
<1>3. /\ links' = OSInsertThreadQueue(links, q, t)
      /\ state' = [state EXCEPT ![t] = "Waiting"]
      /\ pc' = [pc EXCEPT ![t] = p]
  BY DEF OSSleepThreadNoLock, Goto
<1>4. /\ state' \in [Thread -> ThreadStates] /\ pc' \in [Thread -> Places]
      /\ state[t] # "Waiting" /\ state'[t] = "Waiting"
      /\ \A u \in Thread : state[u] = "Waiting" => state'[u] = "Waiting"
  BY <1>2, <1>3 DEF ThreadStates
<1>5. /\ OSInsertThreadQueue(links, q, t) \in LinksType
      /\ \E N2 \in Lengths, A2 \in Places0 :
            Represents(OSInsertThreadQueue(links, q, t), state', N2, A2)
      /\ \A r \in WaitQueue \ {q} :
            OSInsertThreadQueue(links, q, t).head[r] = links.head[r]
  BY <1>1, <1>2, <1>4, StatesAre, InsertKeeps
<1>6. QueueInv' /\ OtherHeads(q) /\ links' \in LinksType
  BY <1>3, <1>5 DEF QueueInv, OtherHeads
<1> QED BY <1>3, <1>4, <1>6 DEF ThreadInv, ThreadTypeOK, LinksType, ThreadStates

(* A queue is woken, and the caller may be rescheduled. *)
LEMMA WakeKeeps ==
    ASSUME ThreadInv, NEW q \in WaitQueue,
           links' = OSClearQueue(links, q), state' \in [Thread -> ThreadStates],
           \A u \in Thread : state[u] = "Waiting" /\ u \notin Listed(links, q)
                                => state'[u] = "Waiting"
    PROVE  /\ QueueInv' /\ links' \in LinksType
           /\ links'.head[q] = NoThread /\ OtherHeads(q)
<1>1. PICK N \in Lengths, A \in Places0 : Represents(links, state, N, A)
  BY DEF ThreadInv, QueueInv
<1>2. links \in LinksType /\ state \in [Thread -> ThreadStates]
  BY DEF ThreadInv, ThreadTypeOK, LinksType, ThreadStates
<1>3. /\ OSClearQueue(links, q) \in LinksType
      /\ \E N2 \in Lengths, A2 \in Places0 :
            Represents(OSClearQueue(links, q), state', N2, A2)
      /\ OSClearQueue(links, q).head[q] = NoThread
      /\ \A r \in WaitQueue \ {q} : OSClearQueue(links, q).head[r] = links.head[r]
  BY <1>1, <1>2, StatesAre, ClearKeeps
<1> QED BY <1>3 DEF QueueInv, OtherHeads

LEMMA WakeupKeeps ==
    ASSUME ThreadInv, NEW q \in WaitQueue, NEW t \in Thread,
           state[t] = "Running", OSWakeupThreadNoLock(t, q),
           pc' \in [Thread -> Places]
    PROVE  ThreadInv' /\ links'.head[q] = NoThread /\ OtherHeads(q)
<1>1. state \in [Thread -> ThreadStates]
  BY DEF ThreadInv, ThreadTypeOK, ThreadStates
<1>2. /\ state' \in [Thread -> ThreadStates]
      /\ \A u \in Thread : state[u] = "Waiting" /\ u \notin Listed(links, q)
                              => state'[u] = "Waiting"
  BY <1>1 DEF OSWakeupThreadNoLock, Rescheduled, Woken, ThreadStates
<1>3. links' = OSClearQueue(links, q)
  BY DEF OSWakeupThreadNoLock
<1>4. /\ QueueInv' /\ links' \in LinksType
      /\ links'.head[q] = NoThread /\ OtherHeads(q)
  BY <1>2, <1>3, WakeKeeps
<1> QED BY <1>2, <1>4 DEF ThreadInv, ThreadTypeOK, LinksType, ThreadStates

-----------------------------------------------------------------------------
(* The invariant: types, lists, what is empty when, and the counts. *)

\* Only a queue whose object lets its caller wait has a head.
HeadInv ==
    /\ owner = NoThread => links.head["mutex"] = NoThread
    /\ semaphore > 0 => links.head["semaphore"] = NoThread
    /\ used # 0 => links.head["receive"] = NoThread
    /\ used # Size => links.head["send"] = NoThread
    /\ value => links.head["event"] = NoThread

\* Who waits for the condition will restore what it undid.
CountInv ==
    /\ MutexHeldAsLocked
    /\ owner = NoThread => count = 0
    /\ \A t \in Thread : /\ InCond(t) => mutexCount[t] = depth[t] /\ depth[t] > 0
                         /\ pc[t] = "lock" => owner # t /\ MaxDepth > 0

SyncInv == TypeOK /\ NeverOverdrawn /\ QueueInv /\ HeadInv /\ CountInv

LEMMA ThreadPart == SyncInv => ThreadInv /\ state \in [Thread -> ThreadStates]
  BY DEF SyncInv, TypeOK, ThreadInv, ThreadTypeOK, ThreadStates

LEMMA QueueNames ==
    /\ WaitQueue = {"mutex", "cond", "semaphore", "send", "receive", "event"}
    /\ Places = {"guest", "lock", "condSleep", "condLock", "wait", "send", "jam",
                 "receive", "event"}
  BY UsesAssumption
     DEF Places, MutexPlaces, SemaphorePlaces, MessagePlaces, EventPlaces

(* A thread that goes on outside the calls of the mutex leaves the counts. *)
LEMMA CountKept ==
    ASSUME SyncInv, mutexVars' = mutexVars, NEW t \in Thread, NEW p,
           pc[t] \notin MutexPlaces, p \notin MutexPlaces,
           pc' = [pc EXCEPT ![t] = p]
    PROVE  CountInv'
<1>1. pc \in [Thread -> Places]
  BY DEF SyncInv, TypeOK, ThreadTypeOK
<1>2. \A u \in Thread : u # t => pc'[u] = pc[u]
  BY <1>1
<1>3. pc'[t] = p
  BY <1>1
<1> QED BY <1>2, <1>3
        DEF SyncInv, CountInv, MutexHeldAsLocked, InCond, MutexPlaces, mutexVars

(* With the program counters as they were, too. *)
LEMMA CountStays ==
    ASSUME SyncInv, mutexVars' = mutexVars, pc' = pc
    PROVE  CountInv'
  BY DEF SyncInv, CountInv, MutexHeldAsLocked, InCond, mutexVars

LEMMA SyncInit == Init => SyncInv
<1> SUFFICES ASSUME Init PROVE SyncInv
  OBVIOUS
<1> USE DEF Init, ThreadInit, MutexInit, SemaphoreInit, MessageInit, EventInit
<1>1. /\ state \in [Thread -> {"Running", "Ready", "Waiting"}]
      /\ pc \in [Thread -> Places]
  BY QueueNames
<1>2. links \in LinksType
  BY DEF EmptyLinks, LinksType, Link
<1>3. TypeOK /\ NeverOverdrawn
  <2>1. ThreadTypeOK(Places)
    BY <1>1, <1>2 DEF ThreadTypeOK, LinksType
  <2>2. MutexTypeOK
    BY UsesAssumption DEF MutexTypeOK, Link
  <2>3. MessageTypeOK
    BY SizeAssumption DEF MessageTypeOK
  <2>4. semaphore \in Int /\ EventTypeOK /\ using \in Uses /\ NeverOverdrawn
    BY UsesAssumption DEF EventTypeOK, NeverOverdrawn
  <2> QED BY <2>1, <2>2, <2>3, <2>4 DEF TypeOK
<1>4. QueueInv
  <2> DEFINE N == [q \in WaitQueue |-> 0]
             A == [q \in WaitQueue |-> [n \in Nat |-> NoThread]]
  <2>1. N \in Lengths /\ A \in Places0
    BY DEF Lengths, Places0, Link
  <2>2. ASSUME NEW q \in WaitQueue PROVE Chain(links, state, N, A, q)
    <3>1. N[q] = 0 /\ \A n \in Nat : A[q][n] = NoThread
      OBVIOUS
    <3>2. links.head[q] = NoThread /\ links.tail[q] = NoThread
      BY DEF EmptyLinks
    <3> HIDE DEF N, A
    <3> QED BY <3>1, <3>2 DEF Chain
  <2>3. Apart(N, A)
    BY DEF Apart
  <2> HIDE DEF N, A
  <2> QED BY <2>1, <2>2, <2>3 DEF QueueInv, Represents
<1>5. HeadInv
  BY QueueNames DEF HeadInv, EmptyLinks
<1>6. CountInv
  BY DEF CountInv, MutexHeldAsLocked, InCond
<1> QED BY <1>3, <1>4, <1>5, <1>6 DEF SyncInv

(* What is left to show of a step of the mutex. *)
LEMMA MutexPart ==
    ASSUME SyncInv, ThreadInv', MutexTypeOK', CountInv',
           UNCHANGED <<semaphore, messageVars, eventVars, using>>,
           \A r \in WaitQueue \ {"mutex", "cond"} : links'.head[r] = links.head[r],
           owner' = NoThread => links'.head["mutex"] = NoThread
    PROVE  SyncInv'
<1>1. HeadInv'
  BY QueueNames DEF SyncInv, HeadInv, messageVars, eventVars
<1>2. /\ (semaphore \in Int)' /\ MessageTypeOK' /\ EventTypeOK'
      /\ (using \in Uses)' /\ NeverOverdrawn'
  BY DEF SyncInv, TypeOK, MessageTypeOK, EventTypeOK, NeverOverdrawn,
         messageVars, eventVars
<1> QED BY <1>1, <1>2 DEF SyncInv, TypeOK, ThreadInv

(* The steps of the mutex and its condition. *)
LEMMA MutexStep ==
    ASSUME SyncInv, UseMutex
    PROVE  SyncInv'
<1>1. PICK t \in Thread :
        \/ LockSleeps(t) \/ OSLockMutex(t) \/ UnlockOnce(t) \/ OSUnlockMutex(t)
        \/ OSWaitCond(t) \/ CondSleep(t) \/ CondLockSleeps(t) \/ CondLock(t)
        \/ OSSignalCond(t)
  BY DEF UseMutex, MutexNext
<1>2. UNCHANGED <<semaphore, messageVars, eventVars, using>>
  BY DEF UseMutex
<1>3. ThreadInv /\ state \in [Thread -> ThreadStates] /\ pc \in [Thread -> Places]
  BY ThreadPart DEF SyncInv, TypeOK, ThreadTypeOK
<1>4. /\ owner \in Link /\ count \in 0 .. MaxDepth
      /\ mutexCount \in [Thread -> 0 .. MaxDepth]
      /\ depth \in [Thread -> 0 .. MaxDepth] /\ MaxDepth \in Nat
  BY UsesAssumption DEF SyncInv, TypeOK, MutexTypeOK
<1>5. /\ \A u \in Thread :
            /\ owner = u => count = depth[u] /\ depth[u] > 0 /\ ~InCond(u)
            /\ owner # u => InCond(u) \/ depth[u] = 0
            /\ InCond(u) => mutexCount[u] = depth[u] /\ depth[u] > 0
            /\ pc[u] = "lock" => owner # u /\ MaxDepth > 0
      /\ owner = NoThread => count = 0 /\ links.head["mutex"] = NoThread
  BY DEF SyncInv, CountInv, MutexHeldAsLocked, HeadInv
<1>6. /\ {"guest", "lock", "condSleep", "condLock"} \subseteq Places
      /\ {"mutex", "cond"} \subseteq WaitQueue
  BY QueueNames
<1>7. ASSUME ThreadInv', MutexTypeOK', CountInv',
             \A r \in WaitQueue \ {"mutex", "cond"} : links'.head[r] = links.head[r],
             owner' = NoThread => links'.head["mutex"] = NoThread
      PROVE  SyncInv'
  BY <1>2, <1>7, MutexPart
<1>8. ASSUME UNCHANGED <<state, links>>, pc' \in [Thread -> Places]
      PROVE  ThreadInv'
  <2>1. ThreadTypeOK(Places)'
    BY <1>3, <1>8 DEF ThreadInv, ThreadTypeOK
  <2>2. QueueInv'
    BY <1>3, <1>8 DEF ThreadInv, QueueInv
  <2> QED BY <2>1, <2>2 DEF ThreadInv
<1>9. CASE LockSleeps(t)
  <2>1. /\ state[t] = "Running" /\ OSSleepThreadNoLock(t, "mutex", "lock")
        /\ UNCHANGED mutexVars /\ owner \in Thread /\ owner # t
        /\ pc[t] \in {"guest", "lock"}
    BY <1>4, <1>9 DEF LockSleeps, At, OwnedByOther, Link
  <2>2. ThreadInv' /\ OtherHeads("mutex") /\ pc' = [pc EXCEPT ![t] = "lock"]
    BY <1>3, <1>6, <2>1, SleepKeeps
  <2>3. MutexTypeOK'
    BY <1>4, <2>1 DEF MutexTypeOK, mutexVars
  <2>4. depth[owner] > 0 /\ depth[owner] \in 0 .. MaxDepth
    BY <1>4, <1>5, <2>1
  <2>5. CountInv'
    BY <1>3, <1>4, <1>5, <2>1, <2>2, <2>4
       DEF CountInv, MutexHeldAsLocked, InCond, mutexVars
  <2>6. owner' # NoThread
    BY <2>1 DEF mutexVars
  <2> QED BY <1>7, <2>2, <2>3, <2>5, <2>6 DEF OtherHeads
<1>10. CASE OSLockMutex(t)
  <2>1. /\ owner' = t /\ count' = count + 1
        /\ depth' = [depth EXCEPT ![t] = @ + 1]
        /\ pc' = [pc EXCEPT ![t] = "guest"]
        /\ UNCHANGED <<state, links, mutexCount>>
        /\ \/ pc[t] = "guest" /\ depth[t] < MaxDepth
           \/ pc[t] = "lock"
        /\ owner = NoThread \/ owner = t
    BY <1>10 DEF OSLockMutex, Goto, At, OwnedByOther
  <2>2. count = depth[t] /\ depth[t] < MaxDepth
    BY <1>4, <1>5, <2>1 DEF InCond
  <2>3. MutexTypeOK'
    BY <1>4, <2>1, <2>2 DEF MutexTypeOK, Link
  <2>4. CountInv'
    BY <1>3, <1>4, <1>5, <2>1, <2>2 DEF CountInv, MutexHeldAsLocked, InCond
  <2>5. ThreadInv'
    BY <1>3, <1>6, <1>8, <2>1
  <2> QED BY <1>7, <2>1, <2>3, <2>4, <2>5
<1>11. CASE UnlockOnce(t)
  <2>1. /\ owner = t /\ count > 1 /\ count' = count - 1
        /\ depth' = [depth EXCEPT ![t] = @ - 1]
        /\ UNCHANGED <<state, links, pc, owner, mutexCount>>
    BY <1>11 DEF UnlockOnce, threadVars
  <2>2. MutexTypeOK'
    BY <1>4, <1>5, <2>1 DEF MutexTypeOK
  <2>3. CountInv'
    BY <1>3, <1>4, <1>5, <2>1 DEF CountInv, MutexHeldAsLocked, InCond
  <2>4. ThreadInv'
    BY <1>3, <1>8, <2>1
  <2> QED BY <1>5, <1>7, <2>1, <2>2, <2>3, <2>4
<1>12. CASE OSUnlockMutex(t)
  <2>1. /\ owner = t /\ count = 1 /\ count' = 0 /\ owner' = NoThread
        /\ depth' = [depth EXCEPT ![t] = @ - 1]
        /\ OSWakeupThreadNoLock(t, "mutex")
        /\ UNCHANGED <<pc, mutexCount>> /\ state[t] = "Running"
    BY <1>12 DEF OSUnlockMutex, At
  <2>2. ThreadInv' /\ links'.head["mutex"] = NoThread /\ OtherHeads("mutex")
    BY <1>3, <1>6, <2>1, WakeupKeeps
  <2>3. MutexTypeOK'
    BY <1>4, <1>5, <2>1 DEF MutexTypeOK, Link
  <2>4. CountInv'
    BY <1>3, <1>4, <1>5, <2>1 DEF CountInv, MutexHeldAsLocked, InCond
  <2> QED BY <1>7, <2>2, <2>3, <2>4 DEF OtherHeads
<1>13. CASE OSWaitCond(t)
  <2>1. /\ owner = t /\ mutexCount' = [mutexCount EXCEPT ![t] = count]
        /\ count' = 0 /\ owner' = NoThread /\ UNCHANGED depth
        /\ state[t] = "Running" /\ pc[t] = "guest"
    BY <1>13 DEF OSWaitCond, At
  <2> DEFINE woken == Woken(state, Listed(links, "mutex"))
             cleared == OSClearQueue(links, "mutex")
  <2>2. MutexTypeOK'
    BY <1>4, <1>5, <2>1 DEF MutexTypeOK, Link
  <2>3. ASSUME NEW p \in {"condLock", "condSleep"}, pc' = [pc EXCEPT ![t] = p]
        PROVE  CountInv'
    <3>1. pc'[t] = p /\ \A u \in Thread : u # t => pc'[u] = pc[u]
      BY <1>3, <2>3
    <3> QED BY <1>3, <1>4, <1>5, <2>1, <3>1
            DEF CountInv, MutexHeldAsLocked, InCond
  <2>4. /\ woken \in [Thread -> ThreadStates] /\ woken[t] # "Waiting"
        /\ \A u \in Thread : state[u] = "Waiting" /\ u \notin Listed(links, "mutex")
                                => woken[u] = "Waiting"
    BY <1>3, <2>1 DEF Woken, ThreadStates
  <2>5. links \in LinksType
    BY <1>3 DEF ThreadInv, ThreadTypeOK, LinksType
  <2>6. /\ cleared \in LinksType
        /\ \E N \in Lengths, A \in Places0 : Represents(cleared, woken, N, A)
        /\ cleared.head["mutex"] = NoThread
        /\ \A r \in WaitQueue \ {"mutex"} : cleared.head[r] = links.head[r]
    <3>1. PICK N \in Lengths, A \in Places0 : Represents(links, state, N, A)
      BY <1>3 DEF ThreadInv, QueueInv
    <3> HIDE DEF woken
    <3> QED BY <1>3, <1>6, <2>4, <2>5, <3>1, StatesAre, ClearKeeps
  <2>7. CASE /\ state' = [woken EXCEPT ![t] = "Waiting"]
             /\ links' = OSInsertThreadQueue(cleared, "cond", t)
             /\ Goto(t, "condLock")
    <3>1. PICK N \in Lengths, A \in Places0 : Represents(cleared, woken, N, A)
      BY <2>6
    <3>2. /\ state' \in [Thread -> ThreadStates] /\ state'[t] = "Waiting"
          /\ \A u \in Thread : woken[u] = "Waiting" => state'[u] = "Waiting"
      <4> HIDE DEF woken
      <4> QED BY <2>4, <2>7 DEF ThreadStates
    <3> HIDE DEF woken, cleared
    <3>3. /\ OSInsertThreadQueue(cleared, "cond", t) \in LinksType
          /\ \E N2 \in Lengths, A2 \in Places0 :
                Represents(OSInsertThreadQueue(cleared, "cond", t), state', N2, A2)
          /\ \A r \in WaitQueue \ {"cond"} :
                OSInsertThreadQueue(cleared, "cond", t).head[r] = cleared.head[r]
      BY <1>6, <2>4, <2>6, <3>1, <3>2, StatesAre, InsertKeeps
    <3>4. pc' = [pc EXCEPT ![t] = "condLock"]
      BY <2>7 DEF Goto
    <3>5. ThreadInv'
      BY <1>3, <1>6, <2>7, <3>2, <3>3, <3>4
         DEF ThreadInv, ThreadTypeOK, QueueInv, LinksType, ThreadStates
    <3>6. /\ links'.head["mutex"] = NoThread
          /\ \A r \in WaitQueue \ {"mutex", "cond"} : links'.head[r] = links.head[r]
      BY <1>6, <2>6, <2>7, <3>3
    <3> QED BY <1>7, <2>2, <2>3, <3>4, <3>5, <3>6
  <2>8. CASE /\ state' = [woken EXCEPT ![t] = "Ready"]
             /\ links' = cleared
             /\ Goto(t, "condSleep")
    <3>1. /\ state' \in [Thread -> ThreadStates]
          /\ \A u \in Thread : state[u] = "Waiting" /\ u \notin Listed(links, "mutex")
                                => state'[u] = "Waiting"
      <4> HIDE DEF woken
      <4> QED BY <2>1, <2>4, <2>8 DEF ThreadStates
    <3>2. links' = OSClearQueue(links, "mutex")
      BY <2>8
    <3>3. /\ QueueInv' /\ links' \in LinksType
          /\ links'.head["mutex"] = NoThread /\ OtherHeads("mutex")
      BY <1>3, <1>6, <3>1, <3>2, WakeKeeps
    <3>4. pc' = [pc EXCEPT ![t] = "condSleep"]
      BY <2>8 DEF Goto
    <3>5. ThreadInv'
      BY <1>3, <1>6, <3>1, <3>3, <3>4 DEF ThreadInv, ThreadTypeOK, LinksType, ThreadStates
    <3> QED BY <1>7, <2>2, <2>3, <3>3, <3>4, <3>5 DEF OtherHeads
  <2> QED BY <1>13, <2>7, <2>8 DEF OSWaitCond
<1>14. CASE CondSleep(t)
  <2>1. /\ state[t] = "Running" /\ OSSleepThreadNoLock(t, "cond", "condLock")
        /\ UNCHANGED mutexVars /\ pc[t] = "condSleep"
    BY <1>14 DEF CondSleep, At
  <2>2. ThreadInv' /\ OtherHeads("cond") /\ pc' = [pc EXCEPT ![t] = "condLock"]
    BY <1>3, <1>6, <2>1, SleepKeeps
  <2>3. MutexTypeOK'
    BY <1>4, <2>1 DEF MutexTypeOK, mutexVars
  <2>4. CountInv'
    BY <1>3, <1>4, <1>5, <2>1, <2>2
       DEF CountInv, MutexHeldAsLocked, InCond, mutexVars
  <2>5. /\ owner' = NoThread => links'.head["mutex"] = NoThread
        /\ \A r \in WaitQueue \ {"mutex", "cond"} : links'.head[r] = links.head[r]
    BY <1>5, <1>6, <2>1, <2>2 DEF OtherHeads, mutexVars
  <2> QED BY <1>7, <2>2, <2>3, <2>4, <2>5
<1>15. CASE CondLockSleeps(t)
  <2>1. /\ state[t] = "Running" /\ OSSleepThreadNoLock(t, "mutex", "condLock")
        /\ UNCHANGED mutexVars /\ pc[t] = "condLock" /\ owner \in Thread
    BY <1>4, <1>15 DEF CondLockSleeps, At, OwnedByOther, Link
  <2>2. ThreadInv' /\ OtherHeads("mutex") /\ pc' = [pc EXCEPT ![t] = "condLock"]
    BY <1>3, <1>6, <2>1, SleepKeeps
  <2>3. MutexTypeOK'
    BY <1>4, <2>1 DEF MutexTypeOK, mutexVars
  <2>4. CountInv'
    BY <1>3, <1>4, <1>5, <2>1, <2>2
       DEF CountInv, MutexHeldAsLocked, InCond, mutexVars
  <2>5. owner' # NoThread
    BY <2>1 DEF mutexVars
  <2> QED BY <1>7, <2>2, <2>3, <2>4, <2>5 DEF OtherHeads
<1>16. CASE CondLock(t)
  <2>1. /\ owner' = t /\ count' = mutexCount[t]
        /\ pc' = [pc EXCEPT ![t] = "guest"]
        /\ UNCHANGED <<state, links, mutexCount, depth>>
        /\ pc[t] = "condLock" /\ (owner = NoThread \/ owner = t)
    BY <1>16 DEF CondLock, RestoredCount, Goto, At, OwnedByOther
  <2>2. mutexCount[t] = depth[t] /\ depth[t] > 0 /\ owner = NoThread
    BY <1>5, <2>1 DEF InCond
  <2>3. MutexTypeOK'
    BY <1>4, <2>1 DEF MutexTypeOK, Link
  <2>4. CountInv'
    BY <1>3, <1>4, <1>5, <2>1, <2>2 DEF CountInv, MutexHeldAsLocked, InCond
  <2>5. ThreadInv'
    BY <1>3, <1>6, <1>8, <2>1
  <2> QED BY <1>7, <2>1, <2>3, <2>4, <2>5
<1>17. CASE OSSignalCond(t)
  <2>1. /\ state' = Woken(state, Listed(links, "cond"))
        /\ links' = OSClearQueue(links, "cond")
        /\ UNCHANGED <<pc, mutexVars>>
    BY <1>17 DEF OSSignalCond
  <2>2. /\ state' \in [Thread -> ThreadStates]
        /\ \A u \in Thread : state[u] = "Waiting" /\ u \notin Listed(links, "cond")
                                => state'[u] = "Waiting"
    BY <1>3, <2>1 DEF Woken, ThreadStates
  <2>3. QueueInv' /\ links' \in LinksType /\ OtherHeads("cond")
    BY <1>3, <1>6, <2>1, <2>2, WakeKeeps
  <2>4. ThreadInv'
    BY <1>3, <2>1, <2>2, <2>3 DEF ThreadInv, ThreadTypeOK, LinksType, ThreadStates
  <2>5. MutexTypeOK'
    BY <1>4, <2>1 DEF MutexTypeOK, mutexVars
  <2>6. CountInv'
    BY <2>1, CountStays
  <2>7. /\ owner' = NoThread => links'.head["mutex"] = NoThread
        /\ \A r \in WaitQueue \ {"mutex", "cond"} : links'.head[r] = links.head[r]
    BY <1>5, <1>6, <2>1, <2>3 DEF OtherHeads, mutexVars
  <2> QED BY <1>7, <2>4, <2>5, <2>6, <2>7
<1> QED BY <1>1, <1>9, <1>10, <1>11, <1>12, <1>13, <1>14, <1>15, <1>16, <1>17

(* What is left to show of a step outside the mutex. *)
LEMMA OtherPart ==
    ASSUME SyncInv, UNCHANGED <<mutexVars, using>>, ThreadInv', CountInv',
           (semaphore \in Int)', NeverOverdrawn', MessageTypeOK', EventTypeOK',
           HeadInv'
    PROVE  SyncInv'
  BY DEF SyncInv, TypeOK, MutexTypeOK, mutexVars, ThreadInv

(* A step in which no list changes and only t goes on, at place p. *)
LEMMA GotoKeeps ==
    ASSUME SyncInv, NEW t \in Thread, NEW p \in Places,
           UNCHANGED <<state, links>>, pc' = [pc EXCEPT ![t] = p]
    PROVE  ThreadInv'
<1>1. ThreadTypeOK(Places)'
  BY DEF SyncInv, TypeOK, ThreadTypeOK
<1>2. QueueInv'
  BY DEF SyncInv, QueueInv
<1> QED BY <1>1, <1>2 DEF ThreadInv

LEMMA SemaphoreStep ==
    ASSUME SyncInv, UseSemaphore
    PROVE  SyncInv'
<1>1. PICK t \in Thread :
        WaitSleeps(t) \/ OSWaitSemaphore(t) \/ OSSignalSemaphore(t)
  BY DEF UseSemaphore, SemaphoreNext
<1>2. UNCHANGED <<mutexVars, messageVars, eventVars, using>>
  BY DEF UseSemaphore
<1>3. ThreadInv /\ state \in [Thread -> ThreadStates] /\ pc \in [Thread -> Places]
  BY ThreadPart DEF SyncInv, TypeOK, ThreadTypeOK
<1>4. semaphore \in Int /\ semaphore >= 0 /\ HeadInv
  BY DEF SyncInv, TypeOK, NeverOverdrawn
<1>5. {"guest", "wait"} \subseteq Places /\ "semaphore" \in WaitQueue
  BY QueueNames
<1>6. MessageTypeOK' /\ EventTypeOK'
  BY <1>2 DEF SyncInv, TypeOK, MessageTypeOK, EventTypeOK, messageVars, eventVars
<1>7. ASSUME ThreadInv', CountInv', semaphore' \in Int, semaphore' >= 0,
             \A r \in WaitQueue \ {"semaphore"} : links'.head[r] = links.head[r],
             semaphore' > 0 => links'.head["semaphore"] = NoThread
      PROVE  SyncInv'
  <2>1. HeadInv'
    BY <1>2, <1>4, <1>7, QueueNames DEF HeadInv, mutexVars, messageVars, eventVars
  <2> QED BY <1>2, <1>6, <1>7, <2>1, OtherPart DEF NeverOverdrawn
<1>8. CASE WaitSleeps(t)
  <2>1. /\ state[t] = "Running" /\ OSSleepThreadNoLock(t, "semaphore", "wait")
        /\ UNCHANGED semaphore /\ pc[t] \in {"guest", "wait"} /\ semaphore =< 0
    BY <1>8 DEF WaitSleeps, At, Empty
  <2>2. ThreadInv' /\ OtherHeads("semaphore") /\ pc' = [pc EXCEPT ![t] = "wait"]
    BY <1>3, <1>5, <2>1, SleepKeeps
  <2>3. CountInv'
    BY <1>2, <2>1, <2>2, CountKept DEF MutexPlaces
  <2> QED BY <1>4, <1>7, <2>1, <2>2, <2>3 DEF OtherHeads
<1>9. CASE OSWaitSemaphore(t)
  <2>1. /\ semaphore > 0 /\ semaphore' = semaphore - 1
        /\ pc' = [pc EXCEPT ![t] = "guest"] /\ UNCHANGED <<state, links>>
        /\ pc[t] \in {"guest", "wait"}
    BY <1>4, <1>9 DEF OSWaitSemaphore, At, Empty, Goto
  <2>2. ThreadInv'
    BY <1>5, <2>1, GotoKeeps
  <2>3. CountInv'
    BY <1>2, <2>1, CountKept DEF MutexPlaces
  <2> QED BY <1>4, <1>7, <2>1, <2>2, <2>3 DEF HeadInv
<1>10. CASE OSSignalSemaphore(t)
  <2>1. /\ semaphore' = semaphore + 1 /\ UNCHANGED pc /\ state[t] = "Running"
        /\ OSWakeupThreadNoLock(t, "semaphore")
    BY <1>10 DEF OSSignalSemaphore, At
  <2>2. ThreadInv' /\ links'.head["semaphore"] = NoThread /\ OtherHeads("semaphore")
    BY <1>3, <1>5, <2>1, WakeupKeeps
  <2>3. CountInv'
    BY <1>2, <2>1, CountStays
  <2> QED BY <1>4, <1>7, <2>1, <2>2, <2>3 DEF OtherHeads
<1> QED BY <1>1, <1>8, <1>9, <1>10

(* The remainders the ring is indexed with. *)
LEMMA RemainderIn ==
    ASSUME NEW a \in Int
    PROVE  a % Size \in 0 .. Size - 1
  BY SizeAssumption

LEMMA RemainderSmall ==
    ASSUME NEW a \in 0 .. Size - 1
    PROVE  a % Size = a
  BY SizeAssumption

LEMMA RemainderWraps ==
    ASSUME NEW a \in Size .. 2 * Size - 1
    PROVE  a % Size = a - Size
  BY SizeAssumption

LEMMA MessageStep ==
    ASSUME SyncInv, UseMessages
    PROVE  SyncInv'
<1>1. PICK t \in Thread :
        \/ \E m \in Message :
              \/ SendSleeps(t, m, "send") \/ SendSleeps(t, m, "jam")
              \/ OSSendMessage(t, m) \/ OSJamMessage(t, m)
        \/ ReceiveSleeps(t) \/ OSReceiveMessage(t) \/ OSPeekMessage(t)
  BY DEF UseMessages, MessageNext
<1>2. UNCHANGED <<mutexVars, semaphore, eventVars, using>>
  BY DEF UseMessages
<1>3. ThreadInv /\ state \in [Thread -> ThreadStates] /\ pc \in [Thread -> Places]
  BY ThreadPart DEF SyncInv, TypeOK, ThreadTypeOK
<1>4. /\ messages \in [0 .. Size - 1 -> Message \cup {NoMessage}]
      /\ first \in 0 .. Size - 1 /\ used \in 0 .. Size /\ Size \in Nat /\ Size > 0
      /\ sending \in [Thread -> Message \cup {NoMessage}]
      /\ delivered \in Message \cup {NoMessage}
  BY SizeAssumption DEF SyncInv, TypeOK, MessageTypeOK
<1>5. HeadInv
  BY DEF SyncInv
<1>6. /\ {"guest", "send", "jam", "receive"} \subseteq Places
      /\ {"send", "receive"} \subseteq WaitQueue
  BY QueueNames
<1>7. (semaphore \in Int)' /\ NeverOverdrawn' /\ EventTypeOK'
  BY <1>2 DEF SyncInv, TypeOK, NeverOverdrawn, EventTypeOK, eventVars
<1>8. ASSUME ThreadInv', CountInv', MessageTypeOK',
             \A r \in WaitQueue \ {"send", "receive"} : links'.head[r] = links.head[r],
             used' # 0 => links'.head["receive"] = NoThread,
             used' # Size => links'.head["send"] = NoThread
      PROVE  SyncInv'
  <2>1. HeadInv'
    BY <1>2, <1>5, <1>8, QueueNames DEF HeadInv, mutexVars, eventVars
  <2> QED BY <1>2, <1>7, <1>8, <2>1, OtherPart
<1>9. ASSUME NEW m \in Message, NEW p \in {"send", "jam"}, SendSleeps(t, m, p)
      PROVE  SyncInv'
  <2>1. /\ state[t] = "Running" /\ OSSleepThreadNoLock(t, "send", p) /\ used = Size
        /\ sending' = [sending EXCEPT ![t] = m]
        /\ UNCHANGED <<messages, first, used, delivered>> /\ pc[t] \in {"guest", p}
    BY <1>9 DEF SendSleeps, Sends, At, Full
  <2>2. ThreadInv' /\ OtherHeads("send") /\ pc' = [pc EXCEPT ![t] = p]
    <3>1. p \in Places
      BY <1>6
    <3> QED BY <1>3, <1>6, <2>1, <3>1, SleepKeeps
  <2>3. CountInv'
    <3>1. p \notin MutexPlaces /\ pc[t] \notin MutexPlaces
      BY <2>1 DEF MutexPlaces
    <3> QED BY <1>2, <2>2, <3>1, CountKept
  <2>4. MessageTypeOK'
    BY <1>4, <2>1 DEF MessageTypeOK
  <2>5. links'.head["receive"] = NoThread
    BY <1>4, <1>5, <1>6, <2>1, <2>2 DEF OtherHeads, HeadInv
  <2> QED BY <1>8, <2>1, <2>2, <2>3, <2>4, <2>5 DEF OtherHeads
<1>10. ASSUME NEW m \in Message, NEW i \in 0 .. Size - 1, used # Size, Put(t, m, i),
              first' \in 0 .. Size - 1, state[t] = "Running", pc[t] \notin MutexPlaces
       PROVE  SyncInv'
  <2>1. /\ messages' = [messages EXCEPT ![i] = m] /\ used' = used + 1
        /\ sending' = [sending EXCEPT ![t] = NoMessage]
        /\ OSWakeupThreadNoLock(t, "receive")
        /\ pc' = [pc EXCEPT ![t] = "guest"] /\ UNCHANGED delivered
    BY <1>10 DEF Put, Goto
  <2>2. pc' \in [Thread -> Places]
    BY <1>3, <1>6, <2>1
  <2>3. ThreadInv' /\ links'.head["receive"] = NoThread /\ OtherHeads("receive")
    BY <1>3, <1>6, <1>10, <2>1, <2>2, WakeupKeeps
  <2>4. CountInv'
    BY <1>2, <1>10, <2>1, CountKept DEF MutexPlaces
  <2>5. MessageTypeOK'
    BY <1>4, <1>10, <2>1 DEF MessageTypeOK
  <2>6. links'.head["send"] = NoThread
    BY <1>5, <1>6, <1>10, <2>3 DEF OtherHeads, HeadInv
  <2> QED BY <1>8, <2>3, <2>4, <2>5, <2>6 DEF OtherHeads
<1>11. ASSUME NEW m \in Message, OSSendMessage(t, m)
       PROVE  SyncInv'
  <2>1. (first + used) % Size \in 0 .. Size - 1
    BY <1>4, RemainderIn
  <2>2. /\ Put(t, m, (first + used) % Size) /\ used # Size /\ first' = first
        /\ state[t] = "Running" /\ pc[t] \in {"guest", "send"}
    BY <1>11 DEF OSSendMessage, Sends, At, Full
  <2> QED BY <1>4, <1>10, <2>1, <2>2 DEF MutexPlaces
<1>12. ASSUME NEW m \in Message, OSJamMessage(t, m)
       PROVE  SyncInv'
  <2>1. BeforeFirst \in 0 .. Size - 1
    BY <1>4 DEF BeforeFirst
  <2>2. /\ Put(t, m, BeforeFirst) /\ used # Size /\ first' = BeforeFirst
        /\ state[t] = "Running" /\ pc[t] \in {"guest", "jam"}
    BY <1>12 DEF OSJamMessage, Sends, At, Full
  <2> QED BY <1>10, <2>1, <2>2 DEF MutexPlaces
<1>13. CASE ReceiveSleeps(t)
  <2>1. /\ state[t] = "Running" /\ OSSleepThreadNoLock(t, "receive", "receive")
        /\ used = 0 /\ UNCHANGED messageVars /\ pc[t] \in {"guest", "receive"}
    BY <1>13 DEF ReceiveSleeps, At
  <2>2. ThreadInv' /\ OtherHeads("receive") /\ pc' = [pc EXCEPT ![t] = "receive"]
    BY <1>3, <1>6, <2>1, SleepKeeps
  <2>3. CountInv'
    BY <1>2, <2>1, <2>2, CountKept DEF MutexPlaces
  <2>4. MessageTypeOK'
    BY <1>4, <2>1 DEF MessageTypeOK, messageVars
  <2>5. links'.head["send"] = NoThread /\ used' = 0
    BY <1>4, <1>5, <1>6, <2>1, <2>2 DEF OtherHeads, HeadInv, messageVars
  <2> QED BY <1>8, <2>2, <2>3, <2>4, <2>5 DEF OtherHeads
<1>14. CASE OSReceiveMessage(t)
  <2>1. /\ state[t] = "Running" /\ pc[t] \in {"guest", "receive"} /\ used # 0
        /\ delivered' = messages[first] /\ first' = (first + 1) % Size
        /\ used' = used - 1 /\ OSWakeupThreadNoLock(t, "send")
        /\ pc' = [pc EXCEPT ![t] = "guest"] /\ UNCHANGED <<messages, sending>>
    BY <1>14 DEF OSReceiveMessage, At, Goto
  <2>2. pc' \in [Thread -> Places]
    BY <1>3, <1>6, <2>1
  <2>3. ThreadInv' /\ links'.head["send"] = NoThread /\ OtherHeads("send")
    BY <1>3, <1>6, <2>1, <2>2, WakeupKeeps
  <2>4. CountInv'
    BY <1>2, <2>1, CountKept DEF MutexPlaces
  <2>5. first' \in 0 .. Size - 1
    BY <1>4, <2>1, RemainderIn
  <2>6. MessageTypeOK'
    BY <1>4, <2>1, <2>5 DEF MessageTypeOK
  <2>7. links'.head["receive"] = NoThread
    BY <1>5, <1>6, <2>1, <2>3 DEF OtherHeads, HeadInv
  <2> QED BY <1>8, <2>3, <2>4, <2>6, <2>7 DEF OtherHeads
<1>15. CASE OSPeekMessage(t)
  <2>1. /\ delivered' = messages[first]
        /\ UNCHANGED <<state, pc, links, messages, first, used, sending>>
    BY <1>15 DEF OSPeekMessage, threadVars
  <2>2. MessageTypeOK'
    BY <1>4, <2>1 DEF MessageTypeOK
  <2>3. CountInv'
    BY <1>2, <2>1, CountStays
  <2>4. ThreadInv'
    BY <1>3, <2>1 DEF ThreadInv, ThreadTypeOK, QueueInv
  <2> QED BY <1>5, <1>8, <2>1, <2>2, <2>3, <2>4 DEF HeadInv
<1> QED BY <1>1, <1>9, <1>11, <1>12, <1>13, <1>14, <1>15

LEMMA EventStep ==
    ASSUME SyncInv, UseEvent
    PROVE  SyncInv'
<1>1. PICK t \in Thread :
        \/ WaitReturns(t) \/ WaitEventSleeps(t) \/ OSWaitEvent(t)
        \/ SignalUnawaited(t) \/ OSSignalEvent(t) \/ OSSignalEventAll(t)
        \/ OSResetEvent(t)
  BY DEF UseEvent, EventNext
<1>2. UNCHANGED <<mutexVars, semaphore, messageVars, using>>
  BY DEF UseEvent
<1>3. ThreadInv /\ state \in [Thread -> ThreadStates] /\ pc \in [Thread -> Places]
  BY ThreadPart DEF SyncInv, TypeOK, ThreadTypeOK
<1>4. mode \in {"ManualReset", "AutoReset"} /\ value \in BOOLEAN /\ HeadInv
  BY DEF SyncInv, TypeOK, EventTypeOK
<1>5. {"guest", "event"} \subseteq Places /\ "event" \in WaitQueue
  BY QueueNames
<1>6. (semaphore \in Int)' /\ NeverOverdrawn' /\ MessageTypeOK'
  BY <1>2 DEF SyncInv, TypeOK, NeverOverdrawn, MessageTypeOK, messageVars
<1>7. ASSUME ThreadInv', CountInv', value' \in BOOLEAN, mode' = mode,
             \A r \in WaitQueue \ {"event"} : links'.head[r] = links.head[r],
             value' => links'.head["event"] = NoThread
      PROVE  SyncInv'
  <2>1. HeadInv'
    BY <1>2, <1>4, <1>7, QueueNames DEF HeadInv, mutexVars, messageVars
  <2>2. EventTypeOK'
    BY <1>4, <1>7 DEF EventTypeOK
  <2> QED BY <1>2, <1>6, <1>7, <2>1, <2>2, OtherPart
\* Steps of a thread that leave every thread alone.
<1>8. ASSUME UNCHANGED <<threadVars, mode>>, value' \in BOOLEAN,
             value' => links.head["event"] = NoThread
      PROVE  SyncInv'
  <2>1. CountInv'
    BY <1>2, <1>8, CountStays DEF threadVars
  <2>2. ThreadInv'
    BY <1>3, <1>8 DEF ThreadInv, ThreadTypeOK, QueueInv, threadVars
  <2> QED BY <1>7, <1>8, <2>1, <2>2 DEF threadVars
\* Steps that wake the whole queue.
<1>9. ASSUME state[t] = "Running", OSWakeupThreadNoLock(t, "event"),
             UNCHANGED <<pc, mode>>, value' \in BOOLEAN
      PROVE  SyncInv'
  <2>1. pc' \in [Thread -> Places]
    BY <1>3, <1>9
  <2>2. ThreadInv' /\ links'.head["event"] = NoThread /\ OtherHeads("event")
    BY <1>3, <1>5, <1>9, <2>1, WakeupKeeps
  <2>3. CountInv'
    BY <1>2, <1>9, CountStays
  <2> QED BY <1>7, <1>9, <2>2, <2>3 DEF OtherHeads
<1>10. CASE WaitReturns(t)
  BY <1>4, <1>8, <1>10 DEF WaitReturns, HeadInv
<1>11. CASE WaitEventSleeps(t)
  <2>1. /\ state[t] = "Running" /\ OSSleepThreadNoLock(t, "event", "event")
        /\ UNCHANGED eventVars /\ ~value /\ pc[t] = "guest"
    BY <1>11 DEF WaitEventSleeps, At
  <2>2. ThreadInv' /\ OtherHeads("event") /\ pc' = [pc EXCEPT ![t] = "event"]
    BY <1>3, <1>5, <2>1, SleepKeeps
  <2>3. CountInv'
    BY <1>2, <2>1, <2>2, CountKept DEF MutexPlaces
  <2> QED BY <1>4, <1>7, <2>1, <2>2, <2>3 DEF OtherHeads, eventVars
<1>12. CASE OSWaitEvent(t)
  <2>1. /\ pc' = [pc EXCEPT ![t] = "guest"] /\ UNCHANGED <<state, links, eventVars>>
        /\ pc[t] = "event"
    BY <1>12 DEF OSWaitEvent, Goto, At
  <2>2. ThreadInv'
    BY <1>5, <2>1, GotoKeeps
  <2>3. CountInv'
    BY <1>2, <2>1, CountKept DEF MutexPlaces
  <2> QED BY <1>4, <1>7, <2>1, <2>2, <2>3 DEF HeadInv, eventVars
<1>13. CASE SignalUnawaited(t)
  BY <1>8, <1>13 DEF SignalUnawaited
<1>14. CASE OSSignalEvent(t)
  <2>1. /\ state[t] = "Running" /\ links.head["event"] # NoThread
        /\ value' = (mode # "AutoReset") /\ UNCHANGED <<pc, mode>>
    BY <1>14 DEF OSSignalEvent, SignalledValue, At
  <2>2. CASE mode = "AutoReset"
    <3>1. /\ links' = OSPopFrontFromQueue(links, "event") /\ ~value'
          /\ state' \in Rescheduled(Woken(state, {links.head["event"]}), t)
      BY <1>14, <2>1, <2>2 DEF OSSignalEvent
    <3>2. /\ state' \in [Thread -> ThreadStates]
          /\ \A u \in Thread : state[u] = "Waiting" /\ u # links.head["event"]
                                  => state'[u] = "Waiting"
      BY <1>3, <2>1, <3>1 DEF Rescheduled, Woken, ThreadStates
    <3>3. links \in LinksType
      BY <1>3 DEF ThreadInv, ThreadTypeOK, LinksType
    <3>4. PICK N \in Lengths, A \in Places0 : Represents(links, state, N, A)
      BY <1>3 DEF ThreadInv, QueueInv
    <3>5. /\ OSPopFrontFromQueue(links, "event") \in LinksType
          /\ \E N2 \in Lengths, A2 \in Places0 :
                Represents(OSPopFrontFromQueue(links, "event"), state', N2, A2)
          /\ \A r \in WaitQueue \ {"event"} :
                OSPopFrontFromQueue(links, "event").head[r] = links.head[r]
      BY <1>3, <1>5, <2>1, <3>2, <3>3, <3>4, StatesAre, PopKeeps
    <3>6. ThreadInv'
      BY <1>3, <2>1, <3>1, <3>2, <3>5
         DEF ThreadInv, ThreadTypeOK, QueueInv, LinksType, ThreadStates
    <3>7. CountInv'
      BY <1>2, <2>1, CountStays
    <3> QED BY <1>7, <2>1, <3>1, <3>5, <3>6, <3>7
  <2>3. CASE mode # "AutoReset"
    <3>1. OSWakeupThreadNoLock(t, "event")
      BY <1>14, <2>3 DEF OSSignalEvent
    <3> QED BY <1>9, <2>1, <3>1
  <2> QED BY <2>2, <2>3
<1>15. CASE OSSignalEventAll(t)
  BY <1>9, <1>15 DEF OSSignalEventAll, SignalledValue, At
<1>16. CASE OSResetEvent(t)
  BY <1>8, <1>16 DEF OSResetEvent
<1> QED BY <1>1, <1>10, <1>11, <1>12, <1>13, <1>14, <1>15, <1>16

LEMMA SchedulerStep ==
    ASSUME SyncInv, Scheduler
    PROVE  SyncInv'
<1>1. PICK t \in Thread : Dispatch(t)
  BY DEF Scheduler
<1>2. UNCHANGED <<mutexVars, semaphore, messageVars, eventVars, using>>
  BY DEF Scheduler
<1>3. ThreadInv /\ state \in [Thread -> ThreadStates]
  BY ThreadPart
<1>4. /\ state[t] = "Ready" /\ state' = [state EXCEPT ![t] = "Running"]
      /\ UNCHANGED <<pc, links>>
  BY <1>1 DEF Dispatch
<1>5. /\ state' \in [Thread -> ThreadStates]
      /\ \A u \in Thread : state[u] = "Waiting" => state'[u] = "Waiting"
  BY <1>3, <1>4 DEF ThreadStates
<1>6. QueueInv'
  BY <1>3, <1>4, <1>5, AwakeKeeps
<1>7. ThreadInv'
  BY <1>3, <1>4, <1>5, <1>6 DEF ThreadInv, ThreadTypeOK, ThreadStates
<1>8. CountInv'
  BY <1>2, <1>4, CountStays
<1>9. HeadInv'
  BY <1>2, <1>4 DEF SyncInv, HeadInv, mutexVars, messageVars, eventVars
<1>10. /\ (semaphore \in Int)' /\ NeverOverdrawn' /\ MessageTypeOK' /\ EventTypeOK'
  BY <1>2 DEF SyncInv, TypeOK, NeverOverdrawn, MessageTypeOK, EventTypeOK,
              messageVars, eventVars
<1> QED BY <1>2, <1>7, <1>8, <1>9, <1>10, OtherPart

LEMMA SyncStep ==
    ASSUME SyncInv, [Next]_vars
    PROVE  SyncInv'
<1>1. CASE Next
  BY <1>1, MutexStep, SemaphoreStep, MessageStep, EventStep, SchedulerStep DEF Next
<1>2. CASE UNCHANGED vars
  <2>1. TypeOK'
    BY <1>2 DEF SyncInv, TypeOK, ThreadTypeOK, MutexTypeOK, MessageTypeOK,
                EventTypeOK, vars, threadVars, mutexVars, messageVars, eventVars
  <2>2. QueueInv' /\ HeadInv' /\ CountInv' /\ NeverOverdrawn'
    BY <1>2 DEF SyncInv, QueueInv, HeadInv, CountInv, MutexHeldAsLocked, InCond,
                NeverOverdrawn, vars, threadVars, mutexVars, messageVars, eventVars
  <2> QED BY <2>1, <2>2 DEF SyncInv
<1> QED BY <1>1, <1>2

(* The inductive invariant of the objects: the types, what is drawn from each,   *)
(* the representation of the lists, whose heads are empty while there is         *)
(* something to take, and the counts.                                           *)
THEOREM SyncInvariant == Spec => []SyncInv
<1>1. SyncInv /\ [Next]_vars => SyncInv'
  BY SyncStep
<1> QED BY SyncInit, <1>1, PTL DEF Spec

(* What the objects count is what the threads hold, for any number of threads *)
(* and however deep they lock: OSWaitCond gives back just what it took.       *)
THEOREM CountsCorrect == Spec => []CountsWhatIsHeld
<1>1. SyncInv => CountsWhatIsHeld
  BY DEF SyncInv, CountInv, CountsWhatIsHeld
<1> QED BY <1>1, SyncInvariant, PTL

(* Who is listed sleeps, once, and what it waits for is not there. *)
LEMMA ListedIsForAReason == ASSUME SyncInv PROVE ListedForAReason
<1>1. PICK N \in Lengths, A \in Places0 : Represents(links, state, N, A)
  BY DEF SyncInv, QueueInv
<1>2. links \in LinksType /\ state \in [Thread -> ThreadStates]
  BY DEF SyncInv, TypeOK, ThreadTypeOK, LinksType, ThreadStates
<1>3. ASSUME NEW q \in WaitQueue
      PROVE  /\ \A t : t \in Listed(links, q)
                          <=> \E n \in Nat : n < N[q] /\ t = A[q][n]
             /\ N[q] = 0 <=> links.head[q] = NoThread
  BY <1>1, <1>2, StatesAre, ListedIs
<1>4. ASSUME NEW q \in WaitQueue PROVE Chain(links, state, N, A, q) /\ N[q] \in Nat
  BY <1>1 DEF Represents, Lengths
<1>5. ListedWaits
  <2> SUFFICES ASSUME NEW q \in WaitQueue, NEW t \in Listed(links, q)
               PROVE  /\ state[t] = "Waiting"
                      /\ \A r \in WaitQueue : t \in Listed(links, r) => r = q
    BY DEF ListedWaits
  <2>1. PICK n \in Nat : n < N[q] /\ t = A[q][n]
    BY <1>3
  <2>2. state[t] = "Waiting"
    BY <1>4, <2>1 DEF Chain
  <2>3. ASSUME NEW r \in WaitQueue, t \in Listed(links, r) PROVE r = q
    <3>1. PICK m \in Nat : m < N[r] /\ t = A[r][m]
      BY <1>3, <2>3
    <3> QED BY <1>1, <2>1, <3>1 DEF Represents, Apart
  <2> QED BY <2>2, <2>3
<1>6. ListsEndAtTail
  <2> SUFFICES ASSUME NEW q \in WaitQueue
               PROVE  IF links.head[q] = NoThread THEN links.tail[q] = NoThread
                      ELSE /\ links.tail[q] \in Listed(links, q)
                           /\ links.next[links.tail[q]] = NoThread
    BY DEF ListsEndAtTail
  <2>1. CASE N[q] = 0
    BY <1>3, <1>4, <2>1 DEF Chain
  <2>2. CASE N[q] # 0
    <3>1. N[q] - 1 \in Nat /\ N[q] - 1 < N[q] /\ (N[q] - 1) + 1 = N[q] /\ N[q] \in Nat
      BY <1>4, <2>2
    <3>2. links.tail[q] = A[q][N[q] - 1]
      BY <1>4, <2>2 DEF Chain
    <3>3. links.next[A[q][N[q] - 1]] = A[q][N[q]] /\ A[q][N[q]] = NoThread
      BY <1>4, <3>1 DEF Chain
    <3> QED BY <1>3, <2>2, <3>1, <3>2, <3>3
  <2> QED BY <2>1, <2>2
<1>7. \A q \in WaitQueue : links.head[q] = NoThread => Listed(links, q) = {}
  BY <1>3
<1>8. FreeMutexWakes /\ SignalWakes /\ MessageWakes /\ SetEventWakes
  BY <1>7, QueueNames
     DEF SyncInv, HeadInv, FreeMutexWakes, SignalWakes, MessageWakes, SetEventWakes
<1> QED BY <1>5, <1>6, <1>8 DEF SyncInv, ListedForAReason

-----------------------------------------------------------------------------
(* Who is lost.                                                              *)

\* Threads that sleep on no list were lost before, or fell asleep in this step
\* and were put before the head of a list.
Losses ==
    \A t \in Thread : Lost(t)' =>
        \/ Lost(t)
        \/ /\ state[t] # "Waiting"
           /\ \E q \in WaitQueue : PutBeforeHead(links, links', q, t)

LEMMA ThreadTypes ==
    ASSUME ThreadInv
    PROVE  /\ links \in LinksType /\ state \in [Thread -> States]
           /\ state \in [Thread -> ThreadStates] /\ Lists(links, state)
  BY StatesAre DEF ThreadInv, ThreadTypeOK, LinksType, ThreadStates, QueueInv, Lists

(* A step in which nobody falls asleep and no list changes. *)
LEMMA AwakeLoses ==
    ASSUME links' = links,
           \A u \in Thread : state'[u] = "Waiting" => state[u] = "Waiting"
    PROVE  Losses
  BY DEF Losses, Lost

(* A step in which those of a queue are woken. *)
LEMMA ClearLoses ==
    ASSUME ThreadInv, NEW q \in WaitQueue, links' = OSClearQueue(links, q),
           state' \in [Thread -> ThreadStates],
           \A u \in Thread : /\ state'[u] = "Waiting" => state[u] = "Waiting"
                             /\ u \in Listed(links, q) => state'[u] # "Waiting"
                             /\ state[u] = "Waiting" /\ u \notin Listed(links, q)
                                   => state'[u] = "Waiting"
    PROVE  Losses
<1>1. /\ links \in LinksType /\ state \in [Thread -> States] /\ Lists(links, state)
      /\ state' \in [Thread -> States]
  BY ThreadTypes, StatesAre
<1>2. \A r \in WaitQueue \ {q} : Listed(links', r) = Listed(links, r)
  BY <1>1, ClearLists
<1> QED BY <1>2 DEF Losses, Lost

LEMMA WakeupLoses ==
    ASSUME ThreadInv, NEW q \in WaitQueue, NEW t \in Thread,
           state[t] = "Running", OSWakeupThreadNoLock(t, q)
    PROVE  Losses
<1>1. state \in [Thread -> ThreadStates] /\ links' = OSClearQueue(links, q)
  BY ThreadTypes DEF OSWakeupThreadNoLock
<1>2. state' \in Rescheduled(Woken(state, Listed(links, q)), t)
  BY DEF OSWakeupThreadNoLock
<1>3. state' \in [Thread -> ThreadStates]
  BY <1>1, <1>2 DEF Rescheduled, Woken, ThreadStates
<1>4. \A u \in Thread :
         state'[u] \in {"Ready", IF u \in Listed(links, q) THEN "Ready" ELSE state[u]}
  BY <1>1, <1>2 DEF Rescheduled, Woken
<1>5. \A u \in Thread \ {t} :
         state'[u] = IF u \in Listed(links, q) THEN "Ready" ELSE state[u]
  BY <1>1, <1>2 DEF Rescheduled, Woken
<1> QED BY <1>1, <1>3, <1>4, <1>5, ClearLoses

(* A step in which a running thread falls asleep. *)
LEMMA SleepLoses ==
    ASSUME ThreadInv, NEW q \in WaitQueue, NEW t \in Thread, NEW p,
           state[t] = "Running", OSSleepThreadNoLock(t, q, p)
    PROVE  Losses
<1>1. /\ links \in LinksType /\ state \in [Thread -> States] /\ Lists(links, state)
      /\ state \in [Thread -> ThreadStates]
  BY ThreadTypes
<1>2. /\ links' = OSInsertThreadQueue(links, q, t)
      /\ state' = [state EXCEPT ![t] = "Waiting"]
  BY DEF OSSleepThreadNoLock
<1>3. /\ state' \in [Thread -> States] /\ state'[t] = "Waiting"
      /\ \A u \in Thread : u # t => state'[u] = state[u]
      /\ \A u \in Thread : state[u] = "Waiting" => state'[u] = "Waiting"
  BY <1>1, <1>2 DEF States
<1>4. /\ \A r \in WaitQueue \ {q} : Listed(links', r) = Listed(links, r)
      /\ Listed(links, q) \subseteq Listed(links', q)
      /\ t \in Listed(links', q) \/ PutBeforeHead(links, links', q, t)
  <2>1. PICK l2, s2 : l2 = links' /\ s2 = state'
    OBVIOUS
  <2>2. /\ state[t] # "Waiting" /\ l2 = OSInsertThreadQueue(links, q, t)
        /\ s2 \in [Thread -> States] /\ s2[t] = "Waiting"
        /\ \A u \in Thread : state[u] = "Waiting" => s2[u] = "Waiting"
    BY <1>2, <1>3, <2>1
  <2>3. /\ \A r \in WaitQueue \ {q} : Listed(l2, r) = Listed(links, r)
        /\ Listed(links, q) \subseteq Listed(l2, q)
        /\ t \in Listed(l2, q) \/ PutBeforeHead(links, l2, q, t)
    BY <1>1, <2>2, SleepLists
  <2> QED BY <2>1, <2>3
<1> QED BY <1>3, <1>4 DEF Losses, Lost

LEMMA MutexLoses ==
    ASSUME SyncInv, UseMutex
    PROVE  Losses
<1>1. PICK t \in Thread :
        \/ LockSleeps(t) \/ OSLockMutex(t) \/ UnlockOnce(t) \/ OSUnlockMutex(t)
        \/ OSWaitCond(t) \/ CondSleep(t) \/ CondLockSleeps(t) \/ CondLock(t)
        \/ OSSignalCond(t)
  BY DEF UseMutex, MutexNext
<1>2. ThreadInv /\ "mutex" \in WaitQueue /\ "cond" \in WaitQueue /\ "mutex" # "cond"
  BY ThreadPart, QueueNames
<1>3. CASE LockSleeps(t) \/ CondSleep(t) \/ CondLockSleeps(t)
  BY <1>2, <1>3, SleepLoses DEF LockSleeps, CondSleep, CondLockSleeps, At
<1>4. CASE OSLockMutex(t) \/ UnlockOnce(t) \/ CondLock(t)
  BY <1>4, AwakeLoses DEF OSLockMutex, UnlockOnce, CondLock, threadVars
<1>5. CASE OSUnlockMutex(t)
  BY <1>2, <1>5, WakeupLoses DEF OSUnlockMutex, At
<1>6. CASE OSSignalCond(t)
  <2>1. /\ state' = Woken(state, Listed(links, "cond"))
        /\ links' = OSClearQueue(links, "cond")
    BY <1>6 DEF OSSignalCond
  <2>2. state \in [Thread -> ThreadStates]
    BY <1>2, ThreadTypes
  <2>3. /\ state' \in [Thread -> ThreadStates]
        /\ \A u \in Thread :
              state'[u] = IF u \in Listed(links, "cond") THEN "Ready" ELSE state[u]
    BY <2>1, <2>2 DEF Woken, ThreadStates
  <2> QED BY <1>2, <2>1, <2>3, ClearLoses
<1>7. CASE OSWaitCond(t)
  <2>1. state[t] = "Running"
    BY <1>7 DEF OSWaitCond, At
  <2>2. /\ links \in LinksType /\ state \in [Thread -> States] /\ Lists(links, state)
        /\ state \in [Thread -> ThreadStates]
    BY <1>2, ThreadTypes
  <2>3x. PICK woken : woken = Woken(state, Listed(links, "mutex"))
    OBVIOUS
  <2>3. /\ woken \in [Thread -> ThreadStates]
        /\ woken = Woken(state, Listed(links, "mutex"))
        /\ \A u \in Thread :
              woken[u] = IF u \in Listed(links, "mutex") THEN "Ready" ELSE state[u]
    BY <2>2, <2>3x DEF Woken, ThreadStates
  <2>4. woken \in [Thread -> States] /\ woken[t] # "Waiting"
    BY <2>1, <2>3, StatesAre
  <2>5. CASE /\ state' = [woken EXCEPT ![t] = "Ready"]
             /\ links' = OSClearQueue(links, "mutex")
    <3>1. state' \in [Thread -> ThreadStates]
      BY <2>3, <2>5 DEF ThreadStates
    <3>2. \A u \in Thread : state'[u] = IF u = t THEN "Ready" ELSE woken[u]
      BY <2>3, <2>5
    <3> QED BY <1>2, <2>1, <2>3, <2>5, <3>1, <3>2, ClearLoses
  <2>6. CASE /\ state' = [woken EXCEPT ![t] = "Waiting"]
             /\ links' = OSInsertThreadQueue(OSClearQueue(links, "mutex"), "cond", t)
    <3>1. PICK l : l = OSClearQueue(links, "mutex")
      OBVIOUS
    <3>2. /\ l \in LinksType /\ Lists(l, woken)
          /\ \A r \in WaitQueue \ {"mutex"} : Listed(l, r) = Listed(links, r)
      BY <1>2, <2>2, <2>3, <2>4, <3>1, ClearLists
    <3>3. /\ state' \in [Thread -> States] /\ state'[t] = "Waiting"
          /\ \A u \in Thread : u # t => state'[u] = woken[u]
          /\ \A u \in Thread : woken[u] = "Waiting" => state'[u] = "Waiting"
      BY <2>4, <2>6 DEF States
    <3>4. links' = OSInsertThreadQueue(l, "cond", t)
      BY <2>6, <3>1
    <3>5. /\ \A r \in WaitQueue \ {"cond"} : Listed(links', r) = Listed(l, r)
          /\ Listed(l, "cond") \subseteq Listed(links', "cond")
          /\ t \in Listed(links', "cond") \/ PutBeforeHead(l, links', "cond", t)
      BY <1>2, <2>4, <3>2, <3>3, <3>4, SleepLists
    <3>6. l.head["cond"] = links.head["cond"]
      BY <1>2, <2>2, <3>1 DEF OSClearQueue, LinksType
    <3>7. PutBeforeHead(l, links', "cond", t) => PutBeforeHead(links, links', "cond", t)
      BY <3>6 DEF PutBeforeHead
    <3> QED BY <1>2, <2>1, <2>3, <3>2, <3>3, <3>5, <3>7 DEF Losses, Lost
  <2> QED BY <1>7, <2>3, <2>5, <2>6 DEF OSWaitCond
<1> QED BY <1>1, <1>3, <1>4, <1>5, <1>6, <1>7

LEMMA SemaphoreLoses ==
    ASSUME SyncInv, UseSemaphore
    PROVE  Losses
<1>1. PICK t \in Thread :
        WaitSleeps(t) \/ OSWaitSemaphore(t) \/ OSSignalSemaphore(t)
  BY DEF UseSemaphore, SemaphoreNext
<1>2. ThreadInv /\ "semaphore" \in WaitQueue
  BY ThreadPart, QueueNames
<1>3. CASE WaitSleeps(t)
  BY <1>2, <1>3, SleepLoses DEF WaitSleeps, At
<1>4. CASE OSWaitSemaphore(t)
  BY <1>4, AwakeLoses DEF OSWaitSemaphore
<1>5. CASE OSSignalSemaphore(t)
  BY <1>2, <1>5, WakeupLoses DEF OSSignalSemaphore, At
<1> QED BY <1>1, <1>3, <1>4, <1>5

LEMMA MessagesLose ==
    ASSUME SyncInv, UseMessages
    PROVE  Losses
<1>1. PICK t \in Thread :
        \/ \E m \in Message :
              \/ SendSleeps(t, m, "send") \/ SendSleeps(t, m, "jam")
              \/ OSSendMessage(t, m) \/ OSJamMessage(t, m)
        \/ ReceiveSleeps(t) \/ OSReceiveMessage(t) \/ OSPeekMessage(t)
  BY DEF UseMessages, MessageNext
<1>2. ThreadInv /\ "send" \in WaitQueue /\ "receive" \in WaitQueue
  BY ThreadPart, QueueNames
<1>3. ASSUME NEW m \in Message, NEW p, SendSleeps(t, m, p) PROVE Losses
  BY <1>2, <1>3, SleepLoses DEF SendSleeps, Sends, At
<1>4. ASSUME NEW m \in Message, OSSendMessage(t, m) \/ OSJamMessage(t, m) PROVE Losses
  BY <1>2, <1>4, WakeupLoses DEF OSSendMessage, OSJamMessage, Sends, Put, At
<1>5. CASE ReceiveSleeps(t)
  BY <1>2, <1>5, SleepLoses DEF ReceiveSleeps, At
<1>6. CASE OSReceiveMessage(t)
  BY <1>2, <1>6, WakeupLoses DEF OSReceiveMessage, At
<1>7. CASE OSPeekMessage(t)
  BY <1>7, AwakeLoses DEF OSPeekMessage, threadVars
<1> QED BY <1>1, <1>3, <1>4, <1>5, <1>6, <1>7

LEMMA EventLoses ==
    ASSUME SyncInv, UseEvent
    PROVE  Losses
<1>1. PICK t \in Thread :
        \/ WaitReturns(t) \/ WaitEventSleeps(t) \/ OSWaitEvent(t)
        \/ SignalUnawaited(t) \/ OSSignalEvent(t) \/ OSSignalEventAll(t)
        \/ OSResetEvent(t)
  BY DEF UseEvent, EventNext
<1>2. ThreadInv /\ "event" \in WaitQueue
  BY ThreadPart, QueueNames
<1>3. CASE WaitEventSleeps(t)
  BY <1>2, <1>3, SleepLoses DEF WaitEventSleeps, At
<1>4. CASE WaitReturns(t) \/ OSWaitEvent(t) \/ SignalUnawaited(t) \/ OSResetEvent(t)
  BY <1>4, AwakeLoses
     DEF WaitReturns, OSWaitEvent, SignalUnawaited, OSResetEvent, threadVars
<1>5. CASE /\ state[t] = "Running" /\ OSWakeupThreadNoLock(t, "event")
  BY <1>2, <1>5, WakeupLoses
<1>6. CASE OSSignalEventAll(t)
  BY <1>5, <1>6 DEF OSSignalEventAll, At
<1>7. CASE OSSignalEvent(t)
  <2>1. state[t] = "Running" /\ links.head["event"] # NoThread
    BY <1>7 DEF OSSignalEvent, At
  <2>2. CASE mode # "AutoReset"
    BY <1>5, <1>7, <2>1, <2>2 DEF OSSignalEvent
  <2>3. CASE mode = "AutoReset"
    <3>1. /\ links' = OSPopFrontFromQueue(links, "event")
          /\ state' \in Rescheduled(Woken(state, {links.head["event"]}), t)
      BY <1>7, <2>3 DEF OSSignalEvent
    <3>2. /\ links \in LinksType /\ state \in [Thread -> States] /\ Lists(links, state)
          /\ state \in [Thread -> ThreadStates]
      BY <1>2, ThreadTypes
    <3>3. /\ state' \in [Thread -> States]
          /\ \A u \in Thread : u # t =>
                state'[u] = IF u = links.head["event"] THEN "Ready" ELSE state[u]
          /\ state'[t] # "Waiting"
      BY <2>1, <3>1, <3>2 DEF Rescheduled, Woken, States
    <3>4. \A r \in WaitQueue :
             Listed(links, r) \ {links.head["event"]} \subseteq Listed(links', r)
      BY <1>2, <2>1, <3>1, <3>2, <3>3, PopLists
    <3> QED BY <3>3, <3>4 DEF Losses, Lost
  <2> QED BY <2>2, <2>3
<1> QED BY <1>1, <1>3, <1>4, <1>6, <1>7

LEMMA NextLoses == ASSUME SyncInv, [Next]_vars PROVE Losses
<1>1. CASE UseMutex \/ UseSemaphore \/ UseMessages \/ UseEvent
  BY <1>1, MutexLoses, SemaphoreLoses, MessagesLose, EventLoses
<1>2. CASE Scheduler
  <2>1. PICK t \in Thread : Dispatch(t)
    BY <1>2 DEF Scheduler
  <2>2. state \in [Thread -> ThreadStates]
    BY ThreadPart
  <2>3. links' = links /\ state' = [state EXCEPT ![t] = "Running"]
    BY <2>1 DEF Dispatch
  <2>4. \A u \in Thread : state'[u] = "Waiting" => state[u] = "Waiting"
    BY <2>2, <2>3
  <2> QED BY <2>3, <2>4, AwakeLoses
<1>3. CASE UNCHANGED vars
  BY <1>3, AwakeLoses DEF vars, threadVars
<1> QED BY <1>1, <1>2, <1>3 DEF Next

(* Nobody is forgotten in a queue but by the insertion: who is listed sleeps,  *)
(* once, where the next wake-up looks, and what it waits for is not there; and *)
(* who falls asleep is listed until it is woken, unless it was put before a    *)
(* head of lower priority (coreinit_threadqueue.cpp:58-66).                    *)
THEOREM NobodyIsForgotten == Spec => NobodyForgotten
<1>1. SyncInv => ListedForAReason
  BY ListedIsForAReason
<1>2. SyncInv /\ [Next]_vars =>
         [\A t \in Thread : Lost(t)' =>
              \/ Lost(t)
              \/ /\ state[t] # "Waiting"
                 /\ \E q \in WaitQueue : PutBeforeHead(links, links', q, t)]_vars
  BY NextLoses DEF Losses
<1> QED BY <1>1, <1>2, SyncInvariant, PTL DEF Spec, NobodyForgotten

-----------------------------------------------------------------------------
(* The ring with its herd of senders and receivers is a bounded queue.       *)

Slots == [0 .. Size - 1 -> Message \cup {NoMessage}]

\* The n messages of the ring s from place f on.
Ring(s, f, n) == [i \in 1 .. n |-> s[(f + i - 1) % Size]]

\* The place of the i-th of them.
Spot(f, i) == IF f + i - 1 < Size THEN f + i - 1 ELSE f + i - 1 - Size

LEMMA SpotIs ==
    ASSUME NEW f \in 0 .. Size - 1, NEW i \in 1 .. Size
    PROVE  (f + i - 1) % Size = Spot(f, i) /\ Spot(f, i) \in 0 .. Size - 1
<1>1. f + i - 1 \in 0 .. Size - 1 \/ f + i - 1 \in Size .. 2 * Size - 1
  BY SizeAssumption
<1> QED BY <1>1, RemainderSmall, RemainderWraps, SizeAssumption DEF Spot

LEMMA RingIs ==
    ASSUME NEW s \in Slots, NEW f \in 0 .. Size - 1, NEW n \in 0 .. Size
    PROVE  /\ Ring(s, f, n) \in Seq(Message \cup {NoMessage})
           /\ Len(Ring(s, f, n)) = n
           /\ \A i \in 1 .. n : Ring(s, f, n)[i] = s[Spot(f, i)]
<1>1. \A i \in 1 .. n : (f + i - 1) % Size = Spot(f, i) /\ Spot(f, i) \in 0 .. Size - 1
  BY SpotIs, SizeAssumption
<1>2. Ring(s, f, n) \in [1 .. n -> Message \cup {NoMessage}]
  BY <1>1 DEF Ring, Slots
<1>3. n \in Nat
  BY SizeAssumption
<1>4. \A i \in 1 .. n : Ring(s, f, n)[i] = s[Spot(f, i)]
  BY <1>1 DEF Ring
<1> HIDE DEF Ring
<1> QED BY <1>2, <1>3, <1>4, SeqDef

LEMMA RingSends ==
    ASSUME NEW s \in Slots, NEW f \in 0 .. Size - 1, NEW n \in 0 .. Size - 1,
           NEW m \in Message
    PROVE  Ring([s EXCEPT ![(f + n) % Size] = m], f, n + 1) = Append(Ring(s, f, n), m)
<1> DEFINE s2 == [s EXCEPT ![(f + n) % Size] = m]
           old == Ring(s, f, n)
           new == Ring(s2, f, n + 1)
<1>1. Size \in Nat /\ n \in 0 .. Size /\ n + 1 \in 0 .. Size /\ n + 1 \in 1 .. Size
  BY SizeAssumption
<1>2. s2 \in Slots
  BY DEF Slots
<1>3. (f + n) % Size = Spot(f, n + 1) /\ Spot(f, n + 1) \in 0 .. Size - 1
  <2>1. f + n = f + (n + 1) - 1
    OBVIOUS
  <2> QED BY <1>1, <2>1, SpotIs
<1>4. \A i \in 1 .. n : Spot(f, i) # Spot(f, n + 1) /\ Spot(f, i) \in 0 .. Size - 1
  BY <1>1 DEF Spot
<1>5. s2[Spot(f, n + 1)] = m /\ \A i \in 1 .. n : s2[Spot(f, i)] = s[Spot(f, i)]
  <2> HIDE DEF Spot
  <2> QED BY <1>3, <1>4 DEF Slots
<1> HIDE DEF s2
<1>6. /\ old \in Seq(Message \cup {NoMessage}) /\ Len(old) = n
      /\ \A i \in 1 .. n : old[i] = s[Spot(f, i)]
  BY <1>1, RingIs
<1>7. /\ new \in Seq(Message \cup {NoMessage}) /\ Len(new) = n + 1
      /\ \A i \in 1 .. n + 1 : new[i] = s2[Spot(f, i)]
  BY <1>1, <1>2, RingIs
<1> HIDE DEF old, new
<1>8. /\ Append(old, m) \in Seq(Message \cup {NoMessage}) /\ Len(Append(old, m)) = n + 1
  BY <1>6
<1>9. \A i \in 1 .. n + 1 : new[i] = Append(old, m)[i]
  BY <1>1, <1>5, <1>6, <1>7
<1>10. new = Append(old, m)
  BY <1>7, <1>8, <1>9, SeqEqual
<1> QED BY <1>10 DEF old, new, s2

\* The place before f.
Before(f) == IF f = 0 THEN Size - 1 ELSE f - 1

LEMMA RingJams ==
    ASSUME NEW s \in Slots, NEW f \in 0 .. Size - 1, NEW n \in 0 .. Size - 1,
           NEW m \in Message
    PROVE  Ring([s EXCEPT ![Before(f)] = m], Before(f), n + 1) = <<m>> \o Ring(s, f, n)
<1> DEFINE g == Before(f)
           s2 == [s EXCEPT ![g] = m]
           old == Ring(s, f, n)
           new == Ring(s2, g, n + 1)
           jammed == <<m>> \o old
<1>1. Size \in Nat /\ Size > 0 /\ n \in 0 .. Size /\ n + 1 \in 0 .. Size
  BY SizeAssumption
<1>2. g \in 0 .. Size - 1 /\ Spot(g, 1) = g
  BY <1>1 DEF Spot, Before
<1>3. s2 \in Slots
  BY DEF Slots
<1>4. \A i \in 1 .. n : /\ Spot(g, i + 1) = Spot(f, i) /\ Spot(f, i) # g
                        /\ Spot(f, i) \in 0 .. Size - 1
  BY <1>1 DEF Spot, Before
<1> HIDE DEF g
<1>5. s2[g] = m /\ \A i \in 1 .. n : s2[Spot(f, i)] = s[Spot(f, i)]
  <2> HIDE DEF Spot
  <2> QED BY <1>2, <1>4 DEF Slots
<1> HIDE DEF s2
<1>6. /\ old \in Seq(Message \cup {NoMessage}) /\ Len(old) = n
      /\ \A i \in 1 .. n : old[i] = s[Spot(f, i)]
  BY <1>1, RingIs
<1>7. /\ new \in Seq(Message \cup {NoMessage}) /\ Len(new) = n + 1
      /\ \A i \in 1 .. n + 1 : new[i] = s2[Spot(g, i)]
  BY <1>1, <1>2, <1>3, RingIs
<1> HIDE DEF old, new
<1>8. /\ jammed \in Seq(Message \cup {NoMessage}) /\ Len(jammed) = n + 1
      /\ jammed[1] = m /\ \A i \in 1 .. n : jammed[i + 1] = old[i]
  BY <1>1, <1>6
<1> HIDE DEF jammed
<1>9. \A i \in 1 .. n + 1 : new[i] = jammed[i]
  <2> SUFFICES ASSUME NEW i \in 1 .. n + 1 PROVE new[i] = jammed[i]
    OBVIOUS
  <2>1. CASE i = 1
    BY <1>2, <1>5, <1>7, <1>8, <2>1
  <2>2. CASE i # 1
    <3>1. i - 1 \in 1 .. n /\ (i - 1) + 1 = i
      BY <1>1, <2>2
    <3>2. new[i] = s2[Spot(g, (i - 1) + 1)]
      BY <1>7, <3>1
    <3>3. jammed[i] = old[i - 1]
      BY <1>8, <3>1
    <3> QED BY <1>4, <1>5, <1>6, <3>1, <3>2, <3>3
  <2> QED BY <2>1, <2>2
<1>10. new = jammed
  BY <1>7, <1>8, <1>9, SeqEqual
<1> QED BY <1>10 DEF old, new, s2, g, jammed

LEMMA RingReceives ==
    ASSUME NEW s \in Slots, NEW f \in 0 .. Size - 1, NEW n \in 1 .. Size
    PROVE  Ring(s, (f + 1) % Size, n - 1) = Tail(Ring(s, f, n))
<1> DEFINE old == Ring(s, f, n)
           g == (f + 1) % Size
           new == Ring(s, g, n - 1)
<1>1. Size \in Nat /\ Size > 0 /\ n \in 0 .. Size /\ n - 1 \in 0 .. Size
  BY SizeAssumption
<1>2. g = IF f + 1 < Size THEN f + 1 ELSE 0
  <2>1. CASE f + 1 < Size
    BY <1>1, <2>1, RemainderSmall
  <2>2. CASE f + 1 = Size
    <3>1. f + 1 \in Size .. 2 * Size - 1
      BY <1>1, <2>2
    <3> QED BY <1>1, <2>2, <3>1, RemainderWraps
  <2> QED BY <1>1, <2>1, <2>2
<1> HIDE DEF g
<1>3. g \in 0 .. Size - 1 /\ \A i \in 1 .. n - 1 : Spot(g, i) = Spot(f, i + 1)
  BY <1>1, <1>2 DEF Spot
<1>4. /\ old \in Seq(Message \cup {NoMessage}) /\ Len(old) = n
      /\ \A i \in 1 .. n : old[i] = s[Spot(f, i)]
  BY <1>1, RingIs
<1>5. /\ new \in Seq(Message \cup {NoMessage}) /\ Len(new) = n - 1
      /\ \A i \in 1 .. n - 1 : new[i] = s[Spot(g, i)]
  BY <1>1, <1>3, RingIs
<1> HIDE DEF old, new
<1>6. \A i \in 1 .. n - 1 : new[i] = old[i + 1]
  <2> SUFFICES ASSUME NEW i \in 1 .. n - 1 PROVE new[i] = old[i + 1]
    OBVIOUS
  <2>1. i + 1 \in 1 .. n
    BY <1>1
  <2> QED BY <1>3, <1>4, <1>5, <2>1
<1>7. old # <<>>
  BY <1>1, <1>4
<1>8. /\ Tail(old) \in Seq(Message \cup {NoMessage}) /\ Len(Tail(old)) = n - 1
      /\ \A i \in 1 .. n - 1 : Tail(old)[i] = old[i + 1]
  BY <1>1, <1>4, <1>7
<1>9. \A i \in 1 .. Len(new) : new[i] = Tail(old)[i]
  BY <1>5, <1>6, <1>8
<1>10. new = Tail(old)
  BY <1>5, <1>8, <1>9, SeqEqual
<1> QED BY <1>10 DEF old, new, g

\* What the queue of messages holds.
Held == [i \in 1 .. used |-> messages[(first + i - 1) % Size]]

(* What is put into the ring is sent or jammed, what is taken is received. *)
LEMMA RingStep ==
    ASSUME SyncInv, UseMessages
    PROVE  Deque!DequeNext \/ UNCHANGED <<Held, delivered>>
<1>1. /\ messages \in Slots /\ first \in 0 .. Size - 1 /\ used \in 0 .. Size
      /\ Size \in Nat /\ Size > 0
  BY SizeAssumption DEF SyncInv, TypeOK, MessageTypeOK, Slots
<1>2. /\ Held = Ring(messages, first, used)
      /\ Held' = Ring(messages', first', used')
  BY DEF Held, Ring
<1>3. /\ Held \in Seq(Message \cup {NoMessage}) /\ Len(Held) = used
      /\ \A i \in 1 .. used : Held[i] = messages[Spot(first, i)]
  BY <1>1, <1>2, RingIs
<1>4. used # 0 => Held # <<>> /\ Head(Held) = messages[first]
  <2> SUFFICES ASSUME used # 0 PROVE Held # <<>> /\ Head(Held) = messages[first]
    OBVIOUS
  <2>1. 1 \in 1 .. used /\ Spot(first, 1) = first
    BY <1>1 DEF Spot
  <2> HIDE DEF Held
  <2> QED BY <1>1, <1>3, <2>1
<1>5. PICK t \in Thread :
        \/ \E m \in Message :
              \/ SendSleeps(t, m, "send") \/ SendSleeps(t, m, "jam")
              \/ OSSendMessage(t, m) \/ OSJamMessage(t, m)
        \/ ReceiveSleeps(t) \/ OSReceiveMessage(t) \/ OSPeekMessage(t)
  BY DEF UseMessages, MessageNext
<1>6. ASSUME NEW m \in Message, OSSendMessage(t, m) PROVE Deque!DequeNext
  <2>1. /\ messages' = [messages EXCEPT ![(first + used) % Size] = m]
        /\ used' = used + 1 /\ first' = first /\ UNCHANGED delivered
        /\ used \in 0 .. Size - 1
    BY <1>1, <1>6 DEF OSSendMessage, Put, Full
  <2>2. Held' = Append(Held, m)
    BY <1>1, <1>2, <2>1, RingSends, ZenonT(60)
  <2>3. Deque!Send(m)
    <3>1. Len(Held) < Size
      BY <1>1, <1>3, <2>1
    <3> QED BY <2>1, <2>2, <3>1 DEF Deque!Send, Held
  <2> QED BY <2>3 DEF Deque!DequeNext
<1>7. ASSUME NEW m \in Message, OSJamMessage(t, m) PROVE Deque!DequeNext
  <2>1. /\ messages' = [messages EXCEPT ![BeforeFirst] = m]
        /\ used' = used + 1 /\ first' = BeforeFirst /\ UNCHANGED delivered
        /\ used \in 0 .. Size - 1
    BY <1>1, <1>7 DEF OSJamMessage, Put, Full
  <2>2. BeforeFirst = Before(first)
    BY DEF BeforeFirst, Before
  <2>3. Held' = <<m>> \o Held
    <3> HIDE DEF Held
    <3> QED BY <1>1, <1>2, <2>1, <2>2, RingJams
  <2>4. Deque!Jam(m)
    <3>1. Len(Held) < Size
      BY <1>1, <1>3, <2>1
    <3> QED BY <2>1, <2>3, <3>1 DEF Deque!Jam, Held
  <2> QED BY <2>4 DEF Deque!DequeNext
<1>8. ASSUME OSReceiveMessage(t) PROVE Deque!DequeNext
  <2>1. /\ used # 0 /\ delivered' = messages[first] /\ first' = (first + 1) % Size
        /\ used' = used - 1 /\ UNCHANGED messages
    BY <1>8 DEF OSReceiveMessage
  <2>2. Held' = Tail(Held)
    <3>1. used \in 1 .. Size
      BY <1>1, <2>1
    <3> QED BY <1>1, <1>2, <2>1, <3>1, RingReceives
  <2>3. Deque!Receive
    BY <1>4, <2>1, <2>2 DEF Deque!Receive, Held
  <2> QED BY <2>3 DEF Deque!DequeNext
<1>9. ASSUME OSPeekMessage(t) PROVE Deque!DequeNext
  <2>1. used # 0 /\ delivered' = messages[first] /\ UNCHANGED <<messages, first, used>>
    BY <1>9 DEF OSPeekMessage
  <2>2. Held' = Held
    BY <1>2, <2>1
  <2>3. Deque!Peek
    BY <1>4, <2>1, <2>2 DEF Deque!Peek, Held
  <2> QED BY <2>3 DEF Deque!DequeNext
<1>10. ASSUME \/ \E m \in Message : SendSleeps(t, m, "send") \/ SendSleeps(t, m, "jam")
              \/ ReceiveSleeps(t)
       PROVE  UNCHANGED <<Held, delivered>>
  <2>1. UNCHANGED <<messages, first, used, delivered>>
    BY <1>10 DEF SendSleeps, ReceiveSleeps, messageVars
  <2> QED BY <1>2, <2>1
<1> QED BY <1>5, <1>6, <1>7, <1>8, <1>9, <1>10

(* Senders and receivers that sleep and wake as a herd, on a ring of any      *)
(* size, act as one bounded queue: what is received is what was sent, once    *)
(* each, in order, with jams ahead.                                           *)
THEOREM RingImplementsDeque == Spec => ImplementsDeque
<1>1. Init => Deque!DequeInit
  BY DEF Init, MessageInit, Deque!DequeInit
<1>2. SyncInv /\ [Next]_vars =>
         [Deque!DequeNext]_<<[i \in 1 .. used |-> messages[(first + i - 1) % Size]],
                            delivered>>
  <2> SUFFICES ASSUME SyncInv, [Next]_vars
               PROVE  Deque!DequeNext \/ UNCHANGED <<Held, delivered>>
    BY DEF Held
  <2>1. CASE UseMessages
    BY <2>1, RingStep
  <2>2. CASE UseMutex \/ UseSemaphore \/ UseEvent \/ Scheduler \/ UNCHANGED vars
    <3>1. UNCHANGED messageVars
      BY <2>2 DEF UseMutex, UseSemaphore, UseEvent, Scheduler, vars
    <3> QED BY <3>1 DEF Held, messageVars
  <2> QED BY <2>1, <2>2 DEF Next
<1> QED BY <1>1, <1>2, SyncInvariant, PTL DEF Spec, ImplementsDeque, Deque!DequeSpec

=============================================================================
