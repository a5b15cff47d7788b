------------------------------ MODULE MCKernel ------------------------------
(* Small instances of Kernel for TLC.                                       *)
EXTENDS Kernel, TLC

CONSTANTS t1, t2, t3, a1, a2, c0, c1

SamePriority == [t \in Thread |-> 0]
\* One thread has the best priority, 0, the others the default of 16.
OneUrgent == [t \in Thread |-> IF t = t1 THEN 0 ELSE 16]
MCJoinQueue == (t1 :> "join 1") @@ (t2 :> "join 2") @@ (t3 :> "join 3")
MCSuspendQueue == (t1 :> "suspend 1") @@ (t2 :> "suspend 2") @@ (t3 :> "suspend 3")
Queues == LifeQueue \cup {"event"}
\* t1 may run on both cores, t2 on the second one only.
MCAffinity == (t1 :> {c0, c1}) @@ (t2 :> {c1})
MCHomeCore == (t1 :> c0) @@ (t2 :> c1)

=============================================================================
