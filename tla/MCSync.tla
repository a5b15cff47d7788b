------------------------------- MODULE MCSync -------------------------------
(* Small instances of Sync for TLC. *)
EXTENDS Sync

CONSTANTS t1, t2, t3, m1, m2

Thread3 == {t1, t2, t3}
Queues == {"mutex", "cond", "semaphore", "send", "receive", "event"}

\* One thread has the best priority, 0, the others the default of 16.
OneUrgent == [t \in Thread |-> IF t = t1 THEN 0 ELSE 16]

\* Locks with a semaphore, which share every thread's link, and the rest.
Together == {{"mutex", "semaphore"}, {"messages"}, {"event", "semaphore"}}

=============================================================================
