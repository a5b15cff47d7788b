------------------------------ MODULE SpinLock ------------------------------
(* OSSpinLock: coreinit_spinlock.cpp.  The word `owner' is atomic, and      *)
(* `recursion' is not; callers run on different cores.                      *)
EXTENDS Integers

CONSTANTS Caller,       \* threads that use the lock
          NoOwner,      \* an owner of 0
          MaxRecursion  \* bound on nested acquisitions

ASSUME SpinLockAssumption == NoOwner \notin Caller /\ MaxRecursion \in Nat

VARIABLES
    owner,      \* OSSpinLock::owner
    recursion,  \* OSSpinLock::recursion
    depth,      \* how many acquisitions each caller has not released
    spin,       \* "guest", or the place of each caller in the code
    strayed     \* history: a caller released a lock it did not hold

spinVars == <<owner, recursion, depth, spin, strayed>>

SpinInit ==
    /\ owner = NoOwner /\ recursion = 0
    /\ depth = [t \in Caller |-> 0]
    /\ spin = [t \in Caller |-> "guest"]
    /\ strayed = FALSE

Moves(t, p) == spin' = [spin EXCEPT ![t] = p]
Deeper(t) == depth' = [depth EXCEPT ![t] = @ + 1]

\* OSAcquireSpinLock and OSUninterruptibleSpinLock_Acquire of the owner ...
AcquireAgain(t) ==
    /\ spin[t] = "guest" /\ owner = t /\ depth[t] =< MaxRecursion
    /\ recursion' = recursion + 1
    /\ Deeper(t)
    /\ UNCHANGED <<owner, spin, strayed>>

\* ... and of another, which is not the owner until it makes itself the owner.
BeginSpin(t) ==
    /\ spin[t] = "guest" /\ owner # t
    /\ Moves(t, "spinning")
    /\ UNCHANGED <<owner, recursion, depth, strayed>>

\* Mutant: the lock is taken whoever has it.
SwapAnyway(t) == owner' = t

\* compare_exchange_weak(0, t) that succeeds.
CompareExchange(t) ==
    /\ owner = NoOwner
    /\ owner' = t

Acquired(t) ==
    /\ spin[t] = "spinning"
    /\ CompareExchange(t)
    /\ Deeper(t)
    /\ Moves(t, "guest")
    /\ UNCHANGED <<recursion, strayed>>

\* OSTryAcquireSpinLock fails when the lock is another's, and may fail when
\* it is nobody's: the exchange is a weak one.
TryFails(t) ==
    /\ spin[t] = "spinning"
    /\ Moves(t, "guest")
    /\ UNCHANGED <<owner, recursion, depth, strayed>>

\* spinReleaseLock of a lock taken more than once: recursion is lowered,
\* whoever calls.  A caller that holds nothing lowers the owner's.
ReleaseOnce(t) ==
    /\ spin[t] = "guest" /\ recursion > 0
    /\ recursion' = recursion - 1
    /\ depth' = [depth EXCEPT ![t] = IF @ > 0 THEN @ - 1 ELSE 0]
    /\ strayed' = (strayed \/ owner # t)
    /\ UNCHANGED <<owner, spin>>

\* spinReleaseLock by the owner, the last time.
Release(t) ==
    /\ spin[t] = "guest" /\ recursion = 0 /\ owner = t
    /\ owner' = NoOwner
    /\ depth' = [depth EXCEPT ![t] = IF @ > 0 THEN @ - 1 ELSE 0]
    /\ UNCHANGED <<recursion, spin, strayed>>

SpinNext ==
    \E t \in Caller :
        \/ AcquireAgain(t) \/ BeginSpin(t) \/ Acquired(t) \/ TryFails(t)
        \/ ReleaseOnce(t) \/ Release(t)

-----------------------------------------------------------------------------
(* Properties *)

\* One caller at a time is between an acquisition and its release, and the
\* lock knows how often it is; until somebody releases a lock it does not
\* hold, which ends an acquisition of the owner.
SpinExclusion ==
    ~strayed => \A t \in Caller :
        depth[t] = IF owner = t THEN recursion + 1 ELSE 0

=============================================================================
