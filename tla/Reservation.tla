---------------------------- MODULE Reservation ----------------------------
(* lwarx and stwcx. as the interpreter executes them                        *)
(* (interpreter_loadstore.cpp), by guest threads that each add one to a     *)
(* word of memory: load and reserve, add, store if reserved, branch back if *)
(* the store did not happen.  Threads of one core change places between     *)
(* instructions only; those of different cores at every access to memory.   *)
(* The reservation belongs to the guest thread and no other's store clears  *)
(* it: stwcx. compares the word with the one that was loaded.               *)
EXTENDS Integers, FiniteSets

CONSTANTS Adder,        \* the guest threads
          CoreOf,       \* the core each runs on
          Rounds        \* bound on the additions of each

ASSUME AdderAssumption == IsFiniteSet(Adder) /\ Rounds \in Nat \ {0}

VARIABLES word,         \* the word in memory
          at,           \* the instruction each thread is at
          regs,         \* r, and reserve and reserveData of its state
          added,        \* the additions each has seen succeed
          crossed       \* the stores made while a thread of another core stood
                        \* between the comparison and the store of its stwcx.

reservationVars == <<word, at, regs, added, crossed>>

InitReservation == /\ word = 0
        /\ at = [t \in Adder |-> "lwarx"]
        /\ regs = [t \in Adder |-> [r |-> 0, reserve |-> FALSE, data |-> 0]]
        /\ added = [t \in Adder |-> 0]
        /\ crossed = 0

\* A core finishes the instruction it is in before it runs another thread.
MayRun(t) == \A u \in Adder \ {t} : CoreOf[u] = CoreOf[t] => at[u] # "write"

lwarx(t) ==
    /\ at[t] = "lwarx" /\ MayRun(t) /\ added[t] < Rounds
    /\ regs' = [regs EXCEPT ![t] = [r |-> word, reserve |-> TRUE, data |-> word]]
    /\ at' = [at EXCEPT ![t] = "addi"]
    /\ UNCHANGED <<word, added, crossed>>

addi(t) ==
    /\ at[t] = "addi" /\ MayRun(t)
    /\ regs' = [regs EXCEPT ![t].r = @ + 1]
    /\ at' = [at EXCEPT ![t] = "stwcx"]
    /\ UNCHANGED <<word, added, crossed>>

MutantReserved(t) == regs[t].reserve

Reserved(t) == regs[t].reserve /\ word = regs[t].data

\* The comparison with the reserved word.
stwcx(t) ==
    /\ at[t] = "stwcx" /\ MayRun(t)
    /\ regs' = [regs EXCEPT ![t].reserve = FALSE]
    /\ at' = [at EXCEPT ![t] = IF Reserved(t) THEN "write" ELSE "lwarx"]
    /\ UNCHANGED <<word, added, crossed>>

Crosses(t) == \E u \in Adder : CoreOf[u] # CoreOf[t] /\ at[u] = "write"

\* The store that it lets through, whatever the word has become by now.
Write(t) ==
    /\ at[t] = "write"
    /\ word' = regs[t].r
    /\ added' = [added EXCEPT ![t] = @ + 1]
    /\ at' = [at EXCEPT ![t] = "lwarx"]
    /\ crossed' = IF Crosses(t) THEN crossed + 1 ELSE crossed
    /\ UNCHANGED regs

NextReservation == \E t \in Adder : lwarx(t) \/ addi(t) \/ stwcx(t) \/ Write(t)

SpecReservation == InitReservation /\ [][NextReservation]_reservationVars

-----------------------------------------------------------------------------
\* The n-th addition of t, for each that succeeded.
Additions == UNION {{t} \X (1 .. added[t]) : t \in Adder}

\* The word never counts more than the additions that stwcx. reported as done,
\* and falls short of them by no more than the stores that were made while a
\* thread of another core stood between its comparison and its store: each of
\* those can be overwritten by one who has not seen it.  Between threads of one
\* core no addition is lost.
NoLostAddition ==
    /\ word =< Cardinality(Additions)
    /\ Cardinality(Additions) =< word + crossed

=============================================================================
