------------------------------ MODULE TraceRing ------------------------------
(* The ring of a thread's latest traces and the search of it for the writes  *)
(* of a register (trace.cpp), from the debugger's console, while the thread  *)
(* goes on when it is let go.                                                *)
EXTENDS Integers, Sequences, FiniteSets, FiniteSetsExt

CONSTANTS Slots,       \* the traces of traceInit
          GuestReg, NoRegister,
          MaxExecuted  \* bound: instructions traced

ASSUME TraceAssumption ==
    /\ NoRegister \notin GuestReg
    /\ Slots \in Nat \ {0} /\ MaxExecuted \in Nat

VARIABLES index, numTraces, traces,        \* the Tracer
          executed,       \* history: every instruction since the start
          gRegTraceState, \* traceRegStart was called
          gRegTraceIndex, gRegTraceNextReg,
          answer          \* history: the last search

traceVars == <<index, numTraces, traces, executed, gRegTraceState, gRegTraceIndex,
               gRegTraceNextReg, answer>>

Instruction == [reads : SUBSET GuestReg, writes : {{}} \cup {{r} : r \in GuestReg}]

NoAnswer == [reg |-> NoRegister, from |-> 0, oldest |-> 0, found |-> 0, next |-> FALSE,
             asserts |-> FALSE, ran |-> FALSE]

InitTrace ==
    /\ index = 0 /\ numTraces = 0
    /\ traces = [k \in 0 .. Slots - 1 |-> [reads |-> {}, writes |-> {}]]
    /\ executed = <<>>
    /\ gRegTraceState = FALSE /\ gRegTraceIndex = 0 /\ gRegTraceNextReg = NoRegister
    /\ answer = NoAnswer

traceInstruction ==
    /\ Len(executed) < MaxExecuted
    /\ \E i \in Instruction :
          /\ traces' = [traces EXCEPT ![index] = i]
          /\ executed' = Append(executed, i)
    /\ numTraces' = Min({numTraces + 1, Slots})
    /\ index' = (index + 1) % Slots
    /\ answer' = [answer EXCEPT !.ran = TRUE]
    /\ UNCHANGED <<gRegTraceState, gRegTraceIndex, gRegTraceNextReg>>

\* The trace of the instruction that was executed k before the last.
getTrace(k) == traces[(index - 1 - k) % numTraces]

MutantTraceReg(start, reg) ==
    LET hits == {k \in start .. numTraces - 1 : reg \in getTrace(k).writes}
    IN  IF hits = {} THEN -1 ELSE Max(hits)

\* traceReg: the first trace from start that writes reg, -1 for none; it
\* asserts that there is one at start.
traceReg(start, reg) ==
    LET hits == {k \in start .. numTraces - 1 : reg \in getTrace(k).writes}
    IN  IF hits = {} THEN -1 ELSE Min(hits)

\* The body of traceRegNext.  A trace that reads one register suggests it.
Search(start, reg, next) ==
    LET found == traceReg(start, reg)
        reads == getTrace(found).reads
    IN  /\ answer' = [reg |-> reg, from |-> Len(executed) - start,
                      oldest |-> Len(executed) - numTraces + 1,
                      found |-> IF found = -1 THEN 0 ELSE Len(executed) - found,
                      next |-> next, asserts |-> start >= numTraces, ran |-> FALSE]
        /\ gRegTraceIndex' = IF found = -1 THEN -1 ELSE found + 1
        /\ gRegTraceNextReg' =
              CASE found = -1 -> IF next THEN gRegTraceNextReg ELSE NoRegister
                [] found # -1 /\ Cardinality(reads) = 1 -> CHOOSE r \in reads : TRUE
                [] OTHER -> NoRegister

\* The console is gone once an assertion has failed.
Working == ~answer.asserts /\ UNCHANGED <<index, numTraces, traces, executed>>

\* Started with an index that the print of the traces has shown.
traceRegStart ==
    /\ Working
    /\ gRegTraceState' = TRUE
    /\ \E start \in 0 .. Slots - 1, reg \in GuestReg :
          start < numTraces /\ Search(start, reg, FALSE)

CanGoOn == Working /\ gRegTraceState /\ gRegTraceIndex >= 0 /\ UNCHANGED gRegTraceState

traceRegNext ==
    /\ CanGoOn
    /\ \E reg \in GuestReg : Search(gRegTraceIndex, reg, TRUE)

traceRegContinue ==
    /\ CanGoOn
    /\ gRegTraceNextReg # NoRegister
    /\ Search(gRegTraceIndex, gRegTraceNextReg, TRUE)

NextTrace == traceInstruction \/ traceRegStart \/ traceRegNext \/ traceRegContinue

SpecTrace == InitTrace /\ [][NextTrace]_traceVars

-----------------------------------------------------------------------------
(* Correctness.                                                              *)

\* The traces are the latest instructions, the last one first, wherever the
\* ring's index is (trace.cpp:113).
TracesInOrder ==
    /\ numTraces = Min({Len(executed), Slots})
    /\ \A k \in 0 .. numTraces - 1 : getTrace(k) = executed[Len(executed) - k]

\* A search finds the last instruction that wrote the register, at or before
\* the place it starts at and among those remembered, and it fails an
\* assertion only when the answer before it was the oldest (trace.cpp:478).
\* Of a thread that stands still the next search begins before the write that
\* was found: the chain of writes that led to a value ends (trace.cpp:544).
FindsLastWrite ==
    answer # NoAnswer /\ answer.reg # NoRegister =>
        LET writers == {p \in answer.oldest .. answer.from :
                           answer.reg \in executed[p].writes}
        IN  /\ answer.found = IF writers = {} THEN 0 ELSE Max(writers)
            /\ answer.asserts <=> answer.from < answer.oldest
            /\ answer.found > 0 /\ ~answer.ran =>
                   Len(executed) - gRegTraceIndex < answer.found

\* The ring remembers the latest instructions, and a search of it goes back to
\* the last one that wrote a register.
TraceTells == TracesInOrder /\ FindsLastWrite

=============================================================================
