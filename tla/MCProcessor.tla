---------------------------- MODULE MCProcessor ----------------------------
(* Small instances of Processor for TLC. *)
EXTENDS Processor

CONSTANTS c1, c2, i1, i2, main, g2, g3

\* Two cores, each with its interrupt thread.
Core2 == {c1, c2}
Interrupt2 == c1 :> i1 @@ c2 :> i2

Guest2 == {main, g2}
Guest3 == {main, g2, g3}

\* Interrupt and default threads are created with the affinity of their core.
PinnedApart == [t \in Thread |-> IF t \in {i2, g2} THEN {c2} ELSE {c1}]

\* AffinityAny for the game's threads.
Anywhere == [t \in Thread |-> IF t \in Guest THEN Core
                              ELSE {c \in Core : InterruptThread[c] = t}]

\* The loader creates its threads with priority 16.
SamePriority == [t \in Thread |-> 16]
\* The game creates g2 with a better one.
G2Better == [t \in Thread |-> IF t = g2 THEN 15 ELSE 16]

=============================================================================
