----------------------------- MODULE FrameHeap -----------------------------
(* The frame heap (coreinit_frameheap.cpp): memory handed out from both     *)
(* ends, and given back by returning to a recorded state.  A state holds    *)
(* where the free memory begins and ends; the last one is the current one   *)
(* and moves with every allocation.  Every operation holds the heap's lock. *)
(* Unsigned differences are taken modulo Modulus.                           *)
EXTENDS Integers, FiniteSets, Sequences

CONSTANTS Base,         \* the address of the heap's memory
          Modulus,      \* 2^32, what addresses and sizes are taken modulo
          FrameUnits,   \* the units of the heap
          StateSize,    \* sizeof(FrameHeapState)
          FrameSizes, FrameAlignments, Tags,
          MaxFrames,    \* bound on the blocks in use
          MaxStates     \* bound on the recorded states

ASSUME FrameAssumption ==
    /\ Base \in Nat \ {0} /\ FrameUnits \in Nat \ {0}
    /\ Modulus \in Nat /\ Base + FrameUnits < Modulus
    /\ StateSize \in Nat \ {0} /\ FrameSizes \subseteq Nat
    /\ FrameAlignments \subseteq Nat \ {0}
    /\ MaxStates \in Nat

VARIABLES frames,       \* top, bottom, size and states (the chain of states)
          taken,        \* the blocks in use
          strayed       \* "no", or the branch of the code that spoils the heap

frameVars == <<frames, taken, strayed>>

Minus(a, b) == (a - b) % Modulus
State(tag, top, bottom) == [tag |-> tag, top |-> top, bottom |-> bottom]

MEMCreateFrmHeapEx ==
    LET top == Base + FrameUnits
    IN  [top |-> top, bottom |-> Base, size |-> FrameUnits,
         states |-> <<State(0, top, Base)>>]

Depth(h) == Len(h.states)
Current(h) == h.states[Depth(h)]
WithCurrent(h, s) == [h EXCEPT !.states[Depth(h)] = s]

AlignUp(value, alignment) == ((value + alignment - 1) \div alignment) * alignment

Fits(s, size) == Minus(s.top, s.bottom) >= size

\* The size is rounded up to the alignment, the offset is rounded up without
\* taking more: a block whose end was not aligned reaches into the next.
MEMAllocFromFrmHeapEx(h, requested, alignment, fromTop) ==
    LET size == AlignUp(requested, alignment)
        s == Current(h)
        offset == IF fromTop THEN s.top - size ELSE s.bottom
        moved == IF fromTop THEN [s EXCEPT !.top = offset]
                 ELSE [s EXCEPT !.bottom = @ + size]
    IN  IF ~Fits(s, size)
        THEN [heap |-> h, data |-> 0, strayed |-> "no"]
        ELSE [heap |-> WithCurrent(h, moved), data |-> AlignUp(offset, alignment),
              strayed |-> IF offset % alignment # 0 THEN "unaligned"
                          ELSE IF s.top < s.bottom THEN "adjusted" ELSE "no"]

MutantPrevious(h) == State(0, h.top, h.bottom)

Previous(h) == IF Depth(h) > 1 THEN h.states[Depth(h) - 1]
               ELSE State(0, h.top, h.bottom)

MEMFreeToFrmHeap(h, mode) ==
    LET s == Current(h)
        p == Previous(h)
        top == IF "Top" \in mode THEN p.top ELSE s.top
        bottom == IF "Bottom" \in mode THEN p.bottom ELSE s.bottom
    IN  WithCurrent(h, State(s.tag, top, bottom))

\* The new state is itself a block, at the bottom.
MEMRecordStateForFrmHeap(h, tag) ==
    LET r == MEMAllocFromFrmHeapEx(h, StateSize, 1, FALSE)
        s == Current(r.heap)
    IN  IF r.data = 0 THEN r
        ELSE [r EXCEPT !.heap.states = Append(@, State(tag, s.top, s.bottom))]

\* Without a tag, the state before the current one; with one, the latest
\* that has it, current again as it was left.
MEMFreeByStateToFrmHeap(h, tag) ==
    LET tagged == {n \in 1 .. Depth(h) : h.states[n].tag = tag}
        latest == CHOOSE n \in tagged : \A m \in tagged : m <= n
        n == IF tag = 0 THEN Depth(h) - 1
             ELSE IF tagged = {} THEN 0 ELSE latest
    IN  IF n = 0 THEN h ELSE [h EXCEPT !.states = SubSeq(@, 1, n)]

\* The heap shrinks to where its memory began, over what is in use.
MEMAdjustFrmHeap(h) ==
    IF Current(h).top # h.top THEN h
    ELSE [WithCurrent(h, [Current(h) EXCEPT !.top = h.bottom])
             EXCEPT !.top = h.bottom, !.size = h.bottom - Base]

\* Only the address where the free memory begins is taken for a block.
MEMResizeForMBlockFrmHeap(h, addr, size) ==
    LET s == Current(h)
    IN  IF addr # s.bottom \/ ~Fits(s, size) THEN h
        ELSE WithCurrent(h, [s EXCEPT !.bottom = @ + size])

MEMGetAllocatableSizeForFrmHeapEx(h, alignment) ==
    LET s == Current(h)
    IN  Minus((s.top \div alignment) * alignment, AlignUp(s.bottom, alignment))

-----------------------------------------------------------------------------
(* A client, which stops when the heap is spoiled.  A block belongs to the  *)
(* state that was current when it was allocated.                            *)

InitFrames == frames = MEMCreateFrmHeapEx /\ taken = {} /\ strayed = "no"

Block(first, size, depth, fromTop) ==
    [first |-> first, size |-> size, depth |-> depth, fromTop |-> fromTop]

AllocFrame ==
    /\ strayed = "no" /\ Cardinality(taken) < MaxFrames
    /\ \E size \in FrameSizes, alignment \in FrameAlignments, fromTop \in BOOLEAN :
         LET r == MEMAllocFromFrmHeapEx(frames, size, alignment, fromTop)
         IN  /\ frames' = r.heap
             /\ strayed' = r.strayed
             /\ taken' = IF r.data = 0 THEN taken
                         ELSE taken \cup {Block(r.data, size, Depth(frames), fromTop)}

FreeFrames ==
    /\ strayed = "no"
    /\ \E mode \in SUBSET {"Top", "Bottom"} \ {{}} :
         /\ frames' = MEMFreeToFrmHeap(frames, mode)
         /\ taken' = {b \in taken :
               b.depth = Depth(frames) =>
                  (IF b.fromTop THEN "Top" ELSE "Bottom") \notin mode}
    /\ UNCHANGED strayed

RecordState ==
    /\ strayed = "no" /\ Depth(frames) <= MaxStates
    /\ \E tag \in Tags :
         LET r == MEMRecordStateForFrmHeap(frames, tag)
         IN  /\ frames' = r.heap
             /\ strayed' = r.strayed
             /\ taken' = IF r.data = 0 THEN taken
                         ELSE taken \cup
                              {Block(r.data, StateSize, Depth(frames), FALSE)}

\* The record of a state stays in use as long as the state before it.
FreeByState ==
    /\ strayed = "no"
    /\ \E tag \in Tags \cup {0} :
         /\ frames' = MEMFreeByStateToFrmHeap(frames, tag)
         /\ taken' = {b \in taken : b.depth <= Depth(frames')}
    /\ UNCHANGED strayed

\* A program that adjusts a heap that is in use has lost it.
AdjustFrames ==
    /\ strayed = "no"
    /\ frames' = MEMAdjustFrmHeap(frames)
    /\ strayed' = IF Current(frames').top < Current(frames').bottom
                  THEN "adjusted" ELSE "no"
    /\ UNCHANGED taken

ResizeFrame ==
    /\ strayed = "no" /\ Cardinality(taken) < MaxFrames
    /\ \E size \in FrameSizes :
         LET at == Current(frames).bottom
         IN  /\ frames' = MEMResizeForMBlockFrmHeap(frames, at, size)
             /\ taken' = IF frames' = frames THEN taken
                         ELSE taken \cup {Block(at, size, Depth(frames), FALSE)}
    /\ UNCHANGED strayed

NextFrames == AllocFrame \/ FreeFrames \/ RecordState \/ FreeByState
              \/ AdjustFrames \/ ResizeFrame

SpecFrames == InitFrames /\ [][NextFrames]_frameVars

-----------------------------------------------------------------------------
UnitsOf(b) == b.first .. b.first + b.size - 1

\* Blocks in use, those that hold the recorded states among them, have no
\* unit in common and none with the memory the current state is free to give
\* away, whatever states were recorded and returned to, until a block was not
\* aligned or the heap was adjusted while in use.
FramesDisjoint ==
    strayed = "no" =>
        /\ \A b, c \in taken : b # c => UnitsOf(b) \cap UnitsOf(c) = {}
        /\ \A b \in taken :
              UnitsOf(b) \cap (Current(frames).bottom .. Current(frames).top - 1) = {}
        /\ \A b \in taken : UnitsOf(b) \subseteq Base .. Base + FrameUnits - 1

\* What the heap says can be allocated can be, and not more than is free,
\* unless no aligned address is in the free memory (the difference is then
\* below zero).
FrameAllocatable ==
    strayed = "no" =>
        \A alignment \in FrameAlignments :
            LET s == Current(frames)
                n == MEMGetAllocatableSizeForFrmHeapEx(frames, alignment)
            IN  AlignUp(s.bottom, alignment) <= (s.top \div alignment) * alignment
                => /\ n <= s.top - s.bottom
                   /\ MEMAllocFromFrmHeapEx(frames, n, alignment, FALSE).data # 0

\* The free memory of each recorded state lies within that of the one before.
StatesNest ==
    strayed = "no" =>
        \A n \in 2 .. Depth(frames) :
            /\ frames.states[n].bottom >= frames.states[n - 1].bottom
            /\ frames.states[n].top <= frames.states[n - 1].top

\* A frame heap grows from both ends without their meeting, back to the states
\* that were recorded, and as far as it says.
FramesNest == StatesNest /\ FramesDisjoint /\ FrameAllocatable

=============================================================================
