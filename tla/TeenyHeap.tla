----------------------------- MODULE TeenyHeap -----------------------------
(* The host's allocator of guest memory (teenyheap.h), behind               *)
(* OSAllocFromSystem: a list of free ranges in no order, and the size of    *)
(* each allocation.  An assertion that fails is a call no client makes.     *)
EXTENDS Integers, FiniteSets, Sequences, SequencesExt

CONSTANTS TeenyUnits, TeenySizes, TeenyAlignments,
          MaxAllocs     \* bound on the allocations

ASSUME TeenyAssumption == TeenyUnits > 0 /\ MaxAllocs > 0

VARIABLES teeny,        \* free (a sequence of ranges) and sizes
          overrun       \* a range was taken that ends before its aligned start

teenyVars == <<teeny, overrun>>

Range_(start, end) == [start |-> start, end |-> end]
Create == [free |-> <<Range_(0, TeenyUnits)>>, sizes |-> [p \in {} |-> 0]]
AlignedUp(value, alignment) == ((value + alignment - 1) \div alignment) * alignment

\* The difference is compared as an unsigned number: it is large when the
\* range ends before its aligned start.
LargeEnough(r, size, alignment) ==
    LET room == r.end - AlignedUp(r.start, alignment)
    IN  room < 0 \/ room >= size

\* The first range large enough loses its beginning and stays in the list
\* when nothing is left of it; what alignment skips is a range of its own.
alloc(h, size, alignment) ==
    LET large == {n \in DOMAIN h.free : LargeEnough(h.free[n], size, alignment)}
        n == CHOOSE n \in large : \A m \in large : n <= m
        r == h.free[n]
        start == AlignedUp(r.start, alignment)
        shrunk == [h.free EXCEPT ![n].start = start + size]
        free == IF start > r.start THEN Append(shrunk, Range_(r.start, start))
                ELSE shrunk
    IN  IF large = {} THEN [heap |-> h, data |-> -1, overrun |-> FALSE]
        ELSE [heap |-> [free |-> free,
                        sizes |-> [p \in DOMAIN h.sizes \cup {start} |->
                                    IF p \in DOMAIN h.sizes THEN h.sizes[p]
                                    ELSE size]],
              data |-> start, overrun |-> start > r.end]

MutantReleaseBlock(free, range) == Append(free, range)

\* The range joins the first that touches it, as often as there is one.
RECURSIVE releaseBlock(_, _)
releaseBlock(free, range) ==
    LET touching == {n \in DOMAIN free : \/ free[n].end = range.start
                                         \/ range.end = free[n].start}
        n == CHOOSE n \in touching : \A m \in touching : n <= m
        joined == IF free[n].end = range.start
                  THEN Range_(free[n].start, range.end)
                  ELSE Range_(range.start, free[n].end)
    IN  IF touching = {} THEN Append(free, range)
        ELSE releaseBlock(RemoveAt(free, n), joined)

free(h, p) ==
    [free |-> releaseBlock(h.free, Range_(p, p + h.sizes[p])),
     sizes |-> [q \in DOMAIN h.sizes \ {p} |-> h.sizes[q]]]

\* Shrinking only.
realloc(h, p, size) ==
    IF size = h.sizes[p] THEN h
    ELSE [free |-> releaseBlock(h.free, Range_(p + size, p + h.sizes[p])),
          sizes |-> [h.sizes EXCEPT ![p] = size]]

-----------------------------------------------------------------------------
InitTeeny == teeny = Create /\ overrun = FALSE

AllocTeeny ==
    /\ ~overrun /\ Cardinality(DOMAIN teeny.sizes) < MaxAllocs
    /\ \E size \in TeenySizes, alignment \in TeenyAlignments :
         LET r == alloc(teeny, size, alignment)
         IN  teeny' = r.heap /\ overrun' = r.overrun

FreeTeeny ==
    /\ ~overrun
    /\ \E p \in DOMAIN teeny.sizes : teeny' = free(teeny, p)
    /\ UNCHANGED overrun

ReallocTeeny ==
    /\ ~overrun
    /\ \E p \in DOMAIN teeny.sizes, size \in TeenySizes :
          size <= teeny.sizes[p] /\ teeny' = realloc(teeny, p, size)
    /\ UNCHANGED overrun

NextTeeny == AllocTeeny \/ FreeTeeny \/ ReallocTeeny

SpecTeeny == InitTeeny /\ [][NextTeeny]_teenyVars

-----------------------------------------------------------------------------
AllocRange(p) == p .. p + teeny.sizes[p] - 1
FreeRange(n) == teeny.free[n].start .. teeny.free[n].end - 1

\* Every unit of the heap belongs to exactly one allocation or one free
\* range, until a range was taken that ends before its aligned start.
UnitsPartitioned ==
    ~overrun =>
        \A u \in 0 .. TeenyUnits - 1 :
            Cardinality({p \in DOMAIN teeny.sizes : u \in AllocRange(p)})
            + Cardinality({n \in DOMAIN teeny.free : u \in FreeRange(n)}) = 1

\* When everything was freed the whole heap can be allocated again, though
\* its ranges were never sorted: they have all joined.
FreedWhole ==
    ~overrun /\ DOMAIN teeny.sizes = {} =>
        \E n \in DOMAIN teeny.free : FreeRange(n) = 0 .. TeenyUnits - 1

=============================================================================
