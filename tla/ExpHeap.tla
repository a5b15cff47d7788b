------------------------------ MODULE ExpHeap ------------------------------
(* The expanded heap (coreinit_expheap.cpp): a list of free blocks and one  *)
(* of used blocks, both in the order of their addresses, whose headers lie  *)
(* in the heap itself and outlive the blocks.  Every operation holds the    *)
(* heap's spin lock.  Addresses count units of four bytes; a header that is *)
(* written over a part of another one is a branch that path names, unless   *)
(* nothing reads the other one any more.  A heap h is a record: free, used  *)
(* (the heads), hdr (the header at each address), size, mode and group.     *)
EXTENDS Integers, FiniteSets, Sequences

CONSTANTS HeapUnits,    \* the units of the heap
          HeaderSize,   \* sizeof(ExpandedHeapBlock)
          AllocSizes, Alignments,
          MaxLive       \* bound on the blocks in use

ASSUME HeapAssumption == HeapUnits > HeaderSize /\ HeaderSize > 0 /\ MaxLive > 0

VARIABLES heap,
          live,         \* the blocks in use: data address and size
          path          \* "sound", or the branch of the code that spoiled it

heapVars == <<heap, live, path>>

Null == 0
Bottom == 1
Top == Bottom + HeapUnits
minimumBlockSize == HeaderSize + 1
NoHeader == [addr |-> Null, size |-> 0, next |-> Null, prev |-> Null]

Chain(h, start, link) ==
    LET follow[b \in 0 .. Top, n \in 0 .. HeapUnits] ==
            IF b = Null \/ n = 0 THEN <<>>
            ELSE <<b>> \o follow[h.hdr[b][link], n - 1]
    IN  follow[start, HeapUnits]
Blocks(h, list) == Chain(h, h[list], "next")
Elements(s) == {s[n] : n \in DOMAIN s}
getTail(h, list) == LET s == Blocks(h, list)
                    IN  IF s = <<>> THEN Null ELSE s[Len(s)]
findBlock(h, list, addr) ==
    LET found == {b \in Elements(Blocks(h, list)) : h.hdr[b].addr = addr}
    IN  IF found = {} THEN Null ELSE CHOOSE b \in found : TRUE

Link(h, b, field, value) ==
    IF b = Null THEN h ELSE [h EXCEPT !.hdr[b][field] = value]

\* The block after an erased head keeps its prev.
eraseBlock(h, list, b) ==
    LET old == h.hdr[b]
    IN  IF b = h[list] THEN [h EXCEPT ![list] = old.next]
        ELSE Link(Link(h, old.prev, "next", old.next), old.next, "prev", old.prev)

insertBlock(h, list, b) ==
    LET s == Blocks(h, list)
        below == {n \in DOMAIN s :
                    \A m \in 1 .. n : h.hdr[s[m]].addr < h.hdr[b].addr}
        after == IF below = {} THEN Null ELSE s[Cardinality(below)]
        next == IF after = Null THEN h[list] ELSE h.hdr[after].next
        linked == Link(Link(Link(h, b, "next", next), b, "prev", after),
                       next, "prev", b)
    IN  IF after = Null THEN [linked EXCEPT ![list] = b]
        ELSE Link(linked, after, "next", b)

replaceBlock(h, list, old, b) ==
    IF old = Null THEN insertBlock(h, list, b)
    ELSE LET o == h.hdr[old]
             headed == IF h[list] = old THEN [h EXCEPT ![list] = b]
                       ELSE Link(h, o.prev, "next", b)
             linked == Link(headed, o.next, "prev", b)
         IN  Link(Link(linked, b, "next", o.next), b, "prev", o.prev)

WithHeader(h, b, addr, size) ==
    [h EXCEPT !.hdr[b].addr = addr, !.hdr[b].size = size]

MEMCreateExpHeapEx ==
    [free |-> Bottom, used |-> Null, size |-> HeapUnits, mode |-> "FirstFree",
     hdr |-> [b \in Bottom .. Top - 1 |->
                IF b = Bottom
                THEN [addr |-> Bottom, size |-> HeapUnits, next |-> Null,
                      prev |-> Null]
                ELSE NoHeader]]

-----------------------------------------------------------------------------
(* Allocation.                                                              *)

\* From the top the list is walked back from its tail, past the head when
\* that has a prev.
Walk(h, fromTop) == IF fromTop THEN Chain(h, getTail(h, "free"), "prev")
                    ELSE Blocks(h, "free")

freeBlockFor(h, size, fromTop) ==
    LET s == Walk(h, fromTop)
        large == {n \in DOMAIN s : h.hdr[s[n]].size >= size}
        best == IF h.mode = "FirstFree" THEN large
                ELSE {n \in large : \A m \in large :
                        h.hdr[s[n]].size <= h.hdr[s[m]].size}
    IN  IF best = {} THEN Null
        ELSE s[CHOOSE n \in best : \A m \in best : n <= m]

alignUp(value, alignment) == ((value + alignment - 1) \div alignment) * alignment

Needed(requested, alignment) == requested + HeaderSize + alignment

\* What is left of the free block when it is large enough for a header; else
\* it goes to the used block, whose base does not move down with it.
LeftOf(h, block, base, size, rest, fromTop) ==
    IF rest < minimumBlockSize THEN eraseBlock(h, "free", block)
    ELSE IF fromTop THEN h
    ELSE replaceBlock(WithHeader(h, base + size, base + size, rest), "free", block, base + size)

Used(h, block, base, rest, size, alignment, fromTop) ==
    LET absorbed == rest < minimumBlockSize
        aligned == alignUp(base + HeaderSize, alignment)
        usedBlock == aligned - HeaderSize
    IN  [heap |-> insertBlock(
                    WithHeader(LeftOf([h EXCEPT !.hdr[block].size = rest], block, base, size,
                                      rest, fromTop),
                               usedBlock, base, IF absorbed THEN size + rest ELSE size),
                    "used", usedBlock),
         data |-> aligned,
         path |-> CASE block \notin Elements(Blocks(h, "free")) -> "stale prev"
                    [] fromTop /\ absorbed /\ rest > 0 -> "absorbed above"
                    [] OTHER -> "sound"]

UsedFrom(h, block, size, alignment, fromTop) ==
    LET rest == h.hdr[block].size - size
        base == h.hdr[block].addr + (IF fromTop THEN rest ELSE 0)
    IN  IF block = Null THEN [heap |-> h, data |-> Null, path |-> "sound"]
        ELSE Used(h, block, base, rest, size, alignment, fromTop)

MEMAllocFromExpHeapEx(h, requested, alignment, fromTop) ==
    LET size == Needed(requested, alignment)
    IN  UsedFrom(h, freeBlockFor(h, size, fromTop), size, alignment, fromTop)

MutantFreeToExpHeap(h, data) ==
    LET b == h.hdr[data - HeaderSize]
    IN  insertBlock(WithHeader(eraseBlock(h, "used", data - HeaderSize), b.addr,
                               b.addr, b.size), "free", b.addr)

EndOf(h, b) == h.hdr[b].addr + h.hdr[b].size

Absorb(h, b, n) == eraseBlock([h EXCEPT !.hdr[b].size = @ + h.hdr[n].size], "free", n)

MergeNext(h, b) ==
    LET next == h.hdr[b].next
    IN  IF next # Null /\ h.hdr[next].addr = EndOf(h, b) THEN Absorb(h, b, next) ELSE h

MergePrev(h, b) ==
    LET prev == h.hdr[b].prev
    IN  IF prev # Null /\ b = EndOf(h, prev) THEN Absorb(h, prev, b) ELSE h

MEMFreeToExpHeap(h, data) ==
    LET b == h.hdr[data - HeaderSize]
        erased == eraseBlock(h, "used", data - HeaderSize)
        freed == insertBlock(WithHeader(erased, b.addr, b.addr, b.size), "free", b.addr)
    IN  MergePrev(MergeNext(freed, b.addr), b.addr)

\* A block that takes the whole free block after it gets that one's size; a
\* block that shrinks leaves a free block however small, since the comparison
\* with minimumBlockSize is unsigned.  A block that grows by less than a header
\* has the header of what is left of the free block written over that block's
\* own, whose links replaceBlock reads only then: they are garbage, and where
\* they lead is left out.
MEMResizeForMBlockExpHeap(h, data, size) ==
    LET block == data - HeaderSize
        b == h.hdr[block]
        next == findBlock(h, "free", b.addr + b.size)
        dif == size - (b.addr + b.size - data)
        nextSize == IF next = Null THEN 0 ELSE h.hdr[next].size
        absorbs == dif > 0 /\ nextSize - dif < minimumBlockSize
        newSize == IF absorbs THEN nextSize ELSE b.size + dif
        at == b.addr + newSize
        freed == IF absorbs THEN eraseBlock(h, "free", next)
                 ELSE replaceBlock(WithHeader(h, at, at, nextSize - dif),
                                   "free", next, at)
        overwrites == dif > 0 /\ ~absorbs /\ at < next + HeaderSize
    IN  IF dif = 0 THEN [heap |-> h, result |-> size, path |-> "sound"]
        ELSE IF dif > 0 /\ (next = Null \/ nextSize < dif)
        THEN [heap |-> h, result |-> 0, path |-> "sound"]
        ELSE IF overwrites THEN [heap |-> h, result |-> size, path |-> "overwritten links"]
        ELSE [heap |-> [freed EXCEPT !.hdr[block].size = newSize],
              result |-> size,
              path |-> CASE absorbs -> "absorbed after"
                         [] nextSize - dif < minimumBlockSize -> "tiny free block"
                         [] OTHER -> "sound"]

MEMAdjustExpHeap(h) ==
    LET last == getTail(h, "free")
    IN  IF last = Null THEN h
        ELSE eraseBlock([h EXCEPT !.size = @ - h.hdr[last].size], "free", last)

SumOf(h, list) ==
    LET s == Blocks(h, list)
        total[n \in 0 .. Len(s)] ==
            IF n = 0 THEN 0 ELSE total[n - 1] + h.hdr[s[n]].size
    IN  total[Len(s)]

MEMGetTotalFreeSizeForExpHeap(h) == SumOf(h, "free")

MEMGetAllocatableSizeForExpHeapEx(h, alignment) ==
    LET sizes == {0} \cup {h.hdr[b].size : b \in Elements(Blocks(h, "free"))}
        largest == CHOOSE n \in sizes : \A m \in sizes : m <= n
    IN  IF largest < HeaderSize + alignment THEN 0
        ELSE largest - HeaderSize - alignment

-----------------------------------------------------------------------------
(* A client of the heap.  After a branch that spoils the heap it stops.     *)

\* The headers that no list leads to, forwards or backwards, are not read any
\* more.
Forgotten(h) ==
    LET known == Elements(Blocks(h, "used")) \cup Elements(Blocks(h, "free"))
                    \cup Elements(Walk(h, TRUE))
    IN  [h EXCEPT !.hdr = [b \in DOMAIN @ |->
            IF b \notin known THEN NoHeader
            ELSE IF b = h.used THEN [@[b] EXCEPT !.prev = Null] ELSE @[b]]]

InitHeap == heap = MEMCreateExpHeapEx /\ live = {} /\ path = "sound"

Allocate ==
    /\ path = "sound" /\ Cardinality(live) < MaxLive
    /\ \E size \in AllocSizes, alignment \in Alignments, fromTop \in BOOLEAN :
         \E r \in {MEMAllocFromExpHeapEx(heap, size, alignment, fromTop)} :
            /\ heap' = Forgotten(r.heap)
            /\ path' = r.path
            /\ live' = IF r.data = Null THEN live
                       ELSE live \cup {[data |-> r.data, size |-> size]}

FreeBlock ==
    /\ path = "sound"
    /\ \E b \in live : /\ heap' = Forgotten(MEMFreeToExpHeap(heap, b.data))
                       /\ live' = live \ {b}
    /\ UNCHANGED path

Resize ==
    /\ path = "sound"
    /\ \E b \in live, size \in AllocSizes :
         LET r == MEMResizeForMBlockExpHeap(heap, b.data, size)
         IN  /\ heap' = Forgotten(r.heap)
             /\ path' = r.path
             /\ live' = IF r.result = 0 THEN live
                        ELSE (live \ {b}) \cup {[b EXCEPT !.size = size]}

SetMode ==
    /\ path = "sound"
    /\ \E mode \in {"FirstFree", "NearestSize"} : heap' = [heap EXCEPT !.mode = mode]
    /\ UNCHANGED <<live, path>>

Adjust ==
    /\ path = "sound"
    /\ heap' = Forgotten(MEMAdjustExpHeap(heap))
    /\ UNCHANGED <<live, path>>

NextHeap == Allocate \/ FreeBlock \/ Resize \/ SetMode \/ Adjust

SpecHeap == InitHeap /\ [][NextHeap]_heapVars

-----------------------------------------------------------------------------
Units(h, b) == h.hdr[b].addr .. h.hdr[b].addr + h.hdr[b].size - 1
FreeBlocks == Elements(Blocks(heap, "free"))
UsedBlocks == Elements(Blocks(heap, "used"))

\* The used list holds the blocks in use, each with room for what was asked
\* of it, and no two blocks of the heap have a unit in common: after any
\* allocations, frees and resizes that took none of the five branches path
\* names, each of which spoils the lists.
BlocksDisjoint ==
    path = "sound" =>
        /\ UsedBlocks = {b.data - HeaderSize : b \in live}
        /\ \A b \in live :
              b.data .. b.data + b.size - 1 \subseteq Units(heap, b.data - HeaderSize)
        /\ \A b, c \in FreeBlocks \cup UsedBlocks :
              b # c => Units(heap, b) \cap Units(heap, c) = {}
        /\ \A b \in FreeBlocks \cup UsedBlocks :
              Units(heap, b) \subseteq Bottom .. Top - 1

\* No unit leaks: the two lists add up to the size the heap reports.
Accounted ==
    path = "sound" =>
        SumOf(heap, "used") + MEMGetTotalFreeSizeForExpHeap(heap) = heap.size

\* Free neighbours have been merged, so that a client that frees everything
\* gets the whole heap back, and each is large enough for its header.
Coalesced ==
    path = "sound" =>
        /\ \A b, c \in FreeBlocks :
              heap.hdr[b].addr + heap.hdr[b].size # heap.hdr[c].addr
        /\ \A b \in FreeBlocks : heap.hdr[b].size >= minimumBlockSize

\* What the heap says can be allocated can be.
AllocatableAllocates ==
    path = "sound" =>
        \A alignment \in Alignments :
            LET n == MEMGetAllocatableSizeForExpHeapEx(heap, alignment)
            IN  n > 0 => MEMAllocFromExpHeapEx(heap, n, alignment, FALSE).data # Null

=============================================================================
