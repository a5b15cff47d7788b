--------------------------- MODULE HeapRegistry ---------------------------
(* The memory lists of coreinit (coreinit_memlist.cpp), doubly linked       *)
(* through the objects; nothing locks them.  And the heaps a game has created *)
(* and the base heaps of the three regions of memory (coreinit_memheap.cpp), *)
(* in one memory list per region.  model is the sequence of the objects a   *)
(* client believes to be in the list; wrong names the branch of the code that *)
(* first made the list differ from it.                                      *)
EXTENDS Integers, FiniteSets, Sequences, SequencesExt

CONSTANTS Object, NoObject

ASSUME ObjectAssumption == NoObject \notin Object /\ IsFiniteSet(Object)

VARIABLES list,         \* head, tail, count, and next and prev of the objects
          model,
          wrong

listVars == <<list, model, wrong>>

MEMInitList == [head |-> NoObject, tail |-> NoObject, count |-> 0,
                next |-> [o \in Object |-> NoObject],
                prev |-> [o \in Object |-> NoObject]]

setFirstObject(l, o) ==
    [l EXCEPT !.head = o, !.tail = o, !.next[o] = NoObject, !.prev[o] = NoObject,
              !.count = 1]

MEMGetNextListObject(l, o) == IF o = NoObject THEN l.head ELSE l.next[o]
MEMGetPrevListObject(l, o) == IF o = NoObject THEN l.tail ELSE l.prev[o]

\* The tail of the list is not moved.
MEMAppendListObject(l, o) ==
    IF l.tail = NoObject THEN setFirstObject(l, o)
    ELSE [l EXCEPT !.next[l.tail] = o, !.prev[o] = l.tail, !.next[o] = NoObject,
                   !.count = @ + 1]

MEMPrependListObject(l, o) ==
    IF l.head = NoObject THEN setFirstObject(l, o)
    ELSE [l EXCEPT !.prev[l.head] = o, !.prev[o] = NoObject, !.next[o] = l.head,
                   !.head = o, !.count = @ + 1]

\* In the middle the object before is not told of the new one.
MEMInsertListObject(l, before, o) ==
    CASE before = NoObject -> MEMAppendListObject(l, o)
      [] before = l.head -> MEMPrependListObject(l, o)
      [] OTHER -> [l EXCEPT !.prev[o] = l.prev[before], !.next[o] = before,
                            !.prev[before] = o, !.count = @ + 1]

\* Removing an end leaves the links of its neighbour; the search for an
\* object in the middle never leaves its start, so that nothing is removed.
MEMRemoveListObject(l, o) ==
    CASE l.head = o /\ l.tail = o ->
            [l EXCEPT !.head = NoObject, !.tail = NoObject, !.count = 0]
      [] l.head = o /\ l.tail # o ->
            [l EXCEPT !.head = MEMGetNextListObject(l, o), !.count = @ - 1]
      [] l.head # o /\ l.tail = o ->
            [l EXCEPT !.tail = MEMGetPrevListObject(l, o), !.count = @ - 1]
      [] OTHER -> l

-----------------------------------------------------------------------------
InitList == list = MEMInitList /\ model = <<>> /\ wrong = "none"

Outside == Object \ {model[n] : n \in DOMAIN model}

AppendObject ==
    /\ wrong = "none"
    /\ \E o \in Outside :
         /\ list' = MEMAppendListObject(list, o)
         /\ model' = Append(model, o)
         /\ wrong' = IF Len(model) = 0 THEN "none" ELSE "tail not moved"

PrependObject ==
    /\ wrong = "none"
    /\ \E o \in Outside : /\ list' = MEMPrependListObject(list, o)
                          /\ model' = <<o>> \o model
    /\ UNCHANGED wrong

InsertObject ==
    /\ wrong = "none"
    /\ \E o \in Outside, n \in DOMAIN model :
         /\ list' = MEMInsertListObject(list, model[n], o)
         /\ model' = InsertAt(model, n, o)
         /\ wrong' = IF n = 1 THEN "none" ELSE "not linked"

RemoveObject ==
    /\ wrong = "none"
    /\ \E n \in DOMAIN model :
         /\ list' = MEMRemoveListObject(list, model[n])
         /\ model' = RemoveAt(model, n)
         /\ wrong' = CASE Len(model) = 1 -> "none"
                       [] n = 1 /\ Len(model) > 1 -> "none"
                       [] n > 1 /\ n = Len(model) -> "end still linked"
                       [] OTHER -> "not removed"

NextList == AppendObject \/ PrependObject \/ InsertObject \/ RemoveObject

SpecList == InitList /\ [][NextList]_listVars

-----------------------------------------------------------------------------
\* The objects that a walk along the links meets, counted from 0, and null from
\* its end on; at most all of them.
ListWalk(l) ==
    LET nth[n \in 0 .. Cardinality(Object)] ==
            IF n = 0 THEN MEMGetNextListObject(l, NoObject)
            ELSE IF nth[n - 1] = NoObject THEN NoObject
            ELSE MEMGetNextListObject(l, nth[n - 1])
    IN nth

\* As long as no operation has gone wrong (the second append, an insertion or
\* removal that is not at the head), walking the list from its head gives the
\* client's objects in the client's order, the tail is the last and the count
\* is right.
ListIsModel ==
    wrong = "none" =>
        /\ \A n \in 0 .. Cardinality(Object) :
              ListWalk(list)[n] = IF n < Len(model) THEN model[n + 1] ELSE NoObject
        /\ list.count = Len(model)
        /\ list.tail = IF model = <<>> THEN NoObject ELSE model[Len(model)]

-----------------------------------------------------------------------------
(* The registry.  The base heaps are created before the lists exist, and    *)
(* are in none of them.  What becomes of a list is told by two of its heaps: *)
(* the one that was created when the list was empty, and the last that has  *)
(* been created since.                                                      *)

CONSTANTS Extent,       \* the first address of each heap and the one after its last
          RegionStart, RegionEnd,  \* those of FG and MEM1; MEM2 is the rest
          MemAddress,
          MaxCount      \* bound: what a region's list counts

\* A heap lies in the region or outside it.
ASSUME RegionAssumption ==
    /\ RegionStart \in [{"FG", "MEM1"} -> Nat] /\ RegionEnd \in [{"FG", "MEM1"} -> Nat]
    /\ Extent \in [Object -> Nat \X Nat]
    /\ \A h \in Object, r \in {"FG", "MEM1"} :
          \/ RegionStart[r] <= Extent[h][1] /\ Extent[h][2] <= RegionEnd[r]
          \/ Extent[h][2] <= RegionStart[r] \/ RegionEnd[r] <= Extent[h][1]
    /\ MemAddress \subseteq Nat

VARIABLES lists,        \* the list of each region
          created,      \* the heaps that exist
          oldest,       \* history: the heap that made the region's list, or none
          newest        \* history: the last that was created in the region since

registryVars == <<lists, created, oldest, newest>>

Region == {"FG", "MEM1", "MEM2"}

\* A heap that reaches the end of its region is not counted to it.
findListContainingHeap(heap) ==
    LET In(r) == /\ Extent[heap][1] >= RegionStart[r]
                 /\ Extent[heap][2] < RegionEnd[r]
    IN  CASE In("FG") -> "FG"
          [] ~In("FG") /\ In("MEM1") -> "MEM1"
          [] OTHER -> "MEM2"

MutantListContainingBlock(addr) ==
    IF \E r \in {"FG", "MEM1"} : addr > RegionStart[r] /\ addr < RegionEnd[r]
    THEN CHOOSE r \in {"FG", "MEM1"} : addr > RegionStart[r] /\ addr < RegionEnd[r]
    ELSE "MEM2"

findListContainingBlock(addr) ==
    LET In(r) == addr >= RegionStart[r] /\ addr < RegionEnd[r]
    IN  CASE In("FG") -> "FG"
          [] ~In("FG") /\ In("MEM1") -> "MEM1"
          [] OTHER -> "MEM2"

HasAddress(heap, addr) == addr >= Extent[heap][1] /\ addr < Extent[heap][2]

\* The lists of the heaps themselves are always empty.
findHeapContainingBlock(l, addr) ==
    LET holding == {n \in 0 .. Cardinality(Object) :
                      ListWalk(l)[n] # NoObject /\ HasAddress(ListWalk(l)[n], addr)}
    IN  IF holding = {} THEN NoObject
        ELSE ListWalk(l)[CHOOSE n \in holding : \A m \in holding : n <= m]

MEMFindContainHeap(addr) ==
    findHeapContainingBlock(lists[findListContainingBlock(addr)], addr)

InRegion(r) == {h \in created : findListContainingHeap(h) = r}

InitRegistry ==
    /\ lists = [r \in Region |-> MEMInitList]
    /\ created = {}
    /\ oldest = [r \in Region |-> NoObject] /\ newest = [r \in Region |-> NoObject]

\* The append does not move the tail: of three heaps the second is lost.
MEMiInitHeapHead ==
    \E heap \in Object \ created :
        LET r == findListContainingHeap(heap)
        IN  /\ lists[r].count < MaxCount
            /\ lists' = [lists EXCEPT ![r] = MEMAppendListObject(@, heap)]
            /\ created' = created \cup {heap}
            /\ oldest' = IF oldest[r] = NoObject THEN [oldest EXCEPT ![r] = heap] ELSE oldest
            /\ newest' = [newest EXCEPT ![r] = heap]

\* The removal of the first heap empties the list, that of another does nothing.
MEMiFinaliseHeap ==
    \E heap \in created :
        LET r == findListContainingHeap(heap)
        IN  /\ lists' = [lists EXCEPT ![r] = MEMRemoveListObject(@, heap)]
            /\ created' = created \ {heap}
            /\ IF heap = oldest[r]
               THEN /\ oldest' = [oldest EXCEPT ![r] = NoObject]
                    /\ newest' = [newest EXCEPT ![r] = NoObject]
               ELSE UNCHANGED <<oldest, newest>>

NextRegistry == MEMiInitHeapHead \/ MEMiFinaliseHeap

\* A game's own list beside the registry.
SpecLists ==
    /\ InitList /\ InitRegistry
    /\ [][\/ NextList /\ UNCHANGED registryVars
          \/ NextRegistry /\ UNCHANGED listVars]_<<listVars, registryVars>>

-----------------------------------------------------------------------------
\* The heaps of a region that are in its list.
Kept(r) == {oldest[r], newest[r]} \ {NoObject}

\* The heap that is found for an address exists and contains it, and none is
\* found only when no heap in the list of the address's own region contains it:
\* unless the newest heap was destroyed before the oldest, for then it is still
\* in the list, with links in memory that is the game's.
FindsContainingHeap ==
    \A addr \in MemAddress :
        LET r == findListContainingBlock(addr)
            found == MEMFindContainHeap(addr)
        IN  newest[r] \in created \cup {NoObject} =>
                /\ found # NoObject => found \in created /\ HasAddress(found, addr)
                /\ found = NoObject => \A h \in Kept(r) : ~HasAddress(h, addr)

\* Of the heaps of a region two can be found by each of their addresses: the
\* oldest, and the newest.  One between them is lost when the next is created,
\* the newest, and whatever was between, when the oldest is destroyed.  One that
\* reaches the end of FG or MEM1 is looked for in another list than its own.
RegisteredIsFound ==
    \A h \in created :
        /\ h \in Kept(findListContainingHeap(h))
        /\ \A r \in {"FG", "MEM1"} : Extent[h][2] # RegionEnd[r]
        => \A addr \in Extent[h][1] .. Extent[h][2] - 1 :
              /\ MEMFindContainHeap(addr) # NoObject
              /\ HasAddress(MEMFindContainHeap(addr), addr)

\* A memory list is the sequence its operations make of it up to the first that
\* goes wrong, and of the heaps of a region the oldest and the newest are found
\* from any address in them, through the list they were registered in.
HeapsAreFound == ListIsModel /\ FindsContainingHeap /\ RegisteredIsFound

=============================================================================
