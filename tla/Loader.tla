------------------------------- MODULE Loader -------------------------------
(* The loader of libraries (loader.cpp, elf.cpp): kernel modules get thunks, *)
(* files get their sections, their imports, loaded before them, and their    *)
(* relocations.  Nothing locks the loader, and it runs guest code when it    *)
(* allocates, so that the loads of several threads interleave.               *)
(* Addresses count instructions; a branch holds FieldSize of them.           *)
EXTENDS Integers, Sequences, FiniteSets, SequencesExt

CONSTANTS Loading,      \* the threads that load
          Kernel,       \* kernel modules: functions and data they export
          Filesets,     \* the libraries a game may come with
          Requests,     \* the names that loadRPL is called with
          FullName,     \* a name with its extension
          SystemStart, CodeStart, DataStart,   \* where memory is given from
          FieldSize,    \* values of a branch's field (2^24 instructions)
          ImmediateSize,  \* values of a 16 bit immediate
          FakeStart, PageSize, MaxFake,  \* the addresses of missing data
          MaxRequests, MaxDepth   \* bounds: loads asked for, and within another

Reach == FieldSize \div 2 - 1
AbsoluteLimit == FieldSize - 1
AddressLimit == ImmediateSize * ImmediateSize

ASSUME LoaderAssumption ==
    /\ IsFiniteSet(Loading) /\ MaxDepth \in Nat
    /\ Requests \subseteq DOMAIN FullName
    /\ \A game \in Filesets : \A n \in DOMAIN game :
          \A k \in 1 .. Len(game[n].imports) : game[n].imports[k] \in DOMAIN FullName
    /\ FieldSize \in Nat \ {0} /\ FieldSize % 2 = 0
    /\ ImmediateSize \in Nat \ {0} /\ ImmediateSize % 2 = 0
    /\ PageSize % 2 = 0 /\ FakeStart % PageSize = 0
    /\ FakeStart + PageSize * (MaxFake + 1) <= AddressLimit

VARIABLES files,      \* the files of this game
          modules,    \* mModules: name -> what the instance exports, and where
          stacks,     \* the loads each thread is in
          systemUsed,       \* the system memory that is allocated
          codeTop, dataTop, \* the memory for code and data not given yet
          mUnimplementedFunctions, mUnimplementedData,
          thunks,     \* kernel calls: address -> the name of the function
          given,      \* history: what loadRPL returned
          loads,      \* history: how often each file was loaded
          raced,      \* history: loaded while it was being loaded
          requested

loaderVars == <<files, modules, stacks, systemUsed, codeTop, dataTop,
                mUnimplementedFunctions, mUnimplementedData, thunks,
                given, loads, raced, requested>>

heapTops == <<systemUsed, codeTop, dataTop>>

Names == {FullName[r] : r \in DOMAIN FullName}

EmptyTable == [n \in {} |-> 0]

\* emplace leaves what a table has.
Emplaced(table, more) ==
    [n \in DOMAIN table \cup DOMAIN more |-> IF n \in DOMAIN table THEN table[n] ELSE more[n]]

InitLoader ==
    /\ files \in Filesets
    /\ modules = [n \in {} |-> 0]
    /\ stacks = [t \in Loading |-> <<>>]
    /\ systemUsed = {} /\ codeTop = CodeStart /\ dataTop = DataStart
    /\ mUnimplementedFunctions = EmptyTable /\ mUnimplementedData = EmptyTable
    /\ thunks = [a \in {} |-> ""]
    /\ given = {} /\ loads = [n \in Names |-> 0] /\ raced = {} /\ requested = 0

\* Where there is a load, and those that are of one name.
Where == {p \in Loading \X (1 .. MaxDepth) : p[2] <= Len(stacks[p[1]])}
LoadAt(p) == stacks[p[1]][p[2]]
LoadsOf(name) == {p \in Where : LoadAt(p).name = name}

-----------------------------------------------------------------------------
(* Memory.                                                                   *)

alignUp(a, alignment) == ((a + alignment - 1) \div alignment) * alignment

\* SequentialMemoryTracker: the sections of a file in their segments, one
\* after another; next is where each segment's free part starts.
Segment(section) ==
    CASE section.kind \in {"PROGBITS", "NOBITS"} /\ section.exec -> "code"
      [] section.kind \in {"PROGBITS", "NOBITS"} -> "data"
      [] OTHER -> "load"

get(placed, section) ==
    LET segment == Segment(section)
        at == alignUp(placed.next[segment], section.align)
    IN  [next |-> [placed.next EXCEPT ![segment] = at + section.size],
         at |-> Append(placed.at, at)]

Place(file, code, data, load) ==
    FoldLeft(get, [next |-> [code |-> code, data |-> data, load |-> load], at |-> <<>>],
             file.sections)

\* OSAllocFromSystem gives the first place that is large enough.
FirstFit(used, size, alignment) ==
    LET end == alignUp(Max(used \cup {SystemStart}) + 1, alignment)
    IN  Min({a \in SystemStart .. end : /\ a % alignment = 0
                                       /\ (a .. a + size - 1) \cap used = {}})

\* The places of several, in order, one after another in what is free.
FirstFits(used, sizes) ==
    FoldLeft(LAMBDA given_, size :
                LET a == FirstFit(given_.used, size, 1)
                IN  [used |-> given_.used \cup (a .. a + size - 1), at |-> Append(given_.at, a)],
             [used |-> used, at |-> <<>>], sizes)

HandleSize == 1     \* LoadedModuleHandleData
ThunkSize == 2      \* a kernel call and a return

\* The load segment of a file: where, and how much.
LoadSize(file) == Place(file, 0, 0, 0).next.load
LoadAlign(file) == Max({1} \cup {s.align : s \in {x \in ToSet(file.sections) : Segment(x) = "load"}})
LoadStart(file) == FirstFit(systemUsed, LoadSize(file), LoadAlign(file))
LoadSegment(file) == LoadStart(file) .. LoadStart(file) + LoadSize(file) - 1

\* The part of a list of sections called name.
findSection(file, name) == {k \in DOMAIN file.sections : file.sections[k].name = name}

MutantSdaBase(file, at, data, bss) ==
    LET parts == findSection(file, data) \cup findSection(file, bss)
    IN  IF parts = {} THEN 0 ELSE Min({at[k] : k \in parts})

\* The middle of the two small data sections.
calculateSdaBase(file, at, data, bss) ==
    LET parts == findSection(file, data) \cup findSection(file, bss)
        start == Min({at[k] : k \in parts})
        end == Max({at[k] + file.sections[k].size : k \in parts})
    IN  IF parts = {} THEN 0 ELSE ((end - start) \div 2) + start

-----------------------------------------------------------------------------
(* loadRPL(name): a module that is loaded, a kernel module, a file.          *)

Frame(name) == [name |-> name, phase |-> "open", next |-> 1, table |-> EmptyTable,
                at |-> <<>>, segment |-> {}, codeNext |-> 0, codeEnd |-> 0, slots |-> <<>>,
                written |-> <<>>, trampolines |-> <<>>, code |-> <<>>, failed |-> FALSE]

Top(t) == stacks[t][Len(stacks[t])]
SetTop(t, frame) == stacks' = [stacks EXCEPT ![t][Len(stacks[t])] = frame]

\* A load begins: the name gets its extension, and is looked up.
Enter(t, name) ==
    /\ Len(stacks[t]) < MaxDepth
    /\ stacks' = [stacks EXCEPT ![t] = Append(@, Frame(name))]

BeginLoad(t) ==
    /\ stacks[t] = <<>> /\ requested < MaxRequests
    /\ requested' = requested + 1
    /\ \E r \in Requests : Enter(t, FullName[r])
    /\ UNCHANGED <<files, modules, heapTops, mUnimplementedFunctions,
                   mUnimplementedData, thunks, given, loads, raced>>

\* A load returns a module, NoModule for none, to the caller or to the import
\* that asked for it, which adds its exports to those it has.
NoModule == [instance |-> 0, exports |-> EmptyTable]

Return(t, module) ==
    LET depth == Len(stacks[t])
        rest == Front(stacks[t])
        name == Top(t).name
    IN  IF depth = 1
        THEN /\ stacks' = [stacks EXCEPT ![t] = <<>>]
             /\ given' = given \cup {[name |-> name, instance |-> module.instance]}
        ELSE /\ stacks' = [stacks EXCEPT ![t] =
                              [rest EXCEPT ![depth - 1].table = Emplaced(@, module.exports),
                                           ![depth - 1].next = @ + 1]]
             /\ UNCHANGED given

\* Already loaded.
FindModule(t) ==
    /\ stacks[t] # <<>> /\ Top(t).phase = "open"
    /\ Top(t).name \in DOMAIN modules
    /\ Return(t, modules[Top(t).name])
    /\ UNCHANGED <<files, modules, heapTops, mUnimplementedFunctions,
                   mUnimplementedData, thunks, loads, raced, requested>>

\* mModules.emplace leaves an entry that is there, and the caller gets the
\* instance that was just made.
Register(name, module) == modules' = Emplaced(modules, [n \in {name} |-> module])

Opening(t) == stacks[t] # <<>> /\ Top(t).phase = "open" /\ Top(t).name \notin DOMAIN modules

\* The handle, the thunks and the data are allocated one after another.
loadKernelModule(t) ==
    /\ Opening(t) /\ Top(t).name \in DOMAIN Kernel
    /\ LET name == Top(t).name
           functions == Kernel[name].functions
           data == Kernel[name].data
           places == FirstFits(systemUsed, <<HandleSize, ThunkSize * Len(functions), Len(data)>>)
           thunk == [k \in DOMAIN functions |-> places.at[2] + ThunkSize * (k - 1)]
           address == [n \in ToSet(functions) \cup ToSet(data) |->
                         IF n \in ToSet(functions)
                         THEN thunk[CHOOSE k \in DOMAIN functions : functions[k] = n]
                         ELSE places.at[3] + CHOOSE k \in 0 .. Len(data) - 1 : data[k + 1] = n]
           module == [instance |-> places.at[1], exports |-> address]
       IN  /\ systemUsed' = places.used
           /\ thunks' = Emplaced(thunks, [a \in ToSet(thunk) |->
                            functions[CHOOSE k \in DOMAIN thunk : thunk[k] = a]])
           /\ Register(name, module)
           /\ Return(t, module)
    /\ UNCHANGED <<files, codeTop, dataTop, mUnimplementedFunctions,
                   mUnimplementedData, loads, raced, requested>>

\* readHeader, and the check of the abi: of a file for this machine.
readHeader(file) == file.header = "cafe"

\* readSectionData: a section without data is read, and one whose data can be
\* inflated when it is deflated.
readSectionData(section) == section.kind = "NOBITS" \/ section.size = 0 \/ section.stored # "corrupt"

\* No such file, or not one to load.
LoadFails(t) ==
    /\ Opening(t) /\ Top(t).name \notin DOMAIN Kernel
    /\ Top(t).name \in DOMAIN files => ~readHeader(files[Top(t).name])
    /\ Return(t, NoModule)
    /\ UNCHANGED <<files, modules, heapTops, mUnimplementedFunctions,
                   mUnimplementedData, thunks, loads, raced, requested>>

\* The memory of a file whose sections cannot be read is not given back.
LoadBreaks(t) ==
    /\ Opening(t) /\ Top(t).name \in DOMAIN files \ DOMAIN Kernel
    /\ LET file == files[Top(t).name]
           placed == Place(file, codeTop, dataTop, LoadStart(file))
       IN  /\ readHeader(file)
           /\ \E k \in DOMAIN file.sections : ~readSectionData(file.sections[k])
           /\ codeTop' = codeTop + file.textSize
           /\ dataTop' = placed.next.data
           /\ systemUsed' = systemUsed \cup LoadSegment(file)
           /\ Return(t, NoModule)
    /\ UNCHANGED <<files, modules, mUnimplementedFunctions, mUnimplementedData,
                   thunks, loads, raced, requested>>

\* The file's segments are allocated and its sections put in them.
OpenFile(t) ==
    /\ Opening(t) /\ Top(t).name \in DOMAIN files \ DOMAIN Kernel
    /\ LET name == Top(t).name
           file == files[name]
           placed == Place(file, codeTop, dataTop, LoadStart(file))
       IN  /\ readHeader(file)
           /\ \A k \in DOMAIN file.sections : readSectionData(file.sections[k])
           /\ SetTop(t, [Top(t) EXCEPT !.phase = "imports", !.at = placed.at,
                                       !.segment = LoadSegment(file),
                                       !.codeNext = placed.next.code,
                                       !.codeEnd = codeTop + file.textSize])
           /\ codeTop' = codeTop + file.textSize
           /\ dataTop' = placed.next.data
           /\ systemUsed' = systemUsed \cup LoadSegment(file)
           /\ loads' = [loads EXCEPT ![name] = @ + 1]
           /\ raced' = IF Cardinality(LoadsOf(name)) > 1 THEN raced \cup {name} ELSE raced
    /\ UNCHANGED <<files, modules, mUnimplementedFunctions, mUnimplementedData,
                   thunks, given, requested>>

-----------------------------------------------------------------------------
(* loadRPL(name, data), after the sections are in place.                     *)

In(t, phase) == stacks[t] # <<>> /\ Top(t).phase = phase
FileOf(t) == files[Top(t).name]

\* processImports: the libraries first, each loaded before the next.
ImportLibrary(t) ==
    /\ In(t, "imports") /\ Top(t).next <= Len(FileOf(t).imports)
    /\ Enter(t, FullName[FileOf(t).imports[Top(t).next]])
    /\ UNCHANGED <<files, modules, heapTops, mUnimplementedFunctions,
                   mUnimplementedData, thunks, given, loads, raced, requested>>

\* Then the symbols: each slot gets the address the table has for its name.
\* A missing function gets a thunk of its own, once; missing data gets zero.
BindImports(t) ==
    /\ In(t, "imports") /\ Top(t).next > Len(FileOf(t).imports)
    /\ LET table == Top(t).table
           needs == FileOf(t).needs
           missing == SetToSeq({need.name : need \in {m \in ToSet(needs) :
                         /\ m.type = "FUNC" /\ m.name \notin DOMAIN table
                         /\ m.name \notin DOMAIN mUnimplementedFunctions}})
           places == FirstFits(systemUsed, [k \in DOMAIN missing |-> ThunkSize])
           new == [n \in ToSet(missing) |->
                     places.at[CHOOSE k \in DOMAIN missing : missing[k] = n]]
           functions == Emplaced(mUnimplementedFunctions, new)
       IN  /\ mUnimplementedFunctions' = functions
           /\ thunks' = Emplaced(thunks, [a \in {new[n] : n \in DOMAIN new} |->
                                     CHOOSE n \in DOMAIN new : new[n] = a])
           /\ systemUsed' = places.used
           /\ SetTop(t, [Top(t) EXCEPT !.phase = "relocations", !.next = 1,
                 !.slots = [k \in DOMAIN needs |->
                    CASE needs[k].name \in DOMAIN table -> table[needs[k].name]
                      [] needs[k].type = "FUNC" -> functions[needs[k].name]
                      [] OTHER -> 0]])
    /\ UNCHANGED <<files, modules, codeTop, dataTop, mUnimplementedData, given,
                   loads, raced, requested>>

\* registerUnimplementedData: a page for every name, its middle the address.
FakeAddress(n) ==
    IF n \in DOMAIN mUnimplementedData THEN mUnimplementedData[n]
    ELSE FakeStart + PageSize * Cardinality(DOMAIN mUnimplementedData)

registerUnimplementedData(n) ==
    mUnimplementedData' = Emplaced(mUnimplementedData, [m \in {n} |-> FakeAddress(n)])

FakeSymbol(n) == FakeAddress(n) + PageSize \div 2

\* getUnimplementedData: the name at an address, and how far from its middle.
getUnimplementedData(a) ==
    {<<n, (a % PageSize) - PageSize \div 2>> :
        n \in {m \in DOMAIN mUnimplementedData : mUnimplementedData[m] = a - (a % PageSize)}}

\* The symbol's address, with the addend.  An import's is read from its slot,
\* the addend counting in slots: nothing is in those that follow the last.
IsImport(reloc) == reloc.symbol = "import"

NeedOf(t, reloc) == FileOf(t).needs[reloc.slot].name

SlotValue(t, reloc) ==
    LET slots == Top(t).slots
    IN  IF reloc.slot + reloc.addend \in DOMAIN slots THEN slots[reloc.slot + reloc.addend]
        ELSE 0

SymbolAddress(t, reloc) ==
    IF IsImport(reloc)
    THEN IF SlotValue(t, reloc) = 0 THEN FakeSymbol(NeedOf(t, reloc)) ELSE SlotValue(t, reloc)
    ELSE Top(t).at[reloc.section] + reloc.offset + reloc.addend

Site(t, reloc) == Top(t).at[1] + reloc.site

\* A branch's field is signed; an absolute one is the address.
SignedField(v) == IF v > Reach THEN v - FieldSize ELSE v
Branch(field, absolute) == [field |-> field % FieldSize, absolute |-> absolute]
Lands(branch, a) == SignedField(branch.field) + IF branch.absolute THEN 0 ELSE a

InReach(delta) == -Reach <= delta /\ delta <= Reach

\* getTrampAddress: one for every target, after the sections of the code.
TrampolineTo(frame, target) ==
    {frame.trampolines[k].at : k \in {j \in DOMAIN frame.trampolines :
                                        frame.trampolines[j].target = target}}

NewTrampoline(frame, target) ==
    [target |-> target, at |-> frame.codeNext,
     branch |-> IF InReach(target - frame.codeNext)
                THEN Branch(target - frame.codeNext, FALSE) ELSE Branch(target, TRUE)]

\* It asserts that the target is near, or low, and that there is room.
CanTrampoline(frame, target) ==
    /\ \/ -Reach < target - frame.codeNext /\ target - frame.codeNext < Reach
       \/ target < AbsoluteLimit
    /\ frame.codeNext < frame.codeEnd

getTrampAddress(frame, target) ==
    IF TrampolineTo(frame, target) # {} THEN frame
    ELSE [frame EXCEPT !.trampolines = Append(@, NewTrampoline(frame, target)),
                       !.codeNext = @ + 1]

\* processRelocations, the relocations by their type.  What is written is the
\* new content of the site.
Patch(frame, reloc, value) ==
    [frame EXCEPT !.written = Append(@, [reloc |-> reloc, value |-> value]),
                  !.next = @ + 1]

Rel24(t, reloc) ==
    LET target == SymbolAddress(t, reloc)
        site == Site(t, reloc)
        frame == getTrampAddress(Top(t), target)
        tramp == CHOOSE a \in TrampolineTo(frame, target) : TRUE
    IN  IF InReach(target - site)
        THEN Patch(Top(t), reloc, Branch(target - site, FALSE))
        ELSE IF /\ TrampolineTo(Top(t), target) = {} => CanTrampoline(Top(t), target)
                /\ InReach(tramp - site)
             THEN Patch(frame, reloc, Branch(tramp - site, FALSE))
             ELSE [Top(t) EXCEPT !.failed = TRUE]

High(a) == (a \div ImmediateSize) % ImmediateSize
HighAdjusted(a) == ((a + ImmediateSize \div 2) \div ImmediateSize) % ImmediateSize
Low(a) == a % ImmediateSize

SdaBase(t, rA) ==
    CASE rA = 2 -> calculateSdaBase(FileOf(t), Top(t).at, ".sdata2", ".sbss2")
      [] rA = 13 -> calculateSdaBase(FileOf(t), Top(t).at, ".sdata", ".sbss")

SdaInRange(offset) == -(ImmediateSize \div 2) <= offset /\ offset < ImmediateSize \div 2

\* Without a base what is written is zero, whatever the symbol.  An offset that
\* is out of range is not written.
Sda21(t, reloc) ==
    LET offset == IF reloc.rA = 0 THEN 0 ELSE SymbolAddress(t, reloc) - SdaBase(t, reloc.rA)
    IN  IF SdaInRange(offset) THEN Patch(Top(t), reloc, offset)
        ELSE [Top(t) EXCEPT !.next = @ + 1]

\* An unknown type is only logged.
RelocationTypes == {"ADDR32", "ADDR16_HA_LO", "ADDR16_HI_LO", "REL24", "EMB_SDA21"}

Relocated(t, reloc) ==
    LET a == SymbolAddress(t, reloc)
    IN  CASE reloc.type = "ADDR32" -> Patch(Top(t), reloc, a)
          [] reloc.type = "ADDR16_HA_LO" -> Patch(Top(t), reloc, <<HighAdjusted(a), Low(a)>>)
          [] reloc.type = "ADDR16_HI_LO" -> Patch(Top(t), reloc, <<High(a), Low(a)>>)
          [] reloc.type = "REL24" -> Rel24(t, reloc)
          [] reloc.type = "EMB_SDA21" -> Sda21(t, reloc)
          [] OTHER -> [Top(t) EXCEPT !.next = @ + 1]

Relocate(t) ==
    /\ In(t, "relocations") /\ ~Top(t).failed
    /\ Top(t).next <= Len(FileOf(t).relocations)
    /\ LET reloc == FileOf(t).relocations[Top(t).next]
           fake == IsImport(reloc) /\ SlotValue(t, reloc) = 0
       IN  /\ fake => FakeAddress(NeedOf(t, reloc)) <= FakeStart + PageSize * MaxFake
           /\ IF fake THEN registerUnimplementedData(NeedOf(t, reloc))
              ELSE UNCHANGED mUnimplementedData
           /\ SetTop(t, Relocated(t, reloc))
    /\ UNCHANGED <<files, modules, heapTops, mUnimplementedFunctions, thunks,
                   given, loads, raced, requested>>

\* processExports, whose addresses have been relocated, and the entry point.
exportsOf(t) ==
    [n \in DOMAIN FileOf(t).exports |->
       Top(t).at[FileOf(t).exports[n].section] + FileOf(t).exports[n].offset]

EntryPoint(file, at) ==
    LET holds == {k \in DOMAIN file.sections :
                    /\ file.sections[k].addr <= file.entry
                    /\ file.entry < file.sections[k].addr + file.sections[k].size}
    IN  IF holds = {} THEN file.entry
        ELSE file.entry + at[Min(holds)] - file.sections[Min(holds)].addr

\* The load segment is given back, and the handle comes from what is free.
FinishLoad(t) ==
    /\ In(t, "relocations") /\ ~Top(t).failed
    /\ Top(t).next > Len(FileOf(t).relocations)
    /\ LET frame == Top(t)
           freed == systemUsed \ frame.segment
           handle == FirstFit(freed, HandleSize, 1)
           module == [instance |-> frame.at[1], exports |-> exportsOf(t),
                      file |-> frame.name, handle |-> handle, at |-> frame.at, codeNext |-> frame.codeNext,
                      entryPoint |-> EntryPoint(FileOf(t), frame.at),
                      written |-> frame.written, trampolines |-> frame.trampolines]
       IN  /\ Register(frame.name, module)
           /\ Return(t, module)
           /\ systemUsed' = freed \cup (handle .. handle + HandleSize - 1)
    /\ UNCHANGED <<files, codeTop, dataTop, mUnimplementedFunctions, mUnimplementedData,
                   thunks, loads, raced, requested>>

LoadStep(t) ==
    \/ BeginLoad(t) \/ FindModule(t) \/ loadKernelModule(t) \/ LoadFails(t) \/ LoadBreaks(t)
    \/ OpenFile(t) \/ ImportLibrary(t) \/ BindImports(t) \/ Relocate(t) \/ FinishLoad(t)

NextLoader == \E t \in Loading : LoadStep(t)

SpecLoader == InitLoader /\ [][NextLoader]_loaderVars

-----------------------------------------------------------------------------
(* Properties.                                                               *)

Loaded == DOMAIN modules \ DOMAIN Kernel

\* Where control gets from an address: a module's trampolines are passed.
Passing(m, a) ==
    LET through == {k \in DOMAIN m.trampolines : m.trampolines[k].at = a}
    IN  IF through = {} THEN a
        ELSE Lands(m.trampolines[CHOOSE k \in through : TRUE].branch, a)

\* The address that what was written at a site stands for, as the machine
\* takes it: lis and addi sign the lower half, r13 and r2 hold the bases.
SignedHalf(v) == IF v < ImmediateSize \div 2 THEN v ELSE v - ImmediateSize

Denotes(file, m, w) ==
    CASE w.reloc.type = "ADDR32" -> w.value
      [] w.reloc.type = "ADDR16_HI_LO" -> w.value[1] * ImmediateSize + w.value[2]
      [] w.reloc.type = "ADDR16_HA_LO" ->
            (w.value[1] * ImmediateSize + SignedHalf(w.value[2])) % AddressLimit
      [] w.reloc.type = "REL24" -> Passing(m, Lands(w.value, m.at[1] + w.reloc.site))
      [] w.reloc.type = "EMB_SDA21" ->
            w.value + CASE w.reloc.rA = 0 -> 0
                        [] w.reloc.rA = 2 -> calculateSdaBase(file, m.at, ".sdata2", ".sbss2")
                        [] w.reloc.rA = 13 -> calculateSdaBase(file, m.at, ".sdata", ".sbss")

\* The exports of that name of the first library imported that has one.
Provided(file, name) ==
    LET library == [k \in DOMAIN file.imports |-> FullName[file.imports[k]]]
        having == {k \in DOMAIN library : /\ library[k] \in DOMAIN modules
                                         /\ name \in DOMAIN modules[library[k]].exports}
    IN  IF having = {} THEN {} ELSE {modules[library[Min(having)]].exports[name]}

\* A small data reference without a base (loader.cpp:542): the symbol is lost.
IsLost(reloc) == reloc.type = "EMB_SDA21" /\ reloc.rA = 0

\* Every reference of a loaded module to a symbol it imports is, through its
\* trampoline if it has one, to the export of the first library that exports
\* the name; where none does, a function's is to the call of that name, and
\* a datum's to an address the name can be told from (getUnimplementedData).
\* Not so for an addend, which moves to another import's slot, nor for a
\* reference that is lost.
ReachesImports ==
    \A n \in Loaded : \A k \in DOMAIN modules[n].written :
        LET m == modules[n]
            w == m.written[k]
            need == files[n].needs[w.reloc.slot]
            a == Denotes(files[n], m, w)
        IN  (IsImport(w.reloc) /\ w.reloc.addend = 0 /\ ~IsLost(w.reloc) /\ raced = {}) =>
                CASE Provided(files[n], need.name) # {} -> a \in Provided(files[n], need.name)
                  [] need.type = "FUNC" -> a \in DOMAIN thunks /\ thunks[a] = need.name
                  [] OTHER -> getUnimplementedData(a) = {<<need.name, 0>>}

SmallDataSpan(file, at, rA) ==
    LET parts == IF rA = 2 THEN findSection(file, ".sdata2") \cup findSection(file, ".sbss2")
                 ELSE findSection(file, ".sdata") \cup findSection(file, ".sbss")
    IN  Max({at[k] + file.sections[k].size : k \in parts}) - Min({at[k] : k \in parts})

\* Every reference to a symbol of its own is to it, unless it is one that is
\* lost, and none is left out when the module's small data fits the offset from
\* its base (calculateSdaBase): the loader only logs a reference that does not.
ReachesLocals ==
    \A n \in Loaded : LET m == modules[n] IN
        \A r \in {q \in ToSet(files[n].relocations) : ~IsImport(q) /\ q.type \in RelocationTypes /\ ~IsLost(q)} :
            LET ws == {k \in DOMAIN m.written : m.written[k].reloc = r}
            IN  /\ ws = {} => r.type = "EMB_SDA21" /\ SmallDataSpan(files[n], m.at, r.rA) >= ImmediateSize
                /\ \A k \in ws : Denotes(files[n], m, m.written[k]) = m.at[r.section] + r.offset + r.addend

\* What is in use: the code and data of a module, with the trampolines that were
\* put behind its code, and its handle; of a load what it has in memory, its
\* load segment too; and the thunks.
Extents(n) ==
    LET m == modules[n]
        sections == files[n].sections
    IN  {<<<<"module", n>>, k, m.at[k], m.at[k] + sections[k].size>> :
            k \in {j \in DOMAIN sections : Segment(sections[j]) # "load"}}
        \cup {<<<<"stub", n>>, k, m.trampolines[k].at, m.trampolines[k].at + 1>> : k \in DOMAIN m.trampolines}
        \cup {<<<<"handle", n>>, 0, m.handle, m.handle + HandleSize>>}

ExtentsOfLoad(p) ==
    LET sections == files[LoadAt(p).name].sections
    IN  {<<<<"load", p>>, k, LoadAt(p).at[k], LoadAt(p).at[k] + sections[k].size>> : k \in DOMAIN sections}

\* No two share an address, though the memory of a load segment is used again as
\* soon as its load has ended; and every section is aligned.
SectionsApart ==
    LET loading == {p \in Where : LoadAt(p).phase # "open"}
        all == UNION {Extents(n) : n \in Loaded} \cup UNION {ExtentsOfLoad(p) : p \in loading}
               \cup {<<<<"thunk", a>>, 0, a, a + ThunkSize>> : a \in DOMAIN thunks}
               \cup {<<<<"handle", n>>, 0, modules[n].instance, modules[n].instance + HandleSize>> :
                        n \in DOMAIN modules \cap DOMAIN Kernel}
    IN  /\ \A x, y \in all : x # y => x[4] <= y[3] \/ y[4] <= x[3]
        /\ \A n \in Loaded : \A k \in DOMAIN files[n].sections :
              modules[n].at[k] % files[n].sections[k].align = 0

\* A name is loaded twice only when the second load begins before the end of
\* the first: by another thread, or by the libraries it imports, which import
\* it.  Otherwise every handle given (OSDynLoad_Acquire) is of the instance that
\* stays: of two, mModules.emplace keeps the first to end and the other, whose
\* handle its caller has, is destroyed.
LoadedOnce ==
    /\ \A n \in Names : loads[n] > 1 => n \in raced
    /\ \A g \in given : (g.instance # 0 /\ g.name \notin raced)
                           => /\ g.name \in DOMAIN modules
                              /\ g.instance = modules[g.name].instance
=============================================================================
