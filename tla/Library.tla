------------------------------ MODULE Library ------------------------------
(* The parts of the emulator that guest code calls into one at a time, each *)
(* under its own lock: the allocators, the registry of heaps, the files and *)
(* the recompiler's cache; and the reservation of lwarx.  They share no     *)
(* state, so that a behaviour uses one of them and the others stand still.  *)
EXTENDS ExpHeap, FrameHeap, TeenyHeap, HeapRegistry, JitBlocks, Reservation, Files

CONSTANT Parts  \* the parts to use

VARIABLE part   \* the one this behaviour uses

Part == {"expanded heap", "frame heap", "teeny heap", "memory list", "heap registry", "code cache", "reservation", "files"}

ASSUME PartsAssumption == Parts \subseteq Part

libraryVars == <<heapVars, frameVars, teenyVars, listVars, registryVars, jitVars, reservationVars, fileVars, part>>

AnyProgram == CHOOSE p \in Program : TRUE

Init == /\ part \in Parts
        /\ InitHeap
        /\ InitFrames
        /\ InitTeeny
        /\ InitList
        /\ InitRegistry
        /\ InitJit
        /\ InitReservation
        /\ InitFiles
        \* One guest program stands for all when its code is not run.
        /\ part # "code cache" => mem = AnyProgram

UseHeap ==
    /\ part = "expanded heap" /\ NextHeap
    /\ UNCHANGED <<frameVars, teenyVars, listVars, registryVars, jitVars, reservationVars, fileVars, part>>

UseFrames ==
    /\ part = "frame heap" /\ NextFrames
    /\ UNCHANGED <<heapVars, teenyVars, listVars, registryVars, jitVars, reservationVars, fileVars, part>>

UseTeeny ==
    /\ part = "teeny heap" /\ NextTeeny
    /\ UNCHANGED <<heapVars, frameVars, listVars, registryVars, jitVars, reservationVars, fileVars, part>>

UseList ==
    /\ part = "memory list" /\ NextList
    /\ UNCHANGED <<heapVars, frameVars, teenyVars, registryVars, jitVars, reservationVars, fileVars, part>>

UseRegistry ==
    /\ part = "heap registry" /\ NextRegistry
    /\ UNCHANGED <<heapVars, frameVars, teenyVars, listVars, jitVars, reservationVars, fileVars, part>>

UseJit ==
    /\ part = "code cache" /\ NextJit
    /\ UNCHANGED <<heapVars, frameVars, teenyVars, listVars, registryVars, reservationVars, fileVars, part>>

UseReservation ==
    /\ part = "reservation" /\ NextReservation
    /\ UNCHANGED <<heapVars, frameVars, teenyVars, listVars, registryVars, jitVars, fileVars, part>>

UseFiles ==
    /\ part = "files" /\ NextFiles
    /\ UNCHANGED <<heapVars, frameVars, teenyVars, listVars, registryVars, jitVars, reservationVars, part>>

Next == \/ UseHeap
        \/ UseFrames
        \/ UseTeeny
        \/ UseList
        \/ UseRegistry
        \/ UseJit
        \/ UseReservation
        \/ UseFiles

Spec == Init /\ [][Next]_libraryVars

-----------------------------------------------------------------------------
(* Properties of the parts, each looked at where its part is used. *)

\* The blocks of an expanded heap divide it: they overlap nowhere, nothing is
\* lost, neighbours that are free are one, and what MEMGetAllocatableSize says
\* can be allocated can be.
HeapDivides ==
    part = "expanded heap" =>
        /\ BlocksDisjoint
        /\ Accounted
        /\ Coalesced
        /\ AllocatableAllocates

\* The emulator's own heap gives out each unit once, and takes all of it back.
TeenyPartitioned ==
    part = "teeny heap" => UnitsPartitioned /\ FreedWhole

=============================================================================
