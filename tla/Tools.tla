--------------------------------- MODULE Tools -------------------------------
(* The parts of the emulator around the running game: the debugger and its   *)
(* connection, the disassembler, the instruction tracer, the loader, and the *)
(* GPU's untiling and division of shaders into blocks.  They share no state, *)
(* so that a behaviour uses one of them and the others stand still.          *)
EXTENDS Debugger, DebugNet, Disassembler, TraceRing, Loader, Tiling, Blockify

CONSTANT UsedTools  \* the parts to use

VARIABLE tool   \* the one this behaviour uses

Tool == {"debugger", "connection", "disassembler", "tracer", "loader", "tiling", "shaders"}

ASSUME ToolsAssumption == UsedTools \subseteq Tool

toolsVars == <<debuggerVars, netStreamVars, disVars, traceVars, loaderVars,
               tilingVars, blockifyVars, tool>>

\* One input stands for all where it is not used.
AnyRow == CHOOSE id \in Ids : TRUE
AnySurface == CHOOSE s \in Surfaces : TRUE
AnyFileset == CHOOSE fs \in Filesets : TRUE

Init == /\ tool \in UsedTools
        /\ InitDebugger
        /\ InitNet
        /\ InitTrace
        /\ InitBlockify
        /\ IF tool = "disassembler" THEN InitDis
           ELSE row = AnyRow /\ word = encode(AnyRow) /\ before = word
        /\ IF tool = "tiling" THEN InitTiling
           ELSE surface = AnySurface /\ line = 0 /\ taken = {}
        /\ InitLoader
        /\ tool # "connection" => link = "to client"
        /\ tool # "loader" => files = AnyFileset

UseCore(c) ==
    /\ tool = "debugger" /\ CoreStep(c)
    /\ UNCHANGED <<netStreamVars, disVars, traceVars, loaderVars, tilingVars,
                    blockifyVars, tool>>

UseDbg ==
    /\ tool = "debugger" /\ DbgStep
    /\ UNCHANGED <<netStreamVars, disVars, traceVars, loaderVars, tilingVars,
                    blockifyVars, tool>>

UseNet ==
    /\ tool = "debugger" /\ NetStep
    /\ UNCHANGED <<netStreamVars, disVars, traceVars, loaderVars, tilingVars,
                    blockifyVars, tool>>

UseClient ==
    /\ tool = "debugger" /\ ClientStep
    /\ UNCHANGED <<netStreamVars, disVars, traceVars, loaderVars, tilingVars,
                    blockifyVars, tool>>

UseConnection ==
    /\ tool = "connection" /\ NextNet
    /\ UNCHANGED <<debuggerVars, disVars, traceVars, loaderVars, tilingVars,
                    blockifyVars, tool>>

UseDisassembler ==
    /\ tool = "disassembler" /\ NextDis
    /\ UNCHANGED <<debuggerVars, netStreamVars, traceVars, loaderVars,
                    tilingVars, blockifyVars, tool>>

UseTracer ==
    /\ tool = "tracer" /\ NextTrace
    /\ UNCHANGED <<debuggerVars, netStreamVars, disVars, loaderVars,
                    tilingVars, blockifyVars, tool>>

UseLoader ==
    /\ tool = "loader" /\ NextLoader
    /\ UNCHANGED <<debuggerVars, netStreamVars, disVars, traceVars,
                    tilingVars, blockifyVars, tool>>

UseTiling ==
    /\ tool = "tiling" /\ UntileRow
    /\ UNCHANGED <<debuggerVars, netStreamVars, disVars, traceVars,
                    loaderVars, blockifyVars, tool>>

UseBlockify ==
    /\ tool = "shaders" /\ NextBlockify
    /\ UNCHANGED <<debuggerVars, netStreamVars, disVars, traceVars,
                    loaderVars, tilingVars, tool>>

Next == \/ \E c \in Core : UseCore(c)
        \/ UseDbg
        \/ UseNet
        \/ UseClient
        \/ UseConnection
        \/ UseDisassembler
        \/ UseTracer
        \/ UseLoader
        \/ UseTiling
        \/ UseBlockify

\* The host runs the emulator's threads; the client may send nothing more.
Spec == /\ Init /\ [][Next]_toolsVars
        /\ \A c \in Core : WF_toolsVars(UseCore(c))
        /\ WF_toolsVars(UseDbg)
        /\ WF_toolsVars(UseNet)

-----------------------------------------------------------------------------
(* Properties of the parts, each looked at where its part is used.           *)

\* An instruction is taken for the row it was encoded from, and two texts are
\* the same only when nothing that they should show differs.
TextSaysInstruction ==
    tool = "disassembler" => DecodesToItsRow /\ ShowsOperands

\* A module is loaded once, apart from the others, and every place that a
\* relocation names reaches what it denotes.
LinksReach ==
    tool = "loader" =>
        /\ ReachesImports
        /\ ReachesLocals
        /\ SectionsApart
        /\ LoadedOnce

\* Untiling reads each element of the surface, within it, exactly once.
UntilesOnce == tool = "tiling" => Untiles

\* A shader divided into blocks is the shader: but for labels that one
\* instruction shares, every instruction is in the loops and conditions that
\* the compiler put it into.
BlocksAreTheShader ==
    tool = "shaders" => LosesOnlySharedLabels /\ InItsBlocks

=============================================================================
