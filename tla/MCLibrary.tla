----------------------------- MODULE MCLibrary -----------------------------
(* Small instances of the parts of Library for TLC.                         *)
EXTENDS Library, TLC

CONSTANTS h1, h2, h3, h4, a1, a2, a3

\* Four heaps of MEM1: two side by side, one inside the first, one that
\* reaches the region's end.
MCExtent == (h1 :> <<4, 6>>) @@ (h2 :> <<6, 8>>) @@ (h3 :> <<4, 5>>)
            @@ (h4 :> <<6, 9>>)
MCRegionStart == [r \in {"FG", "MEM1"} |-> IF r = "FG" THEN 1 ELSE 4]
MCRegionEnd == [r \in {"FG", "MEM1"} |-> IF r = "FG" THEN 4 ELSE 9]

\* Guest programs of Length instructions that end in a return, or not at all.
MCInstr == {Instr("add", 0, 0), Instr("undefined", 0, 0), Instr("bclr", 0, 0),
            Instr("bclr if", 0, 0)}
           \cup {Instr("b", t, lk) : t \in {1, 3, 4}, lk \in {0, 1}}
           \cup {Instr("bc", t, 0) : t \in {1, 2, 4, 5}}
           \cup {Instr("bc", 4, 1), Instr("bcctr", 3, 0), Instr("bcctr", 3, 1)}
MCProgram == {p \in [CodeAddress -> MCInstr] :
                p[4].op \in {"bclr", "undefined"} /\ p[1].op # "undefined"}

\* Two threads on one core and one on another.
MCCoreOf == (a1 :> 0) @@ (a2 :> 0) @@ (a3 :> 1)

MCDisk == (<<"data">> :> "folder") @@ (<<"data", "code">> :> "folder")
          @@ (<<"data", "save">> :> "folder")
          @@ (<<"data", "code", "a">> :> "file")
          @@ (<<"data", "code", "b">> :> "file")
MCListing == (<<"data">> :> <<".", "..", "code", "save">>)
             @@ (<<"data", "save">> :> <<".", "..">>)
             @@ (<<"data", "code">> :> <<".", "..", "a", "b">>)
MCGamePaths == {<<"/", "vol", "code", "a">>, <<"/", "vol", "code", "A">>,
                <<"/", "vol", "code">>, <<"/", "vol", "save">>, <<"a">>}
MCSameName == {<<"A", "a">>}

=============================================================================
