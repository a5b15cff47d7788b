------------------------------- MODULE MCTools ------------------------------
(* Small instances of the parts of Tools for TLC.                            *)
EXTENDS Tools

CONSTANTS c0, c1, r1, r2, t1, t2

\* What a packet's payload takes: none, or a few bytes.
MCPayloadSizes == ("Pause" :> {0}) @@ ("ReadMem" :> {2, 3})
                  @@ ("Paused" :> {0}) @@ ("ReadMemRes" :> {1, 3, 5})

\* Operands all clear, all set, and two mixtures of both.
MCFillings == {{}, 0 .. 31, {2 * k : k \in 0 .. 15}, {5 * k : k \in 0 .. 6}}

-----------------------------------------------------------------------------
(* A game and a library of its own: sections, what they want from others,    *)
(* what they export, and one relocation or more of each type.                *)

Sec(n, kind, exec, align, size, at) ==
    [name |-> n, kind |-> kind, exec |-> exec, align |-> align, size |-> size,
     addr |-> at, stored |-> IF exec THEN "deflated" ELSE "plain"]
Fun(n) == [name |-> n, type |-> "FUNC"]
Obj(n) == [name |-> n, type |-> "OBJECT"]
Imp(type, slot, addend, site) ==
    [symbol |-> "import", type |-> type, slot |-> slot, addend |-> addend,
     site |-> site, section |-> 1, offset |-> 0, rA |-> 0]
Loc(type, sec, off, addend, site, rA) ==
    [symbol |-> "local", type |-> type, slot |-> 0, section |-> sec, offset |-> off,
     addend |-> addend, site |-> site, rA |-> rA]

App == [header |-> "cafe", entry |-> 2, textSize |-> 30,
        sections |-> <<Sec(".text", "PROGBITS", TRUE, 2, 25, 0),
                       Sec(".sdata", "PROGBITS", FALSE, 4, 13, 0),
                       Sec(".sbss", "NOBITS", FALSE, 4, 14, 0),
                       Sec(".fimport", "IMPORTS", FALSE, 2, 4, 0)>>,
        imports |-> <<"os", "lib", "gone">>,
        needs |-> <<Fun("run"), Fun("draw"), Fun("lost"), Obj("datum"), Obj("hole")>>,
        exports |-> ("main" :> [section |-> 1, offset |-> 3]),
        relocations |-> <<Imp("REL24", 1, 0, 0), Imp("REL24", 2, 0, 1),
                          Imp("REL24", 3, 0, 2), Imp("REL24", 1, 0, 6),
                          Imp("ADDR32", 4, 0, 3), Imp("ADDR16_HA_LO", 5, 0, 4),
                          Imp("ADDR16_HA_LO", 3, 1, 4), Imp("ADDR32", 5, 1, 4),
                          Loc("REL24", 1, 20, 0, 5, 0),
                          Loc("EMB_SDA21", 2, 0, 0, 7, 13),
                          Loc("EMB_SDA21", 3, 4, 1, 8, 13), Loc("EMB_SDA21", 2, 1, 0, 11, 0),
                          Loc("ADDR16_HI_LO", 3, 0, 2, 9, 0),
                          Loc("ADDR16_HA_LO", 2, 0, 0, 10, 0),
                          Loc("ADDR16_HA_LO", 3, 0, 4, 10, 0)>>]

Lib == [header |-> "cafe", entry |-> 40, textSize |-> 14,
        sections |-> <<Sec(".text", "PROGBITS", TRUE, 2, 10, 0),
                       Sec(".data", "PROGBITS", FALSE, 4, 3, 16)>>,
        imports |-> <<"os">>,
        needs |-> <<Fun("run"), Fun("lost")>>,
        exports |-> ("draw" :> [section |-> 1, offset |-> 9])
                    @@ ("run" :> [section |-> 1, offset |-> 1])
                    @@ ("datum" :> [section |-> 2, offset |-> 2]),
        relocations |-> <<Imp("REL24", 1, 0, 0), Imp("REL24", 2, 0, 1),
                          Loc("DTPREL32", 2, 0, 0, 2, 0), Loc("ADDR32", 2, 1, 1, 3, 0)>>]

Game(lib) == ("game.rpx" :> App) @@ ("lib.rpl" :> lib)

\* The game with its library; with one that imports the game; with one whose
\* section does not inflate and another that is no RPL.
MCFilesets == {Game(Lib), Game([Lib EXCEPT !.imports = <<"os", "game.rpx">>]),
               Game([Lib EXCEPT !.sections[2].stored = "corrupt"])
                   @@ ("gone.rpl" :> [Lib EXCEPT !.header = "elf"])}
MCKernel == ("os.rpl" :> [functions |-> <<"run", "stop">>, data |-> <<"clock">>])
MCFullName == ("game.rpx" :> "game.rpx") @@ ("lib" :> "lib.rpl")
              @@ ("os" :> "os.rpl") @@ ("gone" :> "gone.rpl")

-----------------------------------------------------------------------------
(* Surfaces of each kind of tiling, element size and number of banks.        *)

Surface(use, tiles, cpp, expand, size, pitch, channels, banks, op) ==
    [use |-> use, tiles |-> tiles, cpp |-> cpp, expand |-> expand,
     width |-> size[1], height |-> size[2], pitch |-> pitch, num_channels |-> channels,
     num_banks |-> banks, r7xx_bank_op |-> op, group_bytes |-> 256]

MCSurfaces ==
    {Surface("color", "2D", cpp, 4, <<w, 80>>, 64, 2, 4, FALSE) : cpp \in {8, 16}, w \in {192, 195}}
    \cup {Surface("color", "1D", cpp, 1, <<20, 16>>, 24, 2, 4, FALSE) : cpp \in {1, 2, 4}}
    \cup {Surface("color", "2D", 4, 1, <<64, 32>>, 64, 4, 4, op) : op \in BOOLEAN}
    \cup {Surface("color", "2D", 2, 1, <<128, 16>>, 128, 2, 8, op) : op \in BOOLEAN}
    \cup {Surface("color", "2D", 4, 1, <<64, 64>>, 64, 8, 8, FALSE),
          Surface("color", "linear", 4, 1, <<20, 9>>, 24, 2, 4, FALSE),
          Surface("depth", "1D", 4, 1, <<16, 16>>, 16, 2, 4, FALSE),
          Surface("depth", "2D", 4, 1, <<32, 32>>, 32, 2, 4, FALSE)}

=============================================================================
