------------------------------- MODULE Tiling -------------------------------
(* Untiling of a surface (latte_tiling.cpp) by the offsets of its elements   *)
(* in tiled memory (mesa_r600_tiling.cpp), a row of elements a step.         *)
EXTENDS Integers, Sequences, FiniteSets, Functions

CONSTANT Surfaces   \* the surfaces: records with the fields below

\* use is "color" or "depth" (with its stencil); expand is 4 for a format of
\* blocks; pitch is in elements, cpp is the bytes of one.
ASSUME SurfacesAssumption ==
    \A s \in Surfaces :
        /\ s.use \in {"color", "depth"} /\ s.tiles \in {"linear", "1D", "2D"}
        /\ s.cpp \in {1, 2, 4, 8, 16} /\ s.expand \in {1, 4}
        /\ s.pitch >= s.width \div s.expand
        /\ s.num_channels \in {2, 4, 8} /\ s.num_banks \in {4, 8}

VARIABLES surface, line,
          taken          \* the places read: offsets in bytes, of each part

tilingVars == <<surface, line, taken>>

InitTiling == surface \in Surfaces /\ line = 0 /\ taken = {}

-----------------------------------------------------------------------------
(* Bits of the coordinates.                                                  *)

Bit(v, k) == (v \div 2 ^ k) % 2
X(k) == <<"x", k>>
Y(k) == <<"y", k>>
Coord(bit, x, y) == Bit(IF bit[1] = "x" THEN x ELSE y, bit[2])

\* The number whose bits, the lowest first, are parities of the coordinates'.
Number(parities, x, y) ==
    LET Odd(k) == Cardinality({bit \in parities[k] : Coord(bit, x, y) = 1}) % 2
    IN  FoldFunction(+, 0, [k \in DOMAIN parities |-> Odd(k) * 2 ^ (k - 1)])

\* r600_coord_within_microtile
r600_coord_within_microtile(cpp) ==
    CASE cpp = 1 -> <<{X(0)}, {X(1)}, {X(2)}, {Y(1)}, {Y(0)}, {Y(2)}>>
      [] cpp = 2 -> <<{X(0)}, {X(1)}, {X(2)}, {Y(0)}, {Y(1)}, {Y(2)}>>
      [] cpp = 4 -> <<{X(0)}, {X(1)}, {Y(0)}, {X(2)}, {Y(1)}, {Y(2)}>>
      [] cpp = 8 -> <<{X(0)}, {Y(0)}, {X(1)}, {X(2)}, {Y(1)}, {Y(2)}>>
      [] cpp = 16 -> <<{Y(0)}, {X(0)}, {X(1)}, {X(2)}, {Y(1)}, {Y(2)}>>

DepthMicrotile == <<{X(0)}, {Y(0)}, {X(1)}, {Y(1)}, {X(2)}, {Y(2)}>>

\* Where an element is in its tile: in one of 4 bytes, the stencil tile comes
\* before that of the depth.
element_offset(s, part, x, y) ==
    LET depth == Number(DepthMicrotile, x, y)
    IN  CASE part = "color" -> s.cpp * Number(r600_coord_within_microtile(s.cpp), x, y)
          [] part # "color" /\ s.cpp = 2 -> 2 * depth
          [] part = "stencil" /\ s.cpp = 4 -> depth
          [] part = "depth" /\ s.cpp = 4 -> 3 * depth + 64
          [] OTHER -> 0

tile_bytes(s) == 64 * s.cpp

r600_1d_tile_helper(s, part, x, y) ==
    (((y \div 8) * (s.pitch \div 8)) + (x \div 8)) * tile_bytes(s)
      + element_offset(s, part, x, y)

log2(n) == CHOOSE k \in 0 .. 8 : 2 ^ k = n

MutantChannel(s) == <<{X(4), Y(3)}>>

Channel(s) ==
    CASE s.num_channels = 4 -> <<{X(4), Y(3)}, {X(3), Y(4)}>>
      [] s.num_channels = 8 -> <<{X(5), Y(3)}, {X(4), X(5), Y(4)}, {X(3), Y(5)}>>
      [] OTHER -> <<{X(3), Y(3)}>>

Bank(s) ==
    LET c == log2(s.num_channels)
        op(bit) == IF s.r7xx_bank_op THEN {bit} ELSE {}
    IN  CASE s.num_banks = 4 ->
               <<{X(3), Y(4 + c)}, {X(4), Y(3 + c)} \cup op(X(5))>>
          [] s.num_banks = 8 ->
               <<{X(3), Y(5 + c)}, {X(4), Y(4 + c), Y(5 + c)}, {X(5), Y(3 + c)} \cup op(X(6))>>

\* A macro tile has a tile for every bank and channel, whose groups of bytes
\* alternate in memory.
r600_2d_tile_helper(s, part, x, y) ==
    LET spread == s.num_channels * s.num_banks
        perRow == (s.pitch \div 8) \div s.num_banks
        macro == ((y \div 8) \div s.num_channels) * perRow + ((x \div 8) \div s.num_banks)
        total == macro * tile_bytes(s) + element_offset(s, part, x, y)
        low == total % s.group_bytes
    IN  Number(Bank(s), x, y) * s.group_bytes * s.num_channels
          + Number(Channel(s), x, y) * s.group_bytes + low + (total - low) * spread

\* r600_ptr_color, r600_ptr_depth and r600_ptr_stencil: a color surface need
\* not be tiled.
r600_ptr(s, part, x, y) ==
    CASE s.tiles = "2D" -> r600_2d_tile_helper(s, part, x, y)
      [] s.tiles = "linear" /\ part = "color" -> x * s.cpp + y * s.pitch * s.cpp
      [] OTHER -> r600_1d_tile_helper(s, part, x, y)

-----------------------------------------------------------------------------
(* untileSurface.  Its surfaces are color ones; a depth surface is read as   *)
(* its pointers would be used.                                               *)

PartsOf(s) == IF s.use = "color" THEN {"color"} ELSE {"depth", "stencil"}

Width(s) == s.width \div s.expand
Height(s) == s.height \div s.expand

UntileRow ==
    /\ line < Height(surface)
    /\ taken' = taken \cup {<<p, r600_ptr(surface, p, x, line)>> :
                              p \in PartsOf(surface), x \in 0 .. Width(surface) - 1}
    /\ line' = line + 1
    /\ UNCHANGED surface

-----------------------------------------------------------------------------
(* Correctness.                                                              *)

PartSize(s, part) == CASE part = "stencil" -> 1
                       [] part = "depth" /\ s.cpp = 4 -> 3
                       [] OTHER -> s.cpp

Padded(n, unit) == ((n + unit - 1) \div unit) * unit
Rows(s) == Padded(Height(s), CASE s.tiles = "linear" -> 1
                               [] s.tiles = "1D" -> 8
                               [] s.tiles = "2D" -> 8 * s.num_channels)

\* However a surface is tiled, the elements that untileSurface reads are places
\* in its memory that do not overlap: so the surface is taken out of the tiles
\* whole.  (Of a size that is not one of whole blocks, latte_tiling.cpp:36 has
\* left out the last of them.)
Untiles ==
    /\ Cardinality(taken) = line * Width(surface) * Cardinality(PartsOf(surface))
    /\ \A e \in taken :
          /\ 0 <= e[2] /\ e[2] + PartSize(surface, e[1]) <= surface.pitch * Rows(surface) * surface.cpp
          /\ \A k \in 1 .. PartSize(surface, e[1]) - 1 : \A p \in PartsOf(surface) :
                <<p, e[2] + k>> \notin taken
          /\ \A p \in PartsOf(surface) \ {e[1]} : <<p, e[2]>> \notin taken

=============================================================================
