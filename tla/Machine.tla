----------------------------- MODULE Machine -----------------------------
(* The machine words of the emulated processor and the bit operations on    *)
(* them (bitutils.h), the registers of an emulated thread (state.h) and the *)
(* accessors of the condition register and of XER that every instruction unit *)
(* uses.  The code's words have 32 bits; here they have Width, and what the *)
(* code writes with 31, 32, 0x1f, 0x20, 16 and 8 is written with Width, Half *)
(* and Quarter.  A state is a record s, an instruction a record i whose fields *)
(* are those of instructionfields.inl; rS and rD are one field of the encoding. *)
EXTENDS Integers, FiniteSets, Sequences, Bitwise

CONSTANT Width

\* Byte, half word and word are of different sizes, and the shift amounts of
\* a word are those of its low bits.
ASSUME WidthAssumption == Width \in {8, 16}

Half == Width \div 2
Quarter == Width \div 4
Word == 0 .. 2^Width - 1
AllOnes == 2^Width - 1
MinSigned == 2^(Width - 1)

Wrap(n) == n % 2^Width
Complement(x) == AllOnes - x
Signed(x) == IF x >= MinSigned THEN x - 2^Width ELSE x

get_bit(x, n) == (x \div 2^n) % 2
SignBit(x) == get_bit(x, Width - 1)
set_bit_value(x, n, v) == x + ((v % 2) - get_bit(x, n)) * 2^n

ShiftLeft(x, n) == Wrap(x * 2^n)
ShiftRight(x, n) == x \div 2^n
RotateLeft(x, n) == ShiftLeft(x, n) + ShiftRight(x, Width - n)

\* The ones from bit mb to bit me, counted from the most significant, around
\* the end of the word when me comes before mb.
make_ppc_bitmask(mb, me) ==
    LET begin == ShiftRight(AllOnes, mb)
        end == IF me < Width - 1 THEN ShiftRight(AllOnes, me + 1) ELSE 0
        mask == begin ^^ end
    IN  IF me < mb THEN Complement(mask) ELSE mask

\* The low bits of x, its bit number bits - 1 repeated above them.
sign_extend(x, bits) ==
    LET low == x % 2^bits
    IN  IF get_bit(low, bits - 1) = 1 THEN low + 2^Width - 2^bits ELSE low

\* A byte has a quarter of a word's bits; byte k counts from the lowest.
ByteValue == 2^Quarter
ByteOf(x, k) == (x \div ByteValue^k) % ByteValue

-----------------------------------------------------------------------------
\* Condition register fields, cr0 the most significant (cr_t).
CrField == 0 .. (Width \div 4 - 1)
CrfShift(field) == (Width \div 4 - 1 - field) * 4
LessThan == 8
GreaterThan == 4
Equal == 2

\* XER (xer_t): the summary overflow, overflow and carry bits at the top, the
\* byte count at the bottom.  Its member crxr is not these bits: declared as a
\* plain uint32_t after 28 bits of a bit field, it is the word after them.
SoBit == Width - 1
OvBit == Width - 2
CaBit == Width - 3
So(s) == get_bit(s.xer, SoBit)
Ov(s) == get_bit(s.xer, OvBit)
Ca(s) == get_bit(s.xer, CaBit)

getCRF(s, field) == ShiftRight(s.cr, CrfShift(field)) % 16

\* The value is not cut to the four bits of the field.
setCRF(s, field, value) ==
    LET cleared == s.cr - getCRF(s, field) * 2^CrfShift(field)
    IN  [s EXCEPT !.cr = cleared | ShiftLeft(value, CrfShift(field))]

getCRB(s, bit) == get_bit(s.cr, Width - 1 - bit)
setCRB(s, bit, value) ==
    [s EXCEPT !.cr = set_bit_value(@, Width - 1 - bit, value)]

\* The value of an operand that reads zero from register 0.
GprOrZero(s, r) == IF r = 0 THEN 0 ELSE s.gpr[r]

\* Big-endian memory: n bytes of s from address ea, and a value stored there.
\* Addresses wrap at the end of the address space.
ReadBytes(s, ea, n) ==
    LET byte[k \in 0 .. n] ==
            IF k = 0 THEN 0
            ELSE byte[k - 1] * ByteValue + s.mem[Wrap(ea + k - 1)]
    IN  byte[n]

WriteBytes(s, ea, n, value) ==
    LET at == [k \in {Wrap(ea + j) : j \in 0 .. n - 1} |-> Wrap(k - ea)]
    IN  [s EXCEPT !.mem = [k \in DOMAIN @ |->
            IF k \in DOMAIN at THEN ByteOf(value, n - 1 - at[k]) ELSE @[k]]]

\* mem.h's readNoSwap and writeNoSwap leave the bytes in the other order.
SwapBytes(value, n) ==
    LET swapped[k \in 0 .. n] ==
            IF k = 0 THEN 0
            ELSE swapped[k - 1] * ByteValue + ByteOf(value, k - 1)
    IN  swapped[n]

=============================================================================
