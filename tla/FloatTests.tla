----------------------------- MODULE FloatTests -----------------------------
(* One thread runs floating-point instructions on a core whose operands it  *)
(* loads afresh before each: the status register, CR and the host's flags   *)
(* are what is carried from one to the next.                                *)
EXTENDS FloatUnit, TLC

CONSTANTS Values,       \* the doubles that are loaded
          Steps         \* bound on the instructions of one run

VARIABLES core,         \* the registers
          before,       \* the registers before the last instruction
          instr,        \* the last instruction, NoInstr before the first
          steps

vars == <<core, before, instr, steps>>

NoInstr == [id |-> "none"]
Idle == instr = NoInstr

Binary == {"fadd", "fsub", "fdiv", "fcmpu", "fcmpo", "ps_add", "ps_sub",
           "ps_div", "ps_merge00", "ps_merge01", "ps_merge10", "ps_merge11",
           "ps_cmpu0", "ps_cmpu1", "ps_cmpo0", "ps_cmpo1"}
BinaryC == {"fmul", "ps_mul", "ps_muls0", "ps_muls1"}
Unary == {"fres", "frsqrte", "fctiw", "frsp", "fabs", "fnabs", "fneg", "fmr",
          "ps_abs", "ps_nabs", "ps_neg", "ps_mr", "ps_res", "ps_rsqrte"}
Ternary == {"fsel", "fmadd", "fmsub", "fnmadd", "fnmsub", "ps_madd",
            "ps_madds0", "ps_madds1", "ps_msub", "ps_nmadd", "ps_nmsub",
            "ps_sel", "ps_sum0", "ps_sum1"}
Scalar == {"fadd", "fsub", "fdiv", "fmul", "fres", "frsqrte", "fsel", "fmadd",
           "fmsub", "fnmadd", "fnmsub", "fctiw", "frsp", "fabs", "fnabs",
           "fneg", "fmr"} \cup DOMAIN FCmpFlags

\* Registers 1 to 3 hold the operands, 4 takes the result.
Registers == 1 .. 4
Default == Finite(0, One)
Gqr(type, scale) == [st_type |-> type, ld_type |-> type, st_scale |-> scale,
                     ld_scale |-> scale]

Fresh == [fpr |-> [r \in Registers |-> <<Default, Default>>],
          iw |-> [r \in Registers |-> 0],
          fpscr |-> {}, fprf |-> {}, cr |-> [f \in 0 .. 1 |-> 0], host |-> {},
          gpr |-> [r \in 0 .. 1 |-> 2],
          gqr |-> [g \in 0 .. 7 |->
                    CASE g = 0 -> Gqr("unsigned8", 0)
                      [] g = 1 -> Gqr("floating", 0)
                      [] g = 2 -> Gqr("signed8", 0)
                      [] g = 3 -> Gqr("unsigned16", 0)
                      [] g = 4 -> Gqr("signed16", 0)
                      [] g = 5 -> Gqr("signed16", 63)
                      [] g = 6 -> Gqr("unsigned16", 1)
                      [] g = 7 -> [Gqr("unsigned8", 1) EXCEPT !.st_scale = 63]],
          mem |-> [a \in 0 .. 11 |-> 0],
          fmem |-> [a \in 0 .. 11 |-> Zero(0)]]

Init == core = Fresh /\ before = Fresh /\ instr = NoInstr /\ steps = 0

Instruction(id) ==
    [id |-> id, frA |-> 1, frB |-> 2, frC |-> 3, frD |-> 4, frS |-> 1,
     crfD |-> 0, rc |-> 1]

execute(id, a, b, c) ==
    LET loaded == [core EXCEPT !.fpr[1] = a, !.fpr[2] = b, !.fpr[3] = c]
        i == Instruction(id)
    IN  /\ before' = loaded
        /\ instr' = i
        /\ core' = IF id \in Scalar THEN Float1(loaded, i)
                   ELSE Paired(loaded, i)
        /\ UNCHANGED steps

\* The second of a pair matters to the paired instructions only.
Pairs == {<<v, w>> : v \in Values, w \in {Default, Infinity(1)}}
Loaded(id) == IF id \in Scalar THEN {<<v, Default>> : v \in Values} ELSE Pairs
One3 == <<Default, Finite(0, 2 * One)>>

\* The tests that start from any status the instructions before have left.
BinaryTest ==
    /\ Idle
    /\ \/ \E id \in Binary : \E a, b \in Loaded(id) : execute(id, a, b, One3)
       \/ \E id \in BinaryC : \E a, c \in Loaded(id) : execute(id, a, One3, c)
UnaryTest ==
    Idle /\ \E id \in Unary : \E b \in Loaded(id) : execute(id, One3, b, One3)

\* Three operands, from the status of a new thread.
TernaryTest ==
    /\ Idle /\ steps = 0
    /\ \E id \in Ternary : \E a, b, c \in
           IF id \in Scalar THEN Loaded(id)
           ELSE {<<v, w>> : v \in Values, w \in {Default}} :
           execute(id, a, b, <<c[1], c[1]>>)

\* A quantized store to address 4, and a load of what it wrote.  Where the
\* indexed forms have their register and width, the others have bits of the
\* displacement.
StoreThenLoad == {<<"psq_stx", "psq_lux">>, <<"psq_stux", "psq_l">>,
                  <<"psq_st", "psq_lu">>, <<"psq_stu", "psq_l">>}
Indexed == {"psq_stx", "psq_stux", "psq_lx", "psq_lux"}
Psq(id, g, w, d) ==
    LET indexed == id \in Indexed
    IN  [id |-> id, frD |-> 4, frS |-> 1, rA |-> 1, rB |-> 0, i |-> g, w |-> w,
         qi |-> IF indexed THEN g ELSE (d \div 2^7) % 8,
         qw |-> IF indexed THEN w ELSE (d \div 2^10) % 2,
         qd |-> d, indexed |-> indexed]
Numbers == {Finite(sign, n) : sign \in {0, 1},
                n \in {0, 3, One, 127 * One, 128 * One, 255 * One, 300 * One}}
           \cup {Infinity(0), Infinity(1), QNaN}
PsqTest ==
    /\ Idle /\ steps = 0
    /\ \E forms \in StoreThenLoad, g \in DOMAIN core.gqr, w \in {0, 1},
          d \in {2, 2 + 3 * 2^7, 2 + 2^10}, v \in Numbers :
         LET store == Psq(forms[1], g, w, d)
             load == Psq(forms[2], g, w, IF forms[2] = "psq_l" THEN 0 ELSE d)
             stored == psqStore([core EXCEPT !.fpr[1] = <<v, Finite(0, 2 * One)>>,
                                             !.gpr = (0 :> d @@ 1 :> 4 - d)],
                                store)
         IN  /\ before' = stored
             /\ instr' = [id |-> load.id, store |-> store, load |-> load]
             /\ core' = psqLoad(stored, load)
             /\ UNCHANGED steps

\* The next instruction: the registers are loaded again.
NextInstruction ==
    /\ ~Idle
    /\ steps < Steps
    /\ core' = [Fresh EXCEPT !.fpscr = core.fpscr, !.host = core.host]
    /\ before' = core'
    /\ instr' = NoInstr
    /\ steps' = steps + 1

Next == \/ BinaryTest \/ UnaryTest \/ TernaryTest \/ PsqTest
        \/ NextInstruction

Spec == Init /\ [][Next]_vars

-----------------------------------------------------------------------------
Doubles == {v.kind : v \in {core.fpr[r][l] : r \in Registers, l \in Lanes}}
Arithmetic == instr.id \in ((Binary \cup BinaryC \cup Unary \cup Ternary)
                \ {"fabs", "fnabs", "fneg", "fmr", "fsel", "ps_abs", "ps_nabs",
                   "ps_neg", "ps_mr", "ps_sel", "ps_merge00", "ps_merge01",
                   "ps_merge10", "ps_merge11"}) \ DOMAIN FCmpFlags

\* Every register holds doubles, CR fields four bits, and a core's status
\* bits are those of FPSCR.
TypeOK ==
    /\ Doubles \subseteq {"zero", "denormal", "normal", "infinity", "qnan", "snan"}
    /\ core.fpscr \subseteq VxBits \cup Summaries \cup {"fx", "fex", "vx", "fi"}
    /\ core.host \subseteq DOMAIN HostBit
    /\ core.cr[0] \in 0 .. 15 /\ core.cr[1] \in 0 .. 15
    /\ \A a \in DOMAIN core.mem : core.mem[a] \in 0 .. 255

\* After any arithmetic instruction vx and fx sum up exactly the bits below
\* them, also when a compare left its order in their place.  Nothing in the
\* code sets an enable bit, so that no enabled exception is ever reported.
ExceptionSummary ==
    Arithmetic =>
        /\ ("vx" \in core.fpscr) <=> (core.fpscr \cap VxBits # {})
        /\ ("fx" \in core.fpscr) <=>
              (core.fpscr \cap (VxBits \cup Summaries) # {})
        /\ "fex" \notin core.fpscr
        /\ core.cr[1] = Cr1(core)

Operands ==
    CASE instr.id \in Binary -> {1, 2}
      [] instr.id \in BinaryC -> {1, 3}
      [] instr.id \in Unary -> {2}
      [] OTHER -> {1, 2, 3}

\* Where a NaN comes out of operands that are none, the instruction itself,
\* whatever those before it left, sets one of the invalid operation bits: the
\* paired instructions and the scalar sum and quotient.  (fmul, fmadd and
\* frsqrte lack cases of this.)
NanExplained ==
    /\ Arithmetic
    /\ instr.id \notin {"fmul", "fmadd", "fmsub", "fnmadd", "fnmsub", "frsqrte"}
    /\ \A r \in Operands, l \in Lanes : ~is_nan(before.fpr[r][l])
    /\ \E l \in Lanes : is_nan(core.fpr[4][l])
    => LET cleared == [before EXCEPT !.fpscr = {}]
           done == IF instr.id \in Scalar THEN Float1(cleared, instr)
                   ELSE Paired(cleared, instr)
       IN  /\ done.fpscr \cap VxBits # {}
           /\ done.fpscr \cap VxBits \subseteq core.fpscr

ScalarOf ==
    [ps_add |-> "fadd", ps_sub |-> "fsub", ps_div |-> "fdiv", ps_mul |-> "fmul",
     ps_muls0 |-> "fmul", ps_madd |-> "fmadd", ps_madds0 |-> "fmadd",
     ps_msub |-> "fmsub", ps_nmadd |-> "fnmadd", ps_nmsub |-> "fnmsub",
     ps_res |-> "fres", ps_rsqrte |-> "frsqrte", ps_sel |-> "fsel",
     ps_abs |-> "fabs", ps_nabs |-> "fnabs", ps_neg |-> "fneg", ps_mr |-> "fmr"]

\* The first lane of a paired instruction is the scalar instruction: the same
\* double and the same class of result, from any operands.
PairMatchesScalar ==
    instr.id \in DOMAIN ScalarOf =>
        LET scalar == Float1(before, [instr EXCEPT !.id = ScalarOf[instr.id]])
        IN  /\ core.fpr[4][1] = scalar.fpr[4][1]
            /\ core.fprf = scalar.fprf

SwappedId ==
    [ps_muls0 |-> "ps_muls1", ps_muls1 |-> "ps_muls0", ps_madds0 |-> "ps_madds1",
     ps_madds1 |-> "ps_madds0"]
LaneWise == {"ps_add", "ps_sub", "ps_div", "ps_mul", "ps_muls0", "ps_muls1",
             "ps_madd", "ps_madds0", "ps_madds1", "ps_msub", "ps_nmadd",
             "ps_nmsub", "ps_res", "ps_rsqrte", "ps_sel", "ps_abs", "ps_neg",
             "ps_nabs", "ps_mr"}
Swap(p) == <<p[2], p[1]>>

\* The lanes of a paired instruction are alike: with every pair swapped, and
\* the lane of a shared multiplier, the results are swapped and the status
\* bits and host flags are the same.
LanesAlike ==
    instr.id \in LaneWise =>
        LET id == IF instr.id \in DOMAIN SwappedId THEN SwappedId[instr.id]
                  ELSE instr.id
            swapped == Paired([before EXCEPT !.fpr =
                                  [r \in Registers |-> Swap(@[r])]],
                              [instr EXCEPT !.id = id])
        IN  /\ core.fpr[4] = Swap(swapped.fpr[4])
            /\ core.fpscr = swapped.fpscr
            /\ core.host = swapped.host

\* A compare puts the same order in its CR field and in FPSCR (where vx and
\* fx may be added), and it is the sign of the difference.
CompareBySubtraction ==
    LET half == IF instr.id \in {"ps_cmpu1", "ps_cmpo1"} THEN 2 ELSE 1
        Operand(r) == IF instr.id \in {"fcmpu", "fcmpo"} THEN before.fpr[r][1]
                      ELSE HostSingle(before.fpr[r][half]).value
        d == HostSub(Operand(1), Operand(2)).value
        class == updateFPRF(core, d).fprf
    IN  instr.id \in DOMAIN FCmpFlags =>
          /\ CASE Operand(1) = Operand(2) /\ ~is_nan(d) -> core.cr[0] = 2
               [] is_nan(Operand(1)) \/ is_nan(Operand(2)) -> core.cr[0] = 1
               [] "less" \in class /\ ~is_zero(d) -> core.cr[0] = 8
               [] "greater" \in class /\ ~is_zero(d) -> core.cr[0] = 4
               [] OTHER -> core.cr[0] = 2
          /\ \A n \in 1 .. 4 : core.cr[0] = 2^(4 - n) => Cr1Bits[n] \in core.fpscr

\* The power of two of a scale, as a numerator and a denominator.
Times(scale) == IF scale < 32 THEN <<1, 2^scale>> ELSE <<2^(64 - scale), 1>>

\* What a load returns, b, of a number v that was stored with a register.
\* Floats are rounded to single.  Of every other type, signed or not and of
\* either size, numbers below 0 are stored as 0 and those above 255 as 255,
\* and a signed byte above 127 is read back as a negative one.  The power of
\* two of the store is not undone by that of the load: it multiplies again.
Returns(v, b, gqr) ==
    LET st == Times(gqr.st_scale)
        ld == Times(gqr.ld_scale)
        n == CASE is_negative(v) \/ is_nan(v) -> 0
               [] is_infinity(v) \/ v.mag * st[1] > 255 * One * st[2] -> 255
               [] OTHER -> (v.mag * st[1]) \div (One * st[2])
        read == IF gqr.st_type = "signed8" /\ n > 127 THEN n - 256 ELSE n
    IN  IF gqr.st_type = "floating"
        THEN /\ b.sign = v.sign
             /\ IF v.mag % 2 = 0 THEN b = v ELSE b.mag - v.mag \in {-1, 1}
        ELSE b.kind # "infinity" /\ Units(b) * ld[2] = read * One * ld[1]

\* A pair comes back from memory as the code stores it, which is not as the
\* types' limits, the table of the stores (quantizeTable, which nothing uses)
\* and the fields of the displacement forms would have it: through the
\* register and of the width that a store takes from the indexed form's
\* fields in either form, the first number returns and, unless one of the two
\* is of a single number, so does the second.
PsqRoundTrip ==
    instr.id \in {"psq_l", "psq_lu", "psq_lux"} =>
        LET store == instr.store
            gqr == core.gqr[store.qi]
            back == IF instr.load.i = store.qi THEN core.fpr[4]
                    ELSE psqLoad(before, [instr.load EXCEPT !.i = store.qi,
                                                            !.qi = store.qi]).fpr[4]
        IN  /\ store.indexed => store.qi = instr.load.i /\ store.qw = instr.load.w
            /\ Returns(before.fpr[1][1], back[1], gqr)
            /\ CASE instr.load.w = 1 -> back[2] = Finite(0, One)
                 [] store.qw = 1 -> is_zero(back[2])
                 [] OTHER -> Returns(before.fpr[1][2], back[2], gqr)

\* The status register says what an instruction did: the summary bits follow
\* from the exceptions, a NaN that comes out of numbers is explained by one of
\* them, and a compare agrees with the sign of the difference.
StatusExplains ==
    /\ ExceptionSummary
    /\ NanExplained
    /\ CompareBySubtraction

\* A paired instruction is the scalar one done twice: its first lane is the
\* scalar instruction, and the lanes are alike.
PairsAreScalars == PairMatchesScalar /\ LanesAlike

-----------------------------------------------------------------------------
(* The instance that TLC checks: 1.0 is four units, the largest double      *)
(* 2047.75, the largest single 1000 and the smallest normal one 1.          *)

MCValues == {Zero(0), Zero(1), Finite(0, 1), Finite(1, 4), Finite(0, 6),
             Finite(0, MaxMag), Infinity(0), Infinity(1), QNaN,
             Float("snan", 0, 0)}

=============================================================================
