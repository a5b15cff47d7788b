---------------------------- MODULE FloatUnit ----------------------------
(* The floating-point instructions of the interpreter                       *)
(* (interpreter_float.cpp), the compares of interpreter_condition.cpp and   *)
(* the status register FPSCR.  The arithmetic is the host's: a finite       *)
(* double is a number of units, One of them to 1.0, up to MaxMag, and an    *)
(* operation raises the host's exception flags, which nothing clears.       *)
(* A state s is a record: fpr (pairs of doubles), fpscr and fprf (sets of   *)
(* bits), cr (a value for each field), host (the raised flags) and iw (the  *)
(* low word of each double that a conversion wrote).                        *)
EXTENDS Integers, FiniteSets

CONSTANTS One,          \* the units of 1.0
          MaxMag,       \* the units of the largest double
          MinSingle,    \* the units of the smallest normal single
          MaxSingle,    \* the units of the largest single
          MaxInt        \* the largest integer of a conversion

ASSUME FloatAssumption ==
    /\ One \in Nat \ {0} /\ MaxMag \in Nat /\ MaxInt \in Nat /\ One < MaxMag
    /\ MinSingle \in Nat /\ MaxSingle \in Nat /\ MinSingle < MaxSingle

\* Doubles.  One unit is below the normal range.
Float(kind, sign, mag) == [kind |-> kind, sign |-> sign, mag |-> mag]
Zero(sign) == Float("zero", sign, 0)
Infinity(sign) == Float("infinity", sign, 0)
QNaN == Float("qnan", 1, 0)
Finite(sign, mag) ==
    CASE mag = 0 -> Zero(sign)
      [] mag = 1 -> Float("denormal", sign, 1)
      [] OTHER -> Float("normal", sign, mag)

is_zero(v) == v.kind = "zero"
is_infinity(v) == v.kind = "infinity"
is_nan(v) == v.kind \in {"qnan", "snan"}
is_signalling_nan(v) == v.kind = "snan"
is_negative(v) == v.sign = 1

Units(v) == IF v.sign = 1 THEN -v.mag ELSE v.mag
Negate(v) == [v EXCEPT !.sign = 1 - @]
Abs(v) == [v EXCEPT !.sign = 0]

-----------------------------------------------------------------------------
(* The host's arithmetic, rounding to nearest.  A result r has a value and  *)
(* the flags the operation raises.                                          *)

Exact(v) == [value |-> v, raised |-> {}]

\* The quotient num / den, as a double.
RoundNearest(sign, num, den) ==
    LET low == num \div den
        twice == 2 * (num - low * den)
        near == IF twice > den \/ (twice = den /\ low % 2 = 1) THEN low + 1
                ELSE low
    IN  IF near > MaxMag
        THEN [value |-> Infinity(sign), raised |-> {"overflow", "inexact"}]
        ELSE [value |-> Finite(sign, near),
              raised |-> IF twice = 0 THEN {}
                         ELSE IF near < 2 THEN {"underflow", "inexact"}
                         ELSE {"inexact"}]

QuietNaN(x, y) ==
    [value |-> [(IF is_nan(x) THEN x ELSE y) EXCEPT !.kind = "qnan"],
     raised |-> {}]

HostAdd(x, y) ==
    LET n == Units(x) + Units(y)
        sign == IF n = 0 THEN x.sign * y.sign ELSE IF n < 0 THEN 1 ELSE 0
    IN  CASE is_nan(x) \/ is_nan(y) -> QuietNaN(x, y)
          [] is_infinity(x) /\ is_infinity(y) ->
                Exact(IF x.sign = y.sign THEN x ELSE QNaN)
          [] is_infinity(x) -> Exact(x)
          [] is_infinity(y) -> Exact(y)
          [] OTHER -> RoundNearest(sign, IF n < 0 THEN -n ELSE n, 1)

HostSub(x, y) == HostAdd(x, IF is_nan(y) THEN y ELSE Negate(y))

HostMul(x, y) ==
    LET sign == (x.sign + y.sign) % 2
    IN  CASE is_nan(x) \/ is_nan(y) -> QuietNaN(x, y)
          [] (is_infinity(x) /\ is_zero(y)) \/ (is_zero(x) /\ is_infinity(y)) ->
                Exact(QNaN)
          [] is_infinity(x) \/ is_infinity(y) -> Exact(Infinity(sign))
          [] OTHER -> RoundNearest(sign, x.mag * y.mag, One)

HostDiv(x, y) ==
    LET sign == (x.sign + y.sign) % 2
    IN  CASE is_nan(x) \/ is_nan(y) -> QuietNaN(x, y)
          [] (is_infinity(x) /\ is_infinity(y)) \/ (is_zero(x) /\ is_zero(y)) ->
                Exact(QNaN)
          [] is_infinity(x) -> Exact(Infinity(sign))
          [] is_infinity(y) -> Exact(Zero(sign))
          [] is_zero(y) -> [value |-> Infinity(sign), raised |-> {"divbyzero"}]
          [] OTHER -> RoundNearest(sign, x.mag * One, y.mag)

HostSqrt(x) ==
    LET square == x.mag * One
        root == CHOOSE n \in 0 .. MaxMag :
                    n * n <= square /\ square < (n + 1) * (n + 1)
        near == IF square > root * root + root THEN root + 1 ELSE root
    IN  CASE is_nan(x) -> QuietNaN(x, x)
          [] is_zero(x) -> Exact(x)
          [] is_negative(x) -> Exact(QNaN)
          [] is_infinity(x) -> Exact(x)
          [] OTHER -> [value |-> Finite(0, near),
                       raised |-> IF root * root = square THEN {}
                                  ELSE {"inexact"}]

\* To single precision and back: a single is an even number of units, and its
\* range is narrower at both ends.
HostSingle(x) ==
    LET near == 2 * ((x.mag + (IF x.mag % 4 = 3 THEN 1 ELSE 0)) \div 2)
    IN  CASE is_nan(x) -> QuietNaN(x, x)
          [] is_infinity(x) -> Exact(x)
          [] near > MaxSingle ->
                [value |-> Infinity(x.sign), raised |-> {"overflow", "inexact"}]
          [] OTHER ->
                [value |-> Finite(x.sign, near),
                 raised |-> IF near = x.mag THEN {}
                            ELSE IF near < MinSingle THEN {"underflow", "inexact"}
                            ELSE {"inexact"}]

\* A double that came from a single, as a single is classified.
ClassedAsSingle(v) ==
    IF v.kind = "normal" /\ v.mag < MinSingle THEN [v EXCEPT !.kind = "denormal"]
    ELSE v

\* Of the comparisons of the host at most one holds, of a NaN none.
HostLess(x, y) ==
    /\ ~is_nan(x) /\ ~is_nan(y)
    /\ CASE is_infinity(x) -> x.sign = 1 /\ y # x
         [] is_infinity(y) -> y.sign = 0
         [] OTHER -> Units(x) < Units(y)
HostEqual(x, y) == ~is_nan(x) /\ ~is_nan(y) /\ ~HostLess(x, y) /\ ~HostLess(y, x)

\* A second operation on the result of a first.
Then(r, Op(_, _), y) ==
    LET second == Op(r.value, y)
    IN  [value |-> second.value, raised |-> r.raised \cup second.raised]

-----------------------------------------------------------------------------
(* The status register.                                                     *)

VxBits == {"vxsnan", "vxisi", "vxidi", "vxzdz", "vximz", "vxvc", "vxsqrt",
           "vxsoft", "vxcvi"}
HostBit == [overflow |-> "ox", underflow |-> "ux", divbyzero |-> "zx",
            inexact |-> "xx"]
EnableBit == [vx |-> "ve", ox |-> "oe", ux |-> "ue", zx |-> "ze", xx |-> "xe"]
Summaries == {"ox", "ux", "zx", "xx"}

Put(bits, name, holds) == IF holds THEN bits \cup {name} ELSE bits \ {name}
Add(bits, name, holds) == IF holds THEN bits \cup {name} ELSE bits

\* fex is computed with vx as the instruction before left it; the flags are
\* those of every operation the host thread has done.
updateFPSCR(s) ==
    LET raised == s.fpscr \cup {HostBit[f] : f \in s.host}
        fex == \E e \in DOMAIN EnableBit : {e, EnableBit[e]} \subseteq raised
        vx == raised \cap VxBits # {}
        fx == vx \/ raised \cap Summaries # {}
        inexact == Put(raised \ {"fr"}, "fi", "inexact" \in s.host)
    IN  [s EXCEPT !.fpscr = Put(Put(Put(inexact, "fex", fex), "vx", vx),
                                "fx", fx)]

updateFPRF(s, v) ==
    LET class == CASE is_nan(v) -> {"class", "unordered"}
                   [] is_infinity(v) -> {"unordered"}
                   [] v.kind = "denormal" -> {"class"}
                   [] is_zero(v) -> {"equal"}
                   [] OTHER -> {}
        order == IF is_nan(v) THEN {}
                 ELSE IF is_negative(v) THEN {"less"} ELSE {"greater"}
    IN  [s EXCEPT !.fprf = class \cup order]

\* The top four bits of FPSCR, and the bit of a CR field at the same place.
Cr1Bits == <<"fx", "fex", "vx", "ox">>
Cr1(s) ==
    LET b(n, w) == IF Cr1Bits[n] \in s.fpscr THEN w ELSE 0
    IN  b(1, 8) + b(2, 4) + b(3, 2) + b(4, 1)

updateFloatConditionRegister(s, i) ==
    IF i.rc = 1 THEN [s EXCEPT !.cr[1] = Cr1(s)] ELSE s

\* The status bits, the flags the arithmetic raised, then the results: the
\* result flags are those of the first of the pair.
Finish(s, i, bits, r) ==
    LET done == updateFPSCR([s EXCEPT !.fpscr = bits, !.host = @ \cup r.raised])
        stored == [updateFPRF(done, r.value) EXCEPT !.fpr[i.frD][1] = r.value]
    IN  updateFloatConditionRegister(stored, i)

-----------------------------------------------------------------------------
(* The scalar floating-point instructions (interpreter_float.cpp) and the   *)
(* compares (interpreter_condition.cpp).                                    *)

frA(s, i) == s.fpr[i.frA][1]
frB(s, i) == s.fpr[i.frB][1]
frC(s, i) == s.fpr[i.frC][1]

AnySignalling(S) == \E v \in S : is_signalling_nan(v)

\* fadd and fsub: two infinities are taken for an invalid sum whatever their
\* signs.
fadd(s, i, subtract) ==
    LET a == frA(s, i)
        b == frB(s, i)
        isi == Put(s.fpscr, "vxisi", is_infinity(a) /\ is_infinity(b))
        bits == Put(isi, "vxsnan", AnySignalling({a, b}))
    IN  Finish(s, i, bits, IF subtract THEN HostSub(a, b) ELSE HostAdd(a, b))

fsub(s, i) == fadd(s, i, TRUE)

fdiv(s, i) ==
    LET a == frA(s, i)
        b == frB(s, i)
        zdz == Put(s.fpscr, "vxzdz", is_zero(a) /\ is_zero(b))
        idi == Put(zdz, "vxidi", is_infinity(a) /\ is_infinity(b))
    IN  Finish(s, i, Put(idi, "vxsnan", AnySignalling({a, b})), HostDiv(a, b))

\* Zero times infinity is invalid only in that order of the operands.
fmul(s, i) ==
    LET a == frA(s, i)
        c == frC(s, i)
        imz == Put(s.fpscr, "vximz", is_infinity(a) /\ is_zero(c))
    IN  Finish(s, i, Put(imz, "vxsnan", AnySignalling({a, c})), HostMul(a, c))

fres(s, i) ==
    LET b == frB(s, i)
    IN  Finish(s, i, Add(s.fpscr, "vxsnan", is_signalling_nan(b)),
               HostDiv(Finite(0, One), b))

\* The reciprocal of a root: a negative operand is no invalid square root.
frsqrte(s, i) ==
    LET b == frB(s, i)
        snan == Add(s.fpscr, "vxsnan", is_signalling_nan(b))
        Reciprocal(x, y) == HostDiv(y, x)
    IN  Finish(s, i, Add(snan, "vxsqrt", is_signalling_nan(b)),
               Then(HostSqrt(b), Reciprocal, Finite(0, One)))

\* A NaN selects frB.
fsel(s, i) ==
    LET a == frA(s, i)
        d == IF HostLess(a, Zero(0)) \/ is_nan(a) THEN frB(s, i) ELSE frC(s, i)
    IN  updateFloatConditionRegister([s EXCEPT !.fpr[i.frD][1] = d], i)

\* The invalid infinities are looked for in the product and in frC.
fmaddGeneric(s, i, subtract, negate) ==
    LET a == frA(s, i)
        b == frB(s, i)
        c == frC(s, i)
        product == HostMul(a, c)
        sum == IF subtract THEN Then(product, HostSub, b)
               ELSE Then(product, HostAdd, b)
        infinite == is_infinity(product.value)
        snan == Put(s.fpscr, "vxsnan", AnySignalling({a, b, c}))
        isi == Put(snan, "vxisi", infinite \/ is_infinity(c))
    IN  Finish(s, i, Put(isi, "vximz", infinite /\ is_zero(c)),
               IF negate THEN [sum EXCEPT !.value = Negate(@)] ELSE sum)

\* The low word of a double takes the integer.
WithLowWord(v, n) ==
    CASE n # 0 /\ is_zero(v) -> Float("denormal", v.sign, 1)
      [] n # 0 /\ is_infinity(v) -> Float("snan", v.sign, 0)
      [] OTHER -> v

\* The cast of 0x80000000 to double is positive: every number up to the
\* largest integer is below it, and only a NaN is converted, to the host's
\* integer indefinite.
Overflows(v) == HostLess(Finite(0, MaxInt * One), v)
Underflows(v) == HostLess(v, Finite(0, (MaxInt + 1) * One))

ConvertedWord(v) ==
    IF Overflows(v) THEN MaxInt ELSE -(MaxInt + 1)

fctiw(s, i) ==
    LET b == frB(s, i)
        n == ConvertedWord(b)
        cvi == Add(s.fpscr, "vxcvi",
                   Overflows(b) \/ Underflows(b) \/ is_signalling_nan(b))
        done == updateFPSCR([s EXCEPT
                    !.fpscr = Add(cvi, "vxsnan", is_signalling_nan(b))])
        stored == [done EXCEPT !.fpr[i.frD][1] = WithLowWord(@, n),
                               !.iw[i.frD] = n]
    IN  updateFloatConditionRegister(stored, i)

\* The result flags are those of the single.
frsp(s, i) ==
    LET b == frB(s, i)
        d == HostSingle(b)
        done == Finish(s, i, Add(s.fpscr, "vxsnan", is_signalling_nan(b)), d)
    IN  updateFPRF(done, ClassedAsSingle(d.value))

\* Moves leave the status alone, and the second of the pair.
Moved(id, v) ==
    CASE id = "fabs" -> Abs(v)
      [] id = "fnabs" -> Negate(Abs(v))
      [] id = "fneg" -> Negate(v)
      [] id = "fmr" -> v

Move(s, i) ==
    updateFloatConditionRegister(
        [s EXCEPT !.fpr[i.frD][1] = Moved(i.id, frB(s, i))], i)

\* What a compare looks at and whether it is ordered.
FCmpFlags ==
    [fcmpo |-> {"Ordered"}, fcmpu |-> {}, ps_cmpo0 |-> {"Ordered"},
     ps_cmpo1 |-> {"Ordered", "Single1"}, ps_cmpu0 |-> {},
     ps_cmpu1 |-> {"Single1"}]

\* The paired compares round their operands to single.  The bits of the
\* order also go to the top four bits of FPSCR, over fx, fex, vx and ox.
fcmpGeneric(s, i, flags) ==
    LET Operand(v) == IF i.id \in {"fcmpo", "fcmpu"} THEN v
                      ELSE HostSingle(v).value
        half == IF "Single1" \in flags THEN 2 ELSE 1
        a == Operand(s.fpr[i.frA][half])
        b == Operand(s.fpr[i.frB][half])
        raised == IF i.id \in {"fcmpo", "fcmpu"} THEN {}
                  ELSE HostSingle(s.fpr[i.frA][half]).raised
                        \cup HostSingle(s.fpr[i.frB][half]).raised
        order == CASE HostLess(a, b) -> 1
                   [] HostLess(b, a) -> 2
                   [] HostEqual(a, b) -> 3
                   [] OTHER -> 4
        snan == AnySignalling({a, b})
        ordered == "Ordered" \in flags
        bits == Add(Add(s.fpscr, "vxsnan", order = 4 /\ snan),
                    "vxvc", /\ order = 4 /\ ordered
                            /\ snan => "ve" \in s.fpscr)
        over == (bits \ {Cr1Bits[n] : n \in 1 .. 4}) \cup {Cr1Bits[order]}
        vx == Add(over, "vx", "vxvc" \in over)
    IN  [s EXCEPT !.cr[i.crfD] = 2^(4 - order),
                  !.host = @ \cup raised,
                  !.fpscr = Add(vx, "fx", "vx" \in vx)]

\* Single-precision instructions are the double-precision ones.
Float1(s, i) ==
    CASE i.id \in {"fadd", "fadds"} -> fadd(s, i, FALSE)
      [] i.id \in {"fsub", "fsubs"} -> fsub(s, i)
      [] i.id \in {"fdiv", "fdivs"} -> fdiv(s, i)
      [] i.id \in {"fmul", "fmuls"} -> fmul(s, i)
      [] i.id = "fres" -> fres(s, i)
      [] i.id = "frsqrte" -> frsqrte(s, i)
      [] i.id = "fsel" -> fsel(s, i)
      [] i.id \in {"fmadd", "fmadds"} -> fmaddGeneric(s, i, FALSE, FALSE)
      [] i.id \in {"fmsub", "fmsubs"} -> fmaddGeneric(s, i, TRUE, FALSE)
      [] i.id \in {"fnmadd", "fnmadds"} -> fmaddGeneric(s, i, FALSE, TRUE)
      [] i.id \in {"fnmsub", "fnmsubs"} -> fmaddGeneric(s, i, TRUE, TRUE)
      [] i.id \in {"fctiw", "fctiwz"} -> fctiw(s, i)
      [] i.id = "frsp" -> frsp(s, i)
      [] i.id \in {"fabs", "fnabs", "fneg", "fmr"} -> Move(s, i)
      [] i.id \in DOMAIN FCmpFlags -> fcmpGeneric(s, i, FCmpFlags[i.id])

-----------------------------------------------------------------------------
(* The paired-single instructions (interpreter_pairedsingle.cpp) and the    *)
(* quantized loads and stores of interpreter_loadstore.cpp.  Their state    *)
(* adds gqr (the quantization registers), gpr, mem (bytes) and fmem (the    *)
(* floats stored at an address).                                            *)

Lanes == 1 .. 2
Both(Op(_)) == <<Op(1), Op(2)>>
SomeLane(P(_)) == P(1) \/ P(2)

\* An invalid operation of either lane is added to the status.
FinishPair(s, i, bits, r) ==
    LET first == [r[1] EXCEPT !.raised = @ \cup r[2].raised]
    IN  [Finish(s, i, bits, first) EXCEPT !.fpr[i.frD][2] = r[2].value]

PairSignalling(S) == \E v \in S : is_signalling_nan(v[1]) \/ is_signalling_nan(v[2])

ps_add(s, i, subtract) ==
    LET a == s.fpr[i.frA]
        b == s.fpr[i.frB]
        Isi(l) == is_infinity(a[l]) /\ is_infinity(b[l])
        Sum(l) == IF subtract THEN HostSub(a[l], b[l]) ELSE HostAdd(a[l], b[l])
        isi == Add(s.fpscr, "vxisi", SomeLane(Isi))
    IN  FinishPair(s, i, Add(isi, "vxsnan", PairSignalling({a, b})), Both(Sum))

ps_sub(s, i) == ps_add(s, i, TRUE)

ps_div(s, i) ==
    LET a == s.fpr[i.frA]
        b == s.fpr[i.frB]
        Idi(l) == is_infinity(a[l]) /\ is_infinity(b[l])
        Zdz(l) == is_zero(a[l]) /\ is_zero(b[l])
        Quotient(l) == HostDiv(a[l], b[l])
        bits == Add(Add(s.fpscr, "vxidi", SomeLane(Idi)), "vxzdz", SomeLane(Zdz))
    IN  FinishPair(s, i, Add(bits, "vxsnan", PairSignalling({a, b})),
                   Both(Quotient))

\* Mutant: the two scalar forms are swapped.
MutantMultiplier(s, i) ==
    LET c == s.fpr[i.frC]
    IN  CASE i.id \in {"ps_muls1", "ps_madds1"} -> <<c[1], c[1]>>
          [] i.id \in {"ps_muls0", "ps_madds0"} -> <<c[2], c[2]>>
          [] OTHER -> c

\* The multiplier: both lanes of frC, or one of them twice.
Multiplier(s, i) ==
    LET c == s.fpr[i.frC]
    IN  CASE i.id \in {"ps_muls0", "ps_madds0"} -> <<c[1], c[1]>>
          [] i.id \in {"ps_muls1", "ps_madds1"} -> <<c[2], c[2]>>
          [] OTHER -> c

\* Mutant: the order of the operands matters, as in fmul.
MutantZeroTimesInfinity(a, c) == is_infinity(a) /\ is_zero(c)

ZeroTimesInfinity(a, c) ==
    (is_infinity(a) /\ is_zero(c)) \/ (is_zero(a) /\ is_infinity(c))

mulGeneric(s, i) ==
    LET a == s.fpr[i.frA]
        c == Multiplier(s, i)
        Imz(l) == ZeroTimesInfinity(a[l], c[l])
        Product(l) == HostMul(a[l], c[l])
        imz == Add(s.fpscr, "vximz", SomeLane(Imz))
    IN  FinishPair(s, i, Add(imz, "vxsnan", PairSignalling({a, c})),
                   Both(Product))

maddGeneric(s, i, subtract, negate) ==
    LET a == s.fpr[i.frA]
        b == s.fpr[i.frB]
        c == Multiplier(s, i)
        Product(l) == HostMul(a[l], c[l])
        Isi(l) == is_infinity(Product(l).value) /\ is_infinity(b[l])
        Imz(l) == ZeroTimesInfinity(a[l], c[l])
        Sum(l) == LET r == IF subtract THEN Then(Product(l), HostSub, b[l])
                             ELSE Then(Product(l), HostAdd, b[l])
                  IN  IF negate THEN [r EXCEPT !.value = Negate(@)] ELSE r
        bits == Add(Add(s.fpscr, "vxisi", SomeLane(Isi)), "vximz", SomeLane(Imz))
    IN  FinishPair(s, i, Add(bits, "vxsnan", PairSignalling({a, b, c})), Both(Sum))

msubGeneric(s, i, negate) == maddGeneric(s, i, TRUE, negate)

ps_res(s, i) ==
    LET b == s.fpr[i.frB]
        IsZero(l) == is_zero(b[l])
        Reciprocal(l) == HostDiv(Finite(0, One), b[l])
        bits == Add(s.fpscr, "vxsnan", PairSignalling({b}))
    IN  FinishPair(s, i, Add(bits, "zx", SomeLane(IsZero)), Both(Reciprocal))

ps_rsqrte(s, i) ==
    LET b == s.fpr[i.frB]
        Below(l) == is_negative(b[l])
        Over(x, y) == HostDiv(y, x)
        Reciprocal(l) == Then(HostSqrt(b[l]), Over, Finite(0, One))
        bits == Add(s.fpscr, "vxsnan", PairSignalling({b}))
    IN  FinishPair(s, i, Add(bits, "vxsqrt", SomeLane(Below)), Both(Reciprocal))

\* The sum of the first of frA and the second of frB, beside a lane of frC.
sumGeneric(s, i, lane) ==
    LET a == s.fpr[i.frA][1]
        b == s.fpr[i.frB][2]
        c == s.fpr[i.frC]
        isi == Add(s.fpscr, "vxisi", is_infinity(a) /\ is_infinity(b))
        bits == Add(isi, "vxsnan", AnySignalling({a, b, c[1], c[2]}))
    IN  FinishPair(s, i, bits,
                   [l \in Lanes |-> IF l = lane THEN HostAdd(a, b)
                                    ELSE Exact(c[l])])

\* Moves, merges and the select leave the status alone.
MovePair(s, i, pair) ==
    updateFloatConditionRegister([s EXCEPT !.fpr[i.frD] = pair], i)

ps_abs(s, i) ==
    LET b == s.fpr[i.frB] IN MovePair(s, i, <<Abs(b[1]), Abs(b[2])>>)

ps_neg(s, i, absolute) ==
    LET b == s.fpr[i.frB]
        From(v) == IF absolute THEN Abs(v) ELSE v
    IN  MovePair(s, i, <<Negate(From(b[1])), Negate(From(b[2]))>>)

ps_mr(s, i) == MovePair(s, i, s.fpr[i.frB])

mergeGeneric(s, i, lane0, lane1) ==
    MovePair(s, i, <<s.fpr[i.frA][lane0], s.fpr[i.frB][lane1]>>)

\* A NaN selects frB.
ps_sel(s, i) ==
    LET a == s.fpr[i.frA]
        Selected(l) == IF HostLess(a[l], Zero(0)) \/ is_nan(a[l])
                       THEN s.fpr[i.frB][l] ELSE s.fpr[i.frC][l]
    IN  MovePair(s, i, Both(Selected))

Paired(s, i) ==
    CASE i.id = "ps_add" -> ps_add(s, i, FALSE)
      [] i.id = "ps_sub" -> ps_sub(s, i)
      [] i.id = "ps_div" -> ps_div(s, i)
      [] i.id \in {"ps_mul", "ps_muls0", "ps_muls1"} -> mulGeneric(s, i)
      [] i.id \in {"ps_madd", "ps_madds0", "ps_madds1"} ->
            maddGeneric(s, i, FALSE, FALSE)
      [] i.id = "ps_nmadd" -> maddGeneric(s, i, FALSE, TRUE)
      [] i.id = "ps_msub" -> msubGeneric(s, i, FALSE)
      [] i.id = "ps_nmsub" -> msubGeneric(s, i, TRUE)
      [] i.id = "ps_res" -> ps_res(s, i)
      [] i.id = "ps_rsqrte" -> ps_rsqrte(s, i)
      [] i.id = "ps_sum0" -> sumGeneric(s, i, 1)
      [] i.id = "ps_sum1" -> sumGeneric(s, i, 2)
      [] i.id = "ps_abs" -> ps_abs(s, i)
      [] i.id = "ps_nabs" -> ps_neg(s, i, TRUE)
      [] i.id = "ps_neg" -> ps_neg(s, i, FALSE)
      [] i.id = "ps_mr" -> ps_mr(s, i)
      [] i.id = "ps_merge00" -> mergeGeneric(s, i, 1, 1)
      [] i.id = "ps_merge01" -> mergeGeneric(s, i, 1, 2)
      [] i.id = "ps_merge10" -> mergeGeneric(s, i, 2, 1)
      [] i.id = "ps_merge11" -> mergeGeneric(s, i, 2, 2)
      [] i.id = "ps_sel" -> ps_sel(s, i)

-----------------------------------------------------------------------------
(* Quantized loads and stores.                                              *)

\* Mutant: the second of two short integers is one byte after the first.
MutantBytes == [floating |-> 4, unsigned8 |-> 1, unsigned16 |-> 2, signed8 |-> 1,
                signed16 |-> 1]

Bytes == [floating |-> 4, unsigned8 |-> 1, unsigned16 |-> 2, signed8 |-> 1,
          signed16 |-> 2]
Signed(type) == type \in {"signed8", "signed16"}

\* dequantizeTable: 1 / 2^scale below 32, 2^(64 - scale) from there on.
ScaleBy(v, scale) ==
    IF v.kind \notin {"normal", "denormal"} THEN Exact(v)
    ELSE IF scale < 32 THEN RoundNearest(v.sign, v.mag, 2^scale)
    ELSE RoundNearest(v.sign, v.mag * 2^(64 - scale), 1)

dequantize(s, ea, type, scale) ==
    LET bytes == Bytes[type]
        raw == IF bytes = 1 THEN s.mem[ea] ELSE s.mem[ea] * 256 + s.mem[ea + 1]
        n == IF Signed(type) /\ raw >= 2^(8 * bytes - 1) THEN raw - 2^(8 * bytes)
             ELSE raw
        whole == IF n < 0 THEN Finite(1, -n * One) ELSE Finite(0, n * One)
    IN  IF type = "floating" THEN s.fmem[ea] ELSE ScaleBy(whole, scale).value

\* Whatever the type, the limits are those of an unsigned byte; a NaN is the
\* lower one.
clamp(v) ==
    CASE HostLess(Finite(0, 255 * One), v) -> Finite(0, 255 * One)
      [] HostLess(Zero(0), v) -> v
      [] OTHER -> Zero(0)

\* Stores are scaled by the table of the loads; a fraction is cut off.
quantize(s, ea, v, type, scale) ==
    LET clamped == clamp(ScaleBy(v, scale).value)
        n == clamped.mag \div One
        cut == IF clamped.mag % One = 0 THEN {} ELSE {"inexact"}
        whole == [s EXCEPT !.host = @ \cup cut]
    IN  CASE type = "floating" ->
                [s EXCEPT !.fmem[ea] = HostSingle(v).value,
                          !.host = @ \cup HostSingle(v).raised]
          [] Bytes[type] = 1 -> [whole EXCEPT !.mem[ea] = n]
          [] OTHER ->
                [whole EXCEPT !.mem[ea] = n \div 256, !.mem[ea + 1] = n % 256]

EffectiveAddress(s, i) ==
    (IF i.rA = 0 /\ i.id \in {"psq_l", "psq_lx", "psq_st", "psq_stx"} THEN 0
     ELSE s.gpr[i.rA])
    + (IF i.indexed THEN s.gpr[i.rB] ELSE i.qd)

Updated(s, i, ea) ==
    IF i.id \in {"psq_lu", "psq_lux", "psq_stu", "psq_stux"}
    THEN [s EXCEPT !.gpr[i.rA] = ea] ELSE s

psqLoad(s, i) ==
    LET ea == EffectiveAddress(s, i)
        gqr == s.gqr[IF i.indexed THEN i.qi ELSE i.i]
        single == (IF i.indexed THEN i.qw ELSE i.w) = 1
        Read(at) == dequantize(s, at, gqr.ld_type, gqr.ld_scale)
        second == IF single THEN Finite(0, One) ELSE Read(ea + Bytes[gqr.ld_type])
    IN  Updated([s EXCEPT !.fpr[i.frD] = <<Read(ea), second>>], i, ea)

\* The register and the width come from the fields of the indexed form also
\* in the other, where their bits belong to the displacement.
psqStore(s, i) ==
    LET ea == EffectiveAddress(s, i)
        gqr == s.gqr[i.qi]
        Write(t, at, v) == quantize(t, at, v, gqr.st_type, gqr.st_scale)
        one == Write(s, ea, s.fpr[i.frS][1])
        stored == IF i.qw = 0
                  THEN Write(one, ea + Bytes[gqr.st_type], s.fpr[i.frS][2])
                  ELSE one
    IN  Updated(stored, i, ea)

=============================================================================
