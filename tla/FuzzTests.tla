----------------------------- MODULE FuzzTests -----------------------------
(* The fuzz tests of the processor (fuzztests.cpp): one instruction is run  *)
(* from one state by the interpreter and by the code the recompiler emits   *)
(* for it.  An action picks a test of a group of instructions, another runs *)
(* it.  The tests of the code leave rc, oe, the immediates, the shift       *)
(* amounts and the masks at zero and skip branches and multiple loads; here *)
(* every field takes more than one value, and the results are also compared *)
(* with integers.                                                           *)
EXTENDS Machine, TLC

CONSTANTS Operand,        \* the values of the general registers
          Immediate,      \* the values of simm, uimm
          Shift,          \* the values of sh and of a register shift amount
          CrValue,        \* the values of CR
          XerValue        \* the values of XER

VARIABLES instr,          \* the instruction of the test, or NoTest
          start,          \* the state it starts from
          iState,         \* what the interpreter makes of it
          jState,         \* what the emitted code makes of it
          stage           \* of the test: "idle", "ready" or "run"

vars == <<instr, start, iState, jState, stage>>

Interp == INSTANCE Interpreter
Jit == INSTANCE Jit
Trace == INSTANCE Tracer

BranchIds == {"b"} \cup DOMAIN Interp!BcFlags
ConditionIds == DOMAIN Interp!CmpFlags \cup DOMAIN Interp!CrLogic
                    \cup {"mcrf", "mcrxr", "mfcr", "mtcrf"}
LoadStoreIds == DOMAIN Interp!LoadFlags \cup DOMAIN Interp!StoreFlags
                    \cup {"lmw", "stmw", "lswi", "lswx", "stswi", "stswx"}

\* One turn of the interpreter's loop, and of a compiled block of one
\* instruction.
Fetch(s) == [s EXCEPT !.cia = s.nia, !.nia = Wrap(s.nia + 4)]

interpret(s, i) ==
    CASE i.id \in Interp!IntegerIds -> Interp!Integer(Fetch(s), i)
      [] i.id \in ConditionIds -> Interp!Condition(Fetch(s), i)
      [] i.id \in BranchIds -> Interp!Branch(Fetch(s), i)
      [] i.id \in LoadStoreIds -> Interp!LoadStore(Fetch(s), i)
      [] OTHER -> Interp!System(Fetch(s), i)

execute(s, i) ==
    CASE i.id \in Jit!IntegerIds -> Jit!Integer(Fetch(s), i)
      [] i.id \in ConditionIds -> Jit!Condition(Fetch(s), i)
      [] i.id \in BranchIds -> Jit!Branch(Fetch(s), i)
      [] i.id \in LoadStoreIds -> Jit!LoadStore(Fetch(s), i)
      [] OTHER -> Jit!System(Fetch(s), i)

hasInstruction(id) == id \in Interp!IntegerIds => id \in Jit!IntegerIds

-----------------------------------------------------------------------------
(* The inputs.  Registers: 0, which some instructions read as zero, 1 (rA), *)
(* 2 (rB), 3 (rD and rS).                                                   *)

CodeBase == 16
DataBase == 2^(Width - 2)
DataSize == 4 * Width

NoTest ==
    [id |-> "none", rA |-> 1, rB |-> 2, rD |-> 3, rS |-> 3, simm |-> 0,
     uimm |-> 0, d |-> 0, oe |-> 0, rc |-> 0, sh |-> 0, mb |-> 0, me |-> 0,
     crfD |-> 0, crfS |-> 0, crbA |-> 0, crbB |-> 0, crbD |-> 0, crm |-> 0,
     li |-> 0, bd |-> 0, aa |-> 0, lk |-> 0, bo |-> 0, bi |-> 0, nb |-> 0,
     spr |-> "XER", i |-> 0, sr |-> 0]

\* Memory holds bytes that tell addresses apart.
ThreadState(a, b, d, cr, xer) ==
    [gpr |-> (0 :> AllOnes) @@ (1 :> a) @@ (2 :> b) @@ (3 :> d),
     fpr |-> (0 :> <<a, b>>) @@ (3 :> <<d, b>>),
     cr |-> cr, xer |-> xer, crxr |-> 0, lr |-> 84, ctr |-> b,
     cia |-> 0, nia |-> CodeBase,
     gqr |-> (0 :> a) @@ (1 :> d), sr |-> (0 :> a) @@ (1 :> b),
     msr |-> d, tb |-> ("TBL" :> a) @@ ("TBU" :> b),
     reserve |-> FALSE, reserveAddress |-> 0, reserveData |-> 0,
     mem |-> [k \in DataBase .. DataBase + DataSize - 1 |->
                 (3 * k + k \div 4) % ByteValue]]

Bit == {0, 1}

Idle == stage = "idle"

Prepare(i, s) ==
    /\ stage' = "ready"
    /\ instr' = i
    /\ start' = s
    /\ iState' = s
    /\ jState' = s

\* The interpreter runs the instruction, and the recompiler's code if it has a
\* handler for it.
executeInstrTest ==
    /\ stage = "ready"
    /\ stage' = "run"
    /\ iState' = interpret(start, instr)
    /\ jState' = IF hasInstruction(instr.id) THEN execute(start, instr) ELSE start
    /\ UNCHANGED <<instr, start>>

AddTest ==
    /\ Idle
    /\ \E id \in {"add", "addc", "adde", "addme", "addze", "neg"}
                     \cup (DOMAIN Interp!SubtractFlags \ {"subfic"}),
          a, b \in Operand, oe, rc \in Bit, xer \in XerValue :
           Prepare([NoTest EXCEPT !.id = id, !.oe = oe, !.rc = rc],
                            ThreadState(a, b, 0, 0, xer))

AddImmediateTest ==
    /\ Idle
    /\ \E id \in {"addi", "addic", "addicx", "addis", "subfic", "mulli"},
          a \in Operand, x \in Immediate, ra \in {0, 1}, xer \in XerValue :
           Prepare([NoTest EXCEPT !.id = id, !.rA = ra, !.simm = x],
                            ThreadState(a, 0, 0, 0, xer))

MultiplyTest ==
    /\ Idle
    /\ \E id \in {"mulhw", "mulhwu", "mullw", "divw", "divwu"},
          a, b \in Operand, oe, rc \in Bit, xer \in XerValue :
           Prepare([NoTest EXCEPT !.id = id, !.oe = oe, !.rc = rc],
                            ThreadState(a, b, 0, 0, xer))

LogicTest ==
    /\ Idle
    /\ \/ \E id \in {"and_", "andc", "or_", "orc", "xor_", "nand", "nor", "eqv",
                     "extsb", "extsh", "cntlzw"},
             b, d \in Operand, rc \in Bit, xer \in XerValue :
             Prepare([NoTest EXCEPT !.id = id, !.rc = rc],
                              ThreadState(0, b, d, 0, xer))
       \/ \E id \in {"andi", "andis", "ori", "oris", "xori", "xoris"},
             d \in Operand, x \in Immediate, xer \in XerValue :
             Prepare([NoTest EXCEPT !.id = id, !.uimm = x],
                              ThreadState(0, 0, d, 0, xer))

ShiftTest ==
    /\ Idle
    /\ \/ \E id \in {"slw", "srw", "sraw"}, d \in Operand, b \in Shift,
             rc \in Bit, xer \in XerValue :
             Prepare([NoTest EXCEPT !.id = id, !.rc = rc],
                              ThreadState(1, b, d, 0, xer))
       \/ \E d \in Operand, sh \in Shift \cap 0 .. Width - 1, rc \in Bit,
             xer \in XerValue :
             Prepare([NoTest EXCEPT !.id = "srawi", !.sh = sh, !.rc = rc],
                              ThreadState(1, 0, d, 0, xer))

RotateTest ==
    /\ Idle
    /\ \E id \in DOMAIN Interp!RlwFlags, a, d \in CrValue, n \in Shift,
          mb, me \in 0 .. Width - 1, rc \in Bit :
           Prepare([NoTest EXCEPT !.id = id, !.sh = n % Width, !.mb = mb,
                                           !.me = me, !.rc = rc],
                            ThreadState(a, n, d, 0, 0))

CompareTest ==
    /\ Idle
    /\ \E id \in DOMAIN Interp!CmpFlags, a, b \in Operand, x \in Immediate,
          f \in CrField, xer \in XerValue :
           /\ id \in {"cmp", "cmpl"} => x = 0
           /\ id \in {"cmpi", "cmpli"} => b = 0
           /\ Prepare([NoTest EXCEPT !.id = id, !.crfD = f, !.simm = x,
                                              !.uimm = x],
                               ThreadState(a, b, 0, AllOnes, xer))

CrTest ==
    /\ Idle
    /\ \/ \E id \in DOMAIN Interp!CrLogic, ba, bb, bd \in {0, 3, Width - 4, Width - 1},
             cr \in CrValue :
             Prepare([NoTest EXCEPT !.id = id, !.crbA = ba, !.crbB = bb,
                                             !.crbD = bd],
                              ThreadState(0, 0, 0, cr, 0))
       \/ \E id \in {"mcrf", "mcrxr", "mfcr", "mtcrf"}, f, g \in CrField,
             crm \in 0 .. 3, d, cr \in CrValue, xer \in XerValue :
             Prepare([NoTest EXCEPT !.id = id, !.crfD = f, !.crfS = g,
                                             !.crm = crm],
                              ThreadState(0, 0, d, cr, xer))

BranchTest ==
    /\ Idle
    /\ \E id \in BranchIds, bo \in 0 .. 31, bi \in {0, 2, Width - 1},
          aa, lk \in Bit, off \in {0, 3, 2^(Width - 2) - 2}, ctr \in {0, 1, 2},
          cr \in CrValue :
           /\ id = "b" => bo = 0 /\ bi = 0 /\ ctr = 0
           /\ id \in {"bclr", "bcctr"} => aa = 0 /\ off = 0
           /\ Prepare([NoTest EXCEPT !.id = id, !.bo = bo, !.bi = bi,
                                              !.aa = aa, !.lk = lk, !.li = off,
                                              !.bd = off],
                               ThreadState(0, ctr, 0, cr, 0))

SystemTest ==
    /\ Idle
    /\ \/ \E id \in {"mfspr", "mtspr"}, spr \in {"XER", "LR", "CTR", "GQR"},
             n \in {0, 1}, a, d \in Operand :
             Prepare([NoTest EXCEPT !.id = id, !.spr = spr, !.i = n],
                              ThreadState(a, 5, d, 0, 0))
       \/ \E id \in {"mfmsr", "mfsr", "mfsrin", "mtmsr", "mtsr", "mtsrin"}
                        \cup Interp!Hints, n \in {0, 1}, a, b \in CrValue :
             Prepare([NoTest EXCEPT !.id = id, !.sr = n],
                              ThreadState(a, b, 7, 0, 0))
       \/ \E spr \in {"TBL", "TBU"}, a \in Operand :
             Prepare([NoTest EXCEPT !.id = "mftb", !.spr = spr],
                              ThreadState(a, 9, 0, 0, 0))
       \/ \E id \in {"dcbz", "dcbz_l"}, off \in 0 .. 2 * Width - 1 :
             Prepare([NoTest EXCEPT !.id = id],
                              ThreadState(DataBase, off, 0, 0, 0))

\* What a load or store says of its form; lmw, stmw and the string
\* instructions have no table.
FlagsOf(id) ==
    CASE id \in DOMAIN Interp!LoadFlags -> Interp!LoadFlags[id].flags
      [] id \in DOMAIN Interp!StoreFlags -> Interp!StoreFlags[id].flags
      [] id \in {"lswx", "stswx"} -> {"ZeroRA", "Indexed"}
      [] OTHER -> {"ZeroRA"}

\* The address is that of the data whichever form the instruction has.  An
\* indexed form that reads zero for register 0 is tested with rA = 0 too.
LoadStoreTest ==
    /\ Idle
    /\ \E id \in LoadStoreIds, ra \in {0, 1}, r \in {2, 3}, off \in {0, 1, 6},
          d \in CrValue, reserved \in BOOLEAN, xer \in {0, 2^SoBit + 5, 9},
          nb \in {0, 3, 6} :
           /\ ra = 0 => {"ZeroRA", "Indexed"} \subseteq FlagsOf(id)
           /\ r = 2 => id \in {"lmw", "stmw"}
           /\ nb # 0 => id \in {"lswi", "stswi"}
           /\ xer = 9 => id \in {"lswx", "stswx"}
           /\ reserved => id = "stwcx"
           /\ Prepare(
                   [NoTest EXCEPT !.id = id, !.rA = ra, !.rD = r, !.rS = r,
                                  !.d = off, !.nb = nb],
                   [ThreadState(DataBase, IF ra = 0 THEN DataBase + off ELSE off,
                                d, 0, xer)
                       EXCEPT !.reserve = reserved,
                              !.reserveAddress = DataBase + off,
                              !.reserveData = 27])

Init ==
    /\ instr = NoTest
    /\ start = ThreadState(0, 0, 0, 0, 0)
    /\ iState = start
    /\ jState = start
    /\ stage = "idle"

Next ==
    \/ AddTest \/ AddImmediateTest \/ MultiplyTest \/ LogicTest \/ ShiftTest
    \/ RotateTest \/ CompareTest \/ CrTest \/ BranchTest \/ SystemTest
    \/ LoadStoreTest \/ executeInstrTest

Spec == Init /\ [][Next]_vars

-----------------------------------------------------------------------------
(* Correctness.                                                             *)

\* The registers hold words whatever ran, a CR field included that was set
\* from more than its four bits.
TypeOK ==
    \A s \in {iState, jState} :
        /\ \A r \in DOMAIN s.gpr : s.gpr[r] \in Word
        /\ \A r \in DOMAIN s.fpr : s.fpr[r] \in Word \X Word
        /\ \A k \in DOMAIN s.mem : s.mem[k] \in 0 .. ByteValue - 1
        /\ {s.cr, s.xer, s.crxr, s.lr, s.ctr, s.nia, s.msr} \subseteq Word

Is(ids) == stage = "run" /\ instr.id \in ids
ImmediateB == sign_extend(instr.simm, Half)

\* What every instruction but a branch does to the address registers.
Stepped(s) == [s EXCEPT !.cia = CodeBase, !.nia = CodeBase + 4]

\* CR0 as the architecture defines it: the order of the result and zero, and
\* the summary overflow as the instruction leaves it.
Recorded(s, d) ==
    setCRF(s, 0, So(s) + (IF Signed(d) < 0 THEN LessThan
                          ELSE IF Signed(d) > 0 THEN GreaterThan ELSE Equal))

\* ---- additions and subtractions, as integers
Additions == DOMAIN Interp!AddFlags
Subtractions == DOMAIN Interp!SubtractFlags \cup {"neg"}
Carrying == (Additions \cup Subtractions)
                \ {"add", "addi", "addis", "subf", "neg"}

SumOf(A(_), a, b, c) ==
    IF Is(Additions) THEN A(a) + A(b) + c ELSE A(b) - A(a) - (1 - c)

Reference ==
    LET a == IF Is({"addi", "addis"}) THEN GprOrZero(start, instr.rA)
             ELSE start.gpr[instr.rA]
        b == CASE Is({"addme", "subfme"}) -> AllOnes
               [] Is({"addze", "subfze", "neg"}) -> 0
               [] Is({"addi", "addic", "addicx", "subfic"}) -> ImmediateB
               [] Is({"addis"}) -> Wrap(ImmediateB * 2^Half)
               [] OTHER -> start.gpr[instr.rB]
        c == CASE Is({"adde", "addme", "addze", "subfe", "subfme", "subfze"}) ->
                    Ca(start)
               [] Is(Subtractions) -> 1
               [] OTHER -> 0
        Same(x) == x
        unsigned == SumOf(Same, a, b, c)
        signed == SumOf(Signed, a, b, c)
        ca == IF Is(Additions) THEN unsigned > AllOnes ELSE unsigned >= 0
        ov == signed # Signed(Wrap(signed))
        xer == (start.xer % 2^CaBit)
               + 2^CaBit * (IF Is(Carrying) THEN IF ca THEN 1 ELSE 0
                            ELSE Ca(start))
               + 2^OvBit * (IF instr.oe = 1 THEN IF ov THEN 1 ELSE 0
                            ELSE Ov(start))
               + 2^SoBit * (IF instr.oe = 1 /\ ov THEN 1 ELSE So(start))
        stored == [Stepped(start) EXCEPT !.gpr[instr.rD] = Wrap(unsigned),
                                         !.xer = xer]
    IN  IF instr.rc = 1 \/ Is({"addicx"}) THEN Recorded(stored, Wrap(unsigned))
        ELSE stored

\* The interpreter's additions, subtractions and negations are those of
\* integers: the result, the carry that addGeneric derives from comparing the
\* result with one operand, the overflow it derives from sign bits, the
\* summary bit and CR0 all follow from the sum itself, and nothing else moves.
ArithmeticExact == Is(Additions \cup Subtractions) => iState = Reference

\* A product's halves are those of the product of the integers; a quotient
\* times the divisor leaves a remainder smaller than the divisor, of the sign
\* of the dividend; division by zero and of the least number by -1 set OV.
MulDivExact ==
    LET d == iState.gpr[instr.rD]
        V(x) == IF Is({"mulhwu", "divwu"}) THEN x ELSE Signed(x)
        a == V(start.gpr[instr.rA])
        b == IF Is({"mulli"}) THEN Signed(ImmediateB)
             ELSE V(start.gpr[instr.rB])
        rest == a - V(d) * b
        bad == b = 0 \/ (Is({"divw"}) /\ a = -MinSigned /\ b = -1)
    IN  /\ Is({"mullw", "mulli"}) => (a * b - d) % 2^Width = 0
        /\ Is({"mulhw", "mulhwu"}) => a * b - V(d) * 2^Width \in Word
        /\ Is({"divw", "divwu"}) =>
             /\ ~bad => /\ rest * rest < b * b
                        /\ rest # 0 => (rest < 0) = (a < 0)
             /\ instr.oe = 1 => /\ Ov(iState) = IF bad THEN 1 ELSE 0
                                /\ bad => So(iState) = 1
             /\ instr.rc = 1 => iState.cr = Recorded(iState, d).cr

\* Shifts by amounts up to twice the width.  A logical shift moves the bits out
\* of the word.  An arithmetic one divides by a power of two, rounding down, and
\* sets the carry when it rounds a negative number; by an amount of the width or
\* more it shifts by the rest of the amount only, where a comment says that
\* the result is all sign bits (interpreter_integer.cpp:717), and the carry is
\* the sign unless that rest is zero.
ShiftExact ==
    LET x == start.gpr[instr.rS]
        n == IF Is({"srawi"}) THEN instr.sh
             ELSE start.gpr[instr.rB] % (2 * Width)
        rest == n % Width
        a == iState.gpr[instr.rA]
    IN  /\ Is({"slw"}) => a = Wrap(x * 2^n)
        /\ Is({"srw"}) => a = x \div 2^n
        /\ Is({"sraw", "srawi"}) =>
             /\ Signed(a) * 2^rest <= Signed(x)
             /\ Signed(x) < (Signed(a) + 1) * 2^rest
             /\ (Ca(iState) = 1) =
                    /\ Signed(x) < 0 /\ rest # 0
                    /\ n > Width \/ Signed(a) * 2^rest # Signed(x)
        /\ Is({"slw", "srw", "sraw", "srawi"}) /\ instr.rc = 1 =>
             iState.cr = Recorded(iState, a).cr

\* The operation of a logical instruction, of registers or of bits of CR, on
\* two bits.
BitOp(p, q) ==
    CASE Is({"and_", "andi", "andis", "crand"}) -> p = 1 /\ q = 1
      [] Is({"andc", "crandc"}) -> p = 1 /\ q = 0
      [] Is({"or_", "ori", "oris", "cror"}) -> p = 1 \/ q = 1
      [] Is({"orc", "crorc"}) -> p = 1 \/ q = 0
      [] Is({"xor_", "xori", "xoris", "crxor"}) -> p # q
      [] Is({"nand", "crnand"}) -> ~(p = 1 /\ q = 1)
      [] Is({"nor", "crnor"}) -> p = 0 /\ q = 0
      [] Is({"eqv", "creqv"}) -> p = q

Bitwise2 == DOMAIN Interp!AndFlags \cup DOMAIN Interp!OrFlags \cup DOMAIN Interp!XorFlags
                \cup {"nand", "nor", "eqv"}

\* A logical instruction applies its operation to every bit of the word, the
\* half word of a shifted immediate at the top; a sign extension keeps the
\* number that the low bits are; cntlzw counts what is above the highest one.
\* Nothing moves but the result and, when it is recorded, CR0.
LogicExact ==
    LET x == start.gpr[instr.rS]
        y == CASE Is({"andi", "ori", "xori"}) -> instr.uimm
               [] Is({"andis", "oris", "xoris"}) -> Wrap(instr.uimm * 2^Half)
               [] OTHER -> start.gpr[instr.rB]
        a == iState.gpr[instr.rA]
        low == 2^(IF Is({"extsb"}) THEN Quarter ELSE Half)
        stored == [Stepped(start) EXCEPT !.gpr[instr.rA] = a]
    IN  /\ Is(Bitwise2) =>
             \A k \in 0 .. Width - 1 :
                (get_bit(a, k) = 1) = BitOp(get_bit(x, k), get_bit(y, k))
        /\ Is({"extsb", "extsh"}) =>
             (a - x) % low = 0 /\ 2 * Signed(a) \in -low .. low - 1
        /\ Is({"cntlzw"}) =>
             x < 2^(Width - a) /\ (a < Width => x >= 2^(Width - 1 - a))
        /\ Is(Bitwise2 \cup {"extsb", "extsh", "cntlzw"}) =>
             iState = IF instr.rc = 1 \/ Is({"andi", "andis"}) THEN Recorded(stored, a)
                      ELSE stored

\* An operation on bits of CR changes no other bit; moves take whole fields,
\* those that the mask names, and leave the others.
CrExact ==
    LET Field(s, f) == getCRF(s, f)
        given == [start EXCEPT !.cr = start.gpr[instr.rS]]
        Selected(f) == get_bit(instr.crm, Width \div 4 - 1 - f) = 1
    IN  /\ Is(DOMAIN Interp!CrLogic) =>
             \A k \in 0 .. Width - 1 :
                (getCRB(iState, k) = 1) =
                    IF k = instr.crbD
                    THEN BitOp(getCRB(start, instr.crbA), getCRB(start, instr.crbB))
                    ELSE getCRB(start, k) = 1
        /\ Is({"mcrf"}) =>
             \A f \in CrField : Field(iState, f) =
                Field(start, IF f = instr.crfD THEN instr.crfS ELSE f)
        /\ Is({"mtcrf"}) =>
             \A f \in CrField : Field(iState, f) =
                Field(IF Selected(f) THEN given ELSE start, f)
        /\ Is({"mfcr"}) => iState.gpr[instr.rD] = start.cr

\* A rotation takes every bit from the bit n places to its right, counted
\* from the left, where the mask from mb to me, around the word's end, covers
\* it; elsewhere it clears the bit, or keeps the one of rA.
RotateExact ==
    LET BitOf(x, k) == get_bit(x, Width - 1 - k)
        Covered(k) == IF instr.mb <= instr.me
                      THEN k \in instr.mb .. instr.me
                      ELSE k >= instr.mb \/ k <= instr.me
        n == IF Is({"rlwnm"}) THEN start.gpr[instr.rB] ELSE instr.sh
        rest == IF Is({"rlwimi"}) THEN start.gpr[instr.rA] ELSE 0
    IN  Is(DOMAIN Interp!RlwFlags) =>
            \A k \in 0 .. Width - 1 :
                BitOf(iState.gpr[instr.rA], k) =
                    IF Covered(k) THEN BitOf(start.gpr[instr.rS], (k + n) % Width)
                    ELSE BitOf(rest, k)

\* A branch on a bit of the compared field is taken exactly when the numbers
\* are so ordered, whichever field that is, and no other field has changed.
CompareThenBranch ==
    LET a == start.gpr[instr.rA]
        b == CASE Is({"cmpi"}) -> ImmediateB
               [] Is({"cmpli"}) -> instr.uimm
               [] OTHER -> start.gpr[instr.rB]
        V(x) == IF Is({"cmp", "cmpi"}) THEN Signed(x) ELSE x
        Takes(bit) ==
            interpret(iState, [NoTest EXCEPT !.id = "bc", !.bo = 12, !.bd = 4,
                                             !.bi = 4 * instr.crfD + bit]).nia
                = Wrap(iState.nia + 16)
    IN  Is(DOMAIN Interp!CmpFlags) =>
            /\ Takes(0) = (V(a) < V(b))
            /\ Takes(1) = (V(a) > V(b))
            /\ Takes(2) = (V(a) = V(b))
            /\ Takes(3) = (So(start) = 1)
            /\ \A f \in CrField \ {instr.crfD} :
                    getCRF(iState, f) = getCRF(start, f)

\* ---- stores and the loads that read them
LoadOf ==
    [stb |-> "lbz", stbu |-> "lbz", stbux |-> "lbzx", stbx |-> "lbzx",
     sth |-> "lhz", sthu |-> "lhz", sthux |-> "lhzx", sthx |-> "lhzx",
     stw |-> "lwz", stwu |-> "lwz", stwux |-> "lwzx", stwx |-> "lwzx",
     sthbrx |-> "lhbrx", stwbrx |-> "lwbrx", stmw |-> "lmw", stswi |-> "lswi",
     stswx |-> "lswx", stfs |-> "lfs", stfsu |-> "lfs", stfsux |-> "lfsx",
     stfsx |-> "lfsx", stfd |-> "lfd", stfdu |-> "lfd", stfdux |-> "lfdx",
     stfdx |-> "lfdx"]

StoredBytes ==
    LET n == IF Is({"stswi", "stswx"})
             THEN Interp!StringLength(start, instr, Is({"stswx"}))
             ELSE IF Is({"stmw"}) THEN 4 * (Interp!NumGpr(start) - instr.rS)
             ELSE (("Single" :> 4) @@ ("Double" :> 8)
                     @@ Interp!Sizes)[Interp!StoreFlags[instr.id].type]
        ea == Wrap(DataBase + instr.d)
    IN  IF Is({"stswi"}) THEN DataBase .. DataBase + n - 1 ELSE ea .. ea + n - 1

\* The load of the same form and address brings back what a store of any form
\* has put in memory: in either byte order, of a byte, half word, word, single
\* or double, of several registers or of a string that wraps around the
\* register file; and no byte outside the stored ones has changed.
LoadAfterStore ==
    LET blank == [iState EXCEPT
                    !.gpr = [r \in DOMAIN @ |->
                                IF r >= instr.rS THEN 0 ELSE start.gpr[r]],
                    !.fpr[3] = <<0, 0>>]
        back == interpret(blank, [instr EXCEPT !.id = LoadOf[@]])
        value == start.gpr[3]
        n == Cardinality(StoredBytes)
    IN  Is(DOMAIN LoadOf) =>
          /\ CASE Is({"stfs", "stfsu", "stfsux", "stfsx"}) ->
                    back.fpr[3] = <<start.fpr[3][1], 0>>
               [] Is({"stfd", "stfdu", "stfdux", "stfdx"}) ->
                    back.fpr[3] = start.fpr[3]
               [] Is({"stswi", "stswx"}) ->
                    \A k \in 0 .. n - 1 :
                        LET r == (3 + k \div 4) % Interp!NumGpr(start)
                        IN  ByteOf(back.gpr[r], 3 - (k % 4))
                                = ByteOf(start.gpr[r], 3 - (k % 4))
               [] Is({"stmw"}) ->
                    \A r \in instr.rS .. 3 : back.gpr[r] = start.gpr[r]
               [] OTHER -> back.gpr[3] = value % ByteValue^n
          /\ \A k \in DOMAIN start.mem \ StoredBytes :
                iState.mem[k] = start.mem[k]

\* What the interpreter computes is what the integers and the bits that the
\* words stand for say, form by form: sums, products, quotients, shifts, logical
\* operations, rotations, operations on CR, comparisons that a branch looks at,
\* and stores that the matching load brings back; and what it leaves in the
\* registers are words of their width.
InterpreterExact ==
    /\ TypeOK
    /\ ArithmeticExact
    /\ MulDivExact
    /\ ShiftExact
    /\ LogicExact
    /\ CrExact
    /\ RotateExact
    /\ CompareThenBranch
    /\ LoadAfterStore

\* ---- the recompiler
\* Where the emitted code is known to differ from the interpreter.
OverflowNow == Ov(Reference) = 1 /\ So(start) = 0

OverflowOf ==
    Signed(start.gpr[instr.rA]) + Signed(ImmediateB)
        # Signed(iState.gpr[instr.rD])

Diverges ==
    \/ Is({"eqv", "mcrf", "mcrxr"})
    \/ Is({"mulhw", "mulhwu"}) /\ instr.rc = 1 /\ Signed(iState.gpr[3]) <= 0
    \/ Is(Additions) /\ instr.oe = 1 /\ OverflowNow
    \/ Is({"addicx"}) /\ OverflowOf # (Ov(start) = 1)
    \/ Is({"neg"}) /\ instr.oe = 1 /\ start.gpr[instr.rA] = MinSigned
    \/ Is({"slw", "srw"}) /\ Interp!LongShift(start.gpr[instr.rB])
    \/ Is({"srawi"}) /\ instr.sh = 0
    \/ Is(DOMAIN Interp!CmpFlags) /\ So(start) = 1
    \/ Is({"mfspr"}) /\ instr.spr = "GQR"
    \/ Is({"bc"}) /\ instr.aa = 1
    \/ Is({"bclr"}) /\ instr.lk = 1

\* The code the recompiler emits leaves the registers and the memory that the
\* interpreter leaves, for every instruction and form but the listed ones.
JitMatchesInterp ==
    stage = "run" /\ ~Diverges => hasInstruction(instr.id) /\ jState = iState

\* ---- the tracer
\* What a trace does not record: the table lists the carry as a marker that
\* stands for no state, and leaves out the rest of these.
Unrecorded ==
    [xer |-> Carrying \cup {"sraw", "srawi"}, cr |-> {"addicx", "andi", "andis", "stwcx"},
     gpr |-> {"lswi", "lswx"}, sr |-> {"mtsr", "mtsrin"}, msr |-> {"mtmsr"},
     crxr |-> {"mcrxr"}]

SameBut(parts, s, t) == \A part \in DOMAIN t \ parts : s[part] = t[part]

\* A trace undoes its instruction: with the values before it put back, the
\* registers are those it started from, for every instruction, form and
\* operand but what the table is known to leave out (trace.cpp:424).
TraceUndoes ==
    stage = "run" =>
        SameBut({part \in DOMAIN Unrecorded : Is(Unrecorded[part])},
                Trace!checkState(Fetch(start), iState, instr), Fetch(start))

-----------------------------------------------------------------------------
(* The instance that TLC checks: words of eight bits, with the values at    *)
(* which carries, signs, shifts and masks change.                           *)

MCOperand == {0, 1, 2, 7, 15, 16, 127, 128, 129, 254, 255}
MCImmediate == {0, 1, 7, 8, 15}
MCShift == {0, 1, 3, 7, 8, 9, 15, 16}
MCCrValue == {0, 90, 165, 255}
MCXerValue == {0, 2^CaBit, 2^SoBit, 2^SoBit + 2^OvBit + 2^CaBit + 1}

=============================================================================
