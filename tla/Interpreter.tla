--------------------------- MODULE Interpreter ---------------------------
(* The instructions of the interpreter: integer (interpreter_integer.cpp),  *)
(* condition register (interpreter_condition.cpp), branch, system, load and *)
(* store.  The floating-point and quantized ones are in FloatUnit, and kc,  *)
(* which runs a handler of the host, in none.  Each group has one generic   *)
(* function whose template flags say what a member of the group does; the   *)
(* tables give every instruction its flags.                                 *)
EXTENDS Machine

(* Integer instructions.                                                    *)

updateConditionRegister(s, value) ==
    LET sign == IF value = 0 THEN Equal
                ELSE IF SignBit(value) = 1 THEN LessThan ELSE GreaterThan
    IN  setCRF(s, 0, sign + So(s))

updateCarry(s, carry) ==
    [s EXCEPT !.xer = set_bit_value(@, CaBit, IF carry THEN 1 ELSE 0)]

\* The summary bit stays once it is set.
updateOverflow(s, overflow) ==
    [s EXCEPT !.xer =
        LET ov == set_bit_value(@, OvBit, IF overflow THEN 1 ELSE 0)
        IN  IF overflow THEN set_bit_value(ov, SoBit, 1) ELSE ov]

Record(s, i, value) ==
    IF i.rc = 1 THEN updateConditionRegister(s, value) ELSE s

RecordOverflow(s, i, overflow) ==
    IF i.oe = 1 THEN updateOverflow(s, overflow) ELSE s

AddFlags ==
    [add |-> {"CheckRecord"}, addc |-> {"Carry", "CheckRecord"},
     adde |-> {"Extended", "Carry", "CheckRecord"},
     addi |-> {"Immediate", "ZeroRA"}, addic |-> {"Immediate", "Carry"},
     addicx |-> {"Immediate", "Carry", "AlwaysRecord"},
     addis |-> {"Immediate", "Shifted", "ZeroRA"},
     addme |-> {"CheckRecord", "Carry", "Extended", "ToMinusOne"},
     addze |-> {"CheckRecord", "Carry", "Extended", "ToZero"}]

\* b - a is ~a + b + 1.
SubtractFlags ==
    [subf |-> {"Subtract", "CheckRecord"},
     subfc |-> {"Carry", "Subtract", "CheckRecord"},
     subfe |-> {"Extended", "Carry", "Subtract", "CheckRecord"},
     subfic |-> {"Immediate", "Carry", "Subtract"},
     subfme |-> {"ToMinusOne", "Extended", "Carry", "CheckRecord", "Subtract"},
     subfze |-> {"ToZero", "Extended", "Carry", "CheckRecord", "Subtract"}]

AddOperandB(s, i, flags) ==
    LET b == CASE "Immediate" \in flags -> sign_extend(i.simm, Half)
               [] "ToZero" \in flags -> 0
               [] "ToMinusOne" \in flags -> AllOnes
               [] OTHER -> s.gpr[i.rB]
    IN  IF "Shifted" \in flags THEN ShiftLeft(b, Half) ELSE b

AddOperandA(s, i, flags) ==
    LET a == IF "ZeroRA" \in flags THEN GprOrZero(s, i.rA) ELSE s.gpr[i.rA]
    IN  IF "Subtract" \in flags THEN Complement(a) ELSE a

MutantCarryOut(a, b, d) == d < a

\* d is the sum of a, b and a carry in: it wrapped around.
carryOut(a, b, d) == d < a \/ (d = a /\ b > 0)

\* Extended adds XER[CA], also when it subtracts; else a subtraction adds 1.
addGeneric(s, i, flags) ==
    LET a == AddOperandA(s, i, flags)
        b == AddOperandB(s, i, flags)
        carryIn == IF "Extended" \in flags THEN Ca(s)
                   ELSE IF "Subtract" \in flags THEN 1 ELSE 0
        d == Wrap(a + b + carryIn)
        overflow == SignBit((a ^^ d) & (b ^^ d)) = 1
        stored == [s EXCEPT !.gpr[i.rD] = d]
        carried == IF "Carry" \in flags THEN updateCarry(stored, carryOut(a, b, d))
                   ELSE stored
    IN  CASE "AlwaysRecord" \in flags -> updateConditionRegister(carried, d)
          [] "CheckRecord" \in flags ->
                Record(RecordOverflow(carried, i, overflow), i, d)
          [] OTHER -> carried

\* The logical groups share a form: rA is an operation of rS and of rB or an
\* immediate, shifted or complemented as the flags say.
AndFlags ==
    [and_ |-> {"CheckRecord"}, andc |-> {"CheckRecord", "Complement"},
     andi |-> {"AlwaysRecord", "Immediate"},
     andis |-> {"AlwaysRecord", "Immediate", "Shifted"}]

OrFlags ==
    [or_ |-> {"CheckRecord"}, orc |-> {"CheckRecord", "Complement"},
     ori |-> {"Immediate"}, oris |-> {"Immediate", "Shifted"}]

XorFlags ==
    [xor_ |-> {"CheckRecord"}, xori |-> {"Immediate"},
     xoris |-> {"Immediate", "Shifted"}]

LogicOperandB(s, i, flags) ==
    LET b == IF "Immediate" \in flags THEN i.uimm ELSE s.gpr[i.rB]
        shifted == IF "Shifted" \in flags THEN ShiftLeft(b, Half) ELSE b
    IN  IF "Complement" \in flags THEN Complement(shifted) ELSE shifted

LogicResult(s, i, flags, a) ==
    LET stored == [s EXCEPT !.gpr[i.rA] = a]
    IN  CASE "AlwaysRecord" \in flags -> updateConditionRegister(stored, a)
          [] "CheckRecord" \in flags -> Record(stored, i, a)
          [] OTHER -> stored

andGeneric(s, i, flags) ==
    LogicResult(s, i, flags, s.gpr[i.rS] & LogicOperandB(s, i, flags))
orGeneric(s, i, flags) ==
    LogicResult(s, i, flags, s.gpr[i.rS] | LogicOperandB(s, i, flags))
xorGeneric(s, i, flags) ==
    LogicResult(s, i, flags, s.gpr[i.rS] ^^ LogicOperandB(s, i, flags))

nand(s, i) ==
    LogicResult(s, i, {"CheckRecord"}, Complement(s.gpr[i.rS] & s.gpr[i.rB]))
nor(s, i) ==
    LogicResult(s, i, {"CheckRecord"}, Complement(s.gpr[i.rS] | s.gpr[i.rB]))
eqv(s, i) ==
    LogicResult(s, i, {"CheckRecord"}, Complement(s.gpr[i.rS] ^^ s.gpr[i.rB]))
extsb(s, i) ==
    LogicResult(s, i, {"CheckRecord"}, sign_extend(s.gpr[i.rS], Quarter))
extsh(s, i) ==
    LogicResult(s, i, {"CheckRecord"}, sign_extend(s.gpr[i.rS], Half))

\* The highest one of a word that is not zero (_BitScanReverse, bsr).
HighestOne(x) == CHOOSE n \in 0 .. Width - 1 : 2^n <= x /\ x < 2^(n + 1)

cntlzw(s, i) ==
    LET x == s.gpr[i.rS]
        n == IF x = 0 THEN Width ELSE Width - 1 - HighestOne(x)
    IN  LogicResult(s, i, {"CheckRecord"}, n)

\* C++ division truncates; the quotient of two signed words.
Quotient(a, b) ==
    LET q == (IF a < 0 THEN -a ELSE a) \div (IF b < 0 THEN -b ELSE b)
    IN  IF (a < 0) = (b < 0) THEN q ELSE -q

divGeneric(s, i, signed) ==
    LET a == IF signed THEN Signed(s.gpr[i.rA]) ELSE s.gpr[i.rA]
        b == IF signed THEN Signed(s.gpr[i.rB]) ELSE s.gpr[i.rB]
        overflow == b = 0 \/ (signed /\ a = -MinSigned /\ b = -1)
        d == IF ~overflow THEN Wrap(Quotient(a, b))
             ELSE IF a < 0 THEN AllOnes ELSE 0
    IN  Record(RecordOverflow([s EXCEPT !.gpr[i.rD] = d], i, overflow), i, d)

MulFlags ==
    [mulhw |-> {"High", "CheckRecord"}, mulli |-> {"Immediate", "Low"},
     mullw |-> {"Low", "CheckRecord"}]

MulResult(s, i, flags, product) ==
    LET d == Wrap(IF "Low" \in flags THEN product ELSE product \div 2^Width)
        stored == [s EXCEPT !.gpr[i.rD] = d]
    IN  IF "CheckRecord" \in flags THEN Record(stored, i, d) ELSE stored

mulSignedGeneric(s, i, flags) ==
    LET b == IF "Immediate" \in flags THEN sign_extend(i.simm, Half)
             ELSE s.gpr[i.rB]
    IN  MulResult(s, i, flags, Signed(s.gpr[i.rA]) * Signed(b))

mulUnsignedGeneric(s, i, flags) ==
    MulResult(s, i, flags, s.gpr[i.rA] * s.gpr[i.rB])

neg(s, i) ==
    LET a == s.gpr[i.rA]
        d == Wrap(Complement(a) + 1)
        stored == [s EXCEPT !.gpr[i.rD] = d]
    IN  Record(RecordOverflow(stored, i, a = MinSigned), i, d)

RlwFlags ==
    [rlwimi |-> {"Immediate", "Insert"}, rlwinm |-> {"Immediate", "And"},
     rlwnm |-> {"And"}]

rlwGeneric(s, i, flags) ==
    LET n == IF "Immediate" \in flags THEN i.sh ELSE s.gpr[i.rB] % Width
        r == RotateLeft(s.gpr[i.rS], n)
        m == make_ppc_bitmask(i.mb, i.me)
        a == IF "And" \in flags THEN r & m
             ELSE (r & m) | (s.gpr[i.rA] & Complement(m))
    IN  LogicResult(s, i, {"CheckRecord"}, a)

\* The bit of a shift amount that says it is Width or more (b & 0x20).
LongShift(b) == (b \div Width) % 2 = 1

shiftLogical(s, i, left) ==
    LET b == s.gpr[i.rB]
        n == b % Width
        a == IF LongShift(b) THEN 0
             ELSE IF left THEN ShiftLeft(s.gpr[i.rS], n)
             ELSE ShiftRight(s.gpr[i.rS], n)
    IN  LogicResult(s, i, {"CheckRecord"}, a)

\* The value is shifted by the low bits of the amount whether or not the
\* amount is long; only the carry looks at that.
shiftArithmetic(s, i, immediate) ==
    LET x == s.gpr[i.rS]
        b == IF immediate THEN i.sh ELSE s.gpr[i.rB]
        n == b % Width
        a == Wrap(Signed(x) \div 2^n)
        carry == /\ n # 0
                 /\ SignBit(x) = 1
                 /\ LongShift(b) \/ ShiftLeft(x, Width - n) # 0
        stored == [s EXCEPT !.gpr[i.rA] = a]
    IN  Record(updateCarry(stored, carry), i, a)

Integer(s, i) ==
    CASE i.id \in DOMAIN AddFlags -> addGeneric(s, i, AddFlags[i.id])
      [] i.id \in DOMAIN SubtractFlags -> addGeneric(s, i, SubtractFlags[i.id])
      [] i.id \in DOMAIN AndFlags -> andGeneric(s, i, AndFlags[i.id])
      [] i.id \in DOMAIN OrFlags -> orGeneric(s, i, OrFlags[i.id])
      [] i.id \in DOMAIN XorFlags -> xorGeneric(s, i, XorFlags[i.id])
      [] i.id \in DOMAIN MulFlags -> mulSignedGeneric(s, i, MulFlags[i.id])
      [] i.id \in DOMAIN RlwFlags -> rlwGeneric(s, i, RlwFlags[i.id])
      [] i.id = "nand" -> nand(s, i)
      [] i.id = "nor" -> nor(s, i)
      [] i.id = "eqv" -> eqv(s, i)
      [] i.id = "extsb" -> extsb(s, i)
      [] i.id = "extsh" -> extsh(s, i)
      [] i.id = "cntlzw" -> cntlzw(s, i)
      [] i.id = "divw" -> divGeneric(s, i, TRUE)
      [] i.id = "divwu" -> divGeneric(s, i, FALSE)
      [] i.id = "mulhwu" -> mulUnsignedGeneric(s, i, {"High", "CheckRecord"})
      [] i.id = "neg" -> neg(s, i)
      [] i.id = "slw" -> shiftLogical(s, i, TRUE)
      [] i.id = "srw" -> shiftLogical(s, i, FALSE)
      [] i.id = "sraw" -> shiftArithmetic(s, i, FALSE)
      [] i.id = "srawi" -> shiftArithmetic(s, i, TRUE)

\* The instructions the unit registers.
IntegerIds ==
    DOMAIN AddFlags \cup DOMAIN SubtractFlags \cup DOMAIN AndFlags
        \cup DOMAIN OrFlags \cup DOMAIN XorFlags \cup DOMAIN MulFlags
        \cup DOMAIN RlwFlags
        \cup {"nand", "nor", "eqv", "extsb", "extsh", "cntlzw", "divw", "divwu",
              "mulhwu", "neg", "slw", "srw", "sraw", "srawi"}

-----------------------------------------------------------------------------
(* Condition register, branch and system instructions.                     *)

CmpFlags ==
    [cmp |-> {"Signed"}, cmpi |-> {"Signed", "Immediate"}, cmpl |-> {},
     cmpli |-> {"Immediate"}]

CmpOperandB(s, i, flags) ==
    CASE {"Signed", "Immediate"} \subseteq flags -> sign_extend(i.simm, Half)
      [] "Immediate" \in flags /\ "Signed" \notin flags -> i.uimm
      [] OTHER -> s.gpr[i.rB]

Order(a, b) ==
    IF a < b THEN LessThan ELSE IF a > b THEN GreaterThan ELSE Equal

cmpGeneric(s, i, flags) ==
    LET a == s.gpr[i.rA]
        b == CmpOperandB(s, i, flags)
        c == IF "Signed" \in flags THEN Order(Signed(a), Signed(b))
             ELSE Order(a, b)
    IN  setCRF(s, i.crfD, c + So(s))

\* The logical operation of each instruction on two bits of CR.
CrLogic ==
    [crand |-> [a, b \in {0, 1} |-> a * b],
     crandc |-> [a, b \in {0, 1} |-> a * (1 - b)],
     creqv |-> [a, b \in {0, 1} |-> IF a = b THEN 1 ELSE 0],
     crnand |-> [a, b \in {0, 1} |-> 1 - a * b],
     crnor |-> [a, b \in {0, 1} |-> (1 - a) * (1 - b)],
     cror |-> [a, b \in {0, 1} |-> IF a + b > 0 THEN 1 ELSE 0],
     crorc |-> [a, b \in {0, 1} |-> IF a = 1 \/ b = 0 THEN 1 ELSE 0],
     crxor |-> [a, b \in {0, 1} |-> (a + b) % 2]]

crLogical(s, i) ==
    setCRB(s, i.crbD, CrLogic[i.id][getCRB(s, i.crbA), getCRB(s, i.crbB)])

mcrf(s, i) == setCRF(s, i.crfD, getCRF(s, i.crfS))

\* Moves the word crxr, which is none of XER's bits.
mcrxr(s, i) == [setCRF(s, i.crfD, s.crxr) EXCEPT !.crxr = 0]

mfcr(s, i) == [s EXCEPT !.gpr[i.rD] = s.cr]

\* The bits of the fields that crm selects, its bit 0 the last field.
CrmMask(crm) ==
    LET mask[k \in 0 .. Width \div 4] ==
            IF k = 0 THEN 0
            ELSE mask[k - 1] + get_bit(crm, k - 1) * 15 * 16^(k - 1)
    IN  mask[Width \div 4]

mtcrf(s, i) ==
    LET mask == CrmMask(i.crm)
    IN  [s EXCEPT !.cr = (s.gpr[i.rS] & mask) | (@ & Complement(mask))]

Condition(s, i) ==
    CASE i.id \in DOMAIN CmpFlags -> cmpGeneric(s, i, CmpFlags[i.id])
      [] i.id \in DOMAIN CrLogic -> crLogical(s, i)
      [] i.id = "mcrf" -> mcrf(s, i)
      [] i.id = "mcrxr" -> mcrxr(s, i)
      [] i.id = "mfcr" -> mfcr(s, i)
      [] i.id = "mtcrf" -> mtcrf(s, i)

-----------------------------------------------------------------------------
(* Branches.  A target is the instruction's word offset bd or li, or LR or  *)
(* CTR with its low two bits cleared.                                       *)

Aligned(address) == address - (address % 4)

b(s, i) ==
    LET target == sign_extend(Wrap(4 * i.li), Width)
        nia == IF i.aa = 1 THEN target ELSE Wrap(target + s.cia)
        linked == IF i.lk = 1 THEN Wrap(s.cia + 4) ELSE s.lr
    IN  [s EXCEPT !.nia = nia, !.lr = linked]

\* The bits of BO (BoBits).
CtrValue(bo) == get_bit(bo, 1)
NoCheckCtr(bo) == get_bit(bo, 2) = 1
CondValue(bo) == get_bit(bo, 3)
NoCheckCond(bo) == get_bit(bo, 4) = 1

BcFlags ==
    [bc |-> {"CheckCtr", "CheckCond"}, bcctr |-> {"BranchCTR", "CheckCond"},
     bclr |-> {"BranchLR", "CheckCtr", "CheckCond"}]

\* CTR counts down even when the condition then fails; the link register is
\* written after the branch target has been read from it.
bcGeneric(s, i, flags) ==
    LET checkCtr == "CheckCtr" \in flags /\ ~NoCheckCtr(i.bo)
        ctr == IF checkCtr THEN Wrap(s.ctr - 1) ELSE s.ctr
        ctrOk == checkCtr => (ctr # 0) = (CtrValue(i.bo) = 0)
        condOk == NoCheckCond(i.bo) \/ getCRB(s, i.bi) = CondValue(i.bo)
        relative == sign_extend(Wrap(4 * i.bd), Width)
        target == CASE "BranchCTR" \in flags -> Aligned(ctr)
                    [] "BranchLR" \in flags -> Aligned(s.lr)
                    [] OTHER -> IF i.aa = 1 THEN relative
                                ELSE Wrap(relative + s.cia)
        counted == [s EXCEPT !.ctr = ctr]
    IN  IF ~(ctrOk /\ condOk) THEN counted
        ELSE [counted EXCEPT !.nia = target,
                             !.lr = IF i.lk = 1 THEN Wrap(s.cia + 4) ELSE @]

Branch(s, i) ==
    IF i.id = "b" THEN b(s, i) ELSE bcGeneric(s, i, BcFlags[i.id])

-----------------------------------------------------------------------------
(* System registers and the cache block that dcbz clears.                   *)

CacheLine == Width

dcbz(s, i) ==
    LET ea == Wrap(GprOrZero(s, i.rA) + s.gpr[i.rB])
        line == ea - (ea % CacheLine)
    IN  [s EXCEPT !.mem = [k \in DOMAIN @ |->
            IF k \in line .. line + CacheLine - 1 THEN 0 ELSE @[k]]]

\* i.spr names the register: "XER", "LR", "CTR" or the number of a GQR.
mfspr(s, i) ==
    LET value == CASE i.spr = "XER" -> s.xer
                   [] i.spr = "LR" -> s.lr
                   [] i.spr = "CTR" -> s.ctr
                   [] i.spr = "GQR" -> s.gqr[i.i]
    IN  [s EXCEPT !.gpr[i.rD] = value]

mtspr(s, i) ==
    LET value == s.gpr[i.rS]
    IN  CASE i.spr = "XER" -> [s EXCEPT !.xer = value]
          [] i.spr = "LR" -> [s EXCEPT !.lr = value]
          [] i.spr = "CTR" -> [s EXCEPT !.ctr = value]
          [] i.spr = "GQR" -> [s EXCEPT !.gqr[i.i] = value]

\* Reads of the time base, MSR and the segment registers, and the writes.
MoveFrom(s, i) ==
    LET value == CASE i.id = "mftb" -> s.tb[i.spr]
                   [] i.id = "mfmsr" -> s.msr
                   [] i.id = "mfsr" -> s.sr[i.sr]
                   [] i.id = "mfsrin" -> s.sr[s.gpr[i.rB] % Cardinality(DOMAIN s.sr)]
    IN  [s EXCEPT !.gpr[i.rD] = value]

MoveTo(s, i) ==
    CASE i.id = "mtmsr" -> [s EXCEPT !.msr = s.gpr[i.rS]]
      [] i.id = "mtsr" -> [s EXCEPT !.sr[i.sr] = s.gpr[i.rS]]
      [] i.id = "mtsrin" ->
            [s EXCEPT !.sr[s.gpr[i.rB] % Cardinality(DOMAIN s.sr)] = s.gpr[i.rS]]

\* Hints and barriers have nothing to do in an emulator without caches.
Hints == {"dcbf", "dcbi", "dcbst", "dcbt", "dcbtst", "eieio", "sync", "isync"}

System(s, i) ==
    CASE i.id \in {"dcbz", "dcbz_l"} -> dcbz(s, i)
      [] i.id = "mfspr" -> mfspr(s, i)
      [] i.id = "mtspr" -> mtspr(s, i)
      [] i.id \in {"mftb", "mfmsr", "mfsr", "mfsrin"} -> MoveFrom(s, i)
      [] i.id \in {"mtmsr", "mtsr", "mtsrin"} -> MoveTo(s, i)
      [] i.id \in Hints -> s

-----------------------------------------------------------------------------
(* Loads and stores.  A double is a pair of words <<high, low>>; the double *)
(* of a single w is <<w, 0>>, and rounding a double to single keeps its     *)
(* high word.                                                               *)

NumGpr(s) == Cardinality(DOMAIN s.gpr)

\* What each load reads, and its flags.
Sizes == [Byte |-> 1, HalfWord |-> 2, FullWord |-> 4]

Load(type, flags) == [type |-> type, flags |-> flags]

LoadFlags ==
    [lbz |-> Load("Byte", {"ZeroRA"}), lbzu |-> Load("Byte", {"Update"}),
     lbzux |-> Load("Byte", {"Update", "Indexed"}),
     lbzx |-> Load("Byte", {"Indexed", "ZeroRA"}),
     lha |-> Load("HalfWord", {"SignExtend", "ZeroRA"}),
     lhau |-> Load("HalfWord", {"SignExtend", "Update"}),
     lhaux |-> Load("HalfWord", {"SignExtend", "Update", "Indexed"}),
     lhax |-> Load("HalfWord", {"SignExtend", "Indexed", "ZeroRA"}),
     lhbrx |-> Load("HalfWord", {"ByteReverse", "Indexed", "ZeroRA"}),
     lhz |-> Load("HalfWord", {"ZeroRA"}), lhzu |-> Load("HalfWord", {"Update"}),
     lhzux |-> Load("HalfWord", {"Update", "Indexed"}),
     lhzx |-> Load("HalfWord", {"Indexed", "ZeroRA"}),
     lwbrx |-> Load("FullWord", {"ByteReverse", "Indexed", "ZeroRA"}),
     lwarx |-> Load("FullWord", {"Reserve", "Indexed", "ZeroRA"}),
     lwz |-> Load("FullWord", {"ZeroRA"}), lwzu |-> Load("FullWord", {"Update"}),
     lwzux |-> Load("FullWord", {"Update", "Indexed"}),
     lwzx |-> Load("FullWord", {"Indexed", "ZeroRA"}),
     lfs |-> Load("Single", {"ZeroRA"}), lfsu |-> Load("Single", {"Update"}),
     lfsux |-> Load("Single", {"Update", "Indexed"}),
     lfsx |-> Load("Single", {"ZeroRA", "Indexed"}),
     lfd |-> Load("Double", {"ZeroRA"}), lfdu |-> Load("Double", {"Update"}),
     lfdux |-> Load("Double", {"Update", "Indexed"}),
     lfdx |-> Load("Double", {"ZeroRA", "Indexed"})]

EffectiveAddress(s, i, flags) ==
    LET base == IF "ZeroRA" \in flags THEN GprOrZero(s, i.rA) ELSE s.gpr[i.rA]
        offset == IF "Indexed" \in flags THEN s.gpr[i.rB]
                  ELSE sign_extend(i.d, Half)
    IN  Wrap(base + offset)

\* The reservation remembers the address and the word read there.
Reserve(s, ea) ==
    [s EXCEPT !.reserve = TRUE, !.reserveAddress = ea,
              !.reserveData = ReadBytes(s, ea, 4)]

LoadInteger(s, i, ea, type, flags) ==
    LET n == Sizes[type]
        read == ReadBytes(s, ea, n)
        swapped == IF "ByteReverse" \in flags THEN SwapBytes(read, n) ELSE read
        d == IF "SignExtend" \in flags THEN sign_extend(swapped, n * Quarter)
             ELSE swapped
    IN  [s EXCEPT !.gpr[i.rD] = d]

LoadFloat(s, i, ea, type) ==
    LET double == <<ReadBytes(s, ea, 4),
                    IF type = "Double" THEN ReadBytes(s, Wrap(ea + 4), 4) ELSE 0>>
    IN  [s EXCEPT !.fpr[i.rD] = double]

\* With Update, rA takes the address last: it wins when it is rD too.
loadGeneric(s, i, load) ==
    LET ea == EffectiveAddress(s, i, load.flags)
        loaded == IF load.type \in DOMAIN Sizes
                  THEN LoadInteger(s, i, ea, load.type, load.flags)
                  ELSE LoadFloat(s, i, ea, load.type)
        reserved == IF "Reserve" \in load.flags THEN Reserve(loaded, ea)
                    ELSE loaded
    IN  IF "Update" \in load.flags THEN [reserved EXCEPT !.gpr[i.rA] = ea]
        ELSE reserved

\* Consecutive words into the registers from rD to the last.
lmw(s, i) ==
    LET ea == EffectiveAddress(s, i, {"ZeroRA"})
    IN  [s EXCEPT !.gpr = [r \in DOMAIN @ |->
            IF r < i.rD THEN @[r]
            ELSE ReadBytes(s, Wrap(ea + 4 * (r - i.rD)), 4)]]

\* The bytes of a string instruction: none of the indexed form's count, else
\* nb, which is Width when it is 0.
StringAddress(s, i, indexed) ==
    Wrap(GprOrZero(s, i.rA) + (IF indexed THEN s.gpr[i.rB] ELSE 0))
byteCount(s) == s.xer % 2^(Width - 4)
StringLength(s, i, indexed) ==
    IF indexed THEN byteCount(s) ELSE IF i.nb = 0 THEN Width ELSE i.nb

\* Byte k of the string is byte k % 4 of register rD + k \div 4, around the
\* register file; a register's other bytes are cleared when its first is read.
lswGeneric(s, i, indexed) ==
    LET ea == StringAddress(s, i, indexed)
        n == StringLength(s, i, indexed)
        load[k \in 0 .. n] ==
            IF k = 0 THEN s.gpr
            ELSE LET r == (i.rD + (k - 1) \div 4) % NumGpr(s)
                     old == IF (k - 1) % 4 = 0 THEN 0 ELSE load[k - 1][r]
                     byte == s.mem[Wrap(ea + k - 1)]
                 IN  [load[k - 1] EXCEPT
                        ![r] = old | (byte * ByteValue^(3 - ((k - 1) % 4)))]
    IN  [s EXCEPT !.gpr = load[n]]

StoreFlags ==
    [stb |-> Load("Byte", {"ZeroRA"}), stbu |-> Load("Byte", {"Update"}),
     stbux |-> Load("Byte", {"Update", "Indexed"}),
     stbx |-> Load("Byte", {"ZeroRA", "Indexed"}),
     sth |-> Load("HalfWord", {"ZeroRA"}), sthu |-> Load("HalfWord", {"Update"}),
     sthux |-> Load("HalfWord", {"Update", "Indexed"}),
     sthx |-> Load("HalfWord", {"ZeroRA", "Indexed"}),
     stw |-> Load("FullWord", {"ZeroRA"}), stwu |-> Load("FullWord", {"Update"}),
     stwux |-> Load("FullWord", {"Update", "Indexed"}),
     stwx |-> Load("FullWord", {"ZeroRA", "Indexed"}),
     sthbrx |-> Load("HalfWord", {"ZeroRA", "ByteReverse", "Indexed"}),
     stwbrx |-> Load("FullWord", {"ZeroRA", "ByteReverse", "Indexed"}),
     stwcx |-> Load("FullWord", {"ZeroRA", "Conditional", "Indexed"}),
     stfs |-> Load("Single", {"ZeroRA"}), stfsu |-> Load("Single", {"Update"}),
     stfsux |-> Load("Single", {"Update", "Indexed"}),
     stfsx |-> Load("Single", {"ZeroRA", "Indexed"}),
     stfd |-> Load("Double", {"ZeroRA"}), stfdu |-> Load("Double", {"Update"}),
     stfdux |-> Load("Double", {"Update", "Indexed"}),
     stfdx |-> Load("Double", {"ZeroRA", "Indexed"}),
     stfiwx |-> Load("FullWord", {"FloatAsInteger", "ZeroRA", "Indexed"})]

StoreValue(s, i, ea, type, flags) ==
    LET register == IF "FloatAsInteger" \in flags THEN s.fpr[i.rS][2]
                    ELSE s.gpr[i.rS]
        n == Sizes[type]
    IN  CASE type = "Single" -> WriteBytes(s, ea, 4, s.fpr[i.rS][1])
          [] type = "Double" ->
                WriteBytes(WriteBytes(s, ea, 4, s.fpr[i.rS][1]),
                           Wrap(ea + 4), 4, s.fpr[i.rS][2])
          [] OTHER -> WriteBytes(s, ea, n,
                IF "ByteReverse" \in flags
                THEN SwapBytes(register % ByteValue^n, n) ELSE register)

\* A conditional store looks for the word it reserved at the address it
\* reserved, whatever address it writes itself.
Conditional(s) ==
    LET tested == setCRF(s, 0, So(s))
        intact == ReadBytes(s, s.reserveAddress, 4) = s.reserveData
    IN  IF ~s.reserve THEN tested
        ELSE [(IF intact THEN setCRF(s, 0, Equal + So(s)) ELSE tested)
                EXCEPT !.reserve = FALSE]

Stores(s, flags) ==
    "Conditional" \in flags =>
        s.reserve /\ ReadBytes(s, s.reserveAddress, 4) = s.reserveData

storeGeneric(s, i, store) ==
    LET ea == EffectiveAddress(s, i, store.flags)
        tested == IF "Conditional" \in store.flags THEN Conditional(s) ELSE s
        stored == StoreValue(tested, i, ea, store.type, store.flags)
    IN  IF ~Stores(s, store.flags) THEN tested
        ELSE IF "Update" \in store.flags THEN [stored EXCEPT !.gpr[i.rA] = ea]
        ELSE stored

stmw(s, i) ==
    LET ea == EffectiveAddress(s, i, {"ZeroRA"})
        store[r \in i.rS .. NumGpr(s)] ==
            IF r = i.rS THEN s
            ELSE WriteBytes(store[r - 1], Wrap(ea + 4 * (r - 1 - i.rS)), 4,
                            s.gpr[r - 1])
    IN  store[NumGpr(s)]

stswGeneric(s, i, indexed) ==
    LET ea == StringAddress(s, i, indexed)
        n == StringLength(s, i, indexed)
        store[k \in 0 .. n] ==
            IF k = 0 THEN s
            ELSE LET r == (i.rS + (k - 1) \div 4) % NumGpr(s)
                 IN  WriteBytes(store[k - 1], Wrap(ea + k - 1), 1,
                                ByteOf(s.gpr[r], 3 - ((k - 1) % 4)))
    IN  store[n]

LoadStore(s, i) ==
    CASE i.id \in DOMAIN LoadFlags -> loadGeneric(s, i, LoadFlags[i.id])
      [] i.id \in DOMAIN StoreFlags -> storeGeneric(s, i, StoreFlags[i.id])
      [] i.id = "lmw" -> lmw(s, i)
      [] i.id = "stmw" -> stmw(s, i)
      [] i.id = "lswi" -> lswGeneric(s, i, FALSE)
      [] i.id = "lswx" -> lswGeneric(s, i, TRUE)
      [] i.id = "stswi" -> stswGeneric(s, i, FALSE)
      [] i.id = "stswx" -> stswGeneric(s, i, TRUE)

=============================================================================
