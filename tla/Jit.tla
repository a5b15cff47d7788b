------------------------------- MODULE Jit -------------------------------
(* What the x86 code that the recompiler emits for an instruction does to the *)
(* thread's registers and memory (jit_integer.cpp, jit_condition.cpp,       *)
(* jit_branch.cpp, jit_system.cpp, jit_loadstore.cpp).  The recompiler passes *)
(* an instruction it cannot emit to the interpreter's handler.              *)
EXTENDS Machine

Interp == INSTANCE Interpreter

jit_fallback(s, i) == Interp!Integer(s, i)

\* shl, shr and rol use the low bits of a shift amount only.
x86Count(n) == n % Width

\* cmp value, 0 and lahf keep the flags in AH; sahf brings them back for setg
\* and setl.  When the scratch register that takes the results of the tests is
\* EAX, the first result overwrites AH, and both tests see clear flags.
updateConditionRegister(s, value, scratchIsEax) ==
    LET zero == IF value = 0 THEN Equal ELSE 0
        positive == IF scratchIsEax \/ Signed(value) > 0 THEN GreaterThan ELSE 0
        negative == IF ~scratchIsEax /\ Signed(value) < 0 THEN LessThan ELSE 0
    IN  setCRF(s, 0, zero + positive + negative + So(s))

\* With EAX as the scratch register.
MutantRecord(s, i, value) ==
    IF i.rc = 1 THEN updateConditionRegister(s, value, TRUE) ELSE s

Record(s, i, value) ==
    IF i.rc = 1 THEN updateConditionRegister(s, value, FALSE) ELSE s

AddFlags == Interp!AddFlags
SubtractFlags == Interp!SubtractFlags

\* XER with the bits that mask selects replaced; SO is never among them.
writeXer(s, flags, carry, overflow) ==
    LET carried == IF "Carry" \in flags
                   THEN set_bit_value(s.xer, CaBit, IF carry THEN 1 ELSE 0)
                   ELSE s.xer
        overflowed == IF "Overflow" \in flags
                      THEN set_bit_value(carried, OvBit, IF overflow THEN 1 ELSE 0)
                      ELSE carried
    IN  [s EXCEPT !.xer = overflowed]

\* adc or add, then setc and seto.
addGeneric(s, i, flags) ==
    LET a == IF "ZeroRA" \in flags THEN GprOrZero(s, i.rA) ELSE s.gpr[i.rA]
        b == Interp!AddOperandB(s, i, flags)
        carryIn == IF "Extended" \in flags THEN Ca(s) ELSE 0
        d == Wrap(a + b + carryIn)
        overflow == Signed(a) + Signed(b) + carryIn # Signed(d)
        always == "AlwaysRecord" \in flags
        recorded == (flags \cap {"Carry"})
            \cup (IF always \/ ("CheckRecord" \in flags /\ i.oe = 1)
                  THEN {"Overflow"} ELSE {})
        stored == [writeXer(s, recorded, a + b + carryIn > AllOnes, overflow)
                     EXCEPT !.gpr[i.rD] = d]
    IN  IF "Subtract" \in flags THEN jit_fallback(s, i)
        ELSE IF always THEN updateConditionRegister(stored, d, FALSE)
        ELSE IF "CheckRecord" \in flags THEN Record(stored, i, d)
        ELSE stored

AndFlags == Interp!AndFlags
OrFlags == Interp!OrFlags
XorFlags == Interp!XorFlags

LogicResult(s, i, flags, a) ==
    LET stored == [s EXCEPT !.gpr[i.rA] = a]
    IN  CASE "AlwaysRecord" \in flags -> updateConditionRegister(stored, a, FALSE)
          [] "CheckRecord" \in flags -> Record(stored, i, a)
          [] OTHER -> stored

andGeneric(s, i, flags) ==
    LogicResult(s, i, flags, s.gpr[i.rS] & Interp!LogicOperandB(s, i, flags))
orGeneric(s, i, flags) ==
    LogicResult(s, i, flags, s.gpr[i.rS] | Interp!LogicOperandB(s, i, flags))
xorGeneric(s, i, flags) ==
    LogicResult(s, i, flags, s.gpr[i.rS] ^^ Interp!LogicOperandB(s, i, flags))
nand(s, i) ==
    LogicResult(s, i, {"CheckRecord"}, Complement(s.gpr[i.rS] & s.gpr[i.rB]))
nor(s, i) ==
    LogicResult(s, i, {"CheckRecord"}, Complement(s.gpr[i.rS] | s.gpr[i.rB]))
extsb(s, i) ==
    LogicResult(s, i, {"CheckRecord"}, sign_extend(s.gpr[i.rS], Quarter))
extsh(s, i) ==
    LogicResult(s, i, {"CheckRecord"}, sign_extend(s.gpr[i.rS], Half))

\* bsr, unless the word is zero.
cntlzw(s, i) ==
    LET x == s.gpr[i.rS]
    IN  LogicResult(s, i, {"CheckRecord"},
            IF x = 0 THEN Width ELSE (Width - 1) - Interp!HighestOne(x))

\* The product is in EDX:EAX; EAX is the scratch register when the high half
\* is the value that CR0 is set from.
MulResult(s, i, flags, product) ==
    LET high == "High" \in flags
        d == Wrap(IF high THEN product \div 2^Width ELSE product)
        stored == [s EXCEPT !.gpr[i.rD] = d]
    IN  IF "CheckRecord" \in flags /\ i.rc = 1
        THEN updateConditionRegister(stored, d, high) ELSE stored

mulSignedGeneric(s, i, flags) ==
    LET b == IF "Immediate" \in flags THEN sign_extend(i.simm, Half)
             ELSE s.gpr[i.rB]
    IN  MulResult(s, i, flags, Signed(s.gpr[i.rA]) * Signed(b))

mulUnsignedGeneric(s, i, flags) ==
    MulResult(s, i, flags, s.gpr[i.rA] * s.gpr[i.rB])

\* The two shiftTo calls are given bit masks for bit numbers: as shift counts
\* they are zero, so that the result of seto stays in bit 0 and is or-ed into
\* XER there.
neg(s, i) ==
    LET a == s.gpr[i.rA]
        d == Wrap(-a)
        of == IF a = MinSigned THEN 1 ELSE 0
        stored == [s EXCEPT !.gpr[i.rD] = d]
        overflowed == [stored EXCEPT !.xer = set_bit_value(@, OvBit, 0) | of]
    IN  Record(IF i.oe = 1 THEN overflowed ELSE stored, i, d)

rlwGeneric(s, i, flags) ==
    LET n == IF "Immediate" \in flags THEN x86Count(i.sh)
             ELSE x86Count(s.gpr[i.rB])
        r == RotateLeft(s.gpr[i.rS], n)
        m == make_ppc_bitmask(i.mb, i.me)
        kept == IF "Insert" \in flags THEN s.gpr[i.rA] & Complement(m) ELSE 0
    IN  LogicResult(s, i, {"CheckRecord"}, (r & m) | kept)

shiftLogical(s, i, left) ==
    LET n == x86Count(s.gpr[i.rB])
        a == IF left THEN ShiftLeft(s.gpr[i.rS], n)
             ELSE ShiftRight(s.gpr[i.rS], n)
    IN  LogicResult(s, i, {"CheckRecord"}, a)

\* A shift by an immediate of zero only clears the carry.
shiftArithmetic(s, i, immediate) ==
    IF immediate /\ i.sh = 0 THEN writeXer(s, {"Carry"}, FALSE, FALSE)
    ELSE jit_fallback(s, i)

Integer(s, i) ==
    CASE i.id \in DOMAIN AddFlags -> addGeneric(s, i, AddFlags[i.id])
      [] i.id \in DOMAIN SubtractFlags -> addGeneric(s, i, SubtractFlags[i.id])
      [] i.id \in DOMAIN AndFlags -> andGeneric(s, i, AndFlags[i.id])
      [] i.id \in DOMAIN OrFlags -> orGeneric(s, i, OrFlags[i.id])
      [] i.id \in DOMAIN XorFlags -> xorGeneric(s, i, XorFlags[i.id])
      [] i.id \in DOMAIN Interp!MulFlags ->
            mulSignedGeneric(s, i, Interp!MulFlags[i.id])
      [] i.id \in DOMAIN Interp!RlwFlags ->
            rlwGeneric(s, i, Interp!RlwFlags[i.id])
      [] i.id = "nand" -> nand(s, i)
      [] i.id = "nor" -> nor(s, i)
      [] i.id = "extsb" -> extsb(s, i)
      [] i.id = "extsh" -> extsh(s, i)
      [] i.id = "cntlzw" -> cntlzw(s, i)
      [] i.id \in {"divw", "divwu"} -> jit_fallback(s, i)
      [] i.id = "mulhwu" -> mulUnsignedGeneric(s, i, {"High", "CheckRecord"})
      [] i.id = "neg" -> neg(s, i)
      [] i.id = "slw" -> shiftLogical(s, i, TRUE)
      [] i.id = "srw" -> shiftLogical(s, i, FALSE)
      [] i.id = "sraw" -> shiftArithmetic(s, i, FALSE)
      [] i.id = "srawi" -> shiftArithmetic(s, i, TRUE)

\* eqv has an emitter that is not registered: a block that holds one is not
\* compiled.
IntegerIds == Interp!IntegerIds \ {"eqv"}

-----------------------------------------------------------------------------
(* Condition register, branch and system.  A branch leaves the compiled     *)
(* block with the next address in EAX, here the nia of the state.           *)

\* The summary bit is shifted by SummaryOverflowShift << crshift, which is 0:
\* it goes to the last bit of CR, whatever field the comparison writes.
cmpGeneric(s, i, flags) ==
    LET a == s.gpr[i.rA]
        b == Interp!CmpOperandB(s, i, flags)
        order == IF "Signed" \in flags THEN Interp!Order(Signed(a), Signed(b))
                 ELSE Interp!Order(a, b)
        cleared == setCRF(s, i.crfD, 0)
    IN  [s EXCEPT !.cr = (cleared.cr | So(s)) |
                         ShiftLeft(order, CrfShift(i.crfD))]

crLogical(s, i) ==
    setCRB(s, i.crbD,
           Interp!CrLogic[i.id][getCRB(s, i.crbA), getCRB(s, i.crbB)])

\* Masks the source field out of the copy of CR instead of keeping it alone.
mcrf(s, i) ==
    LET others == s.cr & Complement(ShiftLeft(15, CrfShift(i.crfS)))
        moved == ShiftLeft(ShiftRight(others, CrfShift(i.crfS)),
                           CrfShift(i.crfD))
    IN  [s EXCEPT !.cr = setCRF(s, i.crfD, 0).cr | moved]

\* Moves the top four bits of XER itself.
mcrxr(s, i) ==
    LET crxr == ShiftRight(s.xer, Width - 4)
    IN  [setCRF(s, i.crfD, crxr) EXCEPT !.xer = @ % 2^(Width - 4)]

mfcr(s, i) == [s EXCEPT !.gpr[i.rD] = s.cr]

mtcrf(s, i) ==
    LET mask == Interp!CrmMask(i.crm)
    IN  [s EXCEPT !.cr = (s.gpr[i.rS] & mask) | (@ & Complement(mask))]

Condition(s, i) ==
    CASE i.id \in DOMAIN Interp!CmpFlags ->
            cmpGeneric(s, i, Interp!CmpFlags[i.id])
      [] i.id \in DOMAIN Interp!CrLogic -> crLogical(s, i)
      [] i.id = "mcrf" -> mcrf(s, i)
      [] i.id = "mcrxr" -> mcrxr(s, i)
      [] i.id = "mfcr" -> mfcr(s, i)
      [] i.id = "mtcrf" -> mtcrf(s, i)

-----------------------------------------------------------------------------

jit_b(s, i) ==
    LET target == sign_extend(Wrap(4 * i.li), Width)
        nia == IF i.aa = 1 THEN target ELSE Wrap(target + s.cia)
    IN  [s EXCEPT !.nia = nia,
                  !.lr = IF i.lk = 1 THEN Wrap(s.cia + 4) ELSE @]

\* The counter is tested first and a failed test jumps over the rest.  LR is
\* written before the target is read, and the target of bc is relative to the
\* instruction even when aa says that it is absolute.
bcGeneric(s, i, flags) ==
    LET checkCtr == "CheckCtr" \in flags /\ ~Interp!NoCheckCtr(i.bo)
        counted == [s EXCEPT !.ctr = IF checkCtr THEN Wrap(@ - 1) ELSE @]
        ctrFails == checkCtr /\ (IF Interp!CtrValue(i.bo) = 1
                                 THEN counted.ctr # 0 ELSE counted.ctr = 0)
        condFails == /\ ~Interp!NoCheckCond(i.bo)
                     /\ getCRB(s, i.bi) # Interp!CondValue(i.bo)
        linked == [counted EXCEPT !.lr = IF i.lk = 1 THEN Wrap(s.cia + 4) ELSE @]
        target == CASE "BranchCTR" \in flags -> Interp!Aligned(linked.ctr)
                    [] "BranchLR" \in flags -> Interp!Aligned(linked.lr)
                    [] OTHER -> Wrap(s.cia + sign_extend(Wrap(4 * i.bd), Width))
    IN  IF ctrFails \/ condFails THEN counted ELSE [linked EXCEPT !.nia = target]

Branch(s, i) ==
    IF i.id = "b" THEN jit_b(s, i) ELSE bcGeneric(s, i, Interp!BcFlags[i.id])

-----------------------------------------------------------------------------

\* Reads a general register for a quantization register of that number.
mfspr(s, i) ==
    LET value == CASE i.spr = "XER" -> s.xer
                   [] i.spr = "LR" -> s.lr
                   [] i.spr = "CTR" -> s.ctr
                   [] i.spr = "GQR" -> s.gpr[i.i]
    IN  [s EXCEPT !.gpr[i.rD] = value]

mtspr(s, i) ==
    LET value == s.gpr[i.rD]
    IN  CASE i.spr = "XER" -> [s EXCEPT !.xer = value]
          [] i.spr = "LR" -> [s EXCEPT !.lr = value]
          [] i.spr = "CTR" -> [s EXCEPT !.ctr = value]
          [] i.spr = "GQR" -> [s EXCEPT !.gqr[i.i] = value]

\* Everything else is passed to the interpreter, but the barriers, for which
\* no code is emitted.
System(s, i) ==
    CASE i.id = "mfspr" -> mfspr(s, i)
      [] i.id = "mtspr" -> mtspr(s, i)
      [] i.id \in {"eieio", "sync", "isync"} -> s
      [] OTHER -> Interp!System(s, i)

-----------------------------------------------------------------------------
(* Loads and stores.  The address is computed in ECX and added to the base  *)
(* of the emulated memory; values are exchanged with bswap.                 *)

\* Host loads are little-endian: the bytes come in the other order, and are
\* swapped back unless the instruction is byte-reversed itself.
HostRead(s, ea, n) == SwapBytes(ReadBytes(s, ea, n), n)

LoadRegister(s, i, ea, n, flags) ==
    LET host == HostRead(s, ea, n)
        read == IF "ByteReverse" \in flags THEN host ELSE SwapBytes(host, n)
    IN  [s EXCEPT !.gpr[i.rD] =
            IF "SignExtend" \in flags THEN sign_extend(read, Half) ELSE read]

loadGeneric(s, i, load) ==
    LET ea == Interp!EffectiveAddress(s, i, load.flags)
        loaded == CASE load.type = "Single" ->
                         [s EXCEPT !.fpr[i.rD] = <<ReadBytes(s, ea, 4), 0>>]
                    [] load.type = "Double" ->
                         [s EXCEPT !.fpr[i.rD] =
                            <<ReadBytes(s, ea, 4), ReadBytes(s, Wrap(ea + 4), 4)>>]
                    [] OTHER -> LoadRegister(s, i, ea, Interp!Sizes[load.type],
                                             load.flags)
        reserved == IF "Reserve" \in load.flags
                    THEN [loaded EXCEPT !.reserve = TRUE, !.reserveAddress = ea,
                                        !.reserveData = ReadBytes(s, ea, 4)]
                    ELSE loaded
    IN  IF "Update" \in load.flags THEN [reserved EXCEPT !.gpr[i.rA] = ea]
        ELSE reserved

lmw(s, i) ==
    LET ea == Interp!EffectiveAddress(s, i, {"ZeroRA"})
        load[r \in i.rD .. Interp!NumGpr(s)] ==
            IF r = i.rD THEN s.gpr
            ELSE [load[r - 1] EXCEPT ![r - 1] =
                    ReadBytes(s, Wrap(ea + 4 * (r - 1 - i.rD)), 4)]
    IN  [s EXCEPT !.gpr = load[Interp!NumGpr(s)]]

StoreRegister(s, i, ea, n, flags) ==
    LET value == (IF "FloatAsInteger" \in flags THEN s.fpr[i.rS][2]
                  ELSE s.gpr[i.rS]) % ByteValue^n
        host == IF "ByteReverse" \in flags THEN value ELSE SwapBytes(value, n)
    IN  WriteBytes(s, ea, n, SwapBytes(host, n))

storeGeneric(s, i, store) ==
    LET ea == Interp!EffectiveAddress(s, i, store.flags)
        double == s.fpr[i.rS]
        stored == CASE store.type = "Single" -> WriteBytes(s, ea, 4, double[1])
                    [] store.type = "Double" ->
                         WriteBytes(WriteBytes(s, Wrap(ea + 4), 4, double[2]),
                                    ea, 4, double[1])
                    [] OTHER -> StoreRegister(s, i, ea, Interp!Sizes[store.type],
                                              store.flags)
    IN  IF "Conditional" \in store.flags THEN Interp!storeGeneric(s, i, store)
        ELSE IF "Update" \in store.flags THEN [stored EXCEPT !.gpr[i.rA] = ea]
        ELSE stored

stmw(s, i) ==
    LET ea == Interp!EffectiveAddress(s, i, {"ZeroRA"})
        store[r \in i.rS .. Interp!NumGpr(s)] ==
            IF r = i.rS THEN s
            ELSE WriteBytes(store[r - 1], Wrap(ea + 4 * (r - 1 - i.rS)), 4,
                            s.gpr[r - 1])
    IN  store[Interp!NumGpr(s)]

LoadStore(s, i) ==
    CASE i.id \in DOMAIN Interp!LoadFlags ->
            loadGeneric(s, i, Interp!LoadFlags[i.id])
      [] i.id \in DOMAIN Interp!StoreFlags ->
            storeGeneric(s, i, Interp!StoreFlags[i.id])
      [] i.id = "lmw" -> lmw(s, i)
      [] i.id = "stmw" -> stmw(s, i)
      [] i.id \in {"lswi", "lswx", "stswi", "stswx"} -> Interp!LoadStore(s, i)

=============================================================================
