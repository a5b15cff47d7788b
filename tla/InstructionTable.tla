-------------------------- MODULE InstructionTable --------------------------
(* How the emulator tells instructions apart (instructiontable.cpp): rows of *)
(* instructions.inl with the fields that make an opcode, the tree of fields  *)
(* that initTable makes of them, the walk that decodes an instruction, and   *)
(* what the disassembler shows of it (disassembler.cpp).  An instruction is  *)
(* the set of its bits that are 1; bit 0 is the highest.                     *)
EXTENDS Integers, Sequences, FiniteSets, SequencesExt

Span(first, last) == [first |-> first, last |-> last]

\* instructionfields.inl
FieldBits ==
    [aa |-> Span(30, 30), bd |-> Span(16, 29), bi |-> Span(11, 15), bo |-> Span(6, 10),
     crbA |-> Span(11, 15), crbB |-> Span(16, 20), crbD |-> Span(6, 10),
     crfD |-> Span(6, 8), crfS |-> Span(11, 13), crm |-> Span(12, 19), d |-> Span(16, 31),
     fm |-> Span(7, 14), frA |-> Span(11, 15), frB |-> Span(16, 20), frC |-> Span(21, 25),
     frD |-> Span(6, 10), frS |-> Span(6, 10), frc |-> Span(31, 31), i |-> Span(17, 19),
     imm |-> Span(16, 19), kcn |-> Span(6, 31), l |-> Span(10, 10), li |-> Span(6, 29),
     lk |-> Span(31, 31), mb |-> Span(21, 25), me |-> Span(26, 30), nb |-> Span(16, 20),
     oe |-> Span(21, 21), opcd |-> Span(0, 5), qd |-> Span(20, 31), qi |-> Span(22, 24),
     qw |-> Span(21, 21), rA |-> Span(11, 15), rB |-> Span(16, 20), rc |-> Span(31, 31),
     rD |-> Span(6, 10), rS |-> Span(6, 10), sh |-> Span(16, 20), simm |-> Span(16, 31),
     sr |-> Span(12, 15), spr |-> Span(11, 20), to |-> Span(6, 10), tbr |-> Span(11, 20),
     uimm |-> Span(16, 31), w |-> Span(16, 16), xo1 |-> Span(21, 30), xo2 |-> Span(22, 30),
     xo3 |-> Span(25, 30), xo4 |-> Span(26, 30)]
    @@ ("_6" :> Span(6, 6)) @@ ("_6_10" :> Span(6, 10)) @@ ("_9" :> Span(9, 9)) @@
       ("_9_10" :> Span(9, 10)) @@ ("_11" :> Span(11, 11)) @@ ("_11_15" :> Span(11, 15)) @@
       ("_14_15" :> Span(14, 15)) @@ ("_15" :> Span(15, 15)) @@
       ("_16_20" :> Span(16, 20)) @@ ("_16_29" :> Span(16, 29)) @@
       ("_20" :> Span(20, 20)) @@ ("_20_26" :> Span(20, 26)) @@ ("_21" :> Span(21, 21)) @@
       ("_21_25" :> Span(21, 25)) @@ ("_30" :> Span(30, 30)) @@ ("_31" :> Span(31, 31))

isFieldMarker(f) == f \notin DOMAIN FieldBits

BitsOf(f) == FieldBits[f].first .. FieldBits[f].last

\* The field's bits as a number; an spr's halves are swapped.
RawValue(f, instr) ==
    MapThenSumSet(LAMBDA bit : 2 ^ (FieldBits[f].last - bit), instr \cap BitsOf(f))

getFieldValue(f, instr) ==
    LET v == RawValue(f, instr)
    IN  IF f = "spr" THEN (v % 32) * 32 + (v \div 32) ELSE v

-----------------------------------------------------------------------------
(* instructions.inl.  A form has the rows that differ in one number only.    *)

None == <<>>
Zero(fields) == [k \in DOMAIN fields |-> <<fields[k], 0>>]

\* Rows with an extended opcode in xoField, and those without one.
Form(opcd, xoField, fixed, write, read, flags, xo) ==
    [id \in DOMAIN xo |-> [opcode |-> <<<<"opcd", opcd>>, <<xoField, xo[id]>>>> \o fixed,
                           write |-> write, read |-> read, flags |-> flags]]

Primary(fixed, write, read, flags, opcd) ==
    [id \in DOMAIN opcd |-> [opcode |-> <<<<"opcd", opcd[id]>>>> \o fixed,
                             write |-> write, read |-> read, flags |-> flags]]

IntegerForms == <<
    Form(31, "xo2", None, <<"rD">>, <<"rA", "rB">>, <<"oe", "rc">>,
        [add |-> 266, divw |-> 491, divwu |-> 459, mullw |-> 235, subf |-> 40, subfc |-> 8]),
    Form(31, "xo2", None, <<"rD", "XERC">>, <<"rA", "rB">>, <<"oe", "rc">>,
        [addc |-> 10]),
    Form(31, "xo2", None, <<"rD">>, <<"rA", "rB", "XERC">>, <<"oe", "rc">>,
        [adde |-> 138, subfe |-> 136]),
    Primary(None, <<"rD">>, <<"rA", "simm">>, <<>>,
        [addi |-> 14, addis |-> 15, mulli |-> 7]),
    Primary(None, <<"rD", "XERC">>, <<"rA", "simm">>, <<>>,
        [addic |-> 12, subfic |-> 8]),
    Primary(None, <<"rD", "XERC">>, <<"rA", "simm">>, <<"AOE", "ARC">>,
        [addicx |-> 13]),
    Form(31, "xo2", Zero(<<"_16_20">>), <<"rD">>, <<"rA", "XERC">>, <<"oe", "rc">>,
        [addme |-> 234, addze |-> 202, subfme |-> 232, subfze |-> 200]),
    Form(31, "xo2", Zero(<<"_21">>), <<"rD">>, <<"rA", "rB">>, <<"rc">>,
        [mulhw |-> 75, mulhwu |-> 11]),
    Form(31, "xo2", Zero(<<"_16_20">>), <<"rD">>, <<"rA">>, <<"oe", "rc">>,
        [neg |-> 104]),
    Form(31, "xo1", Zero(<<"_9", "_31">>), <<"crfD">>, <<"rA", "rB", "XERSO">>, <<"l">>,
        [cmp |-> 0, cmpl |-> 32]),
    Primary(Zero(<<"_9">>), <<"crfD">>, <<"rA", "simm", "XERSO">>, <<"l">>,
        [cmpi |-> 11]),
    Primary(Zero(<<"_9">>), <<"crfD">>, <<"rA", "uimm", "XERSO">>, <<"l">>,
        [cmpli |-> 10]),
    Form(31, "xo1", None, <<"rA">>, <<"rS", "rB">>, <<"rc">>,
        [and_ |-> 28, andc |-> 60, eqv |-> 284, nand |-> 476, nor |-> 124, or_ |-> 444,
         orc |-> 412, xor_ |-> 316, slw |-> 24, srw |-> 536]),
    Primary(None, <<"rA">>, <<"rS", "uimm">>, <<"AOE", "ARC">>,
        [andi |-> 28, andis |-> 29]),
    Form(31, "xo1", Zero(<<"_16_20">>), <<"rA">>, <<"rS">>, <<"rc">>,
        [cntlzw |-> 26, extsb |-> 954, extsh |-> 922]),
    Primary(None, <<"rA">>, <<"rS", "uimm">>, <<>>,
        [ori |-> 24, oris |-> 25, xori |-> 26, xoris |-> 27]),
    Primary(None, <<"rA">>, <<"rS", "rA", "sh", "mb", "me">>, <<"rc">>,
        [rlwimi |-> 20]),
    Primary(None, <<"rA">>, <<"rS", "sh", "mb", "me">>, <<"rc">>,
        [rlwinm |-> 21]),
    Primary(None, <<"rA">>, <<"rS", "rB", "mb", "me">>, <<"rc">>,
        [rlwnm |-> 23]),
    Form(31, "xo1", None, <<"rA", "XERC">>, <<"rS", "rB">>, <<"rc">>,
        [sraw |-> 792]),
    Form(31, "xo1", None, <<"rA", "XERC">>, <<"rS", "sh">>, <<"rc">>,
        [srawi |-> 824])>>

FloatForms == <<
    Form(63, "xo4", Zero(<<"_21_25">>), <<"frD", "FCRISI", "FCRSNAN">>, <<"frA", "frB">>, <<"frc">>,
        [fadd |-> 21]),
    Form(59, "xo4", Zero(<<"_21_25">>), <<"frD", "FCRISI", "FCRSNAN">>, <<"frA", "frB">>, <<"frc">>,
        [fadds |-> 21]),
    Form(63, "xo4", Zero(<<"_21_25">>), <<"frD", "FCRZDZ", "FCRIDI", "FCRSNAN">>, <<"frA", "frB">>, <<"frc">>,
        [fdiv |-> 18]),
    Form(59, "xo4", Zero(<<"_21_25">>), <<"frD">>, <<"frA", "frB">>, <<"frc">>,
        [fdivs |-> 18, fsubs |-> 20]),
    Form(63, "xo4", Zero(<<"_16_20">>), <<"frD">>, <<"frA", "frC">>, <<"frc">>,
        [fmul |-> 25]),
    Form(59, "xo4", Zero(<<"_16_20">>), <<"frD">>, <<"frA", "frC">>, <<"frc">>,
        [fmuls |-> 25]),
    Form(59, "xo4", Zero(<<"_11_15", "_21_25">>), <<"frD">>, <<"frB">>, <<"frc">>,
        [fres |-> 24]),
    Form(63, "xo4", Zero(<<"_11_15", "_21_25">>), <<"frD">>, <<"frB">>, <<"frc">>,
        [frsqrte |-> 26]),
    Form(63, "xo4", Zero(<<"_21_25">>), <<"frD">>, <<"frA", "frB">>, <<"frc">>,
        [fsub |-> 20]),
    Form(63, "xo4", None, <<"frD">>, <<"frA", "frB", "frC">>, <<"frc">>,
        [fsel |-> 23]),
    Form(63, "xo4", None, <<"frD">>, <<"frA", "frB", "frC">>, <<"rc">>,
        [fmadd |-> 29, fmsub |-> 28, fnmadd |-> 31, fnmsub |-> 30]),
    Form(59, "xo4", None, <<"frD">>, <<"frA", "frB", "frC">>, <<"rc">>,
        [fmadds |-> 29, fmsubs |-> 28, fnmadds |-> 31, fnmsubs |-> 30]),
    Form(63, "xo1", Zero(<<"_11_15">>), <<"frD">>, <<"frB">>, <<"rc">>,
        [fctiw |-> 14, fctiwz |-> 15, frsp |-> 12]),
    Form(63, "xo1", Zero(<<"_9_10", "_31">>), <<"crfD">>, <<"frA", "frB">>, <<>>,
        [fcmpo |-> 32, fcmpu |-> 0]),
    Form(63, "xo1", Zero(<<"_9_10", "_14_15", "_16_20", "_31">>), <<"crfD">>, <<"crfS">>, <<>>,
        [mcrfs |-> 64]),
    Form(63, "xo1", Zero(<<"_11_15", "_16_20">>), <<"frD">>, <<>>, <<"rc">>,
        [mffs |-> 583]),
    Form(63, "xo1", Zero(<<"_6", "_15">>), <<>>, <<"fm", "frB">>, <<"rc">>,
        [mtfsf |-> 711]),
    Form(63, "xo1", Zero(<<"_9_10", "_11_15", "_20">>), <<"crfD">>, <<>>, <<"rc", "imm">>,
        [mtfsfi |-> 134])>>

LoadStoreForms == <<
    Primary(None, <<"rD">>, <<"rA", "d">>, <<>>,
        [lbz |-> 34, lha |-> 42, lhz |-> 40, lwz |-> 32, lmw |-> 46]),
    Primary(None, <<"rD", "rA">>, <<"rA", "d">>, <<>>,
        [lbzu |-> 35, lhau |-> 43, lhzu |-> 41, lwzu |-> 33]),
    Form(31, "xo1", Zero(<<"_31">>), <<"rD">>, <<"rA", "rB">>, <<>>,
        [lbzx |-> 87, lhax |-> 343, lhzx |-> 279, lwzx |-> 23, lhbrx |-> 790, lwbrx |-> 534,
         lswx |-> 533]),
    Form(31, "xo1", Zero(<<"_31">>), <<"rD", "rA">>, <<"rA", "rB">>, <<>>,
        [lbzux |-> 119, lhaux |-> 375, lhzux |-> 311, lwzux |-> 55]),
    Primary(None, <<>>, <<"rS", "rA", "d">>, <<>>,
        [stb |-> 38, sth |-> 44, stw |-> 36, stmw |-> 47]),
    Primary(None, <<"rA">>, <<"rS", "rA", "d">>, <<>>,
        [stbu |-> 39, sthu |-> 45, stwu |-> 37]),
    Form(31, "xo1", Zero(<<"_31">>), <<>>, <<"rS", "rA", "rB">>, <<>>,
        [stbx |-> 215, sthx |-> 407, stwx |-> 151, sthbrx |-> 918, stwbrx |-> 662,
         stswx |-> 661]),
    Form(31, "xo1", Zero(<<"_31">>), <<"rA">>, <<"rS", "rA", "rB">>, <<>>,
        [stbux |-> 247, sthux |-> 439, stwux |-> 183]),
    Form(31, "xo1", Zero(<<"_31">>), <<"rD">>, <<"rA", "nb">>, <<>>,
        [lswi |-> 597]),
    Form(31, "xo1", Zero(<<"_31">>), <<>>, <<"rS", "rA", "nb">>, <<>>,
        [stswi |-> 725]),
    Form(31, "xo1", Zero(<<"_6_10", "_11_15", "_16_20", "_31">>), <<>>, <<>>, <<>>,
        [eieio |-> 854, sync |-> 598]),
    Form(19, "xo1", Zero(<<"_6_10", "_11_15", "_16_20", "_31">>), <<>>, <<>>, <<>>,
        [isync |-> 150]),
    Form(31, "xo1", Zero(<<"_31">>), <<"rD", "RSRV">>, <<"rA", "rB">>, <<>>,
        [lwarx |-> 20]),
    Form(31, "xo1", <<<<"_31", 1>>>>, <<"RSRV">>, <<"rS", "rA", "rB">>, <<>>,
        [stwcx |-> 150]),
    Primary(None, <<"frD">>, <<"rA", "d">>, <<>>,
        [lfd |-> 50, lfs |-> 48]),
    Primary(None, <<"frD", "rA">>, <<"rA", "d">>, <<>>,
        [lfdu |-> 51, lfsu |-> 49]),
    Form(31, "xo1", Zero(<<"_31">>), <<"frD">>, <<"rA", "rB">>, <<>>,
        [lfdx |-> 599, lfsx |-> 535]),
    Form(31, "xo1", Zero(<<"_31">>), <<"frD", "rA">>, <<"rA", "rB">>, <<>>,
        [lfdux |-> 631, lfsux |-> 567]),
    Primary(None, <<>>, <<"frS", "rA", "d">>, <<>>,
        [stfd |-> 54, stfs |-> 52]),
    Primary(None, <<"rA">>, <<"frS", "rA", "d">>, <<>>,
        [stfdu |-> 55, stfsu |-> 53]),
    Form(31, "xo1", Zero(<<"_31">>), <<>>, <<"frS", "rA", "rB">>, <<>>,
        [stfdx |-> 727, stfiwx |-> 983, stfsx |-> 663]),
    Form(31, "xo1", Zero(<<"_31">>), <<"rA">>, <<"frS", "rA", "rB">>, <<>>,
        [stfdux |-> 759, stfsux |-> 695]),
    Form(63, "xo1", Zero(<<"_11_15">>), <<"frD">>, <<"frB">>, <<"rc">>,
        [fabs |-> 264, fmr |-> 72, fnabs |-> 136, fneg |-> 40])>>

SystemForms == <<
    Primary(None, <<>>, <<"li">>, <<"aa", "lk">>,
        [b |-> 18]),
    Primary(None, <<"bo">>, <<"bi", "bd">>, <<"aa", "lk">>,
        [bc |-> 16]),
    Form(19, "xo1", Zero(<<"_16_20">>), <<"bo">>, <<"bi", "CTR">>, <<"lk">>,
        [bcctr |-> 528]),
    Form(19, "xo1", Zero(<<"_16_20">>), <<"bo">>, <<"bi", "LR">>, <<"lk">>,
        [bclr |-> 16]),
    Form(19, "xo1", Zero(<<"_31">>), <<"crbD">>, <<"crbA", "crbB">>, <<>>,
        [crand |-> 257, crandc |-> 129, creqv |-> 289, crnand |-> 225, crnor |-> 33,
         cror |-> 449, crorc |-> 417, crxor |-> 193]),
    Form(19, "xo1", Zero(<<"_9_10", "_14_15", "_16_20", "_31">>), <<"crfD">>, <<"crfS">>, <<>>,
        [mcrf |-> 0]),
    Form(19, "xo1", Zero(<<"_6_10", "_11_15", "_16_20", "_31">>), <<>>, <<>>, <<>>,
        [rfi |-> 50]),
    Primary(<<<<"_6_10", 0>>, <<"_11_15", 0>>, <<"_16_29", 0>>, <<"_30", 1>>, <<"_31", 0>>>>, <<>>, <<>>, <<>>,
        [sc |-> 17]),
    Primary(None, <<>>, <<"kcn">>, <<>>,
        [kc |-> 1]),
    Form(31, "xo1", Zero(<<"_31">>), <<>>, <<"to", "rA", "rB">>, <<>>,
        [tw |-> 4]),
    Primary(None, <<>>, <<"to", "rA", "simm">>, <<>>,
        [twi |-> 3]),
    Form(31, "xo1", Zero(<<"_9_10", "_11_15", "_16_20", "_31">>), <<"crfD">>, <<"XERO">>, <<>>,
        [mcrxr |-> 512]),
    Form(31, "xo1", Zero(<<"_11_15", "_16_20", "_31">>), <<"rD">>, <<>>, <<>>,
        [mfcr |-> 19, mfmsr |-> 83]),
    Form(31, "xo1", Zero(<<"_31">>), <<"rD">>, <<"spr">>, <<>>,
        [mfspr |-> 339]),
    Form(31, "xo1", Zero(<<"_31">>), <<"rD">>, <<"tbr">>, <<>>,
        [mftb |-> 371]),
    Form(31, "xo1", Zero(<<"_11", "_20", "_31">>), <<"crm">>, <<"rS">>, <<>>,
        [mtcrf |-> 144]),
    Form(31, "xo1", Zero(<<"_11_15", "_16_20", "_31">>), <<>>, <<"rS">>, <<>>,
        [mtmsr |-> 146]),
    Form(31, "xo1", Zero(<<"_31">>), <<"spr">>, <<"rS">>, <<>>,
        [mtspr |-> 467]),
    Form(31, "xo1", Zero(<<"_6_10", "_31">>), <<>>, <<"rA", "rB">>, <<>>,
        [dcbf |-> 86, dcbi |-> 470, dcbst |-> 54, dcbt |-> 278, dcbtst |-> 246, dcbz |-> 1014,
         icbi |-> 982]),
    Form(4, "xo1", Zero(<<"_6_10", "_31">>), <<>>, <<"rA", "rB">>, <<>>,
        [dcbz_l |-> 1014]),
    Form(31, "xo1", Zero(<<"_11", "_16_20", "_31">>), <<"rD">>, <<"sr">>, <<>>,
        [mfsr |-> 595]),
    Form(31, "xo1", Zero(<<"_11_15", "_31">>), <<"rD">>, <<"rB">>, <<>>,
        [mfsrin |-> 659]),
    Form(31, "xo1", Zero(<<"_11", "_16_20", "_31">>), <<>>, <<"rD", "sr">>, <<>>,
        [mtsr |-> 210]),
    Form(31, "xo1", Zero(<<"_11_15", "_31">>), <<>>, <<"rD", "rB">>, <<>>,
        [mtsrin |-> 242]),
    Form(31, "xo1", Zero(<<"_6_10", "_11_15", "_31">>), <<>>, <<"rB">>, <<>>,
        [tlbie |-> 306]),
    Form(31, "xo1", Zero(<<"_6_10", "_11_15", "_16_20", "_31">>), <<>>, <<>>, <<>>,
        [tlbsync |-> 566]),
    Form(31, "xo1", Zero(<<"_31">>), <<"rD">>, <<"rA", "rB">>, <<>>,
        [eciwx |-> 310, ecowx |-> 438])>>

PairedForms == <<
    Primary(None, <<"frD">>, <<"rA", "qd">>, <<"w", "i">>,
        [psq_l |-> 56, psq_lu |-> 57, psq_st |-> 60, psq_stu |-> 61]),
    Form(4, "xo3", Zero(<<"_31">>), <<"frD">>, <<"rA", "rB">>, <<"qw", "qi">>,
        [psq_lx |-> 6, psq_lux |-> 38]),
    Form(4, "xo3", Zero(<<"_31">>), <<"frS">>, <<"rA", "rB">>, <<"qw", "qi">>,
        [psq_stx |-> 7, psq_stux |-> 39]),
    Form(4, "xo4", Zero(<<"_21_25">>), <<"frD", "FPSCR">>, <<"frA", "frB">>, <<"rc">>,
        [ps_add |-> 21, ps_div |-> 18, ps_sub |-> 20]),
    Form(4, "xo4", Zero(<<"_16_20">>), <<"frD", "FPSCR">>, <<"frA", "frC">>, <<"rc">>,
        [ps_mul |-> 25, ps_muls0 |-> 12, ps_muls1 |-> 13]),
    Form(4, "xo1", Zero(<<"_11_15">>), <<"frD">>, <<"frB">>, <<"rc">>,
        [ps_abs |-> 264, ps_nabs |-> 136, ps_neg |-> 40, ps_mr |-> 72]),
    Form(4, "xo4", None, <<"frD">>, <<"frA", "frB", "frC">>, <<"rc">>,
        [ps_sel |-> 23]),
    Form(4, "xo4", Zero(<<"_11_15", "_21_25">>), <<"frD", "FPSCR">>, <<"frB">>, <<"rc">>,
        [ps_res |-> 24, ps_rsqrte |-> 26]),
    Form(4, "xo4", None, <<"frD", "FPSCR">>, <<"frA", "frB", "frC">>, <<"rc">>,
        [ps_msub |-> 28, ps_madd |-> 29, ps_nmsub |-> 30, ps_nmadd |-> 31, ps_sum0 |-> 10,
         ps_sum1 |-> 11, ps_madds0 |-> 14, ps_madds1 |-> 15]),
    Form(4, "xo1", Zero(<<"_9_10", "_31">>), <<"crfD", "FPSCR">>, <<"frA", "frB">>, <<>>,
        [ps_cmpu0 |-> 0, ps_cmpo0 |-> 32, ps_cmpu1 |-> 64, ps_cmpo1 |-> 96]),
    Form(4, "xo1", None, <<"frD">>, <<"frA", "frB">>, <<"rc">>,
        [ps_merge00 |-> 528, ps_merge01 |-> 560, ps_merge10 |-> 592, ps_merge11 |-> 624])>>

Forms == IntegerForms \o FloatForms \o LoadStoreForms \o SystemForms \o PairedForms

Ids == UNION {DOMAIN Forms[k] : k \in DOMAIN Forms}
Data == [id \in Ids |-> Forms[CHOOSE k \in DOMAIN Forms : id \in DOMAIN Forms[k]][id]]

-----------------------------------------------------------------------------
(* The tree of initTable: an entry is the path of fields and values to it.   *)

Opcodes == {Data[id].opcode : id \in Ids}
Tables == UNION {{SubSeq(path, 1, n) : n \in 0 .. Len(path) - 1} : path \in Opcodes}
Entries == [path \in Opcodes |-> CHOOSE id \in Ids : Data[id].opcode = path]

\* The fields a table branches on, those of the first rows first.
FieldMapsOf(path) ==
    LET below(form) == {form[id].opcode[Len(path) + 1][1] :
                          id \in {i \in DOMAIN form : IsStrictPrefix(path, form[i].opcode)}}
    IN  FoldLeft(LAMBDA fields, form : fields \o SetToSeq(below(form) \ ToSet(fields)),
                 <<>>, Forms)

fieldMaps == [path \in Tables |-> FieldMapsOf(path)]

\* Where the fields of a table lead the instruction.
Branches(path, fields, instr) ==
    SelectSeq([k \in DOMAIN fields |-> Append(path, <<fields[k], getFieldValue(fields[k], instr)>>)],
              LAMBDA next : next \in Tables \cup Opcodes)

\* The first field that leads somewhere is taken, and never taken back.
RECURSIVE DecodeFirst(_, _)

DecodeFirst(paths, instr) ==
    CASE paths = <<>> -> "none"
      [] paths # <<>> /\ Head(paths) \in Tables ->
             DecodeFirst(Branches(Head(paths), fieldMaps[Head(paths)], instr), instr)
      [] OTHER -> Entries[Head(paths)]

decode(instr) == DecodeFirst(<< <<>> >>, instr)

isA(id, instr) ==
    \A op \in ToSet(Data[id].opcode) : RawValue(op[1], instr) = op[2]

\* The bits of a number in a field.
BitsFor(f, value) ==
    {bit \in BitsOf(f) : (value \div 2 ^ (FieldBits[f].last - bit)) % 2 = 1}

encode(id) == UNION {BitsFor(op[1], op[2]) : op \in ToSet(Data[id].opcode)}

=============================================================================
