---------------------------- MODULE Disassembler ----------------------------
(* Decoding and disassembling (instructiontable.cpp, disassembler.cpp) of    *)
(* instructions that are made from the rows of the table and then have a bit *)
(* changed.                                                                  *)
EXTENDS InstructionTable

CONSTANT Fillings    \* the values operand bits take: sets of bits

ASSUME FillingsAssumption == \A bits \in Fillings : bits \subseteq 0 .. 31

VARIABLES row,       \* the row the instruction is made from
          word,     \* the instruction
          before     \* the instruction before a bit was changed

disVars == <<row, word, before>>

FixedBits(id) == UNION {BitsOf(op[1]) : op \in ToSet(Data[id].opcode)}

InitDis ==
    /\ row \in Ids
    /\ \E bits \in Fillings : word = encode(row) \cup (bits \ FixedBits(row))
    /\ before = word

FlipBit ==
    /\ word = before
    /\ \E bit \in 0 .. 31 :
          word' = IF bit \in word THEN word \ {bit} ELSE word \cup {bit}
    /\ UNCHANGED <<row, before>>

NextDis == FlipBit

-----------------------------------------------------------------------------
(* instructionaliases.inl and findAlias.                                     *)

Is(f, v) == [field |-> f, field2 |-> "Invalid", value |-> v]
Same(f, g) == [field |-> f, field2 |-> g, value |-> 0]
Alias(name, id, ops) == [name |-> name, id |-> id, opcode |-> ops]

aliasData ==
    <<Alias("mr", "or_", {Same("rS", "rB")}),
      Alias("mflr", "mfspr", {Is("spr", 8)}), Alias("mfctr", "mfspr", {Is("spr", 9)}),
      Alias("mtlr", "mtspr", {Is("spr", 8)}), Alias("mtctr", "mtspr", {Is("spr", 9)}),
      Alias("blt", "bc", {Is("bo", 12), Is("bi", 0)}),
      Alias("ble", "bc", {Is("bo", 4), Is("bi", 1)}),
      Alias("beq", "bc", {Is("bo", 12), Is("bi", 2)}),
      Alias("bge", "bc", {Is("bo", 4), Is("bi", 0)}),
      Alias("bgt", "bc", {Is("bo", 12), Is("bi", 3)}),
      Alias("bne", "bc", {Is("bo", 4), Is("bi", 2)}),
      Alias("bso", "bc", {Is("bo", 12), Is("bi", 3)}),
      Alias("bns", "bc", {Is("bo", 4), Is("bi", 3)})>>

OpMatches(op, in) ==
    getFieldValue(op.field, in) =
        IF op.field2 = "Invalid" THEN op.value ELSE getFieldValue(op.field2, in)

Matching(id, in) ==
    {k \in DOMAIN aliasData : /\ aliasData[k].id = id
                              /\ \A op \in aliasData[k].opcode : OpMatches(op, in)}

\* The first that matches; no alias has no name and no fields.
findAlias(id, in) ==
    IF Matching(id, in) = {} THEN Alias("", id, {}) ELSE aliasData[Min(Matching(id, in))]

-----------------------------------------------------------------------------
(* Disassembler::disassemble.                                                *)

cia == 4096

SignExtend(v, width) == IF v >= 2 ^ (width - 1) THEN v - 2 ^ width ELSE v

Relative(offset, in) == offset + IF 30 \in in THEN 0 ELSE cia

\* What an argument's text tells of it: a sort of argument and a number.
disassembleField(f, in) ==
    CASE f = "bd" -> <<"@", Relative(SignExtend(4 * RawValue(f, in), 16), in)>>
      [] f = "li" -> <<"@", Relative(SignExtend(4 * RawValue(f, in), 26), in)>>
      [] f \in {"crfD", "crfS"} -> <<"crf", RawValue(f, in)>>
      [] f \in {"frA", "frB", "frC", "frD", "frS"} -> <<"f", RawValue(f, in)>>
      [] f \in {"rA", "rB", "rD", "rS"} -> <<"r", RawValue(f, in)>>
      [] f \in {"d", "simm"} -> <<"", SignExtend(RawValue(f, in), 16)>>
      [] f = "qd" -> <<"", SignExtend(RawValue(f, in), 12)>>
      [] f = "spr" -> <<"spr", getFieldValue("spr", in)>>
      [] f = "tbr" -> <<"tbr", RawValue("spr", in)>>
      [] f \in {"aa", "bi", "bo", "crbA", "crbB", "crbD", "crm", "fm", "i", "imm", "kcn",
                "lk", "mb", "me", "nb", "oe", "rc", "sh", "sr", "to", "uimm"} ->
             <<"", RawValue(f, in)>>
      [] OTHER -> <<"invalid", 0>>

Distinct(fields) ==
    FoldLeft(LAMBDA done, f : IF f \in ToSet(done) THEN done ELSE Append(done, f),
             <<>>, fields)

MutantArguments(data) == Distinct(data.read)

\* What is written and not read comes first.
Arguments(data) ==
    Distinct(SelectSeq(data.write, LAMBDA f : f \notin ToSet(data.read) /\ ~isFieldMarker(f))
                \o data.read)

Suffix == [aa |-> "a", lk |-> "l", oe |-> "o", rc |-> "."]

FlagsShown(data, in) ==
    SelectSeq(data.flags, LAMBDA f : f \in DOMAIN Suffix /\ RawValue(f, in) = 1)

\* The operands that the name of the alias does not stand for.
Shown(args, alias) ==
    SelectSeq(args, LAMBDA f : f \notin {op.field : op \in alias.opcode} \cup DOMAIN Suffix)

TextOf(id, data, alias, in) ==
    [name |-> IF alias.name = "" THEN id ELSE alias.name,
     suffixes |-> IF alias.name = "" THEN FlagsShown(data, in) ELSE <<>>,
     args |-> LET arg(f) == disassembleField(f, in)
              IN  [k \in DOMAIN Shown(Arguments(data), alias) |->
                     arg(Shown(Arguments(data), alias)[k])]]

disassemble(in) ==
    TextOf(decode(in), Data[decode(in)], findAlias(decode(in), in), in)

-----------------------------------------------------------------------------
(* Correctness.                                                              *)

\* However the rows share the tree, an instruction is decoded as a row it is,
\* and one made from a row, whatever its operands, as that row: no walk ends
\* in another form's branch (instructiontable.cpp, decode).
DecodesToItsRow ==
    /\ decode(word) # "none" => isA(decode(word), word)
    /\ isA(row, word) => decode(word) = row

\* The flags whose bits no text shows, and the operands of which this holds:
\* disassembleField has no case for them, or they are flags without a letter.
Unshown == {"frc", "l", "w", "i", "qw", "qi", "imm"}

Operands(data) ==
    {f \in ToSet(data.read \o data.write \o data.flags) : ~isFieldMarker(f)} \ Unshown

ChangedBits == (word \ before) \cup (before \ word)

\* Two instructions that differ in an operand are not shown as the same, but
\* where an alias has dropped the letters (disassembler.cpp:307).
ShowsOperands ==
    LET id == decode(word)
    IN  /\ word # before /\ id # "none" /\ decode(before) = id
        /\ \E f \in Operands(Data[id]) : ChangedBits \cap BitsOf(f) # {}
        => \/ disassemble(word) # disassemble(before)
           \/ /\ findAlias(id, word).name # ""
              /\ \E f \in DOMAIN Suffix : ChangedBits \cap BitsOf(f) # {}

=============================================================================
