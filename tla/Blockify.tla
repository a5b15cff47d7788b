------------------------------ MODULE Blockify ------------------------------
(* Shader programs and their division into blocks.  A behaviour writes a     *)
(* program of control-flow instructions the way compilers nest them, as      *)
(* latte_decoder.cpp inlines it; latte_blockify.cpp labels the instructions  *)
(* where loops and conditions start and end, and puts each into its block.   *)
EXTENDS Integers, Sequences, SequencesExt, TLC

CONSTANT MaxClauses     \* bound: control-flow instructions of a program

ASSUME MaxClausesAssumption == MaxClauses \in Nat

VARIABLES
    shader,     \* shader.code: its operations, and where they were inlined from
    cfPC,       \* the control-flow instruction to decode
    open,       \* the loops and conditions the compiler has yet to close
    within,     \* those around each instruction, as the compiler meant them
    blocks,     \* the blocks of code made, and the list each is in
    unmet       \* the labels blockify did not come to

blockifyVars == <<shader, cfPC, open, within, blocks, unmet>>

NoAddress == -1
NotYet == <<>>

InitBlockify == /\ shader = <<>> /\ cfPC = 0
                /\ open = <<>> /\ within = <<>>
                /\ blocks = NotYet /\ unmet = 0

-----------------------------------------------------------------------------
(* latte_decoder.cpp: the operations of an ALU clause.                       *)

Pushing(kind, slots, k) ==
    IF /\ slots[k] = "PRED_SET"
       /\ \/ kind = "ALU_ELSE_AFTER"
          \/ kind = "ALU_PUSH_BEFORE" /\ \A j \in 1 .. k - 1 : slots[j] # "PRED_SET"
    THEN <<"PUSH">> ELSE <<>>

Following(kind, slots, k) ==
    CASE slots[k] = "PRED_SET" /\ kind = "ALU_BREAK" -> <<"LOOP_BREAK">>
      [] slots[k] = "PRED_SET" /\ kind = "ALU_CONTINUE" -> <<"LOOP_CONTINUE">>
      [] slots[k] = "PRED_SET" /\ kind = "ALU_ELSE_AFTER" -> <<"ELSE">>
      [] OTHER -> <<>>

\* decodeALU
decodeALU(kind, slots) ==
    LET leaves == kind \in {"ALU_BREAK", "ALU_CONTINUE"}
        pops == leaves \/ kind \in {"ALU_POP_AFTER", "ALU_POP2_AFTER"}
    IN  (IF leaves THEN <<"PUSH">> ELSE <<>>)
        \o FlattenSeq([k \in DOMAIN slots |->
              Pushing(kind, slots, k) \o <<slots[k]>> \o Following(kind, slots, k)])
        \o (IF pops THEN <<"POP">> ELSE <<>>)

\* decode: the instructions a control-flow instruction becomes.
Inlined(ops, place) == [k \in DOMAIN ops |-> [op |-> ops[k], cfPC |-> place, addr |-> NoAddress]]

-----------------------------------------------------------------------------
(* The compiler.                                                             *)

Around == [k \in DOMAIN open |-> <<open[k].first, open[k].arm>>]
Inner == open[Len(open)]
InLoop == \E k \in DOMAIN open : open[k].kind = "loop"

\* A LOOP_BREAK is in the condition of the PRED_SET before it, the POP of a
\* condition after it; others are where the compiler is.
Meant(ops, base) ==
    [k \in DOMAIN ops |->
        CASE ops[k] \in {"LOOP_BREAK", "LOOP_CONTINUE"} ->
               Append(Around, <<base + k - 1, "inner">>)
          [] ops = <<"POP">> -> Front(Around)
          [] OTHER -> Around]

\* The program with the next control-flow instructions, after which the
\* jumps of `closed` go to `target`.
WriteClauses(clauses, closed, target) ==
    LET new == FlattenSeq([c \in DOMAIN clauses |-> Inlined(clauses[c], cfPC + c - 1)])
        all == shader \o new
    IN  /\ unmet = 0 /\ blocks = NotYet
        /\ cfPC + Len(clauses) <= MaxClauses
        /\ cfPC' = cfPC + Len(clauses)
        /\ shader' = [i \in DOMAIN all |->
                       IF i \in closed THEN [all[i] EXCEPT !.addr = target] ELSE all[i]]
        /\ within' = within \o Meant(FlattenSeq(clauses), Len(shader))
        /\ UNCHANGED <<blocks, unmet>>

WriteCode == /\ WriteClauses(<<decodeALU("ALU", <<"MOV">>)>>, {}, 0)
             /\ UNCHANGED open

WriteIf ==
    \E slots \in {<<"PRED_SET">>, <<"MOV", "PRED_SET">>} :
        LET ops == decodeALU("ALU_PUSH_BEFORE", slots)
            pred == Len(shader) + Len(ops)
        IN  /\ WriteClauses(<<ops, <<"JUMP">>>>, {}, 0)
            /\ open' = Append(open, [kind |-> "if", arm |-> "inner", first |-> pred,
                                     jump |-> pred + 1])

WriteElse ==
    /\ open # <<>> /\ Inner.kind = "if" /\ Inner.arm = "inner"
    /\ WriteClauses(<<<<"ELSE">>>>, {Inner.jump}, cfPC)
    /\ open' = Append(Front(open), [Inner EXCEPT !.arm = "else", !.jump = Len(shader) + 1])

\* The end of a condition, at a POP of its own.
WriteEndIf ==
    /\ open # <<>> /\ Inner.kind = "if"
    /\ WriteClauses(<<<<"POP">>>>, {Inner.jump}, cfPC)
    /\ open' = Front(open)

\* The end of one or two conditions, after a clause that pops them.
WriteLastClause(kind, count) ==
    /\ Len(open) >= count
    /\ \A k \in Len(open) - count + 1 .. Len(open) : open[k].kind = "if"
    /\ WriteClauses(<<decodeALU(kind, <<"MOV">>)>>,
                    {open[k].jump : k \in Len(open) - count + 1 .. Len(open)}, cfPC + 1)
    /\ open' = SubSeq(open, 1, Len(open) - count)

WriteLoop ==
    /\ WriteClauses(<<<<"LOOP_START">>>>, {}, 0)
    /\ open' = Append(open, [kind |-> "loop", arm |-> "inner", first |-> Len(shader) + 1,
                             jump |-> 0])

WriteLoopEnd ==
    /\ open # <<>> /\ Inner.kind = "loop"
    /\ WriteClauses(<<<<"LOOP_END">>>>, {}, 0)
    /\ open' = Front(open)

\* A clause that leaves the loop, or goes to its start, if its PRED_SET says so.
WriteLeave ==
    /\ InLoop
    /\ \E kind \in {"ALU_BREAK", "ALU_CONTINUE"} :
          WriteClauses(<<decodeALU(kind, <<"PRED_SET">>)>>, {}, 0)
    /\ UNCHANGED open

\* The same with a LOOP_CONTINUE of its own.
WriteContinue ==
    /\ InLoop
    /\ WriteClauses(<<decodeALU("ALU", <<"PRED_SET">>), <<"LOOP_CONTINUE">>>>, {}, 0)
    /\ UNCHANGED open

-----------------------------------------------------------------------------
(* latte_blockify.cpp                                                        *)

Label(type, first, start) == [type |-> type, first |-> first, start |-> start]

\* The first instruction from i on that was inlined from `address`.
Target(prog, i, address) ==
    CHOOSE j \in i .. Len(prog) :
        prog[j].cfPC = address /\ \A k \in i .. j - 1 : prog[k].cfPC # address

MutantJumpLabels(prog, i, pred) ==
    <<Label("ConditionalStart", pred, pred),
      Label("ConditionalEnd", Target(prog, i, prog[i].addr), pred), Label("Eliminated", i, i)>>

\* The labels of a JUMP and the condition before it.
JumpLabels(prog, i, pred) ==
    LET end == Target(prog, i, prog[i].addr)
        hasElse == prog[end].op = "ELSE"
    IN  <<Label("ConditionalStart", pred, pred)>>
        \o (IF hasElse THEN <<Label("ConditionalElse", end, pred)>> ELSE <<>>)
        \o <<Label("ConditionalEnd",
                   IF hasElse THEN Target(prog, end, prog[end].addr) ELSE end, pred),
             Label("Eliminated", i, i)>>

\* The labels after the i-th instruction, with the LOOP_STARTs and the
\* PRED_SETs that wait for theirs.  That there is one is what labelify asserts.
LabelNext(prog, st, i) ==
    LET loop == Head(st.loopStarts)
        pred == Head(st.predSets)
    IN  CASE prog[i].op = "LOOP_START" ->
               [st EXCEPT !.loopStarts = <<i>> \o @]
          [] prog[i].op = "LOOP_END" ->
               [st EXCEPT !.loopStarts = Tail(@),
                          !.labels = @ \o <<Label("LoopStart", loop, loop),
                                            Label("LoopEnd", i, loop)>>]
          [] prog[i].op \in {"LOOP_BREAK", "LOOP_CONTINUE"} ->
               [st EXCEPT !.predSets = Tail(@),
                          !.labels = @ \o <<Label("ConditionalStart", pred, pred),
                                            Label("ConditionalEnd", i + 1, pred)>>]
          [] prog[i].op = "JUMP" ->
               [st EXCEPT !.predSets = Tail(@), !.labels = @ \o JumpLabels(prog, i, pred)]
          [] prog[i].op = "PRED_SET" ->
               [st EXCEPT !.predSets = <<i>> \o @]
          [] OTHER -> st

\* std::sort by cfPC: an insertion sort of up to 32 labels keeps those of
\* one control-flow instruction in the order they were made in.
Sorted(prog, labels) ==
    LET At(n) == prog[labels[n].first].cfPC
        Rank(n) == Cardinality({k \in DOMAIN labels :
                       At(k) < At(n) \/ (At(k) = At(n) /\ k <= n)})
    IN  [r \in DOMAIN labels |-> labels[CHOOSE n \in DOMAIN labels : Rank(n) = r]]

labelify(prog) ==
    LET Visit(st, i) == LabelNext(prog, st, i)
        nothing == [loopStarts |-> <<>>, predSets |-> <<>>, labels |-> <<>>]
    IN  Sorted(prog, FoldLeft(Visit, nothing, [i \in DOMAIN prog |-> i]).labels)

\* An instruction goes into the active block of code, or a new one.
Insert(st, i) ==
    IF st.active = 0
    THEN [st EXCEPT !.active = Len(st.blocks) + 1,
                    !.blocks = Append(@, [list |-> st.list, code |-> <<i>>])]
    ELSE [st EXCEPT !.blocks[st.active].code = Append(@, i)]

\* The instruction that has the label.  Only the end of a condition keeps it.
Handle(st, label, i) ==
    CASE label.type \in {"LoopStart", "ConditionalStart"} ->
           [st EXCEPT !.restore = @ @@ (i :> st.list), !.active = 0,
                      !.list = Append(@, <<i, "inner">>)]
      [] label.type = "LoopEnd" ->
           [st EXCEPT !.list = st.restore[label.start], !.active = 0]
      [] label.type = "ConditionalElse" ->
           [st EXCEPT !.list = Append(st.restore[label.start], <<label.start, "else">>),
                      !.active = 0]
      [] label.type = "ConditionalEnd" ->
           Insert([st EXCEPT !.list = st.restore[label.start], !.active = 0], i)
      [] label.type = "Eliminated" -> st

\* blockify, at most one label an instruction.
blockify(prog) ==
    LET labels == labelify(prog)
        Visit(st, i) ==
            IF st.label <= Len(labels) /\ labels[st.label].first = i
            THEN [Handle(st, labels[st.label], i) EXCEPT !.label = @ + 1]
            ELSE Insert(st, i)
        start == [label |-> 1, list |-> <<>>, active |-> 0, blocks |-> <<>>,
                  restore |-> <<>>]
        end == FoldLeft(Visit, start, [i \in DOMAIN prog |-> i])
    IN  [blocks |-> end.blocks, unmet |-> Len(labels) - end.label + 1]

\* decode: the shader ends with its export.
Decode ==
    /\ open = <<>> /\ blocks = NotYet
    /\ shader' = shader \o Inlined(<<"EXP">>, cfPC)
    /\ within' = Append(within, <<>>)
    /\ blocks' = blockify(shader').blocks /\ unmet' = blockify(shader').unmet
    /\ UNCHANGED <<cfPC, open>>

NextBlockify ==
    \/ WriteCode
    \/ WriteIf
    \/ WriteElse
    \/ WriteEndIf
    \/ WriteLastClause("ALU_POP_AFTER", 1)
    \/ WriteLastClause("ALU_POP2_AFTER", 2)
    \/ WriteLoop
    \/ WriteLoopEnd
    \/ WriteLeave
    \/ WriteContinue
    \/ Decode

-----------------------------------------------------------------------------
(* Properties.                                                               *)

\* No instruction has two labels.  A condition that ends where another ends,
\* or right at its loop's LOOP_END, gives one two.
OneLabelEach ==
    LET labels == labelify(shader)
    IN  \A m, n \in DOMAIN labels : labels[m].first = labels[n].first => m = n

\* blockify comes to every label, in the order of the instructions: labels
\* are lost exactly in the programs where one instruction has two, since only
\* one of them is looked at and the next is never reached.
LosesOnlySharedLabels == blocks # NotYet => (unmet = 0 <=> OneLabelEach)

\* Otherwise each instruction is in one block of code, in the loops and the
\* arms of conditions that the compiler put it into; what makes the blocks
\* (LOOP_START, LOOP_END, the PRED_SETs, JUMP and ELSE) is in none.
InItsBlocks ==
    blocks # NotYet /\ OneLabelEach =>
        \A i \in DOMAIN shader :
            LET holding == {b \in DOMAIN blocks : Contains(blocks[b].code, i)}
            IN  IF shader[i].op \in {"LOOP_START", "LOOP_END", "PRED_SET", "JUMP", "ELSE"}
                THEN holding = {}
                ELSE \E b \in DOMAIN blocks : holding = {b} /\ blocks[b].list = within[i]

=============================================================================
