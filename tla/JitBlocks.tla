----------------------------- MODULE JitBlocks -----------------------------
(* The recompiler's cache of code (cpu/jit/jit.cpp): finding where the      *)
(* function at an address ends, generating code for it, entering it at its  *)
(* start or at one of its branch targets, and leaving it to look the next   *)
(* address up.  Addresses count instructions.  The guest's program is read  *)
(* once, by identBlock and gen; what it stores over its own code later is   *)
(* not seen.                                                                *)
EXTENDS Integers, FiniteSets

CONSTANTS Length,       \* the instructions of the program, from address 1
          MaxInst,      \* JIT_MAX_INST
          Program       \* the programs

\* Every address beyond the program is Length + 1.  The target of a bcctr is what
\* CTR holds there.  A bclr does not link: of one that does, the interpreter and
\* the compiled code make different things.
GuestCode ==
    LET op == {"add", "undefined", "b", "bc", "bcctr", "bclr", "bclr if"}
    IN  {i \in [op : op, target : 0 .. Length + 1, lk : {0, 1}] :
            /\ i.op \in {"b", "bc", "bcctr"} => i.target # 0
            /\ i.op \in {"bclr", "bclr if"} => i.lk = 0}

ASSUME JitAssumption ==
    /\ Length \in Nat \ {0} /\ MaxInst \in Nat \ {0}
    /\ Program \subseteq [1 .. Length -> GuestCode]

VARIABLES mem,          \* the instruction at each address
          blocks,       \* sBlocks: the code an address is entered at
          thread,       \* nia and lr
          running,      \* the code the core is in, NoCode in the dispatcher
          jump,         \* the last instruction's address, and the next
          failed        \* the dispatcher's assertion failed

jitVars == <<mem, blocks, thread, running, jump, failed>>

Callback == 0
NoCode == [start |-> 0, end |-> 0, text |-> <<>>]
CodeAddress == 1 .. Length

Instr(op, target, lk) == [op |-> op, target |-> target, lk |-> lk]

\* Beyond the program there are no instructions.
read(cia) == IF cia \in CodeAddress THEN mem[cia] ELSE Instr("undefined", 0, 0)

-----------------------------------------------------------------------------
(* identBlock: a function ends at the first unconditional bclr after every  *)
(* target of its branches, which is not its first instruction.              *)

MutantFurthest(cia, fnMax) ==
    IF read(cia).op = "b" /\ read(cia).target > fnMax THEN read(cia).target
    ELSE fnMax

Furthest(cia, fnMax) ==
    LET i == read(cia)
    IN  IF i.op \in {"b", "bc"} /\ i.lk = 0 /\ i.target > fnMax
        THEN i.target ELSE fnMax

TooFar(start, cia) == cia - start > MaxInst

\* fnMax as the loop comes to each instruction, ...
FnMax(start) ==
    LET fnMax[cia \in start .. start + MaxInst + 1] ==
            IF cia = start THEN start ELSE Furthest(cia - 1, fnMax[cia - 1])
    IN  fnMax

Targets(cia) ==
    LET i == read(cia)
    IN  IF i.lk = 1 THEN {cia + 1}
        ELSE IF i.op \in {"b", "bc"} THEN {i.target} ELSE {}

\* ... which ends at the first that is none, is too far, or ends the function.
Fails(start, cia) == read(cia).op = "undefined" \/ TooFar(start, cia)
EndsHere(start, cia) == read(cia).op = "bclr" /\ cia > FnMax(start)[cia]

Scan(start) ==
    LET ends == {cia \in start .. start + MaxInst + 1 :
                    Fails(start, cia) \/ EndsHere(start, cia)}
        last == CHOOSE cia \in ends : \A c \in ends : cia <= c
    IN  IF Fails(start, last) THEN [found |-> FALSE, end |-> start, targets |-> {}]
        ELSE [found |-> TRUE, end |-> last + 1,
              targets |-> UNION {Targets(c) : c \in start .. last}]

\* The code of a block, and the addresses it is entered at: its start, and
\* every target within it, over what an earlier block put there.
gen(block, start) ==
    [start |-> start, end |-> block.end,
     text |-> [cia \in start .. block.end - 1 |-> read(cia)]]

Entered(block, start) ==
    {start} \cup {t \in block.targets : start <= t /\ t < block.end}

\* A failed address is remembered and not tried again.
Known(addr) == addr \in DOMAIN blocks
Compiled(addr) ==
    LET block == Scan(addr)
        entries == IF block.found THEN Entered(block, addr) ELSE {addr}
        code == IF block.found THEN gen(block, addr) ELSE NoCode
    IN  [x \in DOMAIN blocks \cup entries |->
            IF x \in entries THEN code ELSE blocks[x]]

-----------------------------------------------------------------------------
\* Where a branch goes, and which instructions may take one, or not.
Destination(i) == IF i.op \in {"bclr", "bclr if"} THEN thread.lr ELSE i.target
Takes(i) == i.op \in {"b", "bc", "bcctr", "bclr", "bclr if"}
Passes(i) == i.op \notin {"b", "bclr"}

Labelled(code) ==
    {code.text[c].target : c \in {d \in DOMAIN code.text :
        code.text[d].op \in {"b", "bc"} /\ code.text[d].lk = 0}}
    \cup {c + 1 : c \in {d \in DOMAIN code.text : code.text[d].lk = 1}}

\* A branch to a label jumps to it, a bc also if it links; a b that links, a
\* branch to a register or to no label, and the end of the code leave the
\* block.
Stays(code, i, nia, taken) ==
    /\ nia \in DOMAIN code.text
    /\ taken => /\ nia \in Labelled(code)
                /\ i.op = "bc" \/ (i.op = "b" /\ i.lk = 0)

InitJit == /\ mem \in Program
        /\ blocks = [x \in {} |-> NoCode]
        /\ thread = [nia |-> 1, lr |-> Callback]
        /\ running = NoCode
        /\ jump = <<0, 0>>
        /\ failed = FALSE

\* get, and the call of what it found.
execute ==
    /\ running = NoCode /\ ~failed /\ thread.nia # Callback
    /\ blocks' = IF Known(thread.nia) THEN blocks ELSE Compiled(thread.nia)
    /\ running' = blocks'[thread.nia]
    /\ failed' = (running' = NoCode)
    /\ UNCHANGED <<mem, thread, jump>>

RunCode ==
    /\ running # NoCode
    /\ \E taken \in BOOLEAN :
          LET cia == thread.nia
              i == running.text[cia]
              nia == IF taken THEN Destination(i) ELSE cia + 1
          IN  /\ IF taken THEN Takes(i) ELSE Passes(i)
              /\ jump' = <<cia, nia>>
              /\ thread' = [nia |-> nia, lr |-> IF taken /\ i.lk = 1 THEN cia + 1
                                               ELSE thread.lr]
              /\ running' = IF Stays(running, i, nia, taken) THEN running
                            ELSE NoCode
    /\ UNCHANGED <<mem, blocks, failed>>

\* executeSub: the kernel calls another function of the guest.
executeSub ==
    /\ running = NoCode /\ thread.nia = Callback
    /\ \E addr \in CodeAddress : thread' = [nia |-> addr, lr |-> Callback]
    /\ jump' = <<0, 0>>
    /\ UNCHANGED <<mem, blocks, running, failed>>

NextJit == execute \/ RunCode \/ executeSub

SpecJit == InitJit /\ [][NextJit]_jitVars

-----------------------------------------------------------------------------
\* The addresses, and the code, are those of the program.
CodeTypeOK ==
    /\ mem \in Program
    /\ DOMAIN blocks \subseteq 1 .. Length + 1
    /\ thread.nia \in 0 .. Length + 1 /\ thread.lr \in 0 .. Length + 1
    /\ running # NoCode => thread.nia \in DOMAIN running.text
    /\ failed \in BOOLEAN

\* What the interpreter does next (interpreter_branch.cpp).
Successors(cia) ==
    LET i == mem[cia]
    IN  CASE i.op = "b" -> {i.target}
          [] i.op \in {"bc", "bcctr"} -> {i.target, cia + 1}
          [] i.op = "bclr" -> {thread.lr}
          [] i.op = "bclr if" -> {thread.lr, cia + 1}
          [] OTHER -> {cia + 1}

\* Whatever block was entered, at whatever label, each instruction is the
\* one at its address and is followed by one the interpreter may execute
\* next.
FollowsProgram ==
    /\ jump # <<0, 0>> => jump[2] \in Successors(jump[1])
    /\ \A x \in DOMAIN blocks : blocks[x] # NoCode =>
          /\ x \in DOMAIN blocks[x].text
          /\ \A c \in DOMAIN blocks[x].text : blocks[x].text[c] = mem[c]

\* The end of every block is the nearest return that closes it: no branch of
\* the block goes beyond, and no return before it is after all the targets
\* of the branches that precede it.
Closes(start, e) ==
    /\ e > start /\ read(e).op = "bclr"
    /\ \A c \in start .. e - 1 :
          read(c).op \in {"b", "bc"} /\ read(c).lk = 0 => read(c).target < e

EndsAtItsReturn ==
    \A x \in DOMAIN blocks : blocks[x] # NoCode =>
        LET code == blocks[x]
        IN  /\ Closes(code.start, code.end - 1)
            /\ \A e \in code.start .. code.end - 2 : ~Closes(code.start, e)

\* The assertion of the dispatcher fails only on a function without such a
\* return before the first word that is no instruction, or with more than
\* JIT_MAX_INST instructions before it.
FailsForAReason ==
    failed =>
        ~\E e \in CodeAddress :
            /\ Closes(thread.nia, e)
            /\ e - thread.nia <= MaxInst
            /\ \A c \in thread.nia .. e : read(c).op # "undefined"

\* The recompiler's blocks run the guest's program: instruction by instruction,
\* to the return that ends them, and what does not compile has a reason.
BlocksRunTheProgram ==
    CodeTypeOK /\ FollowsProgram /\ EndsAtItsReturn /\ FailsForAReason

=============================================================================
