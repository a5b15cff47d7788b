------------------------------- MODULE Tracer -------------------------------
(* What the tracer remembers of an instruction (trace.cpp): the state fields *)
(* that the instruction table says it writes, with their values before and   *)
(* after.  A state s and an instruction i are those of Machine; frD, frS and *)
(* the others are the register fields at the same bits.                      *)
EXTENDS Machine

\* The instruction table; its operators are not this module's.
LOCAL INSTANCE Functions
LOCAL Table == INSTANCE InstructionTable

Invalid == <<"Invalid", 0>>

getFieldStateField(i, f) ==
    CASE f = "rA" -> <<"gpr", i.rA>>
      [] f = "rB" -> <<"gpr", i.rB>>
      [] f = "rS" -> <<"gpr", i.rS>>
      [] f = "rD" -> <<"gpr", i.rD>>
      [] f = "frA" -> <<"fpr", i.rA>>
      [] f = "frB" -> <<"fpr", i.rB>>
      [] f = "frD" -> <<"fpr", i.rD>>
      [] f = "frS" -> <<"fpr", i.rS>>
      [] f = "spr" /\ i.spr = "GQR" -> <<"gqr", i.i>>
      [] f = "spr" /\ i.spr = "XER" -> <<"xer", 0>>
      [] f = "spr" /\ i.spr = "LR" -> <<"lr", 0>>
      [] f = "spr" /\ i.spr = "CTR" -> <<"ctr", 0>>
      [] f = "bo" /\ get_bit(i.bo, 2) = 0 -> <<"ctr", 0>>
      [] f \in {"bi", "crbA", "crbB", "crbD", "crfD", "crfS", "crm"} -> <<"cr", 0>>
      [] f = "oe" /\ i.oe = 1 -> <<"xer", 0>>
      [] f = "rc" /\ i.rc = 1 -> <<"cr", 0>>
      [] f = "lk" -> <<"lr", 0>>
      [] f = "XERO" -> <<"xer", 0>>
      [] f = "CTR" -> <<"ctr", 0>>
      [] f = "LR" -> <<"lr", 0>>
      [] f = "RSRV" -> <<"reserve", 0>>
      [] OTHER -> Invalid

\* The fields that a row of the table lists.
Listed(data, i) ==
    {getFieldStateField(i, f) : f \in Range(data.write) \cup Range(data.flags)} \ {Invalid}

\* Without the registers that lmw loads after its first.
MutantWrites(s, i) == Listed(Table!Data[i.id], i)

\* The fields that traceInstructionStart puts in trace.writes.
Writes(s, i) ==
    Listed(Table!Data[i.id], i)
        \cup IF i.id = "lmw" THEN {<<"gpr", r>> : r \in {r \in DOMAIN s.gpr : r >= i.rD}} ELSE {}

\* restoreStateField of every write's value before the instruction, which
\* saveStateField has taken from prev.
Undo(s, prev, writes) ==
    LET Of(file) == {w[2] : w \in {v \in writes : v[1] = file}}
        Back(file) == [r \in DOMAIN s[file] |-> IF r \in Of(file) THEN prev[file][r] ELSE s[file][r]]
        One(reg) == IF Of(reg) # {} THEN prev[reg] ELSE s[reg]
        reserved == IF Of("reserve") # {} THEN prev ELSE s
    IN  [s EXCEPT !.gpr = Back("gpr"), !.fpr = Back("fpr"), !.gqr = Back("gqr"),
                  !.cr = One("cr"), !.xer = One("xer"), !.lr = One("lr"), !.ctr = One("ctr"),
                  !.reserve = reserved.reserve,
                  !.reserveAddress = reserved.reserveAddress,
                  !.reserveData = reserved.reserveData]

\* traceInstructionEnd's verification: the state after the instruction, with
\* the writes undone; nia is left out of the comparison, and so is memory.
checkState(prev, s, i) == [Undo(s, prev, Writes(prev, i)) EXCEPT !.nia = prev.nia, !.mem = prev.mem]

=============================================================================
