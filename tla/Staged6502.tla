---------------------------- MODULE Staged6502 ----------------------------
(***************************************************************************)
(* The staged functions of isa_6502/ that load, store, compute and         *)
(* compare: for each addressing mode the steps of each call, and the name  *)
(* of what follows the switch (Ended and After of Steps).                  *)
(***************************************************************************)
EXTENDS Sequences, Functions

Staged(calls, then) == [calls |-> calls, then |-> then]

(* Most functions that read memory go through their modes alike. *)
Reads ==
  [immediate          |-> << <<"imm", "end">> >>,
   zeropage           |-> << <<"zp">>, <<"r8", "end">> >>,
   zeropage_x_indexed |-> << <<"zp">>, <<"z+X">>, <<"r8", "end">> >>,
   absolute           |-> << <<"lo">>, <<"hi">>, <<"r16", "end">> >>,
   absolute_x_indexed |-> << <<"lo">>, <<"hi">>, <<"a+X", "r16-if-here">>, <<"r16", "end">> >>,
   absolute_y_indexed |-> << <<"lo">>, <<"hi">>, <<"a+Y", "r16-if-here">>, <<"r16", "end">> >>,
   x_indexed_indirect |-> << <<"zp">>, <<"z+X">>, <<"plo">>, <<"phi">>, <<"r16", "end">> >>,
   indirect_y_indexed |-> << <<"zp">>, <<"plo">>, <<"phi">>, <<"a+Y", "r16-if-here">>,
                             <<"r16", "end">> >>]

Only(modes) == Restrict(Reads, modes)
Straight == {"immediate", "zeropage", "absolute"}
ByX == {"zeropage_x_indexed", "absolute_x_indexed"}

(* The first call begins with another step. *)
First(step, calls) ==
  [m \in DOMAIN calls |-> << <<step>> \o calls[m][1] >> \o Tail(calls[m])]

AND == Staged(Reads, "AND")
EOR == Staged(Reads, "EOR")
ORA == Staged(Reads, "ORA")
ADC == Staged(First("latch-D", Reads), "ADC")
SBC == Staged(First("latch-D", Reads), "SBC")
LDY == Staged(Only(Straight \cup ByX), "LDY")
CPX == Staged(Only(Straight), "CPX")
CPY == Staged(Only(Straight), "CPY")
BIT == Staged(Only({"zeropage", "absolute"}), "BIT")

(* The dispatch table asks for the modes indexed by Y, which the switch     *)
(* does not have; it has those indexed by X.                                *)
LDX == Staged(Only(Straight \cup ByX), "LDX")

(* The indexed indirect modes lose the pointer's high byte, or its shift.   *)
LDA ==
  Staged([Reads EXCEPT
            !.x_indexed_indirect = << <<"zp">>, <<>>, <<"z+X">>, <<"plo">>, <<"r16", "end">> >>,
            !.indirect_y_indexed = << <<"zp">>, <<>>, <<"plo">>,
                                      <<"phi-unshifted", "a+Y", "r16-if-here">>,
                                      <<"r16", "end">> >>],
         "LDA")

(* Where the address comes from the zero page the first call ends the       *)
(* instruction, with the OPERAND of an earlier one; absolute reads at       *)
(* ADDR8.                                                                   *)
CMP ==
  Staged([m \in DOMAIN Reads |->
            CASE m \in {"zeropage", "zeropage_x_indexed", "x_indexed_indirect",
                        "indirect_y_indexed"} -> << <<"zp", "end">> >>
              [] m = "absolute" -> << <<"lo">>, <<"hi">>, <<"r8", "end">> >>
              [] OTHER -> Reads[m]],
         "CMP")

-----------------------------------------------------------------------------
(* Stores. *)
Writes ==
  [zeropage           |-> << <<"zp">>, <<"page", "end">> >>,
   zeropage_x_indexed |-> << <<"zp">>, <<"z+X">>, <<"page", "end">> >>,
   zeropage_y_indexed |-> << <<"zp">>, <<"z+Y">>, <<"page", "end">> >>,
   absolute           |-> << <<"lo">>, <<"hi">>, <<"end">> >>,
   absolute_x_indexed |-> << <<"lo">>, <<"hi">>, <<"a+X">>, <<"end">> >>,
   absolute_y_indexed |-> << <<"lo">>, <<"hi">>, <<"a+Y">>, <<"end">> >>,
   x_indexed_indirect |-> << <<"zp">>, <<>>, <<"z+X">>, <<"plo">>, <<"phi">> >>,
   indirect_y_indexed |-> << <<"zp">>, <<>>, <<"plo">>, <<"phi">>, <<"a+Y">> >>]

(* No call ends the indexed indirect modes. *)
STA == Staged(Restrict(Writes, DOMAIN Writes \ {"zeropage_y_indexed"}), "STA")
STX == Staged(Restrict(Writes, {"zeropage", "zeropage_y_indexed", "absolute"}), "STX")
STY == Staged(Restrict(Writes, {"zeropage", "zeropage_x_indexed", "absolute"}), "STY")

-----------------------------------------------------------------------------
(* Instructions that modify memory. *)
Modify(step) ==
  [zeropage           |-> << <<"zp">>, <<"r8", "page">>, <<step>>, <<"end">> >>,
   zeropage_x_indexed |-> << <<"zp">>, <<"z+X">>, <<"r8", "page">>, <<step>>, <<"end">> >>,
   absolute           |-> << <<"lo">>, <<"hi">>, <<"r16">>, <<step>>, <<"end">> >>,
   absolute_x_indexed |-> << <<"lo">>, <<"hi">>, <<"a+X">>, <<"r16">>, <<step>>, <<"end">> >>]

INC == Staged(Modify("inc"), "INC")
DEC == Staged(Modify("dec"), "DEC")

(* Shifts work in their penultimate call, and note it in a static. *)
ShiftCalls(accumulator) ==
  First("not-pen",
    [accumulator        |-> << <<accumulator>> >>,
     zeropage           |-> << <<"zp">>, <<"r8">>, <<"pen">>, <<"page", "end">> >>,
     zeropage_x_indexed |-> << <<"zp">>, <<"z+X">>, <<"r8">>, <<"pen">>, <<"page", "end">> >>,
     absolute           |-> << <<"lo">>, <<"hi">>, <<"r16">>, <<"pen">>, <<"end">> >>,
     absolute_x_indexed |-> << <<"lo">>, <<"hi">>, <<"a+X">>, <<"r16">>, <<"pen">>, <<"end">> >>])

ASL == Staged(ShiftCalls("A=ASL"), "ASL")
LSR == Staged(ShiftCalls("A=LSR"), "LSR")
ROL == Staged(ShiftCalls("A=ROL"), "ROL")
ROR == Staged(ShiftCalls("A=ROR"), "ROR")

-----------------------------------------------------------------------------
(* Functions of one call. *)
Implied(step) == Staged([implied |-> << <<step>> >>], "none")

TAX == Implied("TAX")
TAY == Implied("TAY")
TXA == Implied("TXA")
TYA == Implied("TYA")
INX == Implied("INX")
INY == Implied("INY")
DEX == Implied("DEX")
DEY == Implied("DEY")
NOP == Implied("NOP")

Mnemonics ==
  {"ADC", "AND", "ASL", "BIT", "CMP", "CPX", "CPY", "DEC", "DEX", "DEY", "EOR", "INC", "INX",
   "INY", "LDA", "LDX", "LDY", "LSR", "NOP", "ORA", "ROL", "ROR", "SBC", "STA", "STX", "STY",
   "TAX", "TAY", "TXA", "TYA"}
Function(op) ==
  CASE op = "ADC" -> ADC [] op = "AND" -> AND [] op = "ASL" -> ASL [] op = "BIT" -> BIT
    [] op = "CMP" -> CMP [] op = "CPX" -> CPX [] op = "CPY" -> CPY [] op = "DEC" -> DEC
    [] op = "DEX" -> DEX [] op = "DEY" -> DEY [] op = "EOR" -> EOR [] op = "INC" -> INC
    [] op = "INX" -> INX [] op = "INY" -> INY [] op = "LDA" -> LDA [] op = "LDX" -> LDX
    [] op = "LDY" -> LDY [] op = "LSR" -> LSR [] op = "NOP" -> NOP [] op = "ORA" -> ORA
    [] op = "ROL" -> ROL [] op = "ROR" -> ROR [] op = "SBC" -> SBC [] op = "STA" -> STA
    [] op = "STX" -> STX [] op = "STY" -> STY [] op = "TAX" -> TAX [] op = "TAY" -> TAY
    [] op = "TXA" -> TXA [] op = "TYA" -> TYA
=============================================================================
