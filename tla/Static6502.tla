---------------------------- MODULE Static6502 ----------------------------
(***************************************************************************)
(* The static functions of isa_6502/ that load, store, compute and         *)
(* compare: for each addressing mode the steps of the one call and the     *)
(* cycles it adds, and the name of what follows the switch.                *)
(***************************************************************************)
EXTENDS Sequences, Functions

Static(at, then) == [at |-> at, then |-> then]
In(cycles, steps) == [cycles |-> cycles, steps |-> steps]

Reads ==
  [immediate          |-> In(1, <<"imm">>),
   zeropage           |-> In(2, <<"zp", "r8">>),
   zeropage_x_indexed |-> In(3, <<"zp", "z+X", "r8">>),
   absolute           |-> In(3, <<"lo", "hi", "r16">>),
   absolute_x_indexed |-> In(3, <<"lo", "hi", "a+X", "cross", "r16">>),
   absolute_y_indexed |-> In(3, <<"lo", "hi", "a+Y", "cross", "r16">>),
   x_indexed_indirect |-> In(5, <<"zp", "z+X", "plo", "phi", "r16">>),
   indirect_y_indexed |-> In(4, <<"zp", "plo", "phi", "a+Y", "cross", "r16">>)]

Only(modes) == Restrict(Reads, modes)

(* Some functions read the absolute indexed modes' operand at ADDR8, which  *)
(* nothing has set.                                                         *)
Astray(reads) ==
  [reads EXCEPT !.absolute_x_indexed = In(3, <<"lo", "hi", "a+X", "cross", "r8">>),
                !.absolute_y_indexed = In(3, <<"lo", "hi", "a+Y", "cross", "r8">>)]

ADC == Static(Astray(Reads), "ADC")
SBC == Static(Astray(Reads), "SBC")
AND == Static(Astray(Reads), "AND")
EOR == Static(Astray(Reads), "EOR")
ORA == Static(Astray(Reads), "ORA")
CMP == Static(Reads, "CMP")
(* Mutant: the index is not added. *)
Bug_LDA == Static([Reads EXCEPT !.absolute_y_indexed = In(3, <<"lo", "hi", "r16">>)], "LDA")
LDA == Static(Reads, "LDA")
CPX == Static(Only({"immediate", "zeropage", "absolute"}), "CPX")
CPY == Static(Only({"immediate", "zeropage", "absolute"}), "CPY")
BIT == Static(Only({"zeropage", "absolute"}), "BIT")

(* A cycle too many in three modes.  *)
LateReads ==
  [Only({"immediate", "zeropage", "zeropage_x_indexed", "absolute", "absolute_x_indexed"}) EXCEPT
     !.zeropage_x_indexed.cycles = 4, !.absolute.cycles = 4, !.absolute_x_indexed.cycles = 4]
LDX == Static(LateReads, "LDX")
LDY == Static(LateReads, "LDY")

Writes ==
  [zeropage           |-> In(2, <<"lo">>),
   zeropage_x_indexed |-> In(3, <<"zp", "z+X", "page">>),
   zeropage_y_indexed |-> In(3, <<"zp", "z+Y", "page">>),
   absolute           |-> In(3, <<"lo", "hi">>),
   absolute_x_indexed |-> In(4, <<"lo", "hi", "a+X">>),
   absolute_y_indexed |-> In(4, <<"lo", "hi", "a+Y">>),
   x_indexed_indirect |-> In(5, <<"zp", "z+X", "plo", "phi">>),
   indirect_y_indexed |-> In(5, <<"zp", "plo", "phi", "a+Y">>)]

STA == Static(Restrict(Writes, DOMAIN Writes \ {"zeropage_y_indexed"}), "STA")
STX == Static(Restrict(Writes, {"zeropage", "zeropage_y_indexed", "absolute"}), "STX")
STY == Static(Restrict(Writes, {"zeropage", "zeropage_x_indexed", "absolute"}), "STY")

Modify(steps) ==
  [zeropage           |-> In(4, <<"zp", "r8", "page">> \o steps),
   zeropage_x_indexed |-> In(5, <<"zp", "z+X", "r8", "page">> \o steps),
   absolute           |-> In(5, <<"lo", "hi", "r16">> \o steps),
   absolute_x_indexed |-> In(6, <<"lo", "hi", "a+X", "r16">> \o steps)]
INC == Static(Modify(<<"inc">>), "INC")
DEC == Static(Modify(<<"dec">>), "DEC")

Shifting(accumulator) ==
  [m \in DOMAIN Modify(<<>>) \cup {"accumulator"} |->
     IF m = "accumulator" THEN In(1, <<accumulator>>) ELSE Modify(<<>>)[m]]
ASL == Static(Shifting("A=ASL"), "ASL")
LSR == Static(Shifting("A=LSR"), "LSR")
ROL == Static(Shifting("A=ROL"), "ROL")
ROR == Static(Shifting("A=ROR"), "ROR")

Implied(step) == Static([implied |-> In(1, <<step>>)], "none")
TAX == Implied("TAX")
TAY == Implied("TAY")
TXA == Implied("TXA")
TYA == Implied("TYA")
INX == Implied("INX")
INY == Implied("INY")
DEX == Implied("DEX")
DEY == Implied("DEY")
NOP == Implied("NOP")

Mnemonics ==
  {"ADC", "AND", "ASL", "BIT", "CMP", "CPX", "CPY", "DEC", "DEX", "DEY", "EOR", "INC", "INX",
   "INY", "LDA", "LDX", "LDY", "LSR", "NOP", "ORA", "ROL", "ROR", "SBC", "STA", "STX", "STY",
   "TAX", "TAY", "TXA", "TYA"}
Function(op) ==
  CASE op = "ADC" -> ADC [] op = "AND" -> AND [] op = "ASL" -> ASL [] op = "BIT" -> BIT
    [] op = "CMP" -> CMP [] op = "CPX" -> CPX [] op = "CPY" -> CPY [] op = "DEC" -> DEC
    [] op = "DEX" -> DEX [] op = "DEY" -> DEY [] op = "EOR" -> EOR [] op = "INC" -> INC
    [] op = "INX" -> INX [] op = "INY" -> INY [] op = "LDA" -> LDA [] op = "LDX" -> LDX
    [] op = "LDY" -> LDY [] op = "LSR" -> LSR [] op = "NOP" -> NOP [] op = "ORA" -> ORA
    [] op = "ROL" -> ROL [] op = "ROR" -> ROR [] op = "SBC" -> SBC [] op = "STA" -> STA
    [] op = "STX" -> STX [] op = "STY" -> STY [] op = "TAX" -> TAX [] op = "TAY" -> TAY
    [] op = "TXA" -> TXA [] op = "TYA" -> TYA
=============================================================================
