--------------------------- MODULE DispatchTable ---------------------------
(***************************************************************************)
(* The dispatch tables of isa_6502.c.  An opcode is three fields: in       *)
(* block C of the table, row A, entry B.                                   *)
(***************************************************************************)
EXTENDS Integers, Sequences

Op(mnemonic, mode) == [op |-> mnemonic, mode |-> mode]
None == Op("none", "undefined")
Implied(mnemonic) == Op(mnemonic, "implied")
Relative(mnemonic) == Op(mnemonic, "relative")
Immediate(mnemonic) == Op(mnemonic, "immediate")
Zeropage(mnemonic) == Op(mnemonic, "zeropage")
Absolute(mnemonic) == Op(mnemonic, "absolute")
ZeropageX(mnemonic) == Op(mnemonic, "zeropage_x_indexed")
ZeropageY(mnemonic) == Op(mnemonic, "zeropage_y_indexed")
AbsoluteX(mnemonic) == Op(mnemonic, "absolute_x_indexed")
AbsoluteY(mnemonic) == Op(mnemonic, "absolute_y_indexed")
Indirect(mnemonic) == Op(mnemonic, "zeropage_indirect")

C0_6502 ==
 << <<Implied("BRK"), None, Implied("PHP"), None, Relative("BPL"), None, Implied("CLC"), None>>,
    <<Absolute("JSR"), Zeropage("BIT"), Implied("PLP"), Absolute("BIT"), Relative("BMI"), None,
      Implied("SEC"), None>>,
    <<Implied("RTI"), None, Implied("PHA"), Absolute("JMP"), Relative("BVC"), None,
      Implied("CLI"), None>>,
    <<Implied("RTS"), None, Implied("PLA"), Op("JMP", "indirect"), Relative("BVS"), None,
      Implied("SEI"), None>>,
    <<None, Zeropage("STY"), Implied("DEY"), Absolute("STY"), Relative("BCC"), ZeropageX("STY"),
      Implied("TYA"), None>>,
    <<Immediate("LDY"), Zeropage("LDY"), Implied("TAY"), Absolute("LDY"), Relative("BCS"),
      ZeropageX("LDY"), Implied("CLV"), AbsoluteX("LDY")>>,
    <<Immediate("CPY"), Zeropage("CPY"), Implied("INY"), Absolute("CPY"), Relative("BNE"), None,
      Implied("CLD"), None>>,
    <<Immediate("CPX"), Zeropage("CPX"), Implied("INX"), Absolute("CPX"), Relative("BEQ"), None,
      Implied("SED"), None>> >>

(* Eight operations on the accumulator, in eight modes each. *)
Row(mnemonic) ==
  <<Op(mnemonic, "x_indexed_indirect"), Zeropage(mnemonic), Immediate(mnemonic),
    Absolute(mnemonic), Op(mnemonic, "indirect_y_indexed"), ZeropageX(mnemonic),
    AbsoluteY(mnemonic), AbsoluteX(mnemonic)>>
C1_6502 ==
  <<Row("ORA"), Row("AND"), Row("EOR"), Row("ADC"), [Row("STA") EXCEPT ![3] = None],
    Row("LDA"), Row("CMP"), Row("SBC")>>

ShiftRow(mnemonic) ==
  <<None, Zeropage(mnemonic), Op(mnemonic, "accumulator"), Absolute(mnemonic), None,
    ZeropageX(mnemonic), None, AbsoluteX(mnemonic)>>
C2_6502 ==
 << ShiftRow("ASL"), ShiftRow("ROL"), ShiftRow("LSR"), ShiftRow("ROR"),
    <<None, Zeropage("STX"), Implied("TXA"), Absolute("STX"), None, ZeropageY("STX"),
      Implied("TXS"), None>>,
    <<Immediate("LDX"), Zeropage("LDX"), Implied("TAX"), Absolute("LDX"), None, ZeropageY("LDX"),
      Implied("TSX"), AbsoluteY("LDX")>>,
    [ShiftRow("DEC") EXCEPT ![3] = Implied("DEX")],
    [ShiftRow("INC") EXCEPT ![3] = Implied("NOP")] >>

(* The 65C02 fills unused entries. *)
C0_65C02 ==
  [C0_6502 EXCEPT
     ![1][2] = Zeropage("TSB"), ![1][4] = Absolute("TSB"), ![1][6] = Zeropage("TRB"),
     ![1][8] = Absolute("TRB"), ![2][6] = ZeropageX("BIT"), ![2][8] = AbsoluteX("BIT"),
     ![4][2] = Zeropage("STZ"), ![4][6] = ZeropageX("STZ"),
     ![4][8] = Op("JMP", "absolute_x_indexed_indirect"), ![5][1] = Relative("BRA"),
     ![5][8] = Absolute("STZ")]
C1_65C02 == [C1_6502 EXCEPT ![5][3] = Immediate("BIT")]
C2_65C02 ==
  [C2_6502 EXCEPT
     ![1][5] = Indirect("ORA"), ![2][5] = Indirect("AND"), ![3][5] = Indirect("EOR"),
     ![4][5] = Indirect("ADC"), ![5][5] = Indirect("STA"), ![6][5] = Indirect("LDA"),
     ![7][5] = Indirect("CMP"), ![8][5] = Indirect("SBC"),
     ![1][7] = Op("INC", "accumulator"), ![2][7] = Op("DEC", "accumulator"),
     ![3][7] = Implied("PHY"), ![4][7] = Implied("PLY"), ![7][7] = Implied("PHX"),
     ![8][7] = Implied("PLX"), ![5][8] = AbsoluteX("STZ")]

(* The initialisers stop before the last block, which C fills with zeros:   *)
(* no function, and the mode that has the number 0.                         *)
NoBlock == [row \in 1 .. 8 |-> [entry \in 1 .. 8 |-> Op("none", "accumulator")]]

(* isa_6502_table_init, isa_6502_table_lookup_dispatch *)
Table(isa) ==
  IF isa = "6502" THEN <<C0_6502, C1_6502, C2_6502, NoBlock>>
                  ELSE <<C0_65C02, C1_65C02, C2_65C02, NoBlock>>
Dispatch(isa, opcode) ==
  Table(isa)[1 + (opcode % 4)][1 + (opcode \div 32)][1 + ((opcode \div 4) % 8)]

=============================================================================
