---------------------------- MODULE Staged65C02 ----------------------------
(***************************************************************************)
(* The staged functions of isa_65C02/ where they are not those of          *)
(* isa_6502/: the 65C02 adds modes and instructions.                       *)
(***************************************************************************)
EXTENDS Sequences, Functions, TLC

Base == INSTANCE Staged6502
Staged(calls, then) == Base!Staged(calls, then)
Zeropage_indirect(calls) == [zeropage_indirect |-> calls]

Reads == Base!Reads @@ Zeropage_indirect(<< <<"zp">>, <<"plo">>, <<"phi">>, <<"r16", "end">> >>)

AND == Staged(Reads, "AND")
EOR == Staged(Reads, "EOR")
ORA == Staged(Reads, "ORA")
BIT ==
  Staged(Restrict(Reads, {"immediate", "zeropage", "absolute", "zeropage_x_indexed",
                          "absolute_x_indexed"}), "BIT")

LDA ==
  Staged(Base!LDA.calls @@
           Zeropage_indirect(<< <<"zp">>, <<"plo">>, <<"phi-unshifted">>, <<"r16", "end">> >>),
         "LDA")
CMP == Staged(Base!CMP.calls @@ Zeropage_indirect(<< <<"zp", "end">> >>), "CMP")

(* In decimal mode an operation takes one call more, after the read.        *)
(* There is no case for the zero page indirect mode the table has.          *)
Decimal ==
  Base!First("latch-D",
    [immediate          |-> << <<"imm", "end-if-binary">>, <<"end">> >>,
     zeropage           |-> << <<"zp">>, <<"r8", "end-if-binary">>, <<"end">> >>,
     zeropage_x_indexed |-> << <<"zp">>, <<"z+X">>, <<"r8", "end-if-binary">>, <<"end">> >>,
     absolute           |-> << <<"lo">>, <<"hi">>, <<"r16", "end-if-binary">>, <<"end">> >>,
     absolute_x_indexed |-> << <<"lo">>, <<"hi">>, <<"a+X", "try">>, <<"retry">>, <<"end">> >>,
     absolute_y_indexed |-> << <<"lo">>, <<"hi">>, <<"a+Y", "try">>, <<"retry">>, <<"end">> >>,
     x_indexed_indirect |-> << <<"zp">>, <<"z+X">>, <<"plo">>, <<"phi">>,
                               <<"r16", "end-if-binary">>, <<"end">> >>,
     indirect_y_indexed |-> << <<"zp">>, <<"plo">>, <<"phi">>, <<"a+Y", "try">>, <<"retry">>,
                               <<"end">> >>])

(* Mutant: after a page was left, decimal mode does not get its last call.  *)
Bug_ADC ==
  Staged([Decimal EXCEPT !.absolute_x_indexed =
            << <<"latch-D", "lo">>, <<"hi">>, <<"a+X", "try">>, <<"retry">> >>], "ADC")
ADC == Staged(Decimal, "ADC")
SBC == Staged(Decimal, "SBC")

STA ==
  Staged(Base!STA.calls @@ Zeropage_indirect(<< <<"zp">>, <<"plo">>, <<"phi">>, <<"end">> >>),
         "STA")
(* The zero page mode does not set ADDR16. *)
STZ ==
  Staged([zeropage           |-> << <<"zp">>, <<"end">> >>,
          zeropage_x_indexed |-> << <<"zp">>, <<"z+X", "page">>, <<"page", "end">> >>,
          absolute           |-> << <<"lo">>, <<"hi">>, <<"end">> >>,
          absolute_x_indexed |-> << <<"lo">>, <<"hi">>, <<"a+X">>, <<"end">> >>], "STZ")

(* DEC A increments. *)
INC == Staged(Base!INC.calls @@ [accumulator |-> << <<"A++">> >>], "INC")
DEC == Staged(Base!DEC.calls @@ [accumulator |-> << <<"A++">> >>], "DEC")

(* Shifts take a call less when the index stays in the page.  ASL A and     *)
(* ROR A rotate left.                                                       *)
ShiftCalls(accumulator) ==
  [Base!ShiftCalls(accumulator) EXCEPT
     !.absolute_x_indexed = << <<"not-pen", "lo">>, <<"hi">>, <<"a+X">>, <<"pen-if-here">>,
                               <<"pen-or-end">>, <<"end">> >>]

ASL == Staged(ShiftCalls("A=ROL"), "ASL")
LSR == Staged(ShiftCalls("A=LSR"), "LSR")
ROL == Staged(ShiftCalls("A=ROL"), "ROL")
ROR == Staged(ShiftCalls("A=ROL"), "ROR")

(* The last case of the absolute mode runs into the one that ends.  *)
TestCalls ==
  [zeropage |-> << <<"zp">>, <<"r8">>, <<"page", "pen">>, <<"end">> >>,
   absolute |-> << <<"lo">>, <<"hi">>, <<"r16">>, <<"pen", "end">> >>]
TRB == Staged(TestCalls, "TRB")
TSB == Staged(TestCalls, "TSB")

Mnemonics ==
  {"ADC", "AND", "ASL", "BIT", "CMP", "DEC", "EOR", "INC", "LDA", "LSR", "ORA", "ROL", "ROR",
   "SBC", "STA", "STZ", "TRB", "TSB"} \cup Base!Mnemonics
Function(op) ==
  CASE op = "ADC" -> ADC [] op = "AND" -> AND [] op = "ASL" -> ASL [] op = "BIT" -> BIT
    [] op = "CMP" -> CMP [] op = "DEC" -> DEC [] op = "EOR" -> EOR [] op = "INC" -> INC
    [] op = "LDA" -> LDA [] op = "LSR" -> LSR [] op = "ORA" -> ORA [] op = "ROL" -> ROL
    [] op = "ROR" -> ROR [] op = "SBC" -> SBC [] op = "STA" -> STA [] op = "STZ" -> STZ
    [] op = "TRB" -> TRB [] op = "TSB" -> TSB [] OTHER -> Base!Function(op)
=============================================================================
