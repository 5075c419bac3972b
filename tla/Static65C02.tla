---------------------------- MODULE Static65C02 ----------------------------
(***************************************************************************)
(* The static functions of isa_65C02/ where they are not those of          *)
(* isa_6502/.                                                              *)
(***************************************************************************)
EXTENDS Sequences, Functions, TLC

Base == INSTANCE Static6502
Static(at, then) == Base!Static(at, then)
In(cycles, steps) == Base!In(cycles, steps)

Reads == Base!Reads @@ [zeropage_indirect |-> In(4, <<"zp", "plo", "phi", "r16">>)]
Astray == Base!Astray(Reads)

AND == Static(Astray, "AND")
EOR == Static(Astray, "EOR")
ORA == Static(Astray, "ORA")
CMP == Static(Reads, "CMP")
LDA == Static(Reads, "LDA")
BIT ==
  Static([Restrict(Reads, {"immediate", "zeropage", "zeropage_x_indexed", "absolute",
                           "absolute_x_indexed"})
            EXCEPT !.absolute_x_indexed.cycles = 4], "BIT")

(* cycle_count + is_BCD *)
Decimal(at) == [m \in DOMAIN at |-> [at[m] EXCEPT !.steps = Append(@, "D-cycle")]]
ADC == Static(Decimal(Astray), "ADC")
SBC == Static(Decimal(Astray), "SBC")

STA == Static(Base!STA.at @@ [zeropage_indirect |-> In(4, <<"zp", "plo", "phi">>)], "STA")
STZ ==
  Static(Restrict(Base!Writes, {"zeropage", "zeropage_x_indexed", "absolute",
                                "absolute_x_indexed"}), "STZ")

(* DEC A increments. *)
INC == Static(Base!INC.at @@ [accumulator |-> In(1, <<"A++">>)], "INC")
DEC == Static(Base!DEC.at @@ [accumulator |-> In(1, <<"A++">>)], "DEC")

Shifting(accumulator) ==
  [Base!Shifting(accumulator) EXCEPT
     !.absolute_x_indexed = In(5, <<"lo", "hi", "a+X", "cross", "r16">>)]
ASL == Static(Shifting("A=ASL"), "ASL")
LSR == Static(Shifting("A=LSR"), "LSR")
ROL == Static(Shifting("A=ROL"), "ROL")
ROR == Static(Shifting("A=ROR"), "ROR")

Testing == [zeropage |-> In(4, <<"zp", "r8", "page">>), absolute |-> In(5, <<"lo", "hi", "r16">>)]
TRB == Static(Testing, "TRB")
TSB == Static(Testing, "TSB")

Mnemonics ==
  {"ADC", "AND", "ASL", "BIT", "CMP", "DEC", "EOR", "INC", "LDA", "LSR", "ORA", "ROL", "ROR",
   "SBC", "STA", "STZ", "TRB", "TSB"} \cup Base!Mnemonics
Function(op) ==
  CASE op = "ADC" -> ADC [] op = "AND" -> AND [] op = "ASL" -> ASL [] op = "BIT" -> BIT
    [] op = "CMP" -> CMP [] op = "DEC" -> DEC [] op = "EOR" -> EOR [] op = "INC" -> INC
    [] op = "LDA" -> LDA [] op = "LSR" -> LSR [] op = "ORA" -> ORA [] op = "ROL" -> ROL
    [] op = "ROR" -> ROR [] op = "SBC" -> SBC [] op = "STA" -> STA [] op = "STZ" -> STZ
    [] op = "TRB" -> TRB [] op = "TSB" -> TSB [] OTHER -> Base!Function(op)
=============================================================================
