---------------------------- MODULE InstrStatic ----------------------------
(***************************************************************************)
(* Static execution (isa_6502_opcode_exec_mode_static): every instruction  *)
(* is one call of its static function, and one step.  Interrupts have      *)
(* static functions too; the static loop has no pointer to them, and calls *)
(* the staged ones.                                                        *)
(***************************************************************************)
EXTENDS BalancedProgram

VARIABLES cpu, kept
vars == <<cpu, kept>>

(* An instruction that turns the state it is called in into Effect(state). *)
Run(op, effect) ==
  /\ Allowed(op, cpu, kept)
  /\ cpu' = effect
  /\ kept' = Kept(op, cpu, kept)

f == Fetched(cpu)

NMI == Run("NMI", static_NMI(cpu))
IRQ == Run("IRQ", static_IRQ(cpu))
BRK == Run("BRK", static_BRK(f))
RTI == Run("RTI", static_RTI(f))
JSR == Run("JSR", static_JSR(f))
RTS == Run("RTS", static_RTS(f))
PH == \E op \in Pushes : Run(op, static_PH(f, Register(op)))
PL == \E op \in Pulls : Run(op, static_PL(f, Register(op)))
PHP == Run("PHP", static_PHP(f))
PLP == Run("PLP", static_PLP(f))
JMP == Run("JMP", static_JMP(f))
JMP_indirect == Run("JMP_indirect", static_JMP_indirect(f))
JMP_indexed == Run("JMP_indexed", static_JMP_indexed(f))
Branch == \E op \in Branches : Run(op, static_Branch(f))
Flag ==
  \/ Run("CLC", CLC(f)) \/ Run("SEC", SEC(f)) \/ Run("CLD", CLD(f)) \/ Run("SED", SED(f))
  \/ Run("CLI", CLI(f)) \/ Run("SEI", SEI(f)) \/ Run("CLV", CLV(f))
Transfer == Run("TXS", TXS(f)) \/ Run("TSX", TSX(f))

Init ==
  /\ cpu \in Start
  /\ kept = << >>

Next ==
  \/ NMI \/ IRQ \/ BRK \/ RTI \/ JSR \/ RTS
  \/ PH \/ PL \/ PHP \/ PLP
  \/ JMP \/ JMP_indirect \/ JMP_indexed \/ Branch
  \/ Flag \/ Transfer

Spec == Init /\ [][Next]_vars
=============================================================================
