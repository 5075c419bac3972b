----------------------------- MODULE DataInstr -----------------------------
(***************************************************************************)
(* One instruction that loads, stores, computes or compares, from its      *)
(* opcode to its end, executed the staged or the static way, in either     *)
(* dialect.                                                                *)
(***************************************************************************)
EXTENDS Steps, DispatchTable

CONSTANTS Opcodes,       \* opcodes a program may hold
          Start(_),      \* states in which an instruction of that mode is met
          LeftOver,      \* what a function's static locals may still hold
          Junk           \* what uninitialised locals of a call may hold

VARIABLES isa,      \* the dialect of the table
          how,      \* "staged" or "static"
          instr,    \* the dispatch record of the instruction
          phase,    \* "fetch", "exec", "done", or "crash": a call of NULL
          cycle,    \* cycle_count, without the fetch
          cpu, loc,
          before    \* history: cpu when the instruction began
vars == <<isa, how, instr, phase, cycle, cpu, loc, before>>

SG6502 == INSTANCE Staged6502
SG65C02 == INSTANCE Staged65C02
ST6502 == INSTANCE Static6502
ST65C02 == INSTANCE Static65C02
Phys == INSTANCE PhysicalCpu

StagedFn(i, op) == IF i = "6502" THEN SG6502!Function(op) ELSE SG65C02!Function(op)
StaticFn(i, op) == IF i = "6502" THEN ST6502!Function(op) ELSE ST65C02!Function(op)

(* exec_fn is NULL.  The instructions that move PC or SP are those of       *)
(* InstrStaged.                                                             *)
IsNull(d) == d.op = "none"
Data(d) == IsNull(d) \/ d.op \in SG65C02!Mnemonics

Init ==
  /\ isa \in {"6502", "65C02"}
  /\ how \in {"staged", "static"}
  /\ instr \in {Dispatch(isa, opcode) : opcode \in Opcodes}
  /\ Data(instr)
  /\ phase = "fetch"
  /\ cycle = 0
  /\ cpu \in Start(instr.mode)
  /\ loc \in LeftOver
  /\ before = cpu

(* An opcode whose mode is undefined ends the run. *)
Decode ==
  /\ phase = "fetch"
  /\ phase' = IF instr.mode = "undefined" THEN "done"
              ELSE IF IsNull(instr) THEN "crash" ELSE "exec"
  /\ UNCHANGED <<isa, how, instr, cycle, cpu, loc, before>>

(* The executor's do loop calls the function until it returns end. *)
StagedCycle ==
  LET w == StagedCall(StagedFn(isa, instr.op), instr.mode, cycle + 1, cpu, loc)
      longest == 7
  IN  /\ phase = "exec" /\ how = "staged"
      /\ cpu' = w.cpu /\ loc' = w.loc
      /\ phase' = IF w.stage = "next" THEN "exec" ELSE "done"
      /\ cycle' = IF cycle = longest THEN cycle ELSE cycle + 1
      /\ UNCHANGED <<isa, how, instr, before>>

StaticInstr ==
  /\ phase = "exec" /\ how = "static"
  /\ \E junk \in Junk :
       LET w == StaticCall(StaticFn(isa, instr.op), instr.mode, cpu, junk)
       IN  /\ cpu' = w.cpu
           /\ cycle' = w.cycles
  /\ phase' = "done"
  /\ UNCHANGED <<isa, how, instr, loc, before>>

Next == Decode \/ StagedCycle \/ StaticInstr
Spec == Init /\ [][Next]_vars

-----------------------------------------------------------------------------
(* Registers, memory and locals keep their width. *)
TypeOK ==
  /\ isa \in {"6502", "65C02"} /\ how \in {"staged", "static"}
  /\ phase \in {"fetch", "exec", "done", "crash"}
  /\ cycle \in 0 .. 8
  /\ IsCpu(cpu) /\ IsCpu(before) /\ loc \in Locals

Indirect2 == {"x_indexed_indirect", "indirect_y_indexed"}
AbsoluteIndexed == {"absolute_x_indexed", "absolute_y_indexed"}
FromZeropage == {"zeropage", "zeropage_x_indexed", "zeropage_indirect"} \cup Indirect2

(* The switch of the function has no case for the mode, or none that ends. *)
Unhandled(h, i, d) ==
  \/ d.op = "LDX" /\ d.mode \in {"zeropage_y_indexed", "absolute_y_indexed"}
  \/ h = "staged" /\ d.op = "STA" /\ d.mode \in Indirect2
  \/ h = "staged" /\ d.op \in {"ADC", "SBC"} /\ d.mode = "zeropage_indirect"

(* The function works on another address, or stores nothing. *)
WrongOperand(h, i, d) ==
  \/ h = "static" /\ d.op \in {"ADC", "SBC", "AND", "EOR", "ORA"} /\ d.mode \in AbsoluteIndexed
  \/ h = "staged" /\ d.op = "LDA" /\ d.mode \in Indirect2 \cup {"zeropage_indirect"}
  \/ h = "staged" /\ d.op = "CMP" /\ d.mode \in FromZeropage \cup {"absolute"}
  \/ h = "staged" /\ d.op = "STZ" /\ d.mode = "zeropage"
  \/ h = "staged" /\ d.op \in Shifts /\ d.mode # "accumulator"

(* The function computes something else. *)
WrongResult(h, i, d) ==
  \/ d.mode = "accumulator" /\ i = "65C02" /\ d.op = "DEC"
  \/ d.mode = "accumulator" /\ i = "65C02" /\ h = "staged" /\ d.op \in {"ASL", "ROR"}

(* Flags the function sets otherwise, or leaves to chance. *)
WrongFlags(h, d) ==
  CASE h = "static" /\ d.op \in {"ADC", "SBC"} -> Flags
    [] h = "staged" /\ d.op = "SBC" -> {"C"}
    [] d.op \in {"CMP", "CPX", "CPY"} -> {"N"}
    [] d.op = "BIT" /\ d.mode = "immediate" -> {"N", "V"}
    [] OTHER -> {}
WrongDecimal(d, s) == d.op = "SBC" /\ "D" \in s.SR

Same(s, t, flags) ==
  /\ s.A = t.A /\ s.X = t.X /\ s.Y = t.Y /\ s.PC = t.PC
  /\ s.SR \ flags = t.SR \ flags
  /\ \A a \in DOMAIN s.mem \cup DOMAIN t.mem : Load(s, a) = Load(t, a)

Complete == phase = "done" /\ instr.mode # "undefined"
Reached(h) == ~Unhandled(h, isa, instr) /\ ~WrongOperand(h, isa, instr)

(* An instruction leaves registers and memory as the processor would,       *)
(* whatever its function's static locals held before: effective addresses   *)
(* at the ends of pages and of memory, carries, overflow and decimal mode   *)
(* included.  The combinations excepted are listed above.                   *)
BehavesAsCpu ==
  Complete /\ Reached(how) /\ ~WrongResult(how, isa, instr) /\ ~WrongDecimal(instr, before)
    /\ Phys!Defined(instr.op, instr.mode, before) =>
      Same(cpu, Phys!Execute(instr.op, instr.mode, before),
           Phys!Undefined(instr.op, before) \cup WrongFlags(how, instr))

(* Registers and memory after the last call of a staged function are those  *)
(* its static twin leaves, decimal mode with digits that are none and the   *)
(* results that are not the processor's included.                           *)
SameBothWays ==
  Complete /\ how = "staged" /\ Reached("staged") /\ Reached("static")
    /\ (WrongResult("staged", isa, instr) <=> WrongResult("static", isa, instr)) =>
      \A junk \in Junk :
        Same(cpu, StaticCall(StaticFn(isa, instr.op), instr.mode, before, junk).cpu,
             IF instr.op \in {"ADC", "SBC"} THEN Flags ELSE {})

(* Combinations that take a cycle too many or too few. *)
WrongTime(h, i, d) ==
  \/ h = "staged" /\ d.op = "CMP" /\ d.mode \in FromZeropage
  \/ h = "staged" /\ d.op = "LDA" /\ d.mode = "indirect_y_indexed"
  \/ h = "staged" /\ d.op \in {"TRB", "TSB"} /\ d.mode = "absolute"
  \/ h = "static" /\ d.op \in {"LDX", "LDY"}
       /\ d.mode \in {"zeropage_x_indexed", "absolute", "absolute_x_indexed"}
  \/ h = "static" /\ d.op = "BIT" /\ d.mode = "absolute_x_indexed"

(* The calls of a staged function, and the cycles a static one adds up, are *)
(* the processor's: one more where an index leaves the page, and on the     *)
(* 65C02 one more in decimal mode.  In particular the executor's do loop    *)
(* ends.                                                                    *)
CyclesAsCpu ==
  ~Unhandled(how, isa, instr) /\ ~WrongTime(how, isa, instr) =>
    LET cycles == Phys!Cycles(isa, instr.op, instr.mode, before)
    IN  /\ phase = "exec" => cycle + 1 < cycles
        /\ Complete => cycle + 1 = cycles

-----------------------------------------------------------------------------
(* Violated.  isa_6502.h: the record of an unimplemented instruction has no *)
(* function and the mode undefined, so the executor stops at it.            *)
IllegalStops == phase # "crash"

(* Violated.  README.md: every implemented combination of instruction and   *)
(* addressing mode behaves as the physical CPU would.                       *)
EveryCombination ==
  Complete /\ Phys!Defined(instr.op, instr.mode, before) =>
    Same(cpu, Phys!Execute(instr.op, instr.mode, before), Phys!Undefined(instr.op, before))
=============================================================================
