---------------------------- MODULE InstrStaged ----------------------------
(***************************************************************************)
(* Staged execution: the executor fetches an opcode, or finds an interrupt *)
(* due, and calls the staged function once per cycle until it returns end. *)
(* What the static functions of InstrStatic do in one step is spread over  *)
(* the calls, with what the function keeps in static variables in between. *)
(***************************************************************************)
EXTENDS BalancedProgram

CONSTANT MaxInstr   \* bound: instructions run
ASSUME MaxInstrAssumption == MaxInstr \in Nat

VARIABLES
  cpu,        \* registers and page one
  instr,      \* the instruction in progress, or "none"
  cycle,      \* cycle_count: the call that comes next
  ADDR16,     \* the functions' static uint16_t
  BYTE,       \* the functions' static uint8_t: DELTA, INDIRECT, SR, A, X, Y
  before,     \* history: registers and page one when the instruction began
  kept,       \* history: what the program has on the stack
  done        \* how many instructions have ended

vars == <<cpu, instr, cycle, ADDR16, BYTE, before, kept, done>>

Init ==
  /\ cpu \in Start /\ before = cpu
  /\ kept = << >>
  /\ instr = "none" /\ cycle = 0 /\ done = 0
  /\ ADDR16 = <<0, 0>> /\ BYTE = Num(0)

(* An opcode has been fetched, or an interrupt is found due.  Every         *)
(* function writes its statics before it reads them, so that what they      *)
(* still hold is forgotten.                                                 *)
Begin(op) ==
  /\ instr = "none" /\ done < MaxInstr
  /\ Allowed(op, cpu, kept)
  /\ instr' = op /\ cycle' = 1
  /\ cpu' = IF op \in Interrupts THEN cpu ELSE Fetched(cpu)
  /\ ADDR16' = <<0, 0>> /\ BYTE' = Num(0)
  /\ UNCHANGED <<before, kept, done>>

(* The n-th call, which returns next_cycle. *)
Call(n, cpu1, addr, byte) ==
  /\ cycle = n /\ cycle' = n + 1
  /\ cpu' = cpu1 /\ ADDR16' = addr /\ BYTE' = byte
  /\ UNCHANGED <<instr, before, kept, done>>

(* The n-th call, which returns end. *)
End(n, cpu1) ==
  /\ cycle = n /\ cycle' = 0
  /\ instr' = "none" /\ done' = done + 1
  /\ cpu' = cpu1 /\ before' = cpu1
  /\ kept' = Kept(instr, before, kept)
  /\ UNCHANGED <<ADDR16, BYTE>>

Low(p) == <<0, ROM[p]>>
WithHigh(p) == <<ROM[p], Lo(ADDR16)>>
PushHi == Push(cpu, Num(Hi(cpu.PC)))
PushLo == Push(cpu, Num(Lo(cpu.PC)))

-----------------------------------------------------------------------------
(* Mutant: I is set before SR is pushed. *)
Bug_NMI ==
  /\ instr = "NMI"
  /\ \/ Call(1, PushHi, ADDR16, BYTE)
     \/ Call(2, PushLo, ADDR16, BYTE)
     \/ Call(3, Push(MaskIrq(cpu), Status(MaskIrq(cpu).SR)), ADDR16, BYTE)
     \/ Call(4, cpu, Low(NmiVector), BYTE)
     \/ End(5, Jump(cpu, WithHigh(Inc(NmiVector))))

NMI ==
  /\ instr = "NMI"
  /\ \/ Call(1, PushHi, ADDR16, BYTE)
     \/ Call(2, PushLo, ADDR16, BYTE)
     \/ Call(3, MaskIrq(Push(cpu, Status(cpu.SR))), ADDR16, BYTE)
     \/ Call(4, cpu, Low(NmiVector), BYTE)
     \/ End(5, Jump(cpu, WithHigh(Inc(NmiVector))))

(* Mutant: the low byte is pushed first. *)
Bug_IRQ ==
  /\ instr = "IRQ"
  /\ IF "I" \in cpu.SR
       THEN End(cycle, cpu)
       ELSE \/ Call(1, PushLo, ADDR16, BYTE)
            \/ Call(2, PushHi, ADDR16, BYTE)
            \/ Call(3, MaskIrq(Push(cpu, Status(cpu.SR))), ADDR16, BYTE)

(* Every call looks at I first, also after the third one has set it: the    *)
(* switch's last two cases, which load the vector, are out of reach.        *)
IRQ ==
  /\ instr = "IRQ"
  /\ IF "I" \in cpu.SR
       THEN End(cycle, cpu)
       ELSE \/ Call(1, PushHi, ADDR16, BYTE)
            \/ Call(2, PushLo, ADDR16, BYTE)
            \/ Call(3, MaskIrq(Push(cpu, Status(cpu.SR))), ADDR16, BYTE)

BRK ==
  /\ instr = "BRK"
  /\ \/ Call(1, LET s == Fetched(cpu) IN Push(s, Num(Hi(s.PC))), ADDR16, BYTE)
     \/ Call(2, PushLo, ADDR16, BYTE)
     \/ Call(3, Push(cpu, Status(cpu.SR \cup {"B"})), ADDR16, BYTE)
     \/ Call(4, MaskIrq(cpu), ADDR16, BYTE)
     \/ Call(5, Jump(cpu, Low(NmiVector)), ADDR16, BYTE)
     \/ End(6, Jump(cpu, <<ROM[Inc(NmiVector)], Lo(cpu.PC)>>))

RTI ==
  /\ instr = "RTI"
  /\ \/ Call(1, Pop(cpu), ADDR16, Popped(cpu))
     \/ Call(2, cpu, ADDR16, Status(Unmarked(BYTE.status)))
     \/ Call(3, [cpu EXCEPT !.SR = BYTE.status], ADDR16, BYTE)
     \/ Call(4, Pop(cpu), <<0, Popped(cpu).byte>>, BYTE)
     \/ End(5, Jump(Pop(cpu), <<Popped(cpu).byte, Lo(ADDR16)>>))

(* Mutant: the return address is pushed before the operand's high byte is read. *)
Bug_JSR ==
  /\ instr = "JSR"
  /\ \/ Call(1, Fetched(cpu), Low(cpu.PC), BYTE)
     \/ Call(2, PushHi, ADDR16, BYTE)
     \/ Call(3, PushLo, ADDR16, BYTE)
     \/ Call(4, Fetched(cpu), WithHigh(cpu.PC), BYTE)
     \/ End(5, Jump(cpu, ADDR16))

JSR ==
  /\ instr = "JSR"
  /\ \/ Call(1, Fetched(cpu), Low(cpu.PC), BYTE)
     \/ Call(2, Fetched(cpu), WithHigh(cpu.PC), BYTE)
     \/ Call(3, PushHi, ADDR16, BYTE)
     \/ Call(4, PushLo, ADDR16, BYTE)
     \/ End(5, Jump(cpu, ADDR16))

RTS ==
  /\ instr = "RTS"
  /\ \/ Call(1, Pop(cpu), <<0, Popped(cpu).byte>>, BYTE)
     \/ Call(2, cpu, ADDR16, BYTE)
     \/ Call(3, Pop(cpu), <<Popped(cpu).byte, Lo(ADDR16)>>, BYTE)
     \/ Call(4, cpu, ADDR16, BYTE)
     \/ End(5, Jump(cpu, ADDR16))

(* PHA, PHX and PHY. *)
PH ==
  /\ instr \in Pushes
  /\ \/ Call(1, cpu, ADDR16, Num(cpu[Register(instr)]))
     \/ End(2, Push(cpu, BYTE))

(* PLA, PLX and PLY. *)
PL ==
  /\ instr \in Pulls
  /\ \/ Call(1, Pop(cpu), ADDR16, Popped(cpu))
     \/ Call(2, [cpu EXCEPT ![Register(instr)] = BYTE.byte], ADDR16, BYTE)
     \/ End(3, DidSet(cpu, cpu[Register(instr)]))

PHP ==
  /\ instr = "PHP"
  /\ \/ Call(1, cpu, ADDR16, Status(cpu.SR \cup {"B", "IGN"}))
     \/ End(2, Push(cpu, BYTE))

PLP ==
  /\ instr = "PLP"
  /\ \/ Call(1, Pop(cpu), ADDR16, Popped(cpu))
     \/ Call(2, cpu, ADDR16, Status(Unmarked(BYTE.status)))
     \/ End(3, [cpu EXCEPT !.SR = BYTE.status])

(* Absolute, indirect and, on the 65C02, (absolute,X). *)
JMP ==
  /\ instr \in {"JMP"} \cup Indirect
  /\ \/ Call(1, Fetched(cpu), Low(cpu.PC), BYTE)
     \/ IF instr = "JMP"
          THEN End(2, Jump(cpu, WithHigh(cpu.PC)))
          ELSE Call(2, Fetched(cpu), WithHigh(cpu.PC), BYTE)

JMP_indirect ==
  /\ instr = "JMP_indirect"
  /\ \/ Call(3, cpu, Pointer(cpu, ADDR16), Num(ROM[ADDR16]))
     \/ End(4, Jump(cpu, <<ROM[ADDR16], BYTE.byte>>))

JMP_indexed ==
  /\ instr = "JMP_indexed"
  /\ \/ Call(3, cpu, Plus(ADDR16, cpu.X), BYTE)
     \/ Call(4, cpu, Inc(ADDR16), Num(ROM[ADDR16]))
     \/ End(5, Jump(cpu, <<ROM[ADDR16], BYTE.byte>>))

Taken ==
  CASE instr = "BCC" -> BCC(cpu) [] instr = "BCS" -> BCS(cpu)
    [] instr = "BNE" -> BNE(cpu) [] instr = "BEQ" -> BEQ(cpu)
    [] instr = "BPL" -> BPL(cpu) [] instr = "BMI" -> BMI(cpu)
    [] instr = "BVC" -> BVC(cpu) [] instr = "BVS" -> BVS(cpu)
    [] OTHER -> TRUE

(* Mutant: the third call does not end the instruction. *)
Bug_Branch ==
  /\ instr \in Branches
  /\ LET target == Plus(cpu.PC, Signed(BYTE.byte)) IN
     \/ ~ Taken /\ End(cycle, Fetched(cpu))
     \/ Taken /\ Call(1, Fetched(cpu), ADDR16, Num(ROM[cpu.PC]))
     \/ Taken /\ Hi(target) = Hi(cpu.PC) /\ End(2, Jump(cpu, target))
     \/ Taken /\ Hi(target) # Hi(cpu.PC) /\ Call(2, cpu, target, BYTE)

(* A taken branch needs a call more when it leaves the page. *)
Branch ==
  /\ instr \in Branches
  /\ LET target == Plus(cpu.PC, Signed(BYTE.byte)) IN
     \/ ~ Taken /\ End(cycle, Fetched(cpu))
     \/ Taken /\ Call(1, Fetched(cpu), ADDR16, Num(ROM[cpu.PC]))
     \/ Taken /\ Hi(target) = Hi(cpu.PC) /\ End(2, Jump(cpu, target))
     \/ Taken /\ Hi(target) # Hi(cpu.PC) /\ Call(2, cpu, target, BYTE)
     \/ Taken /\ End(3, Jump(cpu, ADDR16))

Flag ==
  \/ instr = "CLC" /\ End(1, CLC(cpu))
  \/ instr = "SEC" /\ End(1, SEC(cpu))
  \/ instr = "CLD" /\ End(1, CLD(cpu))
  \/ instr = "SED" /\ End(1, SED(cpu))
  \/ instr = "CLI" /\ End(1, CLI(cpu))
  \/ instr = "SEI" /\ End(1, SEI(cpu))
  \/ instr = "CLV" /\ End(1, CLV(cpu))

Transfer ==
  \/ instr = "TXS" /\ End(1, TXS(cpu))
  \/ instr = "TSX" /\ End(1, TSX(cpu))

(* One call of the staged function of the instruction in progress. *)
Step ==
  \/ NMI \/ IRQ \/ BRK \/ RTI \/ JSR \/ RTS
  \/ PH \/ PL \/ PHP \/ PLP
  \/ JMP \/ JMP_indirect \/ JMP_indexed \/ Branch
  \/ Flag \/ Transfer

Next == Step \/ \E op \in Ops : Begin(op)

(* The executor's do loop calls the function until it returns end. *)
Spec == Init /\ [][Next]_vars
FairSpec == Spec /\ WF_vars(Step)

-----------------------------------------------------------------------------
(* Properties.                                                              *)

TypeOK ==
  /\ cpu \in State /\ before \in State
  /\ instr \in Ops \cup {"none"} /\ cycle \in 0 .. 6
  /\ ADDR16 \in Addr /\ BYTE \in Cell
  /\ kept \in Seq(Entries)
  /\ done \in 0 .. MaxInstr

(* The stack of a processor holds the entries k, below SP and around the    *)
(* end of the page, each where it was put.                                  *)
Mirrors(s, k) ==
  /\ Len(k) <= Radix
  /\ \A i \in 1 .. Len(k) :
       /\ (s.SP + i) % Radix = k[i].sp
       /\ s.page1[k[i].sp] = OnStack(k[i])

(* Between instructions the stack holds exactly what the program has on it, *)
(* and nothing has overwritten it.                                          *)
StackMirrors == instr = "none" => Mirrors(cpu, kept)

(* The status register never holds the marks that PHP and BRK push with it, *)
(* so that a handler can tell BRK from an interrupt.                        *)
NoMarksInSR == cpu.SR \cap {"B", "IGN"} = {}

(* When an instruction that takes something off the stack ends, the         *)
(* registers it restores are as they were when it was put there: an         *)
(* interrupted program goes on where it was, with its flags, a caller after *)
(* its JSR.                                                                 *)
Restored(op) ==
  CASE op = "RTI" -> /\ cpu'.SR = kept[1].cell.status
                     /\ cpu'.PC = <<kept[3].cell.byte, kept[2].cell.byte>>
                     /\ cpu'.SP = kept[3].sp
    [] op = "RTS" -> cpu'.PC = <<kept[2].cell.byte, kept[1].cell.byte>> /\ cpu'.SP = kept[2].sp
    [] op = "PLP" -> cpu'.SR = kept[1].cell.status /\ cpu'.SP = kept[1].sp
    [] op \in Pulls -> cpu'[Register(op)] = kept[1].cell.byte /\ cpu'.SP = kept[1].sp
    [] OTHER -> TRUE
ReturnsExact == [][instr # "none" /\ instr' = "none" => Restored(instr)]_vars

(* CHANGELOG 23: the static functions are "alternative [...] variants" of    *)
(* the staged ones.  Seen from one instruction's end to the next, staged    *)
(* execution is static execution.                                           *)
Static == INSTANCE InstrStatic WITH cpu <- before
StaticAgrees == Static!Spec

(* CHANGELOG 18-20: with an NMI or IRQ set, "execution pipeline is hijacked *)
(* and NMI/IRQ callback is cycled": an interrupt that is taken goes on at   *)
(* the address its vector holds.                                            *)
EntersHandler ==
  [][/\ instr = "NMI" /\ instr' = "none" => cpu'.PC = Word(NmiVector)
     /\ instr = "IRQ" /\ instr' = "none" => cpu'.PC = Word(IrqVector)]_vars

(* Every instruction that is begun comes to its end.                        *)
InstructionsEnd == (instr # "none") ~> (instr = "none")

-----------------------------------------------------------------------------
(* The inductive strengthening of the invariants above.                     *)

Marks == {"B", "IGN"}

(* A status lies on a saved PC, whose low byte lies on its high byte.       *)
Nested(k) ==
  \A i \in 1 .. Len(k) :
    /\ k[i].kind \in {"sr", "brk", "php"} => k[i].cell \in [status : SUBSET (Bits \ Marks)]
    /\ k[i].kind \in {"hi", "lo", "num"} => k[i].cell \in [byte : Byte]
    /\ k[i].kind \in {"sr", "brk"} => i < Len(k) /\ k[i + 1].kind = "lo"
    /\ k[i].kind = "lo" => i < Len(k) /\ k[i + 1].kind = "hi"

(* What holds of a processor and the entries on its stack between           *)
(* instructions.                                                            *)
Sound(s, k) ==
  /\ s \in State /\ k \in Seq(Entries)
  /\ Mirrors(s, k) /\ Nested(k)
  /\ s.SR \cap Marks = {}

(* How far the calls have come.  In each of them the processor is in a      *)
(* state that can be told from the one the instruction began in.            *)
At(n, s) == cycle = n /\ cpu = s
Opcode == Fetched(before)
Operand == Fetched(Opcode)

InterruptProgress ==
  LET hi == Push(before, Num(Hi(before.PC)))
      entered == MaskIrq(Push(PushPC(before), Status(before.SR)))
  IN  \/ At(1, before) \/ At(2, hi) \/ At(3, PushPC(before)) \/ At(4, entered)
      \/ instr = "NMI" /\ At(5, entered) /\ ADDR16 = Low(NmiVector)

BRKProgress ==
  LET pushed == Push(PushPC(Operand), Status(before.SR \cup {"B"}))
  IN  \/ At(1, Opcode) \/ At(2, Push(Operand, Num(Hi(Operand.PC)))) \/ At(3, PushPC(Operand))
      \/ At(4, pushed) \/ At(5, MaskIrq(pushed))
      \/ At(6, Jump(MaskIrq(pushed), Low(NmiVector)))

RTIProgress ==
  LET popped == Pop(Opcode)
      status == Unmarked(Popped(Opcode).status)
  IN  \/ At(1, Opcode)
      \/ At(2, popped) /\ BYTE = Popped(Opcode)
      \/ At(3, popped) /\ BYTE = Status(status)
      \/ At(4, [popped EXCEPT !.SR = status])
      \/ At(5, [Pop(popped) EXCEPT !.SR = status]) /\ ADDR16 = <<0, Popped(popped).byte>>

JSRProgress ==
  LET next == Fetched(Operand)
  IN  \/ At(1, Opcode)
      \/ At(2, Operand) /\ ADDR16 = Low(Opcode.PC)
      \/ /\ ADDR16 = Word(Opcode.PC)
         /\ At(3, next) \/ At(4, Push(next, Num(Hi(next.PC)))) \/ At(5, PushPC(next))

RTSProgress ==
  LET popped == Pop(Opcode)
  IN  \/ At(1, Opcode)
      \/ (At(2, popped) \/ At(3, popped)) /\ ADDR16 = <<0, Popped(Opcode).byte>>
      \/ /\ At(4, Pop(popped)) \/ At(5, Pop(popped))
         /\ ADDR16 = <<Popped(popped).byte, Popped(Opcode).byte>>

PushProgress ==
  \/ At(1, Opcode)
  \/ /\ At(2, Opcode)
     /\ BYTE = IF instr = "PHP" THEN Status(before.SR \cup Marks)
                                ELSE Num(before[Register(instr)])

PullProgress ==
  \/ At(1, Opcode)
  \/ At(2, Pop(Opcode)) /\ BYTE = Popped(Opcode)
  \/ At(3, [Pop(Opcode) EXCEPT ![Register(instr)] = Popped(Opcode).byte])

PLPProgress ==
  \/ At(1, Opcode)
  \/ At(2, Pop(Opcode)) /\ BYTE = Popped(Opcode)
  \/ At(3, Pop(Opcode)) /\ BYTE = Status(Unmarked(Popped(Opcode).status))

JMPProgress ==
  LET next == Fetched(Operand)
      p == Word(Opcode.PC)
  IN  \/ At(1, Opcode)
      \/ At(2, Operand) /\ ADDR16 = Low(Opcode.PC)
      \/ instr # "JMP" /\ At(3, next) /\ ADDR16 = p
      \/ /\ instr = "JMP_indirect" /\ At(4, next)
         /\ ADDR16 = Pointer(before, p) /\ BYTE = Num(ROM[p])
      \/ /\ instr = "JMP_indexed" /\ At(4, next) /\ ADDR16 = Plus(p, before.X)
      \/ /\ instr = "JMP_indexed" /\ At(5, next)
         /\ ADDR16 = Inc(Plus(p, before.X)) /\ BYTE = Num(ROM[Plus(p, before.X)])

BranchProgress ==
  \/ At(1, Opcode)
  \/ At(2, Operand) /\ BYTE = Num(ROM[Opcode.PC])
  \/ At(3, Operand) /\ ADDR16 \in Addr

Progress ==
  /\ instr = "none" => At(0, before)
  /\ instr \in Interrupts => InterruptProgress
  /\ instr = "BRK" => BRKProgress
  /\ instr = "RTI" => RTIProgress
  /\ instr = "JSR" => JSRProgress
  /\ instr = "RTS" => RTSProgress
  /\ instr \in Pushes \cup {"PHP"} => PushProgress
  /\ instr \in Pulls => PullProgress
  /\ instr = "PLP" => PLPProgress
  /\ instr \in {"JMP"} \cup Indirect => JMPProgress
  /\ instr \in Branches => BranchProgress
  /\ instr \in OneCall => At(1, Opcode)

IInv ==
  /\ TypeOK
  /\ Sound(before, kept)
  /\ instr # "none" => Allowed(instr, before, kept) /\ done < MaxInstr
  /\ Progress
=============================================================================
