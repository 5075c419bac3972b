-------------------------- MODULE BalancedProgram --------------------------
(***************************************************************************)
(* The programs the instruction models run: any instruction may come next, *)
(* so long as the program takes off the stack what it put there last, the  *)
(* way it put it there, keeps no more than a page on it, and runs outside  *)
(* page one.  What is on the stack is remembered beside the processor's    *)
(* own state, as the properties need it: a sequence, the latest entry      *)
(* first, of what was put there and the stack pointer it was put at.       *)
(***************************************************************************)
EXTENDS Cpu6502

CONSTANTS
  Ops,   \* the instructions and interrupts there are
  Start  \* the states a program may start in

Interrupts == {"NMI", "IRQ"}
Branches == {"BCC", "BCS", "BNE", "BEQ", "BPL", "BMI", "BVC", "BVS", "BRA"}
Pushes == {"PHA", "PHX", "PHY"}
Pulls == {"PLA", "PLX", "PLY"}
Indirect == {"JMP_indirect", "JMP_indexed"}
CmosOnly == {"BRA", "PHX", "PHY", "PLX", "PLY", "JMP_indexed"}
OneCall == {"CLC", "SEC", "CLD", "SED", "CLI", "SEI", "CLV", "TXS", "TSX"}
AllOps == Interrupts \cup Branches \cup Pushes \cup Pulls \cup Indirect \cup OneCall
            \cup {"BRK", "RTI", "JSR", "RTS", "PHP", "PLP", "JMP"}

ASSUME OpsAssumption == Ops \subseteq AllOps
ASSUME StartAssumption == Start \subseteq State /\ \A s \in Start : s.SR = Unmarked(s.SR)

(* The register a push or pull is about. *)
Register(op) ==
  IF op \in {"PHA", "PLA"} THEN "A" ELSE IF op \in {"PHX", "PLX"} THEN "X" ELSE "Y"

-----------------------------------------------------------------------------
Kinds == {"hi", "lo", "sr", "brk", "num", "php"}
Entries == [kind : Kinds, cell : Cell, sp : Byte]
Entry(kind, cell, sp) == [kind |-> kind, cell |-> cell, sp |-> sp]

(* A program counter, a status on top of it, and a register. *)
SavedPC(s, p) == << Entry("lo", Num(Lo(p)), Down(s.SP)), Entry("hi", Num(Hi(p)), s.SP) >>
Interrupted(kind, s, p) == <<Entry(kind, Status(s.SR), Down(Down(s.SP)))>> \o SavedPC(s, p)

(* What is on the stack after op, started in state s with k on the stack. *)
Kept(op, s, k) ==
  CASE op \in Interrupts -> Interrupted("sr", s, s.PC) \o k
    [] op = "BRK"        -> Interrupted("brk", s, Inc(Inc(s.PC))) \o k
    [] op = "JSR"        -> SavedPC(s, Inc(Inc(Inc(s.PC)))) \o k
    [] op \in Pushes     -> <<Entry("num", Num(s[Register(op)]), s.SP)>> \o k
    [] op = "PHP"        -> <<Entry("php", Status(s.SR), s.SP)>> \o k
    [] op = "RTI"        -> SubSeq(k, 4, Len(k))
    [] op = "RTS"        -> SubSeq(k, 3, Len(k))
    [] op \in Pulls \cup {"PLP"} -> Tail(k)
    [] OTHER             -> k

(* How an entry looks in memory: BRK and PHP mark the status they push. *)
OnStack(e) ==
  IF e.kind = "brk" THEN Status(e.cell.status \cup {"B"})
  ELSE IF e.kind = "php" THEN Status(e.cell.status \cup {"B", "IGN"})
  ELSE e.cell

-----------------------------------------------------------------------------
Room(n, k) == Len(k) + n <= Radix
Top(kinds, k) == k # << >> /\ k[1].kind \in kinds

(* The opcode and operands at p, and what they point to, are outside page one. *)
InCode(p) == \A n \in 0 .. 2 : Hi(Plus(p, n)) # 1
PointsToCode(s) ==
  LET p == Word(Inc(s.PC)) IN
  /\ Hi(p) # 1 /\ Hi(Inc(p)) # 1
  /\ Hi(Plus(p, s.X)) # 1 /\ Hi(Inc(Plus(p, s.X))) # 1

(* The executor turns to an IRQ only while I is clear. *)
Allowed(op, s, k) ==
  /\ op \in Ops
  /\ op \in CmosOnly => s.isa = "65C02"
  /\ op \notin Interrupts => InCode(s.PC)
  /\ op \in Indirect => PointsToCode(s)
  /\ op = "IRQ" => "I" \notin s.SR
  /\ op \in Interrupts \cup {"BRK"} => Room(3, k)
  /\ op = "JSR" => Room(2, k)
  /\ op \in Pushes \cup {"PHP"} => Room(1, k)
  /\ op = "RTI" => Top({"sr", "brk"}, k)
  /\ op = "RTS" => Top({"lo"}, k)
  /\ op \in Pulls => Top({"num"}, k)
  /\ op = "PLP" => Top({"php"}, k)
  /\ op = "TXS" => k = << >>
=============================================================================
