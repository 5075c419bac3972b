------------------------------ MODULE Cpu6502 ------------------------------
(***************************************************************************)
(* The registers and the stack of the 6502 and 65C02, and what every       *)
(* instruction that moves the stack pointer or the program counter does to *)
(* them in one go: the static functions of isa_6502/ and isa_65C02/.  An   *)
(* instruction is a function from the state before to the state after.     *)
(*                                                                         *)
(* A byte is a number below Radix (256 in the code) or a status; an        *)
(* address is a pair <<high byte, low byte>>.  Only page one, the stack,   *)
(* is ever written here: everything else reads as the constant ROM.        *)
(***************************************************************************)
EXTENDS Integers, Sequences

CONSTANTS
  Radix, \* how many numbers a byte can hold
  ROM    \* what a read outside page one returns

Byte == 0 .. Radix - 1
Addr == Byte \X Byte

ASSUME RadixAssumption == Radix \in Nat /\ Radix >= 6
ASSUME ROMAssumption == ROM \in [Addr -> Byte]

Bits == {"C", "Z", "I", "D", "B", "IGN", "V", "N"}

(* What a byte of the stack holds. *)
Num(n) == [byte |-> n]
Status(S) == [status |-> S]
Cell == [byte : Byte] \cup [status : SUBSET Bits]

(* The dialect, whose table of functions the executor was allocated with.  *)
ISA == {"6502", "65C02"}

State == [isa : ISA, A : Byte, X : Byte, Y : Byte, SP : Byte, PC : Addr,
          SR : SUBSET Bits, page1 : [Byte -> Cell]]

(* uint8_t and uint16_t arithmetic; |d| is at most Radix.  *)
Up(b) == IF b = Radix - 1 THEN 0 ELSE b + 1
(* Mutant: one too many on the way round. *)
Bug_Down(b) == IF b = 0 THEN Radix ELSE b - 1
Down(b) == IF b = 0 THEN Radix - 1 ELSE b - 1
Hi(p) == p[1]
Lo(p) == p[2]
Plus(p, d) ==
  IF Lo(p) + d >= Radix THEN <<Up(Hi(p)), Lo(p) + d - Radix>>
  ELSE IF Lo(p) + d < 0 THEN <<Down(Hi(p)), Lo(p) + d + Radix>>
  ELSE <<Hi(p), Lo(p) + d>>
Inc(p) == Plus(p, 1)
Negative(n) == 2 * n >= Radix
Signed(n) == IF Negative(n) THEN n - Radix ELSE n

(* The word at an address, and the three vectors at the top of memory. *)
Word(p) == <<ROM[Inc(p)], ROM[p]>>
NmiVector == <<Radix - 1, Radix - 6>>
IrqVector == <<Radix - 1, Radix - 2>>

-----------------------------------------------------------------------------
(* The stack: a push stores at SP and then lowers it, a pop raises SP       *)
(* first, both within page one.                                             *)
Push(s, cell) == [s EXCEPT !.page1[s.SP] = cell, !.SP = Down(@)]
Popped(s) == s.page1[Up(s.SP)]
Pop(s) == [s EXCEPT !.SP = Up(@)]

PushPC(s) == Push(Push(s, Num(Hi(s.PC))), Num(Lo(s.PC)))

Fetched(s) == [s EXCEPT !.PC = Inc(@)]
Skip2(s) == Fetched(Fetched(s))
Jump(s, p) == [s EXCEPT !.PC = p]

(* registers_did_set_A, _X and _Y: flags Z and N follow the value. *)
DidSet(s, v) ==
  [s EXCEPT !.SR = (@ \ {"Z", "N"}) \cup (IF v = 0 THEN {"Z"} ELSE {})
                                    \cup (IF Negative(v) THEN {"N"} ELSE {})]

(* Mutant: the break flag stays. *)
Bug_Unmarked(S) == S \ {"IGN"}
Unmarked(S) == S \ {"B", "IGN"}

(* On the way into a handler, I is set; the 65C02 clears D too. *)
MaskIrq(s) == [s EXCEPT !.SR = (@ \cup {"I"}) \ (IF s.isa = "65C02" THEN {"D"} ELSE {})]

-----------------------------------------------------------------------------
(* Interrupts, calls and returns.  BRK reads the byte after its opcode and  *)
(* jumps through the NMI vector.                                            *)
static_NMI(s) == Jump(MaskIrq(Push(PushPC(s), Status(s.SR))), Word(NmiVector))
static_IRQ(s) == Jump(MaskIrq(Push(PushPC(s), Status(s.SR))), Word(IrqVector))
static_BRK(s) ==
  LET t == Push(PushPC(Fetched(s)), Status(s.SR \cup {"B"}))
  IN  Jump(MaskIrq(t), Word(NmiVector))

static_RTI(s) ==
  LET t == Pop(s)
      u == Pop(t)
  IN  [Pop(u) EXCEPT !.SR = Unmarked(Popped(s).status),
                     !.PC = <<Popped(u).byte, Popped(t).byte>>]

static_JSR(s) == Jump(PushPC(Skip2(s)), Word(s.PC))
static_RTS(s) == Jump(Pop(Pop(s)), <<Popped(Pop(s)).byte, Popped(s).byte>>)

(* PHA, PHX, PHY and PLA, PLX, PLY of register r. *)
static_PH(s, r) == Push(s, Num(s[r]))
static_PL(s, r) == DidSet([Pop(s) EXCEPT ![r] = Popped(s).byte], Popped(s).byte)

static_PHP(s) == Push(s, Status(s.SR \cup {"B", "IGN"}))
static_PLP(s) == [Pop(s) EXCEPT !.SR = Unmarked(Popped(s).status)]

(* Jumps.  The 6502 reads an indirect target's high byte from the start of  *)
(* the page when its low byte is at the end of it.                          *)
Pointer(s, p) == IF s.isa = "6502" /\ Lo(p) = Radix - 1 THEN <<Hi(p), 0>> ELSE Inc(p)
static_JMP(s) == Jump(s, Word(s.PC))
static_JMP_indirect(s) ==
  LET p == Word(s.PC) IN Jump(s, <<ROM[Pointer(s, p)], ROM[p]>>)
static_JMP_indexed(s) == Jump(s, Word(Plus(Word(s.PC), s.X)))

(* When a branch is taken.  The static functions then work out where to,    *)
(* for the cycle count, and leave PC at the next instruction all the same.  *)
BCC(s) == "C" \notin s.SR
BCS(s) == "C" \in s.SR
BNE(s) == "Z" \notin s.SR
BEQ(s) == "Z" \in s.SR
BPL(s) == "N" \notin s.SR
BMI(s) == "N" \in s.SR
BVC(s) == "V" \notin s.SR
BVS(s) == "V" \in s.SR
static_Branch(s) == Fetched(s)

(* Instructions of one call, the same in both modes. *)
CLC(s) == [s EXCEPT !.SR = @ \ {"C"}]
SEC(s) == [s EXCEPT !.SR = @ \cup {"C"}]
CLD(s) == [s EXCEPT !.SR = @ \ {"D"}]
SED(s) == [s EXCEPT !.SR = @ \cup {"D"}]
CLI(s) == [s EXCEPT !.SR = @ \ {"I"}]
SEI(s) == [s EXCEPT !.SR = @ \cup {"I"}]
CLV(s) == [s EXCEPT !.SR = @ \ {"V"}]
TXS(s) == [s EXCEPT !.SP = s.X]
TSX(s) == DidSet([s EXCEPT !.X = s.SP], s.SP)
=============================================================================
