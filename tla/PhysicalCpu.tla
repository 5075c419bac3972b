---------------------------- MODULE PhysicalCpu ----------------------------
(***************************************************************************)
(* What the documentation of the processor says an instruction does and    *)
(* how many cycles it takes, stated with no regard to how the functions of *)
(* isa_6502/ go about it.  PC points behind the opcode.                    *)
(***************************************************************************)
EXTENDS DataCpu

-----------------------------------------------------------------------------
(* Addressing. *)
Byte1(s) == Load(s, s.PC)
Word1(s) == Word(Load(s, Inc(s.PC)), Byte1(s))
Pointer(s, zp) == Word(Load(s, (zp + 1) % 256), Load(s, zp))

EffectiveAddress(mode, s) ==
  CASE mode = "zeropage" -> Byte1(s)
    [] mode = "zeropage_x_indexed" -> (Byte1(s) + s.X) % 256
    [] mode = "zeropage_y_indexed" -> (Byte1(s) + s.Y) % 256
    [] mode = "absolute" -> Word1(s)
    [] mode = "absolute_x_indexed" -> (Word1(s) + s.X) % 65536
    [] mode = "absolute_y_indexed" -> (Word1(s) + s.Y) % 65536
    [] mode = "x_indexed_indirect" -> Pointer(s, (Byte1(s) + s.X) % 256)
    [] mode = "indirect_y_indexed" -> (Pointer(s, Byte1(s)) + s.Y) % 65536
    [] mode = "zeropage_indirect" -> Pointer(s, Byte1(s))

Crosses(mode, s) ==
  CASE mode = "absolute_x_indexed" -> (Word1(s) % 256) + s.X > 255
    [] mode = "absolute_y_indexed" -> (Word1(s) % 256) + s.Y > 255
    [] mode = "indirect_y_indexed" -> (Pointer(s, Byte1(s)) % 256) + s.Y > 255
    [] OTHER -> FALSE

OperandOf(mode, s) ==
  CASE mode = "immediate" -> Byte1(s)
    [] mode = "accumulator" -> s.A
    [] OTHER -> Load(s, EffectiveAddress(mode, s))

Advanced(mode, s) ==
  [s EXCEPT !.PC = (@ + (CASE mode \in {"implied", "accumulator"} -> 0
                           [] mode \in {"absolute", "absolute_x_indexed", "absolute_y_indexed"} -> 2
                           [] OTHER -> 1)) % 65536]

-----------------------------------------------------------------------------
(* Arithmetic, in numbers. *)
Signed8(n) == IF n > 127 THEN n - 256 ELSE n
Bcd(n) == 10 * (n \div 16) + (n % 16)                  \* two decimal digits
ToBcd(n) == 16 * (n \div 10) + (n % 10)
IsBcd(n) == n \div 16 <= 9 /\ n % 16 <= 9

NZ(v) == If("Z", v = 0) \cup If("N", v > 127)
Sum(s, m) ==
  LET sum == s.A + m + Carry(s)
      signed == Signed8(s.A) + Signed8(m) + Carry(s)
      decimal == Bcd(s.A) + Bcd(m) + Carry(s)
  IN  IF "D" \in s.SR
      THEN Masked([s EXCEPT !.A = ToBcd(decimal % 100)], {"C"}, If("C", decimal > 99))
      ELSE Masked([s EXCEPT !.A = sum % 256], {"C", "Z", "V", "N"},
                  NZ(sum % 256) \cup If("C", sum > 255) \cup If("V", signed \notin -128 .. 127))
Difference(s, m) ==
  LET diff == s.A - m - (1 - Carry(s))
      signed == Signed8(s.A) - Signed8(m) - (1 - Carry(s))
      decimal == Bcd(s.A) - Bcd(m) - (1 - Carry(s))
  IN  IF "D" \in s.SR
      THEN Masked([s EXCEPT !.A = ToBcd((decimal + 100) % 100)], {"C"}, If("C", decimal >= 0))
      ELSE Masked([s EXCEPT !.A = (diff + 256) % 256], {"C", "Z", "V", "N"},
                  NZ((diff + 256) % 256) \cup If("C", diff >= 0)
                    \cup If("V", signed \notin -128 .. 127))
Compared(s, r, m) == Masked(s, {"C", "Z", "N"}, NZ((r + 256 - m) % 256) \cup If("C", r >= m))

(* A shift of v: the result, and the bit that falls out. *)
ShiftResult(op, s, v) ==
  CASE op = "ASL" -> [out |-> v \div 128, value |-> (2 * v) % 256]
    [] op = "ROL" -> [out |-> v \div 128, value |-> ((2 * v) % 256) + Carry(s)]
    [] op = "LSR" -> [out |-> v % 2, value |-> v \div 2]
    [] op = "ROR" -> [out |-> v % 2, value |-> (v \div 2) + (128 * Carry(s))]

-----------------------------------------------------------------------------
(* What op does in mode, to the state s in which PC is behind the opcode.   *)
Stores == {"STA", "STX", "STY", "STZ"}
Modifies == {"ASL", "LSR", "ROL", "ROR", "INC", "DEC", "TRB", "TSB"}

Modified(op, mode, s) ==
  LET v == OperandOf(mode, s)
      shift == ShiftResult(op, s, v)
      value == CASE op \in {"ASL", "LSR", "ROL", "ROR"} -> shift.value
                 [] op = "INC" -> (v + 1) % 256
                 [] op = "DEC" -> (v + 255) % 256
                 [] op = "TRB" -> Of(Ones(v) \ Ones(s.A))
                 [] op = "TSB" -> Of(Ones(v) \cup Ones(s.A))
      flagged == CASE op \in {"TRB", "TSB"} ->
                        Masked(s, {"Z"}, If("Z", Ones(v) \cap Ones(s.A) = {}))
                   [] op \in {"INC", "DEC"} -> Masked(s, {"Z", "N"}, NZ(value))
                   [] OTHER -> Masked(s, {"C", "Z", "N"}, NZ(value) \cup If("C", shift.out = 1))
  IN  IF mode = "accumulator" THEN [flagged EXCEPT !.A = value]
      ELSE Store(flagged, EffectiveAddress(mode, s), value)

Moved(s, register, value) ==
  Masked([s EXCEPT ![register] = value], {"Z", "N"}, NZ(value))

Effect(op, mode, s) ==
  LET m == OperandOf(mode, s) IN
  CASE op = "LDA" -> Moved(s, "A", m)
    [] op = "LDX" -> Moved(s, "X", m)
    [] op = "LDY" -> Moved(s, "Y", m)
    [] op = "TAX" -> Moved(s, "X", s.A)
    [] op = "TAY" -> Moved(s, "Y", s.A)
    [] op = "TXA" -> Moved(s, "A", s.X)
    [] op = "TYA" -> Moved(s, "A", s.Y)
    [] op = "INX" -> Moved(s, "X", (s.X + 1) % 256)
    [] op = "INY" -> Moved(s, "Y", (s.Y + 1) % 256)
    [] op = "DEX" -> Moved(s, "X", (s.X + 255) % 256)
    [] op = "DEY" -> Moved(s, "Y", (s.Y + 255) % 256)
    [] op = "NOP" -> s
    [] op = "AND" -> Moved(s, "A", Of(Ones(s.A) \cap Ones(m)))
    [] op = "ORA" -> Moved(s, "A", Of(Ones(s.A) \cup Ones(m)))
    [] op = "EOR" -> Moved(s, "A", Of((Ones(s.A) \ Ones(m)) \cup (Ones(m) \ Ones(s.A))))
    [] op = "ADC" -> Sum(s, m)
    [] op = "SBC" -> Difference(s, m)
    [] op = "CMP" -> Compared(s, s.A, m)
    [] op = "CPX" -> Compared(s, s.X, m)
    [] op = "CPY" -> Compared(s, s.Y, m)
    [] op = "BIT" -> LET z == If("Z", Ones(m) \cap Ones(s.A) = {})
                     IN  IF mode = "immediate" THEN Masked(s, {"Z"}, z)
                         ELSE Masked(s, {"Z", "V", "N"}, z \cup If("N", 7 \in Ones(m))
                                                           \cup If("V", 6 \in Ones(m)))
    [] op = "STA" -> Store(s, EffectiveAddress(mode, s), s.A)
    [] op = "STX" -> Store(s, EffectiveAddress(mode, s), s.X)
    [] op = "STY" -> Store(s, EffectiveAddress(mode, s), s.Y)
    [] op = "STZ" -> Store(s, EffectiveAddress(mode, s), 0)
    [] op \in Modifies -> Modified(op, mode, s)

Execute(op, mode, s) == Advanced(mode, Effect(op, mode, s))

(* Flags the documentation leaves undefined, in decimal mode. *)
Undefined(op, s) == IF op \in {"ADC", "SBC"} /\ "D" \in s.SR THEN {"Z", "V", "N"} ELSE {}
(* Decimal mode is defined for decimal digits only. *)
Defined(op, mode, s) ==
  op \in {"ADC", "SBC"} /\ "D" \in s.SR => IsBcd(s.A) /\ IsBcd(OperandOf(mode, s))

-----------------------------------------------------------------------------
(* Cycles, the fetch of the opcode included. *)
Base(mode) ==
  CASE mode \in {"implied", "accumulator", "immediate"} -> 2
    [] mode = "zeropage" -> 3
    [] mode \in {"zeropage_x_indexed", "zeropage_y_indexed"} -> 4
    [] mode \in {"absolute", "absolute_x_indexed", "absolute_y_indexed"} -> 4
    [] mode \in {"zeropage_indirect", "indirect_y_indexed"} -> 5
    [] mode = "x_indexed_indirect" -> 6

Cycles(isa, op, mode, s) ==
  LET crossed == IF Crosses(mode, s) THEN 1 ELSE 0
      indexed == mode \in {"absolute_x_indexed", "absolute_y_indexed", "indirect_y_indexed"}
  IN
  CASE op \in Modifies ->
         IF mode = "accumulator" THEN 2
         ELSE Base(mode) + 2 +
                (IF mode # "absolute_x_indexed" THEN 0
                 ELSE IF isa = "65C02" /\ op \notin {"INC", "DEC"} THEN crossed ELSE 1)
    [] op \in Stores -> Base(mode) + (IF indexed THEN 1 ELSE 0)
    [] OTHER -> Base(mode) + crossed
                  + (IF isa = "65C02" /\ op \in {"ADC", "SBC"} /\ "D" \in s.SR THEN 1 ELSE 0)
=============================================================================
