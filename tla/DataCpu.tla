------------------------------ MODULE DataCpu ------------------------------
(***************************************************************************)
(* Registers, memory and ALU as the instructions that load, store, compute *)
(* and compare use them, in full width: bytes are 0 .. 255, addresses      *)
(* 0 .. 65535.  Memory is plain RAM.                                       *)
(***************************************************************************)
EXTENDS Integers, FiniteSetsExt

CONSTANT Image(_)   \* what an address holds as long as nothing is stored there

Byte == 0 .. 255
Addr == 0 .. 65535
Flags == {"C", "Z", "I", "D", "B", "IGN", "V", "N"}

ASSUME ImageAssumption == \A a \in {0, 255, 256, 65535} : Image(a) \in Byte

(* SR is the set of its bits that are set; mem holds what was stored. *)
IsCpu(s) ==
  /\ DOMAIN s = {"A", "X", "Y", "PC", "SR", "mem"}
  /\ s.A \in Byte /\ s.X \in Byte /\ s.Y \in Byte
  /\ s.PC \in Addr /\ s.SR \subseteq Flags
  /\ DOMAIN s.mem \subseteq Addr /\ \A a \in DOMAIN s.mem : s.mem[a] \in Byte

Load(s, a) == IF a \in DOMAIN s.mem THEN s.mem[a] ELSE Image(a)
Store(s, a, b) ==
  [s EXCEPT !.mem = [x \in DOMAIN s.mem \cup {a} |-> IF x = a THEN b ELSE s.mem[x]]]

Low(w) == w % 256
High(w) == w \div 256
Word(high, low) == 256 * high + low
SamePage(v, w) == High(v) = High(w)
Inc(w) == (w + 1) % 65536

(* The bits of a byte as a set; C's bitwise operators. *)
Ones(n) == {b \in 0 .. 7 : (n \div 2^b) % 2 = 1}
Of(S) == MapThenSumSet(LAMBDA b : 2^b, S)
And(m, n) == Of(Ones(m) \cap Ones(n))
Or(m, n) == Of(Ones(m) \cup Ones(n))
Xor(m, n) == Of((Ones(m) \cup Ones(n)) \ (Ones(m) \cap Ones(n)))
Negative(n) == (n \div 128) % 2 = 1

Carry(s) == IF "C" \in s.SR THEN 1 ELSE 0

(* SR with the bits of which kept as they are but those of mask, which      *)
(* become the ones in set.                                                  *)
Masked(s, mask, set) == [s EXCEPT !.SR = (@ \ mask) \cup set]
If(bit, cond) == IF cond THEN {bit} ELSE {}

(* registers_status_with_value, and registers_did_set_A, _X and _Y with     *)
(* registers_Carry_ignore.                                                  *)
Status(s, v) == Masked(s, {"Z", "N"}, If("Z", v = 0) \cup If("N", Negative(v)))
StatusCarry(s, v, carry) == Masked(Status(s, v), {"C"}, If("C", carry))

SetA(s, v) == Status([s EXCEPT !.A = v], v)
SetX(s, v) == Status([s EXCEPT !.X = v], v)
SetY(s, v) == Status([s EXCEPT !.Y = v], v)

-----------------------------------------------------------------------------
(* What the functions do once they have their OPERAND.  The flag bits are   *)
(* collected in a local that the static functions of ADC and SBC do not     *)
(* initialise: junk is what it held.                                        *)
Finish(s, alu, v, junk) ==
  [Masked(s, {"C", "Z", "V", "N"},
          If("V", v) \cup If("Z", Low(alu) = 0) \cup If("N", Negative(alu))
                     \cup If("C", alu > 255) \cup junk)
     EXCEPT !.A = Low(alu)]

Overflow(a, m, alu) == Negative(a) = Negative(m) /\ Negative(a) # Negative(alu)

(* Decimal mode adds digit by digit. *)
Digit(n) == n % 16
Tens(n) == 16 * (Low(n) \div 16)
Joined(s, m, digit) ==
  Tens(m) + Tens(s.A) + (IF digit > 15 THEN 16 ELSE 0) + Digit(digit)

(* Mutant: the low digit is adjusted from eleven on. *)
Bug_AddWithCarry(s, m, bcd, junk) ==
  LET low == Digit(m) + Digit(s.A) + Carry(s)
      sum == IF bcd THEN Joined(s, m, IF low > 10 THEN low + 6 ELSE low)
                    ELSE (m + s.A + Carry(s)) % 65536
      alu == IF bcd /\ sum > 159 THEN sum + 96 ELSE sum
  IN  Finish(s, alu, Overflow(s.A, m, sum), junk)

AddWithCarry(s, m, bcd, junk) ==
  LET low == Digit(m) + Digit(s.A) + Carry(s)
      sum == IF bcd THEN Joined(s, m, IF low > 9 THEN low + 6 ELSE low)
                    ELSE (m + s.A + Carry(s)) % 65536
      alu == IF bcd /\ sum > 159 THEN sum + 96 ELSE sum
  IN  Finish(s, alu, Overflow(s.A, m, sum), junk)

(* OPERAND is 16 bits wide and is complemented in all of them; the          *)
(* adjustments go round below zero.                                         *)
SubWithCarry(s, operand, bcd, junk) ==
  LET m == 65535 - operand
      low == Digit(m) + Digit(s.A) + Carry(s)
      sum == IF bcd THEN Joined(s, m, IF low <= 15 THEN (low + 65530) % 65536 ELSE low)
                    ELSE (m + s.A + Carry(s)) % 65536
      alu == IF bcd /\ sum <= 255 THEN (sum + 65440) % 65536 ELSE sum
  IN  Finish(s, alu, Overflow(s.A, m, sum), junk)

(* CMP, CPX and CPY of register value r. *)
Compare(s, r, m) ==
  Masked(s, {"C", "Z", "N"},
         IF r > m THEN {"C"} ELSE IF r = m THEN {"C", "Z"} ELSE {"N"})

BitTest(s, m) ==
  Masked(s, {"V", "Z", "N"},
         If("Z", And(s.A, m) = 0) \cup If("V", 6 \in Ones(m)) \cup If("N", 7 \in Ones(m)))

TestZ(s, m) == Masked(s, {"Z"}, If("Z", And(s.A, m) = 0))

(* The value a shift leaves in a 16-bit OPERAND, and the carry it sets.     *)
Shift(kind, s, v) ==
  CASE kind = "ASL" -> [value |-> (2 * v) % 65536, carry |-> (2 * v) % 65536 > 255]
    [] kind = "ROL" -> LET w == (2 * v + Carry(s)) % 65536
                       IN  [value |-> w, carry |-> w > 255]
    [] kind = "LSR" -> [value |-> v \div 2, carry |-> v % 2 = 1]
    [] kind = "ROR" -> [value |-> Low(v \div 2 + 128 * Carry(s)), carry |-> v % 2 = 1]
=============================================================================
