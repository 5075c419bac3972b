------------------------------- MODULE Steps -------------------------------
(***************************************************************************)
(* The statements the instruction functions are made of.  A staged         *)
(* function is written as the steps of each of its calls, a static one as  *)
(* the steps of its single call, for each addressing mode of its switch:   *)
(*                                                                         *)
(*   imm            OPERAND = next byte of the program                     *)
(*   zp             ADDR8 = next byte                                      *)
(*   lo, hi         ADDR16 = next byte, then |= next byte << 8             *)
(*   z+X, z+Y       ADDR8 += index                                         *)
(*   a+X, a+Y       ADDR16_pre_index = ADDR16; ADDR16 += index             *)
(*   plo, phi       ADDR16 = byte at ADDR8++, then |= byte at ADDR8 << 8   *)
(*   phi-unshifted  the same without the shift                             *)
(*   page           ADDR16 = ADDR8                                         *)
(*   r8, r16        OPERAND = byte at ADDR8, at ADDR16                     *)
(*   cross          a cycle more if the index left the page                *)
(*   inc, dec       OPERAND++, OPERAND--                                   *)
(*   end            at_stage = end                                         *)
(***************************************************************************)
EXTENDS DataCpu, Sequences, SequencesExt

Shifts == {"ASL", "LSR", "ROL", "ROR"}

(* The functions' locals: static variables of the staged ones.  *)
Locals == [ADDR8 : Byte, ADDR16 : Addr, pre : Addr, OPERAND : Addr,
           penultimate : BOOLEAN, bcd : BOOLEAN, set : BOOLEAN]

(* A call in progress: at_stage is "next", "end", or "return" where the     *)
(* function returns end on the spot.                                        *)
Call(cpu, loc) == [cpu |-> cpu, loc |-> loc, stage |-> "next", cycles |-> 0]

(* Functions of one call, and what the accumulator mode of others does.     *)
ShiftA(kind, s) ==
  LET r == Shift(kind, s, s.A) IN StatusCarry([s EXCEPT !.A = Low(r.value)], Low(r.value), r.carry)

OneCall == {"TAX", "TAY", "TXA", "TYA", "INX", "INY", "DEX", "DEY", "NOP",
            "A++", "A--", "A=ASL", "A=LSR", "A=ROL", "A=ROR"}
AtOnce(step, s) ==
  CASE step = "TAX" -> SetX(s, s.A)
    [] step = "TAY" -> SetY(s, s.A)
    [] step = "TXA" -> SetA(s, s.X)
    [] step = "TYA" -> SetA(s, s.Y)
    [] step = "INX" -> SetX(s, Low(s.X + 1))
    [] step = "INY" -> SetY(s, Low(s.Y + 1))
    [] step = "DEX" -> SetX(s, Low(s.X + 255))
    [] step = "DEY" -> SetY(s, Low(s.Y + 255))
    [] step = "NOP" -> s
    [] step = "A++" -> SetA(s, Low(s.A + 1))
    [] step = "A--" -> SetA(s, Low(s.A + 255))
    [] step = "A=ASL" -> ShiftA("ASL", s)
    [] step = "A=LSR" -> ShiftA("LSR", s)
    [] step = "A=ROL" -> ShiftA("ROL", s)
    [] step = "A=ROR" -> ShiftA("ROR", s)

Indexed(w, i) ==
  [w EXCEPT !.loc.pre = w.loc.ADDR16, !.loc.ADDR16 = (@ + i) % 65536]
Read16(w) == [w EXCEPT !.loc.OPERAND = Load(w.cpu, w.loc.ADDR16)]
EndUnless(w, cond) == IF cond THEN w ELSE [w EXCEPT !.stage = "end"]

(* Mutant: the pointer's high byte is not looked for at the start of the    *)
(* zero page when its low byte is at the end of it.                         *)
Bug_Next8(a) == a + 1
(* ADDR8++ *)
Next8(a) == (a + 1) % 256

Do(step, w) ==
  LET s == w.cpu
      l == w.loc
      next == Load(s, s.PC)
      here == SamePage(l.pre, l.ADDR16)
  IN
  CASE step = "imm" -> [w EXCEPT !.loc.OPERAND = next, !.cpu.PC = Inc(@)]
    [] step = "zp"  -> [w EXCEPT !.loc.ADDR8 = next, !.cpu.PC = Inc(@)]
    [] step = "lo"  -> [w EXCEPT !.loc.ADDR16 = next, !.cpu.PC = Inc(@)]
    [] step = "hi"  -> [w EXCEPT !.loc.ADDR16 = Word(next, @), !.cpu.PC = Inc(@)]
    [] step = "z+X" -> [w EXCEPT !.loc.ADDR8 = Low(@ + s.X)]
    [] step = "z+Y" -> [w EXCEPT !.loc.ADDR8 = Low(@ + s.Y)]
    [] step = "a+X" -> Indexed(w, s.X)
    [] step = "a+Y" -> Indexed(w, s.Y)
    [] step = "plo" -> [w EXCEPT !.loc.ADDR16 = Load(s, l.ADDR8), !.loc.ADDR8 = Next8(@)]
    [] step = "phi" -> [w EXCEPT !.loc.ADDR16 = Word(Load(s, l.ADDR8), @)]
    [] step = "phi-unshifted" -> [w EXCEPT !.loc.ADDR16 = Or(@, Load(s, l.ADDR8))]
    [] step = "page" -> [w EXCEPT !.loc.ADDR16 = l.ADDR8]
    [] step = "r8"  -> [w EXCEPT !.loc.OPERAND = Load(s, l.ADDR8)]
    [] step = "r16" -> Read16(w)
    [] step = "cross" -> IF here THEN w ELSE [w EXCEPT !.cycles = @ + 1]
    [] step = "inc" -> [w EXCEPT !.loc.OPERAND = Low(@ + 1)]
    [] step = "dec" -> [w EXCEPT !.loc.OPERAND = Low(@ + 255)]
    [] step = "end" -> [w EXCEPT !.stage = "end"]
    \* reads that are done in this call when the index stays in the page
    [] step = "r16-if-here" -> IF here THEN EndUnless(Read16(w), FALSE) ELSE w
    \* is_BCD is looked at once; on the 65C02 it costs a call more
    [] step = "latch-D" -> [w EXCEPT !.loc.bcd = "D" \in s.SR]
    [] step = "D-cycle" -> IF l.bcd THEN [w EXCEPT !.cycles = @ + 1] ELSE w
    [] step = "end-if-binary" -> EndUnless(w, l.bcd)
    [] step = "try" -> IF here THEN EndUnless([Read16(w) EXCEPT !.loc.set = TRUE], l.bcd)
                               ELSE [w EXCEPT !.loc.set = FALSE]
    [] step = "retry" -> IF l.set THEN EndUnless(w, FALSE) ELSE EndUnless(Read16(w), l.bcd)
    \* is_penultimate, of the functions that modify memory
    [] step = "not-pen" -> [w EXCEPT !.loc.penultimate = FALSE]
    [] step = "pen" -> [w EXCEPT !.loc.penultimate = TRUE]
    [] step = "pen-if-here" -> IF here THEN [Read16(w) EXCEPT !.loc.penultimate = TRUE] ELSE w
    [] step = "pen-or-end" -> IF l.penultimate THEN EndUnless(w, FALSE)
                              ELSE [Read16(w) EXCEPT !.loc.penultimate = TRUE]
    [] step \in OneCall -> [w EXCEPT !.cpu = AtOnce(step, s), !.stage = "return"]

DoAll(steps, w) == FoldLeft(LAMBDA v, step : Do(step, v), w, steps)

-----------------------------------------------------------------------------
(* The code after the switch, for a call that ends the instruction.         *)
Ended(then, s, l, junk) ==
  LET m == Low(l.OPERAND)
      modified == Status(Store(s, l.ADDR16, m), m)
  IN
  CASE then = "LDA" -> SetA(s, m)
    [] then = "LDX" -> SetX(s, m)
    [] then = "LDY" -> SetY(s, m)
    [] then = "AND" -> SetA(s, And(s.A, m))
    [] then = "ORA" -> SetA(s, Or(s.A, m))
    [] then = "EOR" -> SetA(s, Xor(s.A, m))
    [] then = "ADC" -> AddWithCarry(s, m, l.bcd, junk)
    [] then = "SBC" -> SubWithCarry(s, m, l.bcd, junk)
    [] then = "CMP" -> Compare(s, s.A, m)
    [] then = "CPX" -> Compare(s, s.X, m)
    [] then = "CPY" -> Compare(s, s.Y, m)
    [] then = "BIT" -> BitTest(s, m)
    [] then = "STA" -> Store(s, l.ADDR16, s.A)
    [] then = "STX" -> Store(s, l.ADDR16, s.X)
    [] then = "STY" -> Store(s, l.ADDR16, s.Y)
    [] then = "STZ" -> Store(s, l.ADDR16, 0)
    [] then \in {"INC", "DEC"} -> modified
    [] then = "TRB" -> Store(s, l.ADDR16, Of(Ones(m) \ Ones(s.A)))
    [] then = "TSB" -> Store(s, l.ADDR16, Or(m, s.A))
    [] then \in Shifts -> Store(s, l.ADDR16, m)

Shifted(kind, w) ==
  LET r == Shift(kind, w.cpu, w.loc.OPERAND)
  IN  [w EXCEPT !.loc.OPERAND = r.value, !.cpu = StatusCarry(@, Low(r.value), r.carry)]

Finished(then, w, junk) ==
  IF w.stage = "end" THEN [w EXCEPT !.cpu = Ended(then, @, w.loc, junk)] ELSE w
Tested(w) == [w EXCEPT !.cpu = TestZ(@, w.loc.OPERAND)]


(* The code after the switch, in every call.  A shift that is still in its  *)
(* penultimate state when it ends shifts once more and does not store.       *)
After(then, w) ==
  CASE w.stage = "return" -> w
    [] w.stage # "return" /\ then \in Shifts ->
         IF w.loc.penultimate THEN Shifted(then, w) ELSE Finished(then, w, {})
    [] w.stage # "return" /\ then \in {"TRB", "TSB"} ->
         Finished(then, IF w.loc.penultimate THEN Tested(w) ELSE w, {})
    [] OTHER -> Finished(then, w, {})

(* The locals at the entry of a call: is_penultimate of TRB and TSB is the  *)
(* only one that is not static, and starts false.                           *)
Entry(then, loc) ==
  IF then \in {"TRB", "TSB"} THEN [loc EXCEPT !.penultimate = FALSE] ELSE loc

(* The n-th call of a staged function.  Beyond its cases, and in a mode its *)
(* switch does not name, it does nothing and asks for another cycle.        *)
StagedCall(f, mode, n, cpu, loc) ==
  LET known == mode \in DOMAIN f.calls /\ n <= Len(f.calls[mode])
      w == Call(cpu, Entry(f.then, loc))
  IN  After(f.then, IF known THEN DoAll(f.calls[mode][n], w) ELSE w)

(* The call of a static function, with what its uninitialised locals hold.  *)
(* In a mode its switch does not name, even the cycles it adds are junk.    *)
StaticCall(f, mode, cpu, junk) ==
  LET here == f.at[mode]
      known == mode \in DOMAIN f.at
      w == Call(cpu, [junk.loc EXCEPT !.bcd = "D" \in cpu.SR])
      v == IF known THEN [DoAll(here.steps, w) EXCEPT !.cycles = @ + here.cycles]
                    ELSE [w EXCEPT !.cycles = junk.cycles]
      shifted == IF f.then \in Shifts THEN Shifted(f.then, v)
                 ELSE IF f.then \in {"TRB", "TSB"} THEN Tested(v) ELSE v
  IN  IF v.stage = "return" THEN v
      ELSE Finished(f.then, [shifted EXCEPT !.stage = "end"],
                    IF f.then \in {"ADC", "SBC"} THEN junk.flags ELSE {})
=============================================================================
