---------------------------- MODULE MCDataInstr ----------------------------
(* Instances of DataInstr for TLC. *)
EXTENDS DataInstr

(* Neighbours differ, in a page and across pages. *)
MCImage(a) == (37 * (a % 256) + 91 * (a \div 256) + 5) % 256

State(a, x, y, pc, sr, operand) ==
  [A |-> a, X |-> x, Y |-> y, PC |-> pc, SR |-> sr,
   mem |-> [i \in {pc, pc + 1} |-> operand[i - pc + 1]]]

(* Without an address: values at the edges of sign, carry and decimal digits. *)
Edges == {0, 1, 9, 16, 69, 127, 128, 153, 255}
Values ==
  {State(a, a, a, 512, sr, <<m, 0>>) :
     a \in Edges, m \in Edges, sr \in {{"I"}, {"I", "C"}, {"D"}, {"C", "D"}}}

(* With one: indexes that stay in the page, leave it, or go round the zero  *)
(* page and the end of memory; operands across a page; pointers at the end  *)
(* of the zero page, and one whose low byte Y just leaves in its page while *)
(* both bytes or'ed together would leave it.                                *)
Addresses ==
  {State(147, x, y, pc, sr, operand) :
     x \in {2, 240}, y \in {3, 250}, pc \in {512, 767}, sr \in {{"I"}, {"C", "D", "N"}},
     operand \in {<<0, 3>>, <<16, 3>>, <<253, 255>>, <<255, 2>>}}

MCStart(mode) ==
  IF mode \in {"immediate", "implied", "accumulator", "undefined"} THEN Values ELSE Addresses

MCLeftOver ==
  {[ADDR8 |-> 77, ADDR16 |-> 1536, pre |-> 1536, OPERAND |-> 65, penultimate |-> FALSE,
    bcd |-> FALSE, set |-> FALSE],
   [ADDR8 |-> 254, ADDR16 |-> 1791, pre |-> 256, OPERAND |-> 147, penultimate |-> TRUE,
    bcd |-> TRUE, set |-> TRUE]}
MCJunk == {[loc |-> l, flags |-> f, cycles |-> 3] : l \in MCLeftOver, f \in {{}, {"V", "B"}}}
MCOpcodes == Byte
=============================================================================
