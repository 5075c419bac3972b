--------------------------- MODULE MCInstrStaged ---------------------------
(* Small instances of InstrStaged for TLC.                                  *)
EXTENDS InstrStaged

(* Six numbers in a byte: the three vectors fill the last page, and two      *)
(* interrupts fill the stack.                                                *)
MCROM == [a \in Addr |-> (5 * a[1] + a[2] * (a[1] + 3) + 2) % Radix]

Registers(Isas, SPs, As, PCs, SRs) ==
  [isa : Isas, A : As, X : {Radix - 2}, Y : {0}, SP : SPs, PC : PCs, SR : SRs,
   page1 : {[b \in Byte |-> Num(0)]}]

(* Nested interrupts, calls and pushes, and branches both ways.              *)
MCStackOps == Interrupts \cup {"BRK", "RTI", "JSR", "RTS", "PHA", "PLA", "PHP", "PLP", "SEC",
                               "CLI", "BCC", "BEQ"}
MCStackStart == Registers({"6502"}, {1, 4}, {0}, {<<2, 0>>}, {{}})

(* Everything that is the same in both modes, in both dialects.              *)
MCSameOps == AllOps \ (Branches \cup {"IRQ"})
MCSameStart == Registers(ISA, {1}, {0, Radix - 1}, Addr, {{}, {"D", "V"}})

MCBranchOps == {"BCC"}
MCIrqOps == {"IRQ", "NMI", "RTI", "CLI"}
=============================================================================
