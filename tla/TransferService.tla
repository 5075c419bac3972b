-------------------------- MODULE TransferService --------------------------
(***************************************************************************)
(* What executor_set_dma_copyin and executor_set_dma_copyout promise, with *)
(* neither state_lock nor the read, write and stall cycles of a transfer   *)
(* in sight: one request at a time, carried out in the middle of an        *)
(* instruction before its next cycle, its bytes moved one after the other  *)
(* until the range is done or the callback refuses; and the instruction    *)
(* then runs on, or is dropped before any cycle but its fetch.  Every      *)
(* range is covered, the empty one and those that reach the top included.  *)
(* ExecutorStaged implements it.                                           *)
(***************************************************************************)
EXTENDS Integers, Sequences

CONSTANTS
  AddrTop,       \* the highest address
  DmaRanges,     \* the ranges callers ask for
  InstrCycles    \* the cycle counts of the instruction set, Endless among them

VARIABLES
  instr,       \* the instruction in progress: cycles run and cycles needed
  requests,    \* the transfer asked for and not over, none or one
  busy,        \* it is under way
  moved        \* <<destination, byte>> for the bytes of the last transfer

service == <<instr, requests, busy, moved>>

NoInstr == [ran |-> 0, needed |-> 0]

(* What an instruction needs that never ends. *)
Endless == 0

(* How many bytes a transfer of a range moves.  An empty range moves one; a *)
(* range that reaches past the byte before the top stops there, the top     *)
(* itself not moved; one that starts at the top goes round all addresses.   *)
Span(range) ==
  CASE range.addr_lo = AddrTop -> AddrTop + 1
    [] range.addr_lo # AddrTop /\ range.addr_len = 0 -> 1
    [] range.addr_lo # AddrTop /\ range.addr_len # 0 ->
         IF range.addr_lo + range.addr_len <= AddrTop
           THEN range.addr_len
           ELSE AddrTop - range.addr_lo

(* The n-th address after the first of a range, in 16 bits. *)
AddrAt(range, n) ==
  IF range.addr_lo + n <= AddrTop THEN range.addr_lo + n ELSE range.addr_lo + n - AddrTop - 1

(* What the n-th byte is, counted from 0, and where it goes. *)
MoveOf(request, n) ==
  IF request.copyout
    THEN <<n, [origin |-> "memory", at |-> AddrAt(request.range, n)]>>
    ELSE <<AddrAt(request.range, n), [origin |-> "provider", at |-> n]>>

Init ==
  /\ instr = NoInstr
  /\ requests = {} /\ busy = FALSE
  /\ moved = <<>>

Ask(range, copyout) ==
  /\ requests = {}
  /\ requests' = {[range |-> range, copyout |-> copyout]}
  /\ UNCHANGED <<instr, busy, moved>>

(* A reset or a new launch forgets a request that has not begun. *)
Withdraw ==
  /\ ~ busy
  /\ requests' = {}
  /\ UNCHANGED <<instr, busy, moved>>

Fetch ==
  /\ instr = NoInstr
  /\ \E needed \in InstrCycles : instr' = [ran |-> 1, needed |-> needed]
  /\ UNCHANGED <<requests, busy, moved>>

(* The next cycle comes only when no transfer has been asked for. *)
Cycle ==
  /\ requests = {}
  /\ instr # NoInstr
  /\ \/ instr.needed = Endless /\ instr' = [instr EXCEPT !.ran = 2]
     \/ instr.ran < instr.needed /\ instr' = [instr EXCEPT !.ran = @ + 1]
  /\ UNCHANGED <<requests, busy, moved>>

Complete ==
  /\ instr # NoInstr /\ ~ busy
  /\ instr.ran \in {1, instr.needed}
  /\ instr' = NoInstr
  /\ UNCHANGED <<requests, busy, moved>>

Start ==
  /\ instr # NoInstr
  /\ requests # {} /\ ~ busy
  /\ busy' = TRUE /\ moved' = <<>>
  /\ UNCHANGED <<instr, requests>>

(* One byte.  After the last one, or when the consumer refuses this one,   *)
(* the request is over.                                                    *)
Move ==
  /\ busy
  /\ \E request \in requests :
       /\ Len(moved) < Span(request.range)
       /\ moved' = Append(moved, MoveOf(request, Len(moved)))
       /\ \/ /\ Len(moved') < Span(request.range)
             /\ UNCHANGED <<requests, busy>>
          \/ /\ Len(moved') = Span(request.range) \/ request.copyout
             /\ requests' = {} /\ busy' = FALSE
  /\ UNCHANGED instr

(* The provider has no byte to give. *)
Refuse ==
  /\ busy
  /\ \E request \in requests : ~ request.copyout
  /\ requests' = {} /\ busy' = FALSE
  /\ UNCHANGED <<instr, moved>>

Next ==
  \/ \E range \in DmaRanges, copyout \in BOOLEAN : Ask(range, copyout)
  \/ Withdraw
  \/ Fetch \/ Cycle \/ Complete
  \/ Start \/ Move \/ Refuse

Spec == Init /\ [][Next]_service
=============================================================================
