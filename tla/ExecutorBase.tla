---------------------------- MODULE ExecutorBase ----------------------------
(***************************************************************************)
(* What every launch loop of executor.c shares: the executor_t structure   *)
(* and its state_lock, the public calls other threads make on it, and one  *)
(* cycle of a DMA transfer.  ExecutorStaged and ExecutorStatic add the     *)
(* loops themselves.                                                       *)
(*                                                                         *)
(* Abstractions: total_cycles is kept modulo 2 (only its parity is ever    *)
(* tested); the byte a memory cell or a provider supplies is named by its  *)
(* origin (the address, or the byte_index); of the status register only    *)
(* the interrupt-disable bit I is kept; PC is reduced to the question the  *)
(* loop asks of it, whether it is still below PC_end, which is answered    *)
(* nondeterministically.                                                   *)
(***************************************************************************)
EXTENDS Integers, Sequences

CONSTANTS
  Clients,     \* threads other than the one that launches, e.g. the TUI thread
  Cpu,         \* the thread inside executor_launch*
  Free,        \* the value of lock when nobody holds state_lock
  AddrTop,     \* the highest address, $FFFF in the code
  DmaRanges,   \* the memory_addr_range_t values clients ask to transfer
  CallBound    \* BOUND: calls made by all clients together

ASSUME ThreadsAssumption ==
  /\ Cpu \notin Clients
  /\ Free \notin Clients \cup {Cpu}
ASSUME AddrTopAssumption == AddrTop \in Nat \ {0}
Addr == 0 .. AddrTop
ASSUME DmaRangesAssumption == DmaRanges \subseteq [addr_lo : Addr, addr_len : Addr]
ASSUME CallBoundAssumption == CallBound \in Nat

VARIABLES
  (* executor_t, registers_t and membus_t, shared between threads *)
  flags,           \* the set of executor_flags_* bits that are set
  lock,            \* who holds state_lock
  dma_range,       \* the range still to transfer: addr_lo advances
  dma_consumer,    \* dma_consumer # NULL; dma_provider is the complement
  intr_disable,    \* bit I of SR
  cache_disable,   \* the memory bus's cache_disable

  (* locals of the launch function *)
  pc,              \* where the launching thread is
  parity,          \* total_cycles % 2
  cycle,           \* instr_context.cycle_count
  cycles_needed,   \* cycle_count at which the opcode's function returns end, or Endless
  next_stage, saved_stage,
  is_in_dma, is_dma_started, is_dma_copyout,
  saved_cache,     \* saved_membus_cache_state
  dma_addr_hi, dma_byte_index, dma_next_byte,

  (* history *)
  moved,           \* <<destination, byte>> for the bytes of the last transfer
  dma_asked,       \* the range of that transfer as it was when it began
  dma_refused,     \* a provider or consumer returned false in it
  owed,            \* interrupts raised and neither served nor legitimately dropped
  calls            \* calls the clients have made

cpuVars == <<pc, cycle, cycles_needed>>
signalVars == <<flags, owed>>
requestVars == <<dma_range, dma_consumer>>
transferVars == <<is_in_dma, is_dma_started, is_dma_copyout, saved_cache, dma_addr_hi,
                  dma_byte_index, dma_next_byte, moved, dma_asked, dma_refused>>
vars == <<flags, lock, dma_range, dma_consumer, intr_disable, cache_disable,
          pc, parity, cycle, cycles_needed, next_stage, saved_stage,
          is_in_dma, is_dma_started, is_dma_copyout, saved_cache,
          dma_addr_hi, dma_byte_index, dma_next_byte,
          moved, dma_asked, dma_refused, owed, calls>>

Flags == {"nmi", "irq", "dma", "stop"}
Interrupts == {"nmi", "irq"}
Stages == {"next_cycle", "exec_dma", "end"}

(* cycles_needed of an opcode whose staged function has no path to end for  *)
(* its mode: LDX zp,Y and abs,Y, STA (zp,X) and (zp),Y, the 65C02's ADC and *)
(* SBC (zp), the modes of DataInstr!Unhandled.                              *)
Endless == 0

(* cycle_count after one more call.  All calls of an endless opcode after   *)
(* its first are alike to the loop, and are not told apart.                 *)
NextCycle == IF cycles_needed = Endless THEN 2 ELSE cycle + 1

(* Fields of executor_t and locals that malloc or the stack leave unset. *)
Unset == [origin |-> "unset", at |-> 0]
Byte == [origin : {"unset", "memory", "provider"}, at : Addr]
(* Mutant: the increment widens instead of wrapping. *)
Bug_NextAddr(a) == a + 1

(* The 16-bit increment: $FFFF is followed by $0000. *)
NextAddr(a) == IF a = AddrTop THEN 0 ELSE a + 1

(* Mutant: the last address of the range instead of the one after it. *)
Bug_get_end(range) == IF range.addr_lo + range.addr_len <= AddrTop
                        THEN range.addr_lo + range.addr_len - 1
                        ELSE AddrTop

(* memory_addr_range_get_end: one past the last address, clipped to $FFFF. *)
get_end(range) == IF range.addr_lo + range.addr_len <= AddrTop
                    THEN range.addr_lo + range.addr_len
                    ELSE AddrTop

BaseInit ==
  /\ flags = {} /\ lock = Free
  /\ dma_range \in DmaRanges /\ dma_consumer \in BOOLEAN  \* malloc'ed, never cleared
  /\ intr_disable = FALSE /\ cache_disable \in BOOLEAN
  /\ pc = "idle" /\ parity = 0 /\ cycle = 0 /\ cycles_needed = 0
  /\ next_stage = "end" /\ saved_stage = "end"
  /\ is_in_dma = FALSE /\ is_dma_started = FALSE /\ is_dma_copyout = FALSE
  /\ saved_cache = FALSE
  /\ dma_addr_hi = 0 /\ dma_byte_index = 0 /\ dma_next_byte = Unset
  /\ moved = <<>> /\ dma_asked = [addr_lo |-> 0, addr_len |-> 0] /\ dma_refused = FALSE
  /\ owed = {} /\ calls = 0

-----------------------------------------------------------------------------
(* The public calls.  Each takes state_lock, changes the executor and       *)
(* releases it; the thread blocks in pthread_mutex_lock until it is free.   *)

ClientLock(c) ==
  /\ calls < CallBound
  /\ lock = Free
  /\ lock' = c
  /\ calls' = calls + 1
  /\ UNCHANGED <<signalVars, requestVars, intr_disable, cache_disable, cpuVars, parity,
                 next_stage, saved_stage, transferVars>>

ClientRest == UNCHANGED <<cache_disable, cpuVars, parity, next_stage, saved_stage,
                          transferVars, calls>>

executor_set_irq(c) ==
  /\ lock = c /\ lock' = Free
  /\ flags' = flags \cup {"irq"} /\ owed' = owed \cup {"irq"}
  /\ UNCHANGED <<requestVars, intr_disable>> /\ ClientRest

executor_set_nmi(c) ==
  /\ lock = c /\ lock' = Free
  /\ flags' = flags \cup {"nmi"} /\ owed' = owed \cup {"nmi"}
  /\ UNCHANGED <<requestVars, intr_disable>> /\ ClientRest

executor_set_exec_stop(c) ==
  /\ lock = c /\ lock' = Free
  /\ flags' = flags \cup {"stop"}
  /\ UNCHANGED <<owed, requestVars, intr_disable>> /\ ClientRest

(* Mutant: a request replaces the one that is pending or running. *)
Bug_set_dma(c, range, copyout) ==
  /\ lock = c /\ lock' = Free
  /\ flags' = flags \cup {"dma"}
  /\ dma_range' = range
  /\ dma_consumer' = copyout
  /\ UNCHANGED <<owed, intr_disable>> /\ ClientRest

(* executor_set_dma_copyin and executor_set_dma_copyout: a request made while *)
(* another is pending or running is dropped without telling the caller.       *)
set_dma(c, range, copyout) ==
  /\ lock = c /\ lock' = Free
  /\ IF "dma" \in flags
       THEN UNCHANGED <<flags, requestVars>>
       ELSE /\ flags' = flags \cup {"dma"}
            /\ dma_range' = range
            /\ dma_consumer' = copyout
  /\ UNCHANGED <<owed, intr_disable>> /\ ClientRest

executor_set_dma_copyin(c)  == \E range \in DmaRanges : set_dma(c, range, FALSE)
executor_set_dma_copyout(c) == \E range \in DmaRanges : set_dma(c, range, TRUE)

executor_hard_reset(c) ==
  /\ lock = c /\ lock' = Free
  /\ intr_disable' = FALSE               \* registers_reset: SR = $00
  /\ flags' = {} /\ owed' = {}
  /\ UNCHANGED requestVars /\ ClientRest

ClientCall(c) ==
  \/ executor_set_irq(c) \/ executor_set_nmi(c) \/ executor_set_exec_stop(c)
  \/ executor_set_dma_copyin(c) \/ executor_set_dma_copyout(c)
  \/ executor_hard_reset(c)

-----------------------------------------------------------------------------
(* One cycle of a transfer.                                                 *)

(* Mutant: the stage the instruction was in is not saved. *)
Bug_BeginTransfer_Stage ==
  /\ is_in_dma' = TRUE
  /\ is_dma_started' = (parity = 0)
  /\ is_dma_copyout' = dma_consumer
  /\ dma_byte_index' = 0
  /\ dma_addr_hi' = get_end(dma_range)
  /\ saved_stage' = "end"
  /\ next_stage' = "exec_dma"
  /\ saved_cache' = cache_disable
  /\ cache_disable' = TRUE
  /\ moved' = <<>> /\ dma_asked' = dma_range /\ dma_refused' = FALSE
  /\ UNCHANGED <<signalVars, requestVars, lock, intr_disable, parity, dma_next_byte, calls>>

(* Mutant: the transfer starts on an odd cycle too. *)
Bug_BeginTransfer_Parity ==
  /\ is_in_dma' = TRUE
  /\ is_dma_started' = TRUE
  /\ is_dma_copyout' = dma_consumer
  /\ dma_byte_index' = 0
  /\ dma_addr_hi' = get_end(dma_range)
  /\ saved_stage' = next_stage
  /\ next_stage' = "exec_dma"
  /\ saved_cache' = cache_disable
  /\ cache_disable' = TRUE
  /\ moved' = <<>> /\ dma_asked' = dma_range /\ dma_refused' = FALSE
  /\ UNCHANGED <<signalVars, requestVars, lock, intr_disable, parity, dma_next_byte, calls>>

(* The dma flag is seen: note the request and take the bus. *)
BeginTransfer ==
  /\ is_in_dma' = TRUE
  /\ is_dma_started' = (parity = 0)
  /\ is_dma_copyout' = dma_consumer
  /\ dma_byte_index' = 0
  /\ dma_addr_hi' = get_end(dma_range)
  /\ saved_stage' = next_stage
  /\ next_stage' = "exec_dma"
  /\ saved_cache' = cache_disable
  /\ cache_disable' = TRUE
  /\ moved' = <<>> /\ dma_asked' = dma_range /\ dma_refused' = FALSE
  /\ UNCHANGED <<signalVars, requestVars, lock, intr_disable, parity, dma_next_byte, calls>>

(* Mutant: the bus's caches stay off. *)
Bug_EndTransfer_Cache ==
  /\ is_dma_started' = FALSE
  /\ is_in_dma' = FALSE
  /\ next_stage' = saved_stage
  /\ flags' = flags \ {"dma"}
  /\ UNCHANGED cache_disable

(* Mutant: the request stays pending. *)
Bug_EndTransfer_Flag ==
  /\ is_dma_started' = FALSE
  /\ is_in_dma' = FALSE
  /\ next_stage' = saved_stage
  /\ cache_disable' = saved_cache
  /\ UNCHANGED flags

(* The transfer is over: give the bus back. *)
EndTransfer ==
  /\ is_dma_started' = FALSE
  /\ is_in_dma' = FALSE
  /\ next_stage' = saved_stage
  /\ flags' = flags \ {"dma"}
  /\ cache_disable' = saved_cache

ContinueTransfer ==
  UNCHANGED <<is_dma_started, is_in_dma, next_stage, flags, cache_disable>>

TransferRest == UNCHANGED <<owed, lock, dma_consumer, intr_disable, saved_stage, saved_cache,
                            is_dma_copyout, dma_addr_hi, dma_asked, calls>>

(* A transfer that began on an odd cycle waits for an even one. *)
DmaStall ==
  /\ ~ is_dma_started
  /\ parity' = 1 - parity
  /\ is_dma_started' = (parity' = 0)
  /\ UNCHANGED <<is_in_dma, next_stage, flags, cache_disable, dma_range, dma_byte_index,
                 dma_next_byte, moved, dma_refused>>
  /\ TransferRest

(* Even cycle: fetch a byte from memory, or ask the provider for one. *)
DmaRead ==
  /\ is_dma_started /\ parity = 0
  /\ parity' = 1
  /\ IF is_dma_copyout
       THEN /\ dma_next_byte' = [origin |-> "memory", at |-> dma_range.addr_lo]
            /\ dma_range' = [dma_range EXCEPT !.addr_lo = NextAddr(@)]
            /\ ContinueTransfer
            /\ UNCHANGED <<dma_byte_index, dma_refused>>
       ELSE /\ dma_byte_index' = NextAddr(dma_byte_index)
            /\ \E accepted \in BOOLEAN :
                 /\ dma_refused' = ~ accepted
                 /\ IF accepted THEN ContinueTransfer ELSE EndTransfer
            /\ dma_next_byte' = [origin |-> "provider", at |-> dma_byte_index]
            /\ UNCHANGED dma_range
  /\ UNCHANGED moved
  /\ TransferRest

(* BOUND: as many moves are recorded as there are addresses. *)
Recorded(move) == IF Len(moved) <= AddrTop THEN Append(moved, move) ELSE moved

(* Odd cycle: hand the byte to the consumer, or store it; the range is     *)
(* compared with its end only here.                                        *)
DmaWrite ==
  /\ is_dma_started /\ parity = 1
  /\ parity' = 0
  /\ \E accepted \in (IF is_dma_copyout THEN BOOLEAN ELSE {TRUE}) :
       /\ IF is_dma_copyout
            THEN /\ dma_byte_index' = NextAddr(dma_byte_index)
                 /\ moved' = Recorded(<<dma_byte_index, dma_next_byte>>)
                 /\ UNCHANGED dma_range
            ELSE /\ moved' = Recorded(<<dma_range.addr_lo, dma_next_byte>>)
                 /\ dma_range' = [dma_range EXCEPT !.addr_lo = NextAddr(@)]
                 /\ UNCHANGED dma_byte_index
       /\ dma_refused' = ~ accepted
       /\ IF ~ accepted \/ dma_range'.addr_lo >= dma_addr_hi
            THEN EndTransfer
            ELSE ContinueTransfer
  /\ UNCHANGED dma_next_byte
  /\ TransferRest

DmaCycle == DmaStall \/ DmaRead \/ DmaWrite
=============================================================================
