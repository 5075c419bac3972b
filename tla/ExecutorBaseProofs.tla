------------------------- MODULE ExecutorBaseProofs -------------------------
(* Facts about the parts every launch loop shares: 16-bit addresses, what a *)
(* client's call leaves alone, and the cycles of a transfer.  The proofs    *)
(* about the loops cite them.                                               *)
EXTENDS ExecutorBase, TLAPS

(* The 16-bit increment stays in the address space, and is the ordinary     *)
(* increment below its top.                                                 *)
LEMMA NextAddrFacts ==
  ASSUME NEW a \in Addr
  PROVE  /\ NextAddr(a) \in Addr
         /\ a < AddrTop => NextAddr(a) = a + 1
  BY AddrTopAssumption DEF NextAddr, Addr

(* memory_addr_range_get_end yields an address: the one after the range     *)
(* when there is one.                                                       *)
LEMMA GetEndFacts ==
  ASSUME NEW range \in [addr_lo : Addr, addr_len : Addr]
  PROVE  /\ get_end(range) \in Addr
         /\ range.addr_lo + range.addr_len <= AddrTop
              => get_end(range) = range.addr_lo + range.addr_len
  BY AddrTopAssumption DEF get_end, Addr

(* The threads and the value Free are told apart.                           *)
LEMMA ThreadFacts ==
  Free # Cpu /\ \A c \in Clients : c # Cpu /\ c # Free
  BY ThreadsAssumption

(* A client's step leaves the launching thread's locals and the bus alone,  *)
(* and is possible only while that thread does not hold state_lock.         *)
LEMMA ClientFrame ==
  ASSUME NEW c \in Clients, ClientLock(c) \/ ClientCall(c)
  PROVE  /\ lock # Cpu /\ lock' # Cpu
         /\ UNCHANGED <<cache_disable, pc, cycle, cycles_needed, parity, next_stage,
                        saved_stage, is_in_dma, is_dma_started, is_dma_copyout, saved_cache,
                        dma_addr_hi, dma_byte_index, dma_next_byte, moved, dma_asked,
                        dma_refused>>
  BY ThreadFacts
  DEF ClientLock, ClientCall, executor_set_irq, executor_set_nmi, executor_set_exec_stop,
      executor_set_dma_copyin, executor_set_dma_copyout, set_dma, executor_hard_reset,
      ClientRest, cpuVars, transferVars

(* What a call does to the executor: a signal is raised with its flag, a    *)
(* request pending or running is left as it is, and a reset drops all.      *)
LEMMA ClientEffect ==
  ASSUME NEW c \in Clients, ClientLock(c) \/ ClientCall(c), flags \subseteq Flags,
         owed \subseteq Interrupts, intr_disable \in BOOLEAN,
         dma_range \in [addr_lo : Addr, addr_len : Addr], dma_consumer \in BOOLEAN
  PROVE  /\ flags' \subseteq Flags /\ owed' \subseteq Interrupts
         /\ intr_disable' \in BOOLEAN
         /\ dma_range' \in [addr_lo : Addr, addr_len : Addr] /\ dma_consumer' \in BOOLEAN
         /\ lock' \in Clients \cup {Free}
         /\ owed = flags \cap Interrupts => owed' = flags' \cap Interrupts
         /\ "dma" \in flags => UNCHANGED <<dma_range, dma_consumer>>
         /\ calls \in Nat => calls' \in Nat
  <1> USE DEF ClientRest, requestVars, signalVars
  <1>1. {"nmi", "irq", "dma", "stop"} \subseteq Flags /\ {"nmi", "irq"} \subseteq Interrupts
        /\ "dma" \notin Interrupts /\ "stop" \notin Interrupts
    BY DEF Flags, Interrupts
  <1>2. CASE ClientLock(c)
    BY <1>2 DEF ClientLock
  <1>3. CASE executor_set_irq(c)
    BY <1>1, <1>3 DEF executor_set_irq
  <1>4. CASE executor_set_nmi(c)
    BY <1>1, <1>4 DEF executor_set_nmi
  <1>5. CASE executor_set_exec_stop(c)
    BY <1>1, <1>5 DEF executor_set_exec_stop
  <1>6. CASE executor_set_dma_copyin(c) \/ executor_set_dma_copyout(c)
    <2>1. PICK range \in DmaRanges, copyout \in BOOLEAN : set_dma(c, range, copyout)
      BY <1>6 DEF executor_set_dma_copyin, executor_set_dma_copyout
    <2> QED
      BY <1>1, <2>1, DmaRangesAssumption DEF set_dma
  <1>7. CASE executor_hard_reset(c)
    <2>1. intr_disable' \in BOOLEAN
      BY <1>7, Zenon DEF executor_hard_reset
    <2> QED
      BY <1>7, <2>1 DEF executor_hard_reset
  <1> QED
    BY <1>2, <1>3, <1>4, <1>5, <1>6, <1>7 DEF ClientCall

-----------------------------------------------------------------------------
(* The types of what a cycle of a transfer reads and writes.                *)
TransferTypes ==
  /\ flags \subseteq Flags /\ parity \in {0, 1}
  /\ next_stage \in Stages /\ saved_stage \in Stages
  /\ dma_range \in [addr_lo : Addr, addr_len : Addr]
  /\ cache_disable \in BOOLEAN /\ saved_cache \in BOOLEAN
  /\ is_in_dma \in BOOLEAN /\ is_dma_started \in BOOLEAN /\ is_dma_copyout \in BOOLEAN
  /\ dma_addr_hi \in Addr /\ dma_byte_index \in Addr /\ dma_next_byte \in Byte
  /\ moved \in Seq(Addr \X Byte) /\ dma_refused \in BOOLEAN
  /\ dma_asked \in [addr_lo : Addr, addr_len : Addr]

(* Neither an address nor the byte index leaves 0 .. $FFFF in a transfer.   *)
LEMMA DmaCycleTypes == TransferTypes /\ DmaCycle => TransferTypes'
  <1> SUFFICES ASSUME TransferTypes, DmaCycle PROVE TransferTypes'
    OBVIOUS
  <1> USE DEF TransferTypes
  <1>1. TransferRest
    BY DEF DmaCycle, DmaStall, DmaRead, DmaWrite
  <1>2. /\ is_in_dma' \in BOOLEAN /\ is_dma_started' \in BOOLEAN
        /\ next_stage' \in Stages /\ flags' \subseteq Flags /\ cache_disable' \in BOOLEAN
        /\ parity' \in {0, 1} /\ dma_refused' \in BOOLEAN
    <2> USE DEF EndTransfer, ContinueTransfer
    <2>1. CASE DmaStall
      BY <2>1 DEF DmaStall
    <2>2. CASE DmaRead
      BY <2>2 DEF DmaRead
    <2>3. CASE DmaWrite
      BY <2>3 DEF DmaWrite
    <2> QED
      BY <2>1, <2>2, <2>3 DEF DmaCycle
  <1>3. /\ NextAddr(dma_byte_index) \in Addr
        /\ [dma_range EXCEPT !.addr_lo = NextAddr(@)] \in [addr_lo : Addr, addr_len : Addr]
    BY NextAddrFacts
  <1>4. /\ [origin |-> "memory", at |-> dma_range.addr_lo] \in Byte
        /\ [origin |-> "provider", at |-> dma_byte_index] \in Byte
    BY DEF Byte
  <1>5. /\ dma_byte_index' \in Addr /\ dma_next_byte' \in Byte
        /\ dma_range' \in [addr_lo : Addr, addr_len : Addr]
    BY <1>3, <1>4 DEF DmaCycle, DmaStall, DmaRead, DmaWrite
  <1>6. /\ <<dma_byte_index, dma_next_byte>> \in Addr \X Byte
        /\ <<dma_range.addr_lo, dma_next_byte>> \in Addr \X Byte
    OBVIOUS
  <1>7. moved' \in Seq(Addr \X Byte)
    <2>1. \A m \in Addr \X Byte : Append(moved, m) \in Seq(Addr \X Byte)
      OBVIOUS
    <2>2. CASE DmaStall \/ DmaRead
      BY <2>2 DEF DmaStall, DmaRead
    <2>3. CASE DmaWrite
      <3>1. \/ moved' = Append(moved, <<dma_byte_index, dma_next_byte>>)
            \/ moved' = Append(moved, <<dma_range.addr_lo, dma_next_byte>>)
            \/ moved' = moved
        BY <2>3 DEF DmaWrite, Recorded
      <3> QED
        BY <3>1, <2>1, <1>6
    <2> QED
      BY <2>2, <2>3 DEF DmaCycle
  <1> QED
    BY <1>1, <1>2, <1>5, <1>7 DEF TransferRest

(* The frame of a cycle: a transfer's direction, range and end stay what    *)
(* they were when it began, and it ends by restoring stage and caches.      *)
LEMMA DmaCycleFrame ==
  ASSUME DmaCycle
  PROVE  /\ UNCHANGED <<owed, lock, dma_consumer, intr_disable, saved_stage, saved_cache,
                        is_dma_copyout, dma_addr_hi, dma_asked, calls>>
         /\ \/ UNCHANGED <<is_in_dma, next_stage, flags, cache_disable>>
            \/ /\ is_in_dma' = FALSE /\ next_stage' = saved_stage
               /\ flags' = flags \ {"dma"} /\ cache_disable' = saved_cache
  BY DEF DmaCycle, DmaStall, DmaRead, DmaWrite, TransferRest, EndTransfer, ContinueTransfer
=============================================================================
