------------------------ MODULE ExecutorStagedProofs ------------------------
(* Proofs that the invariants of ExecutorStaged hold for every set of       *)
(* clients, address space, set of requested ranges and instruction timing.  *)
EXTENDS ExecutorStaged, ExecutorBaseProofs

-----------------------------------------------------------------------------
(* The values a freshly allocated executor holds are of the declared types. *)
LEMMA TypeInit == Init => TypeOK
  <1> SUFFICES ASSUME Init PROVE TypeOK
    OBVIOUS
  <1>1. 0 \in Addr /\ Unset \in Byte
    BY AddrTopAssumption DEF Addr, Byte, Unset
  <1>2. dma_asked \in [addr_lo : Addr, addr_len : Addr]
    BY <1>1 DEF Init, BaseInit
  <1>3. moved \in Seq(Addr \X Byte)
    BY DEF Init, BaseInit
  <1> QED
    BY <1>1, <1>2, <1>3, DmaRangesAssumption
    DEF Init, BaseInit, TypeOK, Flags, Interrupts, Labels, Unlocked, Stages

(* Every statement of the loop and every call keeps the types: no counter   *)
(* or address leaves its range, whatever the order of the two.              *)
LEMMA TypeStep == TypeOK /\ [Next]_vars => TypeOK'
  <1> SUFFICES ASSUME TypeOK, [Next]_vars PROVE TypeOK'
    OBVIOUS
  <1> USE DEF TypeOK, Labels, Unlocked, Stages
  <1>1. CASE Launch
    BY <1>1 DEF Launch, BusRest, requestVars, transferVars
  <1>2. CASE LeaveLoop
    BY <1>2 DEF LeaveLoop, Return, BusRest, requestVars, transferVars
  <1>3. CASE FetchIllegal
    BY <1>3 DEF FetchIllegal, Return, BusRest, requestVars, transferVars
  <1>4. CASE Fetch
    BY <1>4, StaleStagesAssumption, InstrCyclesAssumption
    DEF Fetch, BusRest, requestVars, transferVars, signalVars
  <1>5. CASE OpenWindow \/ OpenIntrWindow
    BY <1>5 DEF OpenWindow, OpenIntrWindow, Unlock, BusRest, requestVars, transferVars,
                signalVars
  <1>6. CASE CloseWindow \/ CloseIntrWindow
    BY <1>6 DEF CloseWindow, CloseIntrWindow, Relock, BusRest, requestVars, transferVars,
                signalVars
  <1>7. CASE StartDma
    <2>1. get_end(dma_range) \in Addr /\ 0 \in Addr
      BY GetEndFacts, AddrTopAssumption DEF Addr
    <2>2. moved' \in Seq(Addr \X Byte)
      BY <1>7 DEF StartDma, BeginTransfer
    <2> QED
      BY <1>7, <2>1, <2>2 DEF StartDma, BeginTransfer, requestVars, signalVars
  <1>8. CASE DmaStep
    <2>1. pc' \in Labels /\ UNCHANGED <<cycle, cycles_needed>> /\ DmaCycle
      BY <1>8 DEF DmaStep, NextIteration
    <2>2. TransferTypes'
      BY <2>1, DmaCycleTypes DEF TransferTypes
    <2> QED
      BY <2>1, <2>2, DmaCycleFrame DEF TransferTypes
  <1>9. CASE ExecCycle
    BY <1>9 DEF ExecCycle, NextCycle, NextIteration, BusRest, requestVars, transferVars, signalVars
  <1>10. CASE ServiceIrq \/ ServiceNmi
    <2>1. CASE ServiceIrq
      <3>1. intr_disable' \in BOOLEAN
        BY <2>1, Zenon DEF ServiceIrq
      <3> QED
        BY <2>1, <3>1 DEF ServiceIrq, BusRest, requestVars, transferVars
    <2>2. CASE ServiceNmi
      <3>1. intr_disable' \in BOOLEAN
        BY <2>2, Zenon DEF ServiceNmi
      <3> QED
        BY <2>2, <3>1 DEF ServiceNmi, BusRest, requestVars, transferVars
    <2> QED
      BY <1>10, <2>1, <2>2
  <1>11. CASE ClearInterrupts
    BY <1>11 DEF ClearInterrupts, BusRest, requestVars, transferVars
  <1>12. ASSUME NEW c \in Clients, ClientLock(c) \/ ClientCall(c) PROVE TypeOK'
    BY <1>12, ClientFrame, ClientEffect
  <1>13. CASE UNCHANGED vars
    BY <1>13 DEF vars
  <1> QED
    BY <1>1, <1>2, <1>3, <1>4, <1>5, <1>6, <1>7, <1>8, <1>9, <1>10, <1>11, <1>12,
       <1>13 DEF Next, CpuStep

(* Every variable of the executor and of the launch function keeps its type *)
(* whatever the clients do.                                                 *)
THEOREM TypeCorrect == Spec => []TypeOK
  BY TypeInit, TypeStep, PTL DEF Spec

-----------------------------------------------------------------------------
(* A client inside a call holds the lock, so the launching thread does not. *)
LEMMA LockStep == TypeOK /\ LockInv /\ [Next]_vars => LockInv'
  <1> SUFFICES ASSUME TypeOK, LockInv, [Next]_vars PROVE LockInv'
    OBVIOUS
  <1> USE ThreadFacts DEF LockInv, Unlocked
  <1>1. CASE Launch \/ LeaveLoop \/ FetchIllegal \/ Fetch
    BY <1>1 DEF Launch, LeaveLoop, FetchIllegal, Fetch, Return
  <1>2. CASE OpenWindow \/ OpenIntrWindow \/ CloseWindow \/ CloseIntrWindow
    BY <1>2 DEF OpenWindow, OpenIntrWindow, CloseWindow, CloseIntrWindow, Unlock, Relock
  <1>3. CASE StartDma
    BY <1>3 DEF StartDma, BeginTransfer
  <1>4. CASE DmaStep
    <2>1. pc = "dma" /\ pc' \in {"boundary", "dma", "top"} /\ lock' = lock
      BY <1>4 DEF DmaStep, NextIteration, DmaCycle, DmaStall, DmaRead, DmaWrite, TransferRest
    <2> QED
      BY <2>1
  <1>5. CASE ExecCycle
    BY <1>5 DEF ExecCycle, NextIteration
  <1>6. CASE ServiceIrq \/ ServiceNmi \/ ClearInterrupts
    BY <1>6 DEF ServiceIrq, ServiceNmi, ClearInterrupts
  <1>7. ASSUME NEW c \in Clients, ClientLock(c) \/ ClientCall(c) PROVE LockInv'
    BY <1>7, ClientFrame
  <1>8. CASE UNCHANGED vars
    BY <1>8 DEF vars
  <1> QED
    BY <1>1, <1>2, <1>3, <1>4, <1>5, <1>6, <1>7, <1>8 DEF Next, CpuStep

(* The launching thread clears the interrupt flags without having let go of *)
(* the lock since it looked at them.                                        *)
LEMMA SignalStep == TypeOK /\ LockInv /\ SignalInv /\ [Next]_vars => SignalInv'
  <1> SUFFICES ASSUME TypeOK, LockInv, SignalInv, [Next]_vars PROVE SignalInv'
    OBVIOUS
  <1> USE ThreadFacts DEF SignalInv
  <1>1. CASE Launch
    BY <1>1 DEF Launch
  <1>2. CASE LeaveLoop \/ FetchIllegal \/ Fetch
    BY <1>2 DEF LeaveLoop, FetchIllegal, Fetch, Return, signalVars, TypeOK, Interrupts
  <1>3. CASE OpenWindow \/ OpenIntrWindow \/ CloseWindow \/ CloseIntrWindow
    BY <1>3 DEF OpenWindow, OpenIntrWindow, CloseWindow, CloseIntrWindow, Unlock, Relock,
                signalVars
  <1>4. CASE StartDma
    BY <1>4 DEF StartDma, BeginTransfer, signalVars
  <1>5. CASE DmaStep
    <2>1. pc = "dma" /\ pc' \in {"boundary", "dma", "top"} /\ owed' = owed
          /\ (flags' = flags \/ flags' = flags \ {"dma"})
      BY <1>5 DEF DmaStep, NextIteration, DmaCycle, DmaStall, DmaRead, DmaWrite, TransferRest,
                  EndTransfer, ContinueTransfer
    <2>2. flags' \cap Interrupts = flags \cap Interrupts
      BY <2>1 DEF Interrupts
    <2>3. owed' = flags' \cap Interrupts
      BY <2>1, <2>2
    <2> QED
      BY <2>1, <2>3
  <1>6. CASE ExecCycle
    BY <1>6 DEF ExecCycle, NextIteration, signalVars
  <1>7. CASE ServiceIrq
    <2>1. pc = "irq" /\ pc' = "nmi" /\ flags' = flags
      BY <1>7 DEF ServiceIrq
    <2>2. owed' = owed \ {"irq"}
      BY <1>7 DEF ServiceIrq, Interrupts
    <2> QED
      BY <2>1, <2>2
  <1>8. CASE ServiceNmi
    <2>1. /\ pc = "nmi" /\ pc' = "clear" /\ owed' \subseteq owed
          /\ "nmi" \in flags => "nmi" \notin owed'
      BY <1>8 DEF ServiceNmi
    <2> QED
      BY <2>1 DEF Interrupts
  <1>9. CASE ClearInterrupts
    BY <1>9 DEF ClearInterrupts, Interrupts
  <1>10. ASSUME NEW c \in Clients, ClientLock(c) \/ ClientCall(c) PROVE SignalInv'
    <2>1. pc \in {"idle", "window", "intr_window"} /\ pc' = pc
      BY <1>10, ClientFrame DEF LockInv, Unlocked
    <2>2. owed = flags \cap Interrupts => owed' = flags' \cap Interrupts
      BY <1>10, ClientEffect DEF TypeOK
    <2>3. owed' = flags' \cap Interrupts
      BY <2>1, <2>2
    <2> QED
      BY <2>1, <2>3
  <1>11. CASE UNCHANGED vars
    BY <1>11 DEF vars
  <1> QED
    BY <1>1, <1>2, <1>3, <1>4, <1>5, <1>6, <1>7, <1>8, <1>9, <1>10, <1>11 DEF Next, CpuStep

(* One more call ends the instruction or leaves it in the middle, an        *)
(* endless one always in the middle.                                        *)
LEMMA OneMoreCall ==
  ASSUME InMiddle, cycles_needed \in Nat, cycle' = NextCycle, UNCHANGED cycles_needed
  PROVE  /\ cycle' \in Nat \ {1}
         /\ cycle' # cycles_needed => InMiddle'
         /\ cycle' = cycles_needed => cycles_needed # Endless
  <1>1. CASE cycles_needed = Endless
    BY <1>1 DEF InMiddle, NextCycle, Endless
  <1>2. CASE cycles_needed # Endless
    <2>1. cycle \in Nat \ {0} /\ cycle < cycles_needed /\ cycle' = cycle + 1
      BY <1>2 DEF InMiddle, NextCycle
    <2>2. cycle' # cycles_needed => cycle' \in 1 .. cycles_needed - 1
      BY <2>1
    <2> QED
      BY <1>2, <2>1, <2>2 DEF InMiddle
  <1> QED
    BY <1>1, <1>2

(* An instruction is interrupted only between its cycles, and resumed where *)
(* it was, unless the transfer came before its first.                       *)
LEMMA StageStep == TypeOK /\ StageInv /\ [Next]_vars => StageInv'
  <1> SUFFICES ASSUME TypeOK, StageInv, [Next]_vars PROVE StageInv'
    OBVIOUS
  <1> USE DEF StageInv, AllOrNothing, InInstruction
  <1>0. ASSUME UNCHANGED <<cycle, cycles_needed>> PROVE InMiddle' <=> InMiddle
    BY <1>0 DEF InMiddle
  <1>1. CASE Launch \/ LeaveLoop \/ FetchIllegal
    BY <1>1 DEF Launch, LeaveLoop, FetchIllegal, Return, BusRest, transferVars
  <1>2. CASE Fetch
    <2>1. PICK n \in InstrCycles : cycles_needed' = n
      BY <1>2 DEF Fetch
    <2>2. n \in Nat \ {1}
      BY InstrCyclesAssumption
    <2>3. cycle' = 1 /\ pc = "loop" /\ pc' = "top" /\ is_in_dma' = is_in_dma
      BY <1>2 DEF Fetch, BusRest, transferVars
    <2>4. InMiddle'
      BY <2>1, <2>2, <2>3 DEF InMiddle, Endless
    <2> QED
      BY <2>1, <2>3, <2>4
  <1>3. CASE OpenWindow \/ OpenIntrWindow
    BY <1>0, <1>3 DEF OpenWindow, OpenIntrWindow, Unlock, BusRest, transferVars
  <1>4. CASE CloseWindow \/ CloseIntrWindow
    BY <1>0, <1>4 DEF CloseWindow, CloseIntrWindow, Relock, BusRest, transferVars
  <1>5. CASE StartDma
    BY <1>0, <1>5 DEF StartDma, BeginTransfer
  <1>6. CASE DmaStep
    <2>1. /\ pc = "dma" /\ is_in_dma
          /\ UNCHANGED <<cycle, cycles_needed, saved_stage>>
          /\ \/ is_in_dma' = is_in_dma /\ next_stage' = next_stage
             \/ is_in_dma' = FALSE /\ next_stage' = saved_stage
          /\ NextIteration
      BY <1>6 DEF DmaStep, DmaCycle, DmaStall, DmaRead, DmaWrite, TransferRest,
                  EndTransfer, ContinueTransfer
    <2> QED
      BY <1>0, <2>1 DEF NextIteration
  <1>7. CASE ExecCycle
    <2>1. /\ pc = "check" /\ is_in_dma' = is_in_dma /\ UNCHANGED cycles_needed
          /\ cycle' = NextCycle
          /\ next_stage' = IF cycle' = cycles_needed THEN "end" ELSE "next_cycle"
          /\ NextIteration
      BY <1>7 DEF ExecCycle, BusRest, transferVars
    <2>2. cycle' # cycles_needed => InMiddle'
      BY <2>1, OneMoreCall DEF TypeOK
    <2> QED
      BY <2>1, <2>2 DEF NextIteration
  <1>8. CASE ServiceIrq \/ ServiceNmi \/ ClearInterrupts
    BY <1>8 DEF ServiceIrq, ServiceNmi, ClearInterrupts, BusRest, transferVars
  <1>9. ASSUME NEW c \in Clients, ClientLock(c) \/ ClientCall(c) PROVE StageInv'
    BY <1>0, <1>9, ClientFrame
  <1>10. CASE UNCHANGED vars
    BY <1>0, <1>10 DEF vars
  <1> QED
    BY <1>1, <1>2, <1>3, <1>4, <1>5, <1>6, <1>7, <1>8, <1>9, <1>10 DEF Next, CpuStep

-----------------------------------------------------------------------------
(* How many bytes a range is worth, where they lie and where memory_addr_   *)
(* range_get_end puts its end: stepping through the addresses in 16 bits,   *)
(* the end is reached or passed after the last byte and not before.         *)
LEMMA SpanFacts ==
  ASSUME NEW range \in [addr_lo : Addr, addr_len : Addr]
  PROVE  /\ Transfers!Span(range) \in 1 .. AddrTop + 1
         /\ Transfers!AddrAt(range, 0) = range.addr_lo
         /\ \A n \in 0 .. Transfers!Span(range) - 1 :
              /\ n \in Addr /\ Transfers!AddrAt(range, n) \in Addr
              /\ NextAddr(Transfers!AddrAt(range, n)) >= get_end(range)
                   <=> n + 1 = Transfers!Span(range)
              /\ n + 1 # Transfers!Span(range) =>
                   /\ NextAddr(Transfers!AddrAt(range, n)) = Transfers!AddrAt(range, n + 1)
                   /\ NextAddr(n) = n + 1
  <1> DEFINE lo == range.addr_lo
             len == range.addr_len
             span == Transfers!Span(range)
             At(n) == Transfers!AddrAt(range, n)
  <1>1. lo \in Nat /\ len \in Nat /\ lo <= AddrTop /\ len <= AddrTop /\ AddrTop \in Nat \ {0}
    BY AddrTopAssumption DEF Addr
  <1>2. \A n : At(n) = IF lo + n <= AddrTop THEN lo + n ELSE lo + n - AddrTop - 1
    BY DEF Transfers!AddrAt
  <1>3. get_end(range) = IF lo + len <= AddrTop THEN lo + len ELSE AddrTop
    BY DEF get_end
  <1>4. /\ lo = AddrTop => span = AddrTop + 1
        /\ lo # AddrTop /\ len = 0 => span = 1
        /\ lo # AddrTop /\ len # 0 =>
             span = IF lo + len <= AddrTop THEN len ELSE AddrTop - lo
    BY DEF Transfers!Span
  <1> HIDE DEF lo, len, span, At
  <1>5. span \in 1 .. AddrTop + 1
    BY <1>1, <1>4
  <1>6. At(0) = lo
    BY <1>1, <1>2
  <1>7. ASSUME NEW n \in 0 .. span - 1
        PROVE  /\ n \in Addr /\ At(n) \in Addr
               /\ NextAddr(At(n)) >= get_end(range) <=> n + 1 = span
               /\ n + 1 # span => NextAddr(At(n)) = At(n + 1) /\ NextAddr(n) = n + 1
    <2>1. n \in Nat /\ n < span /\ n <= AddrTop
      BY <1>1, <1>5
    <2>2. At(n) \in Nat /\ At(n) <= AddrTop
      BY <1>1, <1>2, <2>1
    <2>3. NextAddr(At(n)) = IF At(n) = AddrTop THEN 0 ELSE At(n) + 1
      BY DEF NextAddr
    <2>4. CASE lo = AddrTop
      <3>1. /\ n = 0 => At(n) = AddrTop /\ NextAddr(At(n)) = 0
            /\ n # 0 => At(n) = n - 1 /\ NextAddr(At(n)) = n
        BY <1>1, <1>2, <2>1, <2>3, <2>4
      <3>2. span = AddrTop + 1 /\ get_end(range) = AddrTop
        BY <1>1, <1>3, <1>4, <2>4
      <3>3. NextAddr(At(n)) = n
        BY <3>1, <2>1
      <3>4. NextAddr(At(n)) >= get_end(range) <=> n + 1 = span
        BY <1>1, <2>1, <3>2, <3>3
      <3>5. ASSUME n + 1 # span PROVE At(n + 1) = n
        BY <1>1, <1>2, <2>1, <2>4
      <3> QED
        BY <2>1, <2>2, <3>2, <3>3, <3>4, <3>5 DEF Addr, NextAddr
    <2>5. CASE lo # AddrTop
      <3>1. lo + n < AddrTop
        BY <1>1, <1>4, <2>1, <2>5
      <3>2. At(n) = lo + n /\ NextAddr(At(n)) = lo + n + 1 /\ At(n + 1) = lo + n + 1
        BY <1>1, <1>2, <2>1, <2>3, <3>1
      <3>3. lo + n + 1 >= get_end(range) <=> n + 1 = span
        BY <1>1, <1>3, <1>4, <2>1, <2>5, <3>1
      <3>4. n # AddrTop
        BY <1>1, <2>1, <3>1
      <3> QED
        BY <2>1, <2>2, <3>2, <3>3, <3>4 DEF Addr, NextAddr
    <2> QED
      BY <2>4, <2>5
  <1> QED
    BY <1>5, <1>6, <1>7 DEF lo, span, At

(* What a cycle of the transfer needs to know of its request.               *)
LEMMA InRange ==
  ASSUME TypeOK, TransferInv, is_in_dma
  PROVE  /\ Len(moved) \in Nat
         /\ Len(moved) \in 0 .. Transfers!Span(dma_asked) - 1
         /\ Transfers!Span(dma_asked) \in 1 .. AddrTop + 1
  <1>1. dma_asked \in [addr_lo : Addr, addr_len : Addr] /\ Len(moved) \in Nat
    BY DEF TypeOK
  <1>2. Transfers!Span(dma_asked) \in 1 .. AddrTop + 1
    BY <1>1, SpanFacts
  <1>3. Len(moved) < Transfers!Span(dma_asked)
    BY DEF TransferInv
  <1> QED
    BY <1>1, <1>2, <1>3, AddrTopAssumption

(* The bytes recorded so far.                                               *)
MovedInv ==
  /\ Len(moved) <= Transfers!Span(dma_asked)
  /\ \A i \in 1 .. Len(moved) : moved[i] = Transfers!MoveOf(Asked, i - 1)

(* MovedInv speaks of these variables only.                                 *)
LEMMA MovedUnchanged ==
  ASSUME MovedInv, UNCHANGED <<moved, dma_asked, is_dma_copyout>>
  PROVE  MovedInv'
  <1>1. Asked' = Asked
    BY DEF Asked
  <1> QED
    BY <1>1 DEF MovedInv

(* The record has room for one more byte, and it is the right one.          *)
LEMMA MovedAppend ==
  ASSUME TypeOK, TransferInv, is_in_dma, UNCHANGED <<dma_asked, is_dma_copyout>>,
         NEW m, m = Transfers!MoveOf(Asked, Len(moved)), moved' = Recorded(m)
  PROVE  /\ moved' = Append(moved, m)
         /\ Len(moved') = Len(moved) + 1
         /\ MovedInv'
  <1>1. moved \in Seq(Addr \X Byte) /\ AddrTop \in Nat
    BY AddrTopAssumption DEF TypeOK
  <1>2. /\ Len(moved) \in Nat /\ Len(moved) <= AddrTop
        /\ Len(moved) + 1 <= Transfers!Span(dma_asked)
    BY InRange, <1>1
  <1>3. moved' = Append(moved, m)
    BY <1>2 DEF Recorded
  <1>4. Len(moved') = Len(moved) + 1
    BY <1>1, <1>3
  <1>5. Asked' = Asked
    BY DEF Asked
  <1>6. ASSUME NEW i \in 1 .. Len(moved) + 1
        PROVE  moved'[i] = Transfers!MoveOf(Asked, i - 1)
    <2>1. CASE i = Len(moved) + 1
      <3>1. moved'[i] = m /\ i - 1 = Len(moved)
        BY <1>1, <1>2, <1>3, <2>1
      <3> QED
        BY <3>1
    <2>2. CASE i \in 1 .. Len(moved)
      <3>1. moved'[i] = moved[i]
        BY <1>1, <1>3, <2>2
      <3> QED
        BY <2>2, <3>1 DEF TransferInv
    <2> QED
      BY <1>2, <2>1, <2>2
  <1>7. MovedInv'
    BY <1>2, <1>4, <1>5, <1>6 DEF MovedInv
  <1> QED
    BY <1>3, <1>4, <1>7

(* Outside a transfer only the record of the last one has to be kept.       *)
LEMMA TransferIdle ==
  ASSUME TransferInv, ~ is_in_dma', UNCHANGED <<moved, dma_asked, is_dma_copyout>>
  PROVE  TransferInv'
  <1>1. MovedInv'
    BY MovedUnchanged DEF TransferInv, MovedInv
  <1> QED
    BY <1>1 DEF TransferInv, MovedInv

(* When a transfer begins nothing has moved and its end lies ahead.         *)
LEMMA TransferStart == TypeOK /\ TransferInv /\ StartDma => TransferInv'
  <1> SUFFICES ASSUME TypeOK, TransferInv, StartDma PROVE TransferInv'
    OBVIOUS
  <1>1. /\ moved' = <<>> /\ dma_asked' = dma_range /\ dma_range' = dma_range
        /\ dma_byte_index' = 0 /\ dma_addr_hi' = get_end(dma_range) /\ parity' = parity
        /\ is_dma_started' = (parity = 0)
    BY DEF StartDma, BeginTransfer, requestVars
  <1>2. dma_range \in [addr_lo : Addr, addr_len : Addr] /\ parity \in {0, 1}
    BY DEF TypeOK
  <1>3. Len(moved') = 0
    BY <1>1
  <1>4. Transfers!Span(dma_range) \in 1 .. AddrTop + 1
        /\ Transfers!AddrAt(dma_range, 0) = dma_range.addr_lo
    BY <1>2, SpanFacts
  <1>5. Len(moved') < Transfers!Span(dma_asked') /\ Len(moved') <= Transfers!Span(dma_asked')
    BY <1>1, <1>3, <1>4, AddrTopAssumption
  <1>6. \A i \in 1 .. Len(moved') : moved'[i] = Transfers!MoveOf(Asked', i - 1)
    BY <1>3
  <1>7. dma_range'.addr_lo = Transfers!AddrAt(dma_asked', Len(moved'))
    BY <1>1, <1>3, <1>4
  <1>8. dma_addr_hi' = get_end(dma_asked')
    BY <1>1 DEF get_end
  <1>9. /\ is_dma_started' \/ (parity' = 1 /\ Len(moved') = 0)
        /\ ~ (is_dma_started' /\ parity' = 1)
    <2>1. is_dma_started' <=> parity' = 0
      BY <1>1
    <2>2. parity' \in {0, 1}
      BY <1>1, <1>2
    <2> QED
      BY <1>3, <2>1, <2>2
  <1>10. dma_byte_index' = Len(moved')
    BY <1>1, <1>3
  <1> QED
    BY <1>5, <1>6, <1>7, <1>8, <1>9, <1>10 DEF TransferInv

(* What a DmaWrite records is the next byte of the request.                 *)
LEMMA WriteRecords ==
  ASSUME TypeOK, TransferInv, is_in_dma, DmaWrite
  PROVE  moved' = Recorded(Transfers!MoveOf(Asked, Len(moved)))
  <1> DEFINE n == Len(moved)
             at == Transfers!AddrAt(dma_asked, n)
  <1>1. is_dma_started /\ parity = 1
    BY DEF DmaWrite
  <1>2. CASE is_dma_copyout
    <2>1. Transfers!MoveOf(Asked, n) = <<n, [origin |-> "memory", at |-> at]>>
      BY <1>2 DEF Transfers!MoveOf, Asked
    <2>2. dma_byte_index = n /\ dma_next_byte = [origin |-> "memory", at |-> at]
      BY <1>1, <1>2 DEF TransferInv
    <2>3. moved' = Recorded(<<dma_byte_index, dma_next_byte>>)
      BY <1>2 DEF DmaWrite
    <2> QED
      BY <2>1, <2>2, <2>3
  <1>3. CASE ~ is_dma_copyout
    <2>1. Transfers!MoveOf(Asked, n) = <<at, [origin |-> "provider", at |-> n]>>
      BY <1>3 DEF Transfers!MoveOf, Asked
    <2>2. dma_range.addr_lo = at /\ dma_next_byte = [origin |-> "provider", at |-> n]
      BY <1>1, <1>3 DEF TransferInv
    <2>3. moved' = Recorded(<<dma_range.addr_lo, dma_next_byte>>)
      BY <1>3 DEF DmaWrite
    <2> QED
      BY <2>1, <2>2, <2>3
  <1> QED
    BY <1>2, <1>3

(* A DmaWrite ends the transfer after the last byte of its range or when    *)
(* the consumer refuses, and otherwise leaves both counters at the next.    *)
LEMMA WriteAdvances ==
  ASSUME TypeOK, TransferInv, is_in_dma, DmaWrite
  PROVE  /\ ~ is_in_dma' /\ ~ dma_refused' => Len(moved) + 1 = Transfers!Span(dma_asked)
         /\ dma_refused' => is_dma_copyout
         /\ is_in_dma' =>
              /\ is_dma_started' /\ Len(moved) + 1 # Transfers!Span(dma_asked)
              /\ dma_byte_index' = Len(moved) + 1
              /\ dma_range'.addr_lo = Transfers!AddrAt(dma_asked, Len(moved) + 1)
  <1> DEFINE n == Len(moved)
             at == Transfers!AddrAt(dma_asked, n)
             span == Transfers!Span(dma_asked)
  <1>1. dma_asked \in [addr_lo : Addr, addr_len : Addr] /\ n \in 0 .. span - 1
    BY InRange DEF TypeOK
  <1>2. /\ NextAddr(at) >= get_end(dma_asked) <=> n + 1 = span
        /\ n + 1 # span =>
             NextAddr(at) = Transfers!AddrAt(dma_asked, n + 1) /\ NextAddr(n) = n + 1
    BY <1>1, SpanFacts
  <1>3. is_dma_started /\ parity = 1 /\ dma_addr_hi = get_end(dma_asked)
    BY DEF DmaWrite, TransferInv
  <1>4. /\ is_dma_copyout => dma_byte_index = n /\ dma_range.addr_lo = NextAddr(at)
        /\ ~ is_dma_copyout => dma_byte_index = NextAddr(n) /\ dma_range.addr_lo = at
    BY <1>3 DEF TransferInv
  <1>5. dma_range'.addr_lo = NextAddr(at) /\ dma_byte_index' = NextAddr(n)
    <2>1. CASE is_dma_copyout
      BY <1>4, <2>1 DEF DmaWrite
    <2>2. CASE ~ is_dma_copyout
      BY <1>4, <2>2 DEF DmaWrite, TypeOK
    <2> QED
      BY <2>1, <2>2
  <1>6. /\ dma_refused' => is_dma_copyout
        /\ ~ is_in_dma' /\ ~ dma_refused' => dma_range'.addr_lo >= dma_addr_hi
        /\ is_in_dma' => is_dma_started' /\ ~ (dma_range'.addr_lo >= dma_addr_hi)
    BY <1>3 DEF DmaWrite, EndTransfer, ContinueTransfer
  <1> HIDE DEF n, at, span
  <1>7. /\ ~ is_in_dma' /\ ~ dma_refused' => n + 1 = span
        /\ is_in_dma' => n + 1 # span
    BY <1>2, <1>3, <1>5, <1>6
  <1>8. is_in_dma' => /\ dma_byte_index' = n + 1
                      /\ dma_range'.addr_lo = Transfers!AddrAt(dma_asked, n + 1)
    BY <1>2, <1>5, <1>7
  <1> QED
    BY <1>6, <1>7, <1>8 DEF n, span

(* A cycle of the transfer.                                                 *)
LEMMA TransferCycle == TypeOK /\ TransferInv /\ is_in_dma /\ DmaCycle => TransferInv'
  <1> SUFFICES ASSUME TypeOK, TransferInv, is_in_dma, DmaCycle PROVE TransferInv'
    OBVIOUS
  <1> DEFINE n == Len(moved)
             at == Transfers!AddrAt(dma_asked, n)
  <1>1. UNCHANGED <<dma_asked, is_dma_copyout, dma_addr_hi>>
    BY DEF DmaCycle, DmaStall, DmaRead, DmaWrite, TransferRest
  <1>2. n \in 0 .. Transfers!Span(dma_asked) - 1 /\ n \in Nat
        /\ Transfers!Span(dma_asked) \in 1 .. AddrTop + 1
    BY InRange
  <1>3. n < Transfers!Span(dma_asked)
    BY DEF TransferInv
  <1>4. dma_addr_hi' = get_end(dma_asked')
    BY <1>1 DEF TransferInv, get_end
  <1>5. CASE DmaStall
    <2>1. /\ UNCHANGED <<moved, dma_byte_index, dma_range, is_in_dma>>
          /\ is_dma_started' <=> parity' = 0
          /\ parity' = 1 - parity /\ ~ is_dma_started
      BY <1>5 DEF DmaStall
    <2>2. parity = 1 /\ dma_byte_index = n /\ dma_range.addr_lo = at
      BY <2>1 DEF TransferInv
    <2>3. parity' = 0 /\ is_dma_started'
      BY <2>1, <2>2
    <2>4. MovedInv'
      BY <1>1, <2>1, MovedUnchanged DEF TransferInv, MovedInv
    <2> QED
      BY <1>1, <1>3, <1>4, <2>1, <2>2, <2>3, <2>4 DEF TransferInv, MovedInv
  <1>6. CASE DmaRead
    <2>1. moved' = moved /\ is_dma_started /\ parity = 0 /\ parity' = 1
      BY <1>6 DEF DmaRead
    <2>2. dma_byte_index = n /\ dma_range.addr_lo = at
      BY <2>1 DEF TransferInv
    <2>3. MovedInv'
      BY <1>1, <2>1, MovedUnchanged DEF TransferInv, MovedInv
    <2>4. CASE ~ is_in_dma'
      BY <1>1, <2>1, <2>4, TransferIdle
    <2>5. CASE is_in_dma' /\ is_dma_copyout
      <3>1. /\ dma_range'.addr_lo = NextAddr(at) /\ dma_byte_index' = n
            /\ dma_next_byte' = [origin |-> "memory", at |-> at]
        BY <1>6, <2>2, <2>5 DEF DmaRead, TypeOK
      <3>2. is_dma_started'
        BY <1>6, <2>5, <2>1 DEF DmaRead, ContinueTransfer
      <3> QED
        BY <1>1, <1>3, <1>4, <2>1, <2>3, <2>5, <3>1, <3>2 DEF TransferInv, MovedInv
    <2>6. CASE is_in_dma' /\ ~ is_dma_copyout
      <3>1. /\ dma_range' = dma_range /\ dma_byte_index' = NextAddr(n)
            /\ dma_next_byte' = [origin |-> "provider", at |-> n]
        BY <1>6, <2>2, <2>6 DEF DmaRead
      <3>2. is_dma_started'
        BY <1>6, <2>6, <2>1 DEF DmaRead, ContinueTransfer, EndTransfer
      <3> QED
        BY <1>1, <1>3, <1>4, <2>1, <2>2, <2>3, <2>6, <3>1, <3>2 DEF TransferInv, MovedInv
    <2> QED
      BY <2>4, <2>5, <2>6
  <1>7. CASE DmaWrite
    <2>1. parity' = 0
      BY <1>7 DEF DmaWrite
    <2>2. MovedInv' /\ Len(moved') = n + 1
      BY <1>1, <1>7, WriteRecords, MovedAppend
    <2>3. CASE ~ is_in_dma'
      BY <2>2, <2>3 DEF TransferInv, MovedInv
    <2>4. CASE is_in_dma'
      <3>1. /\ is_dma_started' /\ n + 1 # Transfers!Span(dma_asked)
            /\ dma_byte_index' = n + 1
            /\ dma_range'.addr_lo = Transfers!AddrAt(dma_asked, n + 1)
        BY <1>7, <2>4, WriteAdvances
      <3>2. n + 1 < Transfers!Span(dma_asked)
        BY <1>2, <3>1, AddrTopAssumption
      <3> QED
        BY <1>1, <1>4, <2>1, <2>2, <2>4, <3>1, <3>2 DEF TransferInv, MovedInv
    <2> QED
      BY <2>3, <2>4
  <1> QED
    BY <1>5, <1>6, <1>7 DEF DmaCycle

(* Outside a transfer nothing touches what it left behind; inside one the   *)
(* launching thread holds the lock, so that no client changes the range.    *)
LEMMA TransferStep ==
  TypeOK /\ LockInv /\ StageInv /\ TransferInv /\ [Next]_vars => TransferInv'
  <1> SUFFICES ASSUME TypeOK, LockInv, StageInv, TransferInv, [Next]_vars PROVE TransferInv'
    OBVIOUS
  <1>1. CASE StartDma
    BY <1>1, TransferStart
  <1>2. CASE DmaStep
    BY <1>2, TransferCycle DEF DmaStep, StageInv
  <1>3. CASE Launch \/ LeaveLoop \/ FetchIllegal \/ Fetch
    <2>1. pc # "dma" /\ UNCHANGED <<moved, dma_asked, is_dma_copyout, is_in_dma>>
      BY <1>3 DEF Launch, LeaveLoop, FetchIllegal, Fetch, Return, BusRest, transferVars
    <2> QED
      BY <2>1, TransferIdle DEF StageInv
  <1>4. CASE OpenWindow \/ OpenIntrWindow \/ CloseWindow \/ CloseIntrWindow
    <2>1. pc # "dma" /\ UNCHANGED <<moved, dma_asked, is_dma_copyout, is_in_dma>>
      BY <1>4 DEF OpenWindow, OpenIntrWindow, CloseWindow, CloseIntrWindow, Unlock, Relock,
                  BusRest, transferVars
    <2> QED
      BY <2>1, TransferIdle DEF StageInv
  <1>5. CASE ExecCycle \/ ServiceIrq \/ ServiceNmi \/ ClearInterrupts
    <2>1. pc # "dma" /\ UNCHANGED <<moved, dma_asked, is_dma_copyout, is_in_dma>>
      BY <1>5 DEF ExecCycle, ServiceIrq, ServiceNmi, ClearInterrupts, BusRest, transferVars
    <2> QED
      BY <2>1, TransferIdle DEF StageInv
  <1>6. ASSUME NEW c \in Clients, ClientLock(c) \/ ClientCall(c) PROVE TransferInv'
    <2>1. lock # Cpu /\ UNCHANGED <<moved, dma_asked, is_dma_copyout, is_in_dma>>
      BY <1>6, ClientFrame
    <2>2. pc # "dma"
      BY <2>1 DEF LockInv, Unlocked
    <2> QED
      BY <2>1, <2>2, TransferIdle DEF StageInv
  <1>7. CASE UNCHANGED vars
    <2>1. MovedInv'
      BY <1>7, MovedUnchanged DEF vars, TransferInv, MovedInv
    <2> QED
      BY <1>7, <2>1 DEF vars, TransferInv, MovedInv
  <1> QED
    BY <1>1, <1>2, <1>3, <1>4, <1>5, <1>6, <1>7 DEF Next, CpuStep

-----------------------------------------------------------------------------
(* The strengthened invariant holds before the first launch.                *)
LEMMA InvInit == Init => IInv
  <1> SUFFICES ASSUME Init PROVE IInv
    OBVIOUS
  <1>1. TypeOK
    BY TypeInit
  <1>2. LockInv /\ SignalInv /\ StageInv
    BY ThreadFacts
       DEF Init, BaseInit, LockInv, Unlocked, SignalInv, StageInv, InInstruction, AllOrNothing
  <1>3. moved = <<>> /\ ~ is_in_dma /\ dma_asked \in [addr_lo : Addr, addr_len : Addr]
    BY <1>1 DEF Init, BaseInit, TypeOK
  <1>4. TransferInv
    <2>1. Transfers!Span(dma_asked) \in 1 .. AddrTop + 1
      BY <1>3, SpanFacts
    <2> QED
      BY <1>3, <2>1, AddrTopAssumption DEF TransferInv
  <1> QED
    BY <1>1, <1>2, <1>4 DEF IInv

(* It is inductive: every step of the loop and every call preserves it.     *)
LEMMA InvStep == IInv /\ [Next]_vars => IInv'
  BY TypeStep, LockStep, SignalStep, StageStep, TransferStep DEF IInv

(* The strengthened invariant holds in every reachable state.               *)
THEOREM Invariance == Spec => []IInv
  BY InvInit, InvStep, PTL DEF Spec

(* No NMI or IRQ raised during a run is wiped out unseen.                   *)
THEOREM SignalsAreHeld == Spec => []SignalsHeld
  <1>1. IInv => SignalsHeld
    BY DEF IInv, TypeOK, Labels, Unlocked, SignalInv, SignalsHeld
  <1> QED
    BY Invariance, <1>1, PTL

(* A transfer never cuts an instruction short half-way.                     *)
THEOREM InstructionsAllOrNothing == Spec => []AllOrNothing
  <1>1. IInv => AllOrNothing
    BY DEF IInv, StageInv
  <1> QED
    BY Invariance, <1>1, PTL

(* The bytes and places of a range that ends below $FFFF, plainly counted.  *)
LEMMA ProperSpan ==
  ASSUME TypeOK, Proper(dma_asked)
  PROVE  /\ Transfers!Span(dma_asked) = dma_asked.addr_len
         /\ \A i \in 1 .. dma_asked.addr_len : Transfers!MoveOf(Asked, i - 1) = ExpectedMove(i)
  <1> DEFINE lo == dma_asked.addr_lo
             len == dma_asked.addr_len
  <1>1. lo \in Nat /\ len \in Nat /\ len > 0 /\ lo + len <= AddrTop /\ AddrTop \in Nat
    BY AddrTopAssumption DEF TypeOK, Proper, Addr
  <1>2. lo # AddrTop /\ len # 0
    BY <1>1
  <1>3. Transfers!Span(dma_asked) = len
    BY <1>1, <1>2 DEF Transfers!Span
  <1>4. ASSUME NEW i \in 1 .. len
        PROVE  Transfers!MoveOf(Asked, i - 1) = ExpectedMove(i)
    <2>1. lo + (i - 1) <= AddrTop /\ lo + (i - 1) = lo + i - 1
      BY <1>1
    <2>2. Transfers!AddrAt(dma_asked, i - 1) = lo + i - 1
      BY <2>1 DEF Transfers!AddrAt
    <2> QED
      BY <2>2 DEF Transfers!MoveOf, Asked, ExpectedMove
  <1> QED
    BY <1>3, <1>4

(* A transfer of a range that ends below $FFFF moves its bytes in order,    *)
(* each once, to where they belong.                                         *)
THEOREM TransfersFaithful == Spec => []DmaFaithful
  <1>1. IInv => DmaFaithful
    <2> SUFFICES ASSUME IInv, Proper(dma_asked)
                 PROVE  /\ Len(moved) <= dma_asked.addr_len
                        /\ \A i \in 1 .. Len(moved) : moved[i] = ExpectedMove(i)
      BY DEF DmaFaithful
    <2>1. Len(moved) \in Nat /\ dma_asked.addr_len \in Nat
      BY DEF IInv, TypeOK, Addr
    <2>2. Len(moved) <= dma_asked.addr_len
      BY ProperSpan DEF IInv, TransferInv
    <2>3. ASSUME NEW i \in 1 .. Len(moved) PROVE moved[i] = ExpectedMove(i)
      <3>1. i \in 1 .. dma_asked.addr_len
        BY <2>1, <2>2
      <3> QED
        BY <3>1, ProperSpan DEF IInv, TransferInv
    <2> QED
      BY <2>2, <2>3
  <1> QED
    BY Invariance, <1>1, PTL

-----------------------------------------------------------------------------
(* Which steps end a transfer.                                              *)
LEMMA EndsInDmaStep ==
  ASSUME [Next]_vars, is_in_dma, ~ is_in_dma'
  PROVE  DmaRead \/ DmaWrite
  <1>1. ASSUME NEW c \in Clients PROVE ~ (ClientLock(c) \/ ClientCall(c))
    BY ClientFrame
  <1>2. ~ (Launch \/ LeaveLoop \/ FetchIllegal \/ Fetch)
    BY DEF Launch, LeaveLoop, FetchIllegal, Fetch, Return, BusRest, transferVars
  <1>3. ~ (OpenWindow \/ OpenIntrWindow \/ CloseWindow \/ CloseIntrWindow)
    BY DEF OpenWindow, OpenIntrWindow, CloseWindow, CloseIntrWindow, Unlock, Relock, BusRest,
           transferVars
  <1>4. ~ (ExecCycle \/ ServiceIrq \/ ServiceNmi \/ ClearInterrupts \/ StartDma)
    BY DEF ExecCycle, ServiceIrq, ServiceNmi, ClearInterrupts, BusRest, transferVars, StartDma,
           BeginTransfer
  <1>5. ~ DmaStall /\ ~ UNCHANGED vars
    BY DEF DmaStall, vars
  <1> QED
    BY <1>1, <1>2, <1>3, <1>4, <1>5 DEF Next, CpuStep, DmaStep, DmaCycle

(* A transfer nobody refuses ends only when its whole range has moved.      *)
THEOREM TransfersWhole == Spec => DmaWhole
  <1>1. IInv /\ [Next]_vars => [EndsWhole]_vars
    <2> SUFFICES ASSUME IInv, [Next]_vars, is_in_dma, ~ is_in_dma', ~ dma_refused',
                        Proper(dma_asked)
                 PROVE  Len(moved') = dma_asked.addr_len
      BY DEF EndsWhole
    <2>1. DmaWrite
      <3>1. ~ DmaRead
        BY DEF DmaRead, ContinueTransfer
      <3> QED
        BY <3>1, EndsInDmaStep
    <2>2. Len(moved) + 1 = Transfers!Span(dma_asked)
      BY <2>1, WriteAdvances DEF IInv
    <2>3. Len(moved') = Len(moved) + 1
      <3>1. UNCHANGED <<dma_asked, is_dma_copyout>>
        BY <2>1 DEF DmaWrite, TransferRest
      <3> QED
        BY <2>1, <3>1, WriteRecords, MovedAppend DEF IInv
    <2> QED
      BY <2>2, <2>3, ProperSpan DEF IInv
  <1> QED
    BY Invariance, <1>1, PTL DEF DmaWhole, Spec

(* However a transfer ends, the bus's caches are again as they were.        *)
THEOREM CachesRestored == Spec => CacheRestored
  <1> SUFFICES ASSUME NEW b \in BOOLEAN
               PROVE  Spec /\ (cache_disable <=> b) => [](cache_disable <=> is_in_dma \/ b)
    BY DEF CacheRestored
  <1> DEFINE Kept == /\ cache_disable <=> is_in_dma \/ b
                     /\ is_in_dma => (saved_cache <=> b)
  <1>1. Init /\ (cache_disable <=> b) => Kept
    BY DEF Init, BaseInit
  <1>2. IInv /\ Kept /\ [Next]_vars => Kept'
    <2> SUFFICES ASSUME IInv, Kept, [Next]_vars PROVE Kept'
      OBVIOUS
    <2>1. CASE StartDma
      BY <2>1 DEF StartDma, BeginTransfer, IInv, StageInv
    <2>2. CASE DmaStep
      <3>1. /\ is_in_dma /\ saved_cache' = saved_cache
            /\ \/ is_in_dma' = is_in_dma /\ cache_disable' = cache_disable
               \/ is_in_dma' = FALSE /\ cache_disable' = saved_cache
        BY <2>2 DEF DmaStep, DmaCycle, DmaStall, DmaRead, DmaWrite, TransferRest, EndTransfer,
                    ContinueTransfer, IInv, StageInv
      <3>2. CASE is_in_dma' = is_in_dma /\ cache_disable' = cache_disable
        BY <3>1, <3>2, Zenon
      <3>3. CASE is_in_dma' = FALSE /\ cache_disable' = saved_cache
        <4>1. ~ is_in_dma' /\ (cache_disable' <=> b)
          BY <3>1, <3>3, Zenon
        <4> QED
          BY <4>1, Zenon
      <3> QED
        BY <3>1, <3>2, <3>3, Zenon
    <2>3. CASE Launch \/ LeaveLoop \/ FetchIllegal \/ Fetch
      BY <2>3 DEF Launch, LeaveLoop, FetchIllegal, Fetch, Return, BusRest, transferVars
    <2>4. CASE OpenWindow \/ OpenIntrWindow \/ CloseWindow \/ CloseIntrWindow
      BY <2>4 DEF OpenWindow, OpenIntrWindow, CloseWindow, CloseIntrWindow, Unlock, Relock,
                  BusRest, transferVars
    <2>5. CASE ExecCycle \/ ServiceIrq \/ ServiceNmi \/ ClearInterrupts
      BY <2>5 DEF ExecCycle, ServiceIrq, ServiceNmi, ClearInterrupts, BusRest, transferVars
    <2>6. ASSUME NEW c \in Clients, ClientLock(c) \/ ClientCall(c) PROVE Kept'
      BY <2>6, ClientFrame
    <2>7. CASE UNCHANGED vars
      BY <2>7 DEF vars
    <2> QED
      BY <2>1, <2>2, <2>3, <2>4, <2>5, <2>6, <2>7 DEF Next, CpuStep
  <1>3. Kept => (cache_disable <=> is_in_dma \/ b)
    OBVIOUS
  <1> QED
    BY Invariance, <1>1, <1>2, <1>3, PTL DEF Spec
-----------------------------------------------------------------------------
(* The loop implements SignalService.                                       *)

(* Nothing has been raised, and nothing is masked, before the first launch. *)
LEMMA SignalsInit == Init => Signals!Init
  BY DEF Init, BaseInit, Signals!Init, Running, InInstruction

(* A call of another thread is one step of the service, its taking of the   *)
(* lock none.                                                               *)
LEMMA SignalsCall ==
  ASSUME NEW c \in Clients, ClientLock(c) \/ ClientCall(c)
  PROVE  [Signals!Next]_(Signals!service)
  <1>1. UNCHANGED <<Running, InInstruction>>
    BY ClientFrame DEF Running, InInstruction
  <1>2. CASE ClientLock(c) \/ executor_set_dma_copyin(c) \/ executor_set_dma_copyout(c)
    <2>1. /\ owed' = owed /\ intr_disable' = intr_disable
          /\ flags' = flags \/ flags' = flags \cup {"dma"}
      BY <1>2 DEF ClientLock, signalVars, executor_set_dma_copyin, executor_set_dma_copyout,
                  set_dma
    <2>2. ("stop" \in flags') = ("stop" \in flags)
      BY <2>1
    <2> QED
      BY <1>1, <2>1, <2>2 DEF Signals!service
  <1>3. CASE executor_set_irq(c) \/ executor_set_nmi(c)
    <2>1. PICK interrupt \in {"irq", "nmi"} :
            /\ owed' = owed \cup {interrupt} /\ flags' = flags \cup {interrupt}
            /\ intr_disable' = intr_disable
      BY <1>3 DEF executor_set_irq, executor_set_nmi
    <2>2. ("stop" \in flags') = ("stop" \in flags)
      BY <2>1
    <2>3. Signals!Raise(interrupt)
      BY <1>1, <2>1, <2>2 DEF Signals!Raise
    <2> QED
      BY <2>3 DEF Signals!Next
  <1>4. CASE executor_set_exec_stop(c)
    <2>1. ("stop" \in flags') = TRUE /\ UNCHANGED <<owed, intr_disable>>
      BY <1>4 DEF executor_set_exec_stop
    <2>2. Signals!AskStop
      BY <1>1, <2>1 DEF Signals!AskStop
    <2> QED
      BY <2>2 DEF Signals!Next
  <1>5. CASE executor_hard_reset(c)
    <2>1. ("stop" \in flags') = FALSE /\ owed' = {} /\ intr_disable' = FALSE
      BY <1>5 DEF executor_hard_reset
    <2>2. Signals!Reset
      BY <1>1, <2>1 DEF Signals!Reset
    <2> QED
      BY <2>2 DEF Signals!Next
  <1> QED
    BY <1>2, <1>3, <1>4, <1>5 DEF ClientCall

(* A statement of the loop is a step of the service, or none.               *)
LEMMA SignalsLoop ==
  ASSUME IInv, Launch \/ CpuStep
  PROVE  [Signals!Next]_(Signals!service)
  <1> USE DEF Running, InInstruction
  <1>1. CASE Launch
    <2>1. /\ Running = FALSE /\ Running' = TRUE
          /\ InInstruction = FALSE /\ InInstruction' = FALSE
          /\ ("stop" \in flags') = FALSE /\ owed' = {} /\ intr_disable' = intr_disable
      BY <1>1 DEF Launch
    <2>2. Signals!Launch
      BY <2>1 DEF Signals!Launch
    <2> QED
      BY <2>2 DEF Signals!Next
  <1>2. CASE LeaveLoop \/ FetchIllegal
    <2>1. /\ Running = TRUE /\ Running' = FALSE
          /\ InInstruction = FALSE /\ InInstruction' = FALSE
          /\ ("stop" \in flags') = FALSE /\ owed' = owed /\ intr_disable' = intr_disable
      BY <1>2 DEF LeaveLoop, FetchIllegal, Return
    <2>2. owed = {}
      BY <1>2 DEF LeaveLoop, FetchIllegal, IInv, SignalInv
    <2>3. Signals!Return
      BY <2>1, <2>2 DEF Signals!Return
    <2> QED
      BY <2>3 DEF Signals!Next
  <1>3. CASE Fetch
    <2>1. /\ Running = TRUE /\ Running' = TRUE
          /\ InInstruction = FALSE /\ InInstruction' = TRUE
          /\ ~ "stop" \in flags /\ UNCHANGED <<flags, owed, intr_disable>>
      BY <1>3 DEF Fetch, signalVars
    <2>2. owed = {}
      BY <1>3 DEF Fetch, IInv, SignalInv
    <2>3. Signals!Begin
      BY <2>1, <2>2 DEF Signals!Begin
    <2> QED
      BY <2>3 DEF Signals!Next
  <1>4. CASE OpenWindow \/ OpenIntrWindow \/ CloseWindow \/ CloseIntrWindow
    <2>1. UNCHANGED <<Running, InInstruction, flags, owed, intr_disable>>
      BY <1>4 DEF OpenWindow, OpenIntrWindow, CloseWindow, CloseIntrWindow, Unlock, Relock,
                  signalVars
    <2> QED
      BY <2>1 DEF Signals!service
  <1>5. CASE StartDma
    <2>1. UNCHANGED <<Running, InInstruction, flags, owed, intr_disable>>
      BY <1>5 DEF StartDma, BeginTransfer, signalVars
    <2> QED
      BY <2>1 DEF Signals!service
  <1>6. CASE DmaStep \/ ExecCycle
    <2>1. /\ Running = TRUE /\ Running' = TRUE /\ InInstruction = TRUE
          /\ InInstruction' <=> pc' # "boundary"
          /\ owed' = owed
          /\ flags' = flags \/ flags' = flags \ {"dma"}
      <3>1. CASE DmaStep
        <4>1. pc = "dma" /\ pc' \in {"boundary", "dma", "top"} /\ DmaCycle
          BY <3>1 DEF DmaStep, NextIteration
        <4> QED
          BY <4>1, DmaCycleFrame
      <3>2. CASE ExecCycle
        BY <3>2 DEF ExecCycle, NextIteration, signalVars
      <3> QED
        BY <1>6, <3>1, <3>2
    <2>2. ("stop" \in flags') = ("stop" \in flags)
      BY <2>1
    <2>3. intr_disable' \in BOOLEAN /\ (pc' # "boundary" => intr_disable' = intr_disable)
      <3>1. CASE DmaStep
        <4>1. intr_disable' = intr_disable
          BY <3>1, DmaCycleFrame DEF DmaStep
        <4>2. intr_disable \in BOOLEAN
          BY DEF IInv, TypeOK
        <4> QED
          BY <4>1, <4>2, Zenon
      <3>2. CASE ExecCycle
        <4>1. intr_disable' \in (IF next_stage' = "end" THEN BOOLEAN ELSE {intr_disable})
              /\ (next_stage' = "end" => pc' = "boundary")
          BY <3>2 DEF ExecCycle, NextIteration
        <4>2. intr_disable \in BOOLEAN
          BY DEF IInv, TypeOK
        <4> QED
          BY <4>1, <4>2, Zenon
      <3> QED
        BY <1>6, <3>1, <3>2
    <2>4. CASE pc' = "boundary"
      <3>1. Signals!Finish
        BY <2>1, <2>2, <2>3, <2>4 DEF Signals!Finish
      <3> QED
        BY <3>1 DEF Signals!Next
    <2>5. CASE pc' # "boundary"
      BY <2>1, <2>2, <2>3, <2>5 DEF Signals!service
    <2> QED
      BY <2>4, <2>5
  <1>7. CASE ServiceIrq
    <2>1. /\ Running = TRUE /\ Running' = TRUE
          /\ InInstruction = FALSE /\ InInstruction' = FALSE /\ flags' = flags
      BY <1>7 DEF ServiceIrq
    <2>2. CASE "irq" \in owed
      <3>1. "irq" \in flags
        BY <1>7, <2>2 DEF ServiceIrq, IInv, SignalInv
      <3>2. owed' = owed \ {"irq"}
        BY <1>7, <3>1 DEF ServiceIrq
      <3>3. intr_disable' = TRUE
        <4>1. intr_disable' = IF "irq" \in flags /\ ~ intr_disable THEN TRUE ELSE intr_disable
          BY <1>7, Zenon DEF ServiceIrq
        <4>2. intr_disable \in BOOLEAN
          BY DEF IInv, TypeOK
        <4> QED
          BY <3>1, <4>1, <4>2, Zenon
      <3>4. Signals!Take("irq")
        BY <2>1, <2>2, <3>2, <3>3 DEF Signals!Take
      <3> QED
        BY <3>4 DEF Signals!Next
    <2>3. CASE "irq" \notin owed
      <3>1. "irq" \notin flags
        BY <1>7, <2>3 DEF ServiceIrq, IInv, SignalInv, Interrupts
      <3>2. owed' = owed /\ intr_disable' = intr_disable
        BY <1>7, <3>1 DEF ServiceIrq
      <3> QED
        BY <2>1, <3>2 DEF Signals!service
    <2> QED
      BY <2>2, <2>3
  <1>8. CASE ServiceNmi
    <2>1. /\ Running = TRUE /\ Running' = TRUE
          /\ InInstruction = FALSE /\ InInstruction' = FALSE /\ flags' = flags
      BY <1>8 DEF ServiceNmi
    <2>2. "irq" \notin owed
      BY <1>8 DEF ServiceNmi, IInv, SignalInv
    <2>3. CASE "nmi" \in owed
      <3>1. "nmi" \in flags
        BY <1>8, <2>3 DEF ServiceNmi, IInv, SignalInv
      <3>2. owed' = owed \ {"nmi"} /\ intr_disable' = TRUE
        BY <1>8, <3>1 DEF ServiceNmi
      <3>3. Signals!Take("nmi")
        BY <2>1, <2>2, <2>3, <3>2 DEF Signals!Take
      <3> QED
        BY <3>3 DEF Signals!Next
    <2>4. CASE "nmi" \notin owed
      <3>1. "nmi" \notin flags
        BY <1>8, <2>4 DEF ServiceNmi, IInv, SignalInv, Interrupts
      <3>2. owed' = owed /\ intr_disable' = intr_disable
        BY <1>8, <3>1 DEF ServiceNmi
      <3> QED
        BY <2>1, <3>2 DEF Signals!service
    <2> QED
      BY <2>3, <2>4
  <1>9. CASE ClearInterrupts
    <2>1. UNCHANGED <<Running, InInstruction, owed, intr_disable>> /\ flags' = flags \ Interrupts
      BY <1>9 DEF ClearInterrupts
    <2>2. ("stop" \in flags') = ("stop" \in flags)
      BY <2>1 DEF Interrupts
    <2> QED
      BY <2>1, <2>2 DEF Signals!service
  <1> QED
    BY <1>1, <1>2, <1>3, <1>4, <1>5, <1>6, <1>7, <1>8, <1>9 DEF CpuStep

(* Hidden behind the calls, the lock and its windows are not to be seen:    *)
(* every signal is served as if call and loop never overlapped.             *)
THEOREM SignalsServed == Spec => ServesSignals
  <1>1. IInv /\ [Next]_vars => [Signals!Next]_(Signals!service)
    <2> SUFFICES ASSUME IInv, [Next]_vars PROVE [Signals!Next]_(Signals!service)
      OBVIOUS
    <2>1. CASE UNCHANGED vars
      BY <2>1 DEF vars, Signals!service, Running, InInstruction
    <2> QED
      BY <2>1, SignalsCall, SignalsLoop DEF Next
  <1> QED
    BY Invariance, SignalsInit, <1>1, PTL DEF Spec, ServesSignals, Signals!Spec

-----------------------------------------------------------------------------
(* The loop implements TransferService.                                     *)

(* Neither an instruction nor a request before the first launch.            *)
LEMMA TransfersInit == Init => Transfers!Init
  BY DEF Init, BaseInit, Transfers!Init, Transfers!NoInstr, InProgress, InInstruction, Requests

(* A call of another thread asks for a transfer, withdraws the request, or  *)
(* leaves it as it is: it never comes while one is under way.               *)
LEMMA TransfersCall ==
  ASSUME IInv, NEW c \in Clients, ClientLock(c) \/ ClientCall(c)
  PROVE  [Transfers!Next]_(Transfers!service)
  <1>1. UNCHANGED <<InProgress, is_in_dma, moved>>
    BY ClientFrame DEF InProgress, InInstruction
  <1>2. ~ is_in_dma /\ ~ is_in_dma'
    BY ClientFrame DEF IInv, LockInv, Unlocked, StageInv
  <1>3. /\ Requests = IF "dma" \in flags
                        THEN {[range |-> dma_range, copyout |-> dma_consumer]} ELSE {}
        /\ Requests' = IF "dma" \in flags'
                         THEN {[range |-> dma_range', copyout |-> dma_consumer']} ELSE {}
    BY <1>2 DEF Requests
  <1>4. CASE ClientLock(c) \/ executor_set_irq(c) \/ executor_set_nmi(c)
             \/ executor_set_exec_stop(c)
    <2>1. UNCHANGED requestVars /\ ("dma" \in flags' <=> "dma" \in flags)
      BY <1>4 DEF ClientLock, signalVars, executor_set_irq, executor_set_nmi,
                  executor_set_exec_stop
    <2>2. Requests' = Requests
      BY <1>3, <2>1 DEF requestVars
    <2> QED
      BY <1>1, <2>2 DEF Transfers!service
  <1>5. CASE executor_set_dma_copyin(c) \/ executor_set_dma_copyout(c)
    <2>1. PICK range \in DmaRanges, copyout \in BOOLEAN : set_dma(c, range, copyout)
      BY <1>5 DEF executor_set_dma_copyin, executor_set_dma_copyout
    <2>2. CASE "dma" \in flags
      <3>1. Requests' = Requests
        BY <1>3, <2>1, <2>2 DEF set_dma, requestVars
      <3> QED
        BY <1>1, <3>1 DEF Transfers!service
    <2>3. CASE "dma" \notin flags
      <3>1. Requests = {} /\ Requests' = {[range |-> range, copyout |-> copyout]}
        BY <1>3, <2>1, <2>3 DEF set_dma
      <3>2. Transfers!Ask(range, copyout)
        BY <1>1, <3>1 DEF Transfers!Ask
      <3> QED
        BY <3>2 DEF Transfers!Next
    <2> QED
      BY <2>2, <2>3
  <1>6. CASE executor_hard_reset(c)
    <2>1. Requests' = {}
      BY <1>3, <1>6 DEF executor_hard_reset
    <2>2. Transfers!Withdraw
      BY <1>1, <1>2, <2>1 DEF Transfers!Withdraw
    <2> QED
      BY <2>2 DEF Transfers!Next
  <1> QED
    BY <1>4, <1>5, <1>6 DEF ClientCall

(* One cycle of a transfer is a byte moved, a refusal, or none of these.    *)
LEMMA TransfersCycle ==
  ASSUME IInv, DmaStep
  PROVE  [Transfers!Next]_(Transfers!service)
  <1>1. pc = "dma" /\ is_in_dma /\ DmaCycle
    BY DEF DmaStep, IInv, StageInv
  <1>2. UNCHANGED InProgress
    <2>1. pc' \in {"boundary", "dma", "top"} /\ UNCHANGED <<cycle, cycles_needed>>
      BY DEF DmaStep, NextIteration
    <2> QED
      BY <1>1, <2>1 DEF InProgress, InInstruction
  <1>3. Requests = {Asked} /\ Asked' = Asked
    BY <1>1, DmaCycleFrame DEF Requests, Asked
  <1>4. \/ is_in_dma' = TRUE /\ Requests' = Requests
        \/ is_in_dma' = FALSE /\ Requests' = {}
    <2>1. is_in_dma \in BOOLEAN
      BY DEF IInv, TypeOK
    <2>2. \/ is_in_dma' = TRUE
          \/ is_in_dma' = FALSE /\ flags' = flags \ {"dma"}
      BY <1>1, <2>1, DmaCycleFrame
    <2>3. CASE is_in_dma' = TRUE
      BY <1>3, <2>3 DEF Requests
    <2>4. CASE is_in_dma' = FALSE /\ flags' = flags \ {"dma"}
      BY <2>4 DEF Requests
    <2> QED
      BY <2>2, <2>3, <2>4
  <1>5. CASE DmaStall
    <2>1. moved' = moved /\ is_in_dma' = is_in_dma
      BY <1>5 DEF DmaStall
    <2>2. Requests' = Requests
      BY <1>1, <1>4, <2>1
    <2> QED
      BY <1>2, <2>1, <2>2 DEF Transfers!service
  <1>6. CASE DmaRead
    <2>1. moved' = moved
      BY <1>6 DEF DmaRead
    <2>2. CASE is_in_dma' = TRUE /\ Requests' = Requests
      <3>1. is_in_dma' = is_in_dma
        BY <1>1, <2>2 DEF IInv, TypeOK
      <3> QED
        BY <1>2, <2>1, <2>2, <3>1 DEF Transfers!service
    <2>3. CASE is_in_dma' = FALSE /\ Requests' = {}
      <3>1. ~ is_dma_copyout
        BY <1>1, <1>6, <2>3 DEF DmaRead, ContinueTransfer
      <3>2. ~ Asked.copyout
        BY <3>1 DEF Asked
      <3>3. Transfers!Refuse
        BY <1>1, <1>2, <1>3, <2>1, <2>3, <3>2 DEF Transfers!Refuse
      <3> QED
        BY <3>3 DEF Transfers!Next
    <2> QED
      BY <1>4, <2>2, <2>3
  <1>7. CASE DmaWrite
    <2>1. /\ Transfers!Span(dma_asked) \in 1 .. AddrTop + 1
          /\ Len(moved) \in 0 .. Transfers!Span(dma_asked) - 1
      BY <1>1, InRange DEF IInv
    <2>2. Len(moved) < Transfers!Span(dma_asked)
      BY <2>1, AddrTopAssumption
    <2>3. /\ moved' = Append(moved, Transfers!MoveOf(Asked, Len(moved)))
          /\ Len(moved') = Len(moved) + 1
      <3>1. UNCHANGED <<dma_asked, is_dma_copyout>>
        BY <1>1, DmaCycleFrame
      <3> QED
        BY <1>1, <1>7, <3>1, WriteRecords, MovedAppend DEF IInv
    <2>4. Asked.range = dma_asked /\ Asked.copyout = is_dma_copyout
      BY DEF Asked
    <2>5. \/ /\ Len(moved') < Transfers!Span(Asked.range)
             /\ Requests' = Requests /\ is_in_dma' = is_in_dma
          \/ /\ Len(moved') = Transfers!Span(Asked.range) \/ Asked.copyout
             /\ Requests' = {} /\ is_in_dma' = FALSE
      <3>1. CASE is_in_dma' = TRUE /\ Requests' = Requests
        <4>1. Len(moved) + 1 # Transfers!Span(dma_asked)
          BY <1>1, <1>7, <3>1, WriteAdvances DEF IInv
        <4>2. Len(moved') < Transfers!Span(dma_asked)
          BY <2>1, <2>3, <4>1, AddrTopAssumption
        <4>3. is_in_dma' = is_in_dma
          BY <1>1, <3>1 DEF IInv, TypeOK
        <4> QED
          BY <2>4, <3>1, <4>2, <4>3
      <3>2. CASE is_in_dma' = FALSE /\ Requests' = {}
        <4>1. Len(moved) + 1 = Transfers!Span(dma_asked) \/ is_dma_copyout
          BY <1>1, <1>7, <3>2, WriteAdvances DEF IInv
        <4> QED
          BY <2>3, <2>4, <3>2, <4>1
      <3> QED
        BY <1>4, <3>1, <3>2
    <2>6. Asked \in Requests
      BY <1>3
    <2>7. Transfers!Move
      <3>1. InProgress' = InProgress
        BY <1>2
      <3> QED
        BY <1>1, <2>2, <2>3, <2>4, <2>5, <2>6, <3>1 DEF Transfers!Move
    <2> QED
      BY <2>7 DEF Transfers!Next
  <1> QED
    BY <1>1, <1>5, <1>6, <1>7 DEF DmaCycle

(* A statement of the loop is a step of the service, or none.               *)
LEMMA TransfersLoop ==
  ASSUME IInv, Launch \/ CpuStep
  PROVE  [Transfers!Next]_(Transfers!service)
  <1> USE DEF InProgress, InInstruction
  <1>1. CASE Launch
    <2>1. /\ InProgress' = InProgress /\ moved' = moved
          /\ ~ is_in_dma /\ is_in_dma' = is_in_dma /\ "dma" \notin flags'
      BY <1>1 DEF Launch, BusRest, transferVars, IInv, StageInv
    <2>2. Requests' = {}
      BY <2>1 DEF Requests
    <2>3. Transfers!Withdraw
      BY <2>1, <2>2 DEF Transfers!Withdraw
    <2> QED
      BY <2>3 DEF Transfers!Next
  <1>2. CASE LeaveLoop \/ FetchIllegal
    <2>1. /\ InProgress' = InProgress
          /\ UNCHANGED <<moved, is_in_dma, dma_range, dma_consumer, dma_asked, is_dma_copyout>>
          /\ "dma" \in flags' <=> "dma" \in flags
      BY <1>2 DEF LeaveLoop, FetchIllegal, Return, BusRest, transferVars, requestVars
    <2>2. Requests' = Requests
      BY <2>1 DEF Requests, Asked
    <2> QED
      BY <2>1, <2>2 DEF Transfers!service
  <1>3. CASE Fetch
    <2>1. /\ UNCHANGED <<moved, is_in_dma, dma_range, dma_consumer, dma_asked, is_dma_copyout>>
          /\ flags' = flags
      BY <1>3 DEF Fetch, BusRest, transferVars, requestVars, signalVars
    <2>2. Requests' = Requests
      BY <2>1 DEF Requests, Asked
    <2>3. PICK needed \in InstrCycles : cycles_needed' = needed
      BY <1>3 DEF Fetch
    <2>4. InProgress = Transfers!NoInstr /\ InProgress' = [ran |-> 1, needed |-> needed]
      BY <1>3, <2>3 DEF Fetch, Transfers!NoInstr
    <2>5. Transfers!Fetch
      BY <2>1, <2>2, <2>4 DEF Transfers!Fetch
    <2> QED
      BY <2>5 DEF Transfers!Next
  <1>4. CASE OpenWindow \/ CloseWindow \/ CloseIntrWindow
    <2>1. /\ InProgress' = InProgress
          /\ UNCHANGED <<moved, is_in_dma, dma_range, dma_consumer, dma_asked, is_dma_copyout,
                         flags>>
      BY <1>4 DEF OpenWindow, CloseWindow, CloseIntrWindow, Unlock, Relock, BusRest,
                  transferVars, requestVars, signalVars
    <2>2. Requests' = Requests
      BY <2>1 DEF Requests, Asked
    <2> QED
      BY <2>1, <2>2 DEF Transfers!service
  <1>5. CASE OpenIntrWindow
    <2>1. /\ UNCHANGED <<moved, is_in_dma, dma_range, dma_consumer, dma_asked, is_dma_copyout,
                         flags>>
          /\ ~ is_in_dma
          /\ InProgress = [ran |-> cycle, needed |-> cycles_needed]
          /\ InProgress' = Transfers!NoInstr
      BY <1>5 DEF OpenIntrWindow, Unlock, BusRest, transferVars, requestVars, signalVars, IInv,
                  StageInv, Transfers!NoInstr
    <2>2. Requests' = Requests
      BY <2>1 DEF Requests, Asked
    <2>3. cycle \in {1, cycles_needed}
      BY <1>5 DEF OpenIntrWindow, Unlock, IInv, StageInv, AllOrNothing
    <2> QED
      <3>1. CASE InProgress = Transfers!NoInstr
        BY <2>1, <2>2, <3>1 DEF Transfers!service
      <3>2. CASE InProgress # Transfers!NoInstr
        <4>1. Transfers!Complete
          BY <2>1, <2>2, <2>3, <3>2 DEF Transfers!Complete
        <4> QED
          BY <4>1 DEF Transfers!Next
      <3> QED
        BY <3>1, <3>2
  <1>6. CASE StartDma
    <2>1. /\ pc = "check" /\ pc' = "dma" /\ UNCHANGED <<cycle, cycles_needed>>
          /\ "dma" \in flags /\ is_in_dma' = TRUE /\ moved' = <<>>
          /\ dma_asked' = dma_range /\ is_dma_copyout' = dma_consumer
      BY <1>6 DEF StartDma, BeginTransfer
    <2>2. ~ is_in_dma /\ cycle # 0
      BY <2>1 DEF IInv, StageInv, InMiddle
    <2>3. Requests = {[range |-> dma_range, copyout |-> dma_consumer]} /\ Requests' = Requests
      BY <2>1, <2>2 DEF Requests, Asked
    <2>4. InProgress # Transfers!NoInstr /\ InProgress' = InProgress
      BY <2>1, <2>2 DEF Transfers!NoInstr
    <2>5. Transfers!Start
      BY <2>1, <2>2, <2>3, <2>4 DEF Transfers!Start
    <2> QED
      BY <2>5 DEF Transfers!Next
  <1>7. CASE DmaStep
    BY <1>7, TransfersCycle
  <1>8. CASE ExecCycle
    <2>1. /\ pc = "check" /\ pc' \in {"top", "boundary", "dma"} /\ "dma" \notin flags
          /\ cycle' = NextCycle
          /\ UNCHANGED <<moved, is_in_dma, flags, cycles_needed>>
      BY <1>8 DEF ExecCycle, NextIteration, BusRest, transferVars, signalVars
    <2>2. ~ is_in_dma /\ InMiddle /\ cycles_needed \in Nat
      BY <2>1 DEF IInv, StageInv, TypeOK
    <2>3. Requests = {} /\ Requests' = {}
      BY <2>1, <2>2 DEF Requests
    <2>4. /\ InProgress = [ran |-> cycle, needed |-> cycles_needed]
          /\ InProgress' = [ran |-> NextCycle, needed |-> cycles_needed]
          /\ InProgress # Transfers!NoInstr
          /\ cycles_needed # Endless => cycle < cycles_needed
      BY <2>1, <2>2 DEF InMiddle, Transfers!NoInstr
    <2>5. Transfers!Cycle
      BY <2>1, <2>3, <2>4 DEF Transfers!Cycle, Transfers!Endless, Endless, NextCycle
    <2> QED
      BY <2>5 DEF Transfers!Next
  <1>9. CASE ServiceIrq \/ ServiceNmi \/ ClearInterrupts
    <2>1. /\ InProgress' = InProgress
          /\ UNCHANGED <<moved, is_in_dma, dma_range, dma_consumer, dma_asked, is_dma_copyout>>
          /\ "dma" \in flags' <=> "dma" \in flags
      BY <1>9 DEF ServiceIrq, ServiceNmi, ClearInterrupts, BusRest, transferVars, requestVars,
                  Interrupts
    <2>2. Requests' = Requests
      BY <2>1 DEF Requests, Asked
    <2> QED
      BY <2>1, <2>2 DEF Transfers!service
  <1> QED
    BY <1>1, <1>2, <1>3, <1>4, <1>5, <1>6, <1>7, <1>8, <1>9 DEF CpuStep

(* A request accepted is carried out as it was made, for every range, every *)
(* provider and consumer, and every moment at which the call comes.         *)
THEOREM TransfersServed == Spec => ServesTransfers
  <1>1. IInv /\ [Next]_vars => [Transfers!Next]_(Transfers!service)
    <2> SUFFICES ASSUME IInv, [Next]_vars PROVE [Transfers!Next]_(Transfers!service)
      OBVIOUS
    <2>1. CASE UNCHANGED vars
      BY <2>1 DEF Transfers!service, vars, InProgress, InInstruction, Requests, Asked
    <2> QED
      BY <2>1, TransfersCall, TransfersLoop DEF Next
  <1> QED
    BY Invariance, TransfersInit, <1>1, PTL DEF Spec, ServesTransfers, Transfers!Spec
=============================================================================
