------------------------ MODULE ExecutorStaticProofs ------------------------
(* Proofs that the invariants of ExecutorStatic hold for every set of       *)
(* clients, address space and set of requested ranges.  The loop lets go of *)
(* state_lock in the middle of a transfer, so that unlike in the staged     *)
(* loop it is not the lock that keeps requests away from one but its flag.  *)
EXTENDS ExecutorStatic, ExecutorBaseProofs

(* The values a freshly allocated executor holds are of the declared types. *)
LEMMA TypeInit == Init => TypeOK
  <1> SUFFICES ASSUME Init PROVE TypeOK
    OBVIOUS
  <1>1. 0 \in Addr /\ Unset \in Byte
    BY AddrTopAssumption DEF Addr, Byte, Unset
  <1>2. dma_asked \in [addr_lo : Addr, addr_len : Addr]
    BY <1>1 DEF Init, BaseInit
  <1>3. moved \in Seq(Addr \X Byte)
    BY DEF Init, BaseInit
  <1> QED
    BY <1>1, <1>2, <1>3, DmaRangesAssumption
    DEF Init, BaseInit, TypeOK, Flags, Interrupts, Labels, Unlocked, Stages

(* Every statement of the loop and every call keeps the types.              *)
LEMMA TypeStep == TypeOK /\ [Next]_staticVars => TypeOK'
  <1> SUFFICES ASSUME TypeOK, [Next]_staticVars PROVE TypeOK'
    OBVIOUS
  <1> USE DEF TypeOK, Labels, Unlocked, Stages, LoopRest, StageRest, requestVars, transferVars,
              signalVars
  <1>1. CASE Launch
    <2>1. is_in_dma' \in BOOLEAN
      BY <1>1, Zenon DEF Launch
    <2> QED
      BY <1>1, <2>1 DEF Launch
  <1>2. CASE LeaveLoop \/ FetchIllegal
    BY <1>2 DEF LeaveLoop, FetchIllegal, Return
  <1>3. CASE Fetch
    BY <1>3 DEF Fetch
  <1>4. CASE OpenWindow \/ OpenIntrWindow
    BY <1>4 DEF OpenWindow, OpenIntrWindow, Unlock
  <1>5. CASE CloseWindow \/ CloseIntrWindow
    BY <1>5 DEF CloseWindow, CloseIntrWindow, Relock
  <1>6. CASE StartDma
    <2>1. get_end(dma_range) \in Addr /\ 0 \in Addr
      BY GetEndFacts, AddrTopAssumption DEF Addr
    <2>2. moved' \in Seq(Addr \X Byte)
      BY <1>6 DEF StartDma, BeginTransfer
    <2> QED
      BY <1>6, <2>1, <2>2 DEF StartDma, BeginTransfer
  <1>7. CASE DmaStep
    <2>1. pc' \in Labels /\ UNCHANGED <<cycle, cycles_needed, disturbed>> /\ DmaCycle
      BY <1>7 DEF DmaStep
    <2>2. TransferTypes'
      BY <2>1, DmaCycleTypes DEF TransferTypes
    <2> QED
      BY <2>1, <2>2, DmaCycleFrame DEF TransferTypes
  <1>8. CASE Execute
    BY <1>8 DEF Execute
  <1>9. CASE ServiceIrq
    <2>1. intr_disable' \in BOOLEAN
      BY <1>9, Zenon DEF ServiceIrq
    <2> QED
      BY <1>9, <2>1 DEF ServiceIrq
  <1>10. CASE ServiceNmi
    <2>1. intr_disable' \in BOOLEAN
      BY <1>10, Zenon DEF ServiceNmi
    <2> QED
      BY <1>10, <2>1 DEF ServiceNmi
  <1>11. CASE ClearInterrupts
    BY <1>11 DEF ClearInterrupts
  <1>12. ASSUME NEW c \in Clients,
                (ClientLock(c) /\ UNCHANGED disturbed) \/ ClientStep(c)
         PROVE  TypeOK'
    <2>1. disturbed' \in BOOLEAN
      BY <1>12, Zenon DEF ClientStep
    <2> QED
      BY <1>12, <2>1, ClientFrame, ClientEffect DEF ClientStep
  <1>13. CASE UNCHANGED staticVars
    BY <1>13 DEF staticVars, vars
  <1> QED
    BY <1>1, <1>2, <1>3, <1>4, <1>5, <1>6, <1>7, <1>8, <1>9, <1>10, <1>11, <1>12, <1>13
    DEF Next, CpuStep

(* Every variable of the executor and of the launch function keeps its type *)
(* whatever the clients do.                                                 *)
THEOREM TypeCorrect == Spec => []TypeOK
  BY TypeInit, TypeStep, PTL DEF Spec

-----------------------------------------------------------------------------
(* A client inside a call holds the lock, so the launching thread does not. *)
LEMMA LockStep == TypeOK /\ LockInv /\ [Next]_staticVars => LockInv'
  <1> SUFFICES ASSUME TypeOK, LockInv, [Next]_staticVars PROVE LockInv'
    OBVIOUS
  <1> USE ThreadFacts DEF LockInv, Unlocked
  <1>1. CASE Launch \/ LeaveLoop \/ FetchIllegal \/ Fetch
    BY <1>1 DEF Launch, LeaveLoop, FetchIllegal, Fetch, Return
  <1>2. CASE OpenWindow \/ OpenIntrWindow \/ CloseWindow \/ CloseIntrWindow
    BY <1>2 DEF OpenWindow, OpenIntrWindow, CloseWindow, CloseIntrWindow, Unlock, Relock
  <1>3. CASE StartDma
    BY <1>3 DEF StartDma, BeginTransfer
  <1>4. CASE DmaStep
    BY <1>4, DmaCycleFrame DEF DmaStep
  <1>5. CASE Execute \/ ServiceIrq \/ ServiceNmi \/ ClearInterrupts
    BY <1>5 DEF Execute, ServiceIrq, ServiceNmi, ClearInterrupts
  <1>6. ASSUME NEW c \in Clients, ClientLock(c) \/ ClientStep(c) PROVE LockInv'
    BY <1>6, ClientFrame DEF ClientStep
  <1>7. CASE UNCHANGED staticVars
    BY <1>7 DEF staticVars, vars
  <1> QED
    BY <1>1, <1>2, <1>3, <1>4, <1>5, <1>6, <1>7 DEF Next, CpuStep

(* The launching thread clears the interrupt flags without having let go of *)
(* the lock since it looked at them.                                        *)
LEMMA SignalStep == TypeOK /\ LockInv /\ SignalInv /\ [Next]_staticVars => SignalInv'
  <1> SUFFICES ASSUME TypeOK, LockInv, SignalInv, [Next]_staticVars PROVE SignalInv'
    OBVIOUS
  <1> USE DEF SignalInv
  <1>1. CASE Launch
    <2>1. is_in_dma' \in BOOLEAN
      BY <1>1, Zenon DEF Launch
    <2> QED
      BY <1>1, <2>1 DEF Launch
  <1>2. CASE LeaveLoop \/ FetchIllegal \/ Fetch
    BY <1>2 DEF LeaveLoop, FetchIllegal, Fetch, Return, signalVars, TypeOK, Interrupts
  <1>3. CASE OpenWindow \/ OpenIntrWindow \/ CloseWindow \/ CloseIntrWindow
    BY <1>3 DEF OpenWindow, OpenIntrWindow, CloseWindow, CloseIntrWindow, Unlock, Relock,
                signalVars
  <1>4. CASE StartDma
    BY <1>4 DEF StartDma, BeginTransfer, signalVars
  <1>5. CASE DmaStep
    <2>1. pc = "dma" /\ pc' = "boundary" /\ owed' = owed
          /\ (flags' = flags \/ flags' = flags \ {"dma"})
      BY <1>5, DmaCycleFrame DEF DmaStep
    <2>2. flags' \cap Interrupts = flags \cap Interrupts
      BY <2>1 DEF Interrupts
    <2>3. owed' = flags' \cap Interrupts
      BY <2>1, <2>2
    <2> QED
      BY <2>1, <2>3
  <1>6. CASE Execute
    BY <1>6 DEF Execute, signalVars
  <1>7. CASE ServiceIrq
    <2>1. pc = "irq" /\ pc' = "nmi" /\ flags' = flags
      BY <1>7 DEF ServiceIrq
    <2>2. owed' = owed \ {"irq"}
      BY <1>7 DEF ServiceIrq, Interrupts
    <2> QED
      BY <2>1, <2>2
  <1>8. CASE ServiceNmi
    <2>1. /\ pc = "nmi" /\ pc' = "clear" /\ owed' \subseteq owed
          /\ "nmi" \in flags => "nmi" \notin owed'
      BY <1>8 DEF ServiceNmi
    <2> QED
      BY <2>1 DEF Interrupts
  <1>9. CASE ClearInterrupts
    BY <1>9 DEF ClearInterrupts, Interrupts
  <1>10. ASSUME NEW c \in Clients, ClientLock(c) \/ ClientStep(c) PROVE SignalInv'
    <2>1. pc \in {"idle", "window", "intr_window"} /\ pc' = pc
      BY <1>10, ClientFrame DEF ClientStep, LockInv, Unlocked
    <2>2. owed = flags \cap Interrupts => owed' = flags' \cap Interrupts
      BY <1>10, ClientEffect DEF ClientStep, TypeOK
    <2>3. owed' = flags' \cap Interrupts
      BY <2>1, <2>2
    <2> QED
      BY <2>1, <2>3
  <1>11. CASE UNCHANGED staticVars
    BY <1>11 DEF staticVars, vars
  <1> QED
    BY <1>1, <1>2, <1>3, <1>4, <1>5, <1>6, <1>7, <1>8, <1>9, <1>10, <1>11 DEF Next, CpuStep

(* The loop goes to a transfer's cycle exactly when one is in progress.     *)
LEMMA PlaceStep == TypeOK /\ LockInv /\ PlaceInv /\ [Next]_staticVars => PlaceInv'
  <1> SUFFICES ASSUME TypeOK, LockInv, PlaceInv, [Next]_staticVars PROVE PlaceInv'
    OBVIOUS
  <1> USE DEF PlaceInv, LoopRest, transferVars
  <1>1. CASE Launch \/ LeaveLoop \/ FetchIllegal \/ Fetch
    BY <1>1 DEF Launch, LeaveLoop, FetchIllegal, Fetch, Return
  <1>2. CASE OpenWindow \/ OpenIntrWindow \/ CloseWindow \/ CloseIntrWindow
    BY <1>2 DEF OpenWindow, OpenIntrWindow, CloseWindow, CloseIntrWindow, Unlock, Relock
  <1>3. CASE StartDma \/ DmaStep
    BY <1>3 DEF StartDma, BeginTransfer, DmaStep
  <1>4. CASE Execute \/ ServiceIrq \/ ServiceNmi \/ ClearInterrupts
    BY <1>4 DEF Execute, ServiceIrq, ServiceNmi, ClearInterrupts
  <1>5. ASSUME NEW c \in Clients, ClientLock(c) \/ ClientStep(c) PROVE PlaceInv'
    BY <1>5, ClientFrame DEF ClientStep
  <1>6. CASE UNCHANGED staticVars
    BY <1>6 DEF staticVars, vars
  <1> QED
    BY <1>1, <1>2, <1>3, <1>4, <1>5, <1>6 DEF Next, CpuStep

-----------------------------------------------------------------------------
(* StoresInRange speaks of these variables only, and is kept when the       *)
(* executor is reset.                                                       *)
LEMMA StoresUnchanged ==
  ASSUME StoresInRange, UNCHANGED <<moved, dma_asked, is_dma_copyout>>, disturbed => disturbed'
  PROVE  StoresInRange'
  BY DEF StoresInRange, Proper

(* One more store, to the cell after the last one.                          *)
LEMMA StoresAppend ==
  ASSUME TypeOK, StoresInRange, Proper(dma_asked), ~ is_dma_copyout, ~ disturbed,
         Len(moved) < dma_asked.addr_len, UNCHANGED <<dma_asked, is_dma_copyout>>,
         NEW m, m[1] = dma_asked.addr_lo + Len(moved), moved' = Append(moved, m)
  PROVE  StoresInRange' /\ Len(moved') = Len(moved) + 1
  <1> DEFINE n == Len(moved)
             lo == dma_asked.addr_lo
  <1>1. moved \in Seq(Addr \X Byte) /\ dma_asked.addr_len \in Nat /\ lo \in Nat /\ n \in Nat
    BY DEF TypeOK, Addr
  <1>2. Len(moved') = n + 1
    BY <1>1
  <1>3. ASSUME NEW i \in 1 .. n + 1 PROVE moved'[i][1] = lo + i - 1
    <2>1. CASE i = n + 1
      <3>1. moved'[i] = m
        BY <1>1, <2>1
      <3>2. lo + i - 1 = lo + n
        <4> HIDE DEF n, lo
        <4> QED
          BY <1>1, <2>1
      <3> QED
        BY <3>1, <3>2
    <2>2. CASE i \in 1 .. n
      <3>1. moved'[i] = moved[i]
        BY <1>1, <2>2
      <3> QED
        BY <2>2, <3>1 DEF StoresInRange
    <2> QED
      BY <1>1, <2>1, <2>2
  <1>4. n + 1 <= dma_asked.addr_len
    BY <1>1
  <1>5. StoresInRange'
    BY <1>2, <1>3, <1>4 DEF StoresInRange
  <1> QED
    BY <1>2, <1>5

(* When a transfer begins nothing has moved and its end lies ahead.         *)
LEMMA TransferStart == TypeOK /\ StartDma => TransferInv'
  <1> SUFFICES ASSUME TypeOK, StartDma PROVE TransferInv'
    OBVIOUS
  <1>1. /\ moved' = <<>> /\ dma_asked' = dma_range /\ dma_range' = dma_range
        /\ dma_addr_hi' = get_end(dma_range) /\ "dma" \in flags'
    BY DEF StartDma, BeginTransfer, requestVars, signalVars
  <1>2. dma_range.addr_lo \in Nat /\ dma_range.addr_len \in Nat
    BY DEF TypeOK, Addr
  <1>3. Len(moved') = 0
    BY <1>1
  <1>4. StoresInRange'
    BY <1>1, <1>2, <1>3 DEF StoresInRange, Proper
  <1>5. ASSUME Proper(dma_range)
        PROVE  /\ dma_addr_hi' = dma_asked'.addr_lo + dma_asked'.addr_len
               /\ Len(moved') < dma_asked'.addr_len
               /\ dma_range'.addr_lo = dma_asked'.addr_lo + Len(moved')
    <2>1. get_end(dma_range) = dma_range.addr_lo + dma_range.addr_len
      BY <1>5, GetEndFacts DEF TypeOK, Proper
    <2>2. 0 < dma_range.addr_len /\ dma_range.addr_lo = dma_range.addr_lo + 0
      BY <1>2, <1>5 DEF Proper
    <2> QED
      BY <1>1, <1>3, <2>1, <2>2
  <1> QED
    BY <1>1, <1>4, <1>5 DEF TransferInv, Proper

(* A cycle of the transfer stores to the next cell or to none.              *)
LEMMA TransferCycle ==
  TypeOK /\ TransferInv /\ is_in_dma /\ DmaCycle /\ UNCHANGED disturbed => TransferInv'
  <1> SUFFICES ASSUME TypeOK, TransferInv, is_in_dma, DmaCycle, UNCHANGED disturbed
               PROVE  TransferInv'
    OBVIOUS
  <1>1. /\ UNCHANGED <<dma_asked, is_dma_copyout, dma_addr_hi>>
        /\ is_in_dma' => flags' = flags
    BY DmaCycleFrame
  <1>2. is_in_dma' /\ ~ disturbed' => "dma" \in flags'
    BY <1>1 DEF TransferInv
  <1>3. CASE disturbed \/ is_dma_copyout \/ ~ Proper(dma_asked)
    <2>1. StoresInRange'
      BY <1>1, <1>3 DEF StoresInRange, Proper
    <2> QED
      BY <1>1, <1>2, <1>3, <2>1 DEF TransferInv, Proper
  <1>4. CASE ~ disturbed /\ ~ is_dma_copyout /\ Proper(dma_asked)
    <2> DEFINE n == Len(moved)
               lo == dma_asked.addr_lo
               len == dma_asked.addr_len
    <2>1. /\ n \in Nat /\ lo \in Nat /\ len \in Nat /\ lo + len <= AddrTop /\ n < len
          /\ dma_addr_hi = lo + len /\ dma_range.addr_lo = lo + n
      BY <1>4 DEF TypeOK, Addr, Proper, TransferInv
    <2>2. CASE DmaStall \/ DmaRead
      <3>1. UNCHANGED <<moved, dma_range>>
        BY <1>4, <2>2 DEF DmaStall, DmaRead
      <3>2. StoresInRange'
        BY <1>1, <3>1, StoresUnchanged DEF TransferInv
      <3> QED
        BY <1>1, <1>2, <1>4, <3>1, <3>2 DEF TransferInv, Proper
    <2>3. CASE DmaWrite
      <3> DEFINE m == <<dma_range.addr_lo, dma_next_byte>>
      <3>1. moved' = Append(moved, m)
        <4>1. Len(moved) <= AddrTop
          <5> HIDE DEF n, lo, len
          <5>1. n <= AddrTop
            BY <2>1, AddrTopAssumption
          <5> QED
            BY <5>1 DEF n
        <4> QED
          BY <1>4, <2>3, <4>1 DEF DmaWrite, Recorded
      <3>2. StoresInRange' /\ Len(moved') = n + 1
        <4>1. m[1] = lo + n
          BY <2>1
        <4> HIDE DEF m
        <4> QED
          BY <1>1, <1>4, <2>1, <3>1, <4>1, StoresAppend DEF TransferInv
      <3>3. dma_range'.addr_lo = lo + (n + 1)
        <4>1. NextAddr(lo + n) = lo + (n + 1)
          <5> HIDE DEF n, lo, len
          <5>1. lo + n \in Addr /\ lo + n < AddrTop
            BY <2>1, AddrTopAssumption DEF Addr
          <5> QED
            BY <2>1, <5>1, NextAddrFacts
        <4> QED
          BY <1>4, <2>1, <2>3, <4>1 DEF DmaWrite, TypeOK
      <3>4. CASE ~ is_in_dma'
        BY <3>2, <3>4 DEF TransferInv
      <3>5. CASE is_in_dma'
        <4>1. ~ (dma_range'.addr_lo >= dma_addr_hi)
          BY <2>3, <3>5 DEF DmaWrite, EndTransfer
        <4>2. n + 1 < len
          <5> HIDE DEF n, lo, len
          <5> QED
            BY <2>1, <3>3, <4>1
        <4> QED
          BY <1>1, <1>2, <2>1, <3>2, <3>3, <4>2 DEF TransferInv
      <3> QED
        BY <3>4, <3>5
    <2> QED
      BY <2>2, <2>3 DEF DmaCycle
  <1> QED
    BY <1>3, <1>4

(* Between its cycles the loop leaves a transfer alone, and so do the       *)
(* clients as long as its flag is up.                                       *)
LEMMA TransferStep ==
  TypeOK /\ LockInv /\ PlaceInv /\ TransferInv /\ [Next]_staticVars => TransferInv'
  <1> SUFFICES ASSUME TypeOK, LockInv, PlaceInv, TransferInv, [Next]_staticVars
               PROVE  TransferInv'
    OBVIOUS
  <1>1. ASSUME UNCHANGED <<moved, dma_asked, is_dma_copyout, dma_addr_hi>>,
               disturbed => disturbed',
               is_in_dma' /\ ~ disturbed' =>
                 is_in_dma /\ "dma" \in flags' /\ dma_range' = dma_range
        PROVE  TransferInv'
    <2>1. StoresInRange'
      BY <1>1, StoresUnchanged DEF TransferInv
    <2> QED
      BY <1>1, <2>1 DEF TransferInv, Proper
  <1> USE DEF LoopRest, transferVars, requestVars, signalVars
  <1>2. CASE StartDma
    BY <1>2, TransferStart
  <1>3. CASE DmaStep
    BY <1>3, TransferCycle DEF DmaStep, PlaceInv
  <1>4. CASE Launch
    BY <1>1, <1>4 DEF Launch
  <1>5. CASE LeaveLoop \/ FetchIllegal \/ Fetch
    BY <1>1, <1>5 DEF LeaveLoop, FetchIllegal, Fetch, Return, TransferInv
  <1>6. CASE OpenWindow \/ OpenIntrWindow \/ CloseWindow \/ CloseIntrWindow
    BY <1>1, <1>6 DEF OpenWindow, OpenIntrWindow, CloseWindow, CloseIntrWindow, Unlock, Relock,
                      TransferInv
  <1>7. CASE Execute \/ ServiceIrq \/ ServiceNmi \/ ClearInterrupts
    BY <1>1, <1>7 DEF Execute, ServiceIrq, ServiceNmi, ClearInterrupts, TransferInv, Interrupts
  <1>8. ASSUME NEW c \in Clients, ClientLock(c), UNCHANGED disturbed PROVE TransferInv'
    BY <1>1, <1>8 DEF ClientLock, TransferInv
  <1>9. ASSUME NEW c \in Clients, ClientStep(c) PROVE TransferInv'
    <2>1. /\ UNCHANGED <<moved, dma_asked, is_dma_copyout, dma_addr_hi, is_in_dma>>
          /\ "dma" \in flags => dma_range' = dma_range
      BY <1>9, ClientFrame, ClientEffect DEF ClientStep, TypeOK
    <2>2. /\ disturbed => disturbed'
          /\ is_in_dma /\ ~ disturbed' => "dma" \in flags'
      BY <1>9, Zenon DEF ClientStep
    <2> QED
      BY <1>1, <2>1, <2>2 DEF TransferInv
  <1>10. CASE UNCHANGED staticVars
    BY <1>1, <1>10 DEF staticVars, vars, TransferInv
  <1> QED
    BY <1>2, <1>3, <1>4, <1>5, <1>6, <1>7, <1>8, <1>9, <1>10 DEF Next, CpuStep

-----------------------------------------------------------------------------
(* The strengthened invariant holds in every reachable state.               *)
THEOREM Invariance == Spec => []IInv
  <1>1. Init => IInv
    <2> SUFFICES ASSUME Init PROVE IInv
      OBVIOUS
    <2>1. TypeOK
      BY TypeInit
    <2>2. LockInv /\ SignalInv /\ PlaceInv
      BY ThreadFacts DEF Init, BaseInit, LockInv, Unlocked, SignalInv, PlaceInv
    <2>3. StoresInRange /\ ~ is_in_dma
      BY DEF Init, BaseInit, StoresInRange, Proper
    <2> QED
      BY <2>1, <2>2, <2>3 DEF IInv, TransferInv
  <1>2. IInv /\ [Next]_staticVars => IInv'
    BY TypeStep, LockStep, SignalStep, PlaceStep, TransferStep DEF IInv
  <1> QED
    BY <1>1, <1>2, PTL DEF Spec

(* Interrupts raised in the middle of a transfer are not wiped out unseen.  *)
THEOREM SignalsAreHeld == Spec => []SignalsHeld
  <1>1. IInv => SignalsHeld
    BY DEF IInv, TypeOK, Labels, Unlocked, SignalInv, SignalsHeld
  <1> QED
    BY Invariance, <1>1, PTL

(* No call but a reset redirects a transfer into memory that is in          *)
(* progress.                                                                *)
THEOREM StoresStayInRange == Spec => []StoresInRange
  <1>1. IInv => StoresInRange
    BY DEF IInv, TransferInv
  <1> QED
    BY Invariance, <1>1, PTL

(* The bus's caches are off exactly while a transfer is in progress.        *)
THEOREM CachesRestored == Spec => CacheRestored
  <1> SUFFICES ASSUME NEW b \in BOOLEAN
               PROVE  Spec /\ (cache_disable <=> b) => [](cache_disable <=> is_in_dma \/ b)
    BY DEF CacheRestored
  <1> DEFINE Kept == /\ cache_disable <=> is_in_dma \/ b
                     /\ is_in_dma => (saved_cache <=> b)
  <1>1. Init /\ (cache_disable <=> b) => Kept
    BY DEF Init, BaseInit
  <1>2. IInv /\ Kept /\ [Next]_staticVars => Kept'
    <2> SUFFICES ASSUME IInv, Kept, [Next]_staticVars PROVE Kept'
      OBVIOUS
    <2> USE DEF LoopRest, transferVars
    <2>1. CASE StartDma
      BY <2>1 DEF StartDma, BeginTransfer, IInv, PlaceInv
    <2>2. CASE DmaStep
      <3>1. /\ is_in_dma /\ saved_cache' = saved_cache
            /\ \/ is_in_dma' = is_in_dma /\ cache_disable' = cache_disable
               \/ is_in_dma' = FALSE /\ cache_disable' = saved_cache
        BY <2>2, DmaCycleFrame DEF DmaStep, IInv, PlaceInv
      <3>2. CASE is_in_dma' = is_in_dma /\ cache_disable' = cache_disable
        BY <3>1, <3>2, Zenon
      <3>3. CASE is_in_dma' = FALSE /\ cache_disable' = saved_cache
        <4>1. ~ is_in_dma' /\ (cache_disable' <=> b)
          BY <3>1, <3>3, Zenon
        <4> QED
          BY <4>1, Zenon
      <3> QED
        BY <3>1, <3>2, <3>3, Zenon
    <2>3. CASE Launch
      <3>1. pc = "idle"
        BY <2>3, ThreadFacts DEF Launch, IInv, LockInv, Unlocked
      <3> QED
        BY <2>3, <3>1 DEF Launch, IInv, PlaceInv
    <2>4. CASE LeaveLoop \/ FetchIllegal \/ Fetch
      BY <2>4 DEF LeaveLoop, FetchIllegal, Fetch, Return
    <2>5. CASE OpenWindow \/ OpenIntrWindow \/ CloseWindow \/ CloseIntrWindow
      BY <2>5 DEF OpenWindow, OpenIntrWindow, CloseWindow, CloseIntrWindow, Unlock, Relock
    <2>6. CASE Execute \/ ServiceIrq \/ ServiceNmi \/ ClearInterrupts
      BY <2>6 DEF Execute, ServiceIrq, ServiceNmi, ClearInterrupts
    <2>7. ASSUME NEW c \in Clients, ClientLock(c) \/ ClientStep(c) PROVE Kept'
      BY <2>7, ClientFrame DEF ClientStep
    <2>8. CASE UNCHANGED staticVars
      BY <2>8 DEF staticVars, vars
    <2> QED
      BY <2>1, <2>2, <2>3, <2>4, <2>5, <2>6, <2>7, <2>8 DEF Next, CpuStep
  <1>3. Kept => (cache_disable <=> is_in_dma \/ b)
    OBVIOUS
  <1> QED
    BY Invariance, <1>1, <1>2, <1>3, PTL DEF Spec

-----------------------------------------------------------------------------
(* This loop implements SignalService too.                                  *)

(* Nothing has been raised, and nothing is masked, before the first launch. *)
LEMMA SignalsInit == Init => Signals!Init
  BY DEF Init, BaseInit, Signals!Init, Running, InInstruction

(* A call of another thread is one step of the service, its taking of the   *)
(* lock none.                                                               *)
LEMMA SignalsCall ==
  ASSUME NEW c \in Clients, ClientLock(c) \/ ClientStep(c)
  PROVE  [Signals!Next]_(Signals!service)
  <1>1. UNCHANGED <<Running, InInstruction>>
    BY ClientFrame DEF ClientStep, Running, InInstruction
  <1>2. CASE ClientLock(c) \/ executor_set_dma_copyin(c) \/ executor_set_dma_copyout(c)
    <2>1. /\ owed' = owed /\ intr_disable' = intr_disable
          /\ flags' = flags \/ flags' = flags \cup {"dma"}
      BY <1>2 DEF ClientLock, signalVars, executor_set_dma_copyin, executor_set_dma_copyout,
                  set_dma
    <2>2. ("stop" \in flags') = ("stop" \in flags)
      BY <2>1
    <2> QED
      BY <1>1, <2>1, <2>2 DEF Signals!service
  <1>3. CASE executor_set_irq(c) \/ executor_set_nmi(c)
    <2>1. PICK interrupt \in {"irq", "nmi"} :
            /\ owed' = owed \cup {interrupt} /\ flags' = flags \cup {interrupt}
            /\ intr_disable' = intr_disable
      BY <1>3 DEF executor_set_irq, executor_set_nmi
    <2>2. ("stop" \in flags') = ("stop" \in flags)
      BY <2>1
    <2>3. Signals!Raise(interrupt)
      BY <1>1, <2>1, <2>2 DEF Signals!Raise
    <2> QED
      BY <2>3 DEF Signals!Next
  <1>4. CASE executor_set_exec_stop(c)
    <2>1. ("stop" \in flags') = TRUE /\ UNCHANGED <<owed, intr_disable>>
      BY <1>4 DEF executor_set_exec_stop
    <2>2. Signals!AskStop
      BY <1>1, <2>1 DEF Signals!AskStop
    <2> QED
      BY <2>2 DEF Signals!Next
  <1>5. CASE executor_hard_reset(c)
    <2>1. ("stop" \in flags') = FALSE /\ owed' = {} /\ intr_disable' = FALSE
      BY <1>5 DEF executor_hard_reset
    <2>2. Signals!Reset
      BY <1>1, <2>1 DEF Signals!Reset
    <2> QED
      BY <2>2 DEF Signals!Next
  <1> QED
    BY <1>2, <1>3, <1>4, <1>5 DEF ClientStep, ClientCall

(* A statement of the loop is a step of the service, or none.               *)
LEMMA SignalsLoop ==
  ASSUME IInv, Launch \/ CpuStep
  PROVE  [Signals!Next]_(Signals!service)
  <1> USE DEF Running, InInstruction
  <1>1. CASE Launch
    <2>1. /\ Running = FALSE /\ Running' = TRUE
          /\ InInstruction = FALSE /\ InInstruction' = FALSE
          /\ ("stop" \in flags') = FALSE /\ owed' = {} /\ intr_disable' = intr_disable
      BY <1>1 DEF Launch
    <2>2. Signals!Launch
      BY <2>1 DEF Signals!Launch
    <2> QED
      BY <2>2 DEF Signals!Next
  <1>2. CASE LeaveLoop \/ FetchIllegal
    <2>1. /\ Running = TRUE /\ Running' = FALSE
          /\ InInstruction = FALSE /\ InInstruction' = FALSE
          /\ ("stop" \in flags') = FALSE /\ owed' = owed /\ intr_disable' = intr_disable
      BY <1>2 DEF LeaveLoop, FetchIllegal, Return
    <2>2. owed = {}
      BY <1>2 DEF LeaveLoop, FetchIllegal, IInv, SignalInv
    <2>3. Signals!Return
      BY <2>1, <2>2 DEF Signals!Return
    <2> QED
      BY <2>3 DEF Signals!Next
  <1>3. CASE Fetch
    <2>1. /\ Running = TRUE /\ Running' = TRUE
          /\ InInstruction = FALSE /\ InInstruction' = TRUE
          /\ ~ "stop" \in flags /\ UNCHANGED <<flags, owed, intr_disable>>
      BY <1>3 DEF Fetch, signalVars
    <2>2. owed = {}
      BY <1>3 DEF Fetch, IInv, SignalInv
    <2>3. Signals!Begin
      BY <2>1, <2>2 DEF Signals!Begin
    <2> QED
      BY <2>3 DEF Signals!Next
  <1>4. CASE OpenWindow \/ OpenIntrWindow \/ CloseWindow \/ CloseIntrWindow
    <2>1. UNCHANGED <<Running, InInstruction, flags, owed, intr_disable>>
      BY <1>4 DEF OpenWindow, OpenIntrWindow, CloseWindow, CloseIntrWindow, Unlock, Relock,
                  signalVars
    <2> QED
      BY <2>1 DEF Signals!service
  <1>5. CASE StartDma
    <2>1. UNCHANGED <<Running, InInstruction, flags, owed, intr_disable>>
      BY <1>5 DEF StartDma, BeginTransfer, signalVars
    <2> QED
      BY <2>1 DEF Signals!service
  <1>6. CASE DmaStep \/ Execute
    <2>1. /\ Running = TRUE /\ Running' = TRUE /\ InInstruction = TRUE
          /\ InInstruction' <=> pc' # "boundary"
          /\ owed' = owed
          /\ flags' = flags \/ flags' = flags \ {"dma"}
      <3>1. CASE DmaStep
        <4>1. pc = "dma" /\ pc' = "boundary" /\ DmaCycle
          BY <3>1 DEF DmaStep
        <4> QED
          BY <4>1, DmaCycleFrame
      <3>2. CASE Execute
        BY <3>2 DEF Execute, signalVars
      <3> QED
        BY <1>6, <3>1, <3>2
    <2>2. ("stop" \in flags') = ("stop" \in flags)
      BY <2>1
    <2>3. intr_disable' \in BOOLEAN /\ (pc' # "boundary" => intr_disable' = intr_disable)
      <3>1. CASE DmaStep
        <4>1. intr_disable' = intr_disable
          BY <3>1, DmaCycleFrame DEF DmaStep
        <4>2. intr_disable \in BOOLEAN
          BY DEF IInv, TypeOK
        <4> QED
          BY <4>1, <4>2, Zenon
      <3>2. CASE Execute
        BY <3>2, Zenon DEF Execute
      <3> QED
        BY <1>6, <3>1, <3>2
    <2>4. CASE pc' = "boundary"
      <3>1. Signals!Finish
        BY <2>1, <2>2, <2>3, <2>4 DEF Signals!Finish
      <3> QED
        BY <3>1 DEF Signals!Next
    <2>5. CASE pc' # "boundary"
      BY <2>1, <2>2, <2>3, <2>5 DEF Signals!service
    <2> QED
      BY <2>4, <2>5
  <1>7. CASE ServiceIrq
    <2>1. /\ Running = TRUE /\ Running' = TRUE
          /\ InInstruction = FALSE /\ InInstruction' = FALSE /\ flags' = flags
      BY <1>7 DEF ServiceIrq
    <2>2. CASE "irq" \in owed
      <3>1. "irq" \in flags
        BY <1>7, <2>2 DEF ServiceIrq, IInv, SignalInv
      <3>2. owed' = owed \ {"irq"}
        BY <1>7 DEF ServiceIrq
      <3>3. intr_disable' = TRUE
        BY <1>7, <3>1 DEF ServiceIrq
      <3>4. Signals!Take("irq")
        BY <2>1, <2>2, <3>2, <3>3 DEF Signals!Take
      <3> QED
        BY <3>4 DEF Signals!Next
    <2>3. CASE "irq" \notin owed
      <3>1. "irq" \notin flags
        BY <1>7, <2>3 DEF ServiceIrq, IInv, SignalInv, Interrupts
      <3>2. intr_disable' = (intr_disable \/ "irq" \in flags)
        BY <1>7, Zenon DEF ServiceIrq
      <3>3. intr_disable' = intr_disable
        <4>1. intr_disable \in BOOLEAN
          BY DEF IInv, TypeOK
        <4> QED
          BY <3>1, <3>2, <4>1, Zenon
      <3>4. owed' = owed
        BY <1>7, <2>3 DEF ServiceIrq
      <3> QED
        BY <2>1, <3>3, <3>4 DEF Signals!service
    <2> QED
      BY <2>2, <2>3
  <1>8. CASE ServiceNmi
    <2>1. /\ Running = TRUE /\ Running' = TRUE
          /\ InInstruction = FALSE /\ InInstruction' = FALSE /\ flags' = flags
      BY <1>8 DEF ServiceNmi
    <2>2. "irq" \notin owed
      BY <1>8 DEF ServiceNmi, IInv, SignalInv
    <2>3. CASE "nmi" \in owed
      <3>1. "nmi" \in flags
        BY <1>8, <2>3 DEF ServiceNmi, IInv, SignalInv
      <3>2. owed' = owed \ {"nmi"} /\ intr_disable' = TRUE
        BY <1>8, <3>1 DEF ServiceNmi
      <3>3. Signals!Take("nmi")
        BY <2>1, <2>2, <2>3, <3>2 DEF Signals!Take
      <3> QED
        BY <3>3 DEF Signals!Next
    <2>4. CASE "nmi" \notin owed
      <3>1. "nmi" \notin flags
        BY <1>8, <2>4 DEF ServiceNmi, IInv, SignalInv, Interrupts
      <3>2. owed' = owed /\ intr_disable' = intr_disable
        BY <1>8, <3>1 DEF ServiceNmi
      <3> QED
        BY <2>1, <3>2 DEF Signals!service
    <2> QED
      BY <2>3, <2>4
  <1>9. CASE ClearInterrupts
    <2>1. UNCHANGED <<Running, InInstruction, owed, intr_disable>> /\ flags' = flags \ Interrupts
      BY <1>9 DEF ClearInterrupts
    <2>2. ("stop" \in flags') = ("stop" \in flags)
      BY <2>1 DEF Interrupts
    <2> QED
      BY <2>1, <2>2 DEF Signals!service
  <1> QED
    BY <1>1, <1>2, <1>3, <1>4, <1>5, <1>6, <1>7, <1>8, <1>9 DEF CpuStep

(* Also in the loop that executes whole instructions, and with a transfer   *)
(* in progress, every signal is served as if call and loop never overlapped.*)
THEOREM SignalsServed == Spec => ServesSignals
  <1>1. IInv /\ [Next]_staticVars => [Signals!Next]_(Signals!service)
    <2> SUFFICES ASSUME IInv, [Next]_staticVars PROVE [Signals!Next]_(Signals!service)
      OBVIOUS
    <2>1. CASE UNCHANGED staticVars
      BY <2>1 DEF staticVars, vars, Signals!service, Running, InInstruction
    <2> QED
      BY <2>1, SignalsCall, SignalsLoop DEF Next
  <1> QED
    BY Invariance, SignalsInit, <1>1, PTL DEF Spec, ServesSignals, Signals!Spec
=============================================================================
