------------------------ MODULE ExecutorNolockProofs ------------------------
(* Proofs that the invariants of ExecutorNolock hold for every set of       *)
(* clients, address space, set of requested ranges and instruction timing,  *)
(* though the loop takes no lock and flags are lost and requests torn.      *)
EXTENDS ExecutorNolock, ExecutorBaseProofs

(* The facts about a transfer's cycle, for one that clears dma in the mask. *)
MaskedBase == INSTANCE ExecutorBaseProofs WITH flags <- keep

(* The two instances of ExecutorBase describe the same step.                *)
LEMMA SameCycle == Masked!DmaCycle => MaskedBase!DmaCycle
  BY DEF Masked!DmaCycle, Masked!DmaStall, Masked!DmaRead, Masked!DmaWrite,
         Masked!TransferRest, Masked!EndTransfer, Masked!ContinueTransfer,
         Masked!NextAddr, Masked!Recorded,
         MaskedBase!DmaCycle, MaskedBase!DmaStall, MaskedBase!DmaRead, MaskedBase!DmaWrite,
         MaskedBase!TransferRest, MaskedBase!EndTransfer, MaskedBase!ContinueTransfer,
         MaskedBase!NextAddr, MaskedBase!Recorded

(* What it leaves alone, and the two ways it can go.                        *)
LEMMA MaskedCycleFrame ==
  ASSUME Masked!DmaCycle
  PROVE  /\ UNCHANGED <<owed, lock, dma_consumer, intr_disable, saved_stage, saved_cache,
                        is_dma_copyout, dma_addr_hi, dma_asked, calls>>
         /\ \/ UNCHANGED <<is_in_dma, next_stage, keep, cache_disable>>
            \/ /\ is_in_dma' = FALSE /\ next_stage' = saved_stage
               /\ keep' = keep \ {"dma"} /\ cache_disable' = saved_cache
  BY SameCycle, MaskedBase!DmaCycleFrame, AddrTopAssumption, ThreadsAssumption,
     DmaRangesAssumption, CallBoundAssumption
  DEF MaskedBase!Addr, Addr

(* It keeps the types of what it writes.                                    *)
LEMMA MaskedCycleTypes ==
  ASSUME TypeOK, LocalsInv, Masked!DmaCycle
  PROVE  /\ keep' \subseteq Flags /\ parity' \in {0, 1} /\ next_stage' \in Stages
         /\ dma_range' \in [addr_lo : Addr, addr_len : Addr] /\ cache_disable' \in BOOLEAN
         /\ is_in_dma' \in BOOLEAN /\ is_dma_started' \in BOOLEAN
         /\ dma_byte_index' \in Addr /\ dma_next_byte' \in Byte
         /\ moved' \in Seq(Addr \X Byte) /\ dma_refused' \in BOOLEAN
  <1> USE DEF MaskedBase!TransferTypes, MaskedBase!Addr, MaskedBase!Byte, MaskedBase!Flags,
              MaskedBase!Stages, Addr, Byte, Flags, Stages
  <1>1. MaskedBase!TransferTypes
    BY DEF TypeOK, LocalsInv
  <1>2. MaskedBase!TransferTypes'
    BY <1>1, SameCycle, MaskedBase!DmaCycleTypes, AddrTopAssumption, ThreadsAssumption,
       DmaRangesAssumption, CallBoundAssumption
  <1> QED
    BY <1>2

-----------------------------------------------------------------------------
(* The values a freshly allocated executor holds are of the declared types. *)
LEMMA TypeInit == Init => TypeOK /\ LocalsInv
  <1> SUFFICES ASSUME Init PROVE TypeOK /\ LocalsInv
    OBVIOUS
  <1>1. 0 \in Addr /\ Unset \in Byte
    BY AddrTopAssumption DEF Addr, Byte, Unset
  <1>2. dma_asked \in [addr_lo : Addr, addr_len : Addr]
    BY <1>1 DEF Init, BaseInit
  <1>3. moved \in Seq(Addr \X Byte)
    BY DEF Init, BaseInit
  <1> QED
    BY <1>1, <1>2, <1>3, DmaRangesAssumption
    DEF Init, BaseInit, TypeOK, LocalsInv, Signals, Labels, Stages

(* The calls a client may have in hand, told apart by how far they are.     *)
LEMMA CallFacts ==
  ASSUME CallInv
  PROVE  /\ call.at = "store" => call.op \in Signals /\ call.loaded \subseteq Flags
         /\ call.at \in {"flag", "range", "provider", "consumer"} =>
              call \in [op : {"dma"}, at : {"flag", "range", "provider", "consumer"},
                        loaded : SUBSET Flags, range : DmaRanges, copyout : BOOLEAN]
  BY DEF CallInv, NoCall

(* Every step of a call leaves the call in one of its shapes; the launching *)
(* thread does not touch it.                                                *)
LEMMA CallStep == TypeOK /\ CallInv /\ [Next]_nolockVars => CallInv'
  <1> SUFFICES ASSUME TypeOK, CallInv, [Next]_nolockVars PROVE CallInv'
    OBVIOUS
  <1>1. ASSUME call' = call \/ call' = NoCall PROVE CallInv'
    BY <1>1 DEF CallInv, NoCall
  <1> USE DEF BusRest, ClientRestN
  <1>2. CASE Launch \/ Load \/ Store \/ LeaveLoop \/ FetchIllegal \/ Fetch
    BY <1>1, <1>2 DEF Launch, Load, Store, LeaveLoop, FetchIllegal, Fetch, Return
  <1>3. CASE StartDma \/ CallsNull \/ DmaStep \/ ExecCycle
    BY <1>1, <1>3 DEF StartDma, CallsNull, DmaStep, ExecCycle
  <1>4. CASE ServiceIrq \/ ServiceNmi \/ ClearInterrupts
    BY <1>1, <1>4 DEF ServiceIrq, ServiceNmi, ClearInterrupts
  <1>5. ASSUME NEW c \in Clients, ClientEnter(c) \/ EnterReset(c) PROVE CallInv'
    BY <1>1, <1>5 DEF ClientEnter, EnterReset, CallInv, TypeOK
  <1>6. ASSUME NEW c \in Clients, ClientStep(c) PROVE CallInv'
    <2>1. CASE StoreSignal(c) \/ StoreReset(c) \/ StoreDmaConsumer(c)
      BY <1>1, <2>1 DEF StoreSignal, StoreReset, StoreDmaConsumer
    <2>2. CASE StoreDmaFlag(c) \/ StoreDmaRange(c) \/ StoreDmaProvider(c)
      BY <2>2, CallFacts DEF StoreDmaFlag, StoreDmaRange, StoreDmaProvider, CallInv
    <2> QED
      BY <1>6, <2>1, <2>2 DEF ClientStep
  <1>7. CASE UNCHANGED nolockVars
    BY <1>1, <1>7 DEF nolockVars
  <1> QED
    BY <1>2, <1>3, <1>4, <1>5, <1>6, <1>7 DEF Next, CpuStep

(* Torn requests and lost flags do not take a variable out of its type.     *)
LEMMA TypeStep ==
  TypeOK /\ LocalsInv /\ CallInv /\ [Next]_nolockVars => TypeOK' /\ LocalsInv'
  <1> SUFFICES ASSUME TypeOK, LocalsInv, CallInv, [Next]_nolockVars
               PROVE  TypeOK' /\ LocalsInv'
    OBVIOUS
  <1> USE DEF TypeOK, LocalsInv, Labels, Stages, BusRest, ClientRestN, requestVars,
              transferVars, signalVars, rmwVars
  <1>1. Interrupts \subseteq Flags /\ Signals \subseteq Flags /\ "dma" \in Flags
    BY DEF Interrupts, Signals, Flags
  <1>2. CASE Launch
    <2>1. again' \in BOOLEAN
      BY <1>2, Zenon DEF Launch, Clear
    <2> QED
      BY <1>2, <2>1 DEF Launch, Clear
  <1>3. CASE Load
    BY <1>3 DEF Load
  <1>4. CASE Store
    <2>1. again' \in BOOLEAN
      BY <1>4, Zenon DEF Store
    <2> QED
      BY <1>4, <2>1 DEF Store
  <1>5. CASE LeaveLoop \/ FetchIllegal
    <2>1. again' \in BOOLEAN
      BY <1>5, Zenon DEF LeaveLoop, FetchIllegal, Return, Clear
    <2> QED
      BY <1>5, <2>1 DEF LeaveLoop, FetchIllegal, Return, Clear
  <1>6. CASE Fetch
    BY <1>6, StaleStagesAssumption, InstrCyclesAssumption DEF Fetch
  <1>7. CASE StartDma
    <2>1. get_end(dma_range) \in Addr /\ 0 \in Addr
      BY GetEndFacts, AddrTopAssumption DEF Addr
    <2>2. moved' \in Seq(Addr \X Byte)
      BY <1>7 DEF StartDma, BeginTransfer
    <2>3. /\ dma_addr_hi' \in Addr /\ dma_byte_index' \in Addr
          /\ dma_asked' \in [addr_lo : Addr, addr_len : Addr]
      BY <1>7, <2>1 DEF StartDma, BeginTransfer
    <2>4. parity' \in {0, 1} /\ saved_stage' \in Stages /\ next_stage' \in Stages
      BY <1>7 DEF StartDma, BeginTransfer
    <2>5. /\ is_in_dma' \in BOOLEAN /\ is_dma_started' \in BOOLEAN
          /\ is_dma_copyout' \in BOOLEAN /\ saved_cache' \in BOOLEAN
          /\ cache_disable' \in BOOLEAN /\ dma_refused' \in BOOLEAN
      BY <1>7, Zenon DEF StartDma, BeginTransfer
    <2> QED
      BY <1>7, <2>2, <2>3, <2>4, <2>5 DEF StartDma, BeginTransfer
  <1>8. CASE CallsNull
    BY <1>8 DEF CallsNull
  <1>9. CASE DmaStep
    <2>1. Masked!DmaCycle /\ UNCHANGED <<flags, seen, cycle, cycles_needed>>
      BY <1>9 DEF DmaStep
    <2>2. pc' \in Labels /\ after' \in Labels
      BY <1>9 DEF DmaStep, Continue
    <2>3. again' \in BOOLEAN
      BY <1>9, Zenon DEF DmaStep
    <2> QED
      BY <2>1, <2>2, <2>3, MaskedCycleFrame, MaskedCycleTypes
  <1>10. CASE ExecCycle
    BY <1>10 DEF ExecCycle, NextCycle, Continue
  <1>11. CASE ServiceIrq
    <2>1. intr_disable' \in BOOLEAN
      BY <1>11, Zenon DEF ServiceIrq
    <2> QED
      BY <1>11, <2>1 DEF ServiceIrq
  <1>12. CASE ServiceNmi
    <2>1. intr_disable' \in BOOLEAN
      BY <1>12, Zenon DEF ServiceNmi
    <2> QED
      BY <1>12, <2>1 DEF ServiceNmi
  <1>13. CASE ClearInterrupts
    <2>1. again' \in BOOLEAN
      BY <1>13, Zenon DEF ClearInterrupts, Clear
    <2> QED
      BY <1>13, <2>1 DEF ClearInterrupts, Clear
  <1> USE DEF CpuUntouched, CpuRest, cpuVars
  <1>14. ASSUME NEW c \in Clients, ClientEnter(c) PROVE TypeOK' /\ LocalsInv'
    BY <1>14 DEF ClientEnter
  <1>15. ASSUME NEW c \in Clients, EnterReset(c) PROVE TypeOK' /\ LocalsInv'
    <2>1. intr_disable' \in BOOLEAN
      BY <1>15, Zenon DEF EnterReset
    <2> QED
      BY <1>15, <2>1 DEF EnterReset
  <1>16. ASSUME NEW c \in Clients, ClientStep(c) PROVE TypeOK' /\ LocalsInv'
    <2>1. CASE StoreSignal(c)
      BY <1>1, <2>1, CallFacts DEF StoreSignal
    <2>2. CASE StoreReset(c)
      BY <2>2 DEF StoreReset
    <2>3. CASE StoreDmaFlag(c)
      BY <1>1, <2>3, CallFacts DEF StoreDmaFlag
    <2>4. CASE StoreDmaRange(c)
      BY <2>4, CallFacts, DmaRangesAssumption DEF StoreDmaRange
    <2>5. CASE StoreDmaProvider(c)
      BY <2>5 DEF StoreDmaProvider
    <2>6. CASE StoreDmaConsumer(c)
      BY <2>6, CallFacts DEF StoreDmaConsumer
    <2> QED
      BY <1>16, <2>1, <2>2, <2>3, <2>4, <2>5, <2>6 DEF ClientStep
  <1>17. CASE UNCHANGED nolockVars
    BY <1>17 DEF nolockVars, vars
  <1> QED
    BY <1>2, <1>3, <1>4, <1>5, <1>6, <1>7, <1>8, <1>9, <1>10, <1>11, <1>12, <1>13, <1>14,
       <1>15, <1>16, <1>17 DEF Next, CpuStep

-----------------------------------------------------------------------------
(* The clients leave the locals of the launching thread alone.              *)
LEMMA NolockClientFrame ==
  ASSUME NEW c \in Clients, ClientEnter(c) \/ EnterReset(c) \/ ClientStep(c)
  PROVE  UNCHANGED <<pc, cycle, cycles_needed, next_stage, saved_stage, keep, after,
                     is_in_dma, saved_cache, cache_disable>>
  BY DEF ClientEnter, EnterReset, ClientStep, StoreSignal, StoreReset, StoreDmaFlag,
         StoreDmaRange, StoreDmaProvider, StoreDmaConsumer, CpuUntouched, CpuRest, cpuVars,
         transferVars, rmwVars

(* The cycle that ends a transfer is the one that has dma to clear.         *)
LEMMA DmaStepCases ==
  ASSUME DmaStep, MaskInv
  PROVE  /\ pc = "dma" /\ UNCHANGED <<cycle, cycles_needed, saved_stage, saved_cache>>
         /\ \/ /\ UNCHANGED <<is_in_dma, next_stage, keep, cache_disable>>
               /\ pc' = Continue /\ after' = after
            \/ /\ is_in_dma' = FALSE /\ next_stage' = saved_stage
               /\ cache_disable' = saved_cache
               /\ pc' = "load" /\ after' = Continue
  <1>1. keep = Flags /\ "dma" \in Flags /\ Masked!DmaCycle
    BY DEF DmaStep, MaskInv, Flags
  <1> QED
    BY <1>1, MaskedCycleFrame DEF DmaStep

(* No flag but those to be cleared is masked, and only while clearing.      *)
LEMMA MaskStep == TypeOK /\ MaskInv /\ StageInv /\ [Next]_nolockVars => MaskInv'
  <1> SUFFICES ASSUME TypeOK, MaskInv, StageInv, [Next]_nolockVars PROVE MaskInv'
    OBVIOUS
  <1> USE DEF MaskInv
  <1>1. CASE Launch \/ Load \/ Store \/ LeaveLoop \/ FetchIllegal \/ Fetch
    BY <1>1 DEF Launch, Load, Store, LeaveLoop, FetchIllegal, Fetch, Return, Clear, rmwVars
  <1>2. CASE StartDma \/ CallsNull
    BY <1>2 DEF StartDma, CallsNull, rmwVars
  <1>3. CASE DmaStep
    <2>1. is_in_dma /\ keep = Flags
      BY <1>3 DEF DmaStep, StageInv
    <2> QED
      BY <1>3, <2>1, DmaStepCases DEF Continue
  <1>4. CASE ExecCycle
    BY <1>4 DEF ExecCycle, Continue, rmwVars
  <1>5. CASE ServiceIrq \/ ServiceNmi \/ ClearInterrupts
    BY <1>5 DEF ServiceIrq, ServiceNmi, ClearInterrupts, Clear, rmwVars
  <1>6. ASSUME NEW c \in Clients, ClientEnter(c) \/ EnterReset(c) \/ ClientStep(c)
        PROVE  MaskInv'
    BY <1>6, NolockClientFrame
  <1>7. CASE UNCHANGED nolockVars
    BY <1>7 DEF nolockVars, vars, rmwVars
  <1> QED
    BY <1>1, <1>2, <1>3, <1>4, <1>5, <1>6, <1>7 DEF Next, CpuStep

(* One more call ends the instruction or leaves it in the middle, an        *)
(* endless one always in the middle.                                        *)
LEMMA OneMoreCall ==
  ASSUME InMiddle, cycles_needed \in Nat, cycle' = NextCycle, UNCHANGED cycles_needed
  PROVE  /\ cycle' \in Nat \ {1}
         /\ cycle' # cycles_needed => InMiddle'
         /\ cycle' = cycles_needed => cycles_needed # Endless
  <1>1. CASE cycles_needed = Endless
    BY <1>1 DEF InMiddle, NextCycle, Endless
  <1>2. CASE cycles_needed # Endless
    <2>1. cycle \in Nat \ {0} /\ cycle < cycles_needed /\ cycle' = cycle + 1
      BY <1>2 DEF InMiddle, NextCycle
    <2>2. cycle' # cycles_needed => cycle' \in 1 .. cycles_needed - 1
      BY <2>1
    <2> QED
      BY <1>2, <2>1, <2>2 DEF InMiddle
  <1> QED
    BY <1>1, <1>2

(* The instruction a transfer interrupts is resumed where it was, unless    *)
(* the transfer came before its first cycle.                                *)
LEMMA StageStep ==
  TypeOK /\ LocalsInv /\ MaskInv /\ StageInv /\ [Next]_nolockVars => StageInv'
  <1> SUFFICES ASSUME TypeOK, LocalsInv, MaskInv, StageInv, [Next]_nolockVars PROVE StageInv'
    OBVIOUS
  <1> USE DEF StageInv, Place, BusRest, transferVars
  <1>0. ASSUME UNCHANGED <<cycle, cycles_needed>> PROVE InMiddle' <=> InMiddle
    BY <1>0 DEF InMiddle
  <1>1. CASE Launch \/ LeaveLoop \/ FetchIllegal
    BY <1>1 DEF Launch, LeaveLoop, FetchIllegal, Return, Clear
  <1>2. CASE Load
    BY <1>0, <1>2 DEF Load
  <1>3. CASE Store
    BY <1>0, <1>3 DEF Store, MaskInv
  <1>4. CASE Fetch
    <2>1. PICK n \in InstrCycles : cycles_needed' = n
      BY <1>4 DEF Fetch
    <2>2. n \in Nat \ {1}
      BY InstrCyclesAssumption
    <2>3. cycle' = 1 /\ pc = "loop" /\ pc' = "check" /\ is_in_dma' = is_in_dma
      BY <1>4 DEF Fetch
    <2>4. InMiddle'
      BY <2>1, <2>2, <2>3 DEF InMiddle, Endless
    <2> QED
      BY <2>1, <2>3, <2>4
  <1>5. CASE StartDma
    BY <1>0, <1>5 DEF StartDma, BeginTransfer
  <1>6. CASE CallsNull
    BY <1>6 DEF CallsNull
  <1>7. CASE DmaStep
    <2>1. is_in_dma /\ next_stage = "exec_dma"
      BY <1>7 DEF DmaStep
    <2> QED
      BY <1>0, <1>7, <2>1, DmaStepCases DEF Continue
  <1>8. CASE ExecCycle
    <2>1. /\ pc = "check" /\ is_in_dma' = is_in_dma /\ UNCHANGED cycles_needed
          /\ cycle' = NextCycle /\ pc' = Continue
          /\ next_stage' = IF cycle' = cycles_needed THEN "end" ELSE "next_cycle"
      BY <1>8 DEF ExecCycle
    <2>2. cycle' # cycles_needed => InMiddle'
      BY <2>1, OneMoreCall DEF LocalsInv
    <2> QED
      BY <2>1, <2>2 DEF Continue
  <1>9. CASE ServiceIrq \/ ServiceNmi \/ ClearInterrupts
    BY <1>9 DEF ServiceIrq, ServiceNmi, ClearInterrupts, Clear
  <1>10. ASSUME NEW c \in Clients, ClientEnter(c) \/ EnterReset(c) \/ ClientStep(c)
         PROVE  StageInv'
    BY <1>0, <1>10, NolockClientFrame
  <1>11. CASE UNCHANGED nolockVars
    BY <1>0, <1>11 DEF nolockVars, vars, rmwVars
  <1> QED
    BY <1>1, <1>2, <1>3, <1>4, <1>5, <1>6, <1>7, <1>8, <1>9, <1>10, <1>11 DEF Next, CpuStep

-----------------------------------------------------------------------------
(* The strengthened invariant holds in every reachable state.               *)
THEOREM Invariance == Spec => []IInv
  <1>1. Init => IInv
    <2> SUFFICES ASSUME Init PROVE IInv
      OBVIOUS
    <2>1. TypeOK /\ LocalsInv
      BY TypeInit
    <2>2. CallInv /\ MaskInv /\ StageInv
      BY DEF Init, BaseInit, CallInv, MaskInv, StageInv, Place
    <2> QED
      BY <2>1, <2>2 DEF IInv
  <1>2. IInv /\ [Next]_nolockVars => IInv'
    BY TypeStep, CallStep, MaskStep, StageStep DEF IInv
  <1> QED
    BY <1>1, <1>2, PTL DEF Spec

(* Every variable keeps its type, with no lock between the threads.         *)
THEOREM TypeCorrect == Spec => []TypeOK
  <1>1. IInv => TypeOK
    BY DEF IInv
  <1> QED
    BY Invariance, <1>1, PTL

(* An instruction is not cut short by a torn request or a lost flag.        *)
THEOREM InstructionsAllOrNothing == Spec => []AllOrNothing
  <1>1. IInv => AllOrNothing
    BY DEF IInv, StageInv, Place, AllOrNothing
  <1> QED
    BY Invariance, <1>1, PTL

(* However flags race, the bus's caches are off exactly while a transfer is *)
(* in progress.                                                             *)
THEOREM CachesRestored == Spec => CacheRestored
  <1> SUFFICES ASSUME NEW b \in BOOLEAN
               PROVE  Spec /\ (cache_disable <=> b) => [](cache_disable <=> is_in_dma \/ b)
    BY DEF CacheRestored
  <1> DEFINE Kept == /\ cache_disable <=> is_in_dma \/ b
                     /\ is_in_dma => (saved_cache <=> b)
  <1>1. Init /\ (cache_disable <=> b) => Kept
    BY DEF Init, BaseInit
  <1>2. IInv /\ Kept /\ [Next]_nolockVars => Kept'
    <2> SUFFICES ASSUME IInv, Kept, [Next]_nolockVars PROVE Kept'
      OBVIOUS
    <2> USE DEF BusRest, transferVars
    <2>1. CASE StartDma
      BY <2>1 DEF StartDma, BeginTransfer, IInv, StageInv
    <2>2. CASE DmaStep
      <3>1. /\ is_in_dma /\ saved_cache' = saved_cache
            /\ \/ is_in_dma' = is_in_dma /\ cache_disable' = cache_disable
               \/ is_in_dma' = FALSE /\ cache_disable' = saved_cache
        BY <2>2, DmaStepCases DEF IInv, StageInv
      <3>2. CASE is_in_dma' = is_in_dma /\ cache_disable' = cache_disable
        BY <3>1, <3>2, Zenon
      <3>3. CASE is_in_dma' = FALSE /\ cache_disable' = saved_cache
        <4>1. ~ is_in_dma' /\ (cache_disable' <=> b)
          BY <3>1, <3>3, Zenon
        <4> QED
          BY <4>1, Zenon
      <3> QED
        BY <3>1, <3>2, <3>3, Zenon
    <2>3. CASE Launch \/ Load \/ Store \/ LeaveLoop \/ FetchIllegal \/ Fetch
      BY <2>3 DEF Launch, Load, Store, LeaveLoop, FetchIllegal, Fetch, Return
    <2>4. CASE CallsNull \/ ExecCycle \/ ServiceIrq \/ ServiceNmi \/ ClearInterrupts
      BY <2>4 DEF CallsNull, ExecCycle, ServiceIrq, ServiceNmi, ClearInterrupts
    <2>5. ASSUME NEW c \in Clients, ClientEnter(c) \/ EnterReset(c) \/ ClientStep(c)
          PROVE  Kept'
      BY <2>5, NolockClientFrame
    <2>6. CASE UNCHANGED nolockVars
      BY <2>6 DEF nolockVars, vars
    <2> QED
      BY <2>1, <2>2, <2>3, <2>4, <2>5, <2>6 DEF Next, CpuStep
  <1>3. Kept => (cache_disable <=> is_in_dma \/ b)
    OBVIOUS
  <1> QED
    BY Invariance, <1>1, <1>2, <1>3, PTL DEF Spec
=============================================================================
